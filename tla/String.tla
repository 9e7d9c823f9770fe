------------------------------- MODULE String -------------------------------
(***************************************************************************)
(* String (core/String.cpp): characters with a terminator in a             *)
(* SharedBuffer that copies share until one of them is edited.  One        *)
(* thread.  A String that is destroyed is an empty one without a buffer.   *)
(***************************************************************************)
EXTENDS Integers, Sequences, FiniteSets
LOCAL INSTANCE Functions

CONSTANTS
    Strings, Buffers,
    Literals,       \* the char * arguments
    Spaces, Lower(_), Upper(_),
    NUL, Junk,      \* the terminator, and a byte nobody has written
    MaxChars,       \* bound on the characters of all strings
    NULL

VARIABLES
    str,    \* mData and mSize of each string
    heap,   \* each buffer: its count, its size and its bytes, or NULL
    value,  \* what each string should read: a history variable
    flaw    \* what String.cpp has done wrong to each string, or "none": a history variable

vars == <<str, heap, value, flaw>>

Flaws == {"none", "unterminated", "overwritten", "overlapped"}

Own == INSTANCE OwnedSequences WITH
    Holders <- Strings, NoValue <- NULL, Fresh <- {}, Pieces <- {}, Key <- LAMBDA c : 0

Init ==
    /\ str = [s \in Strings |-> [mData |-> NULL, mSize |-> 0]]
    /\ heap = [b \in Buffers |-> NULL]
    /\ value = [s \in Strings |-> <<>>]
    /\ flaw = [s \in Strings |-> "none"]

HasData(s) == str[s].mData # NULL
BytesOf(s) == heap[str[s].mData].bytes
Size(s) == str[s].mSize
Chars(s) == IF HasData(s) THEN SubSeq(BytesOf(s), 1, Size(s)) ELSE <<>>
IsShared(s) == heap[str[s].mData].refs > 1

\* Bytes past the size are the end guard and what lies behind it.
Free == CHOOSE b \in Buffers : heap[b] = NULL
Retain(hp, b) == [hp EXCEPT ![b].refs = @ + 1]
Release(hp, b) ==
    IF b = NULL THEN hp
    ELSE IF hp[b].refs = 1 THEN [hp EXCEPT ![b] = NULL]
    ELSE [hp EXCEPT ![b].refs = @ - 1]

Resized(bytes, n) == [i \in 1 .. n |-> IF i <= Len(bytes) THEN bytes[i] ELSE Junk]

\* memcpy or memmove of what to position i.
Put(bytes, i, what) ==
    SubSeq(bytes, 1, i) \o what \o SubSeq(bytes, i + Len(what) + 1, Len(bytes))

\* The buffer after edit(n): the same one if it is not shared and large
\* enough, else grown or copied.
Edit(s, n) ==
    IF ~IsShared(s) /\ n <= Len(BytesOf(s)) THEN BytesOf(s) ELSE Resized(BytesOf(s), n)
EditSame(s) == BytesOf(s)

\* What lies behind the byte at the size of the only holder is as good as Junk: no
\* operation reads it.
Used(bytes, size) == [i \in DOMAIN bytes |-> IF i <= size + 1 THEN bytes[i] ELSE Junk]

\* s now has these bytes in a buffer of the given size, and size of them count.
Store(s, room, bytes, size) ==
    LET b == IF IsShared(s) THEN Free ELSE str[s].mData IN
    /\ heap' = [(IF IsShared(s) THEN Release(heap, str[s].mData) ELSE heap)
                EXCEPT ![b] = [refs |-> 1, mSize |-> room, bytes |-> Used(bytes, size)]]
    /\ str' = [str EXCEPT ![s] = [mData |-> b, mSize |-> size]]

Flawed(s, f) == flaw' = [flaw EXCEPT ![s] = f]

-----------------------------------------------------------------------------

\* String(x)
Construct(s, x) ==
    /\ ~HasData(s)
    /\ heap' = [heap EXCEPT ![Free] =
            [refs |-> 1, mSize |-> Len(x) + 1, bytes |-> Append(x, NUL)]]
    /\ str' = [str EXCEPT ![s] = [mData |-> Free, mSize |-> Len(x)]]
    /\ Flawed(s, "none")

CopyConstruct(s, t) ==
    /\ ~HasData(s) /\ HasData(t)
    /\ heap' = Retain(heap, str[t].mData)
    /\ str' = [str EXCEPT ![s] = str[t]]
    /\ Flawed(s, flaw[t])

\* ~String and clear
Clear(s) ==
    /\ HasData(s)
    /\ heap' = Release(heap, str[s].mData)
    /\ str' = [str EXCEPT ![s] = [mData |-> NULL, mSize |-> 0]]
    /\ Flawed(s, "none")

\* set(t): t without a buffer is dereferenced, and an only holder that is set
\* to itself retains what it has freed.
Set(s, t) ==
    /\ HasData(t)
    /\ s = t => IsShared(s)
    /\ heap' = Retain(Release(heap, str[s].mData), str[t].mData)
    /\ str' = [str EXCEPT ![s] = str[t]]
    /\ Flawed(s, flaw[t])

\* set(x) writes no terminator, and it writes into a buffer that is large
\* enough, shared or not.
SetsInPlace(s, x) == HasData(s) /\ Len(BytesOf(s)) > Len(x)

SetChars(s, x) ==
    /\ flaw' = [t \in Strings |->
            IF t = s THEN "unterminated"
            ELSE IF SetsInPlace(s, x) /\ str[t].mData = str[s].mData THEN "overwritten"
            ELSE flaw[t]]
    /\ IF SetsInPlace(s, x)
       THEN /\ heap' = [heap EXCEPT ![str[s].mData].bytes =
                   IF IsShared(s) THEN Put(@, 0, x) ELSE Used(Put(@, 0, x), Len(x))]
            /\ str' = [str EXCEPT ![s].mSize = Len(x)]
       ELSE LET hp == Release(heap, str[s].mData)
                b == CHOOSE c \in Buffers : hp[c] = NULL IN
            /\ heap' = [hp EXCEPT ![b] =
                   [refs |-> 1, mSize |-> Len(x) + 1, bytes |-> Append(x, Junk)]]
            /\ str' = [str EXCEPT ![s] = [mData |-> b, mSize |-> Len(x)]]

Terminated(x) == Append(x, NUL)

\* What strncpy finds in t when it writes to position pos of s: so many bytes of
\* t.  If t is s, they overlap with what it writes, and that is undefined: they
\* are read all at once, or one by one, those behind pos after they were written.
Found(s, pos, t) ==
    LET n == IF pos = Size(s) THEN Size(t) + 1 ELSE Size(t)
        bytes == SubSeq(BytesOf(t), 1, n) IN
    IF s # t \/ pos = 0 THEN {bytes}
    ELSE {bytes, [i \in 1 .. n |-> bytes[((i - 1) % pos) + 1]]}

\* append(x, n), once neither is empty.
AppendBytes(s, x) ==
    LET n == Size(s) + Len(x)
        bytes == Edit(s, n) IN
    Store(s, Len(bytes), Put(bytes, Size(s), x), n - 1)

(* Mutant: no byte is asked for the terminator. *)
InsertNoTerminator(s, pos, x) ==
    LET n == Size(s) + Len(x)
        bytes == Edit(s, n) IN
    Store(s, Len(bytes),
          Put(Put(bytes, pos + Len(x), SubSeq(bytes, pos + 1, Size(s) + 1)), pos, x), n)

\* insert(pos, x), once neither is empty and pos is before the end: the rest
\* moves with one byte more, for the terminator.
InsertBytes(s, pos, x) ==
    LET n == Size(s) + Len(x) + 1
        bytes == Edit(s, n) IN
    Store(s, Len(bytes),
          Put(Put(bytes, pos + Len(x), SubSeq(bytes, pos + 1, Size(s) + 1)), pos, x), n - 1)

\* The terminator comes with the bytes of t; an insert before the end keeps that of s.
Insert(s, pos, t) ==
    /\ pos <= Size(s)
    /\ IF Size(t) = 0 THEN UNCHANGED <<str, heap, flaw>>
       ELSE IF Size(s) = 0 THEN Set(s, t)
       ELSE \E x \in Found(s, pos, t) :
            IF pos = Size(s)
            THEN AppendBytes(s, x) /\ Flawed(s, IF s = t THEN "unterminated" ELSE flaw[t])
            ELSE /\ InsertBytes(s, pos, x)
                 /\ Flawed(s, IF x = Chars(t) THEN flaw[s] ELSE "overlapped")

InsertChars(s, pos, x) ==
    /\ pos <= Size(s)
    /\ IF x = <<>> THEN UNCHANGED <<str, heap, flaw>>
       ELSE IF Size(s) = 0 THEN SetChars(s, x)
       ELSE IF pos = Size(s) THEN AppendBytes(s, Terminated(x)) /\ Flawed(s, "none")
       ELSE InsertBytes(s, pos, x) /\ UNCHANGED flaw

Erase(s, pos, n) ==
    LET rest == SubSeq(BytesOf(s), pos + n + 1, Size(s)) IN
    /\ pos < Size(s) /\ pos + n <= Size(s)
    /\ Store(s, heap[str[s].mData].mSize,
             Put(EditSame(s), pos, Terminated(rest)), Size(s) - n)
    /\ Flawed(s, "none")

Least(set) == CHOOSE i \in set : \A j \in set : i <= j
Greatest(set) == CHOOSE i \in set : \A j \in set : j <= i

Trimmed(x) ==
    LET kept == {i \in DOMAIN x : x[i] \notin Spaces} IN
    IF kept = {} THEN <<>> ELSE SubSeq(x, Least(kept), Greatest(kept))

Trim(s) ==
    IF Size(s) = 0 THEN UNCHANGED <<str, heap, flaw>>
    ELSE /\ Store(s, heap[str[s].mData].mSize,
                  Put(EditSame(s), 0, Terminated(Trimmed(Chars(s)))),
                  Len(Trimmed(Chars(s))))
         /\ Flawed(s, "none")

\* lower, upper, and a write through operator[].
Rewrite(s, x) ==
    /\ HasData(s)
    /\ Store(s, heap[str[s].mData].mSize, Put(EditSame(s), 0, x), Size(s))
    /\ UNCHANGED flaw

Lowered(x) == [i \in DOMAIN x |-> Lower(x[i])]
Raised(x) == [i \in DOMAIN x |-> Upper(x[i])]
WithFirst(x, c) == IF x = <<>> THEN x ELSE [x EXCEPT ![1] = c]

\* strstr: it stops at the terminator, which must be there.
IsTerminated(s) == HasData(s) /\ BytesOf(s)[Size(s) + 1] = NUL
IndexOf(x, sub) ==
    LET at == {i \in 0 .. Len(x) : i + Len(sub) <= Len(x)
                    /\ SubSeq(x, i + 1, i + Len(sub)) = sub} IN
    IF at = {} THEN -1 ELSE Least(at)

\* replace(x, y): the size asked for is computed before the search, and wraps
\* around if x is too long.
Replace(s, x, y) ==
    LET i == IndexOf(Chars(s), x)
        n == Size(s) + Len(y) - Len(x)
        bytes == IF n > Size(s) THEN Edit(s, n + 1) ELSE EditSame(s)
        rest == SubSeq(bytes, i + Len(x) + 1, Size(s) + 1) IN
    /\ IsTerminated(s) /\ Len(x) <= Size(s) + Len(y)
    /\ IF i < 0 THEN Store(s, Len(bytes), bytes, Size(s))
       ELSE Store(s, Len(bytes), Put(Put(bytes, i + Len(y), rest), i, y), n)
    /\ UNCHANGED flaw

\* swap does nothing to strings that share their buffer.
Swap(s, t) ==
    /\ s # t
    /\ IF str[s].mData = str[t].mData THEN UNCHANGED <<str, flaw>>
       ELSE /\ str' = [str EXCEPT ![s] = str[t], ![t] = str[s]]
            /\ flaw' = [flaw EXCEPT ![s] = flaw[t], ![t] = flaw[s]]
    /\ UNCHANGED heap

-----------------------------------------------------------------------------

\* What the client asked for is recorded in value.
Replaced(s, x, y) ==
    LET i == IndexOf(value[s], x) IN
    IF i < 0 THEN UNCHANGED value ELSE Own!Splice(s, i, Len(x), y)

Spoiled(s) == flaw[s] \in {"overwritten", "overlapped"}

\* The last step of a run may go past the bound.
WithinBound ==
    \/ \E s \in Strings : Spoiled(s)
    \/ SumFunction([s \in Strings |-> Size(s)]) <= MaxChars

\* The run ends with the first string that is spoiled.
Next ==
    /\ \A s \in Strings : ~Spoiled(s)
    /\ \E s \in Strings :
        \/ \E x \in Literals :
            \/ Construct(s, x) /\ Own!Become(s, x)
            \/ SetChars(s, x) /\ Own!Become(s, x)
            \/ \E y \in Literals : x # <<>> /\ Replace(s, x, y) /\ Replaced(s, x, y)
        \/ \E t \in Strings :
            \/ (CopyConstruct(s, t) \/ Set(s, t)) /\ Own!Become(s, value[t])
            \/ Swap(s, t) /\ value' = [value EXCEPT ![s] = value[t], ![t] = value[s]]
        \/ Clear(s) /\ Own!Become(s, <<>>)
        \/ \E pos \in 0 .. Size(s) :
            \/ \E t \in Strings : Insert(s, pos, t) /\ Own!Insert(s, pos, value[t])
            \/ \E x \in Literals : InsertChars(s, pos, x) /\ Own!Insert(s, pos, x)
            \/ \E n \in 1 .. Size(s) : Erase(s, pos, n) /\ Own!Erase(s, pos, n)
        \/ Trim(s) /\ Own!Become(s, Trimmed(value[s]))
        \/ Rewrite(s, Lowered(Chars(s))) /\ Own!Become(s, Lowered(value[s]))
        \/ Rewrite(s, Raised(Chars(s))) /\ Own!Become(s, Raised(value[s]))
        \/ \E c \in Spaces :
            Rewrite(s, WithFirst(Chars(s), c)) /\ Own!Become(s, WithFirst(value[s], c))
    /\ WithinBound'

Spec == Init /\ [][Next]_vars

-----------------------------------------------------------------------------

Sharers(b) == {s \in Strings : str[s].mData = b}

\* c_str(): what strcmp, strlen and printf take for the string.
CString(s) ==
    LET ends == {i \in DOMAIN BytesOf(s) : BytesOf(s)[i] = NUL} IN
    IF ends = {} THEN BytesOf(s) ELSE SubSeq(BytesOf(s), 1, Least(ends) - 1)

\* Every string has the characters its own operations have made of it, unless a
\* set in place or an overlapping copy has spoiled them, and c_str() ends with
\* them, unless the terminator is one that set or append has not written.
HoldsWhatItShould ==
    \A s \in Strings :
        /\ ~Spoiled(s) => Chars(s) = value[s]
        /\ HasData(s) /\ flaw[s] = "none" => CString(s) = value[s]

\* No operation writes past the buffer it has asked for, each string has room
\* for a terminator, and a buffer lives as long as a string has it.
BuffersAreSound ==
    \A b \in Buffers :
        IF heap[b] = NULL THEN Sharers(b) = {}
        ELSE /\ Len(heap[b].bytes) = heap[b].mSize
             /\ heap[b].refs = Cardinality(Sharers(b)) /\ Sharers(b) # {}
             /\ \A s \in Sharers(b) : Size(s) < heap[b].mSize
=============================================================================
