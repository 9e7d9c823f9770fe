------------------------------- MODULE Vector -------------------------------
(***************************************************************************)
(* Vector (stl/Vector.cpp): an array with room to grow in a SharedBuffer   *)
(* that copies share until one of them is written.  One thread; what other *)
(* threads do to the counts meanwhile is SharedBuffer's subject.  A cell   *)
(* of the storage holds an element or Raw memory.                          *)
(***************************************************************************)
EXTENDS Naturals, Sequences, FiniteSets
LOCAL INSTANCE Functions

CONSTANTS
    Vectors, Storages,
    Elements, Key(_),
    Capacities,     \* what constructors are called with, at least 1
    MaxItems,       \* bound on the items of all vectors
    Raw, NULL

VARIABLES
    vec,    \* each vector: its storage, mCapacity and mItemCount, or NULL
    heap,   \* each storage: its count, mSize and cells
    value   \* what each vector should hold: a history variable

vars == <<vec, heap, value>>

Own == INSTANCE OwnedSequences WITH
    Holders <- Vectors, NoValue <- NULL, Fresh <- {<<>>}, Pieces <- {}

RawCells(n) == [i \in 1 .. n |-> Raw]

\* Storage that is not allocated.
Freed == [refs |-> 0]

Init ==
    /\ vec = [v \in Vectors |-> NULL]
    /\ heap = [b \in Storages |-> Freed]
    /\ Own!Init

Exists(v) == vec[v] # NULL
CellsOf(v) == heap[vec[v].storage].cells
Items(v) == SubSeq(CellsOf(v), 1, vec[v].mItemCount)
IsNotShared(v) == heap[vec[v].storage].refs = 1

\* SharedBuffer::Create(size), with the elements the caller copies into it;
\* past the size are the end guard and what lies behind it.
Free == CHOOSE b \in Storages : heap[b].refs = 0
Create(hp, size, cells) ==
    [hp EXCEPT ![Free] = [refs |-> 1, mSize |-> size,
                          cells |-> cells \o RawCells(size - Len(cells))]]

\* _release: the last one destructs the elements and deallocates.
Release(hp, b) ==
    LET r == hp[b] IN
    [hp EXCEPT ![b] = IF r.refs = 1 THEN Freed ELSE [r EXCEPT !.refs = r.refs - 1]]

\* v moves to new storage of the given size with these elements in it.
Relocate(v, capacity, size, cells, count) ==
    /\ heap' = Release(Create(heap, size, cells), vec[v].storage)
    /\ vec' = [vec EXCEPT ![v] = [storage |-> Free, mCapacity |-> capacity,
                                  mItemCount |-> count]]

\* v's storage is written where it is.
InPlace(v, cells, count) ==
    /\ heap' = [heap EXCEPT ![vec[v].storage].cells = cells]
    /\ vec' = [vec EXCEPT ![v].mItemCount = count]

\* s, then what the cells held behind it.
Over(s, cells) == s \o SubSeq(cells, Len(s) + 1, Len(cells))

-----------------------------------------------------------------------------

Construct(v, capacity) ==
    /\ ~Exists(v)
    /\ heap' = Create(heap, capacity, <<>>)
    /\ vec' = [vec EXCEPT ![v] = [storage |-> Free, mCapacity |-> capacity,
                                  mItemCount |-> 0]]

CopyConstruct(v, w) ==
    /\ ~Exists(v) /\ Exists(w)
    /\ heap' = [heap EXCEPT ![vec[w].storage].refs = @ + 1]
    /\ vec' = [vec EXCEPT ![v] = vec[w]]

Destroy(v) ==
    /\ Exists(v)
    /\ heap' = Release(heap, vec[v].storage)
    /\ vec' = [vec EXCEPT ![v] = NULL]

\* v = w: v's storage is released before w's is retained, so an only holder
\* that is assigned to itself would retain what it has freed.
Assign(v, w) ==
    /\ Exists(v) /\ Exists(w)
    /\ v = w => ~IsNotShared(v)
    /\ heap' = [Release(heap, vec[v].storage) EXCEPT ![vec[w].storage].refs = @ + 1]
    /\ vec' = [vec EXCEPT ![v] = vec[w]]

Least(S) == CHOOSE i \in S : \A j \in S : i <= j

\* mCapacity doubles until count items fit.
Doubled(capacity, count) ==
    LET size[k \in 0 .. count] == IF k = 0 THEN capacity ELSE 2 * size[k - 1] IN
    size[Least({k \in 0 .. count : size[k] >= count})]

With(s, pos, x) == SubSeq(s, 1, pos) \o <<x>> \o SubSeq(s, pos + 1, Len(s))

(* Mutant: storage with room is written in place, shared or not. *)
InsertWithRoom(v, pos, x) ==
    LET count == vec[v].mItemCount + 1
        items == With(Items(v), pos, x)
        capacity == Doubled(vec[v].mCapacity, count) IN
    /\ IF count <= vec[v].mCapacity
       THEN InPlace(v, Over(items, CellsOf(v)), count)
       ELSE Relocate(v, capacity, capacity, items, count)

\* insert, emplace, push: _grow(pos, 1) and the new element in the gap.
Insert(v, pos, x) ==
    LET count == vec[v].mItemCount + 1
        items == With(Items(v), pos, x)
        capacity == Doubled(vec[v].mCapacity, count) IN
    /\ IF IsNotShared(v) /\ count <= vec[v].mCapacity
       THEN InPlace(v, Over(items, CellsOf(v)), count)
       ELSE Relocate(v, capacity, capacity, items, count)

\* _remove(pos, n): erase, pop and clear.
TakeOut(v, pos, n) ==
    LET count == vec[v].mItemCount - n
        items == SubSeq(Items(v), 1, pos) \o SubSeq(Items(v), pos + n + 1, count + n) IN
    IF IsNotShared(v)
    THEN InPlace(v, Over(items \o RawCells(n), CellsOf(v)), count)
    ELSE Relocate(v, vec[v].mCapacity, vec[v].mCapacity, items, count)

\* erase(first, last) takes last along and wants it to be greater than first.
Erase(v, first, last) ==
    first < last /\ last < vec[v].mItemCount /\ TakeOut(v, first, last - first + 1)
EraseOne(v, pos) == pos < vec[v].mItemCount /\ TakeOut(v, pos, 1)
Clear(v) == vec[v].mItemCount > 0 /\ TakeOut(v, 0, vec[v].mItemCount)

\* v[pos] = x: _edit, then the write through the reference.
Write(v, pos, x) ==
    LET items == [Items(v) EXCEPT ![pos + 1] = x]
        c == vec[v].mCapacity  n == vec[v].mItemCount IN
    /\ pos < n
    /\ IF IsNotShared(v)
       THEN InPlace(v, Over(items, CellsOf(v)), n)
       ELSE Relocate(v, c, c, items, n)

\* shrink: new storage for exactly the items; mCapacity stays.
Shrink(v) ==
    LET n == vec[v].mItemCount IN
    n # vec[v].mCapacity /\ Relocate(v, vec[v].mCapacity, n, Items(v), n)

-----------------------------------------------------------------------------

\* Two neighbour bucks, a before b, of positions in s: one more goes to the
\* result while both have some left, then what is left of one of them.
Less(s, i, j) == Key(s[i]) < Key(s[j])

MergeStep(s, a, b, at) ==
    IF at.i > Len(a) \/ at.j > Len(b) THEN at
    ELSE IF Less(s, b[at.j], a[at.i])
    THEN [at EXCEPT !.j = @ + 1, !.out = Append(@, b[at.j])]
    ELSE [at EXCEPT !.i = @ + 1, !.out = Append(@, a[at.i])]

Merge(s, a, b) ==
    LET steps[n \in 0 .. Len(a) + Len(b)] ==
            IF n = 0 THEN [i |-> 1, j |-> 1, out |-> <<>>]
            ELSE MergeStep(s, a, b, steps[n - 1])
        end == steps[Len(a) + Len(b)]
    IN  end.out \o SubSeq(a, end.i, Len(a)) \o SubSeq(b, end.j, Len(b))

MergeBucks(s, a, b) ==
    IF Less(s, a[Len(a)], b[1]) THEN a \o b
    ELSE IF Less(s, b[Len(b)], a[1]) THEN b \o a
    ELSE Merge(s, a, b)

\* One pass over all bucks of one size.
MergeNeighbours(s, bucks) ==
    [k \in 1 .. (Len(bucks) + 1) \div 2 |->
        IF 2 * k <= Len(bucks) THEN MergeBucks(s, bucks[2 * k - 1], bucks[2 * k])
        ELSE bucks[2 * k - 1]]

\* The sorted positions; the bucks start with one each.
Index(s) ==
    LET pass[n \in 0 .. Len(s)] ==
            IF n = 0 THEN [i \in DOMAIN s |-> <<i>>] ELSE MergeNeighbours(s, pass[n - 1])
    IN  pass[Len(s)][1]

\* sort: the elements are copied to new storage in order; if nothing has moved
\* only shared storage is copied.
Sort(v) ==
    LET s == Items(v)  c == vec[v].mCapacity  index == Index(s) IN
    /\ Len(s) > 1
    /\ IF IsNotShared(v) /\ index = [i \in DOMAIN s |-> i]
       THEN UNCHANGED <<vec, heap>>
       ELSE Relocate(v, c, c, [i \in DOMAIN s |-> s[index[i]]], Len(s))

-----------------------------------------------------------------------------

\* SharedBuffer writes a magic number behind the data, and deallocate checks
\* it ("put magic guard before and after data").
GuardsIntact == \A b \in Storages : heap[b].refs > 0 => Len(heap[b].cells) = heap[b].mSize

WithinBound ==
    SumFunction([v \in Vectors |-> IF Exists(v) THEN vec[v].mItemCount ELSE 0])
        <= MaxItems

\* Once a guard is gone, what lies behind the storage is too.  What the client
\* asked for is recorded in value.
Next ==
    /\ GuardsIntact
    /\ \E v \in Vectors :
        \/ \E c \in Capacities : Construct(v, c) /\ Own!Make(v, <<>>)
        \/ \E w \in Vectors : (CopyConstruct(v, w) \/ Assign(v, w)) /\ Own!Copy(v, w)
        \/ Destroy(v) /\ Own!Drop(v)
        \/ /\ Exists(v)
           /\ \E pos \in 0 .. vec[v].mItemCount :
                \/ \E x \in Elements : Insert(v, pos, x) /\ Own!Insert(v, pos, <<x>>)
                \/ \E x \in Elements : Write(v, pos, x) /\ Own!Write(v, pos, <<x>>)
                \/ EraseOne(v, pos) /\ Own!Erase(v, pos, 1)
                \/ \E last \in 0 .. vec[v].mItemCount :
                    Erase(v, pos, last) /\ Own!Erase(v, pos, last - pos + 1)
        \/ Exists(v) /\ Clear(v) /\ Own!Erase(v, 0, vec[v].mItemCount)
        \/ Exists(v) /\ Shrink(v) /\ Own!Copy(v, v)
        \/ Exists(v) /\ Sort(v) /\ Own!Sort(v)
    /\ WithinBound'

Spec == Init /\ [][Next]_vars

-----------------------------------------------------------------------------

Sharers(b) == {v \in Vectors : Exists(v) /\ vec[v].storage = b}

\* Storage lives as long as a vector has it, every holder counts the same
\* items, and its cells hold these and nothing else.
ItemsAreAlive ==
    \A b \in Storages :
        IF heap[b].refs = 0 THEN Sharers(b) = {}
        ELSE /\ heap[b].refs = Cardinality(Sharers(b)) /\ Sharers(b) # {}
             /\ \A v \in Sharers(b), i \in DOMAIN heap[b].cells :
                    heap[b].cells[i] # Raw <=> i <= vec[v].mItemCount

\* Every operation has done to its vector what its name says and has left the
\* others alone, in place or by a copy.
HoldsWhatItShould ==
    \A v \in Vectors : value[v] = IF Exists(v) THEN Items(v) ELSE NULL
=============================================================================
