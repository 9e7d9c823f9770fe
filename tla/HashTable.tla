----------------------------- MODULE HashTable -----------------------------
(***************************************************************************)
(* HashTable (stl/HashTable.cpp): buckets with chains of elements in a     *)
(* SharedBuffer that copies share until one of them is written.  One       *)
(* thread.                                                                 *)
(***************************************************************************)
EXTENDS Naturals, Sequences, FiniteSets
LOCAL INSTANCE Functions

CONSTANTS
    Tables, Storages,
    Keys, Hash(_), Values,
    Lengths,        \* what constructors are called with, two or more
    MaxElements,    \* bound on the elements of all tables
    Lost,           \* in value: another table's clear has taken the elements
    NULL

VARIABLES
    table,  \* each table: its storage, mTableLength and mNumElements, or NULL
    heap,   \* each storage: its count and its buckets
    value   \* what each table should hold: a history variable

vars == <<table, heap, value>>

Own == INSTANCE OwnedTables WITH Holders <- Tables, NoValue <- NULL

\* Storage that is not allocated.
Freed == [refs |-> 0]

Init ==
    /\ table = [t \in Tables |-> NULL]
    /\ heap = [b \in Storages |-> Freed]
    /\ Own!Init

Exists(t) == table[t] # NULL
Bucks(t) == heap[table[t].storage].bucks
IsShared(t) == heap[table[t].storage].refs > 1

Free == CHOOSE b \in Storages : heap[b].refs = 0
NoElements(length) == [i \in 0 .. length - 1 |-> <<>>]

Least(S) == CHOOSE i \in S : \A j \in S : i <= j

\* POW_2
PowerOf2(n) ==
    LET power[k \in 0 .. n] == IF k = 0 THEN 1 ELSE 2 * power[k - 1] IN
    power[Least({k \in 0 .. n : power[k] >= n})]

\* _release: the last table deallocates the elements with the buckets.
Release(hp, b) ==
    LET r == hp[b] IN
    [hp EXCEPT ![b] = IF r.refs = 1 THEN Freed ELSE [r EXCEPT !.refs = r.refs - 1]]

\* _edit, and then the buckets are these: in a copy if others share the old.
Edit(t, bucks) ==
    IF IsShared(t)
    THEN [Release(heap, table[t].storage) EXCEPT ![Free] = [refs |-> 1, bucks |-> bucks]]
    ELSE [heap EXCEPT ![table[t].storage].bucks = bucks]
Edited(t) == IF IsShared(t) THEN Free ELSE table[t].storage

Bucket(t, k) == Hash(k) % table[t].mTableLength

\* The position of k in its chain, 0 if it is not there.
Position(t, k) ==
    LET chain == Bucks(t)[Bucket(t, k)]
        at == {i \in DOMAIN chain : Hash(chain[i].key) = Hash(k) /\ chain[i].key = k} IN
    IF at = {} THEN 0 ELSE Least(at)

-----------------------------------------------------------------------------

Construct(t, length) ==
    /\ ~Exists(t)
    /\ table' = [table EXCEPT ![t] =
            [storage |-> Free, mTableLength |-> PowerOf2(length), mNumElements |-> 0]]
    /\ heap' = [heap EXCEPT ![Free] = [refs |-> 1, bucks |-> NoElements(PowerOf2(length))]]

CopyConstruct(t, u) ==
    /\ ~Exists(t) /\ Exists(u)
    /\ table' = [table EXCEPT ![t] = table[u]]
    /\ heap' = [heap EXCEPT ![table[u].storage].refs = @ + 1]

Destroy(t) ==
    /\ Exists(t)
    /\ heap' = Release(heap, table[t].storage)
    /\ table' = [table EXCEPT ![t] = NULL]

\* t = u: an only holder that is assigned to itself would use what it has freed.
Assign(t, u) ==
    /\ Exists(t) /\ Exists(u)
    /\ t = u => IsShared(t)
    /\ heap' = [Release(heap, table[t].storage) EXCEPT ![table[u].storage].refs = @ + 1]
    /\ table' = [table EXCEPT ![t] = table[u]]

\* clear: the elements are freed where they are, shared or not.
Clear(t) ==
    /\ Exists(t)
    /\ IF table[t].mNumElements = 0 THEN UNCHANGED <<table, heap>>
       ELSE /\ heap' = [heap EXCEPT ![table[t].storage].bucks =
                    NoElements(table[t].mTableLength)]
            /\ table' = [table EXCEPT ![t].mNumElements = 0]

(* Mutant: the elements stay in their chains. *)
GrownInPlace(bucks, length) ==
    [i \in 0 .. 2 * length - 1 |-> IF i < length THEN bucks[i] ELSE <<>>]
\* grow: a table that is more than three quarters full doubles; each element
\* moves to the front of its new chain.
Moved(chain, length, i) ==
    LET moved[n \in 0 .. Len(chain)] ==
            IF n = 0 THEN <<>>
            ELSE IF Hash(chain[n].key) % length = i THEN <<chain[n]>> \o moved[n - 1]
            ELSE moved[n - 1]
    IN  moved[Len(chain)]

Grown(bucks, length) ==
    [i \in 0 .. 2 * length - 1 |-> Moved(bucks[i % length], 2 * length, i)]

\* insert: a key that is there already fails a CHECK.
Insert(t, k, x) ==
    LET length == table[t].mTableLength
        n == table[t].mNumElements + 1
        bucks == [Bucks(t) EXCEPT ![Bucket(t, k)] = Append(@, [key |-> k, val |-> x])]
        grows == n > (length * 3) \div 4 IN
    /\ Position(t, k) = 0
    /\ heap' = Edit(t, IF grows THEN Grown(bucks, length) ELSE bucks)
    /\ table' = [table EXCEPT ![t] =
            [storage |-> Edited(t), mNumElements |-> n,
             mTableLength |-> IF grows THEN 2 * length ELSE length]]

\* erase copies shared buckets even if the key is not there.
Erase(t, k) ==
    LET p == Position(t, k) IN
    /\ heap' = Edit(t, IF p = 0 THEN Bucks(t)
                       ELSE [Bucks(t) EXCEPT ![Bucket(t, k)] =
                            SubSeq(@, 1, p - 1) \o SubSeq(@, p + 1, Len(@))])
    /\ table' = [table EXCEPT ![t].storage = Edited(t),
                              ![t].mNumElements = IF p = 0 THEN @ ELSE @ - 1]

\* *find(k) = x, t[k] = x: so do find and access that may write.
Write(t, k, x) ==
    LET p == Position(t, k) IN
    /\ heap' = Edit(t, IF p = 0 THEN Bucks(t)
                       ELSE [Bucks(t) EXCEPT ![Bucket(t, k)][p].val = x])
    /\ table' = [table EXCEPT ![t].storage = Edited(t)]

\* next: what an iterator at element p of bucket i goes to; element 0 is
\* before the first.
NextElement(t, i, p) ==
    LET later == {j \in 0 .. table[t].mTableLength - 1 :
                    (j > i \/ (p = 0 /\ j = i)) /\ Bucks(t)[j] # <<>>} IN
    IF p > 0 /\ p < Len(Bucks(t)[i]) THEN <<i, p + 1>>
    ELSE IF later = {} THEN <<table[t].mTableLength, 0>>
    ELSE <<Least(later), 1>>

-----------------------------------------------------------------------------

\* What the client asked for is recorded in value, unless it is lost anyway.
Record(t, Asked) == IF value[t] = Lost THEN UNCHANGED value ELSE Asked

Sharers(b) == {t \in Tables : Exists(t) /\ table[t].storage = b}

Wipe(t) ==
    value' = [u \in Tables |->
        IF u = t THEN Own!Empty
        ELSE IF u \in Sharers(table[t].storage) /\ table[t].mNumElements > 0 THEN Lost
        ELSE value[u]]

WithinBound ==
    SumFunction([t \in Tables |-> IF Exists(t) THEN table[t].mNumElements ELSE 0])
        <= MaxElements

Next ==
    /\ \E t \in Tables :
        \/ \E n \in Lengths : Construct(t, n) /\ Own!Make(t)
        \/ \E u \in Tables : (CopyConstruct(t, u) \/ Assign(t, u)) /\ Own!Copy(t, u)
        \/ Destroy(t) /\ Own!Drop(t)
        \/ Clear(t) /\ Wipe(t)
        \/ /\ Exists(t)
           /\ \E k \in Keys :
                \/ Erase(t, k) /\ Record(t, Own!Take(t, k))
                \/ \E x \in Values :
                    \/ Insert(t, k, x) /\ Record(t, Own!Put(t, k, x))
                    \/ /\ Write(t, k, x)
                       /\ IF Position(t, k) = 0 THEN UNCHANGED value
                          ELSE Record(t, Own!Put(t, k, x))
    /\ WithinBound'

Spec == Init /\ [][Next]_vars

-----------------------------------------------------------------------------

\* What a lookup of k finds.
Found(t, k) ==
    LET p == Position(t, k) IN
    IF p = 0 THEN NULL ELSE Bucks(t)[Bucket(t, k)][p].val

\* Every table finds the values that were put into it, whatever has been done
\* to its copies, except after a clear of one of them.
HoldsWhatItShould ==
    \A t \in Tables :
        \/ value[t] = Lost
        \/ value[t] = IF Exists(t) THEN [k \in Keys |-> Found(t, k)] ELSE NULL

\* An iterator comes to every element once, the table counts as many, and
\* storage lives as long as a table has it.
Visits(t) ==
    LET at[n \in 0 .. Cardinality(Keys) + 1] ==
            IF n = 0 THEN <<0, 0>> ELSE NextElement(t, at[n - 1][1], at[n - 1][2])
    IN  at

VisitsAll(t) ==
    LET keys == {k \in Keys : Found(t, k) # NULL}
        n == Cardinality(keys)
        at == Visits(t) IN
    /\ \A i \in 1 .. n : at[i][2] > 0
    /\ keys = {Bucks(t)[at[i][1]][at[i][2]].key : i \in 1 .. n}
    /\ at[n + 1] = <<table[t].mTableLength, 0>>
    /\ value[t] # Lost => table[t].mNumElements = n

IterationIsComplete ==
    \A t \in Tables : Exists(t) =>
        /\ VisitsAll(t)
        /\ heap[table[t].storage].refs = Cardinality(Sharers(table[t].storage))
=============================================================================
