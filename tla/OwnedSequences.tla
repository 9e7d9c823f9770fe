--------------------------- MODULE OwnedSequences ---------------------------
(***************************************************************************)
(* What copy on write promises: every holder has a sequence of its own.  A *)
(* copy is equal to its source, a change is seen by the holder that made   *)
(* it, and nothing else ever changes.                                      *)
(***************************************************************************)
EXTENDS Naturals, Sequences, FiniteSets

CONSTANTS
    Holders,
    NoValue,    \* a holder that does not exist
    Fresh,      \* what a new holder may contain
    Pieces,     \* sequences that are inserted or written
    Key(_)      \* sort's order

VARIABLE value

Init == value = [h \in Holders |-> NoValue]

Exists(h) == value[h] # NoValue
Become(h, s) == value' = [value EXCEPT ![h] = s]

Make(h, s) == ~Exists(h) /\ Become(h, s)
Copy(g, h) == Exists(h) /\ Become(g, value[h])
Drop(h) == Exists(h) /\ Become(h, NoValue)

\* The n elements from position i on give way to s.
Splice(h, i, n, s) ==
    /\ Exists(h) /\ i + n <= Len(value[h])
    /\ Become(h, SubSeq(value[h], 1, i) \o s \o SubSeq(value[h], i + n + 1, Len(value[h])))

Insert(h, i, s) == Splice(h, i, 0, s)
Erase(h, i, n) == Splice(h, i, n, <<>>)
Write(h, i, s) == Splice(h, i, Len(s), s)

\* An element's place is the number of those up to it: the smaller ones, and
\* of the equal ones those that have been before it.
UpTo(s, i) ==
    {j \in DOMAIN s : Key(s[j]) < Key(s[i]) \/ (Key(s[j]) = Key(s[i]) /\ j <= i)}

StableSort(s) ==
    [k \in DOMAIN s |-> s[CHOOSE i \in DOMAIN s : Cardinality(UpTo(s, i)) = k]]

Sort(h) == Exists(h) /\ Become(h, StableSort(value[h]))

Next ==
    \E h \in Holders :
        \/ \E s \in Fresh : Make(h, s)
        \/ \E g \in Holders : Copy(g, h)
        \/ Drop(h)
        \/ /\ Exists(h)
           /\ \E i \in 0 .. Len(value[h]) :
                \/ \E s \in Pieces : Insert(h, i, s) \/ Write(h, i, s)
                \/ \E n \in 1 .. Len(value[h]) : Erase(h, i, n)
        \/ Sort(h)

Spec == Init /\ [][Next]_value
=============================================================================
