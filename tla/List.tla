-------------------------------- MODULE List --------------------------------
(***************************************************************************)
(* List (stl/List.cpp): a ring of nodes around a head that sits in a       *)
(* SharedBuffer, shared by copies until one of them asks for a node.  One  *)
(* thread.  Sorting moves nodes from ring to ring.                         *)
(***************************************************************************)
EXTENDS Integers, Sequences, FiniteSets
LOCAL INSTANCE SequencesExt

CONSTANTS
    Lists, Storages,
    Elements, Key(_),
    MaxNodes,   \* bound on the nodes of all lists
    NULL

VARIABLES
    list,   \* each list: its storage and mListLength, or NULL
    refs,   \* count of each storage
    ring,   \* mNext, mPrev and mData of nodes and heads, NULL if not in use
    value   \* what each list should hold: a history variable

vars == <<list, refs, ring, value>>

Own == INSTANCE OwnedSequences WITH
    Holders <- Lists, NoValue <- NULL, Fresh <- {<<>>}, Pieces <- {}

Nodes == 1 .. MaxNodes
Bucks == -MaxNodes .. -1        \* heads that only exist during a sort
Heads == Storages \cup Bucks

Init ==
    /\ list = [l \in Lists |-> NULL]
    /\ refs = [b \in Storages |-> 0]
    /\ ring = [next |-> [n \in Nodes \cup Heads |-> NULL],
               prev |-> [n \in Nodes \cup Heads |-> NULL],
               data |-> [n \in Nodes |-> NULL]]
    /\ Own!Init

Exists(l) == list[l] # NULL
HeadOf(l) == list[l].storage

-----------------------------------------------------------------------------

Unlink(r, n) ==
    [r EXCEPT !.next = [@ EXCEPT ![r.prev[n]] = r.next[n], ![n] = NULL],
              !.prev = [@ EXCEPT ![r.next[n]] = r.prev[n], ![n] = NULL]]

\* n goes before x.
InsertNode(r, n, x) ==
    [r EXCEPT !.next = [@ EXCEPT ![n] = x, ![r.prev[x]] = n],
              !.prev = [@ EXCEPT ![n] = r.prev[x], ![x] = n]]

\* n goes behind x.
AppendNode(r, n, x) ==
    [r EXCEPT !.next = [@ EXCEPT ![n] = r.next[x], ![x] = n],
              !.prev = [@ EXCEPT ![n] = x, ![r.next[x]] = n]]

BuildList(r, head) == [r EXCEPT !.next[head] = head, !.prev[head] = head]

\* allocateNode and the element in it.
FreeNode(r) == CHOOSE n \in Nodes : r.data[n] = NULL
AllocateNode(r, x) == [r EXCEPT !.data[FreeNode(r)] = x]

\* A walk from x, i steps along next.
Walk(r, x, i) == FoldLeft(LAMBDA n, k : r.next[n], x, [k \in 1 .. i |-> k])
NodesOf(r, head, n) == [i \in 1 .. n |-> Walk(r, head, i)]

\* The nodes in S are destructed and freed, with the heads in S.
Discard(r, S) ==
    [next |-> [n \in DOMAIN r.next |-> IF n \in S THEN NULL ELSE r.next[n]],
     prev |-> [n \in DOMAIN r.prev |-> IF n \in S THEN NULL ELSE r.prev[n]],
     data |-> [n \in Nodes |-> IF n \in S THEN NULL ELSE r.data[n]]]

\* _prepare: an empty ring in a new SharedBuffer.
FreeStorage == CHOOSE b \in Storages : refs[b] = 0

\* _clear: the last list frees the nodes.
Cleared(l) ==
    IF refs[HeadOf(l)] > 1 THEN ring
    ELSE Discard(ring, {HeadOf(l)} \cup ToSet(NodesOf(ring, HeadOf(l), list[l].mListLength)))
Unshared(l) == [refs EXCEPT ![HeadOf(l)] = @ - 1]

\* _edit: storage that is shared is copied, node by node.
IsShared(l) == refs[HeadOf(l)] > 1
Editable(l) == IF IsShared(l) THEN FreeStorage ELSE HeadOf(l)
EditedRefs(l) == IF IsShared(l) THEN [Unshared(l) EXCEPT ![FreeStorage] = 1] ELSE refs
Edited(l) ==
    IF ~IsShared(l) THEN ring
    ELSE FoldLeft(
            LAMBDA r, n : LET c == AllocateNode(r, r.data[n]) IN
                AppendNode(c, FreeNode(r), c.prev[FreeStorage]),
            BuildList(ring, FreeStorage),
            NodesOf(ring, HeadOf(l), list[l].mListLength))

\* Room for a copy and one node more: the pool is a bound of the model.
HasRoom(l, n) ==
    (IF IsShared(l) THEN list[l].mListLength ELSE 0) + n
        <= Cardinality({x \in Nodes : ring.data[x] = NULL})

-----------------------------------------------------------------------------

Construct(l) ==
    /\ ~Exists(l)
    /\ list' = [list EXCEPT ![l] = [storage |-> FreeStorage, mListLength |-> 0]]
    /\ refs' = [refs EXCEPT ![FreeStorage] = 1]
    /\ ring' = BuildList(ring, FreeStorage)

CopyConstruct(l, m) ==
    /\ ~Exists(l) /\ Exists(m)
    /\ list' = [list EXCEPT ![l] = list[m]]
    /\ refs' = [refs EXCEPT ![HeadOf(m)] = @ + 1]
    /\ UNCHANGED ring

Destroy(l) ==
    /\ Exists(l)
    /\ ring' = Cleared(l)
    /\ refs' = Unshared(l)
    /\ list' = [list EXCEPT ![l] = NULL]

\* l = m; assigning a list to itself dereferences the storage it has just let
\* go of.
Assign(l, m) ==
    /\ Exists(l) /\ Exists(m) /\ l # m
    /\ ring' = Cleared(l)
    /\ refs' = [Unshared(l) EXCEPT ![HeadOf(m)] = @ + 1]
    /\ list' = [list EXCEPT ![l] = list[m]]

Clear(l) ==
    /\ Exists(l)
    /\ ring' = BuildList(Cleared(l), FreeStorage)
    /\ refs' = [Unshared(l) EXCEPT ![FreeStorage] = 1]
    /\ list' = [list EXCEPT ![l] = [storage |-> FreeStorage, mListLength |-> 0]]

\* push, push_front and insert: a node before the one at position i, which
\* list() or begin() has made l's own.
Insert(l, i, x) ==
    LET r == Edited(l) IN
    /\ HasRoom(l, 1)
    /\ ring' = InsertNode(AllocateNode(r, x), FreeNode(r), Walk(r, Editable(l), i + 1))
    /\ refs' = EditedRefs(l)
    /\ list' = [list EXCEPT ![l] = [storage |-> Editable(l), mListLength |-> @.mListLength + 1]]

\* pop, pop_back and erase.
Erase(l, i) ==
    LET r == Edited(l)  n == Walk(r, Editable(l), i + 1) IN
    /\ i < list[l].mListLength /\ HasRoom(l, 0)
    /\ ring' = Discard(Unlink(r, n), {n})
    /\ refs' = EditedRefs(l)
    /\ list' = [list EXCEPT ![l] = [storage |-> Editable(l), mListLength |-> @.mListLength - 1]]

\* front() = x and the like: a write through a reference into l's own node.
Write(l, i, x) ==
    LET r == Edited(l) IN
    /\ i < list[l].mListLength /\ HasRoom(l, 0)
    /\ ring' = [r EXCEPT !.data[Walk(r, Editable(l), i + 1)] = x]
    /\ refs' = EditedRefs(l)
    /\ list' = [list EXCEPT ![l].storage = Editable(l)]

-----------------------------------------------------------------------------

Less(r, n, m) == Key(r.data[n]) < Key(r.data[m])
Move(r, n, x) == InsertNode(Unlink(r, n), n, x)

\* Step 1: a node and its neighbour go to a buck of their own.
PairUp(head, at, buck) ==
    LET node == at.node
        next == at.r.next[node]
        r == AppendNode(Unlink(BuildList(at.r, buck), node), node, buck) IN
    IF next = head THEN [r |-> r, node |-> next]
    ELSE [node |-> at.r.next[next],
          r |-> IF Less(r, next, node) THEN Move(r, next, node)
                ELSE AppendNode(Unlink(r, next), next, node)]

(* Mutant: equal elements change places. *)
MergeUnstable(x, y, at) ==
    IF at.b = y THEN at
    ELSE IF at.a = x \/ ~Less(at.r, at.a, at.b)
    THEN [at EXCEPT !.r = Move(at.r, at.b, at.a), !.b = at.r.next[at.b]]
    ELSE [at EXCEPT !.a = at.r.next[at.a]]

\* Step 2: one comparison of the merge of buck y, at b, into buck x, at a.
MergeStep(x, y, at) ==
    IF at.b = y THEN at
    ELSE IF at.a = x \/ Less(at.r, at.b, at.a)
    THEN [at EXCEPT !.r = Move(at.r, at.b, at.a), !.b = at.r.next[at.b]]
    ELSE [at EXCEPT !.a = at.r.next[at.a]]

MergeBucks(r, x, y) ==
    FoldLeft(LAMBDA at, k : MergeStep(x, y, at),
             [r |-> r, a |-> r.next[x], b |-> r.next[y]],
             [k \in 1 .. 2 * MaxNodes |-> k]).r

\* Every buck at a multiple of 2 * seg takes the one seg further.
MergeNeighbours(r, seg, n) ==
    FoldLeft(LAMBDA q, i : IF (i - 1) % (2 * seg) = 0 /\ i + seg <= n
                           THEN MergeBucks(q, -i, -(i + seg)) ELSE q,
             r, [i \in 1 .. n |-> i])

SortRing(r, head, length) ==
    LET n == (length + 1) \div 2
        paired == FoldLeft(LAMBDA at, i : PairUp(head, at, -i),
                           [r |-> r, node |-> r.next[head]], [i \in 1 .. n |-> i]).r
        merged == FoldLeft(LAMBDA q, k : IF 2 ^ (k - 1) < n THEN MergeNeighbours(q, 2 ^ (k - 1), n)
                                         ELSE q,
                           paired, [k \in 1 .. n |-> k])
        first == merged.next[-1]  last == merged.prev[-1] IN
    Discard([merged EXCEPT !.next[head] = first, !.prev[head] = last,
                           !.prev[first] = head, !.next[last] = head], Bucks)

\* Two nodes are at most swapped.
SortTwo(r, head) ==
    LET first == r.next[head]  last == r.prev[head] IN
    IF Less(r, last, first) THEN Move(r, last, first) ELSE r

Sort(l) ==
    LET n == list[l].mListLength  r == Edited(l)  head == Editable(l) IN
    /\ n > 1 /\ HasRoom(l, 0)
    /\ ring' = IF n = 2 THEN SortTwo(r, head) ELSE SortRing(r, head, n)
    /\ refs' = EditedRefs(l)
    /\ list' = [list EXCEPT ![l].storage = head]

-----------------------------------------------------------------------------

\* What the client asked for is recorded in value.
Next ==
    \E l \in Lists :
        \/ Construct(l) /\ Own!Make(l, <<>>)
        \/ \E m \in Lists : (CopyConstruct(l, m) \/ Assign(l, m)) /\ Own!Copy(l, m)
        \/ Destroy(l) /\ Own!Drop(l)
        \/ Clear(l) /\ Own!Erase(l, 0, list[l].mListLength)
        \/ /\ Exists(l)
           /\ \E i \in 0 .. list[l].mListLength :
                \/ \E x \in Elements : \/ Insert(l, i, x) /\ Own!Insert(l, i, <<x>>)
                                       \/ Write(l, i, x) /\ Own!Write(l, i, <<x>>)
                \/ Erase(l, i) /\ Own!Erase(l, i, 1)
        \/ Exists(l) /\ Sort(l) /\ Own!Sort(l)

Spec == Init /\ [][Next]_vars

-----------------------------------------------------------------------------

Sharers(b) == {l \in Lists : Exists(l) /\ HeadOf(l) = b}
InRing(b) == {Walk(ring, b, i) : i \in 1 .. MaxNodes + 1} \ {b}

\* Links and data of different rings do not touch, a ring reads the same both
\* ways, every node in use is in the ring of a list that exists, and the
\* lists that share a ring count the same nodes.
RingsAreSound ==
    /\ \A n \in DOMAIN ring.next :
        ring.next[n] # NULL => ring.prev[ring.next[n]] = n /\ ring.next[ring.prev[n]] = n
    /\ \A b \in Storages :
        /\ refs[b] = Cardinality(Sharers(b))
        /\ \A l \in Sharers(b) : Cardinality(InRing(b)) = list[l].mListLength
    /\ {n \in Nodes : ring.data[n] # NULL}
        = UNION {InRing(b) : b \in {s \in Storages : refs[s] > 0}}

\* Every operation has done to its list what its name says and has left the
\* others alone, in place or by a copy.
Items(l) ==
    LET at == NodesOf(ring, HeadOf(l), list[l].mListLength) IN
    [i \in DOMAIN at |-> ring.data[at[i]]]

HoldsWhatItShould ==
    \A l \in Lists : value[l] = IF Exists(l) THEN Items(l) ELSE NULL
=============================================================================
