--------------------------- MODULE LockFreeQueue ---------------------------
(***************************************************************************)
(* LockFreeQueueImpl (ABE/stl/Queue.cpp): a linked list with a dummy node, *)
(* an atomic tail that producers move by compare-and-swap, an atomic head  *)
(* that consumers move, and an atomic element count that is the only thing *)
(* a consumer tests before it dereferences the head.                       *)
(*                                                                         *)
(* One action is one access to shared memory.  Accesses to memory that     *)
(* only one thread can reach (a node before it is published) are part of   *)
(* the neighbouring action.  A dereference of NULL or of a freed node ends *)
(* the run: Crash sets bad and nothing moves any more.                     *)
(***************************************************************************)
EXTENDS Naturals, Sequences, SequencesExt

CONSTANTS
    Producers,  \* threads calling push
    Consumers,  \* threads calling pop or clear
    Node,       \* addresses malloc can return; a freed one can come back
    NULL,       \* the null pointer
    None,       \* content of an element that was moved out or destructed
    MaxPush,    \* bound: calls of push per producer
    SizeMod,    \* 2^width of size_t
    Variants    \* which entry points are called: "N", pushN and popN; "1",
                \* push1 and pop1

ASSUME ThreadAssumption == Producers \cap Consumers = {}
ASSUME NodeAssumption == Node # {} /\ NULL \notin Node
ASSUME BoundAssumption == MaxPush \in Nat /\ SizeMod \in Nat \ {0}
ASSUME VariantsAssumption == Variants \in SUBSET {"1", "N"}

Thread == Producers \cup Consumers

(* The k-th element a producer pushes. *)
Item == Producers \X (1..MaxPush)

ASSUME NoneAssumption == None \notin Item

VARIABLES
    mHead, mTail,   \* the atomic pointers
    mLength,        \* the atomic element count
    mNext, mData,   \* the fields of every node
    heap,           \* nodes malloc has handed out
    pc,             \* where each thread is
    node,           \* pushN: the new node
    tail,           \* pushN: the expected tail
    head,           \* popN: the expected head, then the node to free
    succ,           \* popN: the register that loads mHead, then mHead->mNext
    clearing,       \* the consumer is in clear(), not in pop()
    sent,           \* calls of push each producer has begun
    spine,          \* history: the dummy, then nodes in order of publication
    order,          \* history: elements in order of publication
    consumed,       \* history: elements moved out or destructed
    bad             \* some thread dereferenced NULL or a freed node

shared == <<mHead, mTail, mLength>>
memory == <<mNext, mData, heap>>
locals == <<node, tail, head, succ, clearing>>
ghosts == <<sent, spine, order, consumed>>
vars == <<shared, memory, pc, locals, ghosts, bad>>

Pointer == Node \cup {NULL}

ProducerPC == {"idle", "load", "cas", "link", "link1", "swing1", "add"}
ConsumerPC == {"idle", "test", "test1", "read", "next", "swap", "advance1", "sub",
               "take", "free"}

Init ==
    /\ \E dummy \in Node :
          /\ mHead = dummy /\ mTail = dummy
          /\ heap = {dummy}
          /\ spine = <<dummy>>
    /\ mLength = 0
    /\ mNext = [n \in Node |-> NULL]
    /\ mData = [n \in Node |-> None]
    /\ pc = [t \in Thread |-> "idle"]
    /\ node = [p \in Producers |-> NULL]
    /\ tail = [p \in Producers |-> NULL]
    /\ head = [c \in Consumers |-> NULL]
    /\ succ = [c \in Consumers |-> NULL]
    /\ clearing = [c \in Consumers |-> FALSE]
    /\ sent = [p \in Producers |-> 0]
    /\ order = <<>>
    /\ consumed = <<>>
    /\ bad = FALSE

(* Thread t moves from one place in its code to another. *)
Goto(t, from, to) ==
    /\ ~bad
    /\ pc[t] = from
    /\ pc' = [pc EXCEPT ![t] = to]
    /\ UNCHANGED bad

-----------------------------------------------------------------------------
(* push1 and pushN *)

(* allocateNode and do_copy: the node is still private to p. *)
PushAlloc(p) ==
    /\ sent[p] < MaxPush
    /\ \/ "N" \in Variants /\ Goto(p, "idle", "load")
       \/ "1" \in Variants /\ Goto(p, "idle", "link1")
    /\ sent' = [sent EXCEPT ![p] = @ + 1]
    /\ \E n \in Node \ heap :
          /\ heap' = heap \cup {n}
          /\ mNext' = [mNext EXCEPT ![n] = NULL]
          /\ mData' = [mData EXCEPT ![n] = <<p, sent[p] + 1>>]
          /\ node' = [node EXCEPT ![p] = n]
    /\ UNCHANGED <<shared, tail, head, succ, clearing, spine, order, consumed>>

PushLoad(p) ==
    /\ Goto(p, "load", "cas")
    /\ tail' = [tail EXCEPT ![p] = mTail]
    /\ UNCHANGED <<shared, memory, node, head, succ, clearing, ghosts>>

(* A node becomes part of the list: the history remembers the order. *)
Publish(p) ==
    /\ spine' = Append(spine, node[p])
    /\ order' = Append(order, mData[node[p]])
    /\ UNCHANGED <<sent, consumed>>

(* Mutant: the tail is stored without comparing it. *)
PushStore(p) ==
    /\ Goto(p, "cas", "link")
    /\ mTail' = node[p]
    /\ Publish(p)
    /\ UNCHANGED <<mHead, mLength, memory, locals>>

PushCAS(p) ==
    /\ Goto(p, "cas", "link")
    /\ mTail = tail[p]
    /\ mTail' = node[p]
    /\ Publish(p)
    /\ UNCHANGED <<mHead, mLength, memory, locals>>

PushCASFails(p) ==
    /\ Goto(p, "cas", "cas")
    /\ mTail # tail[p]
    /\ tail' = [tail EXCEPT ![p] = mTail]
    /\ UNCHANGED <<shared, memory, node, head, succ, clearing, ghosts>>

(* tail->mNext = node, after the node is already the tail *)
PushLink(p) ==
    /\ Goto(p, "link", "add")
    /\ tail[p] \in heap
    /\ mNext' = [mNext EXCEPT ![tail[p]] = node[p]]
    /\ UNCHANGED <<shared, mData, heap, locals, ghosts>>

(* push1 links first: mTail->mNext = node, then mTail = node *)
Push1Link(p) ==
    /\ Goto(p, "link1", "swing1")
    /\ mTail \in heap
    /\ mNext' = [mNext EXCEPT ![mTail] = node[p]]
    /\ Publish(p)
    /\ UNCHANGED <<shared, mData, heap, locals>>

(* Mutant: the tail stays behind. *)
Push1NoSwing(p) ==
    /\ Goto(p, "swing1", "add")
    /\ UNCHANGED <<shared, memory, locals, ghosts>>

Push1Swing(p) ==
    /\ Goto(p, "swing1", "add")
    /\ mTail' = node[p]
    /\ UNCHANGED <<mHead, mLength, memory, locals, ghosts>>

PushAdd(p) ==
    /\ Goto(p, "add", "idle")
    /\ mLength' = (mLength + 1) % SizeMod
    /\ UNCHANGED <<mHead, mTail, memory, locals, ghosts>>

-----------------------------------------------------------------------------
(* pop1, popN and clear *)

(* popN and clear load mHead first; pop1 tests the length first. *)
PopBegin(c) ==
    /\ "N" \in Variants
    /\ Goto(c, "idle", "test")
    /\ head' = [head EXCEPT ![c] = mHead]
    /\ clearing' = [clearing EXCEPT ![c] = FALSE]
    /\ UNCHANGED <<shared, memory, node, tail, succ, ghosts>>

Pop1Begin(c) ==
    /\ "1" \in Variants
    /\ Goto(c, "idle", "test1")
    /\ clearing' = [clearing EXCEPT ![c] = FALSE]
    /\ UNCHANGED <<shared, memory, node, tail, head, succ, ghosts>>

ClearBegin(c) ==
    /\ Goto(c, "idle", "test")
    /\ head' = [head EXCEPT ![c] = mHead]
    /\ clearing' = [clearing EXCEPT ![c] = TRUE]
    /\ UNCHANGED <<shared, memory, node, tail, succ, ghosts>>

PopTest(c) ==
    /\ mLength # 0
    /\ Goto(c, "test", "read") \/ Goto(c, "test1", "advance1")
    /\ UNCHANGED <<shared, memory, locals, ghosts>>

(* Mutant: one element is taken for none. *)
PopEmptyEarly(c) ==
    /\ mLength <= 1
    /\ Goto(c, "test", "idle") \/ Goto(c, "test1", "idle")
    /\ UNCHANGED <<shared, memory, locals, ghosts>>

(* pop returns false, clear returns *)
PopEmpty(c) ==
    /\ mLength = 0
    /\ Goto(c, "test", "idle") \/ Goto(c, "test1", "idle")
    /\ UNCHANGED <<shared, memory, locals, ghosts>>

(* the argument mHead->mNext of the swap loads mHead once more *)
PopReadHead(c) ==
    /\ Goto(c, "read", "next")
    /\ succ' = [succ EXCEPT ![c] = mHead]
    /\ UNCHANGED <<shared, memory, node, tail, head, clearing, ghosts>>

PopReadNext(c) ==
    /\ Goto(c, "next", "swap")
    /\ succ[c] \in heap
    /\ succ' = [succ EXCEPT ![c] = mNext[succ[c]]]
    /\ UNCHANGED <<shared, memory, node, tail, head, clearing, ghosts>>

PopCAS(c) ==
    /\ Goto(c, "swap", "sub")
    /\ mHead = head[c]
    /\ mHead' = succ[c]
    /\ UNCHANGED <<mTail, mLength, memory, locals, ghosts>>

PopCASFails(c) ==
    /\ Goto(c, "swap", "test")
    /\ mHead # head[c]
    /\ head' = [head EXCEPT ![c] = mHead]
    /\ UNCHANGED <<shared, memory, node, tail, succ, clearing, ghosts>>

(* pop1: head = mHead; mHead = mHead->mNext.  Only this thread writes mHead. *)
Pop1Advance(c) ==
    /\ Goto(c, "advance1", "sub")
    /\ mHead \in heap
    /\ head' = [head EXCEPT ![c] = mHead]
    /\ mHead' = mNext[mHead]
    /\ UNCHANGED <<mTail, mLength, memory, node, tail, succ, clearing, ghosts>>

(* Mutant: the count does not wrap. *)
PopSubNoWrap(c) ==
    /\ Goto(c, "sub", "take")
    /\ mLength' = mLength + SizeMod - 1
    /\ UNCHANGED <<mHead, mTail, memory, locals, ghosts>>

PopSub(c) ==
    /\ Goto(c, "sub", "take")
    /\ mLength' = (mLength + SizeMod - 1) % SizeMod
    /\ UNCHANGED <<mHead, mTail, memory, locals, ghosts>>

(* head->mNext->mData is moved out or destructed. *)
Taken(c) == mNext[head[c]]
CanTake(c) ==
    /\ head[c] \in heap
    /\ Taken(c) \in heap
    /\ mData[Taken(c)] # None

PopTake(c) ==
    /\ Goto(c, "take", "free")
    /\ CanTake(c)
    /\ consumed' = Append(consumed, mData[Taken(c)])
    /\ mData' = [mData EXCEPT ![Taken(c)] = None]
    /\ UNCHANGED <<shared, mNext, heap, locals, sent, spine, order>>

(* Mutant: the node that holds the element is freed, not the old dummy. *)
PopFreeTaken(c) ==
    /\ Goto(c, "free", IF clearing[c] THEN "test" ELSE "idle")
    /\ head[c] \in heap
    /\ heap' = heap \ {Taken(c)}
    /\ UNCHANGED <<shared, mNext, mData, locals, ghosts>>

(* pop returns true; clear goes back to its loop without reloading head *)
PopFree(c) ==
    /\ Goto(c, "free", IF clearing[c] THEN "test" ELSE "idle")
    /\ head[c] \in heap
    /\ heap' = heap \ {head[c]}
    /\ UNCHANGED <<shared, mNext, mData, locals, ghosts>>

-----------------------------------------------------------------------------
(* The accesses that need a live node, and what happens without one. *)
ProducerFault(p) ==
    \/ pc[p] = "link" /\ tail[p] \notin heap
    \/ pc[p] = "link1" /\ mTail \notin heap

ConsumerFault(c) ==
    \/ pc[c] = "next" /\ succ[c] \notin heap
    \/ pc[c] = "advance1" /\ mHead \notin heap
    \/ pc[c] = "take" /\ ~CanTake(c)
    \/ pc[c] = "free" /\ head[c] \notin heap

Crash ==
    /\ ~bad
    /\ \/ \E p \in Producers : ProducerFault(p)
       \/ \E c \in Consumers : ConsumerFault(c)
    /\ bad' = TRUE
    /\ UNCHANGED <<shared, memory, pc, locals, ghosts>>

Produce(p) ==
    \/ PushAlloc(p) \/ PushLoad(p) \/ PushCAS(p) \/ PushCASFails(p)
    \/ PushLink(p) \/ Push1Link(p) \/ Push1Swing(p) \/ PushAdd(p)

Consume(c) ==
    \/ PopBegin(c) \/ Pop1Begin(c) \/ ClearBegin(c) \/ PopTest(c) \/ PopEmpty(c)
    \/ PopReadHead(c) \/ PopReadNext(c) \/ PopCAS(c) \/ PopCASFails(c)
    \/ Pop1Advance(c) \/ PopSub(c) \/ PopTake(c) \/ PopFree(c)

Next ==
    \/ \E p \in Producers : Produce(p)
    \/ \E c \in Consumers : Consume(c)
    \/ Crash

Spec == Init /\ [][Next]_vars

(* Every thread that can move does; a consumer polls for ever. *)
FairSpec ==
    /\ Spec
    /\ \A p \in Producers : WF_vars(Produce(p))
    /\ \A c \in Consumers : WF_vars(Consume(c))

-----------------------------------------------------------------------------
(* Every variable has its type. *)
TypeOK ==
    /\ mHead \in Pointer /\ mTail \in Pointer
    /\ mLength \in 0..(SizeMod - 1)
    /\ mNext \in [Node -> Pointer]
    /\ mData \in [Node -> Item \cup {None}]
    /\ heap \in SUBSET Node
    /\ pc \in [Thread -> ProducerPC \cup ConsumerPC]
    /\ \A p \in Producers : pc[p] \in ProducerPC
    /\ \A c \in Consumers : pc[c] \in ConsumerPC
    /\ node \in [Producers -> Pointer]
    /\ \A p \in Producers : pc[p] # "idle" => node[p] \in Node
    /\ tail \in [Producers -> Pointer]
    /\ head \in [Consumers -> Pointer]
    /\ succ \in [Consumers -> Pointer]
    /\ clearing \in [Consumers -> BOOLEAN]
    /\ sent \in [Producers -> 0..MaxPush]
    /\ spine \in Seq(Node)
    /\ order \in Seq(Item \cup {None})
    /\ consumed \in Seq(Item)
    /\ bad \in BOOLEAN

(* Elements leave the queue in the order the producers published them, each *)
(* at most once and none skipped, whatever the interleaving of the steps of *)
(* pushN with those of popN and clear.                                      *)
Fifo == IsPrefix(consumed, order)

(* No thread dereferences NULL or a freed node, and none frees twice. *)
NoBadAccess == ~bad

(* size() never reports more elements than are published and not consumed, *)
(* so the count never wraps below zero.                                    *)
SizeIsBounded == mLength + Len(consumed) <= Len(order)

(* The number of calls of push by p that have returned. *)
Returned(p) == IF pc[p] = "idle" THEN sent[p] ELSE sent[p] - 1

(* pop returns false, and clear returns, only when every element whose push *)
(* had returned is gone: the caller may believe an empty queue.             *)
EmptyMeansDrained ==
    [][\A c \in Consumers : PopEmpty(c) =>
          \A p \in Producers : \A k \in 1..Returned(p) :
             \E i \in DOMAIN consumed : consumed[i] = <<p, k>>]_vars

(* The queue as its users see it: elements published and not yet consumed. *)
Fifo_ == INSTANCE FifoQueue WITH
    Element <- Item,
    queue <- SubSeq(order, Len(consumed) + 1, Len(order)),
    out <- consumed
ImplementsFifo == Fifo_!FairSpec
ImplementsFifoSafely == Fifo_!Spec
-----------------------------------------------------------------------------
(***************************************************************************)
(* The inductive invariant behind Fifo, for one consumer and either one    *)
(* producer or pushN alone.  The live part of the spine begins with the    *)
(* dummy, the node of the last element taken.                              *)
(***************************************************************************)
Live == (Len(consumed) + 1)..Len(spine)

(* A published node is allocated, occurs once, and holds its element. *)
SpineInv ==
    /\ Len(spine) = Len(order) + 1
    /\ Len(consumed) <= Len(order)
    /\ \A i \in Live : spine[i] \in heap
    /\ \A i, j \in Live : spine[i] = spine[j] => i = j
    /\ \A i \in Live : i > Len(consumed) + 1 => mData[spine[i]] = order[i - 1]

(* mTail is the last node, but for push1 between its two stores; the link of *)
(* a published node is its successor or not yet stored.                      *)
LinkInv ==
    /\ (\A p \in Producers : pc[p] # "swing1") => mTail = spine[Len(spine)]
    /\ \A p \in Producers : pc[p] = "swing1" => node[p] = spine[Len(spine)]
    /\ mNext[spine[Len(spine)]] = NULL
    /\ \A i \in Live : i < Len(spine) => mNext[spine[i]] \in {NULL, spine[i + 1]}

(* A node that is not published belongs to the producer that allocated it. *)
Private(p) == pc[p] \in {"load", "cas", "link1"}
PrivateInv ==
    \A p \in Producers : Private(p) =>
        /\ node[p] \in heap
        /\ mNext[node[p]] = NULL
        /\ mData[node[p]] \in Item
        /\ \A i \in Live : spine[i] # node[p]

(* Until its link a node has one producer. *)
Owns(p) == Private(p) \/ pc[p] = "link"
OwnerInv ==
    \A p, q \in Producers : Owns(p) /\ Owns(q) /\ node[p] = node[q] => p = q

(* A producer about to link has the predecessor of its node in the list. *)
LinkingInv ==
    \A p \in Producers : pc[p] = "link" =>
        \E i \in Live : /\ i < Len(spine)
                        /\ tail[p] = spine[i]
                        /\ node[p] = spine[i + 1]
                        /\ mNext[spine[i]] = NULL

(* mHead is the dummy, or one ahead of it between the swap and the take.  A *)
(* consumer that overtakes a producer before its link leaves NULL in mHead. *)
FirstOr(k) == {NULL} \cup {spine[i] : i \in {j \in Live : j = Len(consumed) + k}}
ConsumerInv ==
    \A c \in Consumers :
        /\ IF pc[c] \in {"sub", "take"}
           THEN head[c] = spine[Len(consumed) + 1] /\ mHead \in FirstOr(2)
           ELSE mHead \in FirstOr(1)
        /\ pc[c] = "next" => succ[c] = mHead
        /\ pc[c] = "swap" => /\ mHead = spine[Len(consumed) + 1]
                             /\ succ[c] \in FirstOr(2)
        /\ pc[c] = "free" => /\ head[c] \in heap
                             /\ \A i \in Live : spine[i] # head[c]
                             /\ \A p \in Producers : Private(p) => node[p] # head[c]

FifoInv ==
    /\ TypeOK
    /\ \A p \in Producers : pc[p] \in {"link1", "swing1"} => "1" \in Variants
    /\ \A i \in 1..Len(consumed) : consumed[i] = order[i]
    /\ SpineInv
    /\ LinkInv
    /\ PrivateInv
    /\ OwnerInv
    /\ LinkingInv
    /\ ConsumerInv

(***************************************************************************)
(* The inductive invariant behind SizeIsBounded, for one consumer: mLength *)
(* counts, modulo the width of size_t, the elements that are published,    *)
(* counted by their producer and not taken off by the consumer, who has    *)
(* seen one before it takes one off.                                       *)
(***************************************************************************)
Uncounted == {p \in Producers : pc[p] \in {"link", "swing1", "add"}}
Counted == Len(order) - Cardinality(Uncounted) - Len(consumed)
TakenOff == IF \E c \in Consumers : pc[c] = "take" THEN 1 ELSE 0

CountInv ==
    /\ TypeOK
    /\ IsFiniteSet(Uncounted)
    /\ Counted - TakenOff >= 0
    /\ mLength = (Counted - TakenOff) % SizeMod
    /\ \A c \in Consumers :
          pc[c] \in {"read", "next", "swap", "advance1", "sub"} => Counted >= 1

(***************************************************************************)
(* The inductive invariant behind NoBadAccess and EmptyMeansDrained, for   *)
(* one producer and one consumer: the links are there, but for the one     *)
(* that the producer is about to store, and what the consumer has seen     *)
(* counted is linked; elements are published in the order of the calls.    *)
(***************************************************************************)
Linked(i) ==
    \/ i < Len(spine) - 1
    \/ i < Len(spine) /\ \A p \in Producers : pc[p] # "link"

SoleInv ==
    /\ ~bad
    /\ \A i \in Live : Linked(i) => mNext[spine[i]] = spine[i + 1]
    /\ mHead # NULL
    /\ \A c \in Consumers : pc[c] = "swap" => succ[c] # NULL
    /\ \A i \in 1..Len(order) : order[i] \in Item
    /\ \A p \in Producers :
          /\ Len(order) = sent[p] - (IF Private(p) THEN 1 ELSE 0)
          /\ Private(p) => mData[node[p]] = <<p, sent[p]>>
          /\ \A i \in 1..Len(order) : order[i] = <<p, i>>

(* With one consumer a producer never writes to a node that was freed, even *)
(* when the consumer has already moved mHead past it.                       *)
ProducersAreSafe == \A p \in Producers : ~ProducerFault(p)
=============================================================================
