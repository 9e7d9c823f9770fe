------------------------ MODULE LockFreeQueue_proofs ------------------------
(* Theorems about LockFreeQueue for every value of its constants. *)
EXTENDS LockFreeQueue, FiniteSetTheorems, SequenceTheorems, TLAPS

USE DEF shared, memory, locals, ghosts

-----------------------------------------------------------------------------
(* Every step of a producer keeps the types. *)
LEMMA ProduceTyped ==
    ASSUME TypeOK, NEW p \in Producers, Produce(p)
    PROVE  TypeOK'
<1> USE ThreadAssumption, NodeAssumption, BoundAssumption, NoneAssumption
    DEF TypeOK, Thread, Pointer, ProducerPC, ConsumerPC, Goto
<1>1. CASE PushAlloc(p)
  <2>1. CASE Goto(p, "idle", "load")
    BY <1>1, <2>1 DEF PushAlloc, Item
  <2>2. CASE Goto(p, "idle", "link1")
    BY <1>1, <2>2 DEF PushAlloc, Item
  <2> QED
    BY <1>1, <2>1, <2>2 DEF PushAlloc
<1>2. CASE PushLoad(p)
  BY <1>2 DEF PushLoad
<1>3. CASE PushCAS(p)
  BY <1>3 DEF PushCAS, Publish
<1>4. CASE PushCASFails(p)
  BY <1>4 DEF PushCASFails
<1>5. CASE PushLink(p)
  BY <1>5 DEF PushLink
<1>6. CASE Push1Link(p)
  BY <1>6 DEF Push1Link, Publish
<1>7. CASE Push1Swing(p)
  BY <1>7 DEF Push1Swing
<1>8. CASE PushAdd(p)
  BY <1>8 DEF PushAdd
<1> QED
  BY <1>1, <1>2, <1>3, <1>4, <1>5, <1>6, <1>7, <1>8 DEF Produce

(* Every step of a consumer keeps the types. *)
LEMMA ConsumeTyped ==
    ASSUME TypeOK, NEW c \in Consumers, Consume(c)
    PROVE  TypeOK'
<1> USE ThreadAssumption, NodeAssumption, BoundAssumption, NoneAssumption
    DEF TypeOK, Thread, Pointer, ProducerPC, ConsumerPC, Goto
<1>1. CASE PopBegin(c)
  BY <1>1 DEF PopBegin
<1>2. CASE ClearBegin(c)
  BY <1>2 DEF ClearBegin
<1>3. CASE PopTest(c)
  BY <1>3 DEF PopTest
<1>4. CASE PopEmpty(c)
  BY <1>4 DEF PopEmpty
<1>5. CASE PopReadHead(c)
  BY <1>5 DEF PopReadHead
<1>6. CASE PopReadNext(c)
  BY <1>6 DEF PopReadNext
<1>7. CASE PopCAS(c)
  BY <1>7 DEF PopCAS
<1>8. CASE PopCASFails(c)
  BY <1>8 DEF PopCASFails
<1>9. CASE Pop1Advance(c)
  BY <1>9 DEF Pop1Advance
<1>10. CASE PopSub(c)
  BY <1>10 DEF PopSub
<1>11. CASE PopTake(c)
  BY <1>11 DEF PopTake, CanTake, Taken
<1>12. CASE PopFree(c)
  BY <1>12 DEF PopFree
<1>13. CASE Pop1Begin(c)
  BY <1>13 DEF Pop1Begin
<1> QED
  BY <1>1, <1>2, <1>3, <1>4, <1>5, <1>6, <1>7, <1>8, <1>9, <1>10, <1>11, <1>12, <1>13
  DEF Consume

LEMMA TypeInit == ASSUME Init PROVE TypeOK
<1>1. PICK dummy \in Node : mHead = dummy /\ mTail = dummy /\ heap = {dummy}
                             /\ spine = <<dummy>>
  BY DEF Init
<1>2. spine \in Seq(Node) /\ order \in Seq(Item \cup {None}) /\ consumed \in Seq(Item)
  BY <1>1 DEF Init
<1>3. 0 \in 0..(SizeMod - 1) /\ 0 \in 0..MaxPush
  BY BoundAssumption
<1> QED
  BY <1>1, <1>2, <1>3 DEF Init, TypeOK, Thread, Pointer, ProducerPC, ConsumerPC

(* Every variable keeps its type, for any producers and consumers and in    *)
(* both variants of push and pop, even on the way to a crash.               *)
THEOREM TypeCorrect == Spec => []TypeOK
<1>1. Init => TypeOK
  BY TypeInit
<1>2. TypeOK /\ [Next]_vars => TypeOK'
  <2> SUFFICES ASSUME TypeOK, [Next]_vars PROVE TypeOK'
    OBVIOUS
  <2>1. ASSUME NEW p \in Producers, Produce(p) PROVE TypeOK'
    BY <2>1, ProduceTyped
  <2>2. ASSUME NEW c \in Consumers, Consume(c) PROVE TypeOK'
    BY <2>2, ConsumeTyped
  <2>3. CASE Crash
    BY <2>3 DEF Crash, TypeOK
  <2>4. CASE UNCHANGED vars
    BY <2>4 DEF vars, TypeOK
  <2> QED
    BY <2>1, <2>2, <2>3, <2>4 DEF Next
<1> QED
  BY <1>1, <1>2, PTL DEF Spec

(* A sequence that agrees with another at each of its indices is a prefix. *)
LEMMA IsPrefixByIndex ==
    ASSUME NEW S, NEW T, NEW s \in Seq(S), NEW t \in Seq(T), Len(s) <= Len(t),
           \A i \in 1..Len(s) : s[i] = t[i]
    PROVE  IsPrefix(s, t)
<1>1. SubSeq(t, 1, Len(s)) = s
  OBVIOUS
<1> QED
  BY <1>1 DEF IsPrefix

-----------------------------------------------------------------------------
(***************************************************************************)
(* The usage the code supports: one consumer, and either one producer or   *)
(* any number of producers that call pushN.  What is consumed is then a    *)
(* prefix of what was published.                                           *)
(***************************************************************************)
OneConsumer == \A c, d \in Consumers : c = d
OneProducer == \A p, q \in Producers : p = q
Usage == OneConsumer /\ (OneProducer \/ Variants = {"N"})

(* A step that stores no link in the list leaves the linking producers be. *)
LEMMA LinkingKept ==
    ASSUME LinkingInv, spine' = spine, consumed' = consumed,
           \A q \in Producers : pc'[q] = "link" =>
               pc[q] = "link" /\ tail'[q] = tail[q] /\ node'[q] = node[q],
           \A i \in Live : mNext'[spine[i]] = mNext[spine[i]]
    PROVE  LinkingInv'
<1> SUFFICES ASSUME NEW q \in Producers, pc'[q] = "link"
             PROVE \E i \in Live' : /\ i < Len(spine')
                                     /\ tail'[q] = spine'[i]
                                     /\ node'[q] = spine'[i + 1]
                                     /\ mNext'[spine'[i]] = NULL
  BY DEF LinkingInv
<1>1. PICK i \in Live : /\ i < Len(spine)
                        /\ tail[q] = spine[i]
                        /\ node[q] = spine[i + 1]
                        /\ mNext[spine[i]] = NULL
  BY DEF LinkingInv
<1> QED
  BY <1>1 DEF Live

LEMMA PushAllocFifo ==
    ASSUME FifoInv, TypeOK', Usage, NEW p \in Producers, PushAlloc(p)
    PROVE  FifoInv'
<1> USE ThreadAssumption, NodeAssumption DEF Thread, Goto, Usage, OneConsumer, OneProducer, PushAlloc
<1>a. PICK n \in Node \ heap :
         /\ heap' = heap \cup {n}
         /\ mNext' = [mNext EXCEPT ![n] = NULL]
         /\ mData' = [mData EXCEPT ![n] = <<p, sent[p] + 1>>]
         /\ node' = [node EXCEPT ![p] = n]
  OBVIOUS
<1>b. mData'[n] \in Item
  BY <1>a DEF FifoInv, TypeOK, Item
<1>c. Live' = Live /\ spine' = spine /\ \A i \in Live : spine[i] # n
  BY <1>a DEF FifoInv, SpineInv, Live
<1>d. /\ node'[p] = n /\ pc[p] = "idle" /\ pc'[p] \in {"load", "link1"}
      /\ \A q \in Producers : q # p => node'[q] = node[q] /\ pc'[q] = pc[q]
  BY <1>a DEF FifoInv, TypeOK
<1>e. \A q \in Producers : Owns(q) => node[q] \in heap
  <2> SUFFICES ASSUME NEW q \in Producers, Owns(q) PROVE node[q] \in heap
    OBVIOUS
  <2>1. CASE Private(q)
    BY <2>1 DEF FifoInv, PrivateInv
  <2>2. CASE pc[q] = "link"
    <3>1. PICK i \in Live : i < Len(spine) /\ node[q] = spine[i + 1]
      BY <2>2 DEF FifoInv, LinkingInv
    <3>2. i + 1 \in Live
      BY <3>1 DEF FifoInv, TypeOK, Live
    <3> QED
      BY <3>1, <3>2 DEF FifoInv, SpineInv
  <2> QED
    BY <2>1, <2>2 DEF Owns, Private
<1>f. \A q \in Producers : Private(q) => Owns(q)
  BY DEF Private, Owns
<1>1. \A q \in Producers : pc'[q] \in {"link1", "swing1"} => "1" \in Variants
  BY DEF FifoInv, TypeOK
<1>2. \A i \in 1..Len(consumed') : consumed'[i] = order'[i]
  BY DEF FifoInv, TypeOK, SpineInv
<1>3. SpineInv'
  BY DEF FifoInv, TypeOK, Live, Private, FirstOr, SpineInv, LinkInv,
         PrivateInv, LinkingInv, ConsumerInv
<1>4. LinkInv'
  BY DEF FifoInv, TypeOK, Live, Private, FirstOr, SpineInv, LinkInv,
         PrivateInv, LinkingInv, ConsumerInv
<1>5. PrivateInv'
  BY <1>a, <1>b, <1>c, <1>d, <1>e, <1>f DEF FifoInv, TypeOK, PrivateInv, Private
<1>6. OwnerInv'
  BY <1>a, <1>d, <1>e DEF FifoInv, OwnerInv, Owns, Private
<1>7. LinkingInv'
  <2>1. \A i \in Live : mNext'[spine[i]] = mNext[spine[i]]
    BY <1>a, <1>c DEF FifoInv, TypeOK, SpineInv
  <2>2. consumed' = consumed /\ tail' = tail
    OBVIOUS
  <2> QED
    BY <2>1, <2>2, <1>c, <1>d, LinkingKept DEF FifoInv
<1>8. ConsumerInv'
  <2>1. FirstOr(1)' = FirstOr(1) /\ FirstOr(2)' = FirstOr(2)
    BY <1>c DEF FirstOr
  <2>2. \A c \in Consumers : pc'[c] = pc[c]
    BY <1>d DEF FifoInv, TypeOK
  <2>3. UNCHANGED <<mHead, head, succ, consumed, spine>>
    BY <1>c
  <2>4. ASSUME NEW c \in Consumers, pc[c] = "free"
        PROVE  /\ head[c] \in heap'
               /\ \A q \in Producers : Private(q)' => node'[q] # head[c]
    <3>1. /\ head[c] \in heap
          /\ \A q \in Producers : Private(q) => node[q] # head[c]
      BY <2>4 DEF FifoInv, ConsumerInv
    <3>2. \A q \in Producers : q # p => Private(q)' = Private(q)
      BY <1>d DEF Private
    <3> QED
      BY <3>1, <3>2, <1>a, <1>d
  <2> QED
    BY <2>1, <2>2, <2>3, <2>4, <1>c DEF FifoInv, ConsumerInv
<1> QED
  BY <1>1, <1>2, <1>3, <1>4, <1>5, <1>6, <1>7, <1>8 DEF FifoInv

LEMMA PushLoadFifo ==
    ASSUME FifoInv, TypeOK', Usage, NEW p \in Producers, PushLoad(p)
    PROVE  FifoInv'
<1> USE ThreadAssumption, NodeAssumption DEF Thread, Goto, Usage, OneConsumer, OneProducer, PushLoad
<1>1. \A q \in Producers : pc'[q] \in {"link1", "swing1"} => "1" \in Variants
  BY DEF FifoInv, TypeOK
<1>2. \A i \in 1..Len(consumed') : consumed'[i] = order'[i]
  BY DEF FifoInv, TypeOK, SpineInv
<1>3. SpineInv'
  BY DEF FifoInv, TypeOK, Live, Private, FirstOr, SpineInv, LinkInv,
         PrivateInv, LinkingInv, ConsumerInv
<1>4. LinkInv'
  BY DEF FifoInv, TypeOK, Live, Private, FirstOr, SpineInv, LinkInv,
         PrivateInv, LinkingInv, ConsumerInv
<1>5. PrivateInv'
  BY DEF FifoInv, TypeOK, Live, Private, FirstOr, SpineInv, LinkInv,
         PrivateInv, LinkingInv, ConsumerInv
<1>6. OwnerInv'
  BY DEF FifoInv, TypeOK, OwnerInv, Owns, Private
<1>7. LinkingInv'
  BY LinkingKept DEF FifoInv, TypeOK, SpineInv, Live
<1>8. ConsumerInv'
  BY DEF FifoInv, TypeOK, Live, Private, FirstOr, SpineInv, LinkInv,
         PrivateInv, LinkingInv, ConsumerInv
<1> QED
  BY <1>1, <1>2, <1>3, <1>4, <1>5, <1>6, <1>7, <1>8 DEF FifoInv

LEMMA PushCASFifo ==
    ASSUME FifoInv, TypeOK', Usage, NEW p \in Producers, PushCAS(p)
    PROVE  FifoInv'
<1> USE ThreadAssumption, NodeAssumption DEF Thread, Goto, Usage, OneConsumer, OneProducer, PushCAS
<1> DEFINE m == Len(spine)
<1>a. /\ Len(spine') = m + 1 /\ spine'[m + 1] = node[p]
      /\ \A i \in 1..m : spine'[i] = spine[i]
      /\ m \in Nat /\ m = Len(order) + 1
  BY DEF FifoInv, TypeOK, Publish, SpineInv
<1>b. /\ Len(order') = m /\ order'[m] = mData[node[p]]
      /\ \A i \in 1..(m - 1) : order'[i] = order[i]
  BY <1>a DEF FifoInv, TypeOK, Publish
<1>c. /\ consumed' = consumed /\ Len(consumed) \in Nat /\ Len(consumed) <= m - 1
      /\ Live' = Live \cup {m + 1} /\ m \in Live /\ m + 1 \notin Live /\ Live \subseteq 1..m
  BY <1>a DEF FifoInv, TypeOK, Publish, SpineInv, Live
<1>d. /\ Private(p) /\ ~Private(p)' /\ node' = node
      /\ \A q \in Producers : q # p => pc'[q] = pc[q] /\ (Private(q)' <=> Private(q))
      /\ \A d \in Consumers : pc'[d] = pc[d]
  BY DEF FifoInv, TypeOK, Private
<1>e. \A q \in Producers : Private(q) => Owns(q)
  BY DEF Private, Owns
<1>f. \A q \in Producers : pc[q] # "swing1"
  BY DEF FifoInv, TypeOK
<1> HIDE DEF m
<1>1. \A q \in Producers : pc'[q] \in {"link1", "swing1"} => "1" \in Variants
  BY DEF FifoInv, TypeOK
<1>2. \A i \in 1..Len(consumed') : consumed'[i] = order'[i]
  BY <1>b, <1>c DEF FifoInv
<1>3. SpineInv'
  <2>1. /\ Len(spine') = Len(order') + 1
        /\ Len(consumed') <= Len(order')
    BY <1>a, <1>b, <1>c
  <2>2. \A i \in Live' : spine'[i] \in heap'
    BY <1>a, <1>c, <1>d DEF FifoInv, PrivateInv, SpineInv
  <2>3. \A i, j \in Live' : spine'[i] = spine'[j] => i = j
    BY <1>a, <1>c, <1>d DEF FifoInv, PrivateInv, SpineInv
  <2>4. \A i \in Live' : i > Len(consumed') + 1 => mData'[spine'[i]] = order'[i - 1]
    BY <1>a, <1>b, <1>c, <1>d DEF FifoInv, SpineInv, Live
  <2> QED
    BY <2>1, <2>2, <2>3, <2>4 DEF SpineInv
<1>4. LinkInv'
  <2>1. mTail' = spine'[Len(spine')] /\ mNext'[spine'[Len(spine')]] = NULL
    BY <1>a, <1>d DEF FifoInv, PrivateInv
  <2>3. \A q \in Producers : pc'[q] # "swing1"
    BY <1>d, <1>f DEF FifoInv, TypeOK
  <2>2. \A i \in Live' : i < Len(spine') => mNext'[spine'[i]] \in {NULL, spine'[i + 1]}
    <3> SUFFICES ASSUME NEW i \in Live', i < Len(spine')
                 PROVE mNext'[spine'[i]] \in {NULL, spine'[i + 1]}
      OBVIOUS
    <3>1. i \in Live /\ i \in 1..m /\ spine'[i] = spine[i] /\ mNext' = mNext
      BY <1>a, <1>c
    <3>2. CASE i = m
      BY <3>1, <3>2 DEF FifoInv, LinkInv, m
    <3>3. CASE i < m
      BY <3>1, <3>3, <1>a DEF FifoInv, LinkInv, m
    <3> QED
      BY <3>1, <3>2, <3>3, <1>a
  <2> QED
    BY <2>1, <2>2, <2>3 DEF LinkInv
<1>5. PrivateInv'
  BY <1>a, <1>c, <1>d, <1>e DEF FifoInv, PrivateInv, OwnerInv
<1>6. OwnerInv'
  BY DEF FifoInv, TypeOK, OwnerInv, Owns, Private
<1>7. LinkingInv'
  <2> SUFFICES ASSUME NEW q \in Producers, pc'[q] = "link"
               PROVE \E i \in Live' : /\ i < Len(spine')
                                       /\ tail'[q] = spine'[i]
                                       /\ node'[q] = spine'[i + 1]
                                       /\ mNext'[spine'[i]] = NULL
    BY DEF LinkingInv
  <2>1. CASE q = p
    <3>1. /\ m \in Live' /\ m < Len(spine') /\ spine'[m] = spine[m]
          /\ node'[q] = spine'[m + 1]
      BY <2>1, <1>a, <1>c, <1>d
    <3>2. tail'[q] = spine[m] /\ mNext'[spine[m]] = NULL
      BY <2>1, <1>f DEF FifoInv, LinkInv, m
    <3> QED
      BY <3>1, <3>2
  <2>2. CASE q # p
    <3>1. pc[q] = "link"
      BY <2>2, <1>d
    <3>2. PICK i \in Live : /\ i < m
                            /\ tail[q] = spine[i]
                            /\ node[q] = spine[i + 1]
                            /\ mNext[spine[i]] = NULL
      BY <3>1 DEF FifoInv, LinkingInv, m
    <3>3. i \in Live' /\ i < Len(spine') /\ spine'[i] = spine[i] /\ spine'[i + 1] = spine[i + 1]
      BY <3>2, <1>a, <1>c DEF Live
    <3> QED
      BY <3>2, <3>3, <1>d
  <2> QED
    BY <2>1, <2>2
<1>8. ConsumerInv'
  <2>1. FirstOr(1)' = FirstOr(1) /\ FirstOr(2) \subseteq FirstOr(2)'
    BY <1>a, <1>c DEF FirstOr
  <2>2. spine'[Len(consumed') + 1] = spine[Len(consumed) + 1]
    BY <1>a, <1>c
  <2>3. \A d \in Consumers : pc[d] = "free" => node[p] # head[d]
    BY <1>d DEF FifoInv, ConsumerInv
  <2> QED
    BY <2>1, <2>2, <2>3, <1>a, <1>c, <1>d DEF FifoInv, ConsumerInv
<1> QED
  BY <1>1, <1>2, <1>3, <1>4, <1>5, <1>6, <1>7, <1>8 DEF FifoInv

LEMMA PushCASFailsFifo ==
    ASSUME FifoInv, TypeOK', Usage, NEW p \in Producers, PushCASFails(p)
    PROVE  FifoInv'
<1> USE ThreadAssumption, NodeAssumption DEF Thread, Goto, Usage, OneConsumer, OneProducer, PushCASFails
<1>1. \A q \in Producers : pc'[q] \in {"link1", "swing1"} => "1" \in Variants
  BY DEF FifoInv, TypeOK
<1>2. \A i \in 1..Len(consumed') : consumed'[i] = order'[i]
  BY DEF FifoInv, TypeOK, SpineInv
<1>3. SpineInv'
  BY DEF FifoInv, TypeOK, Live, Private, FirstOr, SpineInv, LinkInv,
         PrivateInv, LinkingInv, ConsumerInv
<1>4. LinkInv'
  BY DEF FifoInv, TypeOK, Live, Private, FirstOr, SpineInv, LinkInv,
         PrivateInv, LinkingInv, ConsumerInv
<1>5. PrivateInv'
  BY DEF FifoInv, TypeOK, Live, Private, FirstOr, SpineInv, LinkInv,
         PrivateInv, LinkingInv, ConsumerInv
<1>6. OwnerInv'
  BY DEF FifoInv, TypeOK, OwnerInv, Owns, Private
<1>7. LinkingInv'
  BY LinkingKept DEF FifoInv, TypeOK, SpineInv, Live
<1>8. ConsumerInv'
  BY DEF FifoInv, TypeOK, Live, Private, FirstOr, SpineInv, LinkInv,
         PrivateInv, LinkingInv, ConsumerInv
<1> QED
  BY <1>1, <1>2, <1>3, <1>4, <1>5, <1>6, <1>7, <1>8 DEF FifoInv

LEMMA PushLinkFifo ==
    ASSUME FifoInv, TypeOK', Usage, NEW p \in Producers, PushLink(p)
    PROVE  FifoInv'
<1> USE ThreadAssumption, NodeAssumption DEF Thread, Goto, Usage, OneConsumer, OneProducer, PushLink
<1>a. PICK k \in Live : /\ k < Len(spine)
                       /\ tail[p] = spine[k]
                       /\ node[p] = spine[k + 1]
                       /\ mNext[spine[k]] = NULL
  BY DEF FifoInv, LinkingInv
<1>b. \A i \in Live : i # k => mNext'[spine[i]] = mNext[spine[i]]
  BY <1>a DEF FifoInv, TypeOK, SpineInv
<1>c. mNext'[spine[k]] = spine[k + 1]
  BY <1>a DEF FifoInv, TypeOK, SpineInv
<1>d. Live' = Live /\ Len(spine) \in Live /\ k + 1 \in Live
  BY <1>a DEF FifoInv, TypeOK, SpineInv, Live
<1>1. \A q \in Producers : pc'[q] \in {"link1", "swing1"} => "1" \in Variants
  BY DEF FifoInv, TypeOK
<1>2. \A i \in 1..Len(consumed') : consumed'[i] = order'[i]
  BY DEF FifoInv, TypeOK, SpineInv
<1>3. SpineInv'
  BY <1>d DEF FifoInv, SpineInv
<1>4. LinkInv'
  BY <1>a, <1>b, <1>c, <1>d DEF FifoInv, LinkInv, Live
<1>5. PrivateInv'
  BY DEF FifoInv, TypeOK, Live, Private, FirstOr, SpineInv, LinkInv,
         PrivateInv, LinkingInv, ConsumerInv
<1>6. OwnerInv'
  BY DEF FifoInv, TypeOK, OwnerInv, Owns, Private
<1>7. LinkingInv'
  <2> SUFFICES ASSUME NEW q \in Producers, pc'[q] = "link"
               PROVE \E i \in Live' : /\ i < Len(spine')
                                       /\ tail'[q] = spine'[i]
                                       /\ node'[q] = spine'[i + 1]
                                       /\ mNext'[spine'[i]] = NULL
    BY DEF LinkingInv
  <2>1. q # p /\ pc[q] = "link"
    BY DEF FifoInv, TypeOK
  <2>2. PICK i \in Live : /\ i < Len(spine)
                          /\ tail[q] = spine[i]
                          /\ node[q] = spine[i + 1]
                          /\ mNext[spine[i]] = NULL
    BY <2>1 DEF FifoInv, LinkingInv
  <2>3. i # k
    BY <2>1, <2>2, <1>a DEF FifoInv, OwnerInv, Owns
  <2> QED
    BY <2>2, <2>3, <1>b, <1>d
<1>8. ConsumerInv'
  BY DEF FifoInv, TypeOK, Live, Private, FirstOr, SpineInv, LinkInv,
         PrivateInv, LinkingInv, ConsumerInv
<1> QED
  BY <1>1, <1>2, <1>3, <1>4, <1>5, <1>6, <1>7, <1>8 DEF FifoInv

LEMMA Push1LinkFifo ==
    ASSUME FifoInv, TypeOK', Usage, NEW p \in Producers, Push1Link(p)
    PROVE  FifoInv'
<1> USE ThreadAssumption, NodeAssumption DEF Thread, Goto, Usage, OneConsumer, OneProducer, Push1Link
<1> DEFINE m == Len(spine)
<1>a. /\ Len(spine') = m + 1 /\ spine'[m + 1] = node[p]
      /\ \A i \in 1..m : spine'[i] = spine[i]
      /\ m \in Nat /\ m = Len(order) + 1
  BY DEF FifoInv, TypeOK, Publish, SpineInv
<1>b. /\ Len(order') = m /\ order'[m] = mData[node[p]]
      /\ \A i \in 1..(m - 1) : order'[i] = order[i]
  BY <1>a DEF FifoInv, TypeOK, Publish
<1>c. /\ consumed' = consumed /\ Len(consumed) \in Nat /\ Len(consumed) <= m - 1
      /\ Live' = Live \cup {m + 1} /\ m \in Live /\ m + 1 \notin Live /\ Live \subseteq 1..m
  BY <1>a DEF FifoInv, TypeOK, Publish, SpineInv, Live
<1>d. /\ Private(p) /\ ~Private(p)' /\ node' = node
      /\ \A q \in Producers : q # p => pc'[q] = pc[q] /\ (Private(q)' <=> Private(q))
      /\ \A d \in Consumers : pc'[d] = pc[d]
  <2>1. /\ pc' = [pc EXCEPT ![p] = "swing1"] /\ node' = node
        /\ pc \in [Producers \cup Consumers -> ProducerPC \cup ConsumerPC]
    BY DEF FifoInv, TypeOK
  <2> QED
    BY <2>1 DEF Private
<1>e. \A q \in Producers : Private(q) => Owns(q)
  BY DEF Private, Owns
<1>f. /\ \A q \in Producers : q = p
      /\ mTail = spine[m] /\ mNext' = [mNext EXCEPT ![spine[m]] = node[p]]
  <2>1. pc[p] = "link1" /\ mNext' = [mNext EXCEPT ![mTail] = node[p]]
    OBVIOUS
  <2>2. "1" \in Variants
    BY <2>1 DEF FifoInv
  <2>3. \A q \in Producers : q = p
    BY <2>2
  <2>4. mTail = spine[m]
    BY <2>1, <2>3 DEF FifoInv, LinkInv
  <2> QED
    BY <2>1, <2>3, <2>4
<1>g. /\ spine[m] \in Node /\ spine[m] # node[p]
      /\ \A i \in Live : i # m => mNext'[spine[i]] = mNext[spine[i]]
      /\ mNext'[spine[m]] = node[p] /\ mNext'[node[p]] = NULL
  BY <1>a, <1>c, <1>d, <1>f DEF FifoInv, TypeOK, SpineInv, PrivateInv, Live
<1> HIDE DEF m
<1>1. \A q \in Producers : pc'[q] \in {"link1", "swing1"} => "1" \in Variants
  BY DEF FifoInv, TypeOK
<1>2. \A i \in 1..Len(consumed') : consumed'[i] = order'[i]
  BY <1>b, <1>c DEF FifoInv
<1>3. SpineInv'
  <2>1. /\ Len(spine') = Len(order') + 1
        /\ Len(consumed') <= Len(order')
    BY <1>a, <1>b, <1>c
  <2>2. \A i \in Live' : spine'[i] \in heap'
    BY <1>a, <1>c, <1>d DEF FifoInv, PrivateInv, SpineInv
  <2>3. \A i, j \in Live' : spine'[i] = spine'[j] => i = j
    BY <1>a, <1>c, <1>d DEF FifoInv, PrivateInv, SpineInv
  <2>4. ASSUME NEW i \in Live', i > Len(consumed') + 1
        PROVE  mData'[spine'[i]] = order'[i - 1]
    <3>1. CASE i = m + 1
      BY <3>1, <1>a, <1>b
    <3>2. CASE i # m + 1
      <4>1. i \in Live /\ i \in 1..m /\ i - 1 \in 1..(m - 1) /\ i > Len(consumed) + 1
        BY <2>4, <3>2, <1>c
      <4> QED
        BY <4>1, <1>a, <1>b DEF FifoInv, SpineInv
    <3> QED
      BY <3>1, <3>2
  <2> QED
    BY <2>1, <2>2, <2>3, <2>4 DEF SpineInv
<1>4. LinkInv'
  <2>1. pc'[p] = "swing1" /\ node'[p] = spine'[Len(spine')]
    BY <1>a, <1>d DEF FifoInv, TypeOK
  <2>2. \A i \in Live' : i < Len(spine') => mNext'[spine'[i]] \in {NULL, spine'[i + 1]}
    <3> SUFFICES ASSUME NEW i \in Live', i < Len(spine')
                 PROVE mNext'[spine'[i]] \in {NULL, spine'[i + 1]}
      OBVIOUS
    <3>0. i \in Live \cup {m + 1} /\ i # m + 1
      BY <1>a, <1>c
    <3>1. i \in Live /\ i \in 1..m /\ spine'[i] = spine[i]
      BY <3>0, <1>a, <1>c
    <3>2. CASE i = m
      BY <3>1, <3>2, <1>a, <1>g
    <3>3. CASE i < m
      BY <3>1, <3>3, <1>a, <1>g DEF FifoInv, LinkInv, m
    <3> QED
      BY <3>1, <3>2, <3>3, <1>a
  <2> QED
    BY <2>1, <2>2, <1>a, <1>f, <1>g DEF LinkInv
<1>5. PrivateInv' /\ OwnerInv'
  BY <1>d, <1>f DEF PrivateInv, OwnerInv
<1>7. LinkingInv'
  BY <1>d, <1>f DEF FifoInv, TypeOK, LinkingInv
<1>8. ConsumerInv'
  <2>1. FirstOr(1)' = FirstOr(1) /\ FirstOr(2) \subseteq FirstOr(2)'
    BY <1>a, <1>c DEF FirstOr
  <2>2. spine'[Len(consumed') + 1] = spine[Len(consumed) + 1]
    BY <1>a, <1>c
  <2>3. \A d \in Consumers : pc[d] = "free" => node[p] # head[d]
    BY <1>d DEF FifoInv, ConsumerInv
  <2> QED
    BY <2>1, <2>2, <2>3, <1>a, <1>c, <1>d DEF FifoInv, ConsumerInv
<1> QED
  BY <1>1, <1>2, <1>3, <1>4, <1>5, <1>7, <1>8 DEF FifoInv

LEMMA Push1SwingFifo ==
    ASSUME FifoInv, TypeOK', Usage, NEW p \in Producers, Push1Swing(p)
    PROVE  FifoInv'
<1> USE ThreadAssumption, NodeAssumption DEF Thread, Goto, Usage, OneConsumer, OneProducer, Push1Swing
<1>1. \A q \in Producers : pc'[q] \in {"link1", "swing1"} => "1" \in Variants
  BY DEF FifoInv, TypeOK
<1>2. \A i \in 1..Len(consumed') : consumed'[i] = order'[i]
  BY DEF FifoInv, TypeOK, SpineInv
<1>3. SpineInv'
  BY DEF FifoInv, TypeOK, Live, Private, FirstOr, SpineInv, LinkInv,
         PrivateInv, LinkingInv, ConsumerInv
<1>4. LinkInv'
  BY DEF FifoInv, TypeOK, Live, Private, FirstOr, SpineInv, LinkInv,
         PrivateInv, LinkingInv, ConsumerInv
<1>5. PrivateInv'
  BY DEF FifoInv, TypeOK, Live, Private, FirstOr, SpineInv, LinkInv,
         PrivateInv, LinkingInv, ConsumerInv
<1>6. OwnerInv'
  BY DEF FifoInv, TypeOK, OwnerInv, Owns, Private
<1>7. LinkingInv'
  BY LinkingKept DEF FifoInv, TypeOK, SpineInv, Live
<1>8. ConsumerInv'
  BY DEF FifoInv, TypeOK, Live, Private, FirstOr, SpineInv, LinkInv,
         PrivateInv, LinkingInv, ConsumerInv
<1> QED
  BY <1>1, <1>2, <1>3, <1>4, <1>5, <1>6, <1>7, <1>8 DEF FifoInv

LEMMA PushAddFifo ==
    ASSUME FifoInv, TypeOK', Usage, NEW p \in Producers, PushAdd(p)
    PROVE  FifoInv'
<1> USE ThreadAssumption, NodeAssumption DEF Thread, Goto, Usage, OneConsumer, OneProducer, PushAdd
<1>1. \A q \in Producers : pc'[q] \in {"link1", "swing1"} => "1" \in Variants
  BY DEF FifoInv, TypeOK
<1>2. \A i \in 1..Len(consumed') : consumed'[i] = order'[i]
  BY DEF FifoInv, TypeOK, SpineInv
<1>3. SpineInv'
  BY DEF FifoInv, TypeOK, Live, Private, FirstOr, SpineInv, LinkInv,
         PrivateInv, LinkingInv, ConsumerInv
<1>4. LinkInv'
  BY DEF FifoInv, TypeOK, Live, Private, FirstOr, SpineInv, LinkInv,
         PrivateInv, LinkingInv, ConsumerInv
<1>5. PrivateInv'
  BY DEF FifoInv, TypeOK, Live, Private, FirstOr, SpineInv, LinkInv,
         PrivateInv, LinkingInv, ConsumerInv
<1>6. OwnerInv'
  BY DEF FifoInv, TypeOK, OwnerInv, Owns, Private
<1>7. LinkingInv'
  BY LinkingKept DEF FifoInv, TypeOK, SpineInv, Live
<1>8. ConsumerInv'
  BY DEF FifoInv, TypeOK, Live, Private, FirstOr, SpineInv, LinkInv,
         PrivateInv, LinkingInv, ConsumerInv
<1> QED
  BY <1>1, <1>2, <1>3, <1>4, <1>5, <1>6, <1>7, <1>8 DEF FifoInv

LEMMA PopBeginFifo ==
    ASSUME FifoInv, TypeOK', Usage, NEW c \in Consumers, PopBegin(c)
    PROVE  FifoInv'
<1> USE ThreadAssumption, NodeAssumption DEF Thread, Goto, Usage, OneConsumer, OneProducer, PopBegin
<1>1. \A q \in Producers : pc'[q] \in {"link1", "swing1"} => "1" \in Variants
  BY DEF FifoInv, TypeOK
<1>2. \A i \in 1..Len(consumed') : consumed'[i] = order'[i]
  BY DEF FifoInv, TypeOK, SpineInv
<1>3. SpineInv'
  BY DEF FifoInv, TypeOK, Live, Private, FirstOr, SpineInv, LinkInv,
         PrivateInv, LinkingInv, ConsumerInv
<1>4. LinkInv'
  BY DEF FifoInv, TypeOK, Live, Private, FirstOr, SpineInv, LinkInv,
         PrivateInv, LinkingInv, ConsumerInv
<1>5. PrivateInv'
  BY DEF FifoInv, TypeOK, Live, Private, FirstOr, SpineInv, LinkInv,
         PrivateInv, LinkingInv, ConsumerInv
<1>6. OwnerInv'
  BY DEF FifoInv, TypeOK, OwnerInv, Owns, Private
<1>7. LinkingInv'
  BY LinkingKept DEF FifoInv, TypeOK, SpineInv, Live
<1>8. ConsumerInv'
  BY DEF FifoInv, TypeOK, Live, Private, FirstOr, SpineInv, LinkInv,
         PrivateInv, LinkingInv, ConsumerInv
<1> QED
  BY <1>1, <1>2, <1>3, <1>4, <1>5, <1>6, <1>7, <1>8 DEF FifoInv

LEMMA Pop1BeginFifo ==
    ASSUME FifoInv, TypeOK', Usage, NEW c \in Consumers, Pop1Begin(c)
    PROVE  FifoInv'
<1> USE ThreadAssumption, NodeAssumption DEF Thread, Goto, Usage, OneConsumer, OneProducer, Pop1Begin
<1>1. \A q \in Producers : pc'[q] \in {"link1", "swing1"} => "1" \in Variants
  BY DEF FifoInv, TypeOK
<1>2. \A i \in 1..Len(consumed') : consumed'[i] = order'[i]
  BY DEF FifoInv, TypeOK, SpineInv
<1>3. SpineInv'
  BY DEF FifoInv, TypeOK, Live, Private, FirstOr, SpineInv, LinkInv,
         PrivateInv, LinkingInv, ConsumerInv
<1>4. LinkInv'
  BY DEF FifoInv, TypeOK, Live, Private, FirstOr, SpineInv, LinkInv,
         PrivateInv, LinkingInv, ConsumerInv
<1>5. PrivateInv'
  BY DEF FifoInv, TypeOK, Live, Private, FirstOr, SpineInv, LinkInv,
         PrivateInv, LinkingInv, ConsumerInv
<1>6. OwnerInv'
  BY DEF FifoInv, TypeOK, OwnerInv, Owns, Private
<1>7. LinkingInv'
  BY LinkingKept DEF FifoInv, TypeOK, SpineInv, Live
<1>8. ConsumerInv'
  BY DEF FifoInv, TypeOK, Live, Private, FirstOr, SpineInv, LinkInv,
         PrivateInv, LinkingInv, ConsumerInv
<1> QED
  BY <1>1, <1>2, <1>3, <1>4, <1>5, <1>6, <1>7, <1>8 DEF FifoInv

LEMMA ClearBeginFifo ==
    ASSUME FifoInv, TypeOK', Usage, NEW c \in Consumers, ClearBegin(c)
    PROVE  FifoInv'
<1> USE ThreadAssumption, NodeAssumption DEF Thread, Goto, Usage, OneConsumer, OneProducer, ClearBegin
<1>1. \A q \in Producers : pc'[q] \in {"link1", "swing1"} => "1" \in Variants
  BY DEF FifoInv, TypeOK
<1>2. \A i \in 1..Len(consumed') : consumed'[i] = order'[i]
  BY DEF FifoInv, TypeOK, SpineInv
<1>3. SpineInv'
  BY DEF FifoInv, TypeOK, Live, Private, FirstOr, SpineInv, LinkInv,
         PrivateInv, LinkingInv, ConsumerInv
<1>4. LinkInv'
  BY DEF FifoInv, TypeOK, Live, Private, FirstOr, SpineInv, LinkInv,
         PrivateInv, LinkingInv, ConsumerInv
<1>5. PrivateInv'
  BY DEF FifoInv, TypeOK, Live, Private, FirstOr, SpineInv, LinkInv,
         PrivateInv, LinkingInv, ConsumerInv
<1>6. OwnerInv'
  BY DEF FifoInv, TypeOK, OwnerInv, Owns, Private
<1>7. LinkingInv'
  BY LinkingKept DEF FifoInv, TypeOK, SpineInv, Live
<1>8. ConsumerInv'
  BY DEF FifoInv, TypeOK, Live, Private, FirstOr, SpineInv, LinkInv,
         PrivateInv, LinkingInv, ConsumerInv
<1> QED
  BY <1>1, <1>2, <1>3, <1>4, <1>5, <1>6, <1>7, <1>8 DEF FifoInv

LEMMA PopTestFifo ==
    ASSUME FifoInv, TypeOK', Usage, NEW c \in Consumers, PopTest(c)
    PROVE  FifoInv'
<1> USE ThreadAssumption, NodeAssumption DEF Thread, Goto, Usage, OneConsumer, OneProducer, PopTest
<1>1. \A q \in Producers : pc'[q] \in {"link1", "swing1"} => "1" \in Variants
  BY DEF FifoInv, TypeOK
<1>2. \A i \in 1..Len(consumed') : consumed'[i] = order'[i]
  BY DEF FifoInv, TypeOK, SpineInv
<1>3. SpineInv'
  BY DEF FifoInv, TypeOK, Live, Private, FirstOr, SpineInv, LinkInv,
         PrivateInv, LinkingInv, ConsumerInv
<1>4. LinkInv'
  BY DEF FifoInv, TypeOK, Live, Private, FirstOr, SpineInv, LinkInv,
         PrivateInv, LinkingInv, ConsumerInv
<1>5. PrivateInv'
  BY DEF FifoInv, TypeOK, Live, Private, FirstOr, SpineInv, LinkInv,
         PrivateInv, LinkingInv, ConsumerInv
<1>6. OwnerInv'
  <2>1. \A q \in Producers : pc'[q] = pc[q]
    BY DEF FifoInv, TypeOK
  <2> QED
    BY <2>1 DEF FifoInv, OwnerInv, Owns, Private
<1>7. LinkingInv'
  BY LinkingKept DEF FifoInv, TypeOK, SpineInv, Live
<1>8. ConsumerInv'
  BY DEF FifoInv, TypeOK, Live, Private, FirstOr, SpineInv, LinkInv,
         PrivateInv, LinkingInv, ConsumerInv
<1> QED
  BY <1>1, <1>2, <1>3, <1>4, <1>5, <1>6, <1>7, <1>8 DEF FifoInv

LEMMA PopEmptyFifo ==
    ASSUME FifoInv, TypeOK', Usage, NEW c \in Consumers, PopEmpty(c)
    PROVE  FifoInv'
<1> USE ThreadAssumption, NodeAssumption DEF Thread, Goto, Usage, OneConsumer, OneProducer, PopEmpty
<1>1. \A q \in Producers : pc'[q] \in {"link1", "swing1"} => "1" \in Variants
  BY DEF FifoInv, TypeOK
<1>2. \A i \in 1..Len(consumed') : consumed'[i] = order'[i]
  BY DEF FifoInv, TypeOK, SpineInv
<1>3. SpineInv'
  BY DEF FifoInv, TypeOK, Live, Private, FirstOr, SpineInv, LinkInv,
         PrivateInv, LinkingInv, ConsumerInv
<1>4. LinkInv'
  BY DEF FifoInv, TypeOK, Live, Private, FirstOr, SpineInv, LinkInv,
         PrivateInv, LinkingInv, ConsumerInv
<1>5. PrivateInv'
  BY DEF FifoInv, TypeOK, Live, Private, FirstOr, SpineInv, LinkInv,
         PrivateInv, LinkingInv, ConsumerInv
<1>6. OwnerInv'
  <2>1. \A q \in Producers : pc'[q] = pc[q]
    BY DEF FifoInv, TypeOK
  <2> QED
    BY <2>1 DEF FifoInv, OwnerInv, Owns, Private
<1>7. LinkingInv'
  BY LinkingKept DEF FifoInv, TypeOK, SpineInv, Live
<1>8. ConsumerInv'
  BY DEF FifoInv, TypeOK, Live, Private, FirstOr, SpineInv, LinkInv,
         PrivateInv, LinkingInv, ConsumerInv
<1> QED
  BY <1>1, <1>2, <1>3, <1>4, <1>5, <1>6, <1>7, <1>8 DEF FifoInv

LEMMA PopReadHeadFifo ==
    ASSUME FifoInv, TypeOK', Usage, NEW c \in Consumers, PopReadHead(c)
    PROVE  FifoInv'
<1> USE ThreadAssumption, NodeAssumption DEF Thread, Goto, Usage, OneConsumer, OneProducer, PopReadHead
<1>1. \A q \in Producers : pc'[q] \in {"link1", "swing1"} => "1" \in Variants
  BY DEF FifoInv, TypeOK
<1>2. \A i \in 1..Len(consumed') : consumed'[i] = order'[i]
  BY DEF FifoInv, TypeOK, SpineInv
<1>3. SpineInv'
  BY DEF FifoInv, TypeOK, Live, Private, FirstOr, SpineInv, LinkInv,
         PrivateInv, LinkingInv, ConsumerInv
<1>4. LinkInv'
  BY DEF FifoInv, TypeOK, Live, Private, FirstOr, SpineInv, LinkInv,
         PrivateInv, LinkingInv, ConsumerInv
<1>5. PrivateInv'
  BY DEF FifoInv, TypeOK, Live, Private, FirstOr, SpineInv, LinkInv,
         PrivateInv, LinkingInv, ConsumerInv
<1>6. OwnerInv'
  BY DEF FifoInv, TypeOK, OwnerInv, Owns, Private
<1>7. LinkingInv'
  BY LinkingKept DEF FifoInv, TypeOK, SpineInv, Live
<1>8. ConsumerInv'
  BY DEF FifoInv, TypeOK, Live, Private, FirstOr, SpineInv, LinkInv,
         PrivateInv, LinkingInv, ConsumerInv
<1> QED
  BY <1>1, <1>2, <1>3, <1>4, <1>5, <1>6, <1>7, <1>8 DEF FifoInv

LEMMA PopReadNextFifo ==
    ASSUME FifoInv, TypeOK', Usage, NEW c \in Consumers, PopReadNext(c)
    PROVE  FifoInv'
<1> USE ThreadAssumption, NodeAssumption DEF Thread, Goto, Usage, OneConsumer, OneProducer, PopReadNext
<1>1. \A q \in Producers : pc'[q] \in {"link1", "swing1"} => "1" \in Variants
  BY DEF FifoInv, TypeOK
<1>2. \A i \in 1..Len(consumed') : consumed'[i] = order'[i]
  BY DEF FifoInv, TypeOK, SpineInv
<1>3. SpineInv'
  BY DEF FifoInv, TypeOK, Live, Private, FirstOr, SpineInv, LinkInv,
         PrivateInv, LinkingInv, ConsumerInv
<1>4. LinkInv'
  BY DEF FifoInv, TypeOK, Live, Private, FirstOr, SpineInv, LinkInv,
         PrivateInv, LinkingInv, ConsumerInv
<1>5. PrivateInv'
  BY DEF FifoInv, TypeOK, Live, Private, FirstOr, SpineInv, LinkInv,
         PrivateInv, LinkingInv, ConsumerInv
<1>6. OwnerInv'
  BY DEF FifoInv, TypeOK, OwnerInv, Owns, Private
<1>7. LinkingInv'
  BY LinkingKept DEF FifoInv, TypeOK, SpineInv, Live
<1>8. ConsumerInv'
  <2>1. succ[c] = mHead /\ mHead \in FirstOr(1) /\ mHead # NULL
    <3>1. pc[c] = "next" /\ succ[c] \in heap /\ heap \subseteq Node
      BY DEF FifoInv, TypeOK
    <3>2. succ[c] = mHead /\ mHead \in FirstOr(1)
      BY <3>1 DEF FifoInv, ConsumerInv
    <3> QED
      BY <3>1, <3>2
  <2>2. mHead = spine[Len(consumed) + 1]
    BY <2>1 DEF FirstOr
  <2>3. /\ Len(consumed) + 1 \in Live /\ Len(spine) \in Live
        /\ \A i \in Live : i < Len(spine) => i + 1 \in Live
    BY DEF FifoInv, TypeOK, SpineInv, Live
  <2>4. mNext[mHead] \in FirstOr(2)
    <3>1. CASE Len(consumed) + 1 = Len(spine)
      BY <2>2, <3>1 DEF FifoInv, LinkInv, FirstOr
    <3>2. CASE Len(consumed) + 1 < Len(spine)
      <4>1. mNext[mHead] \in {NULL, spine[Len(consumed) + 2]}
        BY <2>2, <2>3, <3>2 DEF FifoInv, TypeOK, LinkInv
      <4>2. Len(consumed) + 2 \in Live
        BY <2>3, <3>2 DEF FifoInv, TypeOK
      <4> QED
        BY <4>1, <4>2 DEF FirstOr
    <3> QED
      BY <2>3, <3>1, <3>2 DEF FifoInv, TypeOK, Live
  <2> QED
    BY <2>1, <2>2, <2>4 DEF FifoInv, TypeOK, ConsumerInv, FirstOr, Live
<1> QED
  BY <1>1, <1>2, <1>3, <1>4, <1>5, <1>6, <1>7, <1>8 DEF FifoInv

LEMMA PopCASFifo ==
    ASSUME FifoInv, TypeOK', Usage, NEW c \in Consumers, PopCAS(c)
    PROVE  FifoInv'
<1> USE ThreadAssumption, NodeAssumption DEF Thread, Goto, Usage, OneConsumer, OneProducer, PopCAS
<1>1. \A q \in Producers : pc'[q] \in {"link1", "swing1"} => "1" \in Variants
  BY DEF FifoInv, TypeOK
<1>2. \A i \in 1..Len(consumed') : consumed'[i] = order'[i]
  BY DEF FifoInv, TypeOK, SpineInv
<1>3. SpineInv'
  BY DEF FifoInv, TypeOK, Live, Private, FirstOr, SpineInv, LinkInv,
         PrivateInv, LinkingInv, ConsumerInv
<1>4. LinkInv'
  BY DEF FifoInv, TypeOK, Live, Private, FirstOr, SpineInv, LinkInv,
         PrivateInv, LinkingInv, ConsumerInv
<1>5. PrivateInv'
  BY DEF FifoInv, TypeOK, Live, Private, FirstOr, SpineInv, LinkInv,
         PrivateInv, LinkingInv, ConsumerInv
<1>6. OwnerInv'
  BY DEF FifoInv, TypeOK, OwnerInv, Owns, Private
<1>7. LinkingInv'
  BY LinkingKept DEF FifoInv, TypeOK, SpineInv, Live
<1>8. ConsumerInv'
  BY DEF FifoInv, TypeOK, Live, Private, FirstOr, SpineInv, LinkInv,
         PrivateInv, LinkingInv, ConsumerInv
<1> QED
  BY <1>1, <1>2, <1>3, <1>4, <1>5, <1>6, <1>7, <1>8 DEF FifoInv

LEMMA PopCASFailsFifo ==
    ASSUME FifoInv, TypeOK', Usage, NEW c \in Consumers, PopCASFails(c)
    PROVE  FifoInv'
<1> USE ThreadAssumption, NodeAssumption DEF Thread, Goto, Usage, OneConsumer, OneProducer, PopCASFails
<1>1. \A q \in Producers : pc'[q] \in {"link1", "swing1"} => "1" \in Variants
  BY DEF FifoInv, TypeOK
<1>2. \A i \in 1..Len(consumed') : consumed'[i] = order'[i]
  BY DEF FifoInv, TypeOK, SpineInv
<1>3. SpineInv'
  BY DEF FifoInv, TypeOK, Live, Private, FirstOr, SpineInv, LinkInv,
         PrivateInv, LinkingInv, ConsumerInv
<1>4. LinkInv'
  BY DEF FifoInv, TypeOK, Live, Private, FirstOr, SpineInv, LinkInv,
         PrivateInv, LinkingInv, ConsumerInv
<1>5. PrivateInv'
  BY DEF FifoInv, TypeOK, Live, Private, FirstOr, SpineInv, LinkInv,
         PrivateInv, LinkingInv, ConsumerInv
<1>6. OwnerInv'
  BY DEF FifoInv, TypeOK, OwnerInv, Owns, Private
<1>7. LinkingInv'
  BY LinkingKept DEF FifoInv, TypeOK, SpineInv, Live
<1>8. ConsumerInv'
  BY DEF FifoInv, TypeOK, Live, Private, FirstOr, SpineInv, LinkInv,
         PrivateInv, LinkingInv, ConsumerInv
<1> QED
  BY <1>1, <1>2, <1>3, <1>4, <1>5, <1>6, <1>7, <1>8 DEF FifoInv

LEMMA Pop1AdvanceFifo ==
    ASSUME FifoInv, TypeOK', Usage, NEW c \in Consumers, Pop1Advance(c)
    PROVE  FifoInv'
<1> USE ThreadAssumption, NodeAssumption DEF Thread, Goto, Usage, OneConsumer, OneProducer, Pop1Advance
<1>1. \A q \in Producers : pc'[q] \in {"link1", "swing1"} => "1" \in Variants
  BY DEF FifoInv, TypeOK
<1>2. \A i \in 1..Len(consumed') : consumed'[i] = order'[i]
  BY DEF FifoInv, TypeOK, SpineInv
<1>3. SpineInv'
  BY DEF FifoInv, TypeOK, Live, Private, FirstOr, SpineInv, LinkInv,
         PrivateInv, LinkingInv, ConsumerInv
<1>4. LinkInv'
  BY DEF FifoInv, TypeOK, Live, Private, FirstOr, SpineInv, LinkInv,
         PrivateInv, LinkingInv, ConsumerInv
<1>5. PrivateInv'
  BY DEF FifoInv, TypeOK, Live, Private, FirstOr, SpineInv, LinkInv,
         PrivateInv, LinkingInv, ConsumerInv
<1>6. OwnerInv'
  BY DEF FifoInv, TypeOK, OwnerInv, Owns, Private
<1>7. LinkingInv'
  BY LinkingKept DEF FifoInv, TypeOK, SpineInv, Live
<1>8. ConsumerInv'
  <2>1. mHead \in FirstOr(1) /\ mHead # NULL
    <3>1. pc[c] = "advance1" /\ mHead \in heap /\ heap \subseteq Node
      BY DEF FifoInv, TypeOK
    <3> QED
      BY <3>1 DEF FifoInv, ConsumerInv
  <2>2. mHead = spine[Len(consumed) + 1]
    BY <2>1 DEF FirstOr
  <2>3. /\ Len(consumed) + 1 \in Live /\ Len(spine) \in Live
        /\ \A i \in Live : i < Len(spine) => i + 1 \in Live
    BY DEF FifoInv, TypeOK, SpineInv, Live
  <2>4. mNext[mHead] \in FirstOr(2)
    <3>1. CASE Len(consumed) + 1 = Len(spine)
      BY <2>2, <3>1 DEF FifoInv, LinkInv, FirstOr
    <3>2. CASE Len(consumed) + 1 < Len(spine)
      <4>1. mNext[mHead] \in {NULL, spine[Len(consumed) + 2]}
        BY <2>2, <2>3, <3>2 DEF FifoInv, TypeOK, LinkInv
      <4>2. Len(consumed) + 2 \in Live
        BY <2>3, <3>2 DEF FifoInv, TypeOK
      <4> QED
        BY <4>1, <4>2 DEF FirstOr
    <3> QED
      BY <2>3, <3>1, <3>2 DEF FifoInv, TypeOK, Live
  <2> QED
    BY <2>1, <2>2, <2>4 DEF FifoInv, TypeOK, ConsumerInv, FirstOr, Live
<1> QED
  BY <1>1, <1>2, <1>3, <1>4, <1>5, <1>6, <1>7, <1>8 DEF FifoInv

LEMMA PopSubFifo ==
    ASSUME FifoInv, TypeOK', Usage, NEW c \in Consumers, PopSub(c)
    PROVE  FifoInv'
<1> USE ThreadAssumption, NodeAssumption DEF Thread, Goto, Usage, OneConsumer, OneProducer, PopSub
<1>1. \A q \in Producers : pc'[q] \in {"link1", "swing1"} => "1" \in Variants
  BY DEF FifoInv, TypeOK
<1>2. \A i \in 1..Len(consumed') : consumed'[i] = order'[i]
  BY DEF FifoInv, TypeOK, SpineInv
<1>3. SpineInv'
  BY DEF FifoInv, TypeOK, Live, Private, FirstOr, SpineInv, LinkInv,
         PrivateInv, LinkingInv, ConsumerInv
<1>4. LinkInv'
  BY DEF FifoInv, TypeOK, Live, Private, FirstOr, SpineInv, LinkInv,
         PrivateInv, LinkingInv, ConsumerInv
<1>5. PrivateInv'
  BY DEF FifoInv, TypeOK, Live, Private, FirstOr, SpineInv, LinkInv,
         PrivateInv, LinkingInv, ConsumerInv
<1>6. OwnerInv'
  BY DEF FifoInv, TypeOK, OwnerInv, Owns, Private
<1>7. LinkingInv'
  BY LinkingKept DEF FifoInv, TypeOK, SpineInv, Live
<1>8. ConsumerInv'
  BY DEF FifoInv, TypeOK, Live, Private, FirstOr, SpineInv, LinkInv,
         PrivateInv, LinkingInv, ConsumerInv
<1> QED
  BY <1>1, <1>2, <1>3, <1>4, <1>5, <1>6, <1>7, <1>8 DEF FifoInv

(* The consumer takes the element that was published next. *)
LEMMA TakenIsNext ==
    ASSUME FifoInv, Usage, NEW c \in Consumers, PopTake(c)
    PROVE  /\ Len(consumed) + 2 \in Live
           /\ head[c] = spine[Len(consumed) + 1]
           /\ Taken(c) = spine[Len(consumed) + 2]
           /\ mNext[spine[Len(consumed) + 1]] # NULL
           /\ consumed' = Append(consumed, order[Len(consumed) + 1])
<1> USE ThreadAssumption, NodeAssumption DEF Thread, Goto, PopTake, CanTake
<1> DEFINE k == Len(consumed)
<1>a. /\ k \in Nat /\ k + 1 \in Live /\ Live \subseteq Nat /\ Len(spine) \in Live
      /\ head[c] = spine[k + 1] /\ pc[c] = "take" /\ mHead \in FirstOr(2)
  BY DEF FifoInv, TypeOK, SpineInv, ConsumerInv, Live
<1>b. /\ k + 2 \in Live /\ Taken(c) = spine[k + 2]
      /\ mNext[spine[k + 1]] # NULL
  <2>1. mNext[spine[k + 1]] # NULL
    BY <1>a DEF FifoInv, TypeOK, Taken
  <2>2. k + 1 < Len(spine)
    BY <1>a, <2>1 DEF FifoInv, LinkInv, Live
  <2> QED
    BY <1>a, <2>1, <2>2 DEF FifoInv, LinkInv, Live, Taken
<1>c. consumed' = Append(consumed, order[k + 1])
  BY <1>a, <1>b DEF FifoInv, SpineInv, k
<1> QED
  BY <1>a, <1>b, <1>c

LEMMA PopTakeFifo ==
    ASSUME FifoInv, TypeOK', Usage, NEW c \in Consumers, PopTake(c)
    PROVE  FifoInv'
<1> USE ThreadAssumption, NodeAssumption DEF Thread, Goto, Usage, OneConsumer, OneProducer, PopTake, CanTake
<1> DEFINE k == Len(consumed)
<1>a. /\ k \in Nat /\ k + 1 \in Live /\ Live \subseteq Nat /\ Len(spine) \in Live
      /\ head[c] = spine[k + 1] /\ pc[c] = "take" /\ mHead \in FirstOr(2)
  BY DEF FifoInv, TypeOK, SpineInv, ConsumerInv, Live
<1>b. /\ k + 2 \in Live /\ Taken(c) = spine[k + 2]
      /\ mNext[spine[k + 1]] # NULL
  BY TakenIsNext
<1>c. consumed' = Append(consumed, order[k + 1])
  BY TakenIsNext
<1>d. /\ Len(consumed') = k + 1 /\ consumed'[k + 1] = order[k + 1]
      /\ \A i \in 1..k : consumed'[i] = consumed[i]
  BY <1>c DEF FifoInv, TypeOK
<1>e. Live' = Live \ {k + 1} /\ \A i \in Live' : i >= k + 2
  BY <1>a, <1>d DEF Live
<1>f. \A i \in Live : i # k + 2 => mData'[spine[i]] = mData[spine[i]]
  BY <1>b DEF FifoInv, TypeOK, SpineInv
<1>g. /\ \A p \in Producers : pc'[p] = pc[p] /\ (Private(p)' <=> Private(p))
      /\ \A d \in Consumers : d = c
      /\ pc'[c] = "free"
  BY DEF FifoInv, TypeOK, Private
<1> HIDE DEF k
<1>1. \A q \in Producers : pc'[q] \in {"link1", "swing1"} => "1" \in Variants
  BY DEF FifoInv, TypeOK
<1>2. \A i \in 1..Len(consumed') : consumed'[i] = order'[i]
  BY <1>a, <1>d DEF FifoInv, k
<1>3. SpineInv'
  <2>1. Len(consumed') <= Len(order')
    BY <1>a, <1>b, <1>d DEF FifoInv, TypeOK, SpineInv, Live
  <2>2. /\ \A i \in Live' : spine'[i] \in heap'
        /\ \A i, j \in Live' : spine'[i] = spine'[j] => i = j
    BY <1>e DEF FifoInv, SpineInv
  <2>3. ASSUME NEW i \in Live', i > Len(consumed') + 1
        PROVE  mData'[spine'[i]] = order'[i - 1]
    <3>1. i \in Live /\ i \in Nat /\ i > k + 2
      BY <2>3, <1>a, <1>d, <1>e
    <3>2. mData'[spine[i]] = mData[spine[i]]
      BY <3>1, <1>a, <1>f
    <3>3. mData[spine[i]] = order[i - 1]
      BY <3>1, <1>a DEF FifoInv, SpineInv, k
    <3> QED
      BY <3>2, <3>3
  <2> QED
    BY <2>1, <2>2, <2>3 DEF FifoInv, SpineInv
<1>4. LinkInv'
  BY <1>e DEF FifoInv, LinkInv
<1>5. PrivateInv'
  <2>1. \A p \in Producers : Private(p) => node[p] # Taken(c)
    BY <1>b DEF FifoInv, PrivateInv
  <2> QED
    BY <2>1, <1>e, <1>g DEF FifoInv, TypeOK, PrivateInv
<1>6. OwnerInv'
  BY DEF FifoInv, TypeOK, OwnerInv, Owns, Private
<1>7. LinkingInv'
  BY <1>b, <1>e, <1>g DEF FifoInv, LinkingInv
<1>8. ConsumerInv'
  <2>1. mHead' \in FirstOr(1)'
    BY <1>a, <1>d, <1>e DEF FirstOr, k
  <2>2. /\ head'[c] \in heap'
        /\ \A i \in Live' : spine'[i] # head'[c]
        /\ \A p \in Producers : Private(p)' => node'[p] # head'[c]
    BY <1>a, <1>e, <1>g DEF FifoInv, SpineInv, PrivateInv
  <2> QED
    BY <2>1, <2>2, <1>g DEF ConsumerInv
<1> QED
  BY <1>1, <1>2, <1>3, <1>4, <1>5, <1>6, <1>7, <1>8 DEF FifoInv

LEMMA PopFreeFifo ==
    ASSUME FifoInv, TypeOK', Usage, NEW c \in Consumers, PopFree(c)
    PROVE  FifoInv'
<1> USE ThreadAssumption, NodeAssumption DEF Thread, Goto, Usage, OneConsumer, OneProducer, PopFree
<1>1. \A q \in Producers : pc'[q] \in {"link1", "swing1"} => "1" \in Variants
  BY DEF FifoInv, TypeOK
<1>2. \A i \in 1..Len(consumed') : consumed'[i] = order'[i]
  BY DEF FifoInv, TypeOK, SpineInv
<1>3. SpineInv'
  BY DEF FifoInv, TypeOK, Live, Private, FirstOr, SpineInv, LinkInv,
         PrivateInv, LinkingInv, ConsumerInv
<1>4. LinkInv'
  BY DEF FifoInv, TypeOK, Live, Private, FirstOr, SpineInv, LinkInv,
         PrivateInv, LinkingInv, ConsumerInv
<1>5. PrivateInv'
  BY DEF FifoInv, TypeOK, Live, Private, FirstOr, SpineInv, LinkInv,
         PrivateInv, LinkingInv, ConsumerInv
<1>6. OwnerInv'
  BY DEF FifoInv, TypeOK, OwnerInv, Owns, Private
<1>7. LinkingInv'
  BY LinkingKept DEF FifoInv, TypeOK, SpineInv, Live
<1>8. ConsumerInv'
  BY DEF FifoInv, TypeOK, Live, Private, FirstOr, SpineInv, LinkInv,
         PrivateInv, LinkingInv, ConsumerInv
<1> QED
  BY <1>1, <1>2, <1>3, <1>4, <1>5, <1>6, <1>7, <1>8 DEF FifoInv

LEMMA FifoInit == ASSUME Init PROVE FifoInv
<1>1. TypeOK
  BY TypeInit
<1>2. PICK dummy \in Node : mHead = dummy /\ mTail = dummy /\ heap = {dummy}
                             /\ spine = <<dummy>>
  BY DEF Init
<1>3. /\ Len(spine) = 1 /\ spine[1] = dummy /\ Len(order) = 0 /\ Len(consumed) = 0
      /\ Live = {1}
  BY <1>2 DEF Init, Live
<1>4. SpineInv /\ LinkInv
  BY <1>2, <1>3, ThreadAssumption DEF Init, SpineInv, LinkInv, Thread
<1>5. PrivateInv /\ OwnerInv /\ LinkingInv
  BY ThreadAssumption DEF Init, PrivateInv, OwnerInv, Owns, LinkingInv, Private, Thread
<1>6. ConsumerInv
  BY <1>2, <1>3 DEF Init, ConsumerInv, FirstOr, Thread
<1> QED
  BY <1>1, <1>3, <1>4, <1>5, <1>6 DEF FifoInv, Init, Thread

LEMMA FifoStep == ASSUME Usage, FifoInv, TypeOK', [Next]_vars PROVE FifoInv'
<1>1. ASSUME NEW p \in Producers, Produce(p) PROVE FifoInv'
  BY <1>1, PushAllocFifo, PushLoadFifo, PushCASFifo, PushCASFailsFifo, PushLinkFifo,
     Push1LinkFifo, Push1SwingFifo, PushAddFifo
     DEF Produce
<1>2. ASSUME NEW c \in Consumers, Consume(c) PROVE FifoInv'
  BY <1>2, PopBeginFifo, Pop1BeginFifo, ClearBeginFifo, PopTestFifo, PopEmptyFifo,
     PopReadHeadFifo, PopReadNextFifo, PopCASFifo, PopCASFailsFifo, Pop1AdvanceFifo,
     PopSubFifo, PopTakeFifo, PopFreeFifo
     DEF Consume
<1>3. CASE Crash \/ UNCHANGED vars
  <2>1. UNCHANGED <<shared, memory, pc, locals, ghosts>>
    BY <1>3 DEF Crash, vars
  <2>2. Live' = Live /\ FirstOr(1)' = FirstOr(1) /\ FirstOr(2)' = FirstOr(2)
    BY <2>1 DEF Live, FirstOr
  <2>3. SpineInv' /\ LinkInv'
    BY <2>1, <2>2 DEF FifoInv, SpineInv, LinkInv
  <2>4. PrivateInv' /\ OwnerInv' /\ LinkingInv'
    BY <2>1, <2>2 DEF FifoInv, PrivateInv, Private, OwnerInv, Owns, LinkingInv
  <2>5. ConsumerInv'
    BY <2>1, <2>2 DEF FifoInv, ConsumerInv, Private
  <2> QED
    BY <2>1, <2>3, <2>4, <2>5 DEF FifoInv
<1> QED
  BY <1>1, <1>2, <1>3 DEF Next

(* The inductive invariant of the list holds in every reachable state. *)
THEOREM FifoInvariance ==
    ASSUME Usage
    PROVE  Spec => []FifoInv
<1>1. Init => FifoInv
  BY FifoInit
<1>2. FifoInv /\ TypeOK' /\ [Next]_vars => FifoInv'
  BY FifoStep
<1> QED
  BY <1>1, <1>2, TypeCorrect, PTL DEF Spec

(* With one consumer, and one producer or any number that call pushN, and   *)
(* wherever a crash stops the program, elements are consumed in the order   *)
(* of publication, once each.                                               *)
THEOREM FifoOrder ==
    ASSUME Usage
    PROVE  Spec => []Fifo
<1>1. FifoInv => Fifo
  BY IsPrefixByIndex DEF FifoInv, TypeOK, SpineInv, Fifo
<1> QED
  BY <1>1, FifoInvariance, PTL

LEMMA FifoProducers == ASSUME Usage, FifoInv PROVE ProducersAreSafe
<1> SUFFICES ASSUME FifoInv, NEW p \in Producers, ProducerFault(p)
             PROVE  FALSE
  BY DEF ProducersAreSafe
<1>1. CASE pc[p] = "link" /\ tail[p] \notin heap
  BY <1>1 DEF FifoInv, LinkingInv, SpineInv
<1>2. CASE pc[p] = "link1" /\ mTail \notin heap
  <2>1. \A q \in Producers : q = p
    BY <1>2 DEF FifoInv, Usage, OneProducer
  <2>2. mTail = spine[Len(spine)] /\ Len(spine) \in Live
    BY <1>2, <2>1 DEF FifoInv, TypeOK, LinkInv, SpineInv, Live
  <2> QED
    BY <1>2, <2>2 DEF FifoInv, SpineInv
<1> QED
  BY <1>1, <1>2 DEF ProducerFault

(* In the same usage no producer dereferences a node that was freed: the    *)
(* predecessor a producer has yet to link is always in the list.            *)
THEOREM ProducerSafety ==
    ASSUME Usage
    PROVE  Spec => []ProducersAreSafe
  BY FifoProducers, FifoInvariance, PTL

(***************************************************************************)
(* The same, as an implementation of FifoQueue: each step publishes one    *)
(* element, or takes the first, or changes neither sequence.               *)
(***************************************************************************)
LEMMA QueueStep ==
    ASSUME Usage, FifoInv, TypeOK', [Next]_vars
    PROVE  [Fifo_!Next]_<<SubSeq(order, Len(consumed) + 1, Len(order)), consumed>>
<1> DEFINE k == Len(consumed)
           n == Len(order)
           Q == SubSeq(order, k + 1, n)
<1>1. /\ k \in Nat /\ n \in Nat /\ k <= n
      /\ order \in Seq(Item \cup {None}) /\ consumed \in Seq(Item)
  BY DEF FifoInv, TypeOK, SpineInv
<1>2. ASSUME NEW p \in Producers, Publish(p), Private(p)
      PROVE  Fifo_!Push
  <2>1. mData[node[p]] \in Item /\ consumed' = consumed
    BY <1>2 DEF FifoInv, PrivateInv, Publish
  <2>2. order' = Append(order, mData[node[p]])
    BY <1>2 DEF Publish
  <2>3. Q' = Append(Q, mData[node[p]])
    <3>1. /\ Len(order') = n + 1 /\ order'[n + 1] = mData[node[p]]
          /\ \A i \in 1..n : order'[i] = order[i]
          /\ order' \in Seq(Item \cup {None}) /\ Len(consumed') = k
      BY <1>1, <2>1, <2>2
    <3> HIDE DEF k, n
    <3>2. /\ Q \in Seq(Item \cup {None}) /\ Len(Q) = n - k
          /\ \A i \in 1..(n - k) : Q[i] = order[k + i]
      BY <1>1, SubSeqProperties DEF k, n
    <3>3. /\ SubSeq(order', k + 1, n + 1) \in Seq(Item \cup {None})
          /\ Len(SubSeq(order', k + 1, n + 1)) = n - k + 1
          /\ \A i \in 1..(n - k + 1) : SubSeq(order', k + 1, n + 1)[i] = order'[k + i]
      BY <1>1, <3>1, SubSeqProperties
    <3>4. SubSeq(order', k + 1, n + 1) = Append(Q, mData[node[p]])
      <4>1. /\ Append(Q, mData[node[p]]) \in Seq(Item \cup {None})
            /\ Len(Append(Q, mData[node[p]])) = n - k + 1
            /\ \A i \in 1..(n - k) : Append(Q, mData[node[p]])[i] = Q[i]
            /\ Append(Q, mData[node[p]])[n - k + 1] = mData[node[p]]
        BY <1>1, <2>1, <3>2, AppendProperties
      <4>2. ASSUME NEW i \in 1..(n - k + 1)
            PROVE  SubSeq(order', k + 1, n + 1)[i] = Append(Q, mData[node[p]])[i]
        <5>1. SubSeq(order', k + 1, n + 1)[i] = order'[k + i]
          BY <3>3
        <5>2. CASE i = n - k + 1
          BY <1>1, <3>1, <4>1, <5>1, <5>2
        <5>3. CASE i # n - k + 1
          BY <1>1, <3>1, <3>2, <4>1, <5>1, <5>3
        <5> QED
          BY <5>2, <5>3
      <4> QED
        BY <3>3, <4>1, <4>2, SeqEqual
    <3> QED
      BY <3>1, <3>4 DEF k, n
  <2> QED
    BY <2>1, <2>3 DEF Fifo_!Push
<1>3. ASSUME NEW c \in Consumers, PopTake(c)
      PROVE  Fifo_!Pop
  <2>1. k + 1 <= n /\ order' = order
    <3>1. k + 2 \in Live /\ Len(spine) = n + 1
      BY <1>3, TakenIsNext DEF FifoInv, SpineInv
    <3>2. order' = order
      BY <1>3 DEF PopTake
    <3> QED
      BY <1>1, <3>1, <3>2 DEF Live
  <2>2. consumed' = Append(consumed, order[k + 1])
    BY <1>3, TakenIsNext
  <2>3. Q # <<>> /\ Head(Q) = order[k + 1]
    <3>1. Len(Q) = n - k /\ Q[1] = order[k + 1]
      BY <1>1, <2>1, SubSeqProperties
    <3>2. Len(Q) \in Nat \ {0}
      BY <1>1, <2>1, <3>1
    <3>3. Q # <<>>
      <4>1. Len(<<>>) = 0
        OBVIOUS
      <4> QED
        BY <3>2, <4>1
    <3>4. Head(Q) = Q[1]
      BY <1>1, <3>3
    <3> QED
      BY <3>1, <3>3, <3>4
  <2>4. Q' = SubSeq(order, k + 2, n)
    BY <1>1, <2>1, <2>2
  <2>5. Tail(Q) = SubSeq(order, k + 2, n)
    BY <1>1, <2>1
  <2> QED
    BY <2>2, <2>3, <2>4, <2>5 DEF Fifo_!Pop
<1>4. CASE UNCHANGED <<order, consumed>>
  BY <1>4
<1>5. ASSUME NEW p \in Producers, Produce(p)
      PROVE  UNCHANGED <<order, consumed>> \/ (Publish(p) /\ Private(p))
  <2>1. CASE \/ PushAlloc(p) \/ PushLoad(p) \/ PushCASFails(p) \/ PushLink(p)
             \/ Push1Swing(p) \/ PushAdd(p)
    <3>1. order' = order /\ consumed' = consumed
      BY <2>1 DEF PushAlloc, PushLoad, PushCASFails, PushLink, Push1Swing, PushAdd, ghosts
    <3> QED
      BY <3>1
  <2>2. CASE PushCAS(p) \/ Push1Link(p)
    BY <2>2 DEF PushCAS, Push1Link, Goto, Private
  <2> QED
    BY <1>5, <2>1, <2>2 DEF Produce
<1>6. ASSUME NEW c \in Consumers, Consume(c)
      PROVE  UNCHANGED <<order, consumed>> \/ PopTake(c)
  BY <1>6 DEF Consume, PopBegin, Pop1Begin, ClearBegin, PopTest, PopEmpty, PopReadHead,
              PopReadNext, PopCAS, PopCASFails, Pop1Advance, PopSub, PopFree
<1>7. CASE Crash \/ UNCHANGED vars
  BY <1>4, <1>7 DEF Crash, vars
<1> QED
  BY <1>2, <1>3, <1>4, <1>5, <1>6, <1>7 DEF Next, Fifo_!Next

(* With one consumer, and one producer or pushN alone, the linked list       *)
(* implements the queue of FifoQueue, up to any crash.                       *)
THEOREM ImplementsQueue ==
    ASSUME Usage
    PROVE  Spec => ImplementsFifoSafely
<1>1. Init => Fifo_!Init
  BY DEF Init, Fifo_!Init
<1>2. FifoInv /\ TypeOK' /\ [Next]_vars
        => [Fifo_!Next]_<<SubSeq(order, Len(consumed) + 1, Len(order)), consumed>>
  BY QueueStep
<1> QED
  BY <1>1, <1>2, FifoInvariance, TypeCorrect, PTL DEF Spec, ImplementsFifoSafely, Fifo_!Spec

-----------------------------------------------------------------------------
(***************************************************************************)
(* One consumer, any number of producers, both variants: the count.        *)
(***************************************************************************)

(* The quotient of a natural number is one. *)
LEMMA DivMod ==
    ASSUME NEW S \in Nat \ {0}, NEW a \in Nat
    PROVE  \E q \in Nat : a = q * S + (a % S) /\ a % S \in 0..(S - 1)
<1>1. a = S * (a \div S) + (a % S) /\ a % S \in 0..(S - 1) /\ a \div S \in Int
  OBVIOUS
<1>2. a \div S >= 0
  BY <1>1
<1> DEFINE q == a \div S
<1>3. q \in Nat /\ S * q = q * S
  BY <1>1, <1>2
<1>4. a = q * S + (a % S) /\ a % S \in 0..(S - 1)
  BY <1>1, <1>3
<1> QED
  BY <1>3, <1>4

(* A number and its remainder determine each other. *)
LEMMA Remainder ==
    ASSUME NEW S \in Nat \ {0}, NEW q \in Nat, NEW r \in 0..(S - 1)
    PROVE  (q * S + r) % S = r
<1> DEFINE a == q * S + r
<1> a \in Nat
  OBVIOUS
<1>1. PICK k \in Nat : a = k * S + (a % S) /\ a % S \in 0..(S - 1)
  <2> HIDE DEF a
  <2> QED
    BY DivMod
<1> DEFINE d == a % S
<1>2. d \in 0..(S - 1) /\ q * S + r = k * S + d
  BY <1>1
<1> HIDE DEF a, d
<1>3. ~ q < k
  <2> SUFFICES ASSUME q + 1 <= k PROVE FALSE
    OBVIOUS
  <2>1. (q + 1) * S <= k * S
    OBVIOUS
  <2>2. (q + 1) * S = q * S + S
    OBVIOUS
  <2> QED
    BY <1>2, <2>1, <2>2
<1>4. ~ k < q
  <2> SUFFICES ASSUME k + 1 <= q PROVE FALSE
    OBVIOUS
  <2>1. (k + 1) * S <= q * S
    OBVIOUS
  <2>2. (k + 1) * S = k * S + S
    OBVIOUS
  <2> QED
    BY <1>2, <2>1, <2>2
<1>5. k = q
  BY <1>3, <1>4
<1>6. d = r
  BY <1>2, <1>5
<1> QED
  BY <1>6 DEF d, a

(* Counting up and down modulo S follows the number that is counted. *)
LEMMA ModuloFacts ==
    ASSUME NEW S \in Nat \ {0}, NEW a \in Nat
    PROVE  /\ a % S \in 0..(S - 1)
           /\ a % S <= a
           /\ a < S => a % S = a
           /\ ((a % S) + 1) % S = (a + 1) % S
           /\ a > 0 => ((a % S) + S - 1) % S = (a - 1) % S
<1>1. PICK q \in Nat : a = q * S + (a % S) /\ a % S \in 0..(S - 1)
  BY DivMod
<1> DEFINE r == a % S
<1>2. r \in 0..(S - 1) /\ a = q * S + r /\ q * S \in Nat
  BY <1>1
<1>3. a < S => r = a
  <2>1. q * S > 0 => q * S >= S
    OBVIOUS
  <2> QED
    BY <1>2, <2>1
<1>4. (r + 1) % S = (a + 1) % S
  <2>1. CASE r + 1 < S
    <3>1. r + 1 \in 0..(S - 1) /\ a + 1 = q * S + (r + 1) /\ r + 1 = 0 * S + (r + 1)
      BY <1>2, <2>1
    <3>2. (q * S + (r + 1)) % S = r + 1 /\ (0 * S + (r + 1)) % S = r + 1
      BY <3>1, Remainder
    <3> QED
      BY <3>1, <3>2
  <2>2. CASE r + 1 = S
    <3>1. a + 1 = (q + 1) * S + 0 /\ r + 1 = 1 * S + 0 /\ 0 \in 0..(S - 1)
      <4>1. (q + 1) * S = q * S + S /\ 1 * S = S
        OBVIOUS
      <4>2. a + 1 = (q * S) + S
        BY <1>2, <2>2
      <4>3. (q + 1) * S + 0 = (q * S) + S /\ 1 * S + 0 = S
        BY <1>2, <4>1
      <4> QED
        BY <2>2, <4>2, <4>3
    <3>2. ((q + 1) * S + 0) % S = 0 /\ (1 * S + 0) % S = 0
      BY <3>1, Remainder
    <3> QED
      BY <3>1, <3>2
  <2> QED
    BY <1>2, <2>1, <2>2
<1>5. ASSUME a > 0 PROVE (r + S - 1) % S = (a - 1) % S
  <2>1. CASE r > 0
    <3>1. r - 1 \in 0..(S - 1) /\ a - 1 = q * S + (r - 1) /\ r + S - 1 = 1 * S + (r - 1)
      BY <1>2, <2>1
    <3>2. (q * S + (r - 1)) % S = r - 1 /\ (1 * S + (r - 1)) % S = r - 1
      BY <3>1, Remainder
    <3> QED
      BY <3>1, <3>2
  <2>2. CASE r = 0
    <3>1. q - 1 \in Nat
      BY <1>2, <1>5, <2>2
    <3>2. a - 1 = (q - 1) * S + (S - 1) /\ r + S - 1 = 0 * S + (S - 1) /\ S - 1 \in 0..(S - 1)
      BY <1>2, <2>2, <3>1
    <3>3. ((q - 1) * S + (S - 1)) % S = S - 1 /\ (0 * S + (S - 1)) % S = S - 1
      BY <3>1, <3>2, Remainder
    <3> QED
      BY <3>2, <3>3
  <2> QED
    BY <1>2, <2>1, <2>2
<1> QED
  BY <1>2, <1>3, <1>4, <1>5

(* A step after which the same elements are published, counted and taken off *)
(* keeps the count, if no consumer takes one for seen that it has not seen.  *)
LEMMA CountKept ==
    ASSUME CountInv, TypeOK', UNCHANGED <<mLength, order, consumed>>,
           Uncounted' = Uncounted, TakenOff' = TakenOff,
           \A c \in Consumers :
               pc'[c] \in {"read", "next", "swap", "advance1", "sub"} =>
               pc[c] \in {"read", "next", "swap", "advance1", "sub"} \/ Counted >= 1
    PROVE  CountInv'
<1>1. Counted' = Counted
  BY DEF Counted
<1> QED
  BY <1>1 DEF CountInv

(* Steps of a producer leave the consumer alone. *)
LEMMA CountOfProducer ==
    ASSUME TypeOK, NEW p \in Producers, NEW from, NEW to, Goto(p, from, to)
    PROVE  /\ \A c \in Consumers : pc'[c] = pc[c]
           /\ TakenOff' = TakenOff
           /\ pc[p] = from /\ pc'[p] = to
           /\ \A q \in Producers : q # p => pc'[q] = pc[q]
<1>1. \A c \in Consumers : pc'[c] = pc[c]
  BY ThreadAssumption DEF TypeOK, Goto, Thread
<1> QED
  BY <1>1 DEF TypeOK, Goto, Thread, TakenOff

LEMMA ProduceCounts ==
    ASSUME CountInv, TypeOK', NEW p \in Producers, Produce(p)
    PROVE  CountInv'
<1> DEFINE Open == {"link", "swing1", "add"}
<1>1. TypeOK /\ IsFiniteSet(Uncounted) /\ Cardinality(Uncounted) \in Nat
      /\ Len(order) \in Nat /\ Len(consumed) \in Nat /\ mLength \in 0..(SizeMod - 1)
  BY FS_CardinalityType DEF CountInv, TypeOK
<1>2. ASSUME NEW from, NEW to, Goto(p, from, to), from \in Open <=> to \in Open,
             UNCHANGED <<mLength, order, consumed>>
      PROVE  CountInv'
  <2>1. Uncounted' = Uncounted
    BY <1>1, <1>2, CountOfProducer DEF Uncounted
  <2> QED
    BY <1>1, <1>2, <2>1, CountOfProducer, CountKept
<1>3. ASSUME NEW from, NEW to, Goto(p, from, to), from \notin Open, to \in Open,
             Publish(p), mLength' = mLength
      PROVE  CountInv'
  <2>1. Uncounted' = Uncounted \cup {p} /\ p \notin Uncounted
    BY <1>1, <1>3, CountOfProducer DEF Uncounted
  <2>2. IsFiniteSet(Uncounted') /\ Cardinality(Uncounted') = Cardinality(Uncounted) + 1
    BY <1>1, <2>1, FS_AddElement
  <2>3. Len(order') = Len(order) + 1 /\ consumed' = consumed
    BY <1>1, <1>3 DEF Publish, TypeOK
  <2>4. Counted' = Counted
    BY <1>1, <2>2, <2>3 DEF Counted
  <2> QED
    BY <1>1, <1>3, <2>2, <2>4, CountOfProducer DEF CountInv
<1>4. CASE PushAdd(p)
  <2>1. Goto(p, "add", "idle") /\ UNCHANGED <<order, consumed>>
    BY <1>4 DEF PushAdd, ghosts
  <2>2. Uncounted' = Uncounted \ {p} /\ p \in Uncounted
    BY <1>1, <2>1, CountOfProducer DEF Uncounted
  <2>3. IsFiniteSet(Uncounted') /\ Cardinality(Uncounted') = Cardinality(Uncounted) - 1
    BY <1>1, <2>2, FS_RemoveElement
  <2>4. Counted' = Counted + 1 /\ Counted \in Int /\ TakenOff \in {0, 1}
    BY <1>1, <2>1, <2>3 DEF Counted, TakenOff
  <2>5. mLength' = (mLength + 1) % SizeMod /\ mLength = (Counted - TakenOff) % SizeMod
        /\ Counted - TakenOff \in Nat
    BY <1>4, <2>4 DEF PushAdd, CountInv
  <2>6. mLength' = (Counted - TakenOff + 1) % SizeMod
    BY <2>5, BoundAssumption, ModuloFacts
  <2>7. Counted - TakenOff + 1 = Counted' - TakenOff'
    BY <1>1, <2>1, <2>4, CountOfProducer
  <2> QED
    BY <1>1, <2>1, <2>3, <2>4, <2>5, <2>6, <2>7, CountOfProducer DEF CountInv
<1>5. CASE PushAlloc(p)
  BY <1>5, <1>2 DEF PushAlloc, shared
<1>6. CASE PushLoad(p)
  BY <1>6, <1>2 DEF PushLoad, shared, ghosts
<1>7. CASE PushCAS(p)
  BY <1>7, <1>3 DEF PushCAS
<1>8. CASE PushCASFails(p)
  BY <1>8, <1>2 DEF PushCASFails, shared, ghosts
<1>9. CASE PushLink(p)
  BY <1>9, <1>2 DEF PushLink, shared, ghosts
<1>10. CASE Push1Link(p)
  BY <1>10, <1>3 DEF Push1Link, shared
<1>11. CASE Push1Swing(p)
  BY <1>11, <1>2 DEF Push1Swing, ghosts
<1> QED
  BY <1>4, <1>5, <1>6, <1>7, <1>8, <1>9, <1>10, <1>11 DEF Produce

(* Steps of the consumer leave the producers alone. *)
LEMMA CountOfConsumer ==
    ASSUME TypeOK, OneConsumer, NEW c \in Consumers, NEW from, NEW to, Goto(c, from, to)
    PROVE  /\ \A d \in Consumers : d = c
           /\ pc[c] = from /\ pc'[c] = to
           /\ Uncounted' = Uncounted
           /\ TakenOff = IF from = "take" THEN 1 ELSE 0
           /\ TakenOff' = IF to = "take" THEN 1 ELSE 0
<1>1. \A p \in Producers : pc'[p] = pc[p]
  BY ThreadAssumption DEF TypeOK, Goto, Thread
<1>2. pc[c] = from /\ pc'[c] = to
  BY DEF TypeOK, Goto, Thread
<1>3. \A d \in Consumers : d = c
  BY DEF OneConsumer
<1> QED
  BY <1>1, <1>2, <1>3 DEF Uncounted, TakenOff

LEMMA ConsumeCounts ==
    ASSUME OneConsumer, CountInv, TypeOK', NEW c \in Consumers, Consume(c)
    PROVE  CountInv'
<1> DEFINE Seen == {"read", "next", "swap", "advance1", "sub"}
<1>0. TypeOK /\ IsFiniteSet(Uncounted) /\ Cardinality(Uncounted) \in Nat
  BY FS_CardinalityType DEF CountInv
<1>1. TypeOK /\ IsFiniteSet(Uncounted) /\ Cardinality(Uncounted) \in Nat
      /\ Len(order) \in Nat /\ Len(consumed) \in Nat /\ mLength \in 0..(SizeMod - 1)
      /\ Counted \in Int /\ TakenOff \in {0, 1}
  BY <1>0 DEF TypeOK, Counted, TakenOff
<1>2. ASSUME NEW from, NEW to, Goto(c, from, to), from # "take", to # "take",
             to \in Seen => from \in Seen \/ mLength # 0,
             UNCHANGED <<mLength, order, consumed>>
      PROVE  CountInv'
  <2>1. Uncounted' = Uncounted /\ TakenOff = 0 /\ TakenOff' = 0
        /\ pc[c] = from /\ pc'[c] = to /\ \A d \in Consumers : d = c
    BY <1>1, <1>2, CountOfConsumer
  <2>2. mLength # 0 => Counted >= 1
    <3>1. Counted \in Nat /\ mLength = Counted % SizeMod
      BY <1>1, <2>1 DEF CountInv
    <3>2. mLength <= Counted
      BY <3>1, BoundAssumption, ModuloFacts
    <3> QED
      BY <1>1, <3>1, <3>2
  <2> QED
    BY <1>2, <2>1, <2>2, CountKept
<1>3. CASE PopSub(c)
  <2>1. Goto(c, "sub", "take") /\ UNCHANGED <<order, consumed>>
        /\ mLength' = (mLength + SizeMod - 1) % SizeMod
    BY <1>3 DEF PopSub, ghosts
  <2>2. Uncounted' = Uncounted /\ TakenOff = 0 /\ TakenOff' = 1
        /\ pc[c] = "sub" /\ pc'[c] = "take" /\ \A d \in Consumers : d = c
    BY <1>1, <2>1, CountOfConsumer
  <2>3. Counted \in Nat /\ Counted > 0 /\ mLength = Counted % SizeMod /\ Counted' = Counted
    BY <1>1, <2>1, <2>2 DEF CountInv, Counted
  <2>4. mLength' = (Counted - 1) % SizeMod
    BY <2>1, <2>3, BoundAssumption, ModuloFacts
  <2> QED
    BY <1>1, <2>2, <2>3, <2>4 DEF CountInv
<1>4. CASE PopTake(c)
  <2>1. Goto(c, "take", "free") /\ order' = order /\ mLength' = mLength
        /\ Len(consumed') = Len(consumed) + 1
    BY <1>1, <1>4 DEF PopTake, CanTake, TypeOK, shared
  <2>2. Uncounted' = Uncounted /\ TakenOff = 1 /\ TakenOff' = 0
        /\ pc'[c] = "free" /\ \A d \in Consumers : d = c
    BY <1>1, <2>1, CountOfConsumer
  <2>3. Counted' - TakenOff' = Counted - TakenOff
    BY <1>1, <2>1, <2>2 DEF Counted
  <2> QED
    BY <1>1, <2>1, <2>2, <2>3 DEF CountInv
<1>5. CASE PopBegin(c)
  BY <1>5, <1>2 DEF PopBegin, shared, ghosts
<1>6. CASE Pop1Begin(c)
  BY <1>6, <1>2 DEF Pop1Begin, shared, ghosts
<1>7. CASE ClearBegin(c)
  BY <1>7, <1>2 DEF ClearBegin, shared, ghosts
<1>8. CASE PopTest(c)
  BY <1>8, <1>2 DEF PopTest, shared, ghosts
<1>9. CASE PopEmpty(c)
  BY <1>9, <1>2 DEF PopEmpty, shared, ghosts
<1>10. CASE PopReadHead(c)
  BY <1>10, <1>2 DEF PopReadHead, shared, ghosts
<1>11. CASE PopReadNext(c)
  BY <1>11, <1>2 DEF PopReadNext, shared, ghosts
<1>12. CASE PopCAS(c)
  BY <1>12, <1>2 DEF PopCAS, ghosts
<1>13. CASE PopCASFails(c)
  BY <1>13, <1>2 DEF PopCASFails, shared, ghosts
<1>14. CASE Pop1Advance(c)
  BY <1>14, <1>2 DEF Pop1Advance, ghosts
<1>15. CASE PopFree(c)
  BY <1>15, <1>2 DEF PopFree, shared, ghosts
<1> QED
  BY <1>3, <1>4, <1>5, <1>6, <1>7, <1>8, <1>9, <1>10, <1>11, <1>12, <1>13, <1>14, <1>15
  DEF Consume

(* With one consumer mLength is the number of elements counted and not taken *)
(* off, modulo the width of size_t.                                          *)
THEOREM CountIsRight ==
    ASSUME OneConsumer
    PROVE  Spec => []CountInv
<1>1. Init => CountInv
  <2> SUFFICES ASSUME Init PROVE CountInv
    OBVIOUS
  <2>1. Uncounted = {} /\ TakenOff = 0 /\ Len(order) = 0 /\ Len(consumed) = 0
        /\ \A c \in Consumers : pc[c] = "idle"
    BY ThreadAssumption DEF Init, Uncounted, TakenOff, Thread
  <2>2. IsFiniteSet(Uncounted) /\ Counted = 0
    BY <2>1, FS_EmptySet DEF Counted
  <2>3. mLength = 0 % SizeMod
    BY BoundAssumption, ModuloFacts DEF Init
  <2> QED
    BY <2>1, <2>2, <2>3, TypeInit DEF CountInv
<1>2. CountInv /\ TypeOK' /\ [Next]_vars => CountInv'
  <2> SUFFICES ASSUME CountInv, TypeOK', [Next]_vars PROVE CountInv'
    OBVIOUS
  <2>1. CASE Crash \/ UNCHANGED vars
    <3>1. UNCHANGED <<mLength, order, consumed, pc>>
      BY <2>1 DEF Crash, vars
    <3>2. Uncounted' = Uncounted /\ TakenOff' = TakenOff
      BY <3>1 DEF Uncounted, TakenOff
    <3> QED
      BY <3>1, <3>2, CountKept
  <2> QED
    BY <2>1, ProduceCounts, ConsumeCounts DEF Next
<1> QED
  BY <1>1, <1>2, TypeCorrect, PTL DEF Spec

(* With one consumer size() never reports more than is published and not     *)
(* consumed: the count does not wrap below zero, whatever the producers do.  *)
THEOREM SizeBounded ==
    ASSUME OneConsumer
    PROVE  Spec => []SizeIsBounded
<1>1. CountInv => SizeIsBounded
  <2> SUFFICES ASSUME CountInv PROVE SizeIsBounded
    OBVIOUS
  <2>1. Cardinality(Uncounted) \in Nat /\ Len(order) \in Nat /\ Len(consumed) \in Nat
        /\ TakenOff \in {0, 1} /\ mLength \in Nat
    BY FS_CardinalityType DEF CountInv, TypeOK, TakenOff
  <2>2. Counted - TakenOff \in Nat /\ mLength = (Counted - TakenOff) % SizeMod
    BY <2>1 DEF CountInv, Counted
  <2>3. mLength <= Counted - TakenOff
    BY <2>2, BoundAssumption, ModuloFacts
  <2> QED
    BY <2>1, <2>3 DEF SizeIsBounded, Counted
<1> QED
  BY <1>1, CountIsRight, PTL

-----------------------------------------------------------------------------
(***************************************************************************)
(* One producer and one consumer, both variants in any mixture.            *)
(***************************************************************************)

(* What is counted is linked: the consumer may go to the next node. *)
LEMMA NextIsLinked ==
    ASSUME FifoInv, SoleInv, CountInv, Counted >= 1
    PROVE  /\ Len(consumed) + 1 \in Live /\ Len(consumed) + 2 \in Live
           /\ mNext[spine[Len(consumed) + 1]] = spine[Len(consumed) + 2]
           /\ spine[Len(consumed) + 2] \in Node
           /\ mData[spine[Len(consumed) + 2]] \in Item
<1> DEFINE k == Len(consumed)
<1>1. /\ k \in Nat /\ Len(order) \in Nat /\ Len(spine) = Len(order) + 1
      /\ IsFiniteSet(Uncounted) /\ Cardinality(Uncounted) \in Nat
  BY FS_CardinalityType DEF FifoInv, TypeOK, SpineInv, CountInv
<1>2. k + 2 + Cardinality(Uncounted) <= Len(spine)
  BY <1>1 DEF Counted
<1>3. k + 1 \in Live /\ k + 2 \in Live
  BY <1>1, <1>2 DEF Live
<1>4. Linked(k + 1)
  <2>1. CASE \E p \in Producers : pc[p] = "link"
    <3>1. Uncounted # {}
      BY <2>1 DEF Uncounted
    <3>2. Cardinality(Uncounted) # 0
      BY <1>1, <3>1, FS_EmptySet
    <3> QED
      BY <1>1, <1>2, <3>2 DEF Linked
  <2>2. CASE ~\E p \in Producers : pc[p] = "link"
    BY <1>1, <1>2, <2>2 DEF Linked
  <2> QED
    BY <2>1, <2>2
<1>5. mNext[spine[k + 1]] = spine[k + 2]
  BY <1>1, <1>3, <1>4 DEF SoleInv
<1>6. spine[k + 2] \in Node
  BY <1>1, <1>3 DEF FifoInv, TypeOK, Live
<1>7. mData[spine[k + 2]] = order[k + 1] /\ order[k + 1] \in Item
  BY <1>1, <1>2, <1>3 DEF FifoInv, SpineInv, SoleInv
<1> QED
  BY <1>3, <1>5, <1>6, <1>7

(* No access to NULL or to a freed node is about to happen. *)
LEMMA SoleSafe ==
    ASSUME Usage, FifoInv, CountInv, SoleInv
    PROVE  ~Crash
<1>1. ASSUME NEW c \in Consumers, ConsumerFault(c) PROVE FALSE
  <2>1. mHead \in FirstOr(1) => mHead \in heap
    BY DEF FirstOr, SoleInv, FifoInv, SpineInv
  <2>2. ~(pc[c] = "next" /\ succ[c] \notin heap)
    BY <2>1 DEF FifoInv, ConsumerInv
  <2>3. ~(pc[c] = "advance1" /\ mHead \notin heap)
    BY <2>1 DEF FifoInv, ConsumerInv
  <2>4. ~(pc[c] = "free" /\ head[c] \notin heap)
    BY DEF FifoInv, ConsumerInv
  <2>5. ASSUME pc[c] = "take" PROVE CanTake(c)
    <3>1. TakenOff = 1 /\ Len(order) \in Nat /\ Len(consumed) \in Nat
          /\ Cardinality(Uncounted) \in Nat
      BY <2>5, FS_CardinalityType DEF TakenOff, CountInv, TypeOK
    <3>2. Counted >= 1
      BY <3>1 DEF CountInv, Counted
    <3>3. head[c] = spine[Len(consumed) + 1]
      BY <2>5 DEF FifoInv, ConsumerInv
    <3> QED
      BY <3>2, <3>3, NextIsLinked, NoneAssumption DEF CanTake, Taken, FifoInv, SpineInv
  <2> QED
    BY <1>1, <2>2, <2>3, <2>4, <2>5 DEF ConsumerFault
<1> QED
  BY <1>1, FifoProducers DEF Crash, ProducersAreSafe

(* A step that publishes nothing and stores no link in the list. *)
LEMMA SoleKept ==
    ASSUME SoleInv, FifoInv, TypeOK', ~bad', UNCHANGED <<spine, order>>,
           Live' \subseteq Live, \A i \in Live : mNext'[spine[i]] = mNext[spine[i]],
           \A p \in Producers : pc[p] = "link" => pc'[p] = "link",
           mHead' # NULL, \A c \in Consumers : pc'[c] = "swap" => succ'[c] # NULL,
           \A p \in Producers :
              /\ sent'[p] - (IF Private(p)' THEN 1 ELSE 0) = sent[p] - (IF Private(p) THEN 1 ELSE 0)
              /\ Private(p)' => mData'[node'[p]] = <<p, sent'[p]>>
    PROVE  SoleInv'
<1>1. \A i \in Live' : Linked(i)' => mNext'[spine'[i]] = spine'[i + 1]
  BY DEF SoleInv, Linked
<1>2. \A i \in 1..Len(order') : order'[i] \in Item
  BY DEF SoleInv
<1>3. ASSUME NEW p \in Producers
      PROVE  /\ Len(order') = sent'[p] - (IF Private(p)' THEN 1 ELSE 0)
             /\ \A i \in 1..Len(order') : order'[i] = <<p, i>>
  BY DEF SoleInv
<1> QED
  BY <1>1, <1>2, <1>3 DEF SoleInv

(* Publishing keeps the numbers of the elements. *)
LEMMA SolePublish ==
    ASSUME OneProducer, SoleInv, TypeOK, NEW p \in Producers,
           Private(p), Publish(p), ~Private(p)'
    PROVE  /\ \A i \in 1..Len(order') : order'[i] \in Item
           /\ \A q \in Producers :
                 /\ Len(order') = sent'[q] - (IF Private(q)' THEN 1 ELSE 0)
                 /\ ~Private(q)'
                 /\ \A i \in 1..Len(order') : order'[i] = <<q, i>>
<1>1. \A q \in Producers : q = p
  BY DEF OneProducer
<1>2. /\ sent' = sent /\ sent[p] \in 1..MaxPush
      /\ Len(order) = sent[p] - 1 /\ mData[node[p]] = <<p, sent[p]>>
  BY BoundAssumption DEF SoleInv, TypeOK, Publish
<1>3. /\ Len(order') = sent[p] /\ order'[sent[p]] = <<p, sent[p]>>
      /\ \A i \in 1..(sent[p] - 1) : order'[i] = order[i]
  BY <1>2 DEF Publish, TypeOK
<1>4. ASSUME NEW i \in 1..Len(order') PROVE order'[i] = <<p, i>> /\ order'[i] \in Item
  <2>1. CASE i = sent[p]
    <3>1. order'[i] = <<p, i>> /\ i \in 1..MaxPush
      BY <1>2, <1>3, <2>1
    <3> QED
      BY <3>1 DEF Item
  <2>2. CASE i # sent[p]
    <3>1. i \in 1..Len(order) /\ i \in 1..(sent[p] - 1)
      BY <1>2, <1>3, <1>4, <2>2
    <3> QED
      BY <1>3, <3>1 DEF SoleInv
  <2> QED
    BY <2>1, <2>2
<1> QED
  BY <1>1, <1>2, <1>3, <1>4

LEMMA SoleProduce ==
    ASSUME Usage, OneProducer, FifoInv, SoleInv, TypeOK', NEW p \in Producers, Produce(p)
    PROVE  SoleInv'
<1> USE ThreadAssumption, NodeAssumption DEF Thread
<1>1. \A q \in Producers : q = p
  BY DEF OneProducer
<1>2. ASSUME NEW from, NEW to, Goto(p, from, to)
      PROVE  /\ pc[p] = from /\ pc'[p] = to /\ ~bad'
             /\ \A c \in Consumers : pc'[c] = pc[c]
  BY <1>2 DEF Goto, FifoInv, TypeOK
<1>3. ASSUME UNCHANGED <<mHead, succ, mNext, mData, node, sent, spine, order, consumed>>,
             NEW from, NEW to, Goto(p, from, to),
             from \in {"load", "cas", "link1"} <=> to \in {"load", "cas", "link1"},
             from # "link"
      PROVE  SoleInv'
  <2>1. Live' = Live /\ (Private(p)' <=> Private(p)) /\ ~bad' /\ pc[p] # "link"
        /\ \A c \in Consumers : pc'[c] = pc[c]
    BY <1>2, <1>3 DEF Live, Private
  <2> QED
    BY <1>1, <1>3, <2>1, SoleKept DEF SoleInv
<1>4. CASE PushAlloc(p)
  <2>1. /\ UNCHANGED <<mHead, succ, spine, order, consumed>>
        /\ sent' = [sent EXCEPT ![p] = @ + 1] /\ pc[p] = "idle" /\ Private(p)' /\ ~bad'
        /\ \A c \in Consumers : pc'[c] = pc[c]
    BY <1>2, <1>4 DEF PushAlloc, Private
  <2>2. PICK n \in Node \ heap :
           /\ mNext' = [mNext EXCEPT ![n] = NULL]
           /\ mData' = [mData EXCEPT ![n] = <<p, sent[p] + 1>>]
           /\ node' = [node EXCEPT ![p] = n]
    BY <1>4 DEF PushAlloc
  <2>3. Live' = Live /\ \A i \in Live : spine[i] # n /\ mNext'[spine[i]] = mNext[spine[i]]
    BY <2>1, <2>2 DEF Live, FifoInv, SpineInv, TypeOK
  <2>4. /\ sent'[p] = sent[p] + 1 /\ sent[p] \in Nat /\ ~Private(p)
        /\ mData'[node'[p]] = <<p, sent'[p]>>
    BY <2>1, <2>2, BoundAssumption DEF FifoInv, TypeOK, Private
  <2>5. \A c \in Consumers : pc'[c] = "swap" => succ'[c] # NULL
    BY <2>1 DEF SoleInv
  <2>6. \A q \in Producers : pc[q] # "link" /\ Private(q)' /\ ~Private(q)
    BY <1>1, <2>1, <2>4
  <2>7. \A q \in Producers :
           /\ sent'[q] - (IF Private(q)' THEN 1 ELSE 0) = sent[q] - (IF Private(q) THEN 1 ELSE 0)
           /\ Private(q)' => mData'[node'[q]] = <<q, sent'[q]>>
    BY <1>1, <2>4, <2>6
  <2> QED
    BY <2>1, <2>3, <2>5, <2>6, <2>7, SoleKept DEF SoleInv
<1>5. CASE PushCAS(p) \/ Push1Link(p)
  <2>1. /\ Publish(p) /\ Private(p) /\ ~Private(p)' /\ ~bad'
        /\ UNCHANGED <<mHead, succ, consumed>>
        /\ \A c \in Consumers : pc'[c] = pc[c]
    BY <1>2, <1>5 DEF PushCAS, Push1Link, Private, Publish
  <2> DEFINE m == Len(spine)
  <2>2. /\ Len(spine') = m + 1 /\ spine'[m + 1] = node[p]
        /\ \A i \in 1..m : spine'[i] = spine[i]
        /\ m \in Nat /\ m = Len(order) + 1 /\ Len(consumed) \in Nat /\ Len(consumed) <= m - 1
    BY <2>1 DEF FifoInv, TypeOK, Publish, SpineInv
  <2>3. \A q \in Producers : pc[q] # "link" /\ pc[q] # "swing1"
    BY <1>1, <2>1 DEF Private
  <2> HIDE DEF m
  <2>4. ASSUME NEW i \in Live', Linked(i)' PROVE mNext'[spine'[i]] = spine'[i + 1]
    <3>1. i \in Nat /\ i > Len(consumed) /\ i <= m
      BY <2>1, <2>2, <2>4 DEF Live, Linked
    <3>2. i \in Live /\ spine'[i] = spine[i]
      BY <2>2, <3>1 DEF Live, m
    <3>3. CASE i < m
      <4>1. mNext[spine[i]] = spine[i + 1] /\ spine'[i + 1] = spine[i + 1]
        BY <2>2, <2>3, <3>1, <3>2, <3>3 DEF SoleInv, Linked, m
      <4>2. mNext'[spine[i]] = mNext[spine[i]]
        <5>1. CASE PushCAS(p)
          BY <5>1 DEF PushCAS
        <5>2. CASE Push1Link(p)
          <6>1. mTail = spine[m] /\ mNext' = [mNext EXCEPT ![mTail] = node[p]] /\ m \in Live
            BY <2>2, <2>3, <5>2 DEF FifoInv, LinkInv, Push1Link, m, Live
          <6>2. spine[i] # spine[m] /\ spine[i] \in Node
            BY <2>2, <3>2, <3>3, <6>1 DEF FifoInv, SpineInv, TypeOK
          <6> QED
            BY <6>1, <6>2 DEF FifoInv, TypeOK
        <5> QED
          BY <1>5, <5>1, <5>2
      <4> QED
        BY <3>2, <4>1, <4>2
    <3>4. CASE i = m
      <4>1. pc'[p] # "link"
        BY <1>1, <2>2, <2>4, <3>4 DEF Linked
      <4>2. Push1Link(p)
        BY <1>2, <1>5, <4>1 DEF PushCAS
      <4>3. mTail = spine[m] /\ mNext' = [mNext EXCEPT ![mTail] = node[p]]
        BY <2>2, <2>3, <4>2 DEF FifoInv, LinkInv, Push1Link, m
      <4>4. spine[m] \in Node
        BY <3>2, <3>4 DEF FifoInv, SpineInv, TypeOK
      <4> QED
        BY <2>2, <3>2, <3>4, <4>3, <4>4 DEF FifoInv, TypeOK
    <3> QED
      BY <2>2, <3>1, <3>3, <3>4
  <2>5. mHead' # NULL /\ \A c \in Consumers : pc'[c] = "swap" => succ'[c] # NULL
    BY <2>1 DEF SoleInv
  <2>6. TypeOK
    BY DEF FifoInv
  <2> QED
    BY <2>1, <2>4, <2>5, <2>6, SolePublish DEF SoleInv
<1>6. CASE PushLink(p)
  <2>1. /\ UNCHANGED <<mHead, succ, mData, node, sent, spine, order, consumed>>
        /\ mNext' = [mNext EXCEPT ![tail[p]] = node[p]]
        /\ pc[p] = "link" /\ pc'[p] = "add" /\ ~bad'
        /\ \A c \in Consumers : pc'[c] = pc[c]
    BY <1>2, <1>6 DEF PushLink
  <2>2. PICK j \in Live : /\ j < Len(spine)
                          /\ tail[p] = spine[j] /\ node[p] = spine[j + 1]
                          /\ mNext[spine[j]] = NULL
    BY <2>1 DEF FifoInv, LinkingInv
  <2>3. \A i \in Live : i \in Nat /\ spine[i] \in Node
    BY DEF FifoInv, TypeOK, SpineInv, Live
  <2>4. Len(spine) \in Nat /\ \A i \in Live : i < Len(spine) => i + 1 \in Live
    BY DEF FifoInv, TypeOK, Live
  <2>5. j = Len(spine) - 1
    <3> SUFFICES ASSUME j < Len(spine) - 1 PROVE FALSE
      BY <2>2, <2>3, <2>4
    <3>1. mNext[spine[j]] = spine[j + 1]
      BY DEF SoleInv, Linked
    <3> QED
      BY <2>2, <2>3, <2>4, <3>1
  <2>6. ASSUME NEW i \in Live', Linked(i)' PROVE mNext'[spine'[i]] = spine'[i + 1]
    <3>1. i \in Live /\ i < Len(spine)
      BY <2>1, <2>4, <2>6 DEF Live, Linked
    <3>2. CASE i = j
      BY <2>1, <2>2, <2>3, <3>2 DEF FifoInv, TypeOK
    <3>3. CASE i # j
      <4>1. spine[i] # spine[j]
        BY <3>1, <3>3 DEF FifoInv, SpineInv
      <4>2. mNext[spine[i]] = spine[i + 1]
        BY <2>3, <2>4, <2>5, <3>1, <3>3 DEF SoleInv, Linked
      <4> QED
        BY <2>1, <2>2, <2>3, <3>1, <4>1, <4>2 DEF FifoInv, TypeOK
    <3> QED
      BY <3>2, <3>3
  <2>7. ~Private(p) /\ ~Private(p)'
    BY <2>1 DEF Private
  <2> QED
    BY <1>1, <2>1, <2>6, <2>7 DEF SoleInv
<1>7. CASE PushLoad(p)
  BY <1>3, <1>7 DEF PushLoad
<1>8. CASE PushCASFails(p)
  BY <1>3, <1>8 DEF PushCASFails
<1>9. CASE Push1Swing(p)
  BY <1>3, <1>9 DEF Push1Swing
<1>10. CASE PushAdd(p)
  BY <1>3, <1>10 DEF PushAdd
<1> QED
  BY <1>4, <1>5, <1>6, <1>7, <1>8, <1>9, <1>10 DEF Produce

LEMMA SoleConsume ==
    ASSUME Usage, FifoInv, CountInv, SoleInv, TypeOK', NEW c \in Consumers, Consume(c)
    PROVE  SoleInv'
<1> USE ThreadAssumption, NodeAssumption DEF Thread
<1>1. \A d \in Consumers : d = c
  BY DEF Usage, OneConsumer
<1>2. ASSUME NEW from, NEW to, Goto(c, from, to)
      PROVE  /\ pc[c] = from /\ pc'[c] = to /\ ~bad'
             /\ \A p \in Producers : pc'[p] = pc[p] /\ (Private(p)' <=> Private(p))
  BY <1>2 DEF Goto, FifoInv, TypeOK, Private
<1>3. ASSUME UNCHANGED <<mNext, node, sent, spine, order>>, Live' \subseteq Live,
             NEW from, NEW to, Goto(c, from, to),
             mHead' # NULL, to = "swap" => succ'[c] # NULL,
             \A p \in Producers : Private(p) => mData'[node[p]] = mData[node[p]]
      PROVE  SoleInv'
  <2>1. \A d \in Consumers : pc'[d] = "swap" => succ'[d] # NULL
    BY <1>1, <1>2, <1>3
  <2>2. \A p \in Producers :
           /\ sent'[p] - (IF Private(p)' THEN 1 ELSE 0) = sent[p] - (IF Private(p) THEN 1 ELSE 0)
           /\ Private(p)' => mData'[node'[p]] = <<p, sent'[p]>>
    BY <1>2, <1>3 DEF SoleInv
  <2> QED
    BY <1>2, <1>3, <2>1, <2>2, SoleKept
<1>4. mHead # NULL /\ (pc[c] = "swap" => succ[c] # NULL)
  BY DEF SoleInv
<1>5. consumed' = consumed /\ spine' = spine => Live' = Live
  BY DEF Live
<1>6. ASSUME pc[c] \in {"next", "advance1"} PROVE Counted >= 1
  BY <1>6 DEF CountInv
<1>7. mHead \in FirstOr(1) => mHead = spine[Len(consumed) + 1]
  BY <1>4 DEF FirstOr
<1>8. CASE PopReadNext(c)
  <2>1. pc[c] = "next" /\ succ[c] = spine[Len(consumed) + 1]
    BY <1>2, <1>7, <1>8 DEF PopReadNext, FifoInv, ConsumerInv
  <2>2. succ'[c] # NULL
    BY <1>6, <1>8, <2>1, NextIsLinked DEF PopReadNext, FifoInv, TypeOK
  <2> QED
    BY <1>3, <1>4, <1>5, <1>8, <2>2 DEF PopReadNext
<1>9. CASE Pop1Advance(c)
  <2>1. pc[c] = "advance1" /\ mHead = spine[Len(consumed) + 1]
    BY <1>2, <1>7, <1>9 DEF Pop1Advance, FifoInv, ConsumerInv
  <2>2. mHead' # NULL
    BY <1>6, <1>9, <2>1, NextIsLinked DEF Pop1Advance
  <2> QED
    BY <1>3, <1>5, <1>9, <2>2 DEF Pop1Advance
<1>10. CASE PopCAS(c)
  BY <1>2, <1>3, <1>4, <1>5, <1>10 DEF PopCAS
<1>11. CASE PopTake(c)
  <2>1. Live' \subseteq Live
    <3>1. Len(consumed') = Len(consumed) + 1 /\ Len(consumed) \in Nat /\ Len(spine) \in Nat
          /\ spine' = spine
      BY <1>11 DEF PopTake, CanTake, FifoInv, TypeOK
    <3> QED
      BY <3>1 DEF Live
  <2>2. \A p \in Producers : Private(p) => mData'[node[p]] = mData[node[p]]
    <3>1. Len(consumed) + 2 \in Live /\ Taken(c) = spine[Len(consumed) + 2]
      BY <1>11, TakenIsNext
    <3>2. \A p \in Producers : Private(p) => node[p] # Taken(c)
      BY <3>1 DEF FifoInv, PrivateInv
    <3> QED
      BY <1>11, <3>2 DEF PopTake, FifoInv, TypeOK
  <2> QED
    BY <1>3, <1>4, <1>11, <2>1, <2>2 DEF PopTake
<1>12. CASE PopBegin(c)
  BY <1>3, <1>4, <1>5, <1>12 DEF PopBegin
<1>13. CASE Pop1Begin(c)
  BY <1>3, <1>4, <1>5, <1>13 DEF Pop1Begin
<1>14. CASE ClearBegin(c)
  BY <1>3, <1>4, <1>5, <1>14 DEF ClearBegin
<1>15. CASE PopTest(c)
  BY <1>3, <1>4, <1>5, <1>15 DEF PopTest
<1>16. CASE PopEmpty(c)
  BY <1>3, <1>4, <1>5, <1>16 DEF PopEmpty
<1>17. CASE PopReadHead(c)
  BY <1>3, <1>4, <1>5, <1>17 DEF PopReadHead
<1>18. CASE PopCASFails(c)
  BY <1>3, <1>4, <1>5, <1>18 DEF PopCASFails
<1>19. CASE PopSub(c)
  BY <1>3, <1>4, <1>5, <1>19 DEF PopSub
<1>20. CASE PopFree(c)
  <2>1. PICK to : Goto(c, "free", to) /\ to # "swap"
    BY <1>20 DEF PopFree
  <2> QED
    BY <1>3, <1>4, <1>5, <1>20, <2>1 DEF PopFree
<1> QED
  BY <1>8, <1>9, <1>10, <1>11, <1>12, <1>13, <1>14, <1>15, <1>16, <1>17, <1>18, <1>19, <1>20
  DEF Consume

(* With one producer and one consumer nobody ever dereferences NULL or a     *)
(* freed node, or frees one twice, and the links are there when the count    *)
(* says so.                                                                  *)
THEOREM SoleSafety ==
    ASSUME OneProducer, OneConsumer
    PROVE  Spec => []SoleInv
<1>1. Usage
  BY DEF Usage
<1>2. Init => SoleInv
  <2> SUFFICES ASSUME Init PROVE SoleInv
    OBVIOUS
  <2>1. /\ Len(spine) = 1 /\ Len(order) = 0 /\ Len(consumed) = 0 /\ ~bad
        /\ mHead # NULL
    BY NodeAssumption DEF Init
  <2>2. /\ \A p \in Producers : pc[p] = "idle" /\ sent[p] = 0
        /\ \A c \in Consumers : pc[c] = "idle"
    BY ThreadAssumption DEF Init, Thread
  <2> QED
    BY <2>1, <2>2 DEF SoleInv, Live, Linked, Private
<1>3. FifoInv /\ CountInv /\ TypeOK' /\ SoleInv /\ [Next]_vars => SoleInv'
  <2> SUFFICES ASSUME FifoInv, CountInv, TypeOK', SoleInv, [Next]_vars PROVE SoleInv'
    OBVIOUS
  <2>1. ~Crash
    BY <1>1, SoleSafe
  <2>2. CASE UNCHANGED vars
    BY <2>2 DEF vars, SoleInv, Live, Linked, Private
  <2> QED
    BY <1>1, <2>1, <2>2, SoleProduce, SoleConsume DEF Next
<1>4. (Spec => []FifoInv) /\ (Spec => []CountInv)
  BY <1>1, FifoInvariance, CountIsRight
<1> QED
  BY <1>2, <1>3, <1>4, TypeCorrect, PTL DEF Spec

(* The same in the words of the run. *)
THEOREM AccessSafety ==
    ASSUME OneProducer, OneConsumer
    PROVE  Spec => []NoBadAccess
<1>1. SoleInv => NoBadAccess
  BY DEF SoleInv, NoBadAccess
<1> QED
  BY <1>1, SoleSafety, PTL

(* With one producer and one consumer, and no more elements than size_t can  *)
(* count, pop returns false and clear returns only when everything is gone   *)
(* whose push had returned.                                                  *)
THEOREM EmptyIsDrained ==
    ASSUME OneProducer, OneConsumer, MaxPush < SizeMod
    PROVE  Spec => EmptyMeansDrained
<1>1. Usage
  BY DEF Usage
<1>2. ASSUME FifoInv, CountInv, SoleInv, NEW c \in Consumers, PopEmpty(c),
             NEW p \in Producers, NEW k \in 1..Returned(p)
      PROVE  \E i \in DOMAIN consumed : consumed[i] = <<p, k>>
  <2>1. /\ mLength = 0 /\ TakenOff = 0
        /\ \A q \in Producers : q = p
    BY <1>2 DEF PopEmpty, Goto, TakenOff, OneConsumer, OneProducer
  <2>2. /\ Cardinality(Uncounted) \in Nat /\ IsFiniteSet(Uncounted)
        /\ Len(order) \in Nat /\ Len(consumed) \in Nat /\ sent[p] \in 0..MaxPush
        /\ Len(order) = sent[p] - (IF Private(p) THEN 1 ELSE 0)
    BY <1>2, FS_CardinalityType DEF CountInv, TypeOK, SoleInv
  <2>3. Counted = 0
    <3>1. Counted \in Nat /\ 0 = Counted % SizeMod
      BY <1>2, <2>1, <2>2 DEF CountInv, Counted
    <3>2. Counted < SizeMod
      BY <2>2, BoundAssumption DEF Counted
    <3> QED
      BY <3>1, <3>2, BoundAssumption, ModuloFacts
  <2>4. k <= Len(consumed)
    <3>1. CASE pc[p] \in {"link", "swing1", "add"}
      <4>1. Uncounted = {p}
        BY <2>1, <3>1 DEF Uncounted
      <4>2. Cardinality(Uncounted) = 1
        BY <4>1, FS_Singleton
      <4>3. ~Private(p) /\ Returned(p) = sent[p] - 1
        BY <3>1 DEF Private, Returned
      <4>4. Len(order) = sent[p]
        BY <2>2, <4>3
      <4>5. Len(consumed) = Len(order) - 1
        BY <2>2, <2>3, <4>2 DEF Counted
      <4> QED
        BY <2>2, <4>3, <4>4, <4>5
    <3>2. CASE pc[p] \notin {"link", "swing1", "add"}
      <4>1. Uncounted = {}
        BY <2>1, <3>2 DEF Uncounted
      <4>2. Cardinality(Uncounted) = 0
        BY <4>1, FS_EmptySet
      <4>3. Len(consumed) = Len(order)
        BY <2>2, <2>3, <4>2 DEF Counted
      <4>4. CASE pc[p] = "idle"
        <5>1. ~Private(p) /\ Returned(p) = sent[p]
          BY <4>4 DEF Private, Returned
        <5> QED
          BY <2>2, <4>3, <5>1
      <4>5. CASE pc[p] # "idle"
        <5>1. Private(p)
          BY <1>2, <3>2, <4>5 DEF FifoInv, TypeOK, ProducerPC, Private
        <5>2. Returned(p) = sent[p] - 1
          BY <4>5 DEF Returned
        <5> QED
          BY <2>2, <4>3, <5>1, <5>2
      <4> QED
        BY <4>4, <4>5
    <3> QED
      BY <3>1, <3>2
  <2>5. k \in 1..Len(consumed) /\ k \in 1..Len(order) /\ DOMAIN consumed = 1..Len(consumed)
    BY <1>2, <2>2, <2>4 DEF Returned, FifoInv, SpineInv, TypeOK
  <2>6. consumed[k] = order[k] /\ order[k] = <<p, k>>
    BY <1>2, <2>5 DEF FifoInv, SoleInv
  <2> QED
    BY <2>5, <2>6
<1>3. FifoInv /\ CountInv /\ SoleInv /\ [Next]_vars
        => [\A c \in Consumers : PopEmpty(c) =>
              \A p \in Producers : \A k \in 1..Returned(p) :
                 \E i \in DOMAIN consumed : consumed[i] = <<p, k>>]_vars
  BY <1>2
<1>4. (Spec => []FifoInv) /\ (Spec => []CountInv) /\ (Spec => []SoleInv)
  BY <1>1, FifoInvariance, CountIsRight, SoleSafety
<1> QED
  BY <1>3, <1>4, PTL DEF Spec, EmptyMeansDrained
=============================================================================
