------------------------- MODULE JobDispatcher_proofs -------------------------
(***************************************************************************)
(* Lemmas about the task lists of JobDispatcher: what queue, merge_l's     *)
(* sort and remove keep of a list, for lists of any length.  The proofs    *)
(* about Looper and DispatchQueue rest on them.                            *)
(***************************************************************************)
EXTENDS JobDispatcher, FiniteSetTheorems, SequenceTheorems, TLAPS

\* No two tasks of the list are of the same call of post.
Distinct(tasks) == \A i, j \in DOMAIN tasks : tasks[i].id = tasks[j].id => i = j

\* The tasks of a list.
Tasks(tasks) == {tasks[i] : i \in DOMAIN tasks}

IsTotalOrder(R, I) ==
    /\ \A i \in I : <<i, i>> \in R
    /\ \A i, j \in I : <<i, j>> \in R \/ <<j, i>> \in R
    /\ \A i, j \in I : <<i, j>> \in R /\ <<j, i>> \in R => i = j
    /\ \A i, j, k \in I : <<i, j>> \in R /\ <<j, k>> \in R => <<i, k>> \in R

\* The indices a list was rearranged by: f[k] is where its k-th task was.
IsArrangement(f, n, I, R) ==
    /\ f \in [1..n -> I]
    /\ \A k, l \in 1..n : k < l => <<f[k], f[l]>> \in R /\ f[k] # f[l]
    /\ \A i \in I : \E k \in 1..n : f[k] = i

-----------------------------------------------------------------------------
(* A set of natural numbers has a least one. *)
LEMMA LeastNatural ==
    ASSUME NEW S \in SUBSET Nat, S # {}
    PROVE  Min(S) \in S /\ \A x \in S : Min(S) <= x
<1> DEFINE R == {p \in Nat \X Nat : p[1] < p[2]}
<1>1. IsWellFoundedOn(R, Nat)
  BY NatLessThanWellFounded DEF OpToRel
<1>2. PICK x \in S : \A y \in S : ~ (<<y, x>> \in R)
  <2> HIDE DEF R
  <2> QED
    BY <1>1, WFMin
<1>3. ASSUME NEW y \in S
      PROVE  x <= y
  <2>1. x \in Nat /\ y \in Nat /\ ~ (y < x)
    BY <1>2
  <2> QED
    BY <2>1
<1> QED
  BY <1>3 DEF Min

-----------------------------------------------------------------------------
(* Every element of a finite total order has a rank of its own, and every   *)
(* number up to the number of elements is the rank of one.                  *)
LEMMA Ranks ==
    ASSUME NEW I, IsFiniteSet(I), NEW R, IsTotalOrder(R, I)
    PROVE  \E f : /\ IsArrangement(f, Cardinality(I), I, R)
                  /\ \A k \in 1..Cardinality(I) : f[k] = Nth(I, R, k)
<1> DEFINE Up(i) == {j \in I : <<j, i>> \in R}
           Rank(i) == Cardinality(Up(i))
           n == Cardinality(I)
<1>1. n \in Nat
  BY FS_CardinalityType
<1>2. \A i \in I : IsFiniteSet(Up(i)) /\ Rank(i) \in 1..n
  <2> SUFFICES ASSUME NEW i \in I
               PROVE  IsFiniteSet(Up(i)) /\ Rank(i) \in 1..n
    OBVIOUS
  <2>1. Up(i) \in SUBSET I /\ i \in Up(i)
    BY DEF IsTotalOrder
  <2>2. IsFiniteSet(Up(i)) /\ Rank(i) <= n /\ Rank(i) \in Nat /\ Rank(i) # 0
    BY <2>1, FS_Subset, FS_EmptySet, FS_CardinalityType
  <2> QED
    BY <1>1, <2>2
<1>3. ASSUME NEW i \in I, NEW j \in I, i # j, <<i, j>> \in R
      PROVE  Rank(i) < Rank(j)
  <2>1. Up(i) \in SUBSET Up(j) /\ j \in Up(j) /\ j \notin Up(i)
    BY <1>3 DEF IsTotalOrder
  <2>2. Rank(i) <= Rank(j) /\ Rank(i) # Rank(j)
    <3> HIDE DEF Up
    <3> QED
      BY <1>2, <2>1, FS_Subset
  <2> QED
    BY <1>2, <2>2
<1> HIDE DEF Rank
<1>4. \A i, j \in I : i # j => Rank(i) # Rank(j)
  <2> SUFFICES ASSUME NEW i \in I, NEW j \in I, i # j
               PROVE  Rank(i) # Rank(j)
    OBVIOUS
  <2>1. <<i, j>> \in R \/ <<j, i>> \in R
    BY DEF IsTotalOrder
  <2>2. Rank(i) \in 1..n /\ Rank(j) \in 1..n
    BY <1>2
  <2>3. Rank(i) < Rank(j) \/ Rank(j) < Rank(i)
    BY <1>3, <2>1
  <2> QED
    BY <1>1, <2>2, <2>3
<1> DEFINE g == [i \in I |-> Rank(i)]
<1>5. g \in Injection(I, 1..n)
  BY <1>2, <1>4 DEF Injection, IsInjective
<1>6. IsFiniteSet(1..n) /\ Cardinality(1..n) = n
  BY <1>1, FS_Interval
<1>7. g \in Surjection(I, 1..n)
  <2> HIDE DEF g
  <2> QED
    BY <1>5, <1>6, FS_Injection
<1>8. \A k \in 1..n : \E i \in I : Rank(i) = k
  BY <1>7 DEF Surjection
<1> DEFINE f == [k \in 1..n |-> CHOOSE i \in I : Rank(i) = k]
<1>9. \A k \in 1..n : f[k] \in I /\ Rank(f[k]) = k
  BY <1>8
<1>10. f \in [1..n -> I]
  BY <1>9
<1>11. ASSUME NEW k \in 1..n, NEW l \in 1..n, k < l
       PROVE  <<f[k], f[l]>> \in R /\ f[k] # f[l]
  <2>1. Rank(f[k]) < Rank(f[l]) /\ f[k] \in I /\ f[l] \in I
    BY <1>9, <1>11
  <2> HIDE DEF f
  <2>2. PICK a, b : a = f[k] /\ b = f[l]
    OBVIOUS
  <2>3. a \in I /\ b \in I /\ Rank(a) < Rank(b) /\ Rank(a) \in 1..n /\ Rank(b) \in 1..n
    BY <2>1, <2>2, <1>2
  <2>4. a # b /\ ~ (<<b, a>> \in R)
    BY <2>3, <1>3, <1>1
  <2> QED
    BY <2>2, <2>3, <2>4 DEF IsTotalOrder
<1>12. \A i \in I : \E k \in 1..n : f[k] = i
  <2> SUFFICES ASSUME NEW i \in I
               PROVE  f[Rank(i)] = i /\ Rank(i) \in 1..n
    OBVIOUS
  <2>1. Rank(i) \in 1..n
    BY <1>2
  <2>2. f[Rank(i)] \in I /\ Rank(f[Rank(i)]) = Rank(i)
    BY <1>9, <2>1
  <2> HIDE DEF f
  <2> QED
    BY <1>4, <2>1, <2>2
<1>13. IsArrangement(f, n, I, R)
  BY <1>10, <1>11, <1>12 DEF IsArrangement
<1>14. \A k \in 1..n : f[k] = Nth(I, R, k)
  BY DEF Rank, Nth
<1> QED
  BY <1>13, <1>14

(* The list arranged by a total order of some of its indices. *)
LEMMA ArrangedFacts ==
    ASSUME NEW T, NEW timed \in Seq(T), NEW I \in SUBSET DOMAIN timed,
           NEW R, IsTotalOrder(R, I)
    PROVE  /\ IsFiniteSet(I) /\ Cardinality(I) \in Nat
           /\ Cardinality(I) <= Len(timed)
           /\ Arranged(timed, I, R) \in Seq(T)
           /\ Len(Arranged(timed, I, R)) = Cardinality(I)
           /\ \E f : /\ IsArrangement(f, Cardinality(I), I, R)
                    /\ \A k \in 1..Cardinality(I) : Arranged(timed, I, R)[k] = timed[f[k]]
<1> DEFINE a == Arranged(timed, I, R)
           n == Cardinality(I)
<1>1. DOMAIN timed = 1..Len(timed) /\ Len(timed) \in Nat
  BY LenProperties
<1>2. /\ IsFiniteSet(DOMAIN timed) /\ Cardinality(DOMAIN timed) = Len(timed)
  <2>1. IsFiniteSet(1..Len(timed)) /\ Cardinality(1..Len(timed)) = Len(timed)
    <3>1. PICK m \in Nat : m = Len(timed)
      BY <1>1
    <3>2. IsFiniteSet(1..m) /\ Cardinality(1..m) = m
      BY FS_Interval
    <3> QED
      BY <3>1, <3>2
  <2> QED
    BY <1>1, <2>1
<1>3. IsFiniteSet(I) /\ n \in Nat /\ n <= Len(timed)
  <2>1. IsFiniteSet(I) /\ Cardinality(I) <= Cardinality(DOMAIN timed)
    BY <1>2, FS_Subset
  <2> QED
    BY <1>2, <2>1, FS_CardinalityType
<1>4. PICK f : IsArrangement(f, n, I, R) /\ \A k \in 1..n : f[k] = Nth(I, R, k)
  BY <1>3, Ranks
<1>5. a = [k \in 1..n |-> timed[f[k]]]
  BY <1>4 DEF Arranged
<1>6. \A k \in 1..n : timed[f[k]] \in T
  BY <1>1, <1>4 DEF IsArrangement
<1>7. a \in Seq(T) /\ Len(a) = n
  BY <1>3, <1>5, <1>6
<1> QED
  BY <1>3, <1>4, <1>5, <1>7

-----------------------------------------------------------------------------
(* The ids of a list are those of its tasks. *)
LEMMA IdsOfTasks ==
    ASSUME NEW tasks
    PROVE  Ids(tasks) = {t.id : t \in Tasks(tasks)}
BY DEF Ids, Tasks

(* A list with one task more has its id too. *)
LEMMA IdsAdded ==
    ASSUME NEW tasks, NEW before, NEW task, Tasks(tasks) = Tasks(before) \cup {task}
    PROVE  Ids(tasks) = Ids(before) \cup {task.id}
BY IdsOfTasks

(* A list of some of the tasks has some of the ids. *)
LEMMA IdsOfFewer ==
    ASSUME NEW tasks, NEW before, Tasks(tasks) \subseteq Tasks(before)
    PROVE  Ids(tasks) \subseteq Ids(before)
BY IdsOfTasks

(* A list sorted by time has the same tasks as before, each as often, and is *)
(* in the order of the times.                                                *)
THEOREM SortFacts ==
    ASSUME NEW T, \A t \in T : t.when \in Int, NEW timed \in Seq(T)
    PROVE  /\ SortByTime(timed) \in Seq(T)
           /\ Len(SortByTime(timed)) = Len(timed)
           /\ Tasks(SortByTime(timed)) = Tasks(timed)
           /\ Ids(SortByTime(timed)) = Ids(timed)
           /\ Distinct(timed) => Distinct(SortByTime(timed))
           /\ IsSortedByTime(SortByTime(timed))
<1> DEFINE D == DOMAIN timed
           NoLater(i, j) == \/ timed[i].when < timed[j].when
                            \/ timed[i].when = timed[j].when /\ i <= j
           R == {p \in D \X D : NoLater(p[1], p[2])}
           s == SortByTime(timed)
<1>1. D = 1..Len(timed) /\ Len(timed) \in Nat /\ \A i \in D : timed[i] \in T
  BY LenProperties
<1>2. \A i, j \in D : <<i, j>> \in R <=> NoLater(i, j)
  OBVIOUS
<1> HIDE DEF R
<1>3. \A i \in D : i \in Int /\ timed[i].when \in Int
  BY <1>1
<1>4. IsTotalOrder(R, D)
  BY <1>2, <1>3 DEF IsTotalOrder
<1>5. s = Arranged(timed, D, R)
  BY DEF SortByTime, R
<1>6. Cardinality(D) = Len(timed)
  <2>1. PICK m \in Nat : m = Len(timed)
    BY <1>1
  <2>2. Cardinality(1..m) = m
    BY FS_Interval
  <2> QED
    BY <1>1, <2>1, <2>2
<1>7. PICK f : /\ IsArrangement(f, Len(timed), D, R)
               /\ \A k \in 1..Len(timed) : s[k] = timed[f[k]]
  BY <1>4, <1>5, <1>6, ArrangedFacts
<1>8. s \in Seq(T) /\ Len(s) = Len(timed) /\ DOMAIN s = D
  BY <1>1, <1>4, <1>5, <1>6, ArrangedFacts, LenProperties
<1>9. /\ \A k \in D : f[k] \in D /\ s[k] = timed[f[k]]
      /\ \A i \in D : \E k \in D : f[k] = i
      /\ \A k, l \in D : k < l => <<f[k], f[l]>> \in R /\ f[k] # f[l]
  BY <1>1, <1>7 DEF IsArrangement
<1> HIDE DEF s, D
<1>10. Tasks(s) = Tasks(timed) /\ Ids(s) = Ids(timed)
  <2>1. \A k \in D : \E i \in D : s[k] = timed[i]
    BY <1>9
  <2>2. \A i \in D : \E k \in D : s[k] = timed[i]
    BY <1>9
  <2>3. DOMAIN s = D /\ DOMAIN timed = D
    BY <1>8 DEF D
  <2>4. Tasks(s) = Tasks(timed)
    <3>1. \A x : x \in Tasks(s) <=> \E k \in D : x = s[k]
      BY <2>3 DEF Tasks
    <3>2. \A x : x \in Tasks(timed) <=> \E i \in D : x = timed[i]
      BY <2>3 DEF Tasks
    <3> QED
      BY <2>1, <2>2, <3>1, <3>2
  <2>5. Ids(s) = Ids(timed)
    BY <2>4, IdsOfTasks
  <2> QED
    BY <2>4, <2>5
<1>11. ASSUME Distinct(timed), NEW k \in D, NEW l \in D, s[k].id = s[l].id
       PROVE  k = l
  <2>1. /\ f[k] \in DOMAIN timed /\ f[l] \in DOMAIN timed
        /\ s[k] = timed[f[k]] /\ s[l] = timed[f[l]]
    BY <1>9, <1>11 DEF D
  <2>2. f[k] = f[l]
    BY <2>1, <1>11 DEF Distinct
  <2>3. k \in Int /\ l \in Int
    BY <1>3, <1>11
  <2>4. ~ (k < l) /\ ~ (l < k)
    BY <1>9, <1>11, <2>2
  <2> QED
    BY <2>3, <2>4
<1>12. ASSUME NEW k \in D, NEW l \in D, k < l
       PROVE  s[k].when <= s[l].when
  <2>1. f[k] \in D /\ f[l] \in D /\ s[k] = timed[f[k]] /\ s[l] = timed[f[l]]
    BY <1>9, <1>12
  <2>2. <<f[k], f[l]>> \in R
    BY <1>9, <1>12
  <2>3. NoLater(f[k], f[l])
    BY <1>2, <2>1, <2>2
  <2>4. timed[f[k]].when \in Int /\ timed[f[l]].when \in Int
    BY <1>3, <2>1
  <2> QED
    BY <2>1, <2>3, <2>4
<1> QED
  BY <1>8, <1>10, <1>11, <1>12 DEF Distinct, IsSortedByTime, s

(* A list without the tasks of a job has all the others, in their order. *)
THEOREM WithoutFacts ==
    ASSUME NEW T, NEW timed \in Seq(T), NEW job
    PROVE  /\ WithoutJob(timed, job) \in Seq(T)
           /\ Len(WithoutJob(timed, job)) <= Len(timed)
           /\ Tasks(WithoutJob(timed, job)) = {t \in Tasks(timed) : t.job # job}
           /\ Distinct(timed) => Distinct(WithoutJob(timed, job))
           /\ IsSortedByTime(timed) => IsSortedByTime(WithoutJob(timed, job))
<1> DEFINE I == {i \in DOMAIN timed : timed[i].job # job}
           R == {p \in I \X I : p[1] <= p[2]}
           s == WithoutJob(timed, job)
           n == Cardinality(I)
<1>1. DOMAIN timed = 1..Len(timed) /\ Len(timed) \in Nat
  BY LenProperties
<1>2. \A i, j \in I : i \in Int /\ (<<i, j>> \in R <=> i <= j)
  BY <1>1
<1>3. s = Arranged(timed, I, R)
  BY DEF WithoutJob
<1> HIDE DEF R
<1>4. IsTotalOrder(R, I)
  BY <1>2 DEF IsTotalOrder
<1>5. I \in SUBSET DOMAIN timed
  OBVIOUS
<1>6. \A i \in DOMAIN timed : i \in I <=> timed[i].job # job
  OBVIOUS
<1> HIDE DEF I
<1>7. /\ n \in Nat /\ n <= Len(timed) /\ s \in Seq(T) /\ Len(s) = n
      /\ \E f : /\ IsArrangement(f, n, I, R)
               /\ \A k \in 1..n : s[k] = timed[f[k]]
  BY <1>3, <1>4, <1>5, ArrangedFacts
<1>8. PICK f : /\ IsArrangement(f, n, I, R)
               /\ \A k \in 1..n : s[k] = timed[f[k]]
  BY <1>7
<1>9. DOMAIN s = 1..n
  BY <1>7, LenProperties
<1>10. /\ \A k \in 1..n : f[k] \in I /\ s[k] = timed[f[k]]
       /\ \A i \in I : \E k \in 1..n : f[k] = i
       /\ \A k, l \in 1..n : k < l => f[k] < f[l]
  <2>1. /\ \A k \in 1..n : f[k] \in I /\ s[k] = timed[f[k]]
        /\ \A i \in I : \E k \in 1..n : f[k] = i
        /\ \A k, l \in 1..n : k < l => <<f[k], f[l]>> \in R /\ f[k] # f[l]
    BY <1>8 DEF IsArrangement
  <2>2. ASSUME NEW k \in 1..n, NEW l \in 1..n, k < l
        PROVE  f[k] < f[l]
    <3>1. f[k] \in I /\ f[l] \in I /\ <<f[k], f[l]>> \in R /\ f[k] # f[l]
      BY <2>1, <2>2
    <3>2. PICK a, b : a = f[k] /\ b = f[l]
      OBVIOUS
    <3>3. a \in I /\ b \in I /\ a <= b /\ a # b /\ a \in Int /\ b \in Int
      BY <1>2, <3>1, <3>2
    <3> QED
      BY <3>2, <3>3
  <2> QED
    BY <2>1, <2>2
<1> HIDE DEF s, n
<1>11. Tasks(s) = {t \in Tasks(timed) : t.job # job}
  <2>1. \A k \in DOMAIN s : \E i \in DOMAIN timed : timed[i].job # job /\ s[k] = timed[i]
    BY <1>5, <1>6, <1>9, <1>10
  <2>2. \A i \in DOMAIN timed : timed[i].job # job => \E k \in DOMAIN s : s[k] = timed[i]
    BY <1>6, <1>9, <1>10
  <2> QED
    BY <2>1, <2>2 DEF Tasks
<1>12. ASSUME Distinct(timed), NEW k \in DOMAIN s, NEW l \in DOMAIN s, s[k].id = s[l].id
       PROVE  k = l
  <2>1. f[k] \in DOMAIN timed /\ f[l] \in DOMAIN timed /\ s[k] = timed[f[k]] /\ s[l] = timed[f[l]]
    BY <1>5, <1>9, <1>10
  <2>2. f[k] = f[l]
    BY <2>1, <1>12 DEF Distinct
  <2>3. k \in Int /\ l \in Int /\ f[k] \in Int
    BY <1>7, <1>9, <2>1, <1>1
  <2> QED
    BY <1>9, <1>10, <2>2, <2>3
<1>13. ASSUME IsSortedByTime(timed), NEW k \in DOMAIN s, NEW l \in DOMAIN s, k < l
       PROVE  s[k].when <= s[l].when
  BY <1>5, <1>9, <1>10, <1>13 DEF IsSortedByTime
<1> QED
  BY <1>7, <1>11, <1>12, <1>13 DEF Distinct, IsSortedByTime, s

-----------------------------------------------------------------------------
(* queue() inserts behind the tasks due earlier and before the next one. *)
LEMMA IndexFacts ==
    ASSUME NEW T, \A t \in T : t.when \in Int, NEW timed \in Seq(T), NEW task \in T
    PROVE  /\ InsertIndex(timed, task) \in 1..Len(timed) + 1
           /\ \A i \in 1..InsertIndex(timed, task) - 1 : timed[i].when < task.when
           /\ InsertIndex(timed, task) <= Len(timed) =>
                 timed[InsertIndex(timed, task)].when >= task.when
<1> DEFINE I == {i \in 1..Len(timed) : timed[i].when >= task.when}
<1>1. Len(timed) \in Nat /\ \A i \in 1..Len(timed) : timed[i] \in T
  BY LenProperties
<1>2. InsertIndex(timed, task) = IF I # {} THEN Min(I) ELSE Len(timed) + 1
  <2>1. InsertIndex(timed, task) =
          LET i == IF I # {} THEN Min(I) ELSE 0
          IN  IF i = 0 THEN Len(timed) + 1 ELSE i
    BY DEF InsertIndex, SelectInSeq
  <2>2. I # {} => Min(I) \in I
    <3>1. I \in SUBSET Nat
      BY <1>1
    <3> HIDE DEF I
    <3> QED
      BY <3>1, LeastNatural
  <2>3. I # {} => Min(I) # 0
    BY <2>2, <1>1
  <2> HIDE DEF I
  <2> QED
    BY <2>1, <2>3
<1>3. CASE I = {}
  <2>1. InsertIndex(timed, task) = Len(timed) + 1
    BY <1>2, <1>3
  <2>2. ASSUME NEW i \in 1..Len(timed)
        PROVE  timed[i].when < task.when
    BY <1>1, <1>3
  <2> QED
    BY <1>1, <2>1, <2>2
<1>4. CASE I # {}
  <2>1. I \in SUBSET Nat
    BY <1>1
  <2>2. Min(I) \in I /\ \A x \in I : Min(I) <= x
    <3> HIDE DEF I
    <3> QED
      BY <1>4, <2>1, LeastNatural
  <2>3. InsertIndex(timed, task) = Min(I)
    BY <1>2, <1>4
  <2>4. PICK m \in I : m = Min(I) /\ \A x \in I : m <= x
    BY <2>2
  <2>5. m \in 1..Len(timed) /\ timed[m].when >= task.when
    BY <2>4
  <2>6. ASSUME NEW i \in 1..m - 1
        PROVE  timed[i].when < task.when
    <3>1. i \in 1..Len(timed) /\ i < m
      BY <1>1, <2>5
    <3>2. i \notin I
      BY <2>4, <3>1
    <3> QED
      BY <1>1, <3>1, <3>2
  <2> QED
    BY <1>1, <2>3, <2>4, <2>5, <2>6
<1> QED
  BY <1>3, <1>4

(* The list with a task inserted: the one task more, in its place. *)
LEMMA InsertFacts ==
    ASSUME NEW T, \A t \in T : t.when \in Int, NEW timed \in Seq(T), NEW task \in T
    PROVE  /\ InsertTimed(timed, task) \in Seq(T)
           /\ Len(InsertTimed(timed, task)) = Len(timed) + 1
           /\ Tasks(InsertTimed(timed, task)) = Tasks(timed) \cup {task}
           /\ Distinct(timed) /\ task.id \notin Ids(timed) =>
                 Distinct(InsertTimed(timed, task))
           /\ IsSortedByTime(timed) => IsSortedByTime(InsertTimed(timed, task))
<1>1. PICK n : n = Len(timed)
  OBVIOUS
<1>2. PICK m : m = InsertIndex(timed, task)
  OBVIOUS
<1>3. n \in Nat /\ DOMAIN timed = 1..n /\ \A i \in 1..n : timed[i] \in T
  BY <1>1, LenProperties
<1>4. /\ m \in 1..n + 1
      /\ \A i \in 1..m - 1 : timed[i].when < task.when
      /\ m <= n => timed[m].when >= task.when
  BY <1>1, <1>2, IndexFacts
<1> DEFINE before == SubSeq(timed, 1, m - 1)
           after == SubSeq(timed, m, n)
           s == InsertTimed(timed, task)
<1>5. /\ before \in Seq(T) /\ Len(before) = m - 1
      /\ \A i \in 1..m - 1 : before[i] = timed[i]
  <2>1. PICK k \in Nat : k = m - 1
    BY <1>3, <1>4
  <2>2. \A i \in 1..k : timed[i] \in T
    BY <1>3, <1>4, <2>1
  <2>3. /\ SubSeq(timed, 1, k) \in Seq(T)
        /\ Len(SubSeq(timed, 1, k)) = IF 1 <= k THEN k - 1 + 1 ELSE 0
        /\ \A i \in 1..k - 1 + 1 : SubSeq(timed, 1, k)[i] = timed[1 + i - 1]
    BY <2>2, SubSeqProperties
  <2>4. before = SubSeq(timed, 1, k)
    BY <2>1
  <2> HIDE DEF before
  <2>5. \A i \in 1..k : before[i] = timed[i]
    <3> SUFFICES ASSUME NEW i \in 1..k
                 PROVE  before[i] = timed[i]
      OBVIOUS
    <3>1. i \in 1..k - 1 + 1 /\ 1 + i - 1 = i
      BY <2>1
    <3> QED
      BY <2>3, <2>4, <3>1
  <2> QED
    BY <2>1, <2>3, <2>4, <2>5
<1>6. /\ after \in Seq(T) /\ Len(after) = n - m + 1
      /\ \A i \in 1..n - m + 1 : after[i] = timed[m + i - 1]
  <2>1. \A i \in m..n : timed[i] \in T
    BY <1>3, <1>4
  <2>2. m \in Int /\ n \in Int
    BY <1>3, <1>4
  <2>3. /\ after \in Seq(T) /\ Len(after) = IF m <= n THEN n - m + 1 ELSE 0
        /\ \A i \in 1..n - m + 1 : after[i] = timed[m + i - 1]
    BY <2>1, <2>2, SubSeqProperties
  <2> HIDE DEF after
  <2> QED
    BY <1>3, <1>4, <2>3
<1>7. s = (before \o <<task>>) \o after
  BY <1>1, <1>2 DEF InsertTimed, InsertAt
<1> HIDE DEF before, after, s
<1>8. /\ s \in Seq(T) /\ Len(s) = n + 1 /\ DOMAIN s = 1..n + 1
      /\ \A i \in 1..n + 1 : s[i] = IF i < m THEN timed[i]
                                   ELSE IF i = m THEN task ELSE timed[i - 1]
  <2>1. <<task>> \in Seq(T) /\ Len(<<task>>) = 1 /\ <<task>>[1] = task
    OBVIOUS
  <2> DEFINE b == before \o <<task>>
  <2>2. /\ b \in Seq(T) /\ Len(b) = m
        /\ \A i \in 1..m : b[i] = IF i < m THEN timed[i] ELSE task
    <3>1. /\ b \in Seq(T) /\ Len(b) = (m - 1) + 1
          /\ \A i \in 1..(m - 1) + 1 : b[i] = IF i <= m - 1 THEN before[i]
                                             ELSE <<task>>[i - (m - 1)]
      BY <1>5, <2>1, ConcatProperties
    <3> HIDE DEF b
    <3> QED
      BY <1>3, <1>4, <1>5, <2>1, <3>1
  <2> HIDE DEF b
  <2>3. /\ s \in Seq(T) /\ Len(s) = m + (n - m + 1)
        /\ \A i \in 1..m + (n - m + 1) : s[i] = IF i <= m THEN b[i] ELSE after[i - m]
    <3>1. s = b \o after
      BY <1>7 DEF b
    <3>2. /\ s \in Seq(T) /\ Len(s) = Len(b) + Len(after)
          /\ \A i \in 1..Len(b) + Len(after) :
                s[i] = IF i <= Len(b) THEN b[i] ELSE after[i - Len(b)]
      BY <1>6, <2>2, <3>1, ConcatProperties
    <3> QED
      BY <1>6, <2>2, <3>2
  <2>4. Len(s) = n + 1
    BY <1>3, <1>4, <2>3
  <2>5. ASSUME NEW i \in 1..n + 1
        PROVE  s[i] = IF i < m THEN timed[i] ELSE IF i = m THEN task ELSE timed[i - 1]
    <3>1. i \in Nat /\ m \in Nat /\ s[i] = IF i <= m THEN b[i] ELSE after[i - m]
      BY <1>3, <1>4, <2>3
    <3>2. CASE i <= m
      BY <1>4, <2>2, <3>1, <3>2
    <3>3. CASE i > m
      <4>1. i - m \in 1..n - m + 1 /\ m + (i - m) - 1 = i - 1
        BY <1>3, <1>4, <3>1, <3>3
      <4> QED
        BY <1>6, <3>1, <3>3, <4>1
    <3> QED
      BY <3>1, <3>2, <3>3
  <2> QED
    BY <2>3, <2>4, <2>5, LenProperties
<1>9. Tasks(s) = Tasks(timed) \cup {task}
  <2>1. \A i \in 1..n + 1 : s[i] = task \/ \E j \in 1..n : s[i] = timed[j]
    BY <1>3, <1>4, <1>8
  <2>2. \E i \in 1..n + 1 : s[i] = task
    BY <1>3, <1>4, <1>8
  <2>3. \A j \in 1..n : \E i \in 1..n + 1 : s[i] = timed[j]
    <3> SUFFICES ASSUME NEW j \in 1..n
                 PROVE  \E i \in 1..n + 1 : s[i] = timed[j]
      OBVIOUS
    <3>1. CASE j < m
      BY <1>3, <1>4, <1>8, <3>1
    <3>2. CASE j >= m
      <4>1. j + 1 \in 1..n + 1 /\ ~ (j + 1 < m) /\ j + 1 # m /\ (j + 1) - 1 = j
        BY <1>3, <1>4, <3>2
      <4>2. s[j + 1] = timed[j]
        BY <1>8, <4>1
      <4> QED
        BY <4>1, <4>2
    <3> QED
      BY <1>3, <1>4, <3>1, <3>2
  <2>4. \A x : x \in Tasks(s) <=> \E i \in 1..n + 1 : x = s[i]
    BY <1>8 DEF Tasks
  <2>5. \A x : x \in Tasks(timed) <=> \E i \in 1..n : x = timed[i]
    BY <1>3 DEF Tasks
  <2> QED
    BY <2>1, <2>2, <2>3, <2>4, <2>5
<1>10. ASSUME Distinct(timed), task.id \notin Ids(timed),
              NEW i \in 1..n + 1, NEW j \in 1..n + 1, i < j
       PROVE  s[i].id # s[j].id
  <2>1. \A k \in 1..n : timed[k].id # task.id
    BY <1>3, <1>10 DEF Ids
  <2>2. \A k, l \in 1..n : k # l => timed[k].id # timed[l].id
    BY <1>3, <1>10 DEF Distinct
  <2>3. CASE j < m
    BY <1>3, <1>4, <1>8, <1>10, <2>2, <2>3
  <2>4. CASE j = m
    BY <1>3, <1>4, <1>8, <1>10, <2>1, <2>4
  <2>5. CASE j > m /\ i < m
    BY <1>3, <1>4, <1>8, <1>10, <2>2, <2>5
  <2>6. CASE j > m /\ i = m
    BY <1>3, <1>4, <1>8, <1>10, <2>1, <2>6
  <2>7. CASE j > m /\ i > m
    BY <1>3, <1>4, <1>8, <1>10, <2>2, <2>7
  <2> QED
    BY <1>3, <1>4, <2>3, <2>4, <2>5, <2>6, <2>7
<1>11. ASSUME IsSortedByTime(timed), NEW i \in 1..n + 1, NEW j \in 1..n + 1, i < j
       PROVE  s[i].when <= s[j].when
  <2>1. \A k, l \in 1..n : k <= l => timed[k].when <= timed[l].when
    BY <1>3, <1>11 DEF IsSortedByTime
  <2>2. task.when \in Int /\ \A k \in 1..n : timed[k].when \in Int
    BY <1>3
  <2>3. CASE j < m
    BY <1>3, <1>4, <1>8, <1>11, <2>1, <2>3
  <2>4. CASE j = m
    BY <1>3, <1>4, <1>8, <1>11, <2>2, <2>4
  <2>5. CASE j > m /\ i < m
    BY <1>3, <1>4, <1>8, <1>11, <2>1, <2>5
  <2>6. CASE j > m /\ i >= m
    <3>1. j - 1 \in 1..n /\ s[j] = timed[j - 1] /\ m <= j - 1 /\ m \in 1..n /\ m <= n
      BY <1>3, <1>4, <1>8, <2>6
    <3>2. timed[m].when <= timed[j - 1].when
      BY <2>1, <3>1
    <3>3. CASE i = m
      <4>1. s[i] = task /\ timed[m].when >= task.when
        BY <1>3, <1>4, <1>8, <3>1, <3>3
      <4> QED
        BY <2>2, <3>1, <3>2, <4>1
    <3>4. CASE i > m
      <4>1. i - 1 \in 1..n /\ s[i] = timed[i - 1] /\ i - 1 <= j - 1
        BY <1>3, <1>4, <1>8, <1>11, <3>4
      <4> QED
        BY <2>1, <3>1, <4>1
    <3> QED
      BY <1>3, <1>4, <2>6, <3>3, <3>4
  <2> QED
    BY <1>3, <1>4, <2>3, <2>4, <2>5, <2>6
<1>12. Distinct(timed) /\ task.id \notin Ids(timed) => Distinct(s)
  <2> SUFFICES ASSUME Distinct(timed), task.id \notin Ids(timed),
                      NEW i \in 1..n + 1, NEW j \in 1..n + 1, s[i].id = s[j].id
               PROVE  i = j
    BY <1>8 DEF Distinct
  <2>1. ~ (i < j) /\ ~ (j < i)
    BY <1>10
  <2> QED
    BY <1>3, <2>1
<1>13. IsSortedByTime(timed) => IsSortedByTime(s)
  BY <1>8, <1>11 DEF IsSortedByTime
<1> QED
  BY <1>1, <1>8, <1>9, <1>12, <1>13 DEF s

-----------------------------------------------------------------------------
(* A list without tasks. *)
LEMMA EmptyFacts ==
    /\ Tasks(<<>>) = {} /\ Ids(<<>>) = {} /\ Distinct(<<>>) /\ IsSortedByTime(<<>>)
    /\ \A T : <<>> \in Seq(T)
    /\ Len(<<>>) = 0
BY DEF Tasks, Ids, Distinct, IsSortedByTime

(* A list is empty if it has no task. *)
LEMMA NoTasks ==
    ASSUME NEW T, NEW tasks \in Seq(T)
    PROVE  Tasks(tasks) = {} <=> tasks = <<>>
<1>1. DOMAIN tasks = 1..Len(tasks) /\ Len(tasks) \in Nat
  BY LenProperties
<1>2. tasks # <<>> => Len(tasks) # 0
  BY EmptySeq
<1>3. tasks # <<>> => 1 \in DOMAIN tasks
  BY <1>1, <1>2
<1> QED
  BY <1>3, EmptyFacts DEF Tasks

(* The queue after a push. *)
LEMMA AppendFacts ==
    ASSUME NEW T, NEW tasks \in Seq(T), NEW task \in T
    PROVE  /\ Append(tasks, task) \in Seq(T)
           /\ Len(Append(tasks, task)) = Len(tasks) + 1
           /\ Tasks(Append(tasks, task)) = Tasks(tasks) \cup {task}
           /\ Distinct(tasks) /\ task.id \notin Ids(tasks) =>
                 Distinct(Append(tasks, task))
<1>1. PICK n : n = Len(tasks)
  OBVIOUS
<1>2. PICK s : s = Append(tasks, task)
  OBVIOUS
<1>3. /\ n \in Nat /\ DOMAIN tasks = 1..n
      /\ s \in Seq(T) /\ Len(s) = n + 1 /\ DOMAIN s = 1..n + 1
      /\ \A i \in 1..n : s[i] = tasks[i]
      /\ s[n + 1] = task
  BY <1>1, <1>2, LenProperties, AppendProperties
<1>4. Tasks(s) = Tasks(tasks) \cup {task}
  <2>1. \A x : x \in Tasks(s) <=> \E i \in 1..n + 1 : x = s[i]
    BY <1>3 DEF Tasks
  <2>2. \A x : x \in Tasks(tasks) <=> \E i \in 1..n : x = tasks[i]
    BY <1>3 DEF Tasks
  <2>3. \A i : i \in 1..n + 1 <=> i \in 1..n \/ i = n + 1
    BY <1>3
  <2> QED
    BY <1>3, <2>1, <2>2, <2>3
<1>5. ASSUME Distinct(tasks), task.id \notin Ids(tasks)
      PROVE  Distinct(s)
  <2>1. \A i \in 1..n : tasks[i].id # task.id
    BY <1>3, <1>5 DEF Ids
  <2>2. \A i, j \in 1..n : tasks[i].id = tasks[j].id => i = j
    BY <1>3, <1>5 DEF Distinct
  <2>3. \A i : i \in 1..n + 1 <=> i \in 1..n \/ i = n + 1
    BY <1>3
  <2>4. \A i, j \in 1..n + 1 : s[i].id = s[j].id => i = j
    BY <1>3, <2>1, <2>2, <2>3
  <2> QED
    BY <1>3, <2>4 DEF Distinct
<1> QED
  BY <1>1, <1>2, <1>3, <1>4, <1>5

(* A list after a pop. *)
LEMMA TailFacts ==
    ASSUME NEW T, NEW tasks \in Seq(T), tasks # <<>>
    PROVE  /\ Head(tasks) \in T /\ Tail(tasks) \in Seq(T)
           /\ Len(Tail(tasks)) = Len(tasks) - 1 /\ Len(tasks) \in Nat \ {0}
           /\ Head(tasks) = tasks[1]
           /\ Tasks(tasks) = Tasks(Tail(tasks)) \cup {Head(tasks)}
           /\ Distinct(tasks) =>
                 Distinct(Tail(tasks)) /\ Head(tasks).id \notin Ids(Tail(tasks))
           /\ IsSortedByTime(tasks) =>
                 /\ IsSortedByTime(Tail(tasks))
                 /\ \A t \in Tasks(Tail(tasks)) : Head(tasks).when <= t.when
<1>1. PICK n : n = Len(tasks)
  OBVIOUS
<1>2. PICK s : s = Tail(tasks)
  OBVIOUS
<1>3. /\ n \in Nat \ {0} /\ DOMAIN tasks = 1..n
      /\ s \in Seq(T) /\ Len(s) = n - 1 /\ DOMAIN s = 1..n - 1
      /\ \A i \in 1..n - 1 : s[i] = tasks[i + 1]
      /\ Head(tasks) = tasks[1] /\ Head(tasks) \in T
  <2>1. n \in Nat /\ n # 0
    BY <1>1, LenProperties, EmptySeq
  <2>2. s \in Seq(T) /\ Len(s) = n - 1 /\ \A i \in 1..Len(s) : s[i] = tasks[i + 1]
    BY <1>1, <1>2, HeadTailProperties
  <2> QED
    BY <1>1, <2>1, <2>2, LenProperties, HeadTailProperties
<1>4. /\ \A i \in 1..n - 1 : i + 1 \in 1..n
      /\ \A i \in 1..n : i = 1 \/ (i - 1 \in 1..n - 1 /\ (i - 1) + 1 = i)
      /\ 1 \in 1..n
  BY <1>3
<1>5. Tasks(tasks) = Tasks(s) \cup {tasks[1]}
  <2>1. \A x : x \in Tasks(s) <=> \E i \in 1..n - 1 : x = s[i]
    BY <1>3 DEF Tasks
  <2>2. \A x : x \in Tasks(tasks) <=> \E i \in 1..n : x = tasks[i]
    BY <1>3 DEF Tasks
  <2> QED
    BY <1>3, <1>4, <2>1, <2>2, SMTT(30)
<1>6. ASSUME Distinct(tasks)
      PROVE  Distinct(s) /\ tasks[1].id \notin Ids(s)
  <2>1. \A i, j \in 1..n : tasks[i].id = tasks[j].id => i = j
    BY <1>3, <1>6 DEF Distinct
  <2>2. ASSUME NEW i \in 1..n - 1, NEW j \in 1..n - 1, s[i].id = s[j].id
        PROVE  i = j
    <3>1. i + 1 = j + 1
      BY <1>3, <1>4, <2>1, <2>2
    <3> QED
      BY <1>3, <3>1
  <2>3. ASSUME NEW i \in 1..n - 1, s[i].id = tasks[1].id
        PROVE  FALSE
    <3>1. i + 1 = 1
      BY <1>3, <1>4, <2>1, <2>3
    <3> QED
      BY <1>3, <3>1
  <2> QED
    BY <1>3, <2>2, <2>3 DEF Distinct, Ids
<1>7. ASSUME IsSortedByTime(tasks)
      PROVE  /\ IsSortedByTime(s)
             /\ \A t \in Tasks(s) : tasks[1].when <= t.when
  <2>1. \A i, j \in 1..n : i < j => tasks[i].when <= tasks[j].when
    BY <1>3, <1>7 DEF IsSortedByTime
  <2>2. ASSUME NEW i \in 1..n - 1, NEW j \in 1..n - 1, i < j
        PROVE  s[i].when <= s[j].when
    <3>1. i + 1 < j + 1
      BY <1>3, <2>2
    <3> QED
      BY <1>3, <1>4, <2>1, <3>1
  <2>3. ASSUME NEW i \in 1..n - 1
        PROVE  tasks[1].when <= s[i].when
    <3>1. 1 < i + 1
      BY <1>3
    <3> QED
      BY <1>3, <1>4, <2>1, <3>1
  <2> QED
    BY <1>3, <2>2, <2>3 DEF IsSortedByTime, Tasks
<1> QED
  BY <1>1, <1>2, <1>3, <1>5, <1>6, <1>7

(* Two lists one after the other. *)
LEMMA ConcatFacts ==
    ASSUME NEW T, NEW front \in Seq(T), NEW tasks \in Seq(T)
    PROVE  /\ front \o tasks \in Seq(T)
           /\ Len(front \o tasks) = Len(front) + Len(tasks)
           /\ Tasks(front \o tasks) = Tasks(front) \cup Tasks(tasks)
           /\ Distinct(front) /\ Distinct(tasks) /\ Ids(front) \cap Ids(tasks) = {} =>
                 Distinct(front \o tasks)
<1>1. PICK m, n : m = Len(front) /\ n = Len(tasks)
  OBVIOUS
<1>2. PICK s : s = front \o tasks
  OBVIOUS
<1>3. /\ m \in Nat /\ n \in Nat /\ DOMAIN front = 1..m /\ DOMAIN tasks = 1..n
      /\ s \in Seq(T) /\ Len(s) = m + n /\ DOMAIN s = 1..m + n
      /\ \A i \in 1..m + n : s[i] = IF i <= m THEN front[i] ELSE tasks[i - m]
  BY <1>1, <1>2, LenProperties, ConcatProperties
<1>4. /\ \A i \in 1..m + n : (i \in 1..m /\ s[i] = front[i]) \/ (i - m \in 1..n /\ s[i] = tasks[i - m])
      /\ \A i \in 1..m : i \in 1..m + n /\ s[i] = front[i]
      /\ \A i \in 1..n : i + m \in 1..m + n /\ s[i + m] = tasks[i]
  <2>1. \A i \in 1..m + n : (i \in 1..m /\ i <= m) \/ (i - m \in 1..n /\ ~ (i <= m))
    BY <1>3
  <2>2. \A i \in 1..m : i \in 1..m + n /\ i <= m
    BY <1>3
  <2>3. \A i \in 1..n : i + m \in 1..m + n /\ ~ (i + m <= m) /\ (i + m) - m = i
    BY <1>3
  <2>4. /\ \A i \in 1..m + n : i <= m => s[i] = front[i]
        /\ \A i \in 1..m + n : ~ (i <= m) => s[i] = tasks[i - m]
    BY <1>3
  <2>5. ASSUME NEW i \in 1..n
        PROVE  i + m \in 1..m + n /\ s[i + m] = tasks[i]
    <3>1. PICK j \in 1..m + n : j = i + m /\ ~ (j <= m) /\ j - m = i
      BY <2>3
    <3>2. s[j] = tasks[j - m]
      BY <2>4, <3>1
    <3> QED
      BY <3>1, <3>2
  <2>6. ASSUME NEW i \in 1..m + n
        PROVE  \/ i \in 1..m /\ s[i] = front[i]
               \/ i - m \in 1..n /\ s[i] = tasks[i - m]
    BY <2>1, <2>4
  <2>7. ASSUME NEW i \in 1..m
        PROVE  i \in 1..m + n /\ s[i] = front[i]
    BY <2>2, <2>4
  <2> QED
    BY <2>5, <2>6, <2>7
<1>5. Tasks(s) = Tasks(front) \cup Tasks(tasks)
  <2>1. \A x : x \in Tasks(s) <=> \E i \in 1..m + n : x = s[i]
    BY <1>3 DEF Tasks
  <2>2. \A x : x \in Tasks(front) <=> \E i \in 1..m : x = front[i]
    BY <1>3 DEF Tasks
  <2>3. \A x : x \in Tasks(tasks) <=> \E i \in 1..n : x = tasks[i]
    BY <1>3 DEF Tasks
  <2> QED
    BY <1>4, <2>1, <2>2, <2>3
<1>6. ASSUME Distinct(front), Distinct(tasks), Ids(front) \cap Ids(tasks) = {},
             NEW i \in 1..m + n, NEW j \in 1..m + n, s[i].id = s[j].id
      PROVE  i = j
  <2>1. \A k \in 1..m, l \in 1..n : front[k].id # tasks[l].id
    BY <1>3, <1>6 DEF Ids
  <2>2. \A k, l \in 1..m : front[k].id = front[l].id => k = l
    BY <1>3, <1>6 DEF Distinct
  <2>3. \A k, l \in 1..n : tasks[k].id = tasks[l].id => k = l
    BY <1>3, <1>6 DEF Distinct
  <2>4. /\ \/ i \in 1..m /\ s[i] = front[i]
           \/ i - m \in 1..n /\ s[i] = tasks[i - m]
        /\ \/ j \in 1..m /\ s[j] = front[j]
           \/ j - m \in 1..n /\ s[j] = tasks[j - m]
    BY <1>4, <1>6
  <2>5. i = j \/ i - m = j - m
    BY <1>6, <2>1, <2>2, <2>3, <2>4
  <2> QED
    BY <1>3, <2>5
<1> QED
  BY <1>1, <1>2, <1>3, <1>5, <1>6 DEF Distinct

(* A list turned round. *)
LEMMA ReverseFacts ==
    ASSUME NEW T, NEW tasks \in Seq(T)
    PROVE  /\ Reverse(tasks) \in Seq(T)
           /\ Len(Reverse(tasks)) = Len(tasks)
           /\ Tasks(Reverse(tasks)) = Tasks(tasks)
           /\ Distinct(tasks) => Distinct(Reverse(tasks))
<1>1. PICK n : n = Len(tasks)
  OBVIOUS
<1>2. PICK s : s = Reverse(tasks)
  OBVIOUS
<1>3. n \in Nat /\ DOMAIN tasks = 1..n /\ \A i \in 1..n : tasks[i] \in T
  BY <1>1, LenProperties
<1>4. \A i \in 1..n : (n - i) + 1 \in 1..n /\ (n - ((n - i) + 1)) + 1 = i
  BY <1>3
<1>5. s = [i \in 1..n |-> tasks[(n - i) + 1]]
  BY <1>1, <1>2 DEF Reverse
<1>6. s \in Seq(T) /\ Len(s) = n /\ DOMAIN s = 1..n
  <2>1. s \in [1..n -> T]
    BY <1>3, <1>4, <1>5
  <2> QED
    BY <1>3, <2>1
<1>7. \A i \in 1..n : s[i] = tasks[(n - i) + 1] /\ s[(n - i) + 1] = tasks[i]
  BY <1>4, <1>5
<1>8. Tasks(s) = Tasks(tasks)
  <2>1. \A x : x \in Tasks(s) <=> \E i \in 1..n : x = s[i]
    BY <1>6 DEF Tasks
  <2>2. \A x : x \in Tasks(tasks) <=> \E i \in 1..n : x = tasks[i]
    BY <1>3 DEF Tasks
  <2> QED
    BY <1>4, <1>7, <2>1, <2>2, ZenonT(30)
<1>9. ASSUME Distinct(tasks), NEW i \in 1..n, NEW j \in 1..n, s[i].id = s[j].id
      PROVE  i = j
  <2>1. (n - i) + 1 = (n - j) + 1
    BY <1>3, <1>4, <1>7, <1>9 DEF Distinct
  <2> QED
    BY <1>3, <2>1
<1> QED
  BY <1>1, <1>2, <1>6, <1>8, <1>9 DEF Distinct

(* A list without duplicates has as many ids as tasks. *)
LEMMA CountIds ==
    ASSUME NEW T, NEW tasks \in Seq(T), Distinct(tasks)
    PROVE  IsFiniteSet(Ids(tasks)) /\ Cardinality(Ids(tasks)) = Len(tasks)
<1>1. PICK n : n = Len(tasks)
  OBVIOUS
<1>2. n \in Nat /\ DOMAIN tasks = 1..n
  BY <1>1, LenProperties
<1> DEFINE f == [i \in 1..n |-> tasks[i].id]
<1>3. f \in Bijection(1..n, Ids(tasks))
  <2>1. f \in [1..n -> Ids(tasks)]
    BY <1>2 DEF Ids
  <2>2. \A i, j \in 1..n : f[i] = f[j] => i = j
    BY <1>2 DEF Distinct
  <2>3. \A x \in Ids(tasks) : \E i \in 1..n : f[i] = x
    BY <1>2 DEF Ids
  <2> QED
    BY <2>1, <2>2, <2>3 DEF Bijection, Injection, Surjection, IsInjective
<1>4. ExistsBijection(1..n, Ids(tasks))
  BY <1>3 DEF ExistsBijection
<1> QED
  BY <1>1, <1>2, <1>4, FS_CountingElements, FS_NatBijection

(* Two sets of ids that share none are counted by their sum. *)
LEMMA CountBoth ==
    ASSUME NEW A, NEW B, IsFiniteSet(A), IsFiniteSet(B), A \cap B = {}
    PROVE  /\ IsFiniteSet(A \cup B)
           /\ Cardinality(A \cup B) = Cardinality(A) + Cardinality(B)
           /\ Cardinality(A) \in Nat /\ Cardinality(B) \in Nat
<1>1. Cardinality(A) \in Nat /\ Cardinality(B) \in Nat
  BY FS_CardinalityType
<1>2. Cardinality(A \cap B) = 0
  BY FS_EmptySet
<1>3. /\ IsFiniteSet(A \cup B)
      /\ Cardinality(A \cup B) = Cardinality(A) + Cardinality(B) - Cardinality(A \cap B)
  BY FS_Union
<1> QED
  BY <1>1, <1>2, <1>3
=============================================================================
