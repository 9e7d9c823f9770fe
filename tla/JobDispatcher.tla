---------------------------- MODULE JobDispatcher ----------------------------
(***************************************************************************)
(* The task lists of JobDispatcher (ABE/core/Looper.cpp): a queue of tasks *)
(* to run at once and a list of tasks ordered by the time they are due.    *)
(* A task is a record with at least the field when; on a list jobs can be  *)
(* removed from it has id and job too.  Looper and DispatchQueue are built *)
(* on these operators, which are written without recursion so that what    *)
(* they return can be proved.                                              *)
(***************************************************************************)
EXTENDS Integers, Sequences, FiniteSets, SequencesExt

CONSTANT Jitter     \* a task this close to being due is due (1ms in the code)

ASSUME JitterAssumption == Jitter \in Nat

(* The index at which queue() inserts a task: before the first one that is *)
(* not due earlier, so before those due at the same time.                  *)
InsertIndex(timed, task) ==
    LET i == SelectInSeq(timed, LAMBDA t : t.when >= task.when)
    IN  IF i = 0 THEN Len(timed) + 1 ELSE i

InsertTimed(timed, task) == InsertAt(timed, InsertIndex(timed, task), task)

(* Mutant: the size is compared as if it had been read before the push. *)
FirstOfNone(tasks) == tasks = <<>>

(* queue() returns true when the poster has to wake the runner. *)
FirstImmediate(tasks) == Len(tasks) = 1
FirstTimed(tasks, timed, task) == tasks = <<>> /\ InsertIndex(timed, task) = 1

(* pop() takes the first timed task once it is due. *)
IsDue(timed, now) == timed # <<>> /\ Head(timed).when <= now + Jitter

(* Mutant: the time of the next task, not the time to wait for it. *)
NextTime(tasks, timed, now) ==
    CASE timed # <<>> -> Head(timed).when
      [] timed = <<>> /\ tasks # <<>> -> 0
      [] OTHER -> -1

(* next(): -1 without a job, else the time to wait for the next one. *)
NextDelay(tasks, timed, now) ==
    CASE timed # <<>> -> IF IsDue(timed, now) THEN 0 ELSE Head(timed).when - now
      [] timed = <<>> /\ tasks # <<>> -> 0
      [] OTHER -> -1

(* Mutant: merge_l forgets to sort. *)
Unsorted(timed) == timed

(* The k-th index of I in a total order R: the one with k indices up to it. *)
Nth(I, R, k) == CHOOSE i \in I : Cardinality({j \in I : <<j, i>> \in R}) = k

(* The tasks at the indices I, in the order R. *)
Arranged(timed, I, R) == [k \in 1..Cardinality(I) |-> timed[Nth(I, R, k)]]

(* List::sort is stable: an element stays behind those due no later. *)
SortByTime(timed) ==
    LET D == DOMAIN timed
        NoLater(i, j) == \/ timed[i].when < timed[j].when
                         \/ timed[i].when = timed[j].when /\ i <= j
    IN  Arranged(timed, D, {p \in D \X D : NoLater(p[1], p[2])})

(* remove() erases every task of the job, and tells whether the first went. *)
WithoutJob(timed, job) ==
    LET I == {i \in DOMAIN timed : timed[i].job # job}
    IN  Arranged(timed, I, {p \in I \X I : p[1] <= p[2]})
RemovesHead(timed, job) == timed # <<>> /\ Head(timed).job = job

Ids(tasks) == {tasks[i].id : i \in DOMAIN tasks}

HasJob(timed, job) == \E i \in DOMAIN timed : timed[i].job = job

(* The list is in the order of the times. *)
IsSortedByTime(timed) ==
    \A i, j \in DOMAIN timed : i < j => timed[i].when <= timed[j].when
=============================================================================
