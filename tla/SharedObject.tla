---------------------------- MODULE SharedObject ----------------------------
(***************************************************************************)
(* Reference counts (SharedObject) and the sp that keeps them (Types.h).   *)
(*                                                                         *)
(* An sp is a slot.  A slot belongs to one thread at a time; it changes    *)
(* hands when a task is queued and popped.  Every object has one sp of its *)
(* own as well (a task's job, a job's looper), which its destructor        *)
(* clears.  The count is atomic and shared by all threads; one step below  *)
(* is one access to a count, and what only one thread can reach is written *)
(* in the neighbouring step.  A thread's stack holds the calls it is in,   *)
(* innermost first.                                                        *)
(***************************************************************************)
EXTENDS Naturals, Sequences, FiniteSets

CONSTANTS Threads, Slots, Objects, NULL

ASSUME SharedObjectAssumption ==
    /\ IsFiniteSet(Slots) /\ IsFiniteSet(Objects)
    /\ Slots \cap Objects = {}
    /\ NULL \notin Slots \cup Objects

VARIABLES
    owner,      \* the thread that may use the slot
    mShared,    \* what an sp points to: slots, and the sp inside each object
    mRefs,      \* the count of each object
    live,       \* objects constructed and not yet deleted
    stack       \* the calls each thread is in

vars == <<owner, mShared, mRefs, live, stack>>

Pointers == Slots \cup Objects

\* What the right-hand side of an assignment refers to: another sp, the sp
\* inside an object, or the object itself by a raw pointer.  "kept" says that
\* the thread holds the object concerned by another slot than the target.
Sources == [kind : {"sp", "raw"}, at : Pointers, kept : BOOLEAN]

Frames ==
    [op : {"release", "dec"}, at : Pointers]
        \cup [op : {"delete", "free"}, at : Objects]
        \cup [op : {"set"}, at : Slots, src : Sources]

Init ==
    /\ owner \in [Slots -> Threads]
    /\ mShared = [p \in Pointers |-> NULL]
    /\ mRefs = [o \in Objects |-> 0]
    /\ live = {}
    /\ stack = [t \in Threads |-> <<>>]

Top(t) == Head(stack[t])
Idle(t) == stack[t] = <<>>
Replace(t, frames) == stack' = [stack EXCEPT ![t] = frames \o Tail(@)]

\* clear(): release what the sp points to, if anything.
ClearCalls(p) ==
    IF mShared[p] = NULL THEN <<>> ELSE <<[op |-> "release", at |-> p]>>

(* Mutant: set() does not retain. *)
RetainNothing(x) == mRefs
\* The counts after set() has made p point to x.
RetainObject(x) == IF x = NULL THEN mRefs ELSE [mRefs EXCEPT ![x] = @ + 1]

-----------------------------------------------------------------------------

\* sp<T> v = new T: the constructor leaves the count at 0, set retains.
NewObject(t, v) ==
    /\ Idle(t) /\ owner[v] = t /\ mShared[v] = NULL
    /\ \E o \in Objects \ live :
        /\ live' = live \cup {o}
        /\ mShared' = [mShared EXCEPT ![v] = o, ![o] = NULL]
        /\ mRefs' = [mRefs EXCEPT ![o] = 1]
    /\ UNCHANGED <<owner, stack>>

\* sp<T> v(w)
CopyConstruct(t, v, w) ==
    /\ Idle(t) /\ owner[v] = t /\ owner[w] = t
    /\ mShared[v] = NULL /\ mShared[w] # NULL
    /\ mShared' = [mShared EXCEPT ![v] = mShared[w]]
    /\ mRefs' = RetainObject(mShared[w])
    /\ UNCHANGED <<owner, live, stack>>

\* The sp inside v's object is set while no other thread can see it.
Attach(t, v, w) ==
    LET o == mShared[v] IN
    /\ Idle(t) /\ owner[v] = t /\ owner[w] = t
    /\ o # NULL /\ mShared[w] \notin {NULL, o}
    /\ mRefs[o] = 1 /\ mShared[o] = NULL /\ mShared[mShared[w]] = NULL
    /\ mShared' = [mShared EXCEPT ![o] = mShared[w]]
    /\ mRefs' = RetainObject(mShared[w])
    /\ UNCHANGED <<owner, live, stack>>

\* v = ..., any of the four operators: clear(), then set().
Assign(t, v, kind, at) ==
    LET kept == at \in Slots \/ \E w \in Slots \ {v} : owner[w] = t /\ mShared[w] = at
        src == [kind |-> kind, at |-> at, kept |-> kept] IN
    /\ Idle(t) /\ owner[v] = t
    /\ stack' = [stack EXCEPT
            ![t] = Append(ClearCalls(v), [op |-> "set", at |-> v, src |-> src])]
    /\ UNCHANGED <<owner, mShared, mRefs, live>>

\* The right-hand side may be any sp or raw pointer the thread can name.
AssignAny(t, v) ==
    \E w \in Slots :
        /\ owner[w] = t
        /\ \/ Assign(t, v, "sp", w)
           \/ mShared[w] # NULL /\ Assign(t, v, "sp", mShared[w])
           \/ mShared[w] # NULL /\ Assign(t, v, "raw", mShared[w])

\* ~sp() and clear()
Drop(t, v) ==
    /\ Idle(t) /\ owner[v] = t /\ mShared[v] # NULL
    /\ stack' = [stack EXCEPT ![t] = ClearCalls(v)]
    /\ UNCHANGED <<owner, mShared, mRefs, live>>

\* A task with its sp is queued by one thread and popped by another.
HandOver(t, v, u) ==
    /\ Idle(t) /\ owner[v] = t /\ u # t /\ mShared[v] # NULL
    /\ owner' = [owner EXCEPT ![v] = u]
    /\ UNCHANGED <<mShared, mRefs, live, stack>>

-----------------------------------------------------------------------------

\* What the next step of the innermost call dereferences.
Touched(t) ==
    LET f == Top(t) IN
    CASE f.op \in {"release", "dec"} -> {mShared[f.at]}
      [] f.op \in {"delete", "free"} -> {f.at}
      [] f.op = "set" ->
            IF f.src.at \in Slots THEN {mShared[f.src.at]} \ {NULL}
            ELSE {f.src.at} \cup
                 (IF f.src.kind = "sp" THEN {mShared[f.src.at]} \ {NULL} ELSE {})

\* An object that is freed, or whose destructor has begun, is not retained.
Usable(op) == IF op = "set" THEN {o \in live : mRefs[o] > 0} ELSE live

\* What an access to another object would do is undefined: the run ends.
Steps(t, op) == ~Idle(t) /\ Top(t).op = op /\ Touched(t) \subseteq Usable(op)

\* ReleaseObject, first half: a count of zero is an error and nothing is done.
ReleaseLoad(t) ==
    /\ Steps(t, "release")
    /\ IF mRefs[mShared[Top(t).at]] = 0
       THEN /\ Replace(t, <<>>)
            /\ mShared' = [mShared EXCEPT ![Top(t).at] = NULL]
       ELSE /\ Replace(t, <<[op |-> "dec", at |-> Top(t).at]>>)
            /\ UNCHANGED mShared
    /\ UNCHANGED <<owner, mRefs, live>>

(* Mutant: clear() leaves the pointer in the sp. *)
ReleaseKeepsPointer(t) ==
    LET o == mShared[Top(t).at] IN
    /\ Steps(t, "dec")
    /\ mRefs' = [mRefs EXCEPT ![o] = @ - 1]
    /\ Replace(t, IF mRefs[o] = 1 THEN <<[op |-> "delete", at |-> o]>> ELSE <<>>)
    /\ UNCHANGED <<owner, mShared, live>>

\* ReleaseObject, second half: the last reference deletes.
ReleaseDec(t) ==
    LET o == mShared[Top(t).at] IN
    /\ Steps(t, "dec")
    /\ mRefs' = [mRefs EXCEPT ![o] = @ - 1]
    /\ mShared' = [mShared EXCEPT ![Top(t).at] = NULL]
    /\ Replace(t, IF mRefs[o] = 1 THEN <<[op |-> "delete", at |-> o]>> ELSE <<>>)
    /\ UNCHANGED <<owner, live>>

\* delete this: the destructor clears the object's own sp ...
Delete(t) ==
    /\ Steps(t, "delete")
    /\ Replace(t, Append(ClearCalls(Top(t).at), [op |-> "free", at |-> Top(t).at]))
    /\ UNCHANGED <<owner, mShared, mRefs, live>>

\* ... and the memory goes back.
Free(t) ==
    /\ Steps(t, "free")
    /\ live' = live \ {Top(t).at}
    /\ Replace(t, <<>>)
    /\ UNCHANGED <<owner, mShared, mRefs>>

\* set(): the right-hand side is read only now, after the clear.
Set(t) ==
    LET f == Top(t)
        x == IF f.src.kind = "raw" THEN f.src.at ELSE mShared[f.src.at] IN
    /\ Steps(t, "set")
    /\ mShared' = [mShared EXCEPT ![f.at] = x]
    /\ mRefs' = RetainObject(x)
    /\ Replace(t, <<>>)
    /\ UNCHANGED <<owner, live>>

-----------------------------------------------------------------------------

\* One step inside a call.
Step(t) ==
    \/ ReleaseLoad(t)
    \/ ReleaseDec(t)
    \/ Delete(t)
    \/ Free(t)
    \/ Set(t)

\* A call begins.
Call(t) ==
    \E v \in Slots :
        \/ NewObject(t, v)
        \/ AssignAny(t, v)
        \/ Drop(t, v)
        \/ \E w \in Slots : CopyConstruct(t, v, w) \/ Attach(t, v, w)
        \/ \E u \in Threads : HandOver(t, v, u)

Next == \E t \in Threads : Call(t) \/ Step(t)

Spec == Init /\ [][Next]_vars

-----------------------------------------------------------------------------

TypeOK ==
    /\ owner \in [Slots -> Threads]
    /\ mShared \in [Pointers -> Objects \cup {NULL}]
    /\ mRefs \in [Objects -> Nat]
    /\ live \in SUBSET Objects
    /\ stack \in [Threads -> Seq(Frames)]

\* The sps that point to o.
Holders(o) == {p \in Pointers : mShared[p] = o}

\* The threads that are deleting o.
Deleters(o) ==
    {t \in Threads : \E i \in DOMAIN stack[t] :
        stack[t][i].op \in {"delete", "free"} /\ stack[t][i].at = o}

\* The count of a live object is the number of sps that point to it, whatever
\* other threads are releasing meanwhile.
CountsMatch == \A o \in live : mRefs[o] = Cardinality(Holders(o))

\* An object whose count is zero is being deleted, by one thread; no other
\* object is.
DeletedOnce ==
    \A o \in Objects :
        Cardinality(Deleters(o)) = IF o \in live /\ mRefs[o] = 0 THEN 1 ELSE 0

\* A freed object is touched only by an assignment from inside the object that
\* its target alone kept alive: operator= clears before it sets.
NoUseAfterFree ==
    \A t \in Threads :
        \/ Idle(t)
        \/ Touched(t) \subseteq Usable(Top(t).op)
        \/ Top(t).op = "set" /\ ~Top(t).src.kept

ObjectsAreCounted == CountsMatch /\ DeletedOnce
=============================================================================
