------------------------------ MODULE Message ------------------------------
(***************************************************************************)
(* Message (core/Message.cpp): named entries, some of which own a C string *)
(* or hold a reference to an object.  The table of entries is HashTable's  *)
(* subject; here it is a function.  One thread.                            *)
(***************************************************************************)
EXTENDS Naturals, FiniteSets

CONSTANTS
    Messages, Names, Data,
    Texts, Blocks,      \* C strings, and the memory that strdup gives
    Objects,
    MaxRefs,            \* bound on the count of an object
    NULL

VARIABLES
    msg,    \* each message: mEntries, or NULL
    block,  \* the text in each block, NULL if it is free
    mRefs,  \* count of each object, 0 if it does not exist
    held,   \* objects the client holds itself
    value,  \* what each message should answer: a history variable
    leaked  \* references nobody will release: a history variable

vars == <<msg, block, mRefs, held, value, leaked>>

Own == INSTANCE OwnedTables WITH Holders <- Messages, Keys <- Names, NoValue <- NULL

Entry(type, u) == [mType |-> type, u |-> u]
IsObject(e) == e # NULL /\ e.mType = "object"
IsString(e) == e # NULL /\ e.mType = "string"

Init ==
    /\ msg = [m \in Messages |-> NULL]
    /\ block = [b \in Blocks |-> NULL]
    /\ mRefs = [o \in Objects |-> 0]
    /\ held = {}
    /\ Own!Init
    /\ leaked = [o \in Objects |-> 0]

Exists(m) == msg[m] # NULL
NoEntries == [n \in Names |-> NULL]

\* How many entries of m refer to o.
Uses(m, o) ==
    Cardinality({n \in Names : IsObject(msg[m][n]) /\ msg[m][n].u = o})
BlocksOf(m) == {msg[m][n].u : n \in {k \in Names : IsString(msg[m][k])}}

\* An object whose count comes to zero is deleted; nothing brings it back.
Retain(refs, o) == [refs EXCEPT ![o] = IF @ = 0 THEN 0 ELSE @ + 1]
Release(refs, o) == [refs EXCEPT ![o] = IF @ = 0 THEN 0 ELSE @ - 1]

-----------------------------------------------------------------------------

\* The client makes an object, and lets go of it.
NewObject(o) ==
    /\ o \notin held /\ mRefs[o] = 0 /\ leaked[o] = 0
    /\ held' = held \cup {o}
    /\ mRefs' = [mRefs EXCEPT ![o] = 1]
    /\ UNCHANGED <<msg, block, value, leaked>>

DropObject(o) ==
    /\ o \in held
    /\ held' = held \ {o}
    /\ mRefs' = Release(mRefs, o)
    /\ UNCHANGED <<msg, block, value, leaked>>

Construct(m) ==
    /\ ~Exists(m)
    /\ msg' = [msg EXCEPT ![m] = NoEntries]
    /\ Own!Make(m)
    /\ UNCHANGED <<block, mRefs, held, leaked>>

\* remove(n): frees the string or releases the object of the entry.
FreedBlocks(m, n) ==
    LET e == msg[m][n] IN
    IF IsString(e) THEN [block EXCEPT ![e.u] = NULL] ELSE block
ReleasedBy(refs, m, n) ==
    LET e == msg[m][n] IN IF IsObject(e) THEN Release(refs, e.u) ELSE refs

Remove(m, n) ==
    /\ Exists(m) /\ msg[m][n] # NULL
    /\ msg' = [msg EXCEPT ![m][n] = NULL]
    /\ block' = FreedBlocks(m, n)
    /\ mRefs' = ReleasedBy(mRefs, m, n)
    /\ Own!Take(m, n)
    /\ UNCHANGED <<held, leaked>>

\* setInt32 ... setPointer: an entry of that name is removed first.
SetData(m, n, x) ==
    /\ Exists(m)
    /\ msg' = [msg EXCEPT ![m][n] = Entry("data", x)]
    /\ block' = FreedBlocks(m, n)
    /\ mRefs' = ReleasedBy(mRefs, m, n)
    /\ Own!Put(m, n, x)
    /\ UNCHANGED <<held, leaked>>

\* setString: the copy is made before the entry is removed.
SetString(m, n, s) ==
    /\ Exists(m) /\ NULL \in {block[b] : b \in Blocks}
    /\ \E b \in {CHOOSE c \in Blocks : block[c] = NULL} :
        /\ msg' = [msg EXCEPT ![m][n] = Entry("string", b)]
        /\ block' = [FreedBlocks(m, n) EXCEPT ![b] = s]
    /\ mRefs' = ReleasedBy(mRefs, m, n)
    /\ Own!Put(m, n, s)
    /\ UNCHANGED <<held, leaked>>

(* Mutant: the old entry is removed before the object is retained. *)
SetObjectLate(m, n, o) ==
    /\ Exists(m) /\ mRefs[o] < MaxRefs
    /\ o \in held \/ \E k \in Messages : Exists(k) /\ Uses(k, o) > 0
    /\ msg' = [msg EXCEPT ![m][n] = Entry("object", o)]
    /\ block' = FreedBlocks(m, n)
    /\ mRefs' = Retain(ReleasedBy(mRefs, m, n), o)
    /\ Own!Put(m, n, o)
    /\ UNCHANGED <<held, leaked>>

\* setObject and set: the object comes from the client or from an entry
\* (findObject), and is retained before the entry is removed.
SetObject(m, n, o) ==
    /\ Exists(m) /\ mRefs[o] < MaxRefs
    /\ o \in held \/ \E k \in Messages : Exists(k) /\ Uses(k, o) > 0
    /\ msg' = [msg EXCEPT ![m][n] = Entry("object", o)]
    /\ block' = FreedBlocks(m, n)
    /\ mRefs' = ReleasedBy(Retain(mRefs, o), m, n)
    /\ Own!Put(m, n, o)
    /\ UNCHANGED <<held, leaked>>

\* clear: strings are freed, and objects are retained once more, not released.
Cleared(m) ==
    /\ block' = [b \in Blocks |-> IF b \in BlocksOf(m) THEN NULL ELSE block[b]]
    /\ mRefs' = [o \in Objects |-> mRefs[o] + Uses(m, o)]
    /\ leaked' = [o \in Objects |-> leaked[o] + 2 * Uses(m, o)]
    /\ UNCHANGED held

Clear(m) ==
    /\ Exists(m) /\ \A o \in Objects : mRefs[o] + Uses(m, o) <= MaxRefs
    /\ Cleared(m)
    /\ msg' = [msg EXCEPT ![m] = NoEntries]
    /\ Own!Wipe(m)

\* ~Message clears.
Destroy(m) ==
    /\ Exists(m) /\ \A o \in Objects : mRefs[o] + Uses(m, o) <= MaxRefs
    /\ Cleared(m)
    /\ msg' = [msg EXCEPT ![m] = NULL]
    /\ Own!Drop(m)

\* dup: strings are copied, objects shared.
Dup(m, d) ==
    LET strings == {n \in Names : IsString(msg[m][n])} IN
    /\ Exists(m) /\ ~Exists(d)
    /\ \A o \in Objects : mRefs[o] + Uses(m, o) <= MaxRefs
    /\ \E copy \in [strings -> {b \in Blocks : block[b] = NULL}] :
        /\ \A n, k \in strings : copy[n] = copy[k] => n = k
        /\ msg' = [msg EXCEPT ![d] =
            [n \in Names |-> IF n \in strings THEN Entry("string", copy[n]) ELSE msg[m][n]]]
        /\ block' = [b \in Blocks |->
            IF \E n \in strings : copy[n] = b
            THEN block[msg[m][CHOOSE n \in strings : copy[n] = b].u]
            ELSE block[b]]
    /\ mRefs' = [o \in Objects |-> mRefs[o] + Uses(m, o)]
    /\ Own!Copy(d, m)
    /\ UNCHANGED <<held, leaked>>

-----------------------------------------------------------------------------

Next ==
    \/ \E o \in Objects : NewObject(o) \/ DropObject(o)
    \/ \E m \in Messages :
        \/ Construct(m)
        \/ \E n \in Names :
            \/ Remove(m, n)
            \/ \E x \in Data : SetData(m, n, x)
            \/ \E s \in Texts : SetString(m, n, s)
            \/ \E o \in Objects : SetObject(m, n, o)
        \/ Clear(m)
        \/ Destroy(m)
        \/ \E d \in Messages : Dup(m, d)

Spec == Init /\ [][Next]_vars

-----------------------------------------------------------------------------

\* find: what m answers for n.
Answer(m, n) ==
    LET e == msg[m][n] IN
    IF e = NULL THEN NULL ELSE IF IsString(e) THEN block[e.u] ELSE e.u

\* A message answers with what was last set under a name in it, or in the
\* message it was dup'ed from.
AnswersWhatWasSet ==
    \A m \in Messages :
        value[m] = IF Exists(m) THEN [n \in Names |-> Answer(m, n)] ELSE NULL

\* The entries of all messages of that type with u in them.
Entries(type, u) ==
    {e \in Messages \X Names : Exists(e[1]) /\ msg[e[1]][e[2]] = Entry(type, u)}

\* Every entry's object is alive, and its count is the client's reference, one
\* for each entry and those that clear has leaked; every block belongs to one
\* entry.
EntriesOwnWhatTheyHold ==
    /\ \A o \in Objects :
        mRefs[o] = (IF o \in held THEN 1 ELSE 0) + leaked[o] + Cardinality(Entries("object", o))
    /\ \A b \in Blocks :
        Cardinality(Entries("string", b)) = IF block[b] = NULL THEN 0 ELSE 1
=============================================================================
