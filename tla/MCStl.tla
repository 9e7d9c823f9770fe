-------------------------------- MODULE MCStl --------------------------------
(***************************************************************************)
(* The containers of stl/, the storage that they share, and the bit        *)
(* streams of tools/, one of them in each behaviour: the scenario says     *)
(* which.  The variables of the others are not used; those of              *)
(* SharedBuffer, whose properties hold of them in every scenario, keep an   *)
(* initial state.                                                          *)
(***************************************************************************)
EXTENDS SharedBuffer

CONSTANTS
    Storages, Lost,
    Vectors, Lists, Tables,
    Elements, Key(_), Capacities, MaxItems,
    MaxNodes, MaxSorted,
    Keys, Hash(_), TableValues, Lengths, MaxElements,
    Width, mSize, Words, BitLengths, MaxWrites, Raw

VARIABLES
    scenario, heap, value,
    vec,
    list, refs, ring,
    table,
    writer, reader, bits, pos, writes, spoiled

\* Two elements of each key, and keys of one bucket.
MCKey(x) == x \div 2
MCHash(k) == k % 8

V == INSTANCE Vector
L == INSTANCE List
H == INSTANCE HashTable WITH Values <- TableValues
Bit == INSTANCE Bits WITH Lengths <- BitLengths

\* One list that is long enough for several rounds of merging.
Long == INSTANCE List WITH Lists <- {CHOOSE l \in Lists : TRUE}, MaxNodes <- MaxSorted

LongNext ==
    \E l \in DOMAIN list :
        \/ Long!Construct(l) /\ Long!Own!Make(l, <<>>)
        \/ /\ Long!Exists(l)
           /\ \/ \E x \in Elements :
                    /\ Long!Insert(l, list[l].mListLength, x)
                    /\ Long!Own!Insert(l, list[l].mListLength, <<x>>)
              \/ Long!Sort(l) /\ Long!Own!Sort(l)

ASSUME BuffersAssumption == BufferAssumption

\* There is storage for every vector and one that moves; memory without an
\* element can be told from one, and NULL is no vector.
VectorsAssumption ==
    /\ IsFiniteSet(Vectors) /\ IsFiniteSet(Storages)
    /\ Cardinality(Vectors) < Cardinality(Storages)
    /\ \A x \in Elements : Key(x) \in Nat
    /\ Capacities \subseteq Nat \ {0}
    /\ Raw \notin Elements
    /\ NULL \notin [storage : Storages, mCapacity : Nat, mItemCount : Nat]

ASSUME VectorsAssumed == VectorsAssumption

\* There is storage for every table, and NULL is neither a value nor a table.
TablesAssumption ==
    /\ IsFiniteSet(Tables) /\ IsFiniteSet(Storages) /\ IsFiniteSet(Keys)
    /\ Cardinality(Tables) <= Cardinality(Storages)
    /\ \A k \in Keys : Hash(k) \in Nat
    /\ Lengths \subseteq Nat \ {0}
    /\ NULL \notin TableValues
    /\ NULL \notin [Keys -> TableValues \cup {NULL}]
    /\ NULL \notin [storage : Storages, mTableLength : Nat, mNumElements : Nat]

ASSUME TablesAssumed == TablesAssumption

-----------------------------------------------------------------------------

NoBuffer ==
    /\ owner = [h \in Handles |-> CHOOSE t \in Threads : TRUE]
    /\ handle = [h \in Handles |-> NULL]
    /\ mRefs = [b \in Buffers |-> 0]
    /\ live = {}
    /\ call = [t \in Threads |-> NoCall]
NoVector == vec = NULL
NoList == list = NULL /\ refs = NULL /\ ring = NULL
NoTable == table = NULL
NoBits ==
    /\ writer = NULL /\ reader = NULL /\ bits = NULL /\ pos = NULL
    /\ writes = NULL /\ spoiled = NULL

MCInit ==
    \/ /\ scenario = "buffers" /\ Init
       /\ heap = NULL /\ value = NULL /\ NoVector /\ NoList /\ NoTable /\ NoBits
    \/ /\ scenario = "vectors" /\ V!Init
       /\ mData = NULL /\ NoBuffer /\ NoList /\ NoTable /\ NoBits
    \/ /\ scenario = "lists" /\ L!Init
       /\ mData = NULL /\ heap = NULL /\ NoBuffer /\ NoVector /\ NoTable /\ NoBits
    \/ /\ scenario = "long list" /\ Long!Init
       /\ mData = NULL /\ heap = NULL /\ NoBuffer /\ NoVector /\ NoTable /\ NoBits
    \/ /\ scenario = "tables" /\ H!Init
       /\ mData = NULL /\ NoBuffer /\ NoVector /\ NoList /\ NoBits
    \/ /\ scenario = "bits" /\ Bit!Init
       /\ heap = NULL /\ value = NULL /\ NoBuffer /\ NoVector /\ NoList /\ NoTable

\* mData is used by buffers and by bits.
bufferVars == <<owner, handle, mRefs, live, call>>
listVars == <<list, refs, ring>>
bitsVars == <<writer, reader, bits, pos, writes, spoiled>>

MCNext ==
    /\ UNCHANGED scenario
    /\ \/ /\ scenario = "buffers" /\ Next
          /\ UNCHANGED <<heap, value, vec, listVars, table, bitsVars>>
       \/ /\ scenario = "vectors" /\ V!Next
          /\ UNCHANGED <<bufferVars, mData, listVars, table, bitsVars>>
       \/ /\ scenario = "lists" /\ L!Next
          /\ UNCHANGED <<bufferVars, mData, heap, vec, table, bitsVars>>
       \/ /\ scenario = "long list" /\ LongNext
          /\ UNCHANGED <<bufferVars, mData, heap, vec, table, bitsVars>>
       \/ /\ scenario = "tables" /\ H!Next
          /\ UNCHANGED <<bufferVars, mData, vec, listVars, bitsVars>>
       \/ /\ scenario = "bits" /\ Bit!Next
          /\ UNCHANGED <<bufferVars, heap, value, vec, listVars, table>>

MCVars == <<scenario, bufferVars, mData, heap, value, vec, listVars, table, bitsVars>>
MCSpec == MCInit /\ [][MCNext]_MCVars

-----------------------------------------------------------------------------

\* Vectors hold what was put into them, in live elements and nothing else.
VectorsKeepTheirItems == scenario = "vectors" => V!HoldsWhatItShould /\ V!ItemsAreAlive

\* Lists hold what was put into them, in rings that are linked both ways; sort
\* is stable for every length.
ListsKeepTheirItems ==
    /\ scenario = "lists" => L!HoldsWhatItShould /\ L!RingsAreSound
    /\ scenario = "long list" => Long!HoldsWhatItShould /\ Long!RingsAreSound

\* Tables find what was put into them, and iterators visit all of it.
TablesKeepTheirEntries ==
    scenario = "tables" => H!HoldsWhatItShould /\ H!IterationIsComplete

\* Readers of bits return what the writer was given.
BitsReadAsWritten == scenario = "bits" => Bit!ReadsBackWhatWasWritten

\* A magic number stands behind the data of every vector.
VectorGuardsIntact == scenario = "vectors" => V!GuardsIntact
=============================================================================
