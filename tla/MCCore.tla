------------------------------- MODULE MCCore -------------------------------
(***************************************************************************)
(* The parts of core/ that hold and share data, one of them in each        *)
(* behaviour: the scenario says which.  The variables of the others are not *)
(* used; those of SharedObject, whose invariants hold of them in every     *)
(* scenario, keep an initial state.                                        *)
(***************************************************************************)
EXTENDS SharedObject

CONSTANTS
    Strings, Buffers, Literals, Junk, Spaces, NUL, MaxChars,
    Messages, Names, Data, Texts, Blocks, MaxRefs,
    Capacities, Bytes, Raw, MaxTransfer,
    Contents, Places, BlockLength, MaxLength

VARIABLES
    scenario,
    mData, call,
    str, heap, value, flaw,
    msg, block, usedRefs, held, leaked,
    mType, mCapacity, mReadPos, mWritePos, stream, misused,
    disk, proto, mode, mPosition, mBlock, mBlockOffset, mBlockPopulated, at, want, fault

Lower(c) == IF c = "A" THEN "a" ELSE c
Upper(c) == IF c = "a" THEN "A" ELSE c
MCLiterals == {<<>>, <<"a">>, <<" ", "A">>}
MCContents == {<<>>, <<"a", "b", "c">>}

\* A buffer's capacity and what one call transfers are sizes.
ASSUME BytesAssumption == Capacities \subseteq Nat /\ MaxTransfer \in Nat

\* Files are sequences of bytes, blocks and files have a length.
ASSUME ContentAssumption ==
    /\ \A c \in Contents : c \in Seq({c[i] : i \in DOMAIN c})
    /\ Places \subseteq Nat /\ BlockLength \in Nat /\ MaxLength \in Nat

\* There are finitely many messages and names, and NULL is none of what a
\* message or a block holds.
ASSUME MessageAssumption ==
    /\ IsFiniteSet(Messages) /\ IsFiniteSet(Names)
    /\ NULL \notin Texts
    /\ LET entries == [mType : {"data", "string", "object"}, u : Data \cup Blocks \cup Objects] IN
        NULL \notin entries /\ NULL \notin [Names -> entries \cup {NULL}]

\* A string's bytes: those of the arguments, what lower, upper and a write
\* make of them, the terminator and what nobody has written.
LiteralLetters == UNION {{x[i] : i \in DOMAIN x} : x \in Literals}
Letters == LiteralLetters \cup Spaces \cup {NUL, Junk, "a", "A"}

\* The arguments are sequences that end before a terminator, every string finds memory for a buffer of its
\* own, and NULL is neither a buffer nor what one holds.
ASSUME StringAssumption ==
    /\ IsFiniteSet(Strings) /\ IsFiniteSet(Buffers)
    /\ Cardinality(Buffers) >= Cardinality(Strings)
    /\ \A x \in Literals : x \in Seq({x[i] : i \in DOMAIN x})
    /\ NUL \notin LiteralLetters \cup Spaces \cup {"a", "A"}
    /\ NULL \notin Buffers
    /\ NULL \notin [refs : Nat, mSize : Nat, bytes : Seq(Letters)]

S == INSTANCE String
M == INSTANCE Message WITH mRefs <- usedRefs
R == INSTANCE Buffer
C == INSTANCE Content

-----------------------------------------------------------------------------

NoObject == Init /\ owner = [v \in Slots |-> CHOOSE t \in Threads : TRUE]
NoString == str = NULL /\ heap = NULL /\ flaw = NULL
NoMessage == msg = NULL /\ block = NULL /\ usedRefs = NULL /\ held = NULL /\ leaked = NULL
NoBytes ==
    /\ mType = NULL /\ mCapacity = NULL /\ mReadPos = NULL /\ mWritePos = NULL
    /\ stream = NULL /\ misused = NULL
NoContent ==
    /\ disk = NULL /\ proto = NULL /\ mode = NULL /\ mPosition = NULL /\ mBlock = NULL
    /\ mBlockOffset = NULL /\ mBlockPopulated = NULL /\ at = NULL /\ want = NULL /\ fault = NULL

MCInit ==
    \/ /\ scenario = "objects" /\ Init
       /\ mData = NULL /\ call = NULL /\ value = NULL
       /\ NoString /\ NoMessage /\ NoBytes /\ NoContent
    \/ /\ scenario = "strings" /\ S!Init
       /\ mData = NULL /\ call = NULL
       /\ NoObject /\ NoMessage /\ NoBytes /\ NoContent
    \/ /\ scenario = "messages" /\ M!Init
       /\ mData = NULL /\ call = NULL
       /\ NoObject /\ NoString /\ NoBytes /\ NoContent
    \/ /\ scenario = "bytes" /\ R!Init
       /\ value = NULL /\ call = NULL
       /\ NoObject /\ NoString /\ NoMessage /\ NoContent
    \/ /\ scenario = "contents" /\ C!Init
       /\ mData = NULL /\ value = NULL
       /\ NoObject /\ NoString /\ NoMessage /\ NoBytes

\* mData, call and value are used by two parts each.
stringVars == <<str, heap, flaw>>
messageVars == <<msg, block, usedRefs, held, leaked>>
bytesVars == <<mType, mCapacity, mReadPos, mWritePos, stream, misused>>
contentVars == <<disk, proto, mode, mPosition, mBlock, mBlockOffset, mBlockPopulated,
                 at, want, fault>>

MCNext ==
    /\ UNCHANGED scenario
    /\ \/ /\ scenario = "objects" /\ Next
          /\ UNCHANGED <<mData, call, value, stringVars, messageVars, bytesVars, contentVars>>
       \/ /\ scenario = "strings" /\ S!Next
          /\ UNCHANGED <<vars, mData, call, messageVars, bytesVars, contentVars>>
       \/ /\ scenario = "messages" /\ M!Next
          /\ UNCHANGED <<vars, mData, call, stringVars, bytesVars, contentVars>>
       \/ /\ scenario = "bytes" /\ R!Next
          /\ UNCHANGED <<vars, value, call, stringVars, messageVars, contentVars>>
       \/ /\ scenario = "contents" /\ C!Next
          /\ UNCHANGED <<vars, mData, value, stringVars, messageVars, bytesVars>>

mcVars == <<scenario, vars, mData, call, value,
            stringVars, messageVars, bytesVars, contentVars>>

MCSpec == MCInit /\ [][MCNext]_mcVars

-----------------------------------------------------------------------------

\* Strings read what was made of them, in buffers of the size that was asked for.
StringsKeepTheirText == scenario = "strings" => S!HoldsWhatItShould /\ S!BuffersAreSound

\* Messages answer what was set in them, from entries that own their data.
MessagesKeepTheirEntries ==
    scenario = "messages" => M!AnswersWhatWasSet /\ M!EntriesOwnWhatTheyHold

\* Buffers return what was written, in order, and stay inside their memory.
BuffersReadInOrder == scenario = "bytes" => R!ReadsWhatWasWritten

\* A cached file is read and written where the client is, and a client that
\* seeks is where it asked to be.
ContentIsTheFiles ==
    scenario = "contents" =>
        C!ReadsAreOfTheFile /\ C!WritesReachTheFile /\ C!MissesAreAtTheEnds
=============================================================================
