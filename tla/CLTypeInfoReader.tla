-------------------------- MODULE CLTypeInfoReader --------------------------
(***************************************************************************)
(* The reader of the types of persistent objects: init reads the file's    *)
(* array of entries into a buffer of words, and a table that gives every   *)
(* name the ID of its entry, which is the index of the entry's first word. *)
(* An ID has one of TypeIDNum values, 2^16 in the code, and so has the     *)
(* offset in bytes that IDs are computed from.  The size of an object has  *)
(* one of ObjectSizeNum values, 2^48 in the code.                          *)
(*                                                                         *)
(* An entry is what the JSON gives for "name", "size" and "ptrs", where    *)
(* NONE is a field that is missing or has another type.  A pointer is the  *)
(* name of the type it points to, and NONE if that or its offset is not    *)
(* there.                                                                  *)
(***************************************************************************)
EXTENDS CLPoliciesManager, FiniteSets, FiniteSetsExt, SequencesExt

CONSTANTS
    Names,         \* of types
    NONE,
    TypeIDNum,
    ObjectSizeNum,
    Files          \* bound: arrays of entries

Entries ==
    [name : Names \cup {NONE},
     size : Nat \cup {NONE},
     ptrs : Seq(Names \cup {NONE}) \cup {NONE}]

ASSUME TypeInfoAssumption ==
    /\ {TypeIDNum, ObjectSizeNum} \subseteq Nat \ {0}
    /\ NONE \notin Names
    /\ Files \subseteq Seq(Entries)

VARIABLES
    file,            \* history: the entries read
    m_typeInfos,     \* m_typeInfos[n]: ID of the type n
    m_typeInfoBuffer,
    m_instance,      \* of the reader: none, ready, or dangling
    answer           \* of the last init

readerVars == <<file, m_typeInfos, m_typeInfoBuffer, m_instance, answer>>

INVALID_TYPE_ID == TypeIDNum - 1
Word            == 8

NoTypes == [n \in Names |-> INVALID_TYPE_ID]

ReaderInit ==
    /\ file = <<>>
    /\ m_typeInfos = NoTypes
    /\ m_typeInfoBuffer = <<>>
    /\ m_instance = "none"
    /\ answer = FALSE

-----------------------------------------------------------------------------
(* The first pass: IDs. *)

rootInfoSize(e) == Word * (Len(e.ptrs) + 1)

\* Mutant: no limit, and the offset wraps round.
FitsAnyhow(spaceNeed, size) == TRUE

Fits(spaceNeed, size) == spaceNeed + size <= INVALID_TYPE_ID

\* spaceNeed after each entry.
SpaceNeed(f) ==
    LET need[j \in 0 .. Len(f)] == IF j = 0 THEN 0 ELSE need[j - 1] + rootInfoSize(f[j])
    IN need

AllFit(f) ==
    /\ \A j \in DOMAIN f : f[j].ptrs # NONE /\ f[j].name # NONE
    /\ \A j \in DOMAIN f : Fits(SpaceNeed(f)[j - 1], rootInfoSize(f[j]))
    /\ f # <<>>

\* Of two entries of one name the first counts.
FirstOf(f, n) == Min({j \in DOMAIN f : f[j].name = n})

TypeIDs(f) ==
    [n \in Names |->
        IF \E j \in DOMAIN f : f[j].name = n
        THEN (SpaceNeed(f)[FirstOf(f, n) - 1] % TypeIDNum) \div Word
        ELSE INVALID_TYPE_ID]

-----------------------------------------------------------------------------
(* The second pass: the buffer, one word after the other. *)

Resolved(f, ids) ==
    \A j \in DOMAIN f :
        /\ f[j].size # NONE
        /\ \A p \in ToSet(f[j].ptrs) : p # NONE /\ ids[p] # INVALID_TYPE_ID

\* What the size's field keeps of it.
objectSize(e) == e.size % ObjectSizeNum

Words(e, ids) ==
    <<[objectSize |-> objectSize(e), ptrsNum |-> Len(e.ptrs)]>>
    \o [p \in DOMAIN e.ptrs |-> [ptrTypeID |-> ids[e.ptrs[p]]]]

Buffer(f, ids) == FlattenSeq([j \in DOMAIN f |-> Words(f[j], ids)])

-----------------------------------------------------------------------------
(* init.  A reader that fails is deleted, and m_instance is not reset. *)

\* No file, no array in it, no memory, or one of the passes stops.
InitFails ==
    /\ m_instance = "none"
    /\ m_instance' = "dangling"
    /\ answer' = FALSE
    /\ UNCHANGED <<file, m_typeInfos, m_typeInfoBuffer>>

InitReads ==
    /\ m_instance = "none"
    /\ \E f \in Files :
          /\ AllFit(f)
          /\ Resolved(f, TypeIDs(f))
          /\ file' = f
          /\ m_typeInfos' = TypeIDs(f)
          /\ m_typeInfoBuffer' = Buffer(f, TypeIDs(f))
    /\ m_instance' = "ready"
    /\ answer' = TRUE

InitAgain ==
    /\ m_instance # "none"
    /\ answer' = TRUE
    /\ UNCHANGED <<file, m_typeInfos, m_typeInfoBuffer, m_instance>>

ReaderNext == InitFails \/ InitReads \/ InitAgain

ReaderSpec == ReaderInit /\ [][ReaderNext]_readerVars

convertNameToID(n)  == m_typeInfos[n]
Word0(id)           == m_typeInfoBuffer[id + 1]
getTypeInfoByName(n) == Word0(convertNameToID(n))
-----------------------------------------------------------------------------
Declared == {n \in Names : \E j \in DOMAIN file : file[j].name = n}

\* Once a reader is there every declared name has an ID, no two the same, that
\* leads to the first entry of that name, and a pointer's ID leads to the entry
\* of the type it points to: none wraps round, and none leads out of the buffer.
IdsNameEntries ==
    /\ m_instance \in {"none", "ready", "dangling"}
    /\ m_instance = "ready" =>
        \A n \in Declared :
            LET e  == file[FirstOf(file, n)]
                id == convertNameToID(n)
            IN /\ id < INVALID_TYPE_ID
               /\ id + Len(e.ptrs) < Len(m_typeInfoBuffer)
               /\ getTypeInfoByName(n) = [objectSize |-> objectSize(e), ptrsNum |-> Len(e.ptrs)]
               /\ \A p \in DOMAIN e.ptrs :
                      /\ e.ptrs[p] \in Declared
                      /\ m_typeInfoBuffer[id + 1 + p] = [ptrTypeID |-> convertNameToID(e.ptrs[p])]
               /\ \A m \in Declared \ {n} : convertNameToID(m) # id

\* Recovery puts an object into the class of the size its type has, up to
\* MAX_SMALL_OBJ_SIZE: it fits there, and no smaller class would do.  A size of 0,
\* or one of which the field keeps 0, has no class, and init refuses neither.
SmallestClassThatFits ==
    \A n \in Declared :
        LET objSize == getTypeInfoByName(n).objectSize
        IN objSize \in 1 .. MAX_SMALL_OBJ_SIZE => FitsItsClass(objSize)
=============================================================================
