----------------------------- MODULE CJsonObject -----------------------------
(***************************************************************************)
(* Documents: the tree of cJSON items, linked as cJSON links them, and the *)
(* CJsonObjects through which a program reads and edits it.  operator[]    *)
(* makes a CJsonObject for a part of the document and keeps it, so that it *)
(* can return a reference; every later change of the document has to drop  *)
(* the ones it makes wrong.  GetKey keeps a cursor into the document.      *)
(*                                                                         *)
(* What a scalar holds does not matter here, and a value that is copied    *)
(* into a document (printed and parsed again) is a scalar or a container   *)
(* with at most one scalar.  Memory does not run out.                      *)
(*                                                                         *)
(* Changes that leave a kept CJsonObject or the cursor wrong are flaws of  *)
(* the code; the model takes the step and goes no further, and "spoilt"    *)
(* says which it was:                                                      *)
(*   "absent"    something is added where operator[] has found nothing;    *)
(*   "shifted"   a scalar is put before what operator[] has counted;       *)
(*   "case"      a key is changed that was also looked up in another case; *)
(*   "negative"  the index -1, which cJSON takes for 0, changes an array;  *)
(*   "cursor"    the item the cursor is at is replaced;                    *)
(*   "detached"  what operator[] gave is itself filled, emptied or parsed; *)
(*   "alias"     a part is changed that two CJsonObjects stand for.        *)
(***************************************************************************)
EXTENDS Integers, Sequences, FiniteSets, FiniteSetsExt, SequencesExt

CONSTANTS
    ItemNum,      \* bound: cJSON items
    ObjectNum,    \* bound: CJsonObjects
    Keys,
    NoKey,
    Folded,       \* Folded[k]: k in lower case
    MaxIndex,     \* bound: indexes the program uses
    Values        \* bound: values it puts into a document

ASSUME JsonAssumption ==
    /\ {ItemNum, ObjectNum, MaxIndex} \subseteq Nat \ {0}
    /\ NoKey \notin Keys
    /\ Keys \subseteq DOMAIN Folded
    /\ \A value \in Values : Len(value.keys) <= 1

Items   == 1 .. ItemNum
Objects == 1 .. ObjectNum
Indexes == 0 .. MaxIndex
Containers == {"array", "object"}
Doc     == 1
NULL    == 0

VARIABLES
    item,       \* item[x]: the cJSON item at x
    live,       \* items in use
    made,       \* CJsonObjects there are
    obj,        \* obj[w]: what CJsonObject w holds
    spoilt      \* history

vars == <<item, live, made, obj, spoilt>>

NewItem(type, k) ==
    [type |-> type, string |-> k, next |-> NULL, prev |-> NULL, child |-> NULL]

NewObject(extern) ==
    [m_pJsonData |-> NULL, m_pExternJsonDataRef |-> extern, m_pKeyTravers |-> extern,
     m_mapJsonObjectRef |-> [k \in Keys |-> NULL],
     m_mapJsonArrayRef |-> [i \in Indexes |-> NULL]]

Init ==
    /\ item = [x \in Items |-> NewItem("scalar", NoKey)]
    /\ live = {}
    /\ made = {Doc}
    /\ obj = [w \in Objects |-> NewObject(NULL)]
    /\ spoilt = {}

-----------------------------------------------------------------------------
(* cJSON: the items below c, in t, a function like "item". *)

Children(t, c) ==
    LET from[x \in Items \cup {NULL}, k \in 0 .. ItemNum] ==
            IF x = NULL \/ k = 0 THEN <<>> ELSE <<x>> \o from[t[x].next, k - 1]
    IN from[t[c].child, ItemNum]

Below(t, x) ==
    LET reached[k \in 0 .. ItemNum] ==
            IF k = 0 THEN {x}
            ELSE LET above == reached[k - 1]
                 IN above \cup UNION {ToSet(Children(t, y)) : y \in above}
    IN reached[ItemNum]

\* The loop stops at once for a negative index.
GetArrayItem(t, c, i) ==
    LET children == Children(t, c)
        at       == IF i < 0 THEN 1 ELSE i + 1
    IN IF at \in DOMAIN children THEN children[at] ELSE NULL

SameKey(k, l) == k # NoKey /\ l # NoKey /\ Folded[k] = Folded[l]

GetObjectItem(t, c, k) ==
    LET hits == SelectSeq(Children(t, c), LAMBDA x : SameKey(t[x].string, k))
    IN IF hits = <<>> THEN NULL ELSE hits[1]

AddItemToArray(t, c, x) ==
    LET children == Children(t, c)
    IN IF children = <<>> THEN [t EXCEPT ![c].child = x]
       ELSE [t EXCEPT ![Last(children)].next = x, ![x].prev = Last(children)]

\* Mutant: the old head is not linked back.
HeadUnlinked(t, c, x) == [t EXCEPT ![c].child = x, ![x].next = t[c].child]

AddItemToArrayHead(t, c, x) ==
    LET head == t[c].child
    IN IF head = NULL THEN [t EXCEPT ![c].child = x]
       ELSE [t EXCEPT ![c].child = x, ![x].next = head, ![x].prev = t[head].prev,
                      ![head].prev = x]

AddItemToObject(t, c, k, x) == AddItemToArray([t EXCEPT ![x].string = k], c, x)

\* Item x leaves c; what is left of it is deleted.
DetachItem(t, c, x) ==
    [y \in Items |->
        CASE y = c -> [t[c] EXCEPT !.child = IF @ = x THEN t[x].next ELSE @]
          [] y # c /\ y = t[x].prev -> [t[y] EXCEPT !.next = t[x].next]
          [] y # c /\ y = t[x].next -> [t[y] EXCEPT !.prev = t[x].prev]
          [] OTHER -> t[y]]

\* Item n takes the place of x, which is deleted.
ReplaceItem(t, c, x, n) ==
    [y \in Items |->
        CASE y = n -> [t[n] EXCEPT !.next = t[x].next, !.prev = t[x].prev]
          [] y = c -> [t[c] EXCEPT !.child = IF @ = x THEN n ELSE @]
          [] y \notin {n, c} /\ y = t[x].prev -> [t[y] EXCEPT !.next = n]
          [] y \notin {n, c} /\ y = t[x].next -> [t[y] EXCEPT !.prev = n]
          [] OTHER -> t[y]]

-----------------------------------------------------------------------------
(* Values a program puts into a document. *)

\* Deleted items: what they held is not looked at again.
Tidy(t) == [x \in Items |-> IF x \in live' THEN t[x] ELSE NewItem("scalar", NoKey)]

Scalar == [type |-> "scalar", keys |-> <<>>]

Free(used)        == Items \ (live \cup used)
Room(used, value) == Cardinality(Free(used)) > Len(value.keys)

\* The value as it is built in new items of t.
Built(t, used, value) ==
    LET n   == Min(Free(used))
        m   == Min(Free(used \cup {n}))
        top == [t EXCEPT ![n] = NewItem(value.type, NoKey)]
    IN IF value.keys = <<>> THEN [top |-> n, items |-> {n}, tree |-> top]
       ELSE [top |-> n, items |-> {n, m},
             tree |-> [top EXCEPT ![n].child = m, ![m] = NewItem("scalar", value.keys[1])]]

-----------------------------------------------------------------------------
(* CJsonObject: what every operation begins with. *)

Unspoilt == spoilt = {}

\* pFocusData
Focus(w) == IF obj[w].m_pJsonData # NULL THEN obj[w].m_pJsonData
            ELSE obj[w].m_pExternJsonDataRef

Is(w, type) == Focus(w) # NULL /\ item[Focus(w)].type = type

\* pJsonStruct of Get and operator[], by key and by index.
Found(w, k)   == IF Is(w, "object") THEN GetObjectItem(item, Focus(w), k) ELSE NULL
FoundAt(w, i) == IF Is(w, "array") THEN GetArrayItem(item, Focus(w), i) ELSE NULL

Size(w) == IF Is(w, "array") THEN Len(Children(item, Focus(w))) ELSE 0

Kept(w) == ({obj[w].m_mapJsonObjectRef[k] : k \in Keys}
            \cup {obj[w].m_mapJsonArrayRef[i] : i \in Indexes}) \ {NULL}

\* The destructor deletes the CJsonObjects that one keeps.
Destroyed(S) ==
    LET reached[k \in 0 .. ObjectNum] ==
            IF k = 0 THEN S
            ELSE LET above == reached[k - 1] IN above \cup UNION {Kept(v) : v \in above}
    IN reached[ObjectNum]

\* w drops what it keeps for the keys K and the indexes I; its cursor, and its
\* data, become what is given.
Drops(w, K, I, data, cursor) ==
    LET gone == Destroyed(({obj[w].m_mapJsonObjectRef[k] : k \in K}
                           \cup {obj[w].m_mapJsonArrayRef[i] : i \in I}) \ {NULL})
        rest == [obj[w] EXCEPT
                    !.m_pJsonData = data,
                    !.m_pKeyTravers = cursor,
                    !.m_mapJsonObjectRef = [k \in Keys |-> IF k \in K THEN NULL ELSE @[k]],
                    !.m_mapJsonArrayRef = [i \in Indexes |-> IF i \in I THEN NULL ELSE @[i]]]
    IN /\ made' = made \ gone
       /\ obj' = [v \in Objects |-> CASE v = w -> rest
                                      [] v # w /\ v \in gone -> NewObject(NULL)
                                      [] OTHER -> obj[v]]

Own(w)    == obj[w].m_pJsonData
Cursor(w) == obj[w].m_pKeyTravers

\* The ways in which a change by w spoils what is kept.
Aliased(w)  == IF \E v \in made \ {w} : Focus(w) # NULL /\ Focus(v) = Focus(w)
               THEN {"alias"} ELSE {}
Detaches(w) == IF w # Doc /\ Focus(w) = NULL THEN {"detached"} ELSE {}
Misses(w, K) == IF \E k \in K : obj[w].m_mapJsonObjectRef[k] # NULL THEN {"absent"} ELSE {}
Miscounts(w, I, how) ==
    IF \E i \in I : obj[w].m_mapJsonArrayRef[i] # NULL THEN {how} ELSE {}
OtherCase(w, k) ==
    IF \E l \in Keys \ {k} : SameKey(k, l) /\ obj[w].m_mapJsonObjectRef[l] # NULL
    THEN {"case"} ELSE {}

-----------------------------------------------------------------------------
(* operator[], GetKey, ResetTraversing *)

NewOne == Min(Objects \ made)

Lookup(w, k) ==
    /\ obj[w].m_mapJsonObjectRef[k] = NULL
    /\ made # Objects
    /\ made' = made \cup {NewOne}
    /\ obj' = [obj EXCEPT ![NewOne] = NewObject(Found(w, k)),
                          ![w].m_mapJsonObjectRef[k] = NewOne]
    /\ UNCHANGED <<item, live, spoilt>>

LookupAt(w, i) ==
    /\ obj[w].m_mapJsonArrayRef[i] = NULL
    /\ made # Objects
    /\ made' = made \cup {NewOne}
    /\ obj' = [obj EXCEPT ![NewOne] = NewObject(FoundAt(w, i)),
                          ![w].m_mapJsonArrayRef[i] = NewOne]
    /\ UNCHANGED <<item, live, spoilt>>

MovesCursor(w, x) ==
    /\ obj' = [obj EXCEPT ![w].m_pKeyTravers = x]
    /\ UNCHANGED <<item, live, made, spoilt>>

GetKey(w) ==
    /\ ~Is(w, "array")
    /\ MovesCursor(w, CASE Cursor(w) = NULL -> Focus(w)
                        [] Cursor(w) # NULL /\ Cursor(w) # Focus(w) -> item[Cursor(w)].next
                        [] Cursor(w) # NULL /\ Cursor(w) = Focus(w) ->
                               IF item[Focus(w)].child = NULL THEN Focus(w)
                               ELSE item[item[Focus(w)].child].next)

ResetTraversing(w) == MovesCursor(w, Focus(w))

-----------------------------------------------------------------------------
(* Add.  Without data there is first a new container to add to. *)

Opened(w, type) ==
    IF Focus(w) # NULL
    THEN [top |-> Focus(w), items |-> {}, tree |-> item]
    ELSE Built(item, {}, [type |-> type, keys |-> <<>>])

CanAdd(w, type, value) ==
    /\ Focus(w) # NULL => Is(w, type)
    /\ Focus(w) = NULL => Room({}, Scalar)
    /\ Room(Opened(w, type).items, value)

OwnOnce(w, c) == IF Focus(w) = NULL THEN c ELSE Own(w)

\* An empty CJsonObject prints nothing, and nothing is parsed.
AddNothing(w, type) ==
    /\ Focus(w) = NULL /\ Room({}, Scalar)
    /\ LET c == Opened(w, type) IN
       /\ item' = c.tree
       /\ live' = live \cup c.items
       /\ Drops(w, {}, {}, c.top, IF type = "object" THEN c.top ELSE Cursor(w))
    /\ spoilt' = Detaches(w)

\* The value goes behind the others under key k; K is dropped.
AddUnder(w, k, value, K) ==
    /\ CanAdd(w, "object", value)
    /\ Found(w, k) = NULL
    /\ LET c == Opened(w, "object")
           v == Built(c.tree, c.items, value) IN
       /\ item' = AddItemToObject(v.tree, c.top, k, v.top)
       /\ live' = live \cup c.items \cup v.items
       /\ Drops(w, K, {}, OwnOnce(w, c.top), c.top)

AddObject(w, k, value) ==
    /\ AddUnder(w, k, value, {k})
    /\ spoilt' = Aliased(w) \cup Detaches(w) \cup OtherCase(w, k)

AddScalar(w, k) ==
    /\ AddUnder(w, k, Scalar, {})
    /\ spoilt' = Aliased(w) \cup Detaches(w) \cup Misses(w, {k}) \cup OtherCase(w, k)

AddEmptySub(w, k, type) ==
    /\ AddUnder(w, k, [type |-> type, keys |-> <<>>], {})
    /\ spoilt' = Aliased(w) \cup Detaches(w) \cup Misses(w, {k}) \cup OtherCase(w, k)

\* The value becomes the last, or the first, item of the array; I is dropped.
AddInto(w, value, end, I) ==
    /\ CanAdd(w, "array", value)
    /\ LET c == Opened(w, "array")
           v == Built(c.tree, c.items, value) IN
       /\ item' = IF end = "last" THEN AddItemToArray(v.tree, c.top, v.top)
                  ELSE AddItemToArrayHead(v.tree, c.top, v.top)
       /\ live' = live \cup c.items \cup v.items
       /\ Drops(w, {}, I, OwnOnce(w, c.top), Cursor(w))

\* Mutant: a CJsonObject that stands for nothing is kept.
KeepsLast(w) == {i \in Indexes : i > Size(w)}

\* uiLastIndex and all above it.
FromLast(w) == {i \in Indexes : i >= Size(w)}

AddItem(w, value) ==
    /\ AddInto(w, value, "last", FromLast(w))
    /\ spoilt' = Aliased(w) \cup Detaches(w)

AddScalarItem(w) ==
    /\ AddInto(w, Scalar, "last", {})
    /\ spoilt' = Aliased(w) \cup Detaches(w)
                 \cup Miscounts(w, {i \in Indexes : i = Size(w)}, "absent")

AddAsFirst(w, value) ==
    /\ AddInto(w, value, "first", Indexes)
    /\ spoilt' = Aliased(w) \cup Detaches(w)

AddScalarAsFirst(w) ==
    /\ AddInto(w, Scalar, "first", {})
    /\ spoilt' = Aliased(w) \cup Detaches(w)
                 \cup Miscounts(w, {i \in Indexes : i <= Size(w)}, "shifted")

-----------------------------------------------------------------------------
(* Delete and Replace *)

DeleteKey(w, k) ==
    /\ Is(w, "object")
    /\ LET x == Found(w, k) IN
       /\ live' = IF x = NULL THEN live ELSE live \ Below(item, x)
       /\ item' = IF x = NULL THEN item ELSE Tidy(DetachItem(item, Focus(w), x))
       /\ spoilt' = IF x = NULL THEN {} ELSE Aliased(w) \cup OtherCase(w, k)
    /\ Drops(w, {k}, {}, Own(w), Focus(w))

\* For -1, which is the largest of all unsigned indexes, nothing.
FromIndex(i) == IF i < 0 THEN {} ELSE {j \in Indexes : j >= i}

Negative(w, i) == IF i < 0 THEN Miscounts(w, Indexes, "negative") ELSE {}

DeleteAt(w, i) ==
    /\ Is(w, "array")
    /\ LET x == FoundAt(w, i) IN
       /\ live' = IF x = NULL THEN live ELSE live \ Below(item, x)
       /\ item' = IF x = NULL THEN item ELSE Tidy(DetachItem(item, Focus(w), x))
       /\ spoilt' = IF x = NULL THEN {} ELSE Aliased(w) \cup Negative(w, i)
    /\ Drops(w, {}, FromIndex(i), Own(w), Cursor(w))

\* The value takes the place of item x.  Where there is none nobody deletes it.
Replaces(w, x, k, value) ==
    \/ x = NULL /\ UNCHANGED <<item, live>>
    \/ /\ x # NULL
       /\ Room({}, value)
       /\ LET v == Built(item, {}, value) IN
          /\ live' = (live \ Below(item, x)) \cup v.items
          /\ item' = Tidy(ReplaceItem([v.tree EXCEPT ![v.top].string = k], Focus(w), x, v.top))

ReplaceSpoils(w, x, k) ==
    IF x = NULL THEN {}
    ELSE Aliased(w) \cup OtherCase(w, k) \cup (IF Cursor(w) = x THEN {"cursor"} ELSE {})

ReplaceObject(w, k, value) ==
    /\ Is(w, "object")
    /\ Replaces(w, Found(w, k), k, value)
    /\ Drops(w, IF Found(w, k) = NULL THEN {} ELSE {k}, {}, Own(w), Cursor(w))
    /\ spoilt' = ReplaceSpoils(w, Found(w, k), k)

ReplaceScalar(w, k) ==
    /\ Is(w, "object")
    /\ Replaces(w, Found(w, k), k, Scalar)
    /\ Drops(w, {k}, {}, Own(w), Cursor(w))
    /\ spoilt' = ReplaceSpoils(w, Found(w, k), k)

ReplaceItemAt(w, i, value) ==
    /\ Is(w, "array")
    /\ Replaces(w, FoundAt(w, i), NoKey, value)
    /\ Drops(w, {}, IF FoundAt(w, i) = NULL THEN {} ELSE Indexes \cap {i}, Own(w), Cursor(w))
    /\ spoilt' = IF FoundAt(w, i) = NULL THEN {} ELSE Aliased(w) \cup Negative(w, i)

ReplaceScalarAt(w, i) ==
    /\ Is(w, "array")
    /\ Replaces(w, FoundAt(w, i), NoKey, Scalar)
    /\ Drops(w, {}, Indexes \cap {i}, Own(w), Cursor(w))
    /\ spoilt' = IF FoundAt(w, i) = NULL THEN {} ELSE Aliased(w) \cup Negative(w, i)

-----------------------------------------------------------------------------
(* Clear, and Parse, which begins with it: of a text, or of none. *)

Cleared(w) == live \ (IF Own(w) = NULL THEN {} ELSE Below(item, Own(w)))

Forgets(w, data) ==
    LET gone == Destroyed(Kept(w)) IN
    /\ made' = made \ gone
    /\ obj' = [v \in Objects |->
                  CASE v = w -> [NewObject(NULL) EXCEPT !.m_pJsonData = data,
                                                        !.m_pKeyTravers = data]
                    [] v # w /\ v \in gone -> NewObject(NULL)
                    [] OTHER -> obj[v]]
    /\ spoilt' = IF w = Doc THEN {} ELSE {"detached"}

Clear(w) ==
    /\ live' = Cleared(w)
    /\ Forgets(w, NULL)
    /\ item' = Tidy(item)

Parse(w, value) ==
    /\ Room({}, value)
    /\ LET v == Built(item, {}, value) IN
       /\ live' = Cleared(w) \cup v.items
       /\ item' = Tidy(v.tree)
       /\ Forgets(w, v.top)

Reads(w) ==
    \/ \E k \in Keys : Lookup(w, k)
    \/ \E i \in Indexes : LookupAt(w, i)
    \/ GetKey(w) \/ ResetTraversing(w)

Adds(w) ==
    \/ \E type \in Containers : AddNothing(w, type)
    \/ \E k \in Keys :
          \/ \E value \in Values : AddObject(w, k, value)
          \/ AddScalar(w, k)
          \/ \E type \in Containers : AddEmptySub(w, k, type)
    \/ \E value \in Values : AddItem(w, value) \/ AddAsFirst(w, value)
    \/ AddScalarItem(w) \/ AddScalarAsFirst(w)

Changes(w) ==
    \/ \E k \in Keys :
          \/ DeleteKey(w, k) \/ ReplaceScalar(w, k)
          \/ \E value \in Values : ReplaceObject(w, k, value)
    \/ \E i \in Indexes \cup {-1} :
          \/ DeleteAt(w, i) \/ ReplaceScalarAt(w, i)
          \/ \E value \in Values : ReplaceItemAt(w, i, value)
    \/ Clear(w)
    \/ \E value \in Values : Parse(w, value)

Next == Unspoilt /\ \E w \in made : Reads(w) \/ Adds(w) \/ Changes(w)

Spec == Init /\ [][Next]_vars
-----------------------------------------------------------------------------
TypeOK ==
    /\ item \in [Items -> [type : Containers \cup {"scalar"}, string : Keys \cup {NoKey},
                           next : Items \cup {NULL}, prev : Items \cup {NULL},
                           child : Items \cup {NULL}]]
    /\ live \subseteq Items
    /\ Doc \in made /\ made \subseteq Objects
    /\ obj \in [Objects -> [m_pJsonData : Items \cup {NULL},
                            m_pExternJsonDataRef : Items \cup {NULL},
                            m_pKeyTravers : Items \cup {NULL},
                            m_mapJsonObjectRef : [Keys -> Objects \cup {NULL}],
                            m_mapJsonArrayRef : [Indexes -> Objects \cup {NULL}]]]

Roots == {Own(w) : w \in made} \ {NULL}

\* Whatever is added, detached and replaced, at either end and in the middle,
\* each item in use is in one place of one document, linked both ways, and no
\* operation gives an object a key it has already.  (What is parsed or put in as a
\* whole has at most one key in each object here; cJSON takes a text that repeats
\* one as it is.)
TreeIntact ==
    LET children == [c \in live |-> Children(item, c)]
        places(x) == {<<c, i>> \in live \X Items :
                          i \in DOMAIN children[c] /\ children[c][i] = x}
    IN /\ TypeOK
       /\ live = UNION {Below(item, r) : r \in Roots}
       /\ \A x \in live : Cardinality(places(x)) = IF x \in Roots THEN 0 ELSE 1
       /\ \A c \in live : \A i \in DOMAIN children[c] :
              LET x == children[c][i] IN
              /\ item[x].prev = IF i = 1 THEN NULL ELSE children[c][i - 1]
              /\ \A j \in 1 .. i - 1 : ~SameKey(item[x].string, item[children[c][j]].string)

\* Whatever operator[] keeps stands for the item that a new lookup would find,
\* or for nothing if that finds nothing; nothing is kept twice, and nothing is
\* lost.  The cursor is at an item of the document it runs through.
KeptIsCurrent ==
    Unspoilt => \A w \in made :
        LET o == obj[w] IN
        /\ \A k \in Keys : o.m_mapJsonObjectRef[k] # NULL =>
              LET v == o.m_mapJsonObjectRef[k] IN
              v \in made \ {Doc} /\ Own(v) = NULL /\ Focus(v) = Found(w, k)
        /\ \A i \in Indexes : o.m_mapJsonArrayRef[i] # NULL =>
              LET v == o.m_mapJsonArrayRef[i] IN
              v \in made \ {Doc} /\ Own(v) = NULL /\ Focus(v) = FoundAt(w, i)
        /\ \A v \in made \ {w} : Kept(v) \cap Kept(w) = {}
        /\ w = Doc \/ \E v \in made : w \in Kept(v)
        /\ Cursor(w) \in {NULL, Focus(w)} \cup
              (IF Focus(w) = NULL THEN {} ELSE ToSet(Children(item, Focus(w))))
=============================================================================
