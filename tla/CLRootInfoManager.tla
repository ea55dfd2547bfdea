------------------------- MODULE CLRootInfoManager -------------------------
(***************************************************************************)
(* The table of persistent roots in the metadata segment.  A record is the *)
(* word with the root's address, then the texts of its name and its type;  *)
(* a zero address marks the end of the table.  registRoot writes names and *)
(* end flag, flushes, writes the address and flushes again, so that a      *)
(* crash leaves the record whole or not at all.                            *)
(*                                                                         *)
(* Memory is counted in words of 8 bytes.  Any word may be evicted to NVM  *)
(* at any time, which stands for every progress of strcpy and clflushRange *)
(* that a crash can cut short.  m_rootsLock admits one operation at a      *)
(* time; findRoot's caller reads the address after it was released.        *)
(***************************************************************************)
EXTENDS Integers, FiniteSets

CONSTANTS
    Names,        \* names of roots, each with the name of its type
    Addresses,    \* addresses of objects, not NULL
    WordNum,      \* size of the table
    Size,         \* Size[n]: words of a record of name n, the address included
    Aligned,      \* names whose texts end on a word boundary
    Readers,      \* threads in findRoot
    MaxCrashes,   \* bound: how often the machine crashes
    END,          \* ROOTS_INFO_END, which is also NULL
    DELETED,      \* ROOTS_INFO_DELETED
    RUBBISH,      \* an address word that keeps the high bytes of an older word
    NoRoot,
    Idle

VARIABLES
    words,           \* the table as the CPU sees it
    nvm,             \* the table in NVM, without the CPU's cache
    m_roots,         \* m_roots[n]: where the record of n starts
    m_rootSpaceEnd,
    op,              \* the operation that has m_rootsLock
    found,           \* found[t]: what findRoot gave its caller
    system,          \* "down", "up", or "dead": the constructor cannot cope
    crashes,
    allowed,         \* history: the addresses a crash may leave to each root
    spoilt           \* history: what no restart can put right, see Spoils

disk == <<words, nvm>>
ghost == <<allowed, spoilt>>
rootVars == <<words, nvm, m_roots, m_rootSpaceEnd, op, found, system, crashes, allowed, spoilt>>

Stages     == {"names", "flush", "addr", "flushAddr", "insert", "set", "flushSet", "done"}
Positions  == 0 .. WordNum - 1
Text(n, i) == <<n, i>>          \* the i-th word of n's texts
Texts      == {<<n, i>> : n \in Names, i \in 1 .. WordNum}
Marks      == {END, DELETED, RUBBISH}
Words      == Addresses \cup Marks \cup Texts

\* Addresses, the marks and the words of texts are told apart.
ASSUME RootInfoAssumption ==
    /\ WordNum \in Nat \ {0}
    /\ Size \in [Names -> Nat \ {0, 1}]
    /\ Aligned \subseteq Names
    /\ MaxCrashes \in Nat
    /\ END # DELETED /\ END # RUBBISH /\ DELETED # RUBBISH
    /\ Addresses \cap Marks = {} /\ Texts \cap (Addresses \cup Marks) = {}
    /\ NoRoot \notin Positions \cup Addresses \cup Marks
    /\ Idle \notin [name : Names, pos : Positions]
    /\ Idle \notin [pc : Stages, name : Names, addr : Addresses \cup Marks, pos : Positions]

\* Three uses of the table after which a restart cannot find all roots:
\* a NULL address is the end flag, the iterator does not skip a deletion in
\* the first record, and an end flag that is not aligned clears the next
\* record's address word in part only.
Spoils == {"null", "first", "rubbish"}

-----------------------------------------------------------------------------
(* CLRootsIter over memory m: the live records, and where it stops. *)

TextAt(m, p, n) ==
    /\ p + Size[n] < WordNum
    /\ \A i \in 1 .. Size[n] - 1 : m[p + i] = Text(n, i)

\* A record the constructor can read: get() gives nullptr for a deletion, which
\* operator++ skips, but not at the start of the table.
Readable(m, p, n) ==
    /\ TextAt(m, p, n)
    /\ m[p] \in Addresses \/ (m[p] = DELETED /\ p > 0)

\* The iteration at p, given where it leads from each position.
WalkAt(m, p, from) ==
    LET here == {n \in Names : p \in Positions /\ Readable(m, p, n)}
        n    == CHOOSE x \in here : TRUE
        rest == from[p + Size[n]]
    IN  IF p \in Positions /\ m[p] = END THEN [live |-> {}, end |-> p]
        ELSE IF here = {} THEN [live |-> {}, end |-> WordNum]
        ELSE IF m[p] = DELETED THEN rest
        ELSE [live |-> rest.live \cup {<<n, p>>}, end |-> rest.end]

WalkFrom(m) ==
    LET from[p \in 0 .. WordNum] == WalkAt(m, p, from)
    IN  from

Walk(m) == WalkFrom(m)[0]

\* What a restart would find at n if the power failed now.
AddressesIn(m, n) ==
    LET hits == {r \in Walk(m).live : r[1] = n}
    IN  IF hits = {} THEN {NoRoot} ELSE {m[r[2]] : r \in hits}

RootInit ==
    /\ words = [p \in Positions |-> END]
    /\ nvm = words
    /\ m_roots = [n \in Names |-> NoRoot]
    /\ m_rootSpaceEnd = 0
    /\ op = Idle
    /\ found = [t \in Readers |-> Idle]
    /\ system = "up"
    /\ crashes = 0
    /\ allowed = [n \in Names |-> {NoRoot}]
    /\ spoilt = {}

Evict(p) ==
    /\ nvm' = [nvm EXCEPT ![p] = words[p]]
    /\ UNCHANGED <<words, m_roots, m_rootSpaceEnd, op, found, system, crashes, ghost>>

-----------------------------------------------------------------------------
(* registRoot *)

OpStep(from, to) == op # Idle /\ op.pc = from /\ op' = [op EXCEPT !.pc = to]

\* The root is new and the record fits, together with an end flag after it.
RegistRoot(n, a) ==
    /\ system = "up" /\ op = Idle
    /\ m_roots[n] = NoRoot
    /\ m_rootSpaceEnd + Size[n] + 1 <= WordNum
    /\ op' = [pc |-> "names", name |-> n, addr |-> a, pos |-> m_rootSpaceEnd]
    /\ allowed' = [allowed EXCEPT ![n] = @ \cup {a}]
    /\ spoilt' = spoilt \cup (IF a = END THEN {"null"} ELSE {})
    /\ UNCHANGED <<disk, m_roots, m_rootSpaceEnd, found, system, crashes>>

\* What the end flag leaves in the word after the record of n.
EndFlag(n, old) ==
    IF n \in Aligned \/ old = END THEN {END} ELSE {END, RUBBISH}

WriteNames ==
    /\ OpStep("names", "flush")
    /\ LET next == op.pos + Size[op.name] IN
       \E flag \in EndFlag(op.name, words[next]) :
          /\ words' = [p \in Positions |->
                          CASE p = next -> flag
                            [] p \in op.pos + 1 .. next - 1 -> Text(op.name, p - op.pos)
                            [] OTHER -> words[p]]
          /\ spoilt' = spoilt \cup (IF flag = RUBBISH THEN {"rubbish"} ELSE {})
    /\ UNCHANGED <<nvm, m_roots, m_rootSpaceEnd, found, system, crashes, allowed>>

\* Mutant: clflushRange is forgotten, the last clflush is thought to be enough.
FlushNamesSkipped ==
    /\ OpStep("flush", "addr")
    /\ UNCHANGED <<disk, m_roots, m_rootSpaceEnd, found, system, crashes, ghost>>

FlushNames ==
    /\ OpStep("flush", "addr")
    /\ nvm' = [p \in Positions |->
                  IF p \in op.pos .. op.pos + Size[op.name] THEN words[p] ELSE nvm[p]]
    /\ UNCHANGED <<words, m_roots, m_rootSpaceEnd, found, system, crashes, ghost>>

WriteAddr ==
    /\ \/ OpStep("addr", "flushAddr")
       \/ OpStep("set", "flushSet")
    /\ words' = [words EXCEPT ![op.pos] = op.addr]
    /\ UNCHANGED <<nvm, m_roots, m_rootSpaceEnd, found, system, crashes, ghost>>

FlushAddr ==
    /\ \/ OpStep("flushAddr", "insert")
       \/ OpStep("flushSet", "done")
    /\ nvm' = [nvm EXCEPT ![op.pos] = words[op.pos]]
    /\ UNCHANGED <<words, m_roots, m_rootSpaceEnd, found, system, crashes, ghost>>

\* The operation has returned: its address is the root's for good.
Settled == [allowed EXCEPT ![op.name] = {IF op.addr = DELETED THEN NoRoot ELSE op.addr}]

\* Mutant: m_rootSpaceEnd does not move past the new record.
InsertRootStays ==
    /\ op # Idle /\ op.pc = "insert"
    /\ op' = Idle
    /\ m_roots' = [m_roots EXCEPT ![op.name] = op.pos]
    /\ allowed' = Settled
    /\ UNCHANGED <<disk, m_rootSpaceEnd, found, system, crashes, spoilt>>

InsertRoot ==
    /\ op # Idle /\ op.pc = "insert"
    /\ op' = Idle
    /\ m_rootSpaceEnd' = op.pos + Size[op.name]
    /\ m_roots' = [m_roots EXCEPT ![op.name] = op.pos]
    /\ allowed' = Settled
    /\ UNCHANGED <<disk, found, system, crashes, spoilt>>

-----------------------------------------------------------------------------
(* setRootNodeAddr, and deleteRoot, which sets DELETED. *)

SetRootNodeAddr(n, a) ==
    /\ system = "up" /\ op = Idle
    /\ m_roots[n] # NoRoot
    /\ op' = [pc |-> "set", name |-> n, addr |-> a, pos |-> m_roots[n]]
    /\ allowed' = [allowed EXCEPT ![n] = @ \cup {IF a = DELETED THEN NoRoot ELSE a}]
    /\ spoilt' = spoilt \cup (IF a = END THEN {"null"} ELSE {})
                        \cup (IF a = DELETED /\ m_roots[n] = 0 THEN {"first"} ELSE {})
    /\ UNCHANGED <<disk, m_roots, m_rootSpaceEnd, found, system, crashes>>

SetDone ==
    /\ op # Idle /\ op.pc = "done"
    /\ op' = Idle
    /\ m_roots' = IF op.addr = DELETED THEN [m_roots EXCEPT ![op.name] = NoRoot] ELSE m_roots
    /\ allowed' = Settled
    /\ UNCHANGED <<disk, m_rootSpaceEnd, found, system, crashes, spoilt>>

(* findRoot: the lookup is locked, the read of the address is not. *)

FindRoot(t, n) ==
    /\ system = "up" /\ op = Idle
    /\ found[t] = Idle
    /\ m_roots[n] # NoRoot
    /\ found' = [found EXCEPT ![t] = [name |-> n, pos |-> m_roots[n]]]
    /\ UNCHANGED <<disk, m_roots, m_rootSpaceEnd, op, system, crashes, ghost>>

ReadAddr(t) ==
    /\ found[t] # Idle
    /\ found' = [found EXCEPT ![t] = Idle]
    /\ UNCHANGED <<disk, m_roots, m_rootSpaceEnd, op, system, crashes, ghost>>

-----------------------------------------------------------------------------
Crash ==
    /\ system = "up"
    /\ crashes < MaxCrashes
    /\ crashes' = crashes + 1
    /\ system' = "down"
    /\ words' = nvm
    /\ m_roots' = [n \in Names |-> NoRoot]
    /\ m_rootSpaceEnd' = 0
    /\ op' = Idle
    /\ found' = [t \in Readers |-> Idle]
    /\ UNCHANGED <<nvm, ghost>>

\* The constructor.  A name that occurs twice keeps its first record.
Restart ==
    /\ system = "down"
    /\ LET walk == Walk(words)
           at(n) == {r[2] : r \in {x \in walk.live : x[1] = n}} IN
       /\ m_roots' = [n \in Names |->
                         IF at(n) = {} THEN NoRoot
                         ELSE CHOOSE p \in at(n) : \A q \in at(n) : p <= q]
       /\ m_rootSpaceEnd' = walk.end
       /\ system' = IF walk.end = WordNum THEN "dead" ELSE "up"
    /\ allowed' = [n \in Names |-> AddressesIn(words, n)]
    /\ UNCHANGED <<disk, op, found, crashes, spoilt>>

RootNext ==
    \/ \E p \in Positions : Evict(p)
    \/ \E n \in Names, a \in Addresses \cup {END} : RegistRoot(n, a)
    \/ WriteNames \/ FlushNames \/ WriteAddr \/ FlushAddr \/ InsertRoot
    \/ \E n \in Names, a \in Addresses \cup {END, DELETED} : SetRootNodeAddr(n, a)
    \/ SetDone
    \/ \E t \in Readers : ReadAddr(t) \/ \E n \in Names : FindRoot(t, n)
    \/ Crash \/ Restart

RootSpec == RootInit /\ [][RootNext]_rootVars

-----------------------------------------------------------------------------
Operations ==
    [pc   : Stages,
     name : Names,
     addr : Addresses \cup {END, DELETED},
     pos  : Positions]

RootTypeOK ==
    /\ words \in [Positions -> Words]
    /\ nvm \in [Positions -> Words]
    /\ m_roots \in [Names -> Positions \cup {NoRoot}]
    /\ m_rootSpaceEnd \in 0 .. WordNum
    /\ op \in Operations \cup {Idle}
    /\ op # Idle => op.pos + Size[op.name] \in Positions
    /\ found \in [Readers -> [name : Names, pos : Positions] \cup {Idle}]
    /\ system \in {"down", "up", "dead"}
    /\ crashes \in 0 .. MaxCrashes
    /\ allowed \in [Names -> SUBSET (Addresses \cup {END, NoRoot})]
    /\ spoilt \subseteq Spoils

\* The end mark behind a full table still lies in the table (RootTypeOK).
TableReadable ==
    /\ RootTypeOK
    /\ spoilt = {} /\ system = "up" =>
          \/ Walk(nvm).end = m_rootSpaceEnd
          \/ op # Idle /\ Walk(nvm).end = op.pos + Size[op.name]

\* Whenever the power fails, the next start can read the table to its end, goes
\* on where registRoot stopped, before the record in progress or after it, and
\* finds of every root the address of its last finished operation, or of the one
\* in progress: never a torn record, a root deleted before, or a name twice.
RootsSurvive ==
    /\ TableReadable
    /\ spoilt = {} =>
          \A n \in Names : \E a \in allowed[n] : AddressesIn(nvm, n) = {a}

\* findRoot's caller reads late, but from the record of the root it asked for:
\* an address the root has or had, or the mark of its deletion.
FindsRightRoot ==
    \A t \in Readers : found[t] # Idle =>
        \A i \in 1 .. Size[found[t].name] - 1 :
            words[found[t].pos + i] = Text(found[t].name, i)
=============================================================================
