----------------------------- MODULE CLFreeList -----------------------------
(***************************************************************************)
(* CLFreeList: the lock-free stack of free nodes (central heap segments,   *)
(* queue nodes, free chunks of a run).  Its head is one 64-bit word: a     *)
(* 48-bit pointer and a 16-bit version that every successful compare-and-  *)
(* swap increments, so that a head that went A -> B -> A is told from one  *)
(* that never moved.  Each load, store and compare-and-swap is a step.     *)
(***************************************************************************)
EXTENDS Naturals, Sequences

CONSTANTS
    Threads,
    Nodes,
    NULL,
    Versions    \* the number of version tags, 2^16 in the code

ASSUME FreeListAssumption ==
    /\ NULL \notin Nodes
    /\ Versions \in Nat \ {0}

VARIABLES
    head,    \* m_next of the list: [ptr, ver]
    link,    \* link[n]: m_next of node n, the client's data while n is held
    pc,      \* where each thread is inside pop() or push()
    origin,  \* the local originHead of pop() and push()
    next,    \* the local next of pop()
    arg,     \* nodeToInsert of push()
    held,    \* held[t]: nodes pop() returned to t that t has not pushed
    stack,   \* history: what the list holds, top first
    age      \* history: compare-and-swaps that succeeded since t read head

vars == <<head, link, pc, origin, next, arg, held, stack, age>>

Pointers == Nodes \cup {NULL}
Heads    == [ptr : Pointers, ver : 0 .. Versions - 1]
NoHead   == [ptr |-> NULL, ver |-> 0]

InPop    == {"popNext", "popCas"}
InPush   == {"pushLink", "pushCas"}
InWindow(t) == pc[t] \in InPop \cup InPush

\* Leaving the window, the locals of the iteration die.
ForgetLocals(t) ==
    /\ origin' = [origin EXCEPT ![t] = NoHead]
    /\ next' = [next EXCEPT ![t] = NULL]

\* Mutant: the version never moves.
makePtrKeepsVersion(old, updated) == [ptr |-> updated, ver |-> old.ver]

\* The head that replaces old: the new pointer under the next version.
makePtr(old, updated) ==
    [ptr |-> updated, ver |-> IF old.ver + 1 = Versions THEN 0 ELSE old.ver + 1]

-----------------------------------------------------------------------------
Init ==
    /\ head = NoHead
    /\ link \in [Nodes -> Pointers]
    /\ pc = [t \in Threads |-> "idle"]
    /\ origin = [t \in Threads |-> NoHead]
    /\ next = [t \in Threads |-> NULL]
    /\ arg = [t \in Threads |-> NULL]
    /\ \E taker \in [Nodes -> Threads] :
          held = [t \in Threads |-> {n \in Nodes : taker[n] = t}]
    /\ stack = <<>>
    /\ age = [t \in Threads |-> 0]

\* Reads the head into the thread's local copy and enters the window that
\* its compare-and-swap will close.
ReadHead(t, where) ==
    /\ origin' = [origin EXCEPT ![t] = head]
    /\ pc' = [pc EXCEPT ![t] = where]

PopReadHead(t) ==
    /\ pc[t] \in {"idle", "popRetry"}
    /\ head.ptr # NULL
    /\ ReadHead(t, "popNext")
    /\ UNCHANGED <<head, link, next, arg, held, stack, age>>

\* The list is empty: pop() returns NULL.
PopEmpty(t) ==
    /\ pc[t] = "popRetry"
    /\ head.ptr = NULL
    /\ pc' = [pc EXCEPT ![t] = "idle"]
    /\ UNCHANGED <<head, link, origin, next, arg, held, stack, age>>

\* Reads through a pointer that may have been popped meanwhile: the value is
\* then whatever its new holder left there.
PopReadNext(t) ==
    /\ pc[t] = "popNext"
    /\ next' = [next EXCEPT ![t] = link[origin[t].ptr]]
    /\ pc' = [pc EXCEPT ![t] = "popCas"]
    /\ UNCHANGED <<head, link, origin, arg, held, stack, age>>

PushReadHead(t) ==
    /\ \/ /\ pc[t] = "idle"
          /\ \E n \in held[t] : arg' = [arg EXCEPT ![t] = n]
       \/ /\ pc[t] = "pushRetry"
          /\ UNCHANGED arg
    /\ ReadHead(t, "pushLink")
    /\ UNCHANGED <<head, link, next, held, stack, age>>

PushWriteLink(t) ==
    /\ pc[t] = "pushLink"
    /\ link' = [link EXCEPT ![arg[t]] = origin[t].ptr]
    /\ pc' = [pc EXCEPT ![t] = "pushCas"]
    /\ UNCHANGED <<head, origin, next, arg, held, stack, age>>

\* Bound: a thread is never suspended inside its window for as many as
\* Versions successful compare-and-swaps of the others (2^16 in the code).
WindowBound(t) ==
    \A u \in Threads \ {t} : InWindow(u) => age[u] + 1 < Versions

Swap(t, new) ==
    /\ head = origin[t]
    /\ WindowBound(t)
    /\ head' = makePtr(origin[t], new)
    /\ pc' = [pc EXCEPT ![t] = "idle"]
    /\ age' = [u \in Threads |-> IF u # t /\ InWindow(u) THEN age[u] + 1 ELSE 0]
    /\ ForgetLocals(t)

PopSwap(t) ==
    /\ pc[t] = "popCas"
    /\ Swap(t, next[t])
    /\ held' = [held EXCEPT ![t] = @ \cup {origin[t].ptr}]
    /\ stack' = IF stack = <<>> THEN <<>> ELSE Tail(stack)
    /\ UNCHANGED <<link, arg>>

PushSwap(t) ==
    /\ pc[t] = "pushCas"
    /\ Swap(t, arg[t])
    /\ held' = [held EXCEPT ![t] = @ \ {arg[t]}]
    /\ stack' = <<arg[t]>> \o stack
    /\ arg' = [arg EXCEPT ![t] = NULL]
    /\ UNCHANGED link

\* Mutant: the loop tries again with the head it read the first time.
SwapFailsKeepsOrigin(t) ==
    /\ head # origin[t]
    /\ pc[t] \in {"popCas", "pushCas"}
    /\ UNCHANGED vars

\* The compare-and-swap fails: back to the top of the do-while loop.
SwapFails(t) ==
    /\ head # origin[t]
    /\ \/ pc[t] = "popCas"  /\ pc' = [pc EXCEPT ![t] = "popRetry"]
       \/ pc[t] = "pushCas" /\ pc' = [pc EXCEPT ![t] = "pushRetry"]
    /\ age' = [age EXCEPT ![t] = 0]
    /\ ForgetLocals(t)
    /\ UNCHANGED <<head, link, arg, held, stack>>

\* The holder of a node uses its memory; the link shares it with the data
\* (the union in STCacheLineListNode, the chunks of CLDRAMRun).
UseNode(t, n) ==
    /\ pc[t] = "idle"
    /\ n \in held[t]
    /\ \E p \in Pointers : link' = [link EXCEPT ![n] = p]
    /\ UNCHANGED <<head, pc, origin, next, arg, held, stack, age>>

Operate(t) ==
    \/ PopEmpty(t)
    \/ PopReadNext(t)
    \/ PopSwap(t)
    \/ PushWriteLink(t)
    \/ PushSwap(t)
    \/ SwapFails(t)
    \/ pc[t] = "popRetry" /\ PopReadHead(t)
    \/ pc[t] = "pushRetry" /\ PushReadHead(t)

Next ==
    \E t \in Threads :
        \/ PopReadHead(t) \/ PopEmpty(t) \/ PopReadNext(t) \/ PopSwap(t)
        \/ PushReadHead(t) \/ PushWriteLink(t) \/ PushSwap(t)
        \/ SwapFails(t)
        \/ \E n \in Nodes : UseNode(t, n)

Spec == Init /\ [][Next]_vars

\* The operating system keeps running a thread that is inside an operation;
\* nothing obliges a thread to start one.
FairSpec == Spec /\ \A t \in Threads : WF_vars(Operate(t))

-----------------------------------------------------------------------------
Listed == {stack[i] : i \in DOMAIN stack}

TypeOK ==
    /\ head \in Heads
    /\ link \in [Nodes -> Pointers]
    /\ pc \in [Threads -> InPop \cup InPush \cup {"idle", "popRetry", "pushRetry"}]
    /\ origin \in [Threads -> Heads]
    /\ next \in [Threads -> Pointers]
    /\ arg \in [Threads -> Pointers]
    /\ held \in [Threads -> SUBSET Nodes]
    /\ stack \in Seq(Nodes)
    /\ age \in [Threads -> 0 .. Versions - 1]

\* A node is never handed to two callers of pop(), and a node a caller works
\* with is not in the list, whatever the interleaving of pops and pushes.
Exclusive ==
    /\ \A t, u \in Threads : t # u => held[t] \cap held[u] = {}
    /\ \A t \in Threads : held[t] \cap Listed = {}
    /\ \A i, j \in DOMAIN stack : stack[i] = stack[j] => i = j

\* No node leaks: what no thread holds is in the list.
NoNodeLost == Listed \cup UNION {held[t] : t \in Threads} = Nodes

\* Following m_next from the head visits exactly the listed nodes, in order,
\* and ends in NULL: the list is never cut, spliced or made circular.
ListIntact ==
    /\ head.ptr = IF stack = <<>> THEN NULL ELSE stack[1]
    /\ \A i \in DOMAIN stack :
          link[stack[i]] = IF i = Len(stack) THEN NULL ELSE stack[i + 1]

\* CLFreeList implements the stack whose operations are indivisible.
FS == INSTANCE FreeStack
ImplementsFreeStack == FS!Spec

\* Lock freedom: as long as some thread is inside an operation, operations
\* keep completing, even though a given one may retry for ever.
LockFree ==
    \/ []<>(\A t \in Threads : pc[t] = "idle")
    \/ []<><<\E t \in Threads : PopSwap(t) \/ PushSwap(t)>>_vars
=============================================================================
