----------------------- MODULE BaseStructuresProofs -----------------------
(***************************************************************************)
(* The three structures that the rest of the allocator is built on.        *)
(*                                                                         *)
(* CLFreeList is exclusive, loses no node and implements FreeStack, for    *)
(* any threads, any nodes and any number of version tags.                  *)
(*                                                                         *)
(* The radix tree of extents implements a function from pages to extents,  *)
(* and has a leaf exactly where there are extents, for slots of any number *)
(* on both levels.                                                         *)
(*                                                                         *)
(* The table of roots in NVM survives a crash between any two stores, for  *)
(* any names, readers and number of crashes and any size of the table, and *)
(* a reader without the lock reads the record of the root it asked for.    *)
(***************************************************************************)
EXTENDS CLFreeList, CLExtentRadixTree, CLRootInfoManager,
        SequenceTheorems, FiniteSetTheorems, WellFoundedInduction, TLAPS

-----------------------------------------------------------------------------
(* The lock-free stack. *)

\* The version v after k successful compare-and-swaps.
After(v, k) == IF v + k < Versions THEN v + k ELSE v + k - Versions

\* What a thread's locals say about the list.  The first conjunct is what the
\* version buys: while it is inside its window, a thread's copy of the head
\* carries the current version only if no compare-and-swap succeeded since.
LocalsOK(t) ==
    /\ InWindow(t) => /\ head.ver = After(origin[t].ver, age[t])
                      /\ age[t] = 0 => head = origin[t]
    /\ pc[t] \in InPop => origin[t].ptr # NULL
    /\ pc[t] = "popCas" /\ age[t] = 0 => next[t] = link[origin[t].ptr]
    /\ pc[t] \in InPush \cup {"pushRetry"} => arg[t] \in held[t]
    /\ pc[t] = "pushCas" => link[arg[t]] = origin[t].ptr
    /\ ~InWindow(t) => age[t] = 0

IInv ==
    /\ TypeOK
    /\ Exclusive
    /\ NoNodeLost
    /\ ListIntact
    /\ \A t \in Threads : LocalsOK(t)

-----------------------------------------------------------------------------
\* Only an untouched window leaves the version as the thread read it.
LEMMA VersionTells ==
    ASSUME TypeOK, NEW t \in Threads, LocalsOK(t), InWindow(t), head = origin[t]
    PROVE  age[t] = 0
  BY FreeListAssumption DEF TypeOK, LocalsOK, InWindow, Heads, After

\* The sequence a pop and a push leave, by position.
LEMMA TailOfStack ==
    ASSUME NEW s \in Seq(Nodes), s # <<>>
    PROVE  /\ Tail(s) \in Seq(Nodes)
           /\ Len(Tail(s)) = Len(s) - 1
           /\ Len(s) \in Nat \ {0}
           /\ s[1] \in Nodes
           /\ DOMAIN Tail(s) = 1 .. Len(s) - 1
           /\ DOMAIN s = 1 .. Len(s)
           /\ \A i \in 1 .. Len(s) - 1 : Tail(s)[i] = s[i + 1]
           /\ Head(s) = s[1]
  BY HeadTailProperties, LenProperties, EmptySeq

LEMMA PushOnStack ==
    ASSUME NEW s \in Seq(Nodes), NEW n \in Nodes
    PROVE  /\ <<n>> \o s \in Seq(Nodes)
           /\ Len(<<n>> \o s) = Len(s) + 1
           /\ Len(s) \in Nat
           /\ DOMAIN (<<n>> \o s) = 1 .. Len(s) + 1
           /\ DOMAIN s = 1 .. Len(s)
           /\ (<<n>> \o s)[1] = n
           /\ \A i \in 1 .. Len(s) : (<<n>> \o s)[i + 1] = s[i]
           /\ <<n>> \o s # <<>>
  <1>1. <<n>> \in Seq(Nodes) /\ Len(<<n>>) = 1 /\ <<n>>[1] = n
    OBVIOUS
  <1>2. /\ <<n>> \o s \in Seq(Nodes)
        /\ Len(<<n>> \o s) = 1 + Len(s)
        /\ \A i \in 1 .. 1 + Len(s) : 
             (<<n>> \o s)[i] = IF i <= 1 THEN <<n>>[i] ELSE s[i - 1]
    BY <1>1, ConcatProperties
  <1>3. Len(s) \in Nat /\ DOMAIN s = 1 .. Len(s)
    BY LenProperties
  <1> QED  BY <1>1, <1>2, <1>3, LenProperties, EmptySeq

LEMMA InitIInv == Init => IInv
  <1> SUFFICES ASSUME Init PROVE IInv
    OBVIOUS
  <1>1. PICK taker \in [Nodes -> Threads] :
           held = [t \in Threads |-> {n \in Nodes : taker[n] = t}]
    BY DEF Init
  <1>2. stack = <<>> /\ DOMAIN stack = {} /\ Listed = {}
    BY DEF Init, Listed
  <1>3. TypeOK
    BY <1>1, <1>2, FreeListAssumption
       DEF Init, TypeOK, Heads, NoHead, Pointers, InPop, InPush
  <1>4. Exclusive
    BY <1>1, <1>2 DEF Exclusive
  <1>5. NoNodeLost
    BY <1>1, <1>2 DEF NoNodeLost
  <1>6. ListIntact
    BY <1>2 DEF Init, ListIntact, NoHead
  <1>7. ASSUME NEW t \in Threads PROVE LocalsOK(t)
    BY <1>7 DEF Init, LocalsOK, InWindow, InPop, InPush
  <1> QED  BY <1>3, <1>4, <1>5, <1>6, <1>7 DEF IInv

-----------------------------------------------------------------------------
\* Steps that touch neither the head, a link, the list nor who holds what.
LEMMA LocalStep ==
    ASSUME IInv, NEW t \in Threads,
           PopReadHead(t) \/ PopEmpty(t) \/ PopReadNext(t) \/ PushReadHead(t) \/ SwapFails(t)
    PROVE  IInv'
  <1> USE DEF IInv
  <1>1. UNCHANGED <<head, link, held, stack>>
    BY DEF PopReadHead, PopEmpty, PopReadNext, PushReadHead, SwapFails
  <1>2. Exclusive' /\ NoNodeLost' /\ ListIntact'
    BY <1>1 DEF Exclusive, NoNodeLost, ListIntact, Listed
  <1>3. CASE PopReadHead(t)
    <2>1. TypeOK'
      BY <1>3, <1>1 DEF TypeOK, PopReadHead, ReadHead, InPop
    <2>2. ASSUME NEW u \in Threads PROVE LocalsOK(u)'
      BY <1>3, <1>1, FreeListAssumption
         DEF TypeOK, PopReadHead, ReadHead, LocalsOK, InWindow, InPop, InPush, After, Heads
    <2> QED  BY <1>2, <2>1, <2>2
  <1>4. CASE PopEmpty(t)
    <2>1. TypeOK'
      BY <1>4, <1>1 DEF TypeOK, PopEmpty
    <2>2. ASSUME NEW u \in Threads PROVE LocalsOK(u)'
      BY <1>4, <1>1 DEF TypeOK, PopEmpty, LocalsOK, InWindow, InPop, InPush, After
    <2> QED  BY <1>2, <2>1, <2>2
  <1>5. CASE PopReadNext(t)
    <2>1. origin[t].ptr \in Nodes
      BY <1>5 DEF TypeOK, LocalsOK, PopReadNext, InPop, Heads, Pointers
    <2>2. TypeOK'
      BY <1>5, <1>1, <2>1 DEF TypeOK, PopReadNext, InPop
    <2>3. ASSUME NEW u \in Threads PROVE LocalsOK(u)'
      BY <1>5, <1>1 DEF TypeOK, PopReadNext, LocalsOK, InWindow, InPop, InPush, After
    <2> QED  BY <1>2, <2>2, <2>3
  <1>6. CASE PushReadHead(t)
    <2>1. arg' \in [Threads -> Pointers] /\ arg'[t] \in held[t]
          /\ \A u \in Threads \ {t} : arg'[u] = arg[u]
      BY <1>6 DEF TypeOK, PushReadHead, LocalsOK, Pointers
    <2>2. TypeOK'
      BY <1>6, <1>1, <2>1 DEF TypeOK, PushReadHead, ReadHead, InPush
    <2>3. pc[t] \in {"idle", "pushRetry"}
      BY <1>6 DEF PushReadHead
    <2>4. ASSUME NEW u \in Threads PROVE LocalsOK(u)'
      BY <1>6, <1>1, <2>1, <2>3, FreeListAssumption
         DEF TypeOK, PushReadHead, ReadHead, LocalsOK, InWindow, InPop, InPush, After, Heads
    <2> QED  BY <1>2, <2>2, <2>4
  <1>7. CASE SwapFails(t)
    <2>1. PICK retry \in {"popRetry", "pushRetry"} :
            /\ pc' = [pc EXCEPT ![t] = retry]
            /\ pc[t] = IF retry = "popRetry" THEN "popCas" ELSE "pushCas"
      BY <1>7 DEF SwapFails
    <2>2. TypeOK'
      <3>1. NoHead \in Heads /\ 0 \in 0 .. Versions - 1
        BY FreeListAssumption DEF NoHead, Heads, Pointers
      <3>2. /\ origin' = [origin EXCEPT ![t] = NoHead]
            /\ next' = [next EXCEPT ![t] = NULL]
            /\ age' = [age EXCEPT ![t] = 0]
            /\ UNCHANGED <<head, link, arg, held, stack>>
        BY <1>7 DEF SwapFails, ForgetLocals
      <3> QED  BY <2>1, <3>1, <3>2 DEF TypeOK, Pointers
    <2>3. ASSUME NEW u \in Threads PROVE LocalsOK(u)'
      BY <1>7, <1>1, <2>1
         DEF TypeOK, SwapFails, ForgetLocals, LocalsOK, InWindow, InPop, InPush, After
    <2> QED  BY <1>2, <2>2, <2>3
  <1> QED  BY <1>3, <1>4, <1>5, <1>6, <1>7

\* Steps that write the link of a node the thread holds.
LEMMA LinkStep ==
    ASSUME IInv, NEW t \in Threads, NEW n \in held[t], NEW p \in Pointers,
           link' = [link EXCEPT ![n] = p],
           UNCHANGED <<head, origin, next, arg, held, stack, age>>,
           \/ UNCHANGED pc /\ pc[t] = "idle"
           \/ pc[t] = "pushLink" /\ n = arg[t] /\ p = origin[t].ptr
                /\ pc' = [pc EXCEPT ![t] = "pushCas"]
    PROVE  IInv'
  <1> USE DEF IInv
  <1>1. n \in Nodes /\ n \notin Listed
    BY DEF TypeOK, Exclusive
  <1>2. TypeOK'
    BY <1>1 DEF TypeOK, InPush
  <1>3. Exclusive' /\ NoNodeLost'
    BY DEF Exclusive, NoNodeLost, Listed
  <1>4. ASSUME NEW m \in Nodes, m # n PROVE link'[m] = link[m]
    BY <1>4, <1>1 DEF TypeOK
  <1>5. ListIntact'
    BY <1>1, <1>4, LenProperties DEF TypeOK, ListIntact, Listed
  <1>6. ASSUME NEW u \in Threads PROVE LocalsOK(u)'
    <2>1. InWindow(u)' <=> InWindow(u)
      BY DEF InWindow, InPush, TypeOK
    <2>2. ASSUME pc'[u] = "popCas", age[u] = 0 PROVE next[u] = link'[origin[u].ptr]
      <3>1. pc[u] = "popCas" /\ u # t
        BY <2>2 DEF TypeOK
      <3>2. head = origin[u] /\ origin[u].ptr # NULL /\ next[u] = link[origin[u].ptr]
        BY <3>1, <2>2 DEF LocalsOK, InWindow, InPop
      <3>3. head.ptr \in Listed /\ head.ptr \in Nodes
        <4>1. stack # <<>> /\ head.ptr = stack[1]
          BY <3>2 DEF ListIntact
        <4> QED  BY <4>1, TailOfStack DEF Listed, TypeOK
      <3> QED  BY <3>2, <3>3, <1>1, <1>4
    <2>3. ASSUME pc'[u] = "pushCas" PROVE link'[arg[u]] = origin[u].ptr
      <3>1. CASE u = t
        BY <3>1, <2>3, <1>1 DEF TypeOK
      <3>2. CASE u # t
        <4>1. pc[u] = "pushCas"
          BY <3>2, <2>3 DEF TypeOK
        <4>2. arg[u] \in held[u] /\ link[arg[u]] = origin[u].ptr
          BY <4>1 DEF LocalsOK, InPush
        <4> QED  BY <4>2, <3>2, <1>4 DEF Exclusive, TypeOK
      <3> QED  BY <3>1, <3>2
    <2> QED  BY <2>1, <2>2, <2>3 DEF LocalsOK, TypeOK, InPop, InPush, After
  <1> QED  BY <1>2, <1>3, <1>5, <1>6

\* The step of the version and of the windows when t swaps the head.
LEMMA SwapMovesVersion ==
    ASSUME IInv, NEW t \in Threads, NEW p \in Pointers, Swap(t, p), InWindow(t)
    PROVE  /\ head' \in Heads /\ head'.ptr = p
           /\ pc' \in [Threads -> InPop \cup InPush \cup {"idle", "popRetry", "pushRetry"}]
           /\ origin' \in [Threads -> Heads]
           /\ next' \in [Threads -> Pointers]
           /\ age' \in [Threads -> 0 .. Versions - 1]
           /\ age'[t] = 0 /\ pc'[t] = "idle"
           /\ \A u \in Threads \ {t} :
                /\ pc'[u] = pc[u] /\ origin'[u] = origin[u] /\ next'[u] = next[u]
                /\ InWindow(u) => age'[u] # 0 /\ head'.ver = After(origin[u].ver, age'[u])
                /\ ~InWindow(u) => age'[u] = 0
  <1> USE FreeListAssumption DEF IInv
  <1>1. head' = [ptr |-> p, ver |-> IF head.ver + 1 = Versions THEN 0 ELSE head.ver + 1]
    BY DEF Swap, makePtr
  <1>2. head.ver \in 0 .. Versions - 1
    BY DEF TypeOK, Heads
  <1>3. head' \in Heads /\ head'.ptr = p
    BY <1>1, <1>2 DEF Heads
  <1>4. ASSUME NEW u \in Threads \ {t}, InWindow(u)
        PROVE  /\ age[u] + 1 \in 0 .. Versions - 1
               /\ head'.ver = After(origin[u].ver, age[u] + 1)
    <2>1. age[u] + 1 < Versions
      BY <1>4 DEF Swap, WindowBound
    <2>2. age[u] \in 0 .. Versions - 1 /\ origin[u].ver \in 0 .. Versions - 1
      BY DEF TypeOK, Heads
    <2>3. head.ver = After(origin[u].ver, age[u])
      BY <1>4 DEF LocalsOK
    <2> QED  BY <2>1, <2>2, <2>3, <1>1, <1>2 DEF After
  <1>5. age' \in [Threads -> 0 .. Versions - 1]
    BY <1>4 DEF Swap, TypeOK
  <1>6. origin' \in [Threads -> Heads] /\ next' \in [Threads -> Pointers]
    BY DEF Swap, ForgetLocals, TypeOK, NoHead, Heads, Pointers
  <1>7. pc' \in [Threads -> InPop \cup InPush \cup {"idle", "popRetry", "pushRetry"}]
    BY DEF Swap, TypeOK
  <1>8. age'[t] = 0 /\ pc'[t] = "idle"
    BY DEF Swap, TypeOK
  <1>9. ASSUME NEW u \in Threads \ {t}
        PROVE /\ pc'[u] = pc[u] /\ origin'[u] = origin[u] /\ next'[u] = next[u]
              /\ InWindow(u) => age'[u] = age[u] + 1
              /\ ~InWindow(u) => age'[u] = 0
    BY DEF Swap, ForgetLocals, TypeOK
  <1>10. ASSUME NEW u \in Threads \ {t}, InWindow(u)
         PROVE  age'[u] # 0 /\ head'.ver = After(origin[u].ver, age'[u])
    BY <1>4, <1>9, <1>10 DEF TypeOK
  <1> QED  BY <1>3, <1>5, <1>6, <1>7, <1>8, <1>9, <1>10

\* A pop that swaps takes the top node: the thread's stale-looking locals are
\* exact, because the version says no other swap came between.
LEMMA PopTakesTop ==
    ASSUME IInv, NEW t \in Threads, PopSwap(t)
    PROVE  /\ stack # <<>> /\ origin[t].ptr = stack[1] /\ stack[1] \in Nodes
           /\ next[t] = link[stack[1]]
  <1> USE DEF IInv
  <1>1. InWindow(t) /\ pc[t] = "popCas" /\ head = origin[t]
    BY DEF PopSwap, Swap, InWindow, InPop
  <1>2. age[t] = 0
    BY <1>1, VersionTells
  <1>3. origin[t].ptr # NULL /\ next[t] = link[origin[t].ptr]
    BY <1>1, <1>2 DEF LocalsOK, InPop
  <1>4. stack # <<>> /\ origin[t].ptr = stack[1]
    BY <1>1, <1>3 DEF ListIntact
  <1> QED  BY <1>3, <1>4, TailOfStack DEF TypeOK

LEMMA PopSwapStep ==
    ASSUME IInv, NEW t \in Threads, PopSwap(t)
    PROVE  IInv'
  <1> USE DEF IInv
  <1> DEFINE n == stack[1]
  <1>1. /\ stack # <<>> /\ origin[t].ptr = n /\ n \in Nodes
        /\ next[t] = link[n] /\ n \in Listed
    BY PopTakesTop, TailOfStack DEF Listed, TypeOK
  <1>2. /\ Swap(t, next[t]) /\ InWindow(t) /\ next[t] \in Pointers
        /\ UNCHANGED <<link, arg>>
        /\ held' = [held EXCEPT ![t] = @ \cup {n}]
        /\ stack' = Tail(stack)
    BY <1>1 DEF PopSwap, InWindow, InPop, TypeOK
  <1>3. /\ stack' \in Seq(Nodes)
        /\ DOMAIN stack' = 1 .. Len(stack) - 1 /\ DOMAIN stack = 1 .. Len(stack)
        /\ Len(stack') = Len(stack) - 1 /\ Len(stack) \in Nat \ {0}
        /\ \A i \in 1 .. Len(stack) - 1 : stack'[i] = stack[i + 1]
    BY <1>1, <1>2, TailOfStack DEF TypeOK
  <1>4. TypeOK'
    BY <1>1, <1>2, <1>3, SwapMovesVersion DEF TypeOK
  <1>5. Listed' = Listed \ {n}
    <2>1. ASSUME NEW m \in Listed' PROVE m \in Listed \ {n}
      <3>1. PICK i \in 1 .. Len(stack) - 1 : m = stack'[i]
        BY <2>1, <1>3 DEF Listed
      <3>2. m = stack[i + 1] /\ i + 1 \in DOMAIN stack /\ 1 \in DOMAIN stack /\ i + 1 # 1
        BY <3>1, <1>3
      <3> QED  BY <3>2 DEF Exclusive, Listed
    <2>2. ASSUME NEW m \in Listed \ {n} PROVE m \in Listed'
      <3>1. PICK i \in 1 .. Len(stack) : m = stack[i] /\ i # 1
        BY <2>2, <1>3 DEF Listed
      <3>2. i - 1 \in 1 .. Len(stack) - 1 /\ stack'[i - 1] = stack[(i - 1) + 1]
        BY <3>1, <1>3
      <3> QED  BY <3>1, <3>2, <1>3 DEF Listed
    <2> QED  BY <2>1, <2>2
  <1>6. Exclusive'
    <2>1. \A u, v \in Threads : u # v => held'[u] \cap held'[v] = {}
      BY <1>1, <1>2 DEF Exclusive, TypeOK
    <2>2. \A u \in Threads : held'[u] \cap Listed' = {}
      BY <1>1, <1>2, <1>5 DEF Exclusive, TypeOK
    <2>3. ASSUME NEW i \in DOMAIN stack', NEW j \in DOMAIN stack', stack'[i] = stack'[j]
          PROVE  i = j
      <3>1. stack[i + 1] = stack[j + 1] /\ i + 1 \in DOMAIN stack /\ j + 1 \in DOMAIN stack
        BY <1>3, <2>3
      <3> QED  BY <3>1, <1>3 DEF Exclusive
    <2> QED  BY <2>1, <2>2, <2>3 DEF Exclusive
  <1>7. NoNodeLost'
    BY <1>1, <1>2, <1>5 DEF NoNodeLost, TypeOK
  <1>8. ListIntact'
    <2>1. head'.ptr = link[n]
      BY <1>1, <1>2, SwapMovesVersion
    <2>2. link[n] = IF 1 = Len(stack) THEN NULL ELSE stack[2]
      BY <1>1, <1>3 DEF ListIntact
    <2>3. stack' = <<>> <=> Len(stack) = 1
      BY <1>3, EmptySeq
    <2>4. Len(stack) # 1 => stack'[1] = stack[2]
      BY <1>3
    <2>5. ASSUME NEW i \in DOMAIN stack'
          PROVE  link'[stack'[i]] = IF i = Len(stack') THEN NULL ELSE stack'[i + 1]
      <3>1. i + 1 \in DOMAIN stack /\ stack'[i] = stack[i + 1]
        BY <1>3
      <3>2. link[stack[i + 1]] = IF i + 1 = Len(stack) THEN NULL ELSE stack[i + 2]
        BY <3>1, <1>3 DEF ListIntact
      <3> QED  BY <3>1, <3>2, <1>2, <1>3
    <2> QED  BY <2>1, <2>2, <2>3, <2>4, <2>5 DEF ListIntact
  <1>9. ASSUME NEW u \in Threads PROVE LocalsOK(u)'
    <2>1. CASE u = t
      BY <2>1, <1>2, SwapMovesVersion DEF LocalsOK, InWindow, InPop, InPush
    <2>2. CASE u # t
      <3>1. held'[u] = held[u] /\ arg' = arg /\ link' = link
        BY <2>2, <1>2 DEF TypeOK
      <3>2. pc'[u] = pc[u] /\ origin'[u] = origin[u] /\ next'[u] = next[u]
        BY <2>2, <1>2, SwapMovesVersion
      <3>3. InWindow(u) => age'[u] # 0 /\ head'.ver = After(origin'[u].ver, age'[u])
        BY <2>2, <3>2, <1>2, SwapMovesVersion
      <3>4. ~InWindow(u) => age'[u] = 0
        BY <2>2, <1>2, SwapMovesVersion
      <3> QED  BY <3>1, <3>2, <3>3, <3>4 DEF LocalsOK, InWindow, InPop, InPush, After
    <2> QED  BY <2>1, <2>2
  <1> QED  BY <1>4, <1>6, <1>7, <1>8, <1>9

LEMMA PushSwapStep ==
    ASSUME IInv, NEW t \in Threads, PushSwap(t)
    PROVE  IInv' /\ arg[t] \in held[t]
  <1> USE DEF IInv
  <1> DEFINE n == arg[t]
  <1>1. /\ n \in held[t] /\ n \in Nodes /\ n \notin Listed
        /\ link[n] = origin[t].ptr /\ head = origin[t]
    BY DEF PushSwap, Swap, LocalsOK, InPush, TypeOK, Exclusive
  <1>2. /\ Swap(t, n) /\ InWindow(t) /\ n \in Pointers
        /\ UNCHANGED link
        /\ arg' = [arg EXCEPT ![t] = NULL]
        /\ held' = [held EXCEPT ![t] = @ \ {n}]
        /\ stack' = <<n>> \o stack
    BY <1>1 DEF PushSwap, InWindow, InPush, TypeOK
  <1>3. /\ stack' \in Seq(Nodes) /\ stack' # <<>>
        /\ DOMAIN stack' = 1 .. Len(stack) + 1 /\ DOMAIN stack = 1 .. Len(stack)
        /\ Len(stack') = Len(stack) + 1 /\ Len(stack) \in Nat
        /\ stack'[1] = n
        /\ \A i \in 1 .. Len(stack) : stack'[i + 1] = stack[i]
    BY <1>1, <1>2, PushOnStack DEF TypeOK
  <1>4. TypeOK'
    BY <1>1, <1>2, <1>3, SwapMovesVersion DEF TypeOK, Pointers
  <1>5. ASSUME NEW i \in 1 .. Len(stack) + 1
        PROVE  stack'[i] = IF i = 1 THEN n ELSE stack[i - 1]
    <2>1. CASE i # 1
      <3>1. i - 1 \in 1 .. Len(stack) /\ (i - 1) + 1 = i
        BY <2>1, <1>3
      <3> QED  BY <3>1, <1>3, <2>1
    <2> QED  BY <2>1, <1>3
  <1>6. Listed' = Listed \cup {n}
    <2>1. ASSUME NEW m \in Listed' PROVE m \in Listed \cup {n}
      <3>1. PICK i \in 1 .. Len(stack) + 1 : m = stack'[i]
        BY <1>3 DEF Listed
      <3>2. CASE i # 1
        <4>1. i - 1 \in DOMAIN stack
          BY <1>3, <3>2
        <4>2. m = stack[i - 1]
          BY <1>5, <3>1, <3>2
        <4> QED  BY <4>1, <4>2 DEF Listed
      <3> QED  BY <1>5, <3>1, <3>2
    <2>2. ASSUME NEW m \in Listed \cup {n} PROVE m \in Listed'
      <3>1. CASE m = n
        BY <3>1, <1>3 DEF Listed
      <3>2. CASE m \in Listed
        <4>1. PICK i \in 1 .. Len(stack) : m = stack[i]
          BY <3>2, <1>3 DEF Listed
        <4>2. i + 1 \in DOMAIN stack' /\ stack'[i + 1] = m
          BY <4>1, <1>3
        <4> QED  BY <4>2 DEF Listed
      <3> QED  BY <2>2, <3>1, <3>2
    <2> QED  BY <2>1, <2>2
  <1>7. Exclusive'
    <2>1. \A u, v \in Threads : u # v => held'[u] \cap held'[v] = {}
      BY <1>1, <1>2 DEF Exclusive, TypeOK
    <2>2. \A u \in Threads : held'[u] \cap Listed' = {}
      BY <1>1, <1>2, <1>6 DEF Exclusive, TypeOK
    <2>3. ASSUME NEW i \in DOMAIN stack', NEW j \in DOMAIN stack', stack'[i] = stack'[j]
          PROVE  i = j
      <3>1. i \in 1 .. Len(stack) + 1 /\ j \in 1 .. Len(stack) + 1
        BY <1>3
      <3>2. \A k \in 1 .. Len(stack) + 1 \ {1} : k - 1 \in DOMAIN stack /\ stack'[k] = stack[k - 1]
        BY <1>3, <1>5
      <3>3. \A k \in 1 .. Len(stack) + 1 \ {1} : stack'[k] # n
        BY <3>2, <1>1 DEF Listed
      <3>4. CASE i = 1 \/ j = 1
        BY <3>1, <3>3, <3>4, <2>3, <1>3
      <3>5. CASE i # 1 /\ j # 1
        <4>1. stack[i - 1] = stack[j - 1] /\ i - 1 \in DOMAIN stack /\ j - 1 \in DOMAIN stack
          BY <3>1, <3>2, <3>5, <2>3
        <4>2. i - 1 = j - 1
          BY <4>1 DEF Exclusive
        <4> QED  BY <4>2, <3>1, <1>3
      <3> QED  BY <3>4, <3>5
    <2> QED  BY <2>1, <2>2, <2>3 DEF Exclusive
  <1>8. NoNodeLost'
    BY <1>1, <1>2, <1>6 DEF NoNodeLost, TypeOK
  <1>9. ListIntact'
    <2>1. head'.ptr = n
      BY <1>2, SwapMovesVersion
    <2>2. link[n] = IF stack = <<>> THEN NULL ELSE stack[1]
      BY <1>1 DEF ListIntact
    <2>3. stack = <<>> <=> Len(stack) = 0
      BY EmptySeq DEF TypeOK
    <2>4. ASSUME NEW i \in DOMAIN stack'
          PROVE  link'[stack'[i]] = IF i = Len(stack') THEN NULL ELSE stack'[i + 1]
      <3>1. CASE i = 1
        BY <3>1, <2>2, <2>3, <1>2, <1>3
      <3>2. CASE i # 1
        <4>1. i - 1 \in DOMAIN stack /\ stack'[i] = stack[i - 1]
          BY <3>2, <1>3, <1>5
        <4>2. link[stack[i - 1]] = IF i - 1 = Len(stack) THEN NULL ELSE stack[(i - 1) + 1]
          BY <4>1 DEF ListIntact
        <4>3. i <= Len(stack) => stack'[i + 1] = stack[i]
          BY <1>3, <3>2
        <4> QED  BY <4>1, <4>2, <4>3, <1>2, <1>3
      <3> QED  BY <3>1, <3>2
    <2> QED  BY <2>1, <2>4, <1>3 DEF ListIntact
  <1>10. ASSUME NEW u \in Threads PROVE LocalsOK(u)'
    <2>1. CASE u = t
      BY <2>1, <1>2, SwapMovesVersion DEF LocalsOK, InWindow, InPop, InPush
    <2>2. CASE u # t
      <3>1. held'[u] = held[u] /\ arg'[u] = arg[u] /\ link' = link
        BY <2>2, <1>2 DEF TypeOK
      <3>2. pc'[u] = pc[u] /\ origin'[u] = origin[u] /\ next'[u] = next[u]
        BY <2>2, <1>2, SwapMovesVersion
      <3>3. InWindow(u) => age'[u] # 0 /\ head'.ver = After(origin'[u].ver, age'[u])
        BY <2>2, <3>2, <1>2, SwapMovesVersion
      <3>4. ~InWindow(u) => age'[u] = 0
        BY <2>2, <1>2, SwapMovesVersion
      <3> QED  BY <3>1, <3>2, <3>3, <3>4 DEF LocalsOK, InWindow, InPop, InPush, After
    <2> QED  BY <2>1, <2>2
  <1> QED  BY <1>1, <1>4, <1>7, <1>8, <1>9, <1>10
-----------------------------------------------------------------------------
LEMMA NextIInv == IInv /\ [Next]_vars => IInv'
  <1> SUFFICES ASSUME IInv, [Next]_vars PROVE IInv'
    OBVIOUS
  <1>1. ASSUME NEW t \in Threads,
               PopReadHead(t) \/ PopEmpty(t) \/ PopReadNext(t) \/ PushReadHead(t) \/ SwapFails(t)
        PROVE  IInv'
    BY <1>1, LocalStep
  <1>2. ASSUME NEW t \in Threads, PushWriteLink(t) PROVE IInv'
    <2>1. arg[t] \in held[t] /\ origin[t].ptr \in Pointers
      BY <1>2 DEF IInv, LocalsOK, PushWriteLink, InPush, TypeOK, Heads
    <2> QED  BY <2>1, <1>2, LinkStep DEF PushWriteLink
  <1>3. ASSUME NEW t \in Threads, NEW n \in Nodes, UseNode(t, n) PROVE IInv'
    BY <1>3, LinkStep DEF UseNode
  <1>4. ASSUME NEW t \in Threads, PopSwap(t) \/ PushSwap(t) PROVE IInv'
    BY <1>4, PopSwapStep, PushSwapStep
  <1>5. CASE UNCHANGED vars
    <2>1. TypeOK' /\ Exclusive' /\ NoNodeLost' /\ ListIntact'
      <3>1. TypeOK'
        BY <1>5 DEF vars, IInv, TypeOK
      <3>2. Exclusive' /\ NoNodeLost'
        BY <1>5 DEF vars, IInv, Exclusive, NoNodeLost, Listed
      <3>3. ListIntact'
        BY <1>5 DEF vars, IInv, ListIntact
      <3> QED  BY <3>1, <3>2, <3>3
    <2>2. ASSUME NEW u \in Threads PROVE LocalsOK(u)'
      <3>1. /\ head' = head /\ link' = link /\ pc' = pc /\ origin' = origin
            /\ next' = next /\ arg' = arg /\ held' = held /\ age' = age
        BY <1>5 DEF vars
      <3>2. InWindow(u)' = InWindow(u) /\ LocalsOK(u)
        BY <3>1 DEF InWindow, IInv
      <3> QED  BY <3>1, <3>2, Zenon DEF LocalsOK
    <2> QED  BY <2>1, <2>2 DEF IInv
  <1> QED  BY <1>1, <1>2, <1>3, <1>4, <1>5 DEF Next

LEMMA Invariance == Spec => []IInv
  BY InitIInv, NextIInv, PTL DEF Spec

\* Every word and local keeps its type: no pointer but a node or NULL is ever
\* dereferenced as a head, and the version stays within its bits.
THEOREM TypeCorrect == Spec => []TypeOK
  <1>1. IInv => TypeOK
    BY DEF IInv
  <1> QED  BY <1>1, Invariance, PTL

\* pop() never hands a node to two callers, however its loop is interleaved.
THEOREM PopExclusive == Spec => []Exclusive
  <1>1. IInv => Exclusive
    BY DEF IInv
  <1> QED  BY <1>1, Invariance, PTL

\* No interleaving of pops and pushes loses a node.
THEOREM NothingLost == Spec => []NoNodeLost
  <1>1. IInv => NoNodeLost
    BY DEF IInv
  <1> QED  BY <1>1, Invariance, PTL

\* The linked list in memory is the stack, at every step of every operation.
THEOREM LinksMatchStack == Spec => []ListIntact
  <1>1. IInv => ListIntact
    BY DEF IInv
  <1> QED  BY <1>1, Invariance, PTL

\* CLFreeList refines the indivisible stack: the successful compare-and-swap
\* is the point where an operation takes effect.
THEOREM ListImplementsStack == Spec => ImplementsFreeStack
  <1>1. Init => FS!Init
    BY DEF Init, FS!Init
  <1>2. IInv /\ [Next]_vars => [FS!Next]_<<stack, held>>
    <2> SUFFICES ASSUME IInv, [Next]_vars PROVE [FS!Next]_<<stack, held>>
      OBVIOUS
    <2>1. ASSUME NEW t \in Threads, PopSwap(t) PROVE FS!Next
      <3>1. stack # <<>> /\ origin[t].ptr = Head(stack)
        BY <2>1, PopTakesTop, TailOfStack DEF IInv, TypeOK
      <3> QED  BY <2>1, <3>1 DEF PopSwap, FS!Next, FS!Pop
    <2>2. ASSUME NEW t \in Threads, PushSwap(t) PROVE FS!Next
      <3>1. arg[t] \in held[t] /\ arg[t] \in Nodes
        BY <2>2, PushSwapStep DEF IInv, TypeOK
      <3> QED  BY <2>2, <3>1 DEF PushSwap, FS!Next, FS!Push
    <2>3. ASSUME NEW t \in Threads,
                 \/ PopReadHead(t) \/ PopEmpty(t) \/ PopReadNext(t) \/ PushReadHead(t)
                 \/ PushWriteLink(t) \/ SwapFails(t) \/ \E n \in Nodes : UseNode(t, n)
          PROVE  UNCHANGED <<stack, held>>
      BY <2>3 DEF PopReadHead, PopEmpty, PopReadNext, PushReadHead, PushWriteLink,
                  SwapFails, UseNode
    <2>4. CASE UNCHANGED vars
      BY <2>4 DEF vars
    <2> QED  BY <2>1, <2>2, <2>3, <2>4 DEF Next
  <1> QED  BY <1>1, <1>2, Invariance, PTL DEF Spec, ImplementsFreeStack, FS!Spec

-----------------------------------------------------------------------------
(* The radix tree. *)

\* The slots of a leaf that hold an extent.
Used(leaf) == {j \in LeafIdx : leaf[j] # NoExtent}

\* The count beside a pointer is the number of extents behind it.
Counted ==
    m_root # NoNode =>
        \A i \in RootIdx :
            IF m_root[i] = NoNode
            THEN count[i] = 0
            ELSE count[i] = Cardinality(Used(m_root[i])) /\ count[i] # 0

TreeIInv == TreeTypeOK /\ Counted

-----------------------------------------------------------------------------
(* Arithmetic: a page's number and its two indices determine each other.   *)

\* What the assumption says of the numbers of slots.
LEMMA Numbers ==
    /\ RootSlots \in Nat /\ RootSlots # 0
    /\ LeafSlots \in Nat /\ LeafSlots > 0 /\ LeafSlots < Counts
    /\ Segment \in Nat /\ Counts \in Nat
<1>1. RootSlots \in Nat \ {0} /\ LeafSlots \in 1 .. Counts - 1 /\ Segment \in Nat
  BY TreeAssumption, Zenon
<1>2. Counts \in Nat
  BY SMT DEF Counts
<1> QED BY <1>1, <1>2, SMT

LEMMA Divide ==
    ASSUME NEW a \in Int, NEW b \in Nat, b > 0
    PROVE  /\ a \div b \in Int /\ a % b \in 0 .. b - 1
           /\ a = b * (a \div b) + (a % b)
  OBVIOUS

LEMMA Multiple ==
    ASSUME NEW b \in Nat, NEW d \in Int, b > 0, d >= 1
    PROVE  b * d >= b
  BY SMT

LEMMA ProductInNat ==
    ASSUME NEW a \in Nat, NEW b \in Nat
    PROVE  a * b \in Nat
  BY SMT

LEMMA Distribute ==
    ASSUME NEW b \in Int, NEW x \in Int, NEW y \in Int
    PROVE  b * (x - y) = b * x - b * y
  BY SMT

LEMMA QuotientLess ==
    ASSUME NEW b \in Nat, NEW q \in Int, NEW r \in 0 .. b - 1,
           NEW x \in Int, NEW y \in 0 .. b - 1,
           b * q + r = b * x + y
    PROVE  q <= x
<1> SUFFICES ASSUME q > x PROVE FALSE
  OBVIOUS
<1>1. b * (q - x) = b * q - b * x
  BY Distribute
<1>2. b * (q - x) >= b
  <2>1. q - x \in Int /\ q - x >= 1 /\ b > 0
    BY SMT
  <2> QED BY <2>1, Multiple
<1>3. b * q \in Int /\ b * x \in Int
  BY SMT
<1> QED BY <1>1, <1>2, <1>3, SMT

LEMMA DivideUnique ==
    ASSUME NEW b \in Nat, NEW q \in Int, NEW r \in 0 .. b - 1
    PROVE  (b * q + r) \div b = q /\ (b * q + r) % b = r
<1>0. b > 0 /\ b * q + r \in Int
  BY SMT
<1> DEFINE a == b * q + r
<1>1. a \div b \in Int /\ a % b \in 0 .. b - 1 /\ b * (a \div b) + (a % b) = b * q + r
  BY <1>0, Divide
<1> HIDE DEF a
<1>2. a \div b = q
  BY <1>1, QuotientLess
<1>3. a % b = r
  <2>1. b * q + (a % b) = b * q + r
    BY <1>1, <1>2
  <2>2. b * q \in Int /\ a % b \in Int /\ r \in Int
    BY <1>1
  <2> QED BY <2>1, <2>2
<1> QED BY <1>2, <1>3 DEF a

\* Every pair of slots is that of a page.
LEMMA PageOfSlots ==
    ASSUME NEW i \in RootIdx, NEW j \in LeafIdx
    PROVE  LET p == SegmentPages * Segment + (LeafSlots * i + j)
           IN p \in Pages /\ RootIndex(p) = i /\ LeafIndex(p) = j
<1> DEFINE r == LeafSlots * i + j
           p == SegmentPages * Segment + r
<1>1. /\ LeafSlots \in Nat /\ RootSlots \in Nat /\ Segment \in Nat
      /\ i \in Nat /\ j \in Nat /\ j < LeafSlots /\ i + 1 <= RootSlots
  BY Numbers DEF RootIdx, LeafIdx
<1>2. SegmentPages = LeafSlots * RootSlots /\ SegmentPages \in Nat
  BY <1>1 DEF SegmentPages
<1>3. r \in Nat /\ r < SegmentPages
  <2>1. RootSlots - (i + 1) \in Nat /\ i + 1 \in Int
    BY <1>1
  <2>2. LeafSlots * (RootSlots - (i + 1)) \in Nat
    BY <1>1, <2>1, ProductInNat
  <2>3. LeafSlots * (RootSlots - (i + 1)) = LeafSlots * RootSlots - LeafSlots * (i + 1)
    BY <1>1, <2>1, Distribute
  <2>4. LeafSlots * (i + 1) = LeafSlots * i + LeafSlots
    BY <1>1, SMT
  <2>5. LeafSlots * i \in Nat
    BY <1>1, ProductInNat
  <2> QED BY <1>1, <1>2, <2>2, <2>3, <2>4, <2>5, SMT
<1>4. p \in Pages
  BY <1>1, <1>2, <1>3 DEF Pages
<1>5. p % SegmentPages = r
  <2>1. r \in 0 .. SegmentPages - 1 /\ Segment \in Int
    BY <1>1, <1>2, <1>3
  <2> HIDE DEF r
  <2> QED BY <1>2, <2>1, DivideUnique
<1>6. r \div LeafSlots = i
  BY <1>1, DivideUnique
<1>7. p % LeafSlots = j
  <2>1. p = LeafSlots * (RootSlots * Segment + i) + j
    BY <1>1, <1>2
  <2>2. RootSlots * Segment + i \in Int /\ j \in 0 .. LeafSlots - 1
    BY <1>1
  <2>3. (LeafSlots * (RootSlots * Segment + i) + j) % LeafSlots = j
    BY <1>1, <2>2, DivideUnique
  <2> QED BY <2>1, <2>3
<1> QED BY <1>4, <1>5, <1>6, <1>7 DEF RootIndex, LeafIndex

\* Every page has a pair of slots, and no other page has the same.
LEMMA SlotsOfPage ==
    ASSUME NEW p \in Pages
    PROVE  /\ RootIndex(p) \in RootIdx /\ LeafIndex(p) \in LeafIdx
           /\ p = SegmentPages * Segment + (LeafSlots * RootIndex(p) + LeafIndex(p))
<1> DEFINE r == p - SegmentPages * Segment
           i == r \div LeafSlots
           j == r % LeafSlots
<1>1. LeafSlots \in Nat /\ LeafSlots > 0 /\ RootSlots \in Nat /\ Segment \in Nat
  BY Numbers
<1>2. SegmentPages = LeafSlots * RootSlots /\ SegmentPages \in Nat
  BY <1>1 DEF SegmentPages
<1>3. p \in Int /\ r \in 0 .. SegmentPages - 1 /\ p = SegmentPages * Segment + r
  BY <1>1, <1>2 DEF Pages
<1>4. i \in Int /\ j \in 0 .. LeafSlots - 1 /\ r = LeafSlots * i + j
  <2>1. r \in Int
    BY <1>3
  <2> QED BY <1>1, <2>1, Divide
<1> HIDE DEF i, j, r
<1>5. i \in RootIdx
  <2>1. i >= 0
    <3> SUFFICES ASSUME i < 0 PROVE FALSE
      BY <1>4
    <3>1. LeafSlots * (-i) >= LeafSlots
      BY <1>1, <1>4, Multiple
    <3>2. LeafSlots * (-i) = -(LeafSlots * i)
      BY <1>1, <1>4
    <3> QED BY <1>1, <1>3, <1>4, <3>1, <3>2
  <2>2. i < RootSlots
    <3> SUFFICES ASSUME i - RootSlots >= 0 PROVE FALSE
      BY <1>1, <1>4
    <3>1. LeafSlots * (i - RootSlots) \in Nat
      BY <1>1, <1>4, ProductInNat
    <3>2. LeafSlots * (i - RootSlots) = LeafSlots * i - LeafSlots * RootSlots
      BY <1>1, <1>4, Distribute
    <3> QED BY <1>1, <1>2, <1>3, <1>4, <3>1, <3>2, SMT
  <2> QED BY <1>1, <1>4, <2>1, <2>2 DEF RootIdx
<1>6. j \in LeafIdx
  BY <1>4 DEF LeafIdx
<1>7. RootIndex(p) = i /\ LeafIndex(p) = j
  BY <1>3, <1>4, <1>5, <1>6, PageOfSlots
<1> QED BY <1>3, <1>4, <1>5, <1>6, <1>7

LEMMA SlotsApart ==
    ASSUME NEW p \in Pages, NEW q \in Pages,
           RootIndex(p) = RootIndex(q), LeafIndex(p) = LeafIndex(q)
    PROVE  p = q
<1>1. p = SegmentPages * Segment + (LeafSlots * RootIndex(p) + LeafIndex(p))
  BY SlotsOfPage, Zenon
<1>2. q = SegmentPages * Segment + (LeafSlots * RootIndex(q) + LeafIndex(q))
  BY SlotsOfPage, Zenon
<1> QED BY <1>1, <1>2, Zenon

-----------------------------------------------------------------------------
(* Leaves and what is used of them. *)

LEMMA UsedFinite ==
    ASSUME NEW leaf
    PROVE  /\ IsFiniteSet(Used(leaf))
           /\ Cardinality(Used(leaf)) \in 0 .. LeafSlots
<1>1. IsFiniteSet(LeafIdx) /\ Cardinality(LeafIdx) = LeafSlots
  <2>1. LeafSlots - 1 \in Int /\ LeafSlots \in Nat /\ 0 \in Int
    BY Numbers
  <2> QED BY <2>1, FS_Interval DEF LeafIdx
<1>2. Used(leaf) \in SUBSET LeafIdx
  BY DEF Used
<1>3. IsFiniteSet(Used(leaf)) /\ Cardinality(Used(leaf)) <= Cardinality(LeafIdx)
  BY <1>1, <1>2, FS_Subset
<1>4. Cardinality(Used(leaf)) \in Nat
  BY <1>3, FS_CardinalityType
<1> QED BY <1>1, <1>3, <1>4, Numbers

LEMMA NoWrap ==
    ASSUME NEW n \in 0 .. LeafSlots
    PROVE  n % Counts = n
  BY Numbers

LEMMA NoneInAnEmptyLeaf == 0 \in 0 .. LeafSlots
  BY Numbers

LEMMA NewLeafUnused == NewLeaf \in Leaves /\ Used(NewLeaf) = {}
  BY DEF NewLeaf, Leaves, Used

LEMMA NullIsNoLeaf == NoNode \notin Leaves /\ NoNode \notin [RootIdx -> Leaves \cup {NoNode}]
  BY TreeAssumption

-----------------------------------------------------------------------------
(* The operations, one at a time: what they preserve and what they do to   *)
(* the function Get.                                                       *)

\* An extent that is entered leaves a leaf a leaf.
LEMMA LeafWith ==
    ASSUME NEW leaf \in Leaves, NEW j \in LeafIdx, NEW e \in Extents
    PROVE  [leaf EXCEPT ![j] = e] \in Leaves /\ e # NoExtent
<1>1. [leaf EXCEPT ![j] = e] \in Leaves
  BY DEF Leaves
<1>2. e # NoExtent
  BY TreeAssumption, Zenon
<1> QED BY <1>1, <1>2

LEMMA InsertStep ==
    ASSUME TreeIInv, NEW p \in Pages, NEW e \in Extents, Insert(p, e)
    PROVE  TreeIInv' /\ \A q \in Pages : Get(q)' = IF q = p THEN e ELSE Get(q)
<1> DEFINE i    == RootIndex(p)
           j    == LeafIndex(p)
           leaf == Leaf(i)
           new  == [leaf EXCEPT ![j] = e]
<1>1. i \in RootIdx /\ j \in LeafIdx
  BY SlotsOfPage
<1>2. m_root \in [RootIdx -> Leaves \cup {NoNode}] /\ count \in [RootIdx -> 0 .. LeafSlots]
  BY DEF TreeIInv, TreeTypeOK, Insert
<1>3. leaf \in Leaves
  BY <1>1, <1>2, NewLeafUnused DEF Leaf
<1>4. new \in Leaves /\ e # NoExtent
  BY <1>1, <1>3, LeafWith
<1>5. Used(new) = Used(leaf) \cup {j}
  BY <1>1, <1>3, <1>4 DEF Used, Leaves
<1>6. count[i] = Cardinality(Used(leaf))
  <2>1. m_root # NoNode
    BY DEF Insert
  <2> HIDE DEF i
  <2>2. IF m_root[i] = NoNode THEN count[i] = 0 ELSE count[i] = Cardinality(Used(m_root[i]))
    BY <1>1, <2>1 DEF TreeIInv, Counted
  <2>3. leaf = IF m_root[i] = NoNode THEN NewLeaf ELSE m_root[i]
    BY DEF Leaf
  <2> HIDE DEF leaf
  <2> QED BY <2>2, <2>3, NewLeafUnused, FS_EmptySet
<1>7. m_root' = [m_root EXCEPT ![i] = new]
  BY DEF Insert
<1>8. count' = [count EXCEPT ![i] = Cardinality(Used(new))] /\ Cardinality(Used(new)) # 0
  <2>1. /\ Cardinality(Used(leaf)) \in 0 .. LeafSlots
        /\ Cardinality(Used(new)) \in 0 .. LeafSlots
        /\ IsFiniteSet(Used(leaf)) /\ IsFiniteSet(Used(new))
    BY UsedFinite
  <2>2. Cardinality(Used(new)) = IF leaf[j] = NoExtent THEN count[i] + 1 ELSE count[i]
    <3>1. j \in Used(leaf) <=> leaf[j] # NoExtent
      BY <1>1 DEF Used
    <3> HIDE DEF j, leaf, new, i
    <3>2. Cardinality(Used(leaf) \cup {j})
          = IF j \in Used(leaf) THEN Cardinality(Used(leaf)) ELSE Cardinality(Used(leaf)) + 1
      BY <2>1, FS_AddElement
    <3> QED BY <1>5, <1>6, <3>1, <3>2
  <2>3. CASE leaf[j] = NoExtent
    <3>1. (count[i] + 1) % Counts = count[i] + 1
      BY <2>1, <2>2, <2>3, NoWrap
    <3>2. count' = [count EXCEPT ![i] = (count[i] + 1) % Counts]
      BY <2>3 DEF Insert
    <3>3. Used(new) # {}
      BY <1>5
    <3>4. Cardinality(Used(new)) # 0
      BY <2>1, <3>3, FS_EmptySet
    <3>5. (count[i] + 1) % Counts = Cardinality(Used(new))
      BY <2>2, <2>3, <3>1
    <3> DEFINE n == (count[i] + 1) % Counts
               m == Cardinality(Used(new))
    <3>6. count' = [count EXCEPT ![i] = n] /\ n = m /\ m # 0
      BY <3>2, <3>4, <3>5
    <3> HIDE DEF i, new, n, m
    <3>7. count' = [count EXCEPT ![i] = m] /\ m # 0
      BY <3>6
    <3> QED BY <3>7 DEF m
  <2>4. CASE leaf[j] # NoExtent
    <3>1. count' = count /\ count = [count EXCEPT ![i] = count[i]]
      BY <1>1, <1>2, <2>4 DEF Insert
    <3>2. Used(new) # {}
      BY <1>5
    <3> QED BY <2>1, <2>2, <2>4, <3>1, <3>2, FS_EmptySet
  <2> QED BY <2>3, <2>4
<1> HIDE DEF i, j, leaf, new
<1>9. TreeTypeOK'
  BY <1>1, <1>2, <1>4, <1>7, <1>8, UsedFinite DEF TreeTypeOK
<1>10. Counted'
  <2> SUFFICES ASSUME NEW k \in RootIdx
               PROVE  IF m_root'[k] = NoNode THEN count'[k] = 0
                      ELSE count'[k] = Cardinality(Used(m_root'[k])) /\ count'[k] # 0
    BY DEF Counted
  <2>1. CASE k = i
    BY <1>1, <1>2, <1>4, <1>7, <1>8, <2>1, NullIsNoLeaf
  <2>2. CASE k # i
    <3>1. m_root'[k] = m_root[k] /\ count'[k] = count[k]
      BY <1>1, <1>2, <1>7, <1>8, <2>2
    <3>2. m_root # NoNode
      BY DEF Insert
    <3> QED BY <3>1, <3>2 DEF TreeIInv, Counted
  <2> QED BY <2>1, <2>2
<1>11. ASSUME NEW q \in Pages
       PROVE  Get(q)' = IF q = p THEN e ELSE Get(q)
  <2>1. RootIndex(q) \in RootIdx /\ LeafIndex(q) \in LeafIdx
    BY SlotsOfPage
  <2>2. m_root # NoNode /\ m_root' # NoNode
    BY <1>9, <1>2, <1>4, <1>7, NullIsNoLeaf DEF Insert
  <2>3. CASE RootIndex(q) # i
    <3>1. q # p /\ m_root'[RootIndex(q)] = m_root[RootIndex(q)]
      BY <1>1, <1>2, <1>7, <2>1, <2>3 DEF i
    <3> QED BY <2>2, <3>1 DEF Get
  <2>4. CASE RootIndex(q) = i
    <3>1. m_root'[RootIndex(q)] = new /\ new # NoNode
      BY <1>1, <1>2, <1>4, <1>7, <2>4, NullIsNoLeaf
    <3>2. Get(q)' = new[LeafIndex(q)]
      BY <2>2, <3>1 DEF Get
    <3>3. Get(q) = leaf[LeafIndex(q)]
      BY <2>1, <2>2, <2>4 DEF Get, Leaf, NewLeaf, leaf
    <3>4. q = p <=> LeafIndex(q) = j
      BY <2>4, SlotsApart DEF i, j
    <3> QED BY <1>1, <1>3, <2>1, <3>2, <3>3, <3>4 DEF Leaves, new
  <2> QED BY <2>3, <2>4
<1> QED BY <1>9, <1>10, <1>11 DEF TreeIInv

LEMMA RemoveStep ==
    ASSUME TreeIInv, NEW p \in Pages, Remove(p)
    PROVE  TreeIInv' /\ \A q \in Pages : Get(q)' = IF q = p THEN NoExtent ELSE Get(q)
<1> DEFINE i    == RootIndex(p)
           j    == LeafIndex(p)
           leaf == m_root[i]
           new  == [leaf EXCEPT ![j] = NoExtent]
           left == IF leaf[j] = NoExtent THEN count[i] ELSE (count[i] - 1) % Counts
<1>1. i \in RootIdx /\ j \in LeafIdx
  BY SlotsOfPage
<1>2. /\ m_root # NoNode
      /\ m_root \in [RootIdx -> Leaves \cup {NoNode}] /\ count \in [RootIdx -> 0 .. LeafSlots]
  BY DEF TreeIInv, TreeTypeOK, Remove
<1>3. CASE leaf = NoNode
  <2>1. UNCHANGED treeVars
    BY <1>3 DEF Remove
  <2>2. TreeIInv'
    BY <2>1 DEF TreeIInv, TreeTypeOK, Counted, treeVars
  <2>3. Get(p) = NoExtent /\ \A q \in Pages : Get(q)' = Get(q)
    BY <1>2, <1>3, <2>1 DEF Get, treeVars
  <2> QED BY <2>2, <2>3
<1>4. CASE leaf # NoNode
  <2>1. leaf \in Leaves /\ new \in Leaves
    BY <1>1, <1>2, <1>4 DEF Leaves
  <2>2. Used(new) = Used(leaf) \ {j}
    BY <1>1, <2>1 DEF Used, Leaves
  <2>3. count[i] = Cardinality(Used(leaf)) /\ count[i] # 0
    BY <1>1, <1>2, <1>4 DEF TreeIInv, Counted
  <2>4. left = Cardinality(Used(new))
    <3>1. /\ Cardinality(Used(leaf)) \in 0 .. LeafSlots
          /\ Cardinality(Used(new)) \in 0 .. LeafSlots
          /\ IsFiniteSet(Used(leaf))
      BY UsedFinite
    <3>2. j \in Used(leaf) <=> leaf[j] # NoExtent
      BY <1>1 DEF Used
    <3>3. Cardinality(Used(new)) = IF leaf[j] = NoExtent THEN count[i] ELSE count[i] - 1
      <4> DEFINE U == Used(leaf)
                 V == Used(new)
      <4>1. /\ IsFiniteSet(U) /\ V = U \ {j} /\ count[i] = Cardinality(U)
            /\ j \in U <=> leaf[j] # NoExtent
        BY <2>2, <2>3, <3>1, <3>2
      <4> HIDE DEF i, j, leaf, new, U, V
      <4>2. Cardinality(U \ {j}) = IF j \in U THEN Cardinality(U) - 1 ELSE Cardinality(U)
        BY <4>1, FS_RemoveElement
      <4>3. Cardinality(V) = IF leaf[j] = NoExtent THEN count[i] ELSE count[i] - 1
        BY <4>1, <4>2
      <4> QED BY <4>3 DEF V
    <3>4. CASE leaf[j] = NoExtent
      BY <3>3, <3>4
    <3>5. CASE leaf[j] # NoExtent
      <4> DEFINE n == count[i] - 1
      <4>1. n \in 0 .. LeafSlots
        BY <3>1, <3>3, <3>5
      <4> HIDE DEF n
      <4>2. n % Counts = n
        BY <4>1, NoWrap
      <4>3. (count[i] - 1) % Counts = count[i] - 1
        BY <4>2 DEF n
      <4> QED BY <3>3, <3>5, <4>3
    <3> QED BY <3>4, <3>5
  <2>5. /\ m_root' = [m_root EXCEPT ![i] = IF left = 0 THEN NoNode ELSE new]
        /\ count' = [count EXCEPT ![i] = left]
    BY <1>4 DEF Remove, Empty
  <2>6. left \in 0 .. LeafSlots /\ (left = 0 => \A k \in LeafIdx : new[k] = NoExtent)
    <3> HIDE DEF left, new
    <3>1. IsFiniteSet(Used(new)) /\ left \in 0 .. LeafSlots
      BY <2>4, UsedFinite
    <3>2. left = 0 => Used(new) = {}
      BY <2>4, <3>1, FS_EmptySet
    <3>3. Used(new) = {} => \A k \in LeafIdx : new[k] = NoExtent
      BY DEF Used
    <3> QED BY <3>1, <3>2, <3>3
  <2> HIDE DEF i, j, leaf, new, left
  <2>7. /\ m_root' \in [RootIdx -> Leaves \cup {NoNode}]
        /\ count' \in [RootIdx -> 0 .. LeafSlots]
        /\ m_root' # NoNode
    BY <1>1, <1>2, <2>1, <2>5, <2>6, NullIsNoLeaf
  <2>8. Counted'
    <3> SUFFICES ASSUME NEW k \in RootIdx
                 PROVE  IF m_root'[k] = NoNode THEN count'[k] = 0
                        ELSE count'[k] = Cardinality(Used(m_root'[k])) /\ count'[k] # 0
      BY DEF Counted
    <3>1. CASE k = i
      BY <1>1, <1>2, <2>1, <2>4, <2>5, <3>1, NullIsNoLeaf
    <3>2. CASE k # i
      <4>1. m_root'[k] = m_root[k] /\ count'[k] = count[k]
        BY <1>1, <1>2, <2>5, <3>2
      <4> QED BY <1>2, <4>1 DEF TreeIInv, Counted
    <3> QED BY <3>1, <3>2
  <2>9. ASSUME NEW q \in Pages
        PROVE  Get(q)' = IF q = p THEN NoExtent ELSE Get(q)
    <3>1. RootIndex(q) \in RootIdx /\ LeafIndex(q) \in LeafIdx
      BY SlotsOfPage
    <3>2. CASE RootIndex(q) # i
      <4>1. q # p /\ m_root'[RootIndex(q)] = m_root[RootIndex(q)]
        BY <1>1, <1>2, <2>5, <3>1, <3>2 DEF i
      <4> QED BY <1>2, <2>7, <4>1 DEF Get
    <3>3. CASE RootIndex(q) = i
      <4>1. m_root'[i] = IF left = 0 THEN NoNode ELSE new
        BY <1>1, <1>2, <2>5
      <4>2. Get(q)' = new[LeafIndex(q)]
        BY <2>1, <2>6, <2>7, <3>1, <3>3, <4>1, NullIsNoLeaf DEF Get
      <4>3. Get(q) = leaf[LeafIndex(q)]
        BY <1>2, <1>4, <3>3 DEF Get, leaf
      <4>4. q = p <=> LeafIndex(q) = j
        BY <3>3, SlotsApart DEF i, j
      <4> QED BY <1>1, <2>1, <3>1, <4>2, <4>3, <4>4 DEF Leaves, new
    <3> QED BY <3>2, <3>3
  <2> QED BY <2>7, <2>8, <2>9 DEF TreeIInv, TreeTypeOK
<1> QED BY <1>3, <1>4

LEMMA InitTreeStep ==
    ASSUME TreeIInv, InitTree
    PROVE  TreeIInv' /\ \A q \in Pages : Get(q)' = NoExtent /\ Get(q) = NoExtent
<1>1. m_root' \in [RootIdx -> Leaves \cup {NoNode}] /\ m_root' # NoNode
  BY NullIsNoLeaf DEF InitTree
<1>2. count' \in [RootIdx -> 0 .. LeafSlots]
  BY NoneInAnEmptyLeaf DEF InitTree
<1>3. \A q \in Pages : Get(q)' = NoExtent /\ Get(q) = NoExtent
  BY <1>1, SlotsOfPage DEF InitTree, Get
<1> QED BY <1>1, <1>2, <1>3 DEF TreeIInv, TreeTypeOK, Counted, InitTree

LEMMA DestroyStep ==
    ASSUME TreeIInv, Destroy
    PROVE  TreeIInv' /\ \A q \in Pages : Get(q)' = NoExtent
<1>1. m_root' = NoNode /\ count' \in [RootIdx -> 0 .. LeafSlots]
  BY NoneInAnEmptyLeaf DEF Destroy
<1> QED BY <1>1 DEF TreeIInv, TreeTypeOK, Counted, Get

LEMMA TreeInitIInv == TreeInit => TreeIInv /\ \A q \in Pages : Get(q) = NoExtent
<1> SUFFICES ASSUME TreeInit PROVE TreeIInv /\ \A q \in Pages : Get(q) = NoExtent
  OBVIOUS
<1>1. m_root = NoNode /\ count \in [RootIdx -> 0 .. LeafSlots]
  BY NoneInAnEmptyLeaf DEF TreeInit
<1> QED BY <1>1 DEF TreeIInv, TreeTypeOK, Counted, Get

LEMMA TreeNextIInv == TreeIInv /\ [TreeNext]_treeVars => TreeIInv'
<1> SUFFICES ASSUME TreeIInv, [TreeNext]_treeVars PROVE TreeIInv'
  OBVIOUS
<1>1. CASE InitTree
  BY <1>1, InitTreeStep
<1>2. CASE Destroy
  BY <1>2, DestroyStep
<1>3. ASSUME NEW p \in Pages, Remove(p) PROVE TreeIInv'
  BY <1>3, RemoveStep
<1>4. ASSUME NEW p \in Pages, NEW e \in Extents, Insert(p, e) PROVE TreeIInv'
  BY <1>4, InsertStep
<1>5. CASE UNCHANGED treeVars
  BY <1>5 DEF treeVars, TreeIInv, TreeTypeOK, Counted
<1> QED BY <1>1, <1>2, <1>3, <1>4, <1>5 DEF TreeNext

LEMMA TreeInvariance == TreeSpec => []TreeIInv
  BY TreeInitIInv, TreeNextIInv, PTL DEF TreeSpec

-----------------------------------------------------------------------------
\* Every leaf keeps its shape, and no count passes what its leaf can hold.
THEOREM CountsNeverWrap == TreeSpec => []TreeTypeOK
  BY TreeInvariance, PTL DEF TreeIInv

\* No leaf is kept without an extent: remove deletes it with the last one.
THEOREM LeavesAreExact == TreeSpec => []LeavesExact
<1>1. TreeIInv => LeavesExact
  <2> SUFFICES ASSUME TreeIInv, m_root # NoNode, NEW i \in RootIdx
               PROVE  /\ m_root[i] # NoNode
                         <=> \E p \in Pages : RootIndex(p) = i /\ Get(p) # NoExtent
                      /\ m_root[i] = NoNode <=> count[i] = 0
    BY DEF LeavesExact
  <2>1. IF m_root[i] = NoNode THEN count[i] = 0
        ELSE count[i] = Cardinality(Used(m_root[i])) /\ count[i] # 0
    BY DEF TreeIInv, Counted
  <2>2. ASSUME m_root[i] # NoNode
        PROVE  \E p \in Pages : RootIndex(p) = i /\ Get(p) # NoExtent
    <3>1. Used(m_root[i]) # {}
      BY <2>1, <2>2, FS_EmptySet
    <3>2. PICK j \in LeafIdx : m_root[i][j] # NoExtent
      BY <3>1 DEF Used
    <3>3. PICK p \in Pages : RootIndex(p) = i /\ LeafIndex(p) = j
      BY PageOfSlots
    <3> QED BY <2>2, <3>2, <3>3 DEF Get
  <2>3. ASSUME m_root[i] = NoNode, NEW p \in Pages, RootIndex(p) = i
        PROVE  Get(p) = NoExtent
    BY <2>3 DEF Get
  <2> QED BY <2>1, <2>2, <2>3
<1> QED BY <1>1, TreeInvariance, PTL

\* Merging and freeing may take the tree for the function that it stores.
THEOREM TreeImplementsMap == TreeSpec => ImplementsMap
<1> DEFINE extents == [p \in Pages |-> Get(p)]
<1>1. TreeInit => Map!Init
  BY TreeInitIInv DEF Map!Init
<1>2. TreeIInv /\ [TreeNext]_treeVars => [Map!Next]_extents
  <2> SUFFICES ASSUME TreeIInv, [TreeNext]_treeVars PROVE Map!Next \/ extents' = extents
    OBVIOUS
  <2>1. CASE InitTree
    BY <2>1, InitTreeStep
  <2>2. CASE Destroy
    BY <2>2, DestroyStep DEF Map!Next, Map!DropAll
  <2>3. ASSUME NEW p \in Pages, Remove(p) PROVE Map!Next
    <3>1. Map!Drop(p)
      BY <2>3, RemoveStep DEF Map!Drop
    <3> QED BY <3>1 DEF Map!Next
  <2>4. ASSUME NEW p \in Pages, NEW e \in Extents, Insert(p, e) PROVE Map!Next
    <3>1. Map!Put(p, e)
      BY <2>4, InsertStep DEF Map!Put
    <3> QED BY <3>1 DEF Map!Next
  <2>5. CASE UNCHANGED treeVars
    BY <2>5 DEF treeVars, Get
  <2> QED BY <2>1, <2>2, <2>3, <2>4, <2>5 DEF TreeNext
<1> QED BY <1>1, <1>2, TreeInvariance, PTL DEF TreeSpec, ImplementsMap, Map!Spec

-----------------------------------------------------------------------------
(* The table of roots: the inductive invariant.                            *)

\* A record is the name of its root and its position.
Behind(r) == r[2] + Size[r[1]]
TextOf(r) == r[2] + 1 .. Behind(r) - 1
IsIn(m, r) == TextAt(m, r[2], r[1])

\* The records somebody relies on: those of m_roots, and those findRoot gave out.
Relied ==
    {<<n, m_roots[n]>> : n \in {x \in Names : m_roots[x] # NoRoot}}
    \cup {<<found[t].name, found[t].pos>> : t \in {x \in Readers : found[x] # Idle}}

\* Their texts are in the table, and no operation on another record writes there.
ReliedOK ==
    system = "up" =>
        /\ \A r \in Relied : IsIn(words, r) /\ Behind(r) <= m_rootSpaceEnd
        /\ \A r, s \in Relied : s[2] \notin TextOf(r)

Registering == op.pc \in {"names", "flush", "addr", "flushAddr", "insert"}

OpOK ==
    /\ op # Idle =>
          /\ system = "up"
          /\ Registering =>
                /\ op.pos = m_rootSpaceEnd /\ m_roots[op.name] = NoRoot
                /\ op.pc # "names" => TextAt(words, op.pos, op.name)
                /\ op.addr \in Addresses \cup {END}
          /\ ~Registering => m_roots[op.name] = op.pos
    /\ \A t \in Readers : found[t] # Idle => system = "up"
    /\ system = "down" => words = nvm

\* What a sound table holds up to the end flag at e: record behind record,
\* each with an address or a deletion mark, one with an address for a name.
Records(m, e) == {r \in Names \X Positions : IsIn(m, r) /\ Behind(r) <= e}
Live(m, e)    == {r \in Records(m, e) : m[r[2]] \in Addresses}

Chain(m, e) ==
    /\ e \in Positions /\ m[e] = END
    /\ \A q \in 0 .. e - 1 : \E r \in Records(m, e) : r[2] <= q /\ q < Behind(r)
    /\ \A r \in Records(m, e) : m[r[2]] \in Addresses \/ (m[r[2]] = DELETED /\ r[2] > 0)
    /\ \A r, s \in Live(m, e) : r[1] = s[1] => r = s

\* The live records give every root an address it may have, or none if it may.
Stands(m, e, may) ==
    \A n \in Names :
        \/ NoRoot \in may[n] /\ \A r \in Live(m, e) : r[1] # n
        \/ \E r \in Live(m, e) : r[1] = n /\ m[r[2]] \in may[n]

Sound(m, e, may) == Chain(m, e) /\ Stands(m, e, may)

\* Where the table ends for the CPU, and how far NVM is known to have the same,
\* but for the address word that is to be flushed next.
RecordEnd == op.pos + Size[op.name]
TableEnd  == IF op # Idle /\ op.pc \in {"flushAddr", "insert"} THEN RecordEnd ELSE m_rootSpaceEnd
Flushed   == 0 .. (IF op # Idle /\ op.pc = "addr" THEN RecordEnd ELSE TableEnd)
Unflushed == op # Idle /\ op.pc \in {"flushAddr", "flushSet"}

NvmOK ==
    /\ Unflushed => Sound(nvm, TableEnd, allowed) \/ Sound(nvm, m_rootSpaceEnd, allowed)
    /\ \A q \in Flushed : nvm[q] = words[q] \/ (Unflushed /\ q = op.pos)

RootsOK ==
    \A n \in Names :
        \/ op # Idle /\ n = op.name
        \/ \A p \in Positions : m_roots[n] = p <=> <<n, p>> \in Live(words, TableEnd)

TableOK ==
    spoilt = {} /\ system = "up" => Sound(words, TableEnd, allowed) /\ NvmOK /\ RootsOK

Target(a) == IF a = DELETED THEN NoRoot ELSE a

OpTableOK ==
    spoilt = {} /\ op # Idle =>
        /\ op.addr \in Addresses \cup {DELETED}
        /\ Target(op.addr) \in allowed[op.name]
        /\ Registering =>
              /\ op.pc \in {"names", "flush", "addr"} =>
                    \A r \in Live(words, m_rootSpaceEnd) : r[1] # op.name
              /\ op.pc \in {"flush", "addr"} => words[RecordEnd] = END
              /\ op.pc \in {"flushAddr", "insert"} => words[op.pos] = op.addr
        /\ ~Registering =>
              /\ op.addr = DELETED => op.pos > 0
              /\ IF op.pc = "set" THEN words[op.pos] \in Addresses ELSE words[op.pos] = op.addr
              /\ \A r \in Live(words, m_rootSpaceEnd) : r[1] = op.name => r[2] = op.pos

DownOK ==
    spoilt = {} =>
        /\ system # "dead"
        /\ system = "down" => \E e \in Positions : Sound(words, e, allowed)

RootIInv == RootTypeOK /\ ReliedOK /\ OpOK /\ TableOK /\ OpTableOK /\ DownOK
-----------------------------------------------------------------------------
(* The walk over the table. *)

\* Numbers have a least and, up to a bound, a largest one among them.
LEMMA Least ==
    ASSUME NEW S, S # {}, \A n \in S : n \in Nat
    PROVE  \E k \in S : \A n \in S : k <= n
<1> DEFINE R == StrictSubsetOrdering(Nat)
           upTo(n) == 0 .. n
           T == {upTo(n) : n \in S}
<1>1. IsWellFoundedOn(R, FiniteSubsetsOf(Nat)) BY FS_StrictSubsetOrderingWellFounded
<1>2. T \subseteq FiniteSubsetsOf(Nat)
  <2>1. \A n \in S : upTo(n) \subseteq Nat /\ IsFiniteSet(upTo(n)) BY FS_Interval
  <2> QED BY <2>1 DEF FiniteSubsetsOf
<1>3. PICK x \in T : \A y \in T : ~(<<y, x>> \in R)
  <2> HIDE DEF R, T
  <2>1. T # {} BY DEF T
  <2> QED BY <1>1, <1>2, <2>1, WFMin
<1> PICK k \in S : x = upTo(k) OBVIOUS
<1>4. \A n \in S : k <= n
  <2> SUFFICES ASSUME NEW n \in S, n < k PROVE FALSE OBVIOUS
  <2>1. upTo(n) \subseteq upTo(k) /\ k \in upTo(k) /\ k \notin upTo(n) OBVIOUS
  <2>2. upTo(n) \in SUBSET Nat /\ upTo(k) \in SUBSET Nat OBVIOUS
  <2> HIDE DEF upTo
  <2>3. <<upTo(n), upTo(k)>> \in R BY <2>1, <2>2 DEF StrictSubsetOrdering
  <2> QED BY <1>3, <2>3
<1> QED BY <1>4

LEMMA Last ==
    ASSUME NEW N \in Nat, NEW S \in SUBSET (0 .. N), S # {}
    PROVE  \E x \in S : \A y \in S : y <= x
<1> DEFINE T == {n \in 0 .. N : N - n \in S}
<1>1. T # {}
  <2> PICK x \in S : TRUE
    OBVIOUS
  <2> N - x \in T
    OBVIOUS
  <2> QED
    OBVIOUS
<1>2. PICK k \in T : \A n \in T : k <= n
  <2>1. \A n \in T : n \in Nat
    OBVIOUS
  <2> HIDE DEF T
  <2> QED
    BY <1>1, <2>1, Least
<1>3. \A y \in S : N - y \in T
  OBVIOUS
<1>4. \A y \in S : y <= N - k
  BY <1>2, <1>3
<1> QED
  BY <1>4

\* Induction from the end of the table to its start.
LEMMA Backwards ==
    ASSUME NEW N \in Nat, NEW S, \A p \in 0 .. N : p + 1 .. N \subseteq S => p \in S
    PROVE  0 .. N \subseteq S
<1> DEFINE Bad == (0 .. N) \ S
<1>1. SUFFICES ASSUME Bad # {}
               PROVE  FALSE
  OBVIOUS
<1>2. PICK p \in Bad : \A q \in Bad : q <= p
  <2>1. Bad \in SUBSET (0 .. N)
    OBVIOUS
  <2> HIDE DEF Bad
  <2> QED
    BY <1>1, <2>1, Last
<1>3. p + 1 .. N \subseteq S
  BY <1>2
<1> QED
  BY <1>2, <1>3

\* A step of the walk looks only at what the next record leads to.
LEMMA WalkLooksAhead ==
    ASSUME RootInfoAssumption, NEW m, NEW p \in 0 .. WordNum, NEW f, NEW g,
           \A q \in p + 1 .. WordNum : f[q] = g[q]
    PROVE  WalkAt(m, p, f) = WalkAt(m, p, g)
<1> DEFINE here == {n \in Names : p \in Positions /\ Readable(m, p, n)}
           n == CHOOSE x \in here : TRUE
<1>1. CASE here = {}
  BY <1>1 DEF WalkAt
<1>2. CASE here # {}
  <2>1. n \in here
    BY <1>2, Zenon
  <2>2. p + Size[n] \in p + 1 .. WordNum
    BY <2>1 DEF Readable, TextAt, RootInfoAssumption
  <2>3. f[p + Size[n]] = g[p + Size[n]]
    BY <2>2
  <2> QED
    BY <2>3 DEF WalkAt
<1> QED
  BY <1>1, <1>2

\* The recursive function exists: it is found from the end of the table.
LEMMA WalkIsDefined ==
    ASSUME RootInfoAssumption, NEW m
    PROVE  /\ WalkFrom(m) = [p \in 0 .. WordNum |-> WalkAt(m, p, WalkFrom(m))]
           /\ \A p \in 0 .. WordNum : WalkFrom(m)[p] = WalkAt(m, p, WalkFrom(m))
<1> DEFINE D == 0 .. WordNum
           Right(f, p) == \A q \in p .. WordNum : f[q] = WalkAt(m, q, f)
           Known == {p \in D : \E f : f = [q \in D |-> f[q]] /\ Right(f, p)}
<1> USE DEF RootInfoAssumption
<1>1. \A p \in D : p + 1 .. WordNum \subseteq Known => p \in Known
  <2> SUFFICES ASSUME NEW p \in D, p + 1 .. WordNum \subseteq Known
               PROVE  p \in Known
    OBVIOUS
  <2>1. PICK f : p < WordNum => Right(f, p + 1)
    <3>1. CASE p < WordNum
      <4>1. p + 1 \in Known
        BY <3>1
      <4> QED
        BY <4>1
    <3> QED
      BY <3>1
  <2> DEFINE g == [q \in D |-> IF q = p THEN WalkAt(m, p, f) ELSE f[q]]
  <2>2. \A q \in p + 1 .. WordNum : g[q] = f[q] /\ f[q] = WalkAt(m, q, f)
    BY <2>1
  <2>3. \A q \in p .. WordNum : WalkAt(m, q, g) = WalkAt(m, q, f)
    <3> HIDE DEF g
    <3> TAKE q \in p .. WordNum
    <3>1. q \in D /\ q + 1 .. WordNum \subseteq p + 1 .. WordNum
      OBVIOUS
    <3>2. \A r \in q + 1 .. WordNum : g[r] = f[r]
      BY <2>2, <3>1, Zenon
    <3> QED
      BY <3>1, <3>2, WalkLooksAhead
  <2>4. \A q \in p .. WordNum : g[q] = WalkAt(m, q, f)
    <3> TAKE q \in p .. WordNum
    <3>1. CASE q = p
      BY <3>1
    <3>2. CASE q \in p + 1 .. WordNum
      BY <3>2, <2>2
    <3> QED
      BY <3>1, <3>2
  <2> QED
    BY <2>3, <2>4
<1>2. 0 \in Known
  <2> HIDE DEF Known
  <2>1. D \subseteq Known
    BY <1>1, Backwards
  <2> QED
    BY <2>1
<1> DEFINE Solves(f) == f = [p \in 0 .. WordNum |-> WalkAt(m, p, f)]
<1>3. \E f : Solves(f)
  <2>1. PICK f : f = [q \in D |-> f[q]] /\ Right(f, 0)
    BY <1>2
  <2>2. [q \in D |-> f[q]] = [q \in D |-> WalkAt(m, q, f)]
    BY <2>1
  <2> QED
    BY <2>1, <2>2
<1>4. Solves(CHOOSE f : Solves(f))
  BY <1>3, Zenon
<1>5. WalkFrom(m) = CHOOSE f : Solves(f)
  BY Zenon DEF WalkFrom
<1>6. Solves(WalkFrom(m))
  BY <1>4, <1>5, Zenon
<1> QED
  BY <1>6

\* What the walk gives at a position: it ends there, cannot go on, or takes a
\* record and goes on behind it.
EndsAt(m, p) ==
    p \in Positions /\ m[p] = END /\ WalkFrom(m)[p] = [live |-> {}, end |-> p]

FailsAt(m, p) ==
    /\ ~(p \in Positions /\ m[p] = END)
    /\ p \in Positions => \A n \in Names : ~Readable(m, p, n)
    /\ WalkFrom(m)[p] = [live |-> {}, end |-> WordNum]

GoesOn(m, p, n) ==
    LET rest == WalkFrom(m)[p + Size[n]] IN
    /\ p \in Positions /\ m[p] # END /\ Readable(m, p, n)
    /\ p + Size[n] \in p + 2 .. WordNum - 1
    /\ WalkFrom(m)[p] = IF m[p] = DELETED THEN rest
                        ELSE [live |-> rest.live \cup {<<n, p>>}, end |-> rest.end]

LEMMA WalkSteps ==
    ASSUME RootInfoAssumption, NEW m, NEW p \in 0 .. WordNum
    PROVE  EndsAt(m, p) \/ FailsAt(m, p) \/ \E n \in Names : GoesOn(m, p, n)
<1> DEFINE w(q) == WalkFrom(m)[q]
           here == {n \in Names : p \in Positions /\ Readable(m, p, n)}
           n == CHOOSE x \in here : TRUE
<1>1. w(p) = WalkAt(m, p, WalkFrom(m))
  BY WalkIsDefined
<1>2. CASE p \in Positions /\ m[p] = END
  BY <1>1, <1>2 DEF WalkAt, EndsAt
<1>3. CASE ~(p \in Positions /\ m[p] = END) /\ here = {}
  BY <1>1, <1>3 DEF WalkAt, FailsAt
<1>4. CASE ~(p \in Positions /\ m[p] = END) /\ here # {}
  <2>1. n \in here
    BY <1>4, Zenon
  <2>2. p + Size[n] \in p + 2 .. WordNum - 1
    BY <2>1 DEF Readable, TextAt, RootInfoAssumption
  <2>3. w(p) = IF m[p] = DELETED THEN w(p + Size[n])
               ELSE [live |-> w(p + Size[n]).live \cup {<<n, p>>}, end |-> w(p + Size[n]).end]
    BY <1>1, <1>4 DEF WalkAt
  <2> HIDE DEF n
  <2> QED
    BY <1>4, <2>1, <2>2, <2>3 DEF GoesOn
<1> QED
  BY <1>2, <1>3, <1>4

\* Any walk finds records that are there, none within another, and stops behind
\* them or not at all.
WalkIsRight(m, p) ==
    LET w == WalkFrom(m)[p] IN
    /\ w.end \in p .. WordNum
    /\ \A r \in w.live : r \in Names \X (p .. WordNum - 1)
    /\ \A r \in w.live : IsIn(m, r) /\ m[r[2]] \in Addresses
    /\ w.end # WordNum => \A r \in w.live : Behind(r) <= w.end
    /\ \A r, s \in w.live : s[2] \notin TextOf(r)

LEMMA WalkFacts ==
    ASSUME RootInfoAssumption, NEW m
    PROVE  WalkIsRight(m, 0)
<1> DEFINE w(q) == WalkFrom(m)[q]
           Right == {p \in 0 .. WordNum : WalkIsRight(m, p)}
<1>1. \A p \in 0 .. WordNum : p + 1 .. WordNum \subseteq Right => p \in Right
  <2> SUFFICES ASSUME NEW p \in 0 .. WordNum, p + 1 .. WordNum \subseteq Right
               PROVE  WalkIsRight(m, p)
    OBVIOUS
  <2>1. CASE w(p).live = {} /\ w(p).end \in p .. WordNum
    BY <2>1 DEF WalkIsRight
  <2>2. CASE \E n \in Names : GoesOn(m, p, n)
    <3> PICK n \in Names : GoesOn(m, p, n)
      BY <2>2
    <3>1. /\ p \in Positions /\ m[p] # END /\ Readable(m, p, n)
          /\ p + Size[n] \in p + 2 .. WordNum - 1
          /\ w(p) = IF m[p] = DELETED THEN w(p + Size[n])
                    ELSE [live |-> w(p + Size[n]).live \cup {<<n, p>>},
                          end  |-> w(p + Size[n]).end]
      BY DEF GoesOn
    <3> DEFINE q == p + Size[n]
    <3>2. q \in Nat /\ p < q /\ q < WordNum /\ WordNum \in Nat
      BY <3>1 DEF RootInfoAssumption
    <3>3. WalkIsRight(m, q)
      BY <3>2
    <3> HIDE DEF q
    <3>4. p .. WordNum = {p} \cup (p + 1 .. WordNum) /\ q .. WordNum \subseteq p .. WordNum
      BY <3>2
    <3>5. CASE m[p] = DELETED
      <4>1. w(p) = w(q)
        BY <3>1, <3>5 DEF q
      <4>2. \A r \in w(q).live : r \in Names \X (p .. WordNum - 1)
        <5> TAKE r \in w(q).live
        <5>1. r \in Names \X (q .. WordNum - 1)
          BY <3>3 DEF WalkIsRight
        <5> QED
          BY <5>1, <3>2
      <4> QED
        BY <3>3, <3>4, <4>1, <4>2 DEF WalkIsRight
    <3>6. CASE m[p] # DELETED
      <4> DEFINE new == <<n, p>>
      <4>1. w(p).live = w(q).live \cup {new} /\ w(p).end = w(q).end
        BY <3>1, <3>6 DEF q
      <4>2. IsIn(m, new) /\ m[new[2]] \in Addresses /\ Behind(new) = q
            /\ new \in Names \X (p .. WordNum - 1)
        BY <3>1, <3>2, <3>6 DEF IsIn, Behind, Readable, q
      <4>3. \A r \in w(q).live : /\ r \in Names \X (p .. WordNum - 1) /\ r[2] \in Nat
                                 /\ q <= r[2] /\ IsIn(m, r) /\ m[r[2]] \in Addresses
                                 /\ Behind(r) \in Nat /\ r[2] < Behind(r)
        <5> TAKE r \in w(q).live
        <5>1. r \in Names \X (q .. WordNum - 1) /\ IsIn(m, r) /\ m[r[2]] \in Addresses
          BY <3>3 DEF WalkIsRight
        <5> QED
          BY <5>1, <3>2 DEF Behind, RootInfoAssumption
      <4>4. w(q).end \in q .. WordNum
        BY <3>3 DEF WalkIsRight
      <4>5. w(p).end # WordNum => \A r \in w(p).live : Behind(r) <= w(p).end
        BY <4>1, <4>2, <4>4, <3>2, <3>3 DEF WalkIsRight
      <4>6. \A r, s \in w(p).live : s[2] \notin TextOf(r)
        <5>1. \A r \in w(q).live : new[2] \notin TextOf(r)
          BY <4>3, <3>2 DEF TextOf
        <5>2. \A s \in w(p).live : s[2] \notin TextOf(new)
          <6> TAKE s \in w(p).live
          <6>1. s = new \/ (q <= s[2] /\ s[2] \in Nat)
            BY <4>1, <4>3
          <6>2. new[2] = p /\ TextOf(new) = p + 1 .. q - 1
            BY <4>2 DEF TextOf
          <6> HIDE DEF new
          <6> QED
            BY <6>1, <6>2, <3>2
        <5>3. \A r, s \in w(q).live : s[2] \notin TextOf(r)
          BY <3>3 DEF WalkIsRight
        <5> HIDE DEF new
        <5> QED
          BY <5>1, <5>2, <5>3, <4>1
      <4>7. w(p).end \in p .. WordNum
        BY <4>1, <4>4, <3>4
      <4> HIDE DEF new
      <4>8. \A r \in w(p).live : r \in Names \X (p .. WordNum - 1)
                                 /\ IsIn(m, r) /\ m[r[2]] \in Addresses
        BY <4>1, <4>2, <4>3
      <4> QED
        BY <4>5, <4>6, <4>7, <4>8 DEF WalkIsRight
    <3> QED
      BY <3>5, <3>6
  <2>3. CASE EndsAt(m, p) \/ FailsAt(m, p)
    <3>1. p \in p .. WordNum /\ WordNum \in p .. WordNum
      BY DEF RootInfoAssumption
    <3> QED
      BY <3>1, <2>1, <2>3 DEF EndsAt, FailsAt
  <2> QED
    BY <2>2, <2>3, WalkSteps
<1>2. 0 .. WordNum \subseteq Right
  <2>1. WordNum \in Nat
    BY DEF RootInfoAssumption
  <2> HIDE DEF Right
  <2> QED
    BY <1>1, <2>1, Backwards
<1>3. 0 \in 0 .. WordNum
  BY DEF RootInfoAssumption
<1> QED
  BY <1>2, <1>3

-----------------------------------------------------------------------------
(* Records and sound tables. *)

LEMMA WordsApart ==
    ASSUME RootInfoAssumption
    PROVE  /\ END \notin Addresses /\ DELETED \notin Addresses /\ RUBBISH \notin Addresses
           /\ END # DELETED /\ END # RUBBISH /\ DELETED # RUBBISH
           /\ END \notin Texts /\ DELETED \notin Texts /\ Addresses \cap Texts = {}
           /\ NoRoot \notin Positions /\ NoRoot \notin Addresses /\ NoRoot # END
           /\ WordNum \in Nat /\ WordNum > 0
BY DEF RootInfoAssumption, Marks

LEMMA RecordFacts ==
    ASSUME RootInfoAssumption, NEW m, NEW r \in Names \X Positions, IsIn(m, r)
    PROVE  /\ r[1] \in Names /\ r[2] \in Nat /\ r = <<r[1], r[2]>>
           /\ Behind(r) \in Nat /\ r[2] + 2 <= Behind(r) /\ Behind(r) < WordNum
           /\ Behind(r) = r[2] + Size[r[1]]
           /\ \A q \in TextOf(r) : m[q] = Text(r[1], q - r[2]) /\ m[q] \in Texts
<1>1. /\ r[1] \in Names /\ r[2] \in Nat /\ r = <<r[1], r[2]>>
      /\ Size[r[1]] \in Nat /\ Size[r[1]] >= 2 /\ Behind(r) = r[2] + Size[r[1]]
  BY DEF RootInfoAssumption, Positions, Behind
<1>2. Behind(r) < WordNum
  BY <1>1 DEF IsIn, TextAt
<1>3. \A q \in TextOf(r) : m[q] = Text(r[1], q - r[2]) /\ m[q] \in Texts
  <2> TAKE q \in TextOf(r)
  <2>1. q - r[2] \in 1 .. Size[r[1]] - 1 /\ r[2] + (q - r[2]) = q /\ q - r[2] \in 1 .. WordNum
    BY <1>1, <1>2 DEF TextOf, RootInfoAssumption
  <2>2. m[q] = Text(r[1], q - r[2])
    BY <2>1 DEF IsIn, TextAt
  <2> QED
    BY <2>1, <2>2, <1>1 DEF Text, Texts
<1> QED
  BY <1>1, <1>2, <1>3

\* Two records whose address words are no texts do not overlap.
LEMMA RecordsApart ==
    ASSUME RootInfoAssumption, NEW m,
           NEW r \in Names \X Positions, IsIn(m, r), m[r[2]] \notin Texts,
           NEW s \in Names \X Positions, IsIn(m, s), m[s[2]] \notin Texts
    PROVE  r = s \/ Behind(r) <= s[2] \/ Behind(s) <= r[2]
<1>1. /\ r[2] \in Nat /\ Behind(r) \in Nat /\ r = <<r[1], r[2]>> /\ r[2] + 2 <= Behind(r)
      /\ s[2] \in Nat /\ Behind(s) \in Nat /\ s = <<s[1], s[2]>> /\ s[2] + 2 <= Behind(s)
  BY RecordFacts
<1>2. CASE r[2] = s[2]
  <2>1. r[2] + 1 \in TextOf(r) /\ r[2] + 1 \in TextOf(s)
    BY <1>1, <1>2 DEF TextOf
  <2>2. Text(r[1], r[2] + 1 - r[2]) = Text(s[1], r[2] + 1 - s[2])
    BY <2>1, RecordFacts
  <2>3. r[1] = s[1]
    BY <2>2 DEF Text
  <2> QED
    BY <2>3, <1>1, <1>2
<1>3. CASE r[2] < s[2] /\ s[2] < Behind(r)
  <2>1. s[2] \in TextOf(r)
    BY <1>1, <1>3 DEF TextOf
  <2> QED
    BY <2>1, RecordFacts
<1>4. CASE s[2] < r[2] /\ r[2] < Behind(s)
  <2>1. r[2] \in TextOf(s)
    BY <1>1, <1>4 DEF TextOf
  <2> QED
    BY <2>1, RecordFacts
<1> QED
  BY <1>1, <1>2, <1>3, <1>4

LEMMA ChainFacts ==
    ASSUME RootInfoAssumption, NEW m, NEW e, Chain(m, e)
    PROVE  /\ e \in Nat /\ e < WordNum
           /\ \A r \in Records(m, e) : m[r[2]] \notin Texts /\ m[r[2]] # END
           /\ \A r, s \in Records(m, e) : r = s \/ Behind(r) <= s[2] \/ Behind(s) <= r[2]
<1>1. e \in Nat /\ e < WordNum
  BY WordsApart DEF Chain, Positions
<1>2. \A r \in Records(m, e) : m[r[2]] \notin Texts /\ m[r[2]] # END
  BY WordsApart DEF Chain
<1>3. \A r, s \in Records(m, e) : r = s \/ Behind(r) <= s[2] \/ Behind(s) <= r[2]
  BY <1>2, RecordsApart DEF Records
<1> QED
  BY <1>1, <1>2, <1>3

\* The walk over a sound table finds all that is alive, and the end.
LEMMA WalkSound ==
    ASSUME RootInfoAssumption, NEW m, NEW e, Chain(m, e)
    PROVE  Walk(m).live = Live(m, e) /\ Walk(m).end = e
<1> DEFINE w(q) == WalkFrom(m)[q]
           ahead(q) == {r \in Live(m, e) : q <= r[2]}
           Starts == {e} \cup {r[2] : r \in Records(m, e)}
           Right == {p \in 0 .. e : p \in Starts => w(p).live = ahead(p) /\ w(p).end = e}
<1>1. e \in Nat /\ e < WordNum /\ WordNum \in Nat /\ e \in Positions /\ m[e] = END
  BY ChainFacts, WordsApart DEF Chain
<1>2. \A r \in Records(m, e) : /\ r \in Names \X Positions /\ IsIn(m, r)
                               /\ r[2] \in Nat /\ r = <<r[1], r[2]>>
                               /\ Behind(r) \in Nat /\ r[2] + 2 <= Behind(r) /\ Behind(r) <= e
  BY RecordFacts DEF Records
<1>3. \A r \in Live(m, e) : r \in Records(m, e)
  BY DEF Live
<1>4. e \in Right
  <2>1. EndsAt(m, e)
    <3>1. e \in 0 .. WordNum
      BY <1>1
    <3> QED
      BY <1>1, <3>1, WalkSteps DEF FailsAt, GoesOn
  <2>2. ahead(e) = {}
    BY <1>1, <1>2, <1>3
  <2> QED
    BY <1>1, <2>1, <2>2 DEF EndsAt
<1>5. \A p \in 0 .. e : p + 1 .. e \subseteq Right => p \in Right
  <2> SUFFICES ASSUME NEW p \in 0 .. e, p + 1 .. e \subseteq Right, p # e, p \in Starts
               PROVE  w(p).live = ahead(p) /\ w(p).end = e
    BY <1>4
  <2>1. PICK r \in Records(m, e) : r[2] = p
    OBVIOUS
  <2>2. p \in Positions /\ p \in 0 .. WordNum /\ m[p] # END /\ Readable(m, p, r[1])
        /\ r[1] \in Names
    BY <1>1, <1>2, <2>1, ChainFacts DEF Chain, Readable, IsIn, Positions
  <2>3. PICK n \in Names : GoesOn(m, p, n)
    BY <2>2, WalkSteps DEF EndsAt, FailsAt
  <2>4. r = <<n, p>>
    <3> DEFINE s == <<n, p>>
    <3>1. s \in Names \X Positions /\ IsIn(m, s) /\ m[s[2]] \notin Texts /\ s[2] = p
      BY <2>1, <2>2, <2>3, ChainFacts DEF GoesOn, Readable, IsIn
    <3> HIDE DEF s
    <3>2. r = s \/ Behind(r) <= p \/ Behind(s) <= p
      BY <3>1, <2>1, <1>2, ChainFacts, RecordsApart
    <3>3. Behind(s) \in Nat /\ p + 2 <= Behind(s)
      BY <3>1, RecordFacts
    <3>4. r = s
      BY <3>2, <3>3, <2>1, <1>2
    <3> QED
      BY <3>4 DEF s
  <2> DEFINE q == Behind(r)
  <2>5. q \in p + 1 .. e /\ q = p + Size[n]
    BY <1>2, <2>1, <2>4 DEF Behind
  <2>6. w(p) = IF m[p] = DELETED THEN w(q) ELSE [live |-> w(q).live \cup {r}, end |-> w(q).end]
    BY <2>3, <2>4, <2>5 DEF GoesOn
  <2>7. q \in Starts
    <3>1. CASE q = e
      BY <3>1
    <3>2. CASE q # e
      <4>1. PICK s \in Records(m, e) : s[2] <= q /\ q < Behind(s)
        BY <2>5, <3>2, <1>1 DEF Chain
      <4>2. r = s \/ Behind(r) <= s[2] \/ Behind(s) <= r[2]
        BY ChainFacts
      <4>3. s[2] = q
        BY <4>1, <4>2, <1>2, <2>1, <2>5
      <4> QED
        BY <4>3
    <3> QED
      BY <3>1, <3>2
  <2>8. w(q).live = ahead(q) /\ w(q).end = e
    BY <2>5, <2>7
  <2>9. \A s \in ahead(p) : s \in ahead(q) \/ s = r
    <3> TAKE s \in ahead(p)
    <3>1. s \in Records(m, e) /\ s \in Live(m, e) /\ p <= s[2]
      BY <1>3
    <3>2. r = s \/ Behind(r) <= s[2] \/ Behind(s) <= r[2]
      BY <3>1, ChainFacts
    <3> QED
      BY <3>1, <3>2, <1>2, <2>1
  <2>10. \A s \in ahead(q) : s \in ahead(p)
    <3> TAKE s \in ahead(q)
    <3>1. s \in Live(m, e) /\ q <= s[2] /\ s[2] \in Nat
      BY <1>2, <1>3
    <3> QED
      BY <3>1, <2>5
  <2>11. CASE m[p] = DELETED
    <3>1. r \notin Live(m, e)
      BY <2>1, <2>11, WordsApart DEF Live
    <3>2. ahead(p) = ahead(q)
      BY <3>1, <2>9, <2>10
    <3> HIDE DEF q, ahead
    <3> QED
      BY <2>6, <2>8, <2>11, <3>2
  <2>12. CASE m[p] # DELETED
    <3>1. r \in Live(m, e)
      BY <2>1, <2>12 DEF Live, Chain
    <3>2. ahead(p) = ahead(q) \cup {r}
      BY <3>1, <2>1, <2>9, <2>10
    <3> HIDE DEF q, ahead
    <3> QED
      BY <2>6, <2>8, <2>12, <3>2
  <2> QED
    BY <2>11, <2>12
<1>6. 0 .. e \subseteq Right
  <2> HIDE DEF Right
  <2> QED
    BY <1>1, <1>5, Backwards
<1>7. 0 \in Starts
  <2>1. CASE e = 0
    BY <2>1
  <2>2. CASE e # 0
    <3>1. PICK r \in Records(m, e) : r[2] <= 0 /\ 0 < Behind(r)
      BY <1>1, <2>2 DEF Chain
    <3>2. r[2] = 0
      BY <3>1, <1>2
    <3> QED
      BY <3>2
  <2> QED
    BY <2>1, <2>2
<1>8. w(0).live = ahead(0) /\ w(0).end = e
  BY <1>1, <1>6, <1>7
<1>9. ahead(0) = Live(m, e)
  BY <1>2, <1>3
<1> QED
  BY <1>8, <1>9 DEF Walk

LEMMA SameText ==
    ASSUME RootInfoAssumption, NEW m, NEW k, NEW r \in Names \X Positions,
           \A q \in TextOf(r) : k[q] = m[q], IsIn(m, r)
    PROVE  IsIn(k, r)
<1>1. /\ r[1] \in Names /\ r[2] \in Nat /\ Size[r[1]] \in Nat
  BY DEF RootInfoAssumption, Positions
<1>2. r[2] + Size[r[1]] < WordNum
  BY DEF IsIn, TextAt
<1>3. \A i \in 1 .. Size[r[1]] - 1 : k[r[2] + i] = Text(r[1], i)
  <2> TAKE i \in 1 .. Size[r[1]] - 1
  <2>1. r[2] + i \in TextOf(r)
    BY <1>1 DEF TextOf, Behind
  <2>2. m[r[2] + i] = Text(r[1], i)
    BY DEF IsIn, TextAt
  <2> QED
    BY <2>1, <2>2
<1> QED
  BY <1>2, <1>3 DEF IsIn, TextAt

\* What lies behind the end flag does not matter.
LEMMA SameTable ==
    ASSUME RootInfoAssumption, NEW m, NEW k, NEW e \in Positions,
           \A q \in 0 .. e : k[q] = m[q]
    PROVE  /\ Live(k, e) = Live(m, e)
           /\ Chain(m, e) => Chain(k, e)
           /\ \A may : Stands(m, e, may) => Stands(k, e, may)
<1>1. e \in Nat
  BY DEF Positions
<1>2. \A r \in Names \X Positions : Behind(r) <= e =>
          /\ k[r[2]] = m[r[2]]
          /\ \A q \in TextOf(r) : k[q] = m[q] /\ m[q] = k[q]
  <2> SUFFICES ASSUME NEW r \in Names \X Positions, Behind(r) <= e
               PROVE  r[2] \in 0 .. e /\ TextOf(r) \subseteq 0 .. e
    OBVIOUS
  <2> QED
    BY <1>1 DEF TextOf, Behind, Positions, RootInfoAssumption
<1>3. Records(k, e) = Records(m, e)
  <2>1. \A r \in Names \X Positions : Behind(r) <= e => (IsIn(k, r) <=> IsIn(m, r))
    BY <1>2, SameText
  <2> QED
    BY <2>1 DEF Records
<1>4. \A r \in Records(m, e) : k[r[2]] = m[r[2]]
  BY <1>2 DEF Records
<1>5. Live(k, e) = Live(m, e)
  BY <1>3, <1>4 DEF Live
<1>6. \A r \in Live(m, e) : k[r[2]] = m[r[2]]
  BY <1>4 DEF Live
<1>7. Chain(m, e) => Chain(k, e)
  <2>1. k[e] = m[e]
    BY <1>1
  <2> QED
    BY <2>1, <1>3, <1>4, <1>5 DEF Chain
<1>8. \A may : Stands(m, e, may) => Stands(k, e, may)
  BY <1>5, <1>6 DEF Stands
<1> QED
  BY <1>5, <1>7, <1>8

\* registRoot: a table grows by the record behind it when its address is written.
Extended(k, m, e, n, a, end) ==
    /\ Chain(k, end)
    /\ Live(k, end) = Live(m, e) \cup {<<n, e>>}
    /\ \A may : Stands(m, e, may) /\ a \in may[n] => Stands(k, end, may)

LEMMA TableGrows ==
    ASSUME RootInfoAssumption, NEW m \in [Positions -> Words], NEW e, Chain(m, e),
           NEW n \in Names, NEW a \in Addresses, TextAt(m, e, n),
           NEW end, end = e + Size[n], m[end] = END, \A r \in Live(m, e) : r[1] # n,
           NEW k, k[e] = a, \A q \in Positions : q # e => k[q] = m[q]
    PROVE  Extended(k, m, e, n, a, end)
<1> DEFINE new == <<n, e>>
<1>1. e \in Nat /\ e \in Positions /\ WordNum \in Nat /\ m[e] = END
  BY ChainFacts, WordsApart DEF Chain
<1>2. /\ new \in Names \X Positions /\ IsIn(m, new) /\ new[1] = n /\ new[2] = e
      /\ Behind(new) = end
  BY <1>1 DEF IsIn, Behind
<1> HIDE DEF new
<1>3. end \in Nat /\ e + 2 <= end /\ end < WordNum /\ end \in Positions
  BY <1>1, <1>2, RecordFacts DEF Positions
<1>4. k[e] = a /\ \A q \in Positions : q # e => k[q] = m[q]
  OBVIOUS
<1>5. k[end] = END
  BY <1>1, <1>3, <1>4
<1>6. IsIn(k, new) /\ new \in Records(k, end) /\ new \in Live(k, end)
  <2>1. \A q \in TextOf(new) : k[q] = m[q]
    BY <1>1, <1>2, <1>3, <1>4 DEF TextOf, Positions
  <2>2. IsIn(k, new)
    BY <1>2, <2>1, SameText
  <2> QED
    BY <2>2, <1>2, <1>3, <1>4 DEF Records, Live
<1>7. \A r \in Names \X Positions : Behind(r) <= e =>
          /\ r[2] \in Positions /\ r[2] < e /\ k[r[2]] = m[r[2]]
          /\ \A q \in TextOf(r) : k[q] = m[q] /\ m[q] = k[q]
  <2> SUFFICES ASSUME NEW r \in Names \X Positions, Behind(r) <= e
               PROVE  /\ r[2] \in Positions /\ r[2] < e
                      /\ \A q \in TextOf(r) : q \in Positions /\ q # e
    BY <1>4, <1>1 DEF Positions
  <2>1. r[2] \in Nat /\ Size[r[1]] \in Nat /\ Size[r[1]] >= 2
    BY DEF Positions, RootInfoAssumption
  <2> QED
    BY <2>1, <1>1 DEF TextOf, Behind, Positions
<1>8. \A r \in Records(m, e) : r \in Records(k, end)
  <2> TAKE r \in Records(m, e)
  <2>1. r \in Names \X Positions /\ IsIn(m, r) /\ Behind(r) <= e /\ Behind(r) \in Nat
    BY RecordFacts DEF Records
  <2>2. IsIn(k, r)
    BY <2>1, <1>7, SameText
  <2> QED
    BY <2>1, <2>2, <1>1, <1>3 DEF Records
<1>9. \A r \in Records(k, end) : r \in Records(m, e) \/ r = new
  <2> SUFFICES ASSUME NEW r \in Records(k, end), r # new
               PROVE  r \in Records(m, e)
    OBVIOUS
  <2>1. r \in Names \X Positions /\ IsIn(k, r) /\ Behind(r) <= end
    BY DEF Records
  <2>2. /\ r[2] \in Nat /\ Behind(r) \in Nat /\ r[2] + 2 <= Behind(r)
        /\ \A q \in TextOf(r) : k[q] = Text(r[1], q - r[2]) /\ k[q] \in Texts
    BY <2>1, RecordFacts
  <2>3. k[e] \notin Texts /\ k[end] \notin Texts
    BY <1>4, <1>5, WordsApart
  <2>4. e \notin TextOf(r) /\ end \notin TextOf(r)
    BY <2>2, <2>3
  <2>5. CASE Behind(r) <= e
    <3>1. \A q \in TextOf(r) : m[q] = k[q]
      BY <2>1, <2>5, <1>7
    <3>2. IsIn(m, r)
      BY <2>1, <3>1, SameText
    <3> QED
      BY <2>1, <2>5, <3>2 DEF Records
  <2>6. CASE e < Behind(r)
    <3>1. e <= r[2]
      BY <2>2, <2>4, <2>6, <1>1 DEF TextOf
    <3>2. CASE r[2] = e
      <4>1. k[r[2]] \notin Texts /\ k[new[2]] \notin Texts
        BY <3>2, <1>2, <2>3
      <4>2. r = new \/ Behind(r) <= new[2] \/ Behind(new) <= r[2]
        BY <4>1, <2>1, <1>2, <1>6, RecordsApart
      <4> QED
        BY <4>2, <2>6, <3>2, <1>1, <1>2, <1>3, <2>2
    <3>3. CASE e < r[2]
      <4> DEFINE q == r[2] + 1
      <4>1. q \in TextOf(r) /\ q <= end /\ q # e /\ q \in Nat /\ e < q
        BY <2>1, <2>2, <3>3, <1>1, <1>3 DEF TextOf
      <4>2. q < end
        BY <4>1, <2>4, <1>3
      <4>3. q \in TextOf(new)
        BY <4>1, <4>2, <1>1, <1>2, <1>3 DEF TextOf
      <4>4. k[q] = Text(n, q - e) /\ k[q] = Text(r[1], q - r[2])
        BY <4>1, <4>3, <1>2, <1>6, <2>2, RecordFacts
      <4>5. q - e = q - r[2]
        BY <4>4 DEF Text
      <4> QED
        BY <4>5, <3>3, <1>1, <2>2
    <3> QED
      BY <3>1, <3>2, <3>3, <1>1, <2>2
  <2> QED
    BY <2>5, <2>6, <2>2, <1>1
<1>10. \A r \in Records(m, e) : k[r[2]] = m[r[2]]
  BY <1>7 DEF Records
<1>11. Live(k, end) = Live(m, e) \cup {new}
  BY <1>6, <1>8, <1>9, <1>10 DEF Live
<1>12. Chain(k, end)
  <2>1. \A q \in 0 .. end - 1 : \E r \in Records(k, end) : r[2] <= q /\ q < Behind(r)
    <3> TAKE q \in 0 .. end - 1
    <3>1. CASE q < e
      <4>1. q \in 0 .. e - 1
        BY <3>1, <1>1, <1>3
      <4> QED
        BY <4>1, <1>8 DEF Chain
    <3>2. CASE e <= q
      BY <3>2, <1>1, <1>2, <1>3, <1>6
    <3>3. q < e \/ e <= q
      BY <1>1, <1>3
    <3> QED
      BY <3>1, <3>2, <3>3
  <2>2. \A r \in Records(k, end) : k[r[2]] \in Addresses \/ (k[r[2]] = DELETED /\ r[2] > 0)
    BY <1>2, <1>4, <1>9, <1>10 DEF Chain
  <2>3. \A r, s \in Live(k, end) : r[1] = s[1] => r = s
    BY <1>2, <1>11 DEF Chain
  <2> QED
    BY <1>3, <1>5, <2>1, <2>2, <2>3 DEF Chain
<1>13. \A may : Stands(m, e, may) /\ a \in may[n] => Stands(k, end, may)
  <2> SUFFICES ASSUME NEW may, Stands(m, e, may), a \in may[n], NEW x \in Names
               PROVE  \/ NoRoot \in may[x] /\ \A r \in Live(k, end) : r[1] # x
                      \/ \E r \in Live(k, end) : r[1] = x /\ k[r[2]] \in may[x]
    BY DEF Stands
  <2>1. CASE x = n
    BY <2>1, <1>2, <1>4, <1>11
  <2>2. CASE x # n /\ NoRoot \in may[x] /\ \A r \in Live(m, e) : r[1] # x
    BY <2>2, <1>2, <1>11
  <2>3. CASE \E r \in Live(m, e) : r[1] = x /\ m[r[2]] \in may[x]
    <3>1. PICK r \in Live(m, e) : r[1] = x /\ m[r[2]] \in may[x]
      BY <2>3
    <3>2. k[r[2]] = m[r[2]]
      BY <1>10 DEF Live
    <3> QED
      BY <3>1, <3>2, <1>11
  <2> QED
    BY <2>1, <2>2, <2>3 DEF Stands
<1> QED
  BY <1>11, <1>12, <1>13 DEF new, Extended

\* setRootNodeAddr and deleteRoot: the address of a root's record changes.
\* What a table keeps when the record of n at p gets another address a.
Rewritten(k, m, e, n, p, a) ==
    /\ Chain(k, e)
    /\ <<n, p>> \in Records(k, e)
    /\ \A r \in Live(k, e) : r[1] = n => r[2] = p
    /\ \A x \in Names, q \in Positions :
          x # n => (<<x, q>> \in Live(k, e) <=> <<x, q>> \in Live(m, e))
    /\ \A may : Stands(m, e, may) /\ Target(a) \in may[n] => Stands(k, e, may)

LEMMA RecordChanges ==
    ASSUME RootInfoAssumption, NEW m \in [Positions -> Words], NEW e, Chain(m, e),
           NEW n \in Names, NEW p \in Positions, <<n, p>> \in Records(m, e),
           NEW a \in Addresses \cup {DELETED}, a = DELETED => p > 0,
           \A r \in Live(m, e) : r[1] = n => r[2] = p,
           NEW k, k[p] = a, \A q \in Positions : q # p => k[q] = m[q]
    PROVE  Rewritten(k, m, e, n, p, a)
<1> DEFINE r0 == <<n, p>>
<1>1. /\ r0 \in Names \X Positions /\ r0[1] = n /\ r0[2] = p /\ r0 \in Records(m, e)
      /\ e \in Nat
  BY ChainFacts
<1> HIDE DEF r0
<1>2. k[p] = a /\ \A q \in Positions : q # p => k[q] = m[q]
  OBVIOUS
<1>3. m[p] \notin Texts /\ k[p] \notin Texts /\ m[p] # END
  <2>1. m[p] \notin Texts /\ m[p] # END
    BY <1>1, ChainFacts
  <2> QED
    BY <2>1, <1>2, WordsApart
<1>4. \A r \in Names \X Positions : IsIn(k, r) <=> IsIn(m, r)
  <2> TAKE r \in Names \X Positions
  <2>1. IsIn(k, r) \/ IsIn(m, r) => p \notin TextOf(r)
    <3>1. IsIn(k, r) => \A q \in TextOf(r) : k[q] \in Texts
      BY RecordFacts
    <3>2. IsIn(m, r) => \A q \in TextOf(r) : m[q] \in Texts
      BY RecordFacts
    <3> QED
      BY <3>1, <3>2, <1>3
  <2>2. IsIn(k, r) \/ IsIn(m, r) => TextOf(r) \subseteq Positions
    <3>1. IsIn(k, r) \/ IsIn(m, r) => r[2] \in Nat /\ Behind(r) \in Nat /\ Behind(r) < WordNum
      BY RecordFacts
    <3>2. WordNum \in Nat
      BY WordsApart
    <3> QED
      BY <3>1, <3>2 DEF TextOf, Positions
  <2>3. IsIn(k, r) \/ IsIn(m, r) => \A q \in TextOf(r) : k[q] = m[q] /\ m[q] = k[q]
    BY <2>1, <2>2, <1>2
  <2> QED
    BY <2>3, SameText
<1>5. Records(k, e) = Records(m, e)
  BY <1>4 DEF Records
<1>6. \A r \in Records(m, e) : r = r0 \/ (r[2] # p /\ r[2] \in Positions /\ k[r[2]] = m[r[2]])
  <2> TAKE r \in Records(m, e)
  <2>1. r = r0 \/ Behind(r) <= p \/ Behind(r0) <= r[2]
    BY <1>1, ChainFacts
  <2>2. /\ r[2] \in Nat /\ Behind(r) \in Nat /\ r[2] + 2 <= Behind(r) /\ r[2] \in Positions
        /\ p \in Nat /\ Behind(r0) \in Nat /\ p + 2 <= Behind(r0)
    BY <1>1, RecordFacts DEF Records
  <2> QED
    BY <2>1, <2>2, <1>2
<1>7. \A r \in Live(k, e) : r[1] = n => r = r0
  <2> SUFFICES ASSUME NEW r \in Live(k, e), r[1] = n, r # r0
               PROVE  FALSE
    OBVIOUS
  <2>1. r \in Live(m, e) /\ r[2] # p
    BY <1>5, <1>6 DEF Live
  <2> QED
    BY <2>1
<1>8. \A r : r # r0 => (r \in Live(k, e) <=> r \in Live(m, e))
  BY <1>5, <1>6 DEF Live
<1>9. Chain(k, e)
  <2>1. k[e] = END
    BY <1>2, <1>3 DEF Chain
  <2>2. \A r \in Records(k, e) : k[r[2]] \in Addresses \/ (k[r[2]] = DELETED /\ r[2] > 0)
    BY <1>1, <1>2, <1>5, <1>6 DEF Chain
  <2>3. \A r, s \in Live(k, e) : r[1] = s[1] => r = s
    <3> SUFFICES ASSUME NEW r \in Live(k, e), NEW s \in Live(k, e), r[1] = s[1]
                 PROVE  r = s
      OBVIOUS
    <3>1. CASE r[1] = n
      BY <3>1, <1>7
    <3>2. CASE r[1] # n
      BY <3>2, <1>1, <1>8 DEF Chain
    <3> QED
      BY <3>1, <3>2
  <2> QED
    BY <2>1, <2>2, <2>3, <1>5 DEF Chain
<1>10. \A x \in Names, q \in Positions :
          x # n => (<<x, q>> \in Live(k, e) <=> <<x, q>> \in Live(m, e))
  BY <1>8 DEF r0
<1>11. \A may : Stands(m, e, may) /\ Target(a) \in may[n] => Stands(k, e, may)
  <2> SUFFICES ASSUME NEW may, Stands(m, e, may), Target(a) \in may[n], NEW x \in Names
               PROVE  \/ NoRoot \in may[x] /\ \A r \in Live(k, e) : r[1] # x
                      \/ \E r \in Live(k, e) : r[1] = x /\ k[r[2]] \in may[x]
    BY DEF Stands
  <2>1. CASE x = n /\ a = DELETED
    <3>1. r0 \notin Live(k, e)
      BY <2>1, <1>1, <1>2, WordsApart DEF Live
    <3> QED
      BY <2>1, <3>1, <1>7 DEF Target
  <2>2. CASE x = n /\ a # DELETED
    <3>1. r0 \in Live(k, e) /\ k[r0[2]] \in may[x]
      BY <2>2, <1>1, <1>2, <1>5 DEF Live, Target
    <3> QED
      BY <2>2, <3>1, <1>1
  <2>3. CASE x # n /\ NoRoot \in may[x] /\ \A r \in Live(m, e) : r[1] # x
    BY <2>3, <1>1, <1>8
  <2>4. CASE x # n /\ \E r \in Live(m, e) : r[1] = x /\ m[r[2]] \in may[x]
    <3>1. PICK r \in Live(m, e) : r[1] = x /\ m[r[2]] \in may[x]
      BY <2>4
    <3>2. r # r0 /\ r \in Records(m, e)
      BY <2>4, <3>1, <1>1 DEF Live
    <3>3. r \in Live(k, e) /\ k[r[2]] = m[r[2]]
      BY <3>2, <1>6, <1>8
    <3> QED
      BY <3>1, <3>3
  <2> QED
    BY <2>1, <2>2, <2>3, <2>4 DEF Stands
<1>12. <<n, p>> \in Records(k, e) /\ \A r \in Live(k, e) : r[1] = n => r[2] = p
  BY <1>1, <1>5, <1>7
<1> QED
  BY <1>9, <1>10, <1>11, <1>12 DEF Rewritten

LEMMA StandsMore ==
    ASSUME NEW m, NEW e, NEW may, NEW more, \A n \in Names : may[n] \subseteq more[n],
           Stands(m, e, may)
    PROVE  Stands(m, e, more)
BY DEF Stands

-----------------------------------------------------------------------------
(* Types. *)

LEMMA OpFacts ==
    ASSUME RootInfoAssumption, RootTypeOK, op # Idle
    PROVE  /\ op \in Operations /\ op.name \in Names /\ op.pos \in Positions /\ op.pos \in Nat
           /\ op.pc \in Stages /\ op.addr \in Addresses \cup {END, DELETED}
           /\ RecordEnd \in Positions /\ RecordEnd \in Nat /\ op.pos + 2 <= RecordEnd
           /\ RecordEnd = op.pos + Size[op.name]
<1>1. op \in Operations /\ RecordEnd \in Positions
  BY DEF RootTypeOK, RecordEnd
<1> QED
  BY <1>1 DEF Operations, Positions, RecordEnd, RootInfoAssumption

LEMMA OpMoves ==
    ASSUME RootInfoAssumption, RootTypeOK, NEW from, NEW to \in Stages, OpStep(from, to)
    PROVE  /\ op # Idle /\ op' # Idle /\ op' \in Operations /\ op.pc = from /\ op'.pc = to
           /\ op'.name = op.name /\ op'.addr = op.addr /\ op'.pos = op.pos /\ RecordEnd' = RecordEnd
<1>1. op # Idle /\ op \in Operations /\ op.pc = from /\ op' = [op EXCEPT !.pc = to]
  BY DEF OpStep, RootTypeOK
<1>2. op' \in Operations /\ op'.pc = to /\ op'.name = op.name /\ op'.addr = op.addr
      /\ op'.pos = op.pos
  BY <1>1 DEF Operations
<1>3. Idle \notin Operations
  BY DEF RootInfoAssumption, Operations, Marks
<1> QED
  BY <1>1, <1>2, <1>3 DEF RecordEnd

LEMMA ReliedFacts ==
    ASSUME RootInfoAssumption, RootTypeOK, NEW r \in Relied
    PROVE  r \in Names \X Positions
<1>1. \A n \in Names : m_roots[n] # NoRoot => m_roots[n] \in Positions
  BY DEF RootTypeOK
<1>2. \A t \in Readers : found[t] # Idle => found[t] \in [name : Names, pos : Positions]
  BY DEF RootTypeOK
<1> QED
  BY <1>1, <1>2 DEF Relied

LEMMA InitHolds ==
    ASSUME RootInfoAssumption, RootInit
    PROVE  RootIInv
<1> USE DEF RootInit
<1>1. 0 \in Positions /\ WordNum \in Nat
  BY DEF RootInfoAssumption, Positions
<1>2. RootTypeOK
  BY <1>1 DEF RootTypeOK, Words, Marks
<1>3. Relied = {}
  BY DEF Relied
<1>4. Records(words, 0) = {} /\ Live(words, 0) = {}
  BY RecordFacts DEF Records, Live
<1>5. Sound(words, 0, allowed)
  BY <1>1, <1>4 DEF Sound, Chain, Stands
<1>6. TableEnd = 0 /\ ~Unflushed /\ Flushed = 0 .. 0
  BY DEF TableEnd, Unflushed, Flushed
<1>7. NvmOK /\ RootsOK
  BY <1>1, <1>4, <1>6, WordsApart DEF NvmOK, RootsOK
<1> QED
  BY <1>2, <1>3, <1>5, <1>6, <1>7
  DEF RootIInv, ReliedOK, OpOK, TableOK, OpTableOK, DownOK

LEMMA TypesKept ==
    ASSUME RootInfoAssumption, RootTypeOK, ReliedOK, OpOK, [RootNext]_rootVars
    PROVE  RootTypeOK'
<1> USE DEF RootTypeOK
<1>1. CASE UNCHANGED rootVars
  BY <1>1 DEF rootVars, Operations
<1>2. ASSUME NEW p \in Positions, Evict(p) PROVE RootTypeOK'
  BY <1>2 DEF Evict, ghost, Operations
<1>3. ASSUME NEW n \in Names, NEW a \in Addresses \cup {END}, RegistRoot(n, a)
      PROVE  RootTypeOK'
  <2>1. /\ m_rootSpaceEnd \in Nat /\ Size[n] \in Nat /\ WordNum \in Nat
        /\ m_rootSpaceEnd + Size[n] + 1 <= WordNum
    BY <1>3 DEF RegistRoot, RootInfoAssumption
  <2>2. m_rootSpaceEnd \in Positions /\ m_rootSpaceEnd + Size[n] \in Positions
    BY <2>1 DEF Positions
  <2>3. op' \in Operations /\ op'.pos + Size[op'.name] \in Positions
    BY <1>3, <2>2 DEF RegistRoot, Operations, Stages
  <2>4. allowed' \in [Names -> SUBSET (Addresses \cup {END, NoRoot})]
    BY <1>3 DEF RegistRoot
  <2>5. spoilt' \subseteq Spoils
    BY <1>3 DEF RegistRoot, Spoils
  <2> QED
    BY <1>3, <2>3, <2>4, <2>5 DEF RegistRoot, disk
<1>4. ASSUME NEW from, NEW to \in Stages, OpStep(from, to)
      PROVE  /\ op' \in Operations \cup {Idle}
             /\ op' # Idle => op'.pos + Size[op'.name] \in Positions
  BY <1>4, OpMoves DEF RecordEnd
<1>5. CASE WriteNames
  <2>1. op # Idle /\ OpStep("names", "flush")
    BY <1>5 DEF WriteNames, OpStep
  <2> DEFINE edge == op.pos + Size[op.name]
  <2>2. PICK flag \in EndFlag(op.name, words[edge]) :
          /\ words' = [p \in Positions |->
                          CASE p = edge -> flag
                            [] p \in op.pos + 1 .. edge - 1 -> Text(op.name, p - op.pos)
                            [] OTHER -> words[p]]
          /\ spoilt' = spoilt \cup (IF flag = RUBBISH THEN {"rubbish"} ELSE {})
    BY <1>5 DEF WriteNames
  <2>3. flag \in Words
    BY DEF EndFlag, Words, Marks
  <2>4. \A p \in op.pos + 1 .. edge - 1 : Text(op.name, p - op.pos) \in Words
    <3> TAKE p \in op.pos + 1 .. edge - 1
    <3>1. /\ edge = RecordEnd /\ op.pos \in Nat /\ RecordEnd \in Nat
          /\ RecordEnd < WordNum /\ WordNum \in Nat
          /\ op.name \in Names
      BY <2>1, OpFacts DEF RootInfoAssumption, Positions
    <3> HIDE DEF edge
    <3>2. p - op.pos \in 1 .. WordNum
      BY <3>1
    <3> QED
      BY <3>1, <3>2 DEF Text, Texts, Words
  <2>5. words' \in [Positions -> Words]
    <3> HIDE DEF edge
    <3>1. \A p \in Positions : words[p] \in Words
      OBVIOUS
    <3> QED
      BY <2>2, <2>3, <2>4, <3>1
  <2> HIDE DEF edge
  <2>6. spoilt' \subseteq Spoils
    BY <2>2 DEF Spoils
  <2> QED
    BY <1>5, <2>1, <2>5, <2>6, <1>4 DEF WriteNames, Stages
<1>6. CASE FlushNames
  <2>1. nvm' \in [Positions -> Words]
    BY <1>6 DEF FlushNames
  <2> QED
    BY <1>6, <2>1, <1>4 DEF FlushNames, ghost, Stages
<1>7. CASE WriteAddr
  <2>1. op # Idle
    BY <1>7 DEF WriteAddr, OpStep
  <2>2. words' \in [Positions -> Words]
    BY <1>7, <2>1, OpFacts DEF WriteAddr, Words, Marks
  <2> QED
    BY <1>7, <2>2, <1>4 DEF WriteAddr, ghost, Stages
<1>8. CASE FlushAddr
  <2>1. op # Idle
    BY <1>8 DEF FlushAddr, OpStep
  <2>2. nvm' \in [Positions -> Words]
    BY <1>8, <2>1, OpFacts DEF FlushAddr
  <2> QED
    BY <1>8, <2>2, <1>4 DEF FlushAddr, ghost, Stages
<1>9. ASSUME op # Idle, allowed' = Settled
      PROVE  allowed' \in [Names -> SUBSET (Addresses \cup {END, NoRoot})]
  BY <1>9, OpFacts DEF Settled
<1>10. CASE InsertRoot
  <2>1. op # Idle /\ m_rootSpaceEnd' = RecordEnd
    BY <1>10 DEF InsertRoot, RecordEnd
  <2>2. m_rootSpaceEnd' \in 0 .. WordNum
    BY <2>1, OpFacts DEF Positions, RootInfoAssumption
  <2>3. m_roots' \in [Names -> Positions \cup {NoRoot}]
    BY <1>10, <2>1, OpFacts DEF InsertRoot
  <2> QED
    BY <1>10, <2>1, <2>2, <2>3, <1>9 DEF InsertRoot, disk
<1>11. ASSUME NEW n \in Names, NEW a \in Addresses \cup {END, DELETED}, SetRootNodeAddr(n, a)
       PROVE  RootTypeOK'
  <2> DEFINE r == <<n, m_roots[n]>>
  <2>1. r \in Relied /\ system = "up" /\ m_roots[n] \in Positions
    BY <1>11 DEF SetRootNodeAddr, Relied
  <2>2. r \in Names \X Positions /\ IsIn(words, r)
    BY <2>1 DEF ReliedOK
  <2>3. m_roots[n] + Size[n] \in Positions
    <3>1. Behind(r) \in Nat /\ Behind(r) < WordNum /\ Behind(r) = m_roots[n] + Size[n]
      BY <2>2, RecordFacts
    <3> QED
      BY <3>1 DEF Positions, RootInfoAssumption
  <2>4. op' \in Operations /\ op'.pos + Size[op'.name] \in Positions
    BY <1>11, <2>1, <2>3 DEF SetRootNodeAddr, Operations, Stages
  <2>5. allowed' \in [Names -> SUBSET (Addresses \cup {END, NoRoot})]
    BY <1>11 DEF SetRootNodeAddr
  <2>6. spoilt' \subseteq Spoils
    BY <1>11 DEF SetRootNodeAddr, Spoils
  <2> QED
    BY <1>11, <2>4, <2>5, <2>6 DEF SetRootNodeAddr, disk
<1>12. CASE SetDone
  <2>1. op # Idle
    BY <1>12 DEF SetDone
  <2>2. m_roots' \in [Names -> Positions \cup {NoRoot}]
    BY <1>12 DEF SetDone
  <2> QED
    BY <1>12, <2>1, <2>2, <1>9 DEF SetDone, disk
<1>13. ASSUME NEW t \in Readers, ReadAddr(t) PROVE RootTypeOK'
  BY <1>13 DEF ReadAddr, disk, ghost, Operations
<1>14. ASSUME NEW t \in Readers, NEW n \in Names, FindRoot(t, n) PROVE RootTypeOK'
  BY <1>14 DEF FindRoot, disk, ghost, Operations
<1>15. CASE Crash
  <2>1. crashes' \in 0 .. MaxCrashes
    BY <1>15 DEF Crash, RootInfoAssumption
  <2> QED
    BY <1>15, <2>1 DEF Crash, ghost, RootInfoAssumption
<1>16. CASE Restart
  <2> DEFINE walk == Walk(words)
             at(n) == {r[2] : r \in {x \in walk.live : x[1] = n}}
  <2>1. /\ walk.end \in 0 .. WordNum
        /\ \A r \in walk.live : r \in Names \X Positions /\ words[r[2]] \in Addresses
    BY WalkFacts DEF WalkIsRight, Walk, Positions
  <2> HIDE DEF walk
  <2>2. \A n \in Names : at(n) # {} => (CHOOSE p \in at(n) : \A q \in at(n) : p <= q) \in at(n)
    <3> TAKE n \in Names
    <3>1. ASSUME at(n) # {} PROVE \E p \in at(n) : \A q \in at(n) : p <= q
      <4>1. \A p \in at(n) : p \in Nat
        BY <2>1 DEF Positions
      <4> HIDE DEF at
      <4> QED
        BY <3>1, <4>1, Least
    <3> HIDE DEF at
    <3> QED
      BY <3>1, Zenon
  <2>3. \A n \in Names : at(n) \subseteq Positions
    BY <2>1
  <2>4. m_roots' = [n \in Names |-> IF at(n) = {} THEN NoRoot
                                    ELSE CHOOSE p \in at(n) : \A q \in at(n) : p <= q]
    BY <1>16 DEF Restart, walk
  <2>5. m_roots' \in [Names -> Positions \cup {NoRoot}]
    <3> HIDE DEF at
    <3> QED
      BY <2>2, <2>3, <2>4
  <2>6. \A n \in Names : AddressesIn(words, n) \subseteq Addresses \cup {NoRoot}
    BY <2>1 DEF AddressesIn, walk
  <2>7. allowed' \in [Names -> SUBSET (Addresses \cup {END, NoRoot})]
    BY <1>16, <2>6 DEF Restart
  <2>8. m_rootSpaceEnd' \in 0 .. WordNum /\ system' \in {"down", "up", "dead"}
    BY <1>16, <2>1 DEF Restart, walk
  <2> QED
    BY <1>16, <2>5, <2>7, <2>8 DEF Restart, disk, Operations
<1> QED
  BY <1>1, <1>2, <1>3, <1>5, <1>6, <1>7, <1>8, <1>10, <1>11, <1>12, <1>13, <1>14, <1>15, <1>16
  DEF RootNext

-----------------------------------------------------------------------------
(* The records relied upon keep their texts, whatever was done before. *)

LEMMA ReliedKept ==
    ASSUME RootInfoAssumption, RootTypeOK, ReliedOK, system = "up",
           Relied' \subseteq Relied, m_rootSpaceEnd' = m_rootSpaceEnd,
           \A r \in Relied : \A q \in TextOf(r) : words'[q] = words[q]
    PROVE  ReliedOK'
<1>1. \A r \in Relied : IsIn(words', r) /\ Behind(r) <= m_rootSpaceEnd
  BY ReliedFacts, SameText DEF ReliedOK
<1>2. \A r, s \in Relied : s[2] \notin TextOf(r)
  BY DEF ReliedOK
<1> QED
  BY <1>1, <1>2 DEF ReliedOK

\* The operation in progress writes behind all those records, or to the address
\* word of one of them.
LEMMA AddressWordIsFree ==
    ASSUME RootInfoAssumption, RootTypeOK, ReliedOK, OpOK, op # Idle
    PROVE  /\ system = "up"
           /\ \A r \in Relied : op.pos \notin TextOf(r)
           /\ Registering => \A r \in Relied : Behind(r) <= op.pos
           /\ ~Registering => <<op.name, op.pos>> \in Relied
<1>1. system = "up"
  BY DEF OpOK
<1>2. CASE Registering
  <2>1. op.pos = m_rootSpaceEnd /\ op.pos \in Nat
    BY <1>2, OpFacts DEF OpOK
  <2>2. \A r \in Relied : Behind(r) <= op.pos /\ Behind(r) \in Nat
    BY <1>1, <2>1, ReliedFacts, RecordFacts DEF ReliedOK
  <2> QED
    BY <1>1, <1>2, <2>1, <2>2 DEF TextOf
<1>3. CASE ~Registering
  <2>1. m_roots[op.name] = op.pos /\ op.pos # NoRoot /\ op.name \in Names
    BY <1>3, OpFacts, WordsApart DEF OpOK
  <2>2. <<op.name, op.pos>> \in Relied
    BY <2>1 DEF Relied
  <2> QED
    BY <1>1, <1>3, <2>2 DEF ReliedOK
<1> QED
  BY <1>2, <1>3

LEMMA WriteNamesIs ==
    ASSUME RootInfoAssumption, RootTypeOK, ReliedOK, OpOK, WriteNames
    PROVE  /\ op # Idle /\ OpStep("names", "flush") /\ Registering
           /\ TextAt(words', op.pos, op.name)
           /\ \A q \in Positions : ~(q \in op.pos + 1 .. RecordEnd) => words'[q] = words[q]
           /\ spoilt' = {} => spoilt = {} /\ words'[RecordEnd] = END
<1>1. op # Idle /\ OpStep("names", "flush") /\ Registering
  BY DEF WriteNames, OpStep, Registering
<1>2. PICK flag \in EndFlag(op.name, words[RecordEnd]) :
          /\ words' = [p \in Positions |->
                          CASE p = RecordEnd -> flag
                            [] p \in op.pos + 1 .. RecordEnd - 1 -> Text(op.name, p - op.pos)
                            [] OTHER -> words[p]]
          /\ spoilt' = spoilt \cup (IF flag = RUBBISH THEN {"rubbish"} ELSE {})
  BY DEF WriteNames, RecordEnd
<1>3. /\ op.pos \in Nat /\ RecordEnd \in Nat /\ op.pos + 2 <= RecordEnd /\ RecordEnd < WordNum
      /\ RecordEnd = op.pos + Size[op.name] /\ Size[op.name] \in Nat /\ WordNum \in Nat
      /\ op.name \in Names
  BY <1>1, OpFacts DEF Positions, RootInfoAssumption
<1>4. \A q \in op.pos + 1 .. RecordEnd - 1 : words'[q] = Text(op.name, q - op.pos)
  BY <1>2, <1>3 DEF Positions
<1>5. TextAt(words', op.pos, op.name)
  <2>1. \A i \in 1 .. Size[op.name] - 1 : words'[op.pos + i] = Text(op.name, i)
    <3> TAKE i \in 1 .. Size[op.name] - 1
    <3>1. op.pos + i \in op.pos + 1 .. RecordEnd - 1 /\ (op.pos + i) - op.pos = i
      BY <1>3
    <3> QED
      BY <3>1, <1>4
  <2> QED
    BY <2>1, <1>3 DEF TextAt
<1>6. \A q \in Positions : ~(q \in op.pos + 1 .. RecordEnd) => words'[q] = words[q]
  <2> SUFFICES ASSUME NEW q \in Positions, ~(q \in op.pos + 1 .. RecordEnd)
               PROVE  q # RecordEnd /\ ~(q \in op.pos + 1 .. RecordEnd - 1)
    BY <1>2
  <2> QED
    BY <1>3
<1>7. spoilt' = {} => spoilt = {} /\ words'[RecordEnd] = END
  <2>1. RecordEnd \in Positions
    BY <1>3 DEF Positions
  <2>2. words'[RecordEnd] = flag
    BY <1>2, <2>1
  <2> QED
    BY <1>2, <2>2 DEF EndFlag
<1> QED
  BY <1>1, <1>5, <1>6, <1>7

\* The steps of an operation, but for its last.
LEMMA OperationRelies ==
    ASSUME RootInfoAssumption, RootTypeOK, ReliedOK, OpOK,
           WriteNames \/ FlushNames \/ WriteAddr \/ FlushAddr
    PROVE  ReliedOK' /\ OpOK'
<1>1. PICK from \in Stages, to \in Stages :
          /\ OpStep(from, to) /\ to # "names"
          /\ <<from, to>> \in {<<"names", "flush">>, <<"flush", "addr">>,
                               <<"addr", "flushAddr">>, <<"set", "flushSet">>,
                               <<"flushAddr", "insert">>, <<"flushSet", "done">>}
  BY DEF WriteNames, FlushNames, WriteAddr, FlushAddr, Stages
<1>2. /\ op # Idle /\ op' # Idle /\ op.pc = from /\ op'.pc = to
      /\ op'.name = op.name /\ op'.addr = op.addr /\ op'.pos = op.pos
  BY <1>1, OpMoves
<1>3. Registering' = Registering /\ system = "up"
  BY <1>1, <1>2, AddressWordIsFree DEF Registering
<1>4. /\ UNCHANGED <<m_roots, m_rootSpaceEnd, found, system>> /\ Relied' = Relied
  BY DEF WriteNames, FlushNames, WriteAddr, FlushAddr, Relied
<1>5. \A r \in Relied : \A q \in TextOf(r) : words'[q] = words[q]
  <2> SUFFICES ASSUME NEW r \in Relied, NEW q \in TextOf(r)
               PROVE  words'[q] = words[q]
    OBVIOUS
  <2>1. r \in Names \X Positions /\ IsIn(words, r)
    BY <1>3, ReliedFacts DEF ReliedOK
  <2>2. q \in Positions /\ q \in Nat /\ q < Behind(r) /\ Behind(r) \in Nat
    BY <2>1, RecordFacts, WordsApart DEF TextOf, Positions
  <2>3. CASE WriteNames
    <3>1. Behind(r) <= op.pos /\ op.pos \in Nat
      BY <1>2, <2>3, WriteNamesIs, AddressWordIsFree, OpFacts
    <3>2. ~(q \in op.pos + 1 .. RecordEnd)
      BY <3>1, <2>2
    <3> QED
      BY <2>2, <2>3, <3>2, WriteNamesIs
  <2>4. CASE WriteAddr
    <3>1. q # op.pos
      BY <1>2, AddressWordIsFree
    <3> QED
      BY <2>4, <2>2, <3>1 DEF WriteAddr, RootTypeOK
  <2>5. CASE FlushNames \/ FlushAddr
    BY <2>5 DEF FlushNames, FlushAddr
  <2> QED
    BY <2>3, <2>4, <2>5
<1>6. ReliedOK'
  BY <1>3, <1>4, <1>5, ReliedKept
<1>7. Registering => TextAt(words', op.pos, op.name)
  <2> SUFFICES ASSUME Registering
               PROVE  TextAt(words', op.pos, op.name)
    OBVIOUS
  <2>1. CASE WriteNames
    BY <2>1, WriteNamesIs
  <2>2. CASE ~WriteNames
    <3> DEFINE r == <<op.name, op.pos>>
    <3>0. op.pc # "names"
      BY <1>2, <2>2, <1>1 DEF FlushNames, WriteAddr, FlushAddr, OpStep
    <3>1. r \in Names \X Positions /\ IsIn(words, r)
      BY <1>2, <3>0, OpFacts DEF IsIn, OpOK
    <3>2. \A q \in TextOf(r) : q \in Positions /\ q # op.pos
      BY <3>1, <1>2, RecordFacts, OpFacts, WordsApart DEF TextOf, Positions
    <3>3. \A q \in TextOf(r) : words'[q] = words[q]
      BY <3>2, <2>2 DEF FlushNames, WriteAddr, FlushAddr, RootTypeOK
    <3>4. IsIn(words', r)
      BY <3>1, <3>3, SameText
    <3> QED
      BY <3>4 DEF IsIn
  <2> QED
    BY <2>1, <2>2
<1>8. op # Idle /\ op' # Idle
  BY <1>2
<1> QED
  BY <1>2, <1>3, <1>4, <1>6, <1>7 DEF OpOK

LEMMA BeginRelies ==
    ASSUME RootInfoAssumption, RootTypeOK, ReliedOK, OpOK,
           NEW n \in Names, NEW a \in Addresses \cup {END, DELETED},
           (RegistRoot(n, a) /\ a # DELETED) \/ SetRootNodeAddr(n, a)
    PROVE  ReliedOK' /\ OpOK'
<1>1. /\ UNCHANGED <<words, nvm, m_roots, m_rootSpaceEnd, found, system>> /\ system = "up"
      /\ Relied' = Relied
  BY DEF RegistRoot, SetRootNodeAddr, disk, Relied
<1>2. ReliedOK'
  BY <1>1, ReliedKept
<1>3. CASE RegistRoot(n, a) /\ a # DELETED
  <2>1. op' = [pc |-> "names", name |-> n, addr |-> a, pos |-> m_rootSpaceEnd]
        /\ m_roots[n] = NoRoot
    BY <1>3 DEF RegistRoot
  <2>2. op'.pc = "names" /\ op'.name = n /\ op'.addr = a /\ op'.pos = m_rootSpaceEnd
    BY <2>1
  <2> QED
    BY <1>1, <1>2, <1>3, <2>1, <2>2 DEF OpOK, Registering
<1>4. CASE SetRootNodeAddr(n, a)
  <2>1. op' = [pc |-> "set", name |-> n, addr |-> a, pos |-> m_roots[n]]
    BY <1>4 DEF SetRootNodeAddr
  <2>2. op'.pc = "set" /\ op'.name = n /\ op'.pos = m_roots[n]
    BY <2>1
  <2> QED
    BY <1>1, <1>2, <2>2 DEF OpOK, Registering
<1> QED
  BY <1>3, <1>4

LEMMA InsertRelies ==
    ASSUME RootInfoAssumption, RootTypeOK, ReliedOK, OpOK, InsertRoot
    PROVE  ReliedOK' /\ OpOK'
<1> DEFINE new == <<op.name, op.pos>>
<1>1. op # Idle /\ op.pc = "insert" /\ op' = Idle /\ Registering
  BY DEF InsertRoot, Registering
<1>2. /\ m_rootSpaceEnd' = RecordEnd /\ UNCHANGED <<words, nvm, found, system>>
      /\ m_roots' = [m_roots EXCEPT ![op.name] = op.pos]
  BY DEF InsertRoot, disk, RecordEnd
<1>3. /\ new \in Names \X Positions /\ IsIn(words, new) /\ Behind(new) = RecordEnd
      /\ new[2] = op.pos /\ op.pos = m_rootSpaceEnd
  BY <1>1, OpFacts DEF OpOK, IsIn, Behind, RecordEnd
<1> HIDE DEF new
<1>4. \A r \in Relied' : r \in Relied \/ r = new
  BY <1>1, <1>2, OpFacts DEF Relied, RootTypeOK, new
<1>5. \A r \in Relied : /\ Behind(r) <= op.pos /\ Behind(r) \in Nat /\ r[2] \in Nat
                        /\ r[2] < Behind(r) /\ IsIn(words, r)
  BY <1>1, AddressWordIsFree, ReliedFacts, RecordFacts DEF ReliedOK
<1>6. /\ op.pos \in Nat /\ RecordEnd \in Nat /\ op.pos + 2 <= RecordEnd /\ system = "up"
      /\ TextOf(new) = op.pos + 1 .. RecordEnd - 1
  BY <1>1, <1>3, OpFacts, AddressWordIsFree DEF TextOf
<1>7. \A r \in Relied' : IsIn(words, r) /\ Behind(r) <= RecordEnd
  BY <1>3, <1>4, <1>5, <1>6
<1>8. \A r, s \in Relied' : s[2] \notin TextOf(r)
  <2> SUFFICES ASSUME NEW r \in Relied', NEW s \in Relied'
               PROVE  s[2] \notin TextOf(r)
    OBVIOUS
  <2>1. CASE r \in Relied /\ s \in Relied
    BY <2>1, <1>6 DEF ReliedOK
  <2>2. CASE r \in Relied /\ s = new
    BY <2>2, <1>1, <1>3, AddressWordIsFree
  <2>3. CASE r = new
    <3>1. s[2] <= op.pos /\ s[2] \in Nat
      BY <1>3, <1>4, <1>5, <1>6
    <3> QED
      BY <2>3, <3>1, <1>6
  <2> QED
    BY <2>1, <2>2, <2>3, <1>4
<1>9. ReliedOK'
  BY <1>2, <1>7, <1>8 DEF ReliedOK
<1> QED
  BY <1>1, <1>2, <1>6, <1>9 DEF OpOK

\* What leaves the table, its end and the system alone, and adds no record.
LEMMA OthersRely ==
    ASSUME RootInfoAssumption, RootTypeOK, ReliedOK, OpOK,
           UNCHANGED <<words, m_rootSpaceEnd, system>>, Relied' \subseteq Relied
    PROVE  ReliedOK'
<1>1. CASE system = "up"
  BY <1>1, ReliedKept
<1>2. CASE system # "up"
  BY <1>2 DEF ReliedOK
<1> QED
  BY <1>1, <1>2

LEMMA EvictRelies ==
    ASSUME RootInfoAssumption, RootTypeOK, ReliedOK, OpOK, NEW p \in Positions, Evict(p)
    PROVE  ReliedOK' /\ OpOK'
<1>1. UNCHANGED <<words, m_roots, m_rootSpaceEnd, op, found, system>>
      /\ nvm' = [nvm EXCEPT ![p] = words[p]]
  BY DEF Evict
<1>2. ReliedOK'
  BY <1>1, OthersRely DEF Relied
<1>3. words = nvm => nvm' = nvm
  BY <1>1 DEF RootTypeOK
<1> QED
  BY <1>1, <1>2, <1>3 DEF OpOK, Registering

LEMMA SetDoneRelies ==
    ASSUME RootInfoAssumption, RootTypeOK, ReliedOK, OpOK, SetDone
    PROVE  ReliedOK' /\ OpOK'
<1>1. /\ op # Idle /\ op' = Idle /\ UNCHANGED <<words, nvm, m_rootSpaceEnd, found, system>>
      /\ \A n \in Names : m_roots'[n] \in {m_roots[n], NoRoot}
  BY DEF SetDone, disk, RootTypeOK
<1>2. ReliedOK'
  BY <1>1, OthersRely DEF Relied
<1> QED
  BY <1>1, <1>2 DEF OpOK

LEMMA ReadersRely ==
    ASSUME RootInfoAssumption, RootTypeOK, ReliedOK, OpOK, NEW t \in Readers,
           ReadAddr(t) \/ \E n \in Names : FindRoot(t, n)
    PROVE  ReliedOK' /\ OpOK'
<1>1. UNCHANGED <<words, nvm, m_roots, m_rootSpaceEnd, op, system>>
  BY DEF ReadAddr, FindRoot, disk
<1>2. CASE ReadAddr(t)
  <2>1. \A x \in Readers : found'[x] = IF x = t THEN Idle ELSE found[x]
    BY <1>2 DEF ReadAddr, RootTypeOK
  <2>2. ReliedOK'
    BY <1>1, <2>1, OthersRely DEF Relied
  <2> QED
    BY <1>1, <2>1, <2>2 DEF OpOK, Registering
<1>3. ASSUME NEW n \in Names, FindRoot(t, n) PROVE ReliedOK' /\ OpOK'
  <2> DEFINE new == [name |-> n, pos |-> m_roots[n]]
  <2>1. /\ system = "up" /\ m_roots[n] # NoRoot
        /\ \A x \in Readers : found'[x] = IF x = t THEN new ELSE found[x]
    BY <1>3 DEF FindRoot, RootTypeOK
  <2>2. <<new.name, new.pos>> \in Relied
    BY <2>1 DEF Relied
  <2> HIDE DEF new
  <2>3. Relied' \subseteq Relied
    BY <1>1, <2>1, <2>2 DEF Relied
  <2>4. ReliedOK'
    BY <1>1, <2>3, OthersRely
  <2> QED
    BY <1>1, <2>1, <2>4 DEF OpOK, Registering
<1> QED
  BY <1>2, <1>3

LEMMA CrashRelies ==
    ASSUME RootInfoAssumption, RootTypeOK, ReliedOK, OpOK, Crash
    PROVE  ReliedOK' /\ OpOK'
<1>1. /\ system' = "down" /\ op' = Idle /\ words' = nvm' /\ \A t \in Readers : found'[t] = Idle
  BY DEF Crash
<1> QED
  BY <1>1 DEF ReliedOK, OpOK

\* The constructor: what the walk found are records, none within another.
LEMMA RestartIs ==
    ASSUME RootInfoAssumption, RootTypeOK, ReliedOK, OpOK, Restart
    PROVE  /\ op' = Idle /\ op = Idle /\ system = "down" /\ words' = words /\ nvm' = words
           /\ \A t \in Readers : found'[t] = Idle
           /\ m_rootSpaceEnd' = Walk(words).end
           /\ system' = IF Walk(words).end = WordNum THEN "dead" ELSE "up"
           /\ \A n \in Names :
                 \/ m_roots'[n] = NoRoot /\ \A r \in Walk(words).live : r[1] # n
                 \/ <<n, m_roots'[n]>> \in Walk(words).live
           /\ allowed' = [n \in Names |-> AddressesIn(words, n)] /\ spoilt' = spoilt
<1> DEFINE walk == Walk(words)
           at(n) == {r[2] : r \in {x \in walk.live : x[1] = n}}
<1>1. /\ system = "down" /\ op' = op /\ UNCHANGED <<words, nvm, found, spoilt>>
      /\ m_roots' = [n \in Names |-> IF at(n) = {} THEN NoRoot
                                     ELSE CHOOSE p \in at(n) : \A q \in at(n) : p <= q]
      /\ m_rootSpaceEnd' = walk.end
      /\ system' = IF walk.end = WordNum THEN "dead" ELSE "up"
      /\ allowed' = [n \in Names |-> AddressesIn(words, n)]
  BY DEF Restart, disk
<1>2. op = Idle /\ words = nvm /\ \A t \in Readers : found[t] = Idle
  BY <1>1 DEF OpOK
<1>3. \A r \in walk.live : r \in Names \X Positions
  BY WalkFacts DEF WalkIsRight, Walk, Positions
<1> HIDE DEF walk
<1>4. \A n \in Names :
         \/ m_roots'[n] = NoRoot /\ \A r \in walk.live : r[1] # n
         \/ <<n, m_roots'[n]>> \in walk.live
  <2> TAKE n \in Names
  <2>1. CASE at(n) = {}
    <3>1. \A r \in walk.live : r[1] = n => r[2] \in at(n)
      OBVIOUS
    <3> HIDE DEF at
    <3>2. m_roots'[n] = NoRoot
      BY <1>1, <2>1
    <3> QED
      BY <2>1, <3>1, <3>2
  <2>2. CASE at(n) # {}
    <3> DEFINE p == CHOOSE p \in at(n) : \A q \in at(n) : p <= q
    <3>1. \E x \in at(n) : \A q \in at(n) : x <= q
      <4>1. \A x \in at(n) : x \in Nat
        BY <1>3 DEF Positions
      <4> HIDE DEF at
      <4> QED
        BY <2>2, <4>1, Least
    <3>2. p \in at(n)
      <4> HIDE DEF at
      <4> QED
        BY <3>1, Zenon
    <3>3. m_roots'[n] = p
      BY <1>1, <2>2
    <3> HIDE DEF p
    <3>4. PICK r \in walk.live : r[1] = n /\ r[2] = p
      BY <3>2
    <3>5. r = <<n, p>>
      BY <3>4, <1>3
    <3> QED
      BY <3>3, <3>5
  <2> QED
    BY <2>1, <2>2
<1> QED
  BY <1>1, <1>2, <1>4 DEF walk

LEMMA RestartRelies ==
    ASSUME RootInfoAssumption, RootTypeOK, ReliedOK, OpOK, Restart
    PROVE  ReliedOK' /\ OpOK'
<1>1. WalkIsRight(words, 0) /\ Walk(words) = WalkFrom(words)[0]
  BY WalkFacts DEF Walk
<1>2. OpOK'
  BY RestartIs DEF OpOK
<1>3. ASSUME system' = "up" PROVE ReliedOK'
  <2>1. Walk(words).end # WordNum
    BY <1>3, RestartIs
  <2>2. Relied' \subseteq Walk(words).live
    BY RestartIs DEF Relied
  <2>3. /\ \A r \in Walk(words).live : IsIn(words, r) /\ Behind(r) <= Walk(words).end
        /\ \A r, s \in Walk(words).live : s[2] \notin TextOf(r)
    BY <1>1, <2>1 DEF WalkIsRight
  <2> QED
    BY <2>2, <2>3, RestartIs DEF ReliedOK
<1>4. ASSUME system' # "up" PROVE ReliedOK'
  BY <1>4, Zenon DEF ReliedOK
<1> QED
  BY <1>2, <1>3, <1>4

LEMMA RelyKept ==
    ASSUME RootInfoAssumption, RootTypeOK, ReliedOK, OpOK, [RootNext]_rootVars
    PROVE  ReliedOK' /\ OpOK'
<1>1. CASE UNCHANGED rootVars
  <2>1. UNCHANGED <<words, nvm, m_roots, m_rootSpaceEnd, op, found, system>>
    BY <1>1 DEF rootVars
  <2> QED
    BY <2>1, OthersRely DEF Relied, OpOK, Registering
<1>2. ASSUME NEW n \in Names, NEW a \in Addresses \cup {END}, RegistRoot(n, a)
      PROVE  ReliedOK' /\ OpOK'
  BY <1>2, BeginRelies, WordsApart
<1> QED
  BY <1>1, <1>2, EvictRelies, OperationRelies, InsertRelies, BeginRelies, SetDoneRelies,
     ReadersRely, CrashRelies, RestartRelies
  DEF RootNext

-----------------------------------------------------------------------------
(* The table in NVM, as long as nothing was done that no restart can mend. *)

LEMMA TableFacts ==
    ASSUME RootInfoAssumption, RootIInv, spoilt = {}, system = "up"
    PROVE  /\ Chain(words, TableEnd) /\ Stands(words, TableEnd, allowed)
           /\ Sound(words, TableEnd, allowed) /\ NvmOK /\ RootsOK
           /\ TableEnd \in Positions /\ TableEnd \in Nat
           /\ m_rootSpaceEnd \in Positions /\ m_rootSpaceEnd \in Nat
           /\ m_rootSpaceEnd <= TableEnd
<1>1. Sound(words, TableEnd, allowed) /\ NvmOK /\ RootsOK
  BY DEF RootIInv, TableOK
<1>2. Chain(words, TableEnd) /\ Stands(words, TableEnd, allowed)
  BY <1>1 DEF Sound
<1>3. TableEnd \in Positions /\ TableEnd \in Nat
  BY <1>2 DEF Chain, Positions
<1>4. m_rootSpaceEnd \in Positions /\ m_rootSpaceEnd \in Nat /\ m_rootSpaceEnd <= TableEnd
  <2>1. CASE op # Idle /\ op.pc \in {"flushAddr", "insert"}
    <3>1. TableEnd = RecordEnd /\ op.pos = m_rootSpaceEnd
      BY <2>1 DEF TableEnd, RootIInv, OpOK, Registering
    <3> QED
      BY <2>1, <3>1, OpFacts DEF RootIInv
  <2>2. CASE ~(op # Idle /\ op.pc \in {"flushAddr", "insert"})
    BY <2>2, <1>3 DEF TableEnd
  <2> QED
    BY <2>1, <2>2
<1> QED
  BY <1>1, <1>2, <1>3, <1>4

\* As NVM has what the CPU sees, but for one word at most, its table is sound too.
LEMMA NvmIsSound ==
    ASSUME RootInfoAssumption, RootIInv, spoilt = {}, system = "up"
    PROVE  /\ Sound(nvm, TableEnd, allowed) \/ Sound(nvm, m_rootSpaceEnd, allowed)
           /\ ~Unflushed => /\ Sound(nvm, TableEnd, allowed)
                            /\ Live(nvm, TableEnd) = Live(words, TableEnd)
<1>1. CASE Unflushed
  BY <1>1, TableFacts DEF NvmOK
<1>2. CASE ~Unflushed
  <2>1. \A q \in 0 .. TableEnd : q \in Flushed
    <3>1. CASE op # Idle /\ op.pc = "addr"
      <4>1. TableEnd = m_rootSpaceEnd /\ Flushed = 0 .. RecordEnd /\ op.pos = m_rootSpaceEnd
        BY <3>1 DEF TableEnd, Flushed, RootIInv, OpOK, Registering
      <4>2. m_rootSpaceEnd <= RecordEnd /\ RecordEnd \in Nat /\ m_rootSpaceEnd \in Nat
        BY <3>1, <4>1, OpFacts DEF RootIInv
      <4> QED
        BY <4>1, <4>2
    <3>2. CASE ~(op # Idle /\ op.pc = "addr")
      BY <3>2 DEF Flushed
    <3> QED
      BY <3>1, <3>2
  <2>2. \A q \in 0 .. TableEnd : nvm[q] = words[q]
    BY <1>2, <2>1, TableFacts DEF NvmOK
  <2> QED
    BY <2>2, TableFacts, SameTable DEF Sound
<1> QED
  BY <1>1, <1>2

LEMMA EvictKeeps ==
    ASSUME RootInfoAssumption, RootIInv, NEW p \in Positions, Evict(p)
    PROVE  TableOK' /\ OpTableOK' /\ DownOK'
<1>1. /\ UNCHANGED <<words, m_roots, m_rootSpaceEnd, op, found, system, allowed, spoilt>>
      /\ nvm' = [nvm EXCEPT ![p] = words[p]]
  BY DEF Evict, ghost
<1>2. UNCHANGED <<TableEnd, Flushed, Unflushed, RecordEnd>>
  BY <1>1 DEF TableEnd, Flushed, Unflushed, RecordEnd
<1>3. OpTableOK' /\ DownOK'
  BY <1>1, <1>2 DEF RootIInv, OpTableOK, DownOK, Registering
<1>4. ASSUME spoilt = {}, system = "up"
      PROVE  NvmOK' /\ RootsOK'
  <2>1. \A q \in Positions : nvm'[q] = nvm[q] \/ nvm'[q] = words[q]
    BY <1>1 DEF RootIInv, RootTypeOK
  <2>2. \A q \in Flushed : nvm'[q] = words[q] \/ (Unflushed /\ q = op.pos)
    <3> TAKE q \in Flushed
    <3>1. nvm[q] = words[q] \/ (Unflushed /\ q = op.pos)
      BY <1>4, TableFacts DEF NvmOK
    <3>2. nvm'[q] = nvm[q] \/ nvm'[q] = words[q]
      BY <1>1 DEF RootIInv, RootTypeOK
    <3> QED
      BY <3>1, <3>2
  <2>3. ASSUME Unflushed
        PROVE  Sound(nvm', TableEnd, allowed) \/ Sound(nvm', m_rootSpaceEnd, allowed)
    <3>1. Flushed = 0 .. TableEnd
      BY <2>3 DEF Unflushed, Flushed
    <3>2. CASE p = op.pos
      <4>1. \A q \in 0 .. TableEnd : nvm'[q] = words[q]
        <5> TAKE q \in 0 .. TableEnd
        <5>1. q \in Positions
          BY <1>4, TableFacts DEF Positions
        <5>2. q = p \/ nvm[q] = words[q]
          BY <3>1, <3>2, <1>4, TableFacts DEF NvmOK
        <5> QED
          BY <5>1, <5>2, <1>1 DEF RootIInv, RootTypeOK
      <4> QED
        BY <4>1, <1>4, TableFacts, SameTable DEF Sound
    <3>3. CASE p # op.pos
      <4>1. \A q \in 0 .. TableEnd : nvm'[q] = nvm[q]
        <5> TAKE q \in 0 .. TableEnd
        <5>1. q \in Positions
          BY <1>4, TableFacts DEF Positions
        <5>2. q # p \/ nvm[q] = words[q]
          BY <3>1, <3>3, <1>4, TableFacts DEF NvmOK
        <5> QED
          BY <5>1, <5>2, <1>1 DEF RootIInv, RootTypeOK
      <4>2. \A q \in 0 .. m_rootSpaceEnd : nvm'[q] = nvm[q]
        <5>1. \A q \in 0 .. m_rootSpaceEnd : q \in 0 .. TableEnd
          BY <1>4, TableFacts
        <5> QED
          BY <4>1, <5>1
      <4> QED
        BY <4>1, <4>2, <2>3, <1>4, TableFacts, SameTable DEF Sound, NvmOK
    <3> QED
      BY <3>2, <3>3
  <2>4. NvmOK'
    BY <2>2, <2>3, <1>1, <1>2 DEF NvmOK
  <2>5. RootsOK'
    BY <1>1, <1>2, <1>4, TableFacts DEF RootsOK
  <2> QED
    BY <2>4, <2>5
<1>5. TableOK'
  BY <1>1, <1>2, <1>4, TableFacts DEF TableOK
<1> QED
  BY <1>3, <1>5

\* An operation that begins may leave its address behind as well as the old one.
LEMMA BeginKeeps ==
    ASSUME RootInfoAssumption, RootIInv,
           NEW n \in Names, NEW a \in Addresses \cup {END, DELETED},
           (RegistRoot(n, a) /\ a # DELETED) \/ SetRootNodeAddr(n, a)
    PROVE  TableOK' /\ OpTableOK' /\ DownOK'
<1>1. /\ UNCHANGED <<words, nvm, m_roots, m_rootSpaceEnd, found, system>> /\ system = "up"
      /\ op = Idle /\ (spoilt' = {} => spoilt = {} /\ a # END)
      /\ allowed' = [allowed EXCEPT ![n] = @ \cup {Target(a)}]
  BY DEF RegistRoot, SetRootNodeAddr, disk, Target
<1>2. op'.name = n /\ op'.addr = a /\ op'.pc \in {"names", "set"}
  BY DEF RegistRoot, SetRootNodeAddr
<1>3. /\ TableEnd = m_rootSpaceEnd /\ Flushed = 0 .. m_rootSpaceEnd /\ ~Unflushed
      /\ TableEnd' = m_rootSpaceEnd /\ Flushed' = 0 .. m_rootSpaceEnd /\ ~Unflushed'
  BY <1>1, <1>2 DEF TableEnd, Flushed, Unflushed
<1>4. SUFFICES ASSUME spoilt' = {}
               PROVE  TableOK' /\ OpTableOK' /\ DownOK'
  BY DEF TableOK, OpTableOK, DownOK
<1>5. spoilt = {} /\ system = "up" /\ a \in Addresses \cup {DELETED}
  BY <1>1, <1>4
<1>6. \A x \in Names : allowed[x] \subseteq allowed'[x] /\ Target(a) \in allowed'[n]
  BY <1>1 DEF RootIInv, RootTypeOK
<1>7. TableOK'
  <2>1. Sound(words, m_rootSpaceEnd, allowed')
    BY <1>3, <1>5, <1>6, TableFacts, StandsMore DEF Sound
  <2>2. NvmOK'
    BY <1>1, <1>3, <1>5, TableFacts DEF NvmOK
  <2>3. RootsOK'
    BY <1>1, <1>3, <1>5, TableFacts DEF RootsOK
  <2> QED
    BY <1>1, <1>3, <2>1, <2>2, <2>3 DEF TableOK
<1>8. \A r \in Live(words, m_rootSpaceEnd) : r[1] \in Names /\ r[2] \in Positions
          /\ r = <<r[1], r[2]>> /\ m_roots[r[1]] = r[2]
  <2> TAKE r \in Live(words, m_rootSpaceEnd)
  <2>1. r[1] \in Names /\ r[2] \in Positions /\ r = <<r[1], r[2]>>
    BY DEF Live, Records
  <2> QED
    BY <2>1, <1>1, <1>3, <1>5, TableFacts DEF RootsOK
<1>9. CASE RegistRoot(n, a) /\ a # DELETED
  <2>1. op'.pc = "names" /\ m_roots[n] = NoRoot
    BY <1>9 DEF RegistRoot
  <2>2. \A r \in Live(words, m_rootSpaceEnd) : r[1] # n
    BY <2>1, <1>8, WordsApart
  <2> QED
    BY <1>1, <1>2, <1>5, <1>6, <1>7, <2>1, <2>2 DEF OpTableOK, DownOK, Registering
<1>10. CASE SetRootNodeAddr(n, a)
  <2>1. /\ op'.pc = "set" /\ op'.pos = m_roots[n] /\ m_roots[n] \in Positions
        /\ (a = DELETED => m_roots[n] # 0)
    BY <1>4, <1>10 DEF SetRootNodeAddr, RootIInv, RootTypeOK
  <2>2. <<n, m_roots[n]>> \in Live(words, m_rootSpaceEnd)
    BY <2>1, <1>1, <1>3, <1>5, TableFacts DEF RootsOK
  <2>3. words[m_roots[n]] \in Addresses /\ (a = DELETED => m_roots[n] > 0)
    BY <2>1, <2>2 DEF Live, Positions
  <2> QED
    BY <1>1, <1>2, <1>5, <1>6, <1>7, <1>8, <2>1, <2>3 DEF OpTableOK, DownOK, Registering
<1> QED
  BY <1>9, <1>10

\* What an operation's steps leave as it was.
LEMMA StepIs ==
    ASSUME RootInfoAssumption, RootIInv, NEW from, NEW to \in Stages, OpStep(from, to),
           UNCHANGED <<m_roots, m_rootSpaceEnd, found, system, crashes, allowed>>
    PROVE  /\ op # Idle /\ op' # Idle /\ op.pc = from /\ op'.pc = to
           /\ op'.name = op.name /\ op'.addr = op.addr /\ op'.pos = op.pos /\ RecordEnd' = RecordEnd
           /\ op.name \in Names /\ op.pos \in Positions /\ op.pos \in Nat /\ system = "up"
           /\ RecordEnd \in Positions /\ RecordEnd \in Nat /\ op.pos + 2 <= RecordEnd
           /\ RecordEnd = op.pos + Size[op.name]
           /\ TableEnd = IF from \in {"flushAddr", "insert"} THEN RecordEnd ELSE m_rootSpaceEnd
           /\ TableEnd' = IF to \in {"flushAddr", "insert"} THEN RecordEnd ELSE m_rootSpaceEnd
           /\ Flushed = 0 .. (IF from = "addr" THEN RecordEnd ELSE TableEnd)
           /\ Flushed' = 0 .. (IF to = "addr" THEN RecordEnd ELSE TableEnd')
           /\ Unflushed <=> from \in {"flushAddr", "flushSet"}
           /\ Unflushed' <=> to \in {"flushAddr", "flushSet"}
           /\ Registering <=> from \in {"names", "flush", "addr", "flushAddr", "insert"}
           /\ Registering' <=> to \in {"names", "flush", "addr", "flushAddr", "insert"}
<1>1. RootTypeOK /\ OpOK
  BY DEF RootIInv
<1>2. /\ op # Idle /\ op' # Idle /\ op.pc = from /\ op'.pc = to
      /\ op'.name = op.name /\ op'.addr = op.addr /\ op'.pos = op.pos /\ RecordEnd' = RecordEnd
  BY <1>1, OpMoves
<1>3. system = "up"
  BY <1>1, <1>2 DEF OpOK
<1>4. /\ op.name \in Names /\ op.pos \in Positions /\ op.pos \in Nat
      /\ RecordEnd \in Positions /\ RecordEnd \in Nat /\ op.pos + 2 <= RecordEnd
      /\ RecordEnd = op.pos + Size[op.name]
  BY <1>1, <1>2, OpFacts
<1> QED
  BY <1>2, <1>3, <1>4 DEF TableEnd, Flushed, Unflushed, Registering

LEMMA WriteNamesKeeps ==
    ASSUME RootInfoAssumption, RootIInv, WriteNames
    PROVE  TableOK' /\ OpTableOK' /\ DownOK'
<1>1. /\ OpStep("names", "flush") /\ UNCHANGED nvm
      /\ UNCHANGED <<m_roots, m_rootSpaceEnd, found, system, crashes, allowed>>
  BY DEF WriteNames
<1>2. \A q \in Positions : ~(q \in op.pos + 1 .. RecordEnd) => words'[q] = words[q]
  BY WriteNamesIs DEF RootIInv
<1>3. /\ op # Idle /\ op' # Idle /\ op.pc = "names" /\ op'.pc = "flush"
      /\ op'.name = op.name /\ op'.addr = op.addr /\ op'.pos = op.pos /\ RecordEnd' = RecordEnd
      /\ op.pos \in Nat /\ system = "up" /\ Registering /\ Registering'
      /\ TableEnd = m_rootSpaceEnd /\ TableEnd' = m_rootSpaceEnd
      /\ Flushed = 0 .. m_rootSpaceEnd /\ Flushed' = 0 .. m_rootSpaceEnd
      /\ ~Unflushed /\ ~Unflushed'
  BY <1>1, StepIs DEF Stages
<1>4. SUFFICES ASSUME spoilt' = {}
               PROVE  TableOK' /\ OpTableOK' /\ DownOK'
  BY DEF TableOK, OpTableOK, DownOK
<1>5. spoilt = {} /\ words'[RecordEnd] = END
  BY <1>4, WriteNamesIs DEF RootIInv
<1>6. op.pos = m_rootSpaceEnd /\ m_rootSpaceEnd \in Positions
  BY <1>3, <1>5, TableFacts DEF RootIInv, OpOK
<1>7. \A q \in 0 .. m_rootSpaceEnd : words'[q] = words[q]
  <2> TAKE q \in 0 .. m_rootSpaceEnd
  <2>1. q \in Positions /\ ~(q \in op.pos + 1 .. RecordEnd)
    BY <1>3, <1>6 DEF Positions
  <2> QED
    BY <2>1, <1>2
<1>8. /\ Sound(words', m_rootSpaceEnd, allowed)
      /\ Live(words', m_rootSpaceEnd) = Live(words, m_rootSpaceEnd)
  BY <1>3, <1>5, <1>6, <1>7, SameTable, TableFacts DEF Sound
<1>9. TableOK'
  <2>1. NvmOK'
    BY <1>1, <1>3, <1>5, <1>7, TableFacts DEF NvmOK
  <2>2. RootsOK'
    BY <1>1, <1>3, <1>5, <1>8, TableFacts DEF RootsOK
  <2> QED
    BY <1>1, <1>3, <1>8, <2>1, <2>2 DEF TableOK
<1>10. OpTableOK'
  <2>1. /\ op.addr \in Addresses \cup {DELETED} /\ Target(op.addr) \in allowed[op.name]
        /\ \A r \in Live(words, m_rootSpaceEnd) : r[1] # op.name
    BY <1>3, <1>5 DEF RootIInv, OpTableOK
  <2> QED
    BY <2>1, <1>1, <1>3, <1>5, <1>8 DEF OpTableOK
<1> QED
  BY <1>1, <1>3, <1>9, <1>10 DEF DownOK

LEMMA FlushNamesKeeps ==
    ASSUME RootInfoAssumption, RootIInv, FlushNames
    PROVE  TableOK' /\ OpTableOK' /\ DownOK'
<1>1. /\ OpStep("flush", "addr") /\ UNCHANGED <<words, spoilt>>
      /\ UNCHANGED <<m_roots, m_rootSpaceEnd, found, system, crashes, allowed>>
      /\ nvm' = [p \in Positions |-> IF p \in op.pos .. RecordEnd THEN words[p] ELSE nvm[p]]
  BY DEF FlushNames, ghost, RecordEnd
<1>2. /\ op # Idle /\ op' # Idle /\ op.pc = "flush" /\ op'.pc = "addr"
      /\ op'.name = op.name /\ op'.addr = op.addr /\ op'.pos = op.pos /\ RecordEnd' = RecordEnd
      /\ op.pos \in Nat /\ RecordEnd \in Nat /\ op.pos + 2 <= RecordEnd /\ RecordEnd \in Positions
      /\ system = "up" /\ Registering /\ Registering'
      /\ TableEnd = m_rootSpaceEnd /\ TableEnd' = m_rootSpaceEnd
      /\ Flushed = 0 .. m_rootSpaceEnd /\ Flushed' = 0 .. RecordEnd
      /\ ~Unflushed /\ ~Unflushed'
  BY <1>1, StepIs DEF Stages
<1>3. OpTableOK' /\ DownOK'
  BY <1>1, <1>2 DEF RootIInv, OpTableOK, DownOK
<1>4. ASSUME spoilt = {} PROVE TableOK'
  <2>1. op.pos = m_rootSpaceEnd /\ m_rootSpaceEnd \in Positions
    BY <1>2, <1>4, TableFacts DEF RootIInv, OpOK
  <2>2. \A q \in 0 .. RecordEnd : nvm'[q] = words[q]
    <3> TAKE q \in 0 .. RecordEnd
    <3>1. q \in Positions
      BY <1>2 DEF Positions
    <3>2. CASE q \in op.pos .. RecordEnd
      BY <3>1, <3>2, <1>1
    <3>3. CASE ~(q \in op.pos .. RecordEnd)
      <4>1. q \in Flushed
        BY <3>3, <1>2, <2>1
      <4> QED
        BY <3>1, <3>3, <4>1, <1>1, <1>2, <1>4, TableFacts DEF NvmOK
    <3> QED
      BY <3>2, <3>3
  <2>3. NvmOK'
    BY <1>1, <1>2, <2>2 DEF NvmOK
  <2>4. RootsOK'
    BY <1>1, <1>2, <1>4, TableFacts DEF RootsOK
  <2> QED
    BY <1>1, <1>2, <1>4, <2>3, <2>4, TableFacts DEF TableOK
<1> QED
  BY <1>1, <1>3, <1>4 DEF TableOK

\* The record becomes part of the table by one store.
LEMMA WriteNewAddrKeeps ==
    ASSUME RootInfoAssumption, RootIInv, WriteAddr, OpStep("addr", "flushAddr")
    PROVE  TableOK' /\ OpTableOK' /\ DownOK'
<1>1. /\ UNCHANGED <<nvm, spoilt>> /\ words' = [words EXCEPT ![op.pos] = op.addr]
      /\ UNCHANGED <<m_roots, m_rootSpaceEnd, found, system, crashes, allowed>>
  BY DEF WriteAddr, ghost
<1>2. /\ op # Idle /\ op' # Idle /\ op.pc = "addr" /\ op'.pc = "flushAddr"
      /\ op'.name = op.name /\ op'.addr = op.addr /\ op'.pos = op.pos /\ RecordEnd' = RecordEnd
      /\ op.name \in Names /\ op.pos \in Positions /\ op.pos \in Nat
      /\ RecordEnd \in Nat /\ op.pos + 2 <= RecordEnd /\ RecordEnd \in Positions
      /\ RecordEnd = op.pos + Size[op.name]
      /\ system = "up" /\ Registering /\ Registering'
      /\ TableEnd = m_rootSpaceEnd /\ TableEnd' = RecordEnd
      /\ Flushed = 0 .. RecordEnd /\ Flushed' = 0 .. RecordEnd
      /\ ~Unflushed /\ Unflushed'
  BY <1>1, StepIs DEF Stages
<1>3. ASSUME spoilt = {} PROVE TableOK' /\ OpTableOK' /\ DownOK'
  <2> DEFINE new == <<op.name, op.pos>>
  <2>1. /\ op.pos = m_rootSpaceEnd /\ TextAt(words, op.pos, op.name)
        /\ op.addr \in Addresses \cup {END}
    BY <1>2 DEF RootIInv, OpOK
  <2>2. /\ op.addr \in Addresses /\ op.addr \in allowed[op.name] /\ Target(op.addr) = op.addr
        /\ words[RecordEnd] = END /\ \A r \in Live(words, op.pos) : r[1] # op.name
    BY <1>2, <1>3, <2>1, WordsApart DEF RootIInv, OpTableOK, Target
  <2>3. words \in [Positions -> Words] /\ Chain(words, op.pos) /\ Stands(words, op.pos, allowed)
    BY <1>2, <1>3, <2>1, TableFacts DEF RootIInv, RootTypeOK
  <2>4. words'[op.pos] = op.addr /\ \A q \in Positions : q # op.pos => words'[q] = words[q]
    BY <1>1, <1>2, <2>3
  <2>5. /\ Chain(words', RecordEnd) /\ Live(words', RecordEnd) = Live(words, op.pos) \cup {new}
        /\ Stands(words', RecordEnd, allowed)
    <3>1. Extended(words', words, op.pos, op.name, op.addr, RecordEnd)
      <4>1. /\ op.name \in Names /\ TextAt(words, op.pos, op.name)
            /\ RecordEnd = op.pos + Size[op.name]
        BY <1>2, <2>1
      <4> QED
        BY <4>1, <2>2, <2>3, <2>4, TableGrows
    <3> QED
      BY <3>1, <2>2, <2>3 DEF Extended
  <2>6. Sound(nvm, m_rootSpaceEnd, allowed)
    BY <1>2, <1>3, NvmIsSound
  <2>7. \A q \in 0 .. RecordEnd : nvm[q] = words'[q] \/ q = op.pos
    <3> TAKE q \in 0 .. RecordEnd
    <3>1. q \in Positions /\ nvm[q] = words[q]
      BY <1>2, <1>3, TableFacts DEF NvmOK, Positions
    <3> QED
      BY <3>1, <2>4
  <2>8. NvmOK'
    BY <1>1, <1>2, <2>6, <2>7 DEF NvmOK
  <2>9. RootsOK'
    <3> SUFFICES ASSUME NEW n \in Names, n # op.name, NEW p \in Positions
                 PROVE  m_roots[n] = p <=> <<n, p>> \in Live(words', RecordEnd)
      BY <1>1, <1>2 DEF RootsOK
    <3>1. m_roots[n] = p <=> <<n, p>> \in Live(words, op.pos)
      BY <1>2, <1>3, <2>1, TableFacts DEF RootsOK
    <3> QED
      BY <3>1, <2>5
  <2>10. OpTableOK'
    BY <1>1, <1>2, <2>2, <2>4 DEF OpTableOK
  <2> QED
    BY <1>1, <1>2, <2>5, <2>8, <2>9, <2>10 DEF TableOK, Sound, DownOK
<1> QED
  BY <1>1, <1>3 DEF TableOK, OpTableOK, DownOK

LEMMA WriteSetAddrKeeps ==
    ASSUME RootInfoAssumption, RootIInv, WriteAddr, OpStep("set", "flushSet")
    PROVE  TableOK' /\ OpTableOK' /\ DownOK'
<1>1. /\ UNCHANGED <<nvm, spoilt>> /\ words' = [words EXCEPT ![op.pos] = op.addr]
      /\ UNCHANGED <<m_roots, m_rootSpaceEnd, found, system, crashes, allowed>>
  BY DEF WriteAddr, ghost
<1>2. /\ op # Idle /\ op' # Idle /\ op.pc = "set" /\ op'.pc = "flushSet"
      /\ op'.name = op.name /\ op'.addr = op.addr /\ op'.pos = op.pos /\ RecordEnd' = RecordEnd
      /\ op.name \in Names /\ op.pos \in Positions /\ op.pos \in Nat
      /\ system = "up" /\ ~Registering /\ ~Registering'
      /\ TableEnd = m_rootSpaceEnd /\ TableEnd' = m_rootSpaceEnd
      /\ Flushed = 0 .. m_rootSpaceEnd /\ Flushed' = 0 .. m_rootSpaceEnd
      /\ ~Unflushed /\ Unflushed'
  BY <1>1, StepIs DEF Stages
<1>3. ASSUME spoilt = {} PROVE TableOK' /\ OpTableOK' /\ DownOK'
  <2> DEFINE e == m_rootSpaceEnd
             r == <<op.name, op.pos>>
  <2>1. /\ op.addr \in Addresses \cup {DELETED} /\ Target(op.addr) \in allowed[op.name]
        /\ (op.addr = DELETED => op.pos > 0)
        /\ \A s \in Live(words, e) : s[1] = op.name => s[2] = op.pos
    BY <1>2, <1>3 DEF RootIInv, OpTableOK
  <2>2. r \in Records(words, e)
    <3>1. r \in Relied /\ r \in Names \X Positions
      BY <1>2, AddressWordIsFree DEF RootIInv
    <3> QED
      BY <3>1, <1>2 DEF RootIInv, ReliedOK, Records
  <2>3. words \in [Positions -> Words] /\ Chain(words, e) /\ Stands(words, e, allowed)
    BY <1>2, <1>3, TableFacts DEF RootIInv, RootTypeOK
  <2>4. words'[op.pos] = op.addr /\ \A q \in Positions : q # op.pos => words'[q] = words[q]
    BY <1>1, <1>2, <2>3
  <2>5. /\ Chain(words', e) /\ Stands(words', e, allowed)
        /\ \A s \in Live(words', e) : s[1] = op.name => s[2] = op.pos
        /\ \A x \in Names, q \in Positions :
              x # op.name => (<<x, q>> \in Live(words', e) <=> <<x, q>> \in Live(words, e))
    <3> HIDE DEF e
    <3>1. op.name \in Names /\ op.pos \in Positions
      BY <1>2
    <3>2. Rewritten(words', words, e, op.name, op.pos, op.addr)
      BY <2>1, <2>2, <2>3, <2>4, <3>1, RecordChanges
    <3> QED
      BY <2>1, <2>3, <3>2 DEF Rewritten
  <2>6. Sound(nvm, e, allowed)
    BY <1>2, <1>3, NvmIsSound
  <2>7. \A q \in 0 .. e : nvm[q] = words'[q] \/ q = op.pos
    <3> TAKE q \in 0 .. e
    <3>1. q \in Positions /\ nvm[q] = words[q]
      BY <1>2, <1>3, TableFacts DEF NvmOK, Positions
    <3> QED
      BY <3>1, <2>4
  <2>8. NvmOK'
    BY <1>1, <1>2, <2>6, <2>7 DEF NvmOK
  <2>9. RootsOK'
    <3> SUFFICES ASSUME NEW n \in Names, n # op.name, NEW p \in Positions
                 PROVE  m_roots[n] = p <=> <<n, p>> \in Live(words', e)
      BY <1>1, <1>2 DEF RootsOK
    <3>1. m_roots[n] = p <=> <<n, p>> \in Live(words, e)
      BY <1>2, <1>3, TableFacts DEF RootsOK
    <3> QED
      BY <3>1, <2>5
  <2>10. OpTableOK'
    BY <1>1, <1>2, <2>1, <2>4, <2>5 DEF OpTableOK
  <2> QED
    BY <1>1, <1>2, <2>5, <2>8, <2>9, <2>10 DEF TableOK, Sound, DownOK
<1> QED
  BY <1>1, <1>3 DEF TableOK, OpTableOK, DownOK

LEMMA FlushAddrKeeps ==
    ASSUME RootInfoAssumption, RootIInv, FlushAddr
    PROVE  TableOK' /\ OpTableOK' /\ DownOK'
<1>1. /\ UNCHANGED <<words, spoilt>> /\ nvm' = [nvm EXCEPT ![op.pos] = words[op.pos]]
      /\ UNCHANGED <<m_roots, m_rootSpaceEnd, found, system, crashes, allowed>>
  BY DEF FlushAddr, ghost
<1>2. PICK from \in Stages, to \in Stages :
          /\ OpStep(from, to)
          /\ (from = "flushAddr" /\ to = "insert") \/ (from = "flushSet" /\ to = "done")
  BY DEF FlushAddr, Stages
<1>3. /\ op # Idle /\ op' # Idle /\ op.pc = from /\ op'.pc = to
      /\ op'.name = op.name /\ op'.addr = op.addr /\ op'.pos = op.pos /\ RecordEnd' = RecordEnd
      /\ op.pos \in Positions /\ system = "up" /\ (Registering' <=> Registering)
      /\ TableEnd' = TableEnd /\ Flushed = 0 .. TableEnd /\ Flushed' = 0 .. TableEnd
      /\ Unflushed /\ ~Unflushed'
  <2>1. CASE from = "flushAddr" /\ to = "insert"
    BY <2>1, <1>1, <1>2, StepIs
  <2>2. CASE from = "flushSet" /\ to = "done"
    BY <2>2, <1>1, <1>2, StepIs
  <2> QED
    BY <1>2, <2>1, <2>2
<1>4. OpTableOK' /\ DownOK'
  BY <1>1, <1>2, <1>3 DEF RootIInv, OpTableOK, DownOK
<1>5. ASSUME spoilt = {} PROVE TableOK'
  <2>1. \A q \in 0 .. TableEnd : nvm'[q] = words[q]
    <3> TAKE q \in 0 .. TableEnd
    <3>1. q \in Positions /\ (nvm[q] = words[q] \/ q = op.pos)
      BY <1>3, <1>5, TableFacts DEF NvmOK, Positions
    <3> QED
      BY <3>1, <1>1, <1>3 DEF RootIInv, RootTypeOK
  <2>2. NvmOK'
    BY <1>1, <1>3, <2>1 DEF NvmOK
  <2>3. RootsOK'
    BY <1>1, <1>3, <1>5, TableFacts DEF RootsOK
  <2> QED
    BY <1>1, <1>3, <1>5, <2>2, <2>3, TableFacts DEF TableOK
<1> QED
  BY <1>1, <1>4, <1>5 DEF TableOK

\* The operation that ends has given its root one address, or deleted it.
LEMMA EndIs ==
    ASSUME RootInfoAssumption, RootIInv, InsertRoot \/ SetDone, spoilt = {}
    PROVE  /\ op # Idle /\ op' = Idle /\ system = "up"
           /\ UNCHANGED <<words, nvm, spoilt, system>>
           /\ op.name \in Names /\ op.pos \in Positions
           /\ op.addr \in Addresses \cup {DELETED}
           /\ TableEnd' = TableEnd /\ ~Unflushed /\ ~Unflushed'
           /\ Flushed = 0 .. TableEnd /\ Flushed' = 0 .. TableEnd
           /\ \A n \in Names : n # op.name => m_roots'[n] = m_roots[n] /\ allowed'[n] = allowed[n]
           /\ m_roots'[op.name] = IF op.addr = DELETED THEN NoRoot ELSE op.pos
           /\ allowed'[op.name] = {Target(op.addr)}
           /\ <<op.name, op.pos>> \in Records(words, TableEnd) /\ words[op.pos] = op.addr
           /\ \A r \in Live(words, TableEnd) : r[1] = op.name => r[2] = op.pos
<1>1. /\ op # Idle /\ op' = Idle /\ UNCHANGED <<words, nvm, spoilt, system>>
      /\ allowed' = Settled /\ op.pc \in {"insert", "done"}
  BY DEF InsertRoot, SetDone, disk
<1>2. /\ system = "up" /\ op.name \in Names /\ op.pos \in Positions
      /\ RecordEnd = op.pos + Size[op.name]
  BY <1>1, OpFacts DEF RootIInv, OpOK
<1>3. /\ op.addr \in Addresses \cup {DELETED} /\ words[op.pos] = op.addr
      /\ Chain(words, TableEnd)
  BY <1>1, <1>2, TableFacts DEF RootIInv, OpTableOK, Registering
<1>4. /\ allowed'[op.name] = {Target(op.addr)}
      /\ \A n \in Names : n # op.name => allowed'[n] = allowed[n]
  BY <1>1, <1>2 DEF Settled, Target, RootIInv, RootTypeOK
<1>5. ~Unflushed /\ ~Unflushed' /\ Flushed = 0 .. TableEnd /\ Flushed' = 0 .. TableEnd'
  BY <1>1 DEF Unflushed, Flushed
<1>6. CASE InsertRoot
  <2>1. /\ op.pc = "insert" /\ m_rootSpaceEnd' = RecordEnd
        /\ m_roots' = [m_roots EXCEPT ![op.name] = op.pos]
    BY <1>6, <1>2 DEF InsertRoot
  <2>2. TableEnd = RecordEnd /\ TableEnd' = RecordEnd
    BY <1>1, <2>1 DEF TableEnd
  <2>3. op.addr # DELETED /\ TextAt(words, op.pos, op.name)
    BY <1>1, <2>1, WordsApart DEF RootIInv, OpOK, Registering
  <2> DEFINE new == <<op.name, op.pos>>
  <2>4. new \in Names \X Positions /\ new[1] = op.name /\ new[2] = op.pos
    BY <1>2
  <2>5. m_rootSpaceEnd \in Nat /\ RecordEnd \in Nat
    BY <1>1, <1>2, TableFacts, OpFacts DEF RootIInv
  <2> HIDE DEF new
  <2>6. IsIn(words, new) /\ Behind(new) = RecordEnd
    BY <1>2, <2>3, <2>4 DEF IsIn, Behind
  <2>7. new \in Records(words, TableEnd)
    BY <2>2, <2>4, <2>5, <2>6 DEF Records
  <2>8. new \in Live(words, TableEnd)
    BY <2>7, <2>4, <2>3, <1>3 DEF Live
  <2>9. \A r \in Live(words, TableEnd) : r[1] = op.name => r = new
    BY <2>4, <2>8, <1>3 DEF Chain
  <2>10. /\ m_roots'[op.name] = op.pos
         /\ \A n \in Names : n # op.name => m_roots'[n] = m_roots[n]
    BY <1>2, <2>1 DEF RootIInv, RootTypeOK
  <2> QED
    BY <1>1, <1>2, <1>3, <1>4, <1>5, <2>2, <2>3, <2>4, <2>7, <2>9, <2>10 DEF new
<1>7. CASE SetDone
  <2>1. /\ op.pc = "done" /\ m_rootSpaceEnd' = m_rootSpaceEnd
        /\ m_roots' = IF op.addr = DELETED THEN [m_roots EXCEPT ![op.name] = NoRoot] ELSE m_roots
    BY <1>7 DEF SetDone
  <2>2. TableEnd = m_rootSpaceEnd /\ TableEnd' = m_rootSpaceEnd /\ ~Registering
    BY <1>1, <2>1 DEF TableEnd, Registering
  <2>3. /\ m_roots[op.name] = op.pos
        /\ \A r \in Live(words, m_rootSpaceEnd) : r[1] = op.name => r[2] = op.pos
    BY <1>1, <2>2 DEF RootIInv, OpOK, OpTableOK
  <2>4. <<op.name, op.pos>> \in Records(words, m_rootSpaceEnd)
    <3>1. <<op.name, op.pos>> \in Relied
      BY <1>1, <2>2, AddressWordIsFree DEF RootIInv
    <3> QED
      BY <3>1, <1>2 DEF RootIInv, ReliedOK, Records
  <2>5. /\ m_roots'[op.name] = IF op.addr = DELETED THEN NoRoot ELSE op.pos
        /\ \A n \in Names : n # op.name => m_roots'[n] = m_roots[n]
    BY <1>2, <2>1, <2>3 DEF RootIInv, RootTypeOK
  <2> QED
    BY <1>1, <1>2, <1>3, <1>4, <1>5, <2>2, <2>3, <2>4, <2>5
<1> QED
  BY <1>6, <1>7

LEMMA EndKeeps ==
    ASSUME RootInfoAssumption, RootIInv, InsertRoot \/ SetDone
    PROVE  TableOK' /\ OpTableOK' /\ DownOK'
<1>1. UNCHANGED <<system, spoilt>> /\ op' = Idle /\ op # Idle
  BY DEF InsertRoot, SetDone
<1>2. system = "up"
  BY <1>1 DEF RootIInv, OpOK
<1>3. OpTableOK' /\ DownOK'
  BY <1>1, <1>2 DEF OpTableOK, DownOK
<1>4. ASSUME spoilt = {} PROVE TableOK'
  <2> DEFINE e == TableEnd
             r0 == <<op.name, op.pos>>
  <2>1. /\ UNCHANGED <<words, nvm, TableEnd, Flushed>>
        /\ ~Unflushed /\ ~Unflushed' /\ Flushed = 0 .. e
        /\ op.name \in Names /\ op.pos \in Positions
    BY <1>4, EndIs
  <2>2. /\ m_roots'[op.name] = IF op.addr = DELETED THEN NoRoot ELSE op.pos
        /\ allowed'[op.name] = {Target(op.addr)}
        /\ \A n \in Names : n # op.name => m_roots'[n] = m_roots[n] /\ allowed'[n] = allowed[n]
    BY <1>4, EndIs
  <2>3. /\ op.addr \in Addresses \cup {DELETED} /\ words[op.pos] = op.addr
        /\ r0 \in Records(words, e) /\ r0[1] = op.name /\ r0[2] = op.pos
        /\ \A r \in Live(words, e) : r[1] = op.name => r[2] = op.pos
    BY <1>4, EndIs
  <2>4. Chain(words, e) /\ Stands(words, e, allowed) /\ NvmOK /\ RootsOK
    BY <1>2, <1>4, TableFacts
  <2> HIDE DEF e, r0
  <2>5. op.addr # DELETED => r0 \in Live(words, e)
    BY <2>3 DEF Live
  <2>6. op.addr = DELETED => \A r \in Live(words, e) : r[1] # op.name
    BY <2>3, WordsApart DEF Live
  <2>7. Stands(words, e, allowed')
    <3> SUFFICES ASSUME NEW n \in Names
                 PROVE  \/ NoRoot \in allowed'[n] /\ \A r \in Live(words, e) : r[1] # n
                        \/ \E r \in Live(words, e) : r[1] = n /\ words[r[2]] \in allowed'[n]
      BY DEF Stands
    <3>1. CASE n # op.name
      BY <3>1, <2>2, <2>4 DEF Stands
    <3>2. CASE n = op.name /\ op.addr = DELETED
      BY <3>2, <2>2, <2>6 DEF Target
    <3>3. CASE n = op.name /\ op.addr # DELETED
      BY <3>3, <2>2, <2>3, <2>5 DEF Target
    <3> QED
      BY <3>1, <3>2, <3>3
  <2>8. NvmOK'
    BY <2>1, <2>4 DEF NvmOK
  <2>9. \A n \in Names, p \in Positions : m_roots'[n] = p <=> <<n, p>> \in Live(words, e)
    <3> TAKE n \in Names, p \in Positions
    <3>1. CASE n # op.name
      BY <3>1, <2>2, <2>4 DEF RootsOK, e
    <3>2. CASE n = op.name /\ op.addr = DELETED
      BY <3>2, <2>2, <2>6, WordsApart
    <3>3. CASE n = op.name /\ op.addr # DELETED
      <4>1. m_roots'[n] = op.pos
        BY <3>3, <2>2
      <4>2. <<n, p>> \in Live(words, e) => p = op.pos
        BY <3>3, <2>3
      <4>3. <<n, op.pos>> \in Live(words, e)
        BY <3>3, <2>5 DEF r0
      <4> QED
        BY <4>1, <4>2, <4>3
    <3> QED
      BY <3>1, <3>2, <3>3
  <2>10. RootsOK'
    BY <2>1, <2>9 DEF RootsOK, e
  <2> QED
    BY <2>1, <2>4, <2>7, <2>8, <2>10 DEF TableOK, Sound, e
<1> QED
  BY <1>1, <1>3, <1>4 DEF TableOK

LEMMA OthersKeep ==
    ASSUME RootIInv, UNCHANGED <<words, nvm, m_roots, m_rootSpaceEnd, op, system, allowed, spoilt>>
    PROVE  TableOK' /\ OpTableOK' /\ DownOK'
<1>1. UNCHANGED <<TableEnd, Flushed, Unflushed, RecordEnd>>
  BY DEF TableEnd, Flushed, Unflushed, RecordEnd
<1> QED
  BY <1>1 DEF RootIInv, TableOK, NvmOK, RootsOK, OpTableOK, DownOK, Registering

LEMMA CrashKeeps ==
    ASSUME RootInfoAssumption, RootIInv, Crash
    PROVE  TableOK' /\ OpTableOK' /\ DownOK'
<1>1. /\ system = "up" /\ system' = "down" /\ op' = Idle /\ words' = nvm
      /\ UNCHANGED <<allowed, spoilt>>
  BY DEF Crash, ghost
<1>2. TableOK' /\ OpTableOK'
  BY <1>1 DEF TableOK, OpTableOK
<1>3. ASSUME spoilt = {} PROVE \E e \in Positions : Sound(nvm, e, allowed)
  BY <1>1, <1>3, NvmIsSound, TableFacts
<1> QED
  BY <1>1, <1>2, <1>3 DEF DownOK

\* The constructor reads the table to its end and finds the live records.
LEMMA RestartKeeps ==
    ASSUME RootInfoAssumption, RootIInv, Restart
    PROVE  TableOK' /\ OpTableOK' /\ DownOK'
<1>1. SUFFICES ASSUME spoilt = {}
               PROVE  TableOK' /\ OpTableOK' /\ DownOK'
  BY RestartIs DEF RootIInv, TableOK, OpTableOK, DownOK
<1>2. /\ op' = Idle /\ system = "down" /\ words' = words /\ nvm' = words
      /\ spoilt' = {} /\ allowed' = [n \in Names |-> AddressesIn(words, n)]
  BY <1>1, RestartIs DEF RootIInv
<1>3. PICK e \in Positions : Sound(words, e, allowed)
  BY <1>1, <1>2 DEF RootIInv, DownOK
<1>4. Chain(words, e) /\ Walk(words).live = Live(words, e) /\ Walk(words).end = e
  BY <1>3, WalkSound DEF Sound
<1>5. /\ m_rootSpaceEnd' = e /\ system' = "up"
      /\ \A n \in Names :
            \/ m_roots'[n] = NoRoot /\ \A r \in Live(words, e) : r[1] # n
            \/ <<n, m_roots'[n]>> \in Live(words, e)
  BY <1>4, RestartIs, WordsApart DEF RootIInv, Positions
<1>6. TableEnd' = e /\ Flushed' = 0 .. e /\ ~Unflushed'
  BY <1>2, <1>5 DEF TableEnd, Flushed, Unflushed
<1>7. Stands(words, e, allowed')
  <2> SUFFICES ASSUME NEW n \in Names
               PROVE  \/ NoRoot \in allowed'[n] /\ \A r \in Live(words, e) : r[1] # n
                      \/ \E r \in Live(words, e) : r[1] = n /\ words[r[2]] \in allowed'[n]
    BY DEF Stands
  <2> DEFINE hits == {r \in Live(words, e) : r[1] = n}
  <2>1. allowed'[n] = IF hits = {} THEN {NoRoot} ELSE {words[r[2]] : r \in hits}
    BY <1>2, <1>4 DEF AddressesIn
  <2>2. CASE hits = {}
    BY <2>1, <2>2
  <2>3. CASE hits # {}
    BY <2>1, <2>3
  <2> QED
    BY <2>2, <2>3
<1>8. \A n \in Names, p \in Positions : m_roots'[n] = p <=> <<n, p>> \in Live(words, e)
  <2> TAKE n \in Names, p \in Positions
  <2>1. CASE m_roots'[n] = NoRoot /\ \A r \in Live(words, e) : r[1] # n
    BY <2>1, WordsApart
  <2>2. CASE <<n, m_roots'[n]>> \in Live(words, e)
    <3>1. <<n, p>> \in Live(words, e) => <<n, p>> = <<n, m_roots'[n]>>
      BY <2>2, <1>4 DEF Chain
    <3> QED
      BY <2>2, <3>1
  <2> QED
    BY <2>1, <2>2, <1>5
<1>9. Sound(words, e, allowed')
  BY <1>4, <1>7 DEF Sound
<1>10. TableOK'
  BY <1>2, <1>6, <1>8, <1>9 DEF TableOK, NvmOK, RootsOK
<1> QED
  BY <1>2, <1>5, <1>10 DEF OpTableOK, DownOK

LEMMA TableKept ==
    ASSUME RootInfoAssumption, RootIInv, [RootNext]_rootVars
    PROVE  TableOK' /\ OpTableOK' /\ DownOK'
<1>1. CASE UNCHANGED rootVars
  BY <1>1, OthersKeep DEF rootVars
<1>2. ASSUME NEW n \in Names, NEW a \in Addresses \cup {END}, RegistRoot(n, a)
      PROVE  TableOK' /\ OpTableOK' /\ DownOK'
  BY <1>2, BeginKeeps, WordsApart
<1>3. CASE WriteAddr
  BY <1>3, WriteNewAddrKeeps, WriteSetAddrKeeps DEF WriteAddr
<1>4. ASSUME NEW t \in Readers, ReadAddr(t) \/ \E n \in Names : FindRoot(t, n)
      PROVE  TableOK' /\ OpTableOK' /\ DownOK'
  <2>1. UNCHANGED <<words, nvm, m_roots, m_rootSpaceEnd, op, system, allowed, spoilt>>
    BY <1>4 DEF ReadAddr, FindRoot, disk, ghost
  <2> QED
    BY <2>1, OthersKeep
<1> QED
  BY <1>1, <1>2, <1>3, <1>4, EvictKeeps, BeginKeeps, WriteNamesKeeps, FlushNamesKeeps,
     FlushAddrKeeps, EndKeeps, CrashKeeps, RestartKeeps
  DEF RootNext

-----------------------------------------------------------------------------
(* The theorems. *)

LEMMA RootStep ==
    ASSUME RootInfoAssumption, RootIInv, [RootNext]_rootVars
    PROVE  RootIInv'
<1>1. RootTypeOK' /\ ReliedOK' /\ OpOK'
  BY TypesKept, RelyKept DEF RootIInv
<1>2. TableOK' /\ OpTableOK' /\ DownOK'
  BY TableKept
<1> QED
  BY <1>1, <1>2 DEF RootIInv

LEMMA RootInvariance == RootSpec => []RootIInv
<1>1. RootInit => RootIInv
  BY RootInfoAssumption, InitHolds
<1>2. RootIInv /\ [RootNext]_rootVars => RootIInv'
  BY RootInfoAssumption, RootStep
<1> QED
  BY <1>1, <1>2, PTL DEF RootSpec

\* A sound table shows of every root one of the addresses it may have.
LEMMA SoundShowsRoots ==
    ASSUME RootInfoAssumption, NEW m, NEW e, NEW may, Sound(m, e, may)
    PROVE  /\ Walk(m).end = e
           /\ \A n \in Names : \E a \in may[n] : AddressesIn(m, n) = {a}
<1>1. Chain(m, e) /\ Walk(m).live = Live(m, e) /\ Walk(m).end = e
  BY WalkSound DEF Sound
<1>2. ASSUME NEW n \in Names PROVE \E a \in may[n] : AddressesIn(m, n) = {a}
  <2> DEFINE hits == {r \in Live(m, e) : r[1] = n}
  <2>1. AddressesIn(m, n) = IF hits = {} THEN {NoRoot} ELSE {m[r[2]] : r \in hits}
    BY <1>1 DEF AddressesIn
  <2>2. CASE NoRoot \in may[n] /\ \A r \in Live(m, e) : r[1] # n
    <3>1. hits = {}
      BY <2>2
    <3> QED
      BY <2>1, <2>2, <3>1
  <2>3. CASE \E r \in Live(m, e) : r[1] = n /\ m[r[2]] \in may[n]
    <3>1. PICK r \in Live(m, e) : r[1] = n /\ m[r[2]] \in may[n]
      BY <2>3
    <3>2. hits = {r}
      BY <3>1, <1>1 DEF Chain
    <3>3. AddressesIn(m, n) = {m[r[2]]}
      BY <2>1, <3>2
    <3> QED
      BY <3>1, <3>3
  <2> QED
    BY <2>2, <2>3 DEF Sound, Stands
<1> QED
  BY <1>1, <1>2

\* Whenever the power fails, the table in NVM can be read to its end, and shows
\* of every root the address of its last finished operation or of the current one.
THEOREM RootsAreKept == RootSpec => []RootsSurvive
<1>1. RootIInv => RootsSurvive
  <2> SUFFICES ASSUME RootIInv PROVE RootsSurvive
    OBVIOUS
  <2>1. ASSUME spoilt = {}, system = "up"
        PROVE  /\ \/ Walk(nvm).end = m_rootSpaceEnd
                  \/ op # Idle /\ Walk(nvm).end = op.pos + Size[op.name]
               /\ \A n \in Names : \E a \in allowed[n] : AddressesIn(nvm, n) = {a}
    <3>1. Sound(nvm, TableEnd, allowed) \/ Sound(nvm, m_rootSpaceEnd, allowed)
      BY <2>1, RootInfoAssumption, NvmIsSound
    <3>2. TableEnd = m_rootSpaceEnd \/ (op # Idle /\ TableEnd = op.pos + Size[op.name])
      BY DEF TableEnd, RecordEnd
    <3> QED
      BY <3>1, <3>2, RootInfoAssumption, SoundShowsRoots
  <2>2. ASSUME spoilt = {}, system # "up"
        PROVE  \A n \in Names : \E a \in allowed[n] : AddressesIn(nvm, n) = {a}
    <3>1. system = "down" /\ words = nvm
      BY <2>2 DEF RootIInv, RootTypeOK, OpOK, DownOK
    <3>2. PICK e \in Positions : Sound(nvm, e, allowed)
      BY <2>2, <3>1 DEF RootIInv, DownOK
    <3> QED
      BY <3>2, RootInfoAssumption, SoundShowsRoots
  <2> QED
    BY <2>1, <2>2 DEF RootsSurvive, TableReadable, RootIInv
<1> QED
  BY <1>1, RootInvariance, PTL

\* Whatever the lock's later holders do, and even when no restart could mend the
\* table, a reader's record still holds the texts of the root it asked for.
THEOREM ReadersFindTheirRoot == RootSpec => []FindsRightRoot
<1>1. RootIInv => FindsRightRoot
  <2> SUFFICES ASSUME RootIInv, NEW t \in Readers, found[t] # Idle
               PROVE  \A i \in 1 .. Size[found[t].name] - 1 :
                         words[found[t].pos + i] = Text(found[t].name, i)
    BY DEF FindsRightRoot
  <2> DEFINE r == <<found[t].name, found[t].pos>>
  <2>1. r \in Relied /\ system = "up"
    BY DEF Relied, RootIInv, OpOK
  <2>2. IsIn(words, r) /\ r[1] = found[t].name /\ r[2] = found[t].pos
    BY <2>1 DEF RootIInv, ReliedOK
  <2> QED
    BY <2>2 DEF IsIn, TextAt
<1> QED
  BY <1>1, RootInvariance, PTL
=============================================================================
