----------------------------- MODULE ObjectPool -----------------------------
(***************************************************************************)
(* What nvmalloc and nvfree promise to a program of several threads: an    *)
(* object is handed out only while nobody holds it, and one that was given *)
(* back is handed out again only after its heap has taken it in.           *)
(***************************************************************************)
CONSTANT Objects

VARIABLES
    available,  \* may be handed out
    held,       \* in the program's hands
    returned,   \* given back, on the way to the heap
    gone        \* lost to everybody

Init ==
    /\ returned = {} /\ gone = {}
    /\ held \in SUBSET Objects
    /\ available = Objects \ held

Alloc(o) ==
    /\ o \in available
    /\ available' = available \ {o}
    /\ held' = held \cup {o}
    /\ UNCHANGED <<returned, gone>>

Free(o) ==
    /\ o \in held
    /\ held' = held \ {o}
    /\ returned' = returned \cup {o}
    /\ UNCHANGED <<available, gone>>

Reclaim(o) ==
    /\ o \in returned
    /\ returned' = returned \ {o}
    /\ available' = available \cup {o}
    /\ UNCHANGED <<held, gone>>

\* Between the program's hands and its heap an object may be lost.
Lose(o) ==
    /\ o \in returned
    /\ returned' = returned \ {o}
    /\ gone' = gone \cup {o}
    /\ UNCHANGED <<available, held>>

\* A heap is given up with all it has and all that is on its way to it.
GiveUp(S) ==
    /\ S \subseteq available \cup returned
    /\ available' = available \ S
    /\ returned' = returned \ S
    /\ gone' = gone \cup S
    /\ UNCHANGED held

Next ==
    \/ \E o \in Objects : Alloc(o) \/ Free(o) \/ Reclaim(o) \/ Lose(o)
    \/ \E S \in SUBSET Objects : GiveUp(S)

Spec == Init /\ [][Next]_<<available, held, returned, gone>>
=============================================================================
