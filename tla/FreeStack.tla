----------------------------- MODULE FreeStack -----------------------------
(***************************************************************************)
(* What CLFreeList promises to the code that uses it: a stack of free      *)
(* nodes that threads pop from and push to in one indivisible step.        *)
(* A node is in the stack or in the hands of one thread.                   *)
(***************************************************************************)
EXTENDS Sequences

CONSTANTS Threads, Nodes

VARIABLES
    stack,  \* the free nodes, top first
    held    \* held[t]: the nodes thread t has taken and not given back

Init ==
    /\ stack = <<>>
    /\ \E taker \in [Nodes -> Threads] :
          held = [t \in Threads |-> {n \in Nodes : taker[n] = t}]

Pop(t) ==
    /\ stack # <<>>
    /\ held' = [held EXCEPT ![t] = @ \cup {Head(stack)}]
    /\ stack' = Tail(stack)

Push(t, n) ==
    /\ n \in held[t]
    /\ held' = [held EXCEPT ![t] = @ \ {n}]
    /\ stack' = <<n>> \o stack

Next == \E t \in Threads : Pop(t) \/ \E n \in Nodes : Push(t, n)

Spec == Init /\ [][Next]_<<stack, held>>
=============================================================================
