---------------------------- MODULE FifoChannel ----------------------------
(***************************************************************************)
(* What a channel between two thread heaps promises: a message whose push  *)
(* reported success is received exactly once, and messages are received in *)
(* the order they were sent.                                               *)
(***************************************************************************)
EXTENDS Naturals, Sequences

CONSTANT Messages

VARIABLES
    sent,      \* the messages pushed so far
    received   \* the messages popped so far

Init ==
    /\ sent = <<>>
    /\ received = <<>>

Send(m) ==
    /\ sent' = Append(sent, m)
    /\ UNCHANGED received

Receive ==
    /\ Len(received) < Len(sent)
    /\ received' = Append(received, sent[Len(received) + 1])
    /\ UNCHANGED sent

Next == Receive \/ \E m \in Messages : Send(m)

Spec == Init /\ [][Next]_<<sent, received>>
=============================================================================
