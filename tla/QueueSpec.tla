----------------------------- MODULE QueueSpec ------------------------------
(***************************************************************************)
(* What a FreeRTOS queue promises, whoever uses it and however the calls   *)
(* interleave: a bounded sequence of items.  Items enter at the back       *)
(* (queueSEND_TO_BACK), at the front (queueSEND_TO_FRONT) or replace the   *)
(* one item of a queue of length one (queueOVERWRITE), and leave at the    *)
(* front.                                                                  *)
(***************************************************************************)
EXTENDS Naturals, Sequences

CONSTANT Item

VARIABLES contents, uxLength     \* the length never changes

Init == contents = <<>> /\ uxLength \in Nat \ {0}

SendToBack(x) == Len(contents) < uxLength /\ contents' = Append(contents, x)
SendToFront(x) == Len(contents) < uxLength /\ contents' = <<x>> \o contents
Overwrite(x) == uxLength = 1 /\ contents' = <<x>>
Receive == contents # <<>> /\ contents' = Tail(contents)

Step ==
    \/ \E x \in Item : SendToBack(x) \/ SendToFront(x) \/ Overwrite(x)
    \/ Receive

Next == Step /\ UNCHANGED uxLength

Spec == Init /\ [][Next]_<<contents, uxLength>>
=============================================================================
