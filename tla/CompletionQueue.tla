-------------------------- MODULE CompletionQueue --------------------------
(***************************************************************************)
(* What the completion ring promises (the comment that opens               *)
(* src/src/common/completion_ring.h): a queue of at most Capacity          *)
(* completions, each handed to the daemon once, in the order in which the  *)
(* rank published them.  queue is what was published and not popped, taken *)
(* everything the daemon has popped.                                       *)
(***************************************************************************)
EXTENDS Integers, Sequences

CONSTANTS Item, Capacity
VARIABLES queue, taken

Init == queue = <<>> /\ taken = <<>>

Publish(x) ==
  /\ Len(queue) < Capacity
  /\ queue' = Append(queue, x)
  /\ UNCHANGED taken

Take ==
  /\ queue # <<>>
  /\ taken' = Append(taken, Head(queue))
  /\ queue' = Tail(queue)

Next == (\E x \in Item : Publish(x)) \/ Take

Spec == Init /\ [][Next]_<<queue, taken>>
============================================================================
