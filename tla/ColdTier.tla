------------------------------ MODULE ColdTier ------------------------------
(***************************************************************************)
(* What the daemon's drains and readbacks expect of the cold tier: a write *)
(* keeps the tensor or says that it failed, and a read gives back exactly  *)
(* what was kept or says that it failed, whatever the other threads do.    *)
(* OffloadDaemon and CanonicalStore are written against this promise.      *)
(***************************************************************************)
CONSTANTS Thread, Id
VARIABLES kept,   \* the ids whose write succeeded
          call    \* what each thread asked for, and the answer it got

Init == kept = {} /\ call = [w \in Thread |-> [op |-> "none", id |-> 0, ret |-> "none"]]

Start(w, op, x) ==
  /\ call[w].ret # "running"
  /\ op = "read" => x \in kept
  /\ op = "write" => x \notin kept
  /\ call' = [call EXCEPT ![w] = [op |-> op, id |-> x, ret |-> "running"]]
  /\ UNCHANGED kept

Answer(w, ret) ==
  /\ call[w].ret = "running"
  /\ call' = [call EXCEPT ![w].ret = ret]
  /\ kept' = IF call[w].op = "write" /\ ret = "exact" THEN kept \cup {call[w].id} ELSE kept

Next == \E w \in Thread : \/ \E op \in {"read", "write"}, x \in Id : Start(w, op, x)
                          \/ \E ret \in {"exact", "failed"} : Answer(w, ret)

Spec == Init /\ [][Next]_<<kept, call>>
=============================================================================
