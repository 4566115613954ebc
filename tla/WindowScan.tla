----------------------------- MODULE WindowScan -----------------------------
(***************************************************************************)
(* The scan of try_alloc_in_window (src/src/daemon/daemon.cpp): the search *)
(* for Count consecutive FREE slots in the slot ids of one window.  mu_ is *)
(* held, so the states of the slots do not change while it runs.           *)
(*                                                                         *)
(* A slot that is not FREE at i + k moves i behind it (i += k, and then    *)
(* the ++i of the loop): the starts in between are never tried.            *)
(***************************************************************************)
EXTENDS Integers

CONSTANTS N,       \* ids.size()
          Count    \* slots_for_bytes(nbytes), at least 1

ASSUME ScanAssumption == N \in Nat /\ Count \in Nat \ {0}

VARIABLES free,    \* free[j]: slot ids[j] is FREE
          i, k,    \* the loop counters
          pc,      \* "outer", "inner" or "done"
          base     \* the index of *base_out in ids, or NoSlot

scan == <<i, k, pc, base>>
vars == <<free, i, k, pc, base>>

NoSlot == -1
Index == 0 .. N - 1

(* The Count slots from b on are in the window and FREE.                   *)
FreeRun(b) == b \in 0 .. N - Count /\ \A j \in b .. b + Count - 1 : free[j]

Init ==
  /\ free \in [Index -> BOOLEAN]
  /\ i = 0 /\ k = 0 /\ base = NoSlot
  /\ pc = IF N < Count THEN "done" ELSE "outer"

Outer ==
  /\ pc = "outer"
  /\ pc' = IF i + Count <= N THEN "inner" ELSE "done"
  /\ k' = 0
  /\ UNCHANGED <<free, i, base>>

Inner ==
  /\ pc = "inner" /\ k < Count /\ free[i + k]
  /\ k' = k + 1
  /\ UNCHANGED <<free, i, pc, base>>

(* Mutants: one start too many is skipped; the ++i of the loop is missing. *)
SkipOneMore ==
  /\ pc = "inner" /\ k < Count /\ ~free[i + k]
  /\ i' = i + k + 2
  /\ pc' = "outer"
  /\ UNCHANGED <<free, k, base>>
SkipTooFew ==
  /\ pc = "inner" /\ k < Count /\ ~free[i + k]
  /\ i' = i + k
  /\ pc' = "outer"
  /\ UNCHANGED <<free, k, base>>

Skip ==
  /\ pc = "inner" /\ k < Count /\ ~free[i + k]
  /\ i' = i + k + 1
  /\ pc' = "outer"
  /\ UNCHANGED <<free, k, base>>

Found ==
  /\ pc = "inner" /\ k = Count
  /\ base' = i
  /\ pc' = "done"
  /\ UNCHANGED <<free, i, k>>

Next == Outer \/ Inner \/ Skip \/ Found

Spec == Init /\ [][Next]_vars
FairSpec == Spec /\ WF_vars(Next)
----------------------------------------------------------------------------
(* The counters stay in the window: ids[i + k] is read at a valid index.   *)
TypeOK ==
  /\ free \in [Index -> BOOLEAN]
  /\ i \in 0 .. N /\ k \in 0 .. Count
  /\ pc \in {"outer", "inner", "done"}
  /\ base \in Index \cup {NoSlot}
  /\ pc = "inner" /\ k < Count => i + k \in Index

(* try_alloc_in_window is a first fit, the skipped starts included: what   *)
(* it returns is the lowest run of Count FREE slots, and it fails only if  *)
(* the window has none.                                                    *)
FirstFit ==
  pc = "done" =>
    IF base = NoSlot THEN \A b \in Index : ~FreeRun(b)
    ELSE FreeRun(base) /\ \A b \in 0 .. base - 1 : ~FreeRun(b)

(* The scan ends.                                                          *)
Terminates == <>(pc = "done")
============================================================================
