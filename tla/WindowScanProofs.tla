-------------------------- MODULE WindowScanProofs --------------------------
(* The scan of try_alloc_in_window is a first fit for every window size    *)
(* and every request.                                                      *)
EXTENDS WindowScan, TLAPS

(* The inductive invariant: no start below i begins a FREE run, and the    *)
(* slots i .. i + k - 1 are FREE while the inner loop runs.                *)
ScanInv ==
  /\ TypeOK
  /\ \A b \in 0 .. i - 1 : ~FreeRun(b)
  /\ pc = "inner" => i + Count <= N /\ \A j \in i .. i + k - 1 : free[j]
  /\ pc = "done" /\ base = NoSlot => i + Count > N
  /\ pc = "done" /\ base # NoSlot => base = i /\ FreeRun(i)
  /\ pc # "done" => base = NoSlot

(* The invariant holds before the first iteration.                         *)
LEMMA ScanInit == Init => ScanInv
  BY ScanAssumption DEF Init, ScanInv, TypeOK, FreeRun, Index, NoSlot

(* A start that is skipped begins no FREE run: the run would contain the   *)
(* slot i + k that is not FREE.                                            *)
LEMMA SkippedStarts ==
  ASSUME ScanInv, Skip, NEW b \in 0 .. i'- 1
  PROVE  ~FreeRun(b)'
<1> USE ScanAssumption
<1>1. i \in Int /\ k \in Int /\ b \in Int /\ i' = i + k + 1 /\ free' = free /\ k < Count
  BY DEF ScanInv, TypeOK, Skip
<1>2. FreeRun(b)' <=> FreeRun(b)  BY <1>1 DEF FreeRun
<1>3. CASE b \in 0 .. i - 1  BY <1>2, <1>3 DEF ScanInv
<1>4. CASE b \notin 0 .. i - 1
  <2>1. i + k \in b .. b + Count - 1  BY <1>1, <1>4
  <2>2. ~free[i + k]  BY DEF Skip
  <2> QED  BY <1>2, <2>1, <2>2 DEF FreeRun
<1> QED  BY <1>3, <1>4

(* Every step of the loops preserves the invariant.                        *)
LEMMA ScanNext == ScanInv /\ [Next]_vars => ScanInv'
<1> SUFFICES ASSUME ScanInv, [Next]_vars  PROVE ScanInv'  OBVIOUS
<1> USE ScanAssumption
<1>1. CASE Outer
  BY <1>1 DEF Outer, ScanInv, TypeOK, FreeRun, Index, NoSlot
<1>2. CASE Inner
  BY <1>2 DEF Inner, ScanInv, TypeOK, FreeRun, Index, NoSlot
<1>3. CASE Skip
  <2>1. TypeOK' /\ pc' = "outer" /\ base' = NoSlot
    BY <1>3 DEF Skip, ScanInv, TypeOK, Index, NoSlot
  <2>2. \A b \in 0 .. i' - 1 : ~FreeRun(b)'  BY <1>3, SkippedStarts
  <2> QED  BY <2>1, <2>2 DEF ScanInv
<1>4. CASE Found
  <2>1. i \in Int /\ i >= 0 /\ i + Count <= N /\ k = Count /\ free' = free /\ i' = i
    BY <1>4 DEF Found, ScanInv, TypeOK
  <2>2. FreeRun(i)  BY <2>1, <1>4 DEF Found, ScanInv, FreeRun
  <2>3. TypeOK' /\ pc' = "done" /\ base' = i /\ base' # NoSlot
    BY <1>4, <2>1 DEF Found, ScanInv, TypeOK, Index, NoSlot
  <2> QED  BY <2>1, <2>2, <2>3 DEF ScanInv, FreeRun
<1>5. CASE UNCHANGED vars
  BY <1>5 DEF vars, ScanInv, TypeOK, FreeRun
<1> QED  BY <1>1, <1>2, <1>3, <1>4, <1>5 DEF Next

(* try_alloc_in_window returns the lowest FREE run of the window, and      *)
(* fails only if there is none, for every window and every request size.   *)
THEOREM ScanIsFirstFit == Spec => []FirstFit
<1>1. ScanInv => FirstFit
  <2> SUFFICES ASSUME ScanInv, pc = "done"  PROVE FirstFit  BY DEF FirstFit
  <2>1. CASE base = NoSlot
    <3>1. ASSUME NEW b \in Index, FreeRun(b)  PROVE FALSE
      <4>1. b \in 0 .. i - 1  BY ScanAssumption, <2>1, <3>1 DEF ScanInv, TypeOK, FreeRun, Index
      <4> QED  BY <3>1, <4>1 DEF ScanInv
    <3> QED  BY <2>1, <3>1 DEF FirstFit
  <2>2. CASE base # NoSlot  BY <2>2 DEF ScanInv, FirstFit
  <2> QED  BY <2>1, <2>2
<1> QED  BY <1>1, ScanInit, ScanNext, PTL DEF Spec

(* The scan reads no slot outside its window.                              *)
THEOREM ScanTypeCorrect == Spec => []TypeOK
<1>1. ScanInv => TypeOK  BY DEF ScanInv
<1> QED  BY <1>1, ScanInit, ScanNext, PTL DEF Spec
============================================================================
