--------------------------- MODULE MCSessionRings ---------------------------
(***************************************************************************)
(* Instances of SessionRings for TLC.                                      *)
(***************************************************************************)
EXTENDS SessionRings

(* Agents die, stall and outlive their sessions; RPCs and copies fail.     *)
AgentFaults == {"crash", "stall", "zombie", "rpc", "cuda"}

(* Whoever registers first is rank 1 in process 1.  Then the rank comes    *)
(* back in another process, or another rank registers in either process.   *)
(* (The rank coming back in its own process adds nothing: it replaces the  *)
(* same session, and the crash of two processes covers the crash of one.)  *)
ThenAnother ==
  [e \in 1 .. MaxEpoch |-> IF e = 1 THEN {<<1, 1>>} ELSE (Rank \X Pid) \ {<<1, 1>>}]
=============================================================================
