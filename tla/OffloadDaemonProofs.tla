----------------------- MODULE OffloadDaemonProofs --------------------------
(***************************************************************************)
(* The tables of module OffloadDaemon keep their types, leases and slots   *)
(* stay bound to each other, no slot is stranded and no location goes back *)
(* to an older version: for every number of ranks, slots, tensors and      *)
(* workers, with every combination of faults, pinned-only or not.          *)
(*                                                                         *)
(* The three invariants are proved together (IInv): first the steps that   *)
(* grant no lease, then the ones that grant one, then the theorems.        *)
(***************************************************************************)
EXTENDS OffloadDaemon, TLAPS

(* What the phase of a thread implies: a running call has the arguments it *)
(* was made with, a granted one has its lease, a forced drain belongs to a *)
(* call that waits for room, and a readback that copies has found its cold *)
(* entry.                                                                  *)
ThreadPhases ==
  /\ \A e \in Epoch :
       /\ client[e].pc # "none" => client[e].rank \in Rank
       /\ client[e].pc \notin {"none", "idle"} =>
            client[e].tensor \in Tensor /\ client[e].version \in Version
       /\ client[e].pc \in {"granted", "ready", "checked"} => client[e].lease # 0
       /\ drain[e].stage # "idle" => client[e].pc \in {"offload", "prefetch"}
       /\ e >= nextEpoch => client[e].pc = "none"
  /\ \A w \in ReadbackWorker :
       reader[w].stage = "copy" => reader[w].cold \in DOMAIN coldStore

(* The inductive invariant.  LeaseBinding and NoStrandedSlot are not       *)
(* inductive alone: a drain that ends must know its slot and lease         *)
(* (TypeOK, LeaseBinding), and a call that resumes after a forced drain    *)
(* must still be one (ThreadPhases).                                       *)
IInv == TypeOK /\ LeaseBinding /\ NoStrandedSlot /\ ThreadPhases

(* The values used for 'none' have their types.                            *)
LEMMA ConstantTypes ==
  /\ 0 \in Slot /\ Blank \in Bytes /\ FreeSlot \in SlotEntry
  /\ NoDrain \in DrainJob /\ NoReadback \in Readback /\ Absent \in Client
  BY ConstantsAssumption
  DEF Slot, Bytes, Blank, FreeSlot, SlotEntry, SlotState, NoDrain, DrainJob,
      NoReadback, Readback, Absent, Client

(* The invariant holds when the daemon starts (build_arenas_and_control).  *)
LEMMA InitIInv == Init => IInv
<1> SUFFICES ASSUME Init PROVE IInv  BY Zenon
<1> USE ConstantsAssumption DEF Init
<1>1. TypeOK
  BY DEF TypeOK, Slot, Epoch, Version, LeaseId, Drainer, Bytes, Blank, SlotEntry, SlotState,
         FreeSlot, Lease, Location, DrainJob, NoDrain, ReadJob, Readback, NoReadback,
         Client, Absent, Flight
<1>2. LeaseBinding
  BY DEF LeaseBinding, FreeSlot, NoDrain, Absent, Slot, Epoch, Drainer
<1>3. NoStrandedSlot
  BY Zenon DEF NoStrandedSlot, State, FreeSlot
<1>4. ThreadPhases
  BY Zenon DEF ThreadPhases, Absent, NoDrain, NoReadback, Drainer
<1> QED  BY <1>1, <1>2, <1>3, <1>4, Zenon DEF IInv

(* A free slot remembers no lease.                                         *)
LEMMA FreeFacts == FreeSlot.state = "FREE" /\ FreeSlot.lease = 0
  BY Zenon DEF FreeSlot

(* Setting the state of a slot leaves its other fields, and other slots.   *)
LEMMA SetStateFacts ==
  ASSUME TypeOK, NEW s \in Slot, NEW x \in SlotState
  PROVE  /\ SetState(s, x) \in [Slot -> SlotEntry]
         /\ SetState(s, x)[s].state = x
         /\ \A z \in Slot : SetState(s, x)[z].lease = slot[z].lease
         /\ \A z \in Slot \ {s} : SetState(s, x)[z] = slot[z]
<1> USE DEF TypeOK, SetState
<1>1. ASSUME NEW z \in Slot
      PROVE SetState(s, x)[z] \in SlotEntry /\ SetState(s, x)[z].lease = slot[z].lease
  BY ZenonT(30) DEF SlotEntry
<1>2. SetState(s, x)[s].state = x  BY Zenon DEF SlotEntry
<1> QED  BY <1>1, <1>2, Zenon

(* A call that ends leaves the agent idle, with its rank.                  *)
LEMMA IdleFacts ==
  ASSUME TypeOK, NEW e \in Epoch
  PROVE  Idle(e) \in Client /\ Idle(e).pc = "idle" /\ Idle(e).rank = client[e].rank
  BY ConstantTypes, ConstantsAssumption DEF TypeOK, Idle, At, Client

(* A call that goes on keeps the agent's rank and its own arguments.       *)
LEMMA AtFacts ==
  ASSUME TypeOK, NEW e \in Epoch, NEW t \in Tensor, NEW v \in Version, NEW l \in Nat,
         NEW s \in Slot, NEW c \in Nat,
         NEW pc \in {"offload", "prefetch", "granted", "poll", "ready", "checked"}
  PROVE  /\ At(e, pc, t, v, l, s, c) \in Client
         /\ At(e, pc, t, v, l, s, c).pc = pc
         /\ At(e, pc, t, v, l, s, c).rank = client[e].rank
         /\ At(e, pc, t, v, l, s, c).tensor = t
         /\ At(e, pc, t, v, l, s, c).version = v
         /\ At(e, pc, t, v, l, s, c).lease = l
  BY ConstantsAssumption DEF TypeOK, At, Client, Version

(* Queueing a job keeps the jobs that are there, and adds it.              *)
LEMMA AppendFacts ==
  ASSUME NEW S, NEW q \in Seq(S), NEW x \in S
  PROVE  /\ Append(q, x) \in Seq(S)
         /\ \A i \in DOMAIN q : i \in DOMAIN Append(q, x) /\ Append(q, x)[i] = q[i]
         /\ \E i \in DOMAIN Append(q, x) : Append(q, x)[i] = x
<1>1. Append(q, x)[Len(q) + 1] = x /\ Len(q) + 1 \in DOMAIN Append(q, x)
  OBVIOUS
<1> QED  BY <1>1

(* Dequeueing a job (the workers' pop_front) loses no other job.           *)
LEMMA TailFacts ==
  ASSUME NEW S, NEW q \in Seq(S), q # <<>>
  PROVE  /\ Tail(q) \in Seq(S) /\ Head(q) \in S
         /\ \A i \in DOMAIN q :
              q[i] = Head(q) \/ \E j \in DOMAIN Tail(q) : Tail(q)[j] = q[i]
<1>1. ASSUME NEW i \in DOMAIN q, i # 1
      PROVE  i - 1 \in DOMAIN Tail(q) /\ Tail(q)[i - 1] = q[i]
  BY <1>1
<1>2. Head(q) = q[1] /\ Head(q) \in S /\ Tail(q) \in Seq(S)
  OBVIOUS
<1> QED  BY <1>1, <1>2, Zenon

(* update_location_locked keeps locations_ well typed.                     *)
LEMMA UpdateType ==
  ASSUME NEW lc \in [Tensor -> Location], NEW t, NEW v \in 0 .. MaxVersion,
         NEW kind \in {"NONE", "PINNED", "COLD"}, NEW s \in Slot, NEW c \in Nat
  PROVE  UpdateLocation(lc, t, v, kind, s, c) \in [Tensor -> Location]
  BY Zenon DEF UpdateLocation, Location

(* Committing a drained copy keeps the cold store and locations_ well      *)
(* typed, and loses no cold entry.                                         *)
LEMMA ToColdType ==
  ASSUME TypeOK, NEW j \in DrainJob, ToCold(j)
  PROVE  /\ coldStore' \in Seq(Bytes) /\ loc' \in [Tensor -> Location]
         /\ DOMAIN coldStore \subseteq DOMAIN coldStore'
<1>1. /\ j.data \in Bytes /\ j.version \in 0 .. MaxVersion /\ j.slot \in Slot
      /\ coldStore \in Seq(Bytes) /\ Len(coldStore) + 1 \in Nat
  BY DEF DrainJob, TypeOK
<1>2. loc' \in [Tensor -> Location]
  BY <1>1, UpdateType, Zenon DEF ToCold, TypeOK
<1> QED  BY <1>1, <1>2, AppendFacts, Zenon DEF ToCold

(* LeaseBinding survives a step that only forgets leases.                  *)
LEMMA BindingFrame ==
  ASSUME TypeOK, LeaseBinding, nextLease' = nextLease,
         DOMAIN leases' \subseteq DOMAIN leases,
         \A l \in DOMAIN leases' : leases'[l] = leases[l],
         \A s \in Slot : slot'[s].lease \in {slot[s].lease, 0},
         \A d \in Drainer : /\ drain'[d].lease \in {drain[d].lease, 0}
                            /\ drain'[d].lease # 0 => drain'[d].slot = drain[d].slot,
         \A k \in Epoch : client'[k].pc = "prefetch" =>
                             client[k].pc = "prefetch" /\ client'[k].lease = client[k].lease
  PROVE  LeaseBinding'
<1>1. 0 < nextLease /\ 0 \notin DOMAIN leases'  BY DEF TypeOK, LeaseId
<1>2. \A d \in Drainer :
        /\ drain'[d].lease < nextLease
        /\ drain'[d].lease \in DOMAIN leases' => leases'[drain'[d].lease].slot = drain'[d].slot
  BY <1>1 DEF LeaseBinding
<1>3. \A s \in Slot :
        /\ slot'[s].lease < nextLease
        /\ slot'[s].lease \in DOMAIN leases' => leases'[slot'[s].lease].slot = s
  BY <1>1 DEF LeaseBinding
<1>4. \A e \in Epoch : client'[e].pc = "prefetch" =>
        /\ client'[e].lease \in (1 .. nextLease - 1) \ DOMAIN leases'
        /\ \A k \in Epoch \ {e} : client'[k].pc = "prefetch" => client'[k].lease # client'[e].lease
  BY DEF LeaseBinding
<1>5. \A e \in Epoch : client'[e].pc = "prefetch" =>
        /\ \A s \in Slot : slot'[s].lease # client'[e].lease
        /\ \A d \in Drainer : drain'[d].lease # client'[e].lease
  BY <1>1, <1>4 DEF LeaseBinding
<1> QED  BY <1>2, <1>3, <1>4, <1>5, Zenon DEF LeaseBinding
----------------------------------------------------------------------------
(* An agent that gives up its polling preserves the invariant.             *)
LEMMA GivenUpStep ==
  ASSUME IInv, NEW e \in Epoch, PrefetchGivenUp(e)  PROVE IInv'
<1> USE DEF IInv, PrefetchGivenUp, tables
<1>1. TypeOK'  BY IdleFacts, Zenon DEF TypeOK
<1>2. LeaseBinding'  BY IdleFacts DEF LeaseBinding, TypeOK
<1>3. NoStrandedSlot'
  BY Zenon DEF NoStrandedSlot, State, DrainQueued, DrainedBy, ReadQueued, ReadBy
<1>4. ThreadPhases'  BY IdleFacts, ZenonT(30) DEF ThreadPhases, TypeOK
<1> QED  BY <1>1, <1>2, <1>3, <1>4, Zenon

(* A poll that finds the lease of an earlier request preserves it.         *)
LEMMA PendingStep ==
  ASSUME IInv, NEW e \in Epoch, NEW t \in Tensor, NEW v \in Version, PrefetchPending(e, t, v)
  PROVE  IInv'
<1> PICK l \in Pending(t, v) :
      client' = [client EXCEPT ![e] =
        IF State(leases[l].slot) = "PINNED_VALID"
        THEN At(e, "ready", t, v, l, leases[l].slot, 0)
        ELSE At(e, "poll", t, v, 0, 0, 0)]
  BY Zenon DEF PrefetchPending
<1> DEFINE c == client'[e]
<1>0. /\ c \in Client /\ c.pc \in {"ready", "poll"} /\ c.rank \in Rank
      /\ c.tensor \in Tensor /\ c.version \in Version /\ (c.pc = "ready" => c.lease # 0)
      /\ client' = [client EXCEPT ![e] = c]
  <2>1. l \in Nat /\ l # 0 /\ leases[l].slot \in Slot /\ client[e].rank \in Rank
    BY Zenon DEF IInv, TypeOK, Pending, Lease, LeaseId, PrefetchPending, EpochValid
  <2>2. \/ c = At(e, "ready", t, v, l, leases[l].slot, 0)
        \/ c = At(e, "poll", t, v, 0, 0, 0)
    BY Zenon DEF IInv, TypeOK
  <2>3. client' = [client EXCEPT ![e] = c]
    BY Zenon DEF IInv, TypeOK
  <2>4. CASE c = At(e, "ready", t, v, l, leases[l].slot, 0)
    <3> HIDE DEF c
    <3>1. c \in Client /\ c.pc = "ready" /\ c.rank = client[e].rank
          /\ c.tensor = t /\ c.version = v /\ c.lease = l
      BY <2>1, <2>4, AtFacts DEF IInv
    <3> QED  BY <2>1, <2>3, <3>1, Zenon
  <2>5. CASE c = At(e, "poll", t, v, 0, 0, 0)
    <3> HIDE DEF c
    <3>1. c \in Client /\ c.pc = "poll" /\ c.rank = client[e].rank
          /\ c.tensor = t /\ c.version = v
      BY <2>5, AtFacts, ConstantTypes DEF IInv
    <3> QED  BY <2>1, <2>3, <3>1, Zenon
  <2> QED  BY <2>2, <2>4, <2>5, Zenon
<1> USE DEF IInv, PrefetchPending, tables
<1> HIDE DEF c
<1>1. TypeOK'  BY <1>0, Zenon DEF TypeOK
<1>2. LeaseBinding'
  <2>1. \A k \in Epoch : client'[k].pc = "prefetch" => client'[k] = client[k]
    BY <1>0, ZenonT(30) DEF TypeOK
  <2>2. UNCHANGED <<nextLease, leases, slot, drain>>  BY Zenon
  <2>3. TypeOK /\ LeaseBinding  BY Zenon
  <2> QED  BY ONLY <2>1, <2>2, <2>3, BindingFrame
<1>3. NoStrandedSlot'
  BY Zenon DEF NoStrandedSlot, State, DrainQueued, DrainedBy, ReadQueued, ReadBy
<1>4. ThreadPhases'
  BY <1>0, Zenon DEF ThreadPhases, TypeOK, Restoring
<1> QED  BY <1>1, <1>2, <1>3, <1>4, Zenon

(* The agent's own look at the slot in shared memory preserves it.         *)
LEMMA CheckSlotStep ==
  ASSUME IInv, NEW e \in Epoch, CheckSlot(e)  PROVE IInv'
<1> DEFINE c == client'[e]
<1>0. /\ c \in Client /\ c.pc \in {"checked", "idle"} /\ c.rank = client[e].rank
      /\ c.pc = "checked" => /\ c.tensor = client[e].tensor
                             /\ c.version = client[e].version
                             /\ c.lease = client[e].lease
      /\ client' = [client EXCEPT ![e] = c]
  BY IdleFacts, ZenonT(60) DEF IInv, TypeOK, CheckSlot, Client
<1> USE DEF IInv, CheckSlot, tables
<1> HIDE DEF c
<1>1. TypeOK'  BY <1>0, Zenon DEF TypeOK
<1>2. LeaseBinding'  BY <1>0 DEF LeaseBinding, TypeOK
<1>3. NoStrandedSlot'
  BY Zenon DEF NoStrandedSlot, State, DrainQueued, DrainedBy, ReadQueued, ReadBy
<1>4. ThreadPhases'  BY <1>0 DEF ThreadPhases, TypeOK
<1> QED  BY <1>1, <1>2, <1>3, <1>4, Zenon

(* A DMA copy that lands, even in a slot that was given away, preserves    *)
(* it.                                                                     *)
LEMMA LandStep ==
  ASSUME IInv, NEW f \in flight, Land(f)  PROVE IInv'
<1> USE DEF IInv, Land, tables
<1>1. TypeOK'
  <2>1. f \in Flight /\ f.slot \in Slot /\ f.tensor \in Tensor /\ f.version \in 0 .. MaxVersion
    BY ConstantsAssumption DEF TypeOK, Flight, Version
  <2>2. pinned' \in [Slot -> Bytes]
    BY <2>1, Zenon DEF TypeOK, Copy, Bytes
  <2>3. flight' \subseteq Flight
    BY <2>1, ConstantTypes, ZenonT(60) DEF TypeOK, Flight
  <2> QED  BY <2>2, <2>3, Zenon DEF TypeOK
<1>2. LeaseBinding'  BY Zenon DEF LeaseBinding
<1>3. NoStrandedSlot'
  BY Zenon DEF NoStrandedSlot, State, DrainQueued, DrainedBy, ReadQueued, ReadBy
<1>4. ThreadPhases'  BY Zenon DEF ThreadPhases
<1> QED  BY <1>1, <1>2, <1>3, <1>4, Zenon

(* MarkD2HSubmitted and MarkH2DSubmitted move one slot from the state they *)
(* expect to the one they set, and only that.                              *)
LEMMA SubmittedFacts ==
  ASSUME TypeOK, NEW e \in Epoch, NEW from, NEW to \in SlotState, MarkSubmitted(e, from, to)
  PROVE  /\ slot' \in [Slot -> SlotEntry]
         /\ \A s \in Slot :
              /\ slot'[s].lease = slot[s].lease
              /\ \/ slot'[s].state = slot[s].state
                 \/ slot[s].state = from /\ slot'[s].state = to
<1>1. CASE slot' = slot  BY <1>1, Zenon DEF TypeOK
<1>2. CASE /\ slot' = SetState(client[e].slot, to)
           /\ State(client[e].slot) = from
  <2>1. client[e].slot \in Slot  BY Zenon DEF TypeOK, Client
  <2> QED  BY <1>2, <2>1, SetStateFacts DEF State
<1> QED  BY <1>1, <1>2, Zenon DEF MarkSubmitted

(* The submission of a copy preserves the invariant.                       *)
LEMMA SubmitStep ==
  ASSUME IInv, NEW e \in Epoch, MarkD2HSubmitted(e) \/ MarkH2DSubmitted(e)  PROVE IInv'
<1>1. /\ slot' \in [Slot -> SlotEntry]
      /\ \A s \in Slot :
           /\ slot'[s].lease = slot[s].lease
           /\ \/ slot'[s].state = slot[s].state
              \/ slot[s].state = "RESERVED_D2H" /\ slot'[s].state = "D2H_IN_FLIGHT"
              \/ slot'[s].state = "H2D_IN_FLIGHT"
  BY SubmittedFacts DEF IInv, MarkD2HSubmitted, MarkH2DSubmitted, SlotState
<1>2. /\ client[e].pc \in {"granted", "checked"}
      /\ \E dir \in {"D2H", "H2D"} : Launch(e, dir)
      /\ UNCHANGED <<evicted, session, leases, loc, coldStore, pinned, drainQ, readQ, drain,
                     reader, nextLease, nextEpoch>>
  BY Zenon DEF MarkD2HSubmitted, MarkH2DSubmitted
<1> USE DEF IInv
<1>3. client' = [client EXCEPT ![e] = Idle(e)]  BY <1>2, Zenon DEF Launch
<1>4. TypeOK'
  <2>1. /\ client[e].lease \in LeaseId /\ client[e].slot \in Slot
        /\ client[e].tensor \in Tensor /\ client[e].version \in Version
    BY <1>2, Zenon DEF TypeOK, ThreadPhases, Client, LeaseId
  <2>2. flight' \subseteq Flight
    <3> PICK dir \in {"D2H", "H2D"} : Launch(e, dir)  BY <1>2, Zenon
    <3> DEFINE f == [client |-> e, dir |-> dir, lease |-> client[e].lease,
                     slot |-> client[e].slot, tensor |-> client[e].tensor,
                     version |-> client[e].version, landed |-> FALSE, data |-> Blank]
    <3>1. f \in Flight  BY <2>1, ConstantTypes, Zenon DEF Flight
    <3> HIDE DEF f
    <3>2. flight' = flight \cup {f}  BY Zenon DEF Launch, f
    <3> QED  BY <3>1, <3>2, Zenon DEF TypeOK
  <2> QED  BY <1>1, <1>2, <1>3, <2>2, IdleFacts, Zenon DEF TypeOK
<1>5. LeaseBinding'
  <2>1. \A k \in Epoch : client'[k].pc = "prefetch" => client'[k] = client[k]
    BY <1>3, IdleFacts, Zenon DEF TypeOK
  <2> QED  BY <1>1, <1>2, <2>1, BindingFrame, Zenon
<1>6. NoStrandedSlot'
  BY <1>1, <1>2 DEF NoStrandedSlot, State, DrainQueued, DrainedBy, ReadQueued, ReadBy
<1>7. ThreadPhases'  BY <1>2, <1>3, IdleFacts, Zenon DEF ThreadPhases, TypeOK
<1> QED  BY <1>4, <1>5, <1>6, <1>7, Zenon

(* The second critical section of a readback preserves it, whatever became *)
(* of the slot while mu_ was released.                                     *)
LEMMA ReadEndStep ==
  ASSUME IInv, NEW w \in ReadbackWorker, ReadMissing(w) \/ ReadDone(w) \/ ReadFailed(w)
  PROVE  IInv'
<1> DEFINE s == reader[w].slot
<1> USE DEF IInv
<1>1. s \in Slot /\ reader[w] \in Readback  BY Zenon DEF TypeOK, Readback
<1>2. /\ reader' = [reader EXCEPT ![w] = NoReadback]
      /\ UNCHANGED <<evicted, session, leases, coldStore, pinned, drainQ, readQ, drain,
                     client, flight, nextLease, nextEpoch>>
  BY Zenon DEF ReadMissing, ReadDone, ReadFailed
<1>3. /\ slot' \in [Slot -> SlotEntry]
      /\ \A z \in Slot : slot'[z].lease = slot[z].lease
      /\ \A z \in Slot \ {s} : slot'[z] = slot[z]
      /\ \/ slot'[s] = slot[s] /\ State(s) # "READBACK_IN_FLIGHT"
         \/ slot'[s].state \in {"PINNED_VALID", "ERROR"}
  <2>1. CASE slot' = slot /\ State(s) # "READBACK_IN_FLIGHT"
    BY <2>1, Zenon DEF TypeOK
  <2>2. CASE slot' = SetState(s, "PINNED_VALID")
    <3>1. TypeOK /\ "PINNED_VALID" \in SlotState  BY Zenon DEF SlotState
    <3> QED  BY ONLY <2>2, <1>1, <3>1, SetStateFacts, ZenonT(30)
  <2>3. CASE slot' = SetState(s, "ERROR")
    <3>1. TypeOK /\ "ERROR" \in SlotState  BY Zenon DEF SlotState
    <3> QED  BY ONLY <2>3, <1>1, <3>1, SetStateFacts, ZenonT(30)
  <2> QED  BY <2>1, <2>2, <2>3, Zenon DEF ReadMissing, ReadDone, ReadFailed
<1>4. TypeOK'
  <2>1. loc' \in [Tensor -> Location]
    <3>1. /\ slot[s].version \in 0 .. MaxVersion /\ reader[w].cold \in Nat
          /\ loc \in [Tensor -> Location]
      BY <1>1, Zenon DEF TypeOK, SlotEntry, Readback
    <3>2. loc' = loc \/ loc' = UpdateLocation(loc, slot[s].tensor, slot[s].version,
                                             "PINNED", s, reader[w].cold)
      BY Zenon DEF ReadMissing, ReadDone, ReadFailed
    <3>3. UpdateLocation(loc, slot[s].tensor, slot[s].version, "PINNED", s, reader[w].cold)
            \in [Tensor -> Location]
      <4>1. s \in Slot /\ "PINNED" \in {"NONE", "PINNED", "COLD"}  BY <1>1, Zenon
      <4> QED  BY ONLY <3>1, <4>1, UpdateType, Zenon
    <3> QED  BY <3>1, <3>2, <3>3, Zenon
  <2> QED  BY <1>2, <1>3, <2>1, ConstantTypes, Zenon DEF TypeOK
<1>5. LeaseBinding'  BY <1>2, <1>3, BindingFrame, Zenon
<1>6. NoStrandedSlot'
  <2> SUFFICES ASSUME NEW z \in Slot
               PROVE  /\ State(z)' = "DRAIN_IN_FLIGHT" =>
                           (DrainQueued(z) \/ \E d \in Drainer : DrainedBy(d, z))'
                      /\ State(z)' = "READBACK_IN_FLIGHT" =>
                           (ReadQueued(z) \/ \E u \in ReadbackWorker : ReadBy(u, z))'
                      /\ State(z)' \in {"RESERVED_D2H", "D2H_IN_FLIGHT", "READBACK_IN_FLIGHT"} =>
                           (slot[z].lease \in DOMAIN leases /\ leases[slot[z].lease].slot = z)'
    BY Zenon DEF NoStrandedSlot
  <2>1. CASE z = s
    <3>1. \/ slot'[z] = slot[z] /\ State(z) # "READBACK_IN_FLIGHT"
          \/ State(z)' \in {"PINNED_VALID", "ERROR"}
      BY <2>1, <1>3, ZenonT(30) DEF State
    <3> QED  BY <3>1, <1>2, Zenon DEF NoStrandedSlot, State, DrainQueued, DrainedBy
  <2>2. CASE z # s
    <3>1. slot'[z] = slot[z]  BY <2>2, <1>3, Zenon
    <3>2. \A u \in ReadbackWorker : ReadBy(u, z) => ReadBy(u, z)'
      BY <2>2, <1>2, Zenon DEF ReadBy, TypeOK
    <3> QED  BY <3>1, <3>2, <1>2, Zenon DEF NoStrandedSlot, State, DrainQueued, DrainedBy, ReadQueued
  <2> QED  BY <2>1, <2>2, Zenon
<1>7. ThreadPhases'  BY <1>2, Zenon DEF ThreadPhases, TypeOK, NoReadback
<1> QED  BY <1>4, <1>5, <1>6, <1>7, Zenon

(* The copy of a readback, made without mu_, preserves it.                 *)
LEMMA ReadCopyStep ==
  ASSUME IInv, NEW w \in ReadbackWorker, ReadCopy(w)  PROVE IInv'
<1> USE DEF IInv, ReadCopy, tables
<1>1. TypeOK'
  <2>1. coldStore[reader[w].cold] \in Bytes  BY DEF ThreadPhases, TypeOK
  <2>2. reader' \in [ReadbackWorker -> Readback]  BY Zenon DEF TypeOK, Readback
  <2> QED  BY <2>1, <2>2, Zenon DEF TypeOK
<1>2. LeaseBinding'  BY Zenon DEF LeaseBinding
<1>3. NoStrandedSlot'
  <2>1. \A u \in ReadbackWorker, s \in Slot : ReadBy(u, s) => ReadBy(u, s)'
    BY Zenon DEF ReadBy, TypeOK, Readback
  <2> QED  BY <2>1, Zenon DEF NoStrandedSlot, State, DrainQueued, DrainedBy, ReadQueued
<1>4. ThreadPhases'  BY Zenon DEF ThreadPhases, TypeOK, Readback
<1> QED  BY <1>1, <1>2, <1>3, <1>4, Zenon

(* The start of a readback: the job leaves the queue and its slot is now   *)
(* the worker's.                                                           *)
LEMMA ReadStartStep ==
  ASSUME IInv, NEW w \in ReadbackWorker, ReadStart(w)  PROVE IInv'
<1> USE DEF IInv, ReadStart
<1> DEFINE job == Head(readQ)
<1>1. /\ job \in ReadJob /\ readQ' \in Seq(ReadJob)
      /\ \A i \in DOMAIN readQ :
           readQ[i] = job \/ \E j \in DOMAIN readQ' : readQ'[j] = readQ[i]
  BY TailFacts, Zenon DEF TypeOK
<1>2. /\ reader' \in [ReadbackWorker -> Readback]
      /\ \A u \in ReadbackWorker \ {w} : reader'[u] = reader[u]
      /\ \/ reader' = reader /\ State(job.slot) # "READBACK_IN_FLIGHT"
         \/ /\ reader'[w].stage \in {"copy", "missing"} /\ reader'[w].slot = job.slot
            /\ reader'[w].stage = "copy" => reader'[w].cold \in DOMAIN coldStore
  BY <1>1, Zenon DEF TypeOK, ReadJob, Readback
<1> HIDE DEF job
<1>3. TypeOK'  BY <1>1, <1>2, Zenon DEF TypeOK
<1>4. LeaseBinding'  BY Zenon DEF LeaseBinding
<1>5. NoStrandedSlot'
  <2>1. ASSUME NEW s \in Slot, State(s) = "READBACK_IN_FLIGHT"
        PROVE  ReadQueued(s)' \/ \E u \in ReadbackWorker : ReadBy(u, s)'
    <3>1. CASE job.slot = s
      BY <2>1, <3>1, <1>2, Zenon DEF ReadBy
    <3>2. CASE job.slot # s /\ ReadQueued(s)
      BY <3>2, <1>1, Zenon DEF ReadQueued
    <3>3. CASE \E u \in ReadbackWorker : ReadBy(u, s)
      BY <3>3, <1>2, Zenon DEF ReadBy
    <3> QED  BY <2>1, <3>1, <3>2, <3>3, Zenon DEF NoStrandedSlot
  <2> QED  BY <2>1, Zenon DEF NoStrandedSlot, State, DrainQueued, DrainedBy
<1>6. ThreadPhases'  BY <1>2, Zenon DEF ThreadPhases
<1> QED  BY <1>3, <1>4, <1>5, <1>6, Zenon

(* The copy of a drain, made without mu_, preserves it.                    *)
LEMMA DrainCopyStep ==
  ASSUME IInv, NEW d \in Drainer, DrainCopy(d)  PROVE IInv'
<1> USE DEF IInv, DrainCopy, tables
<1>1. /\ drain' \in [Drainer -> DrainJob]
      /\ \A x \in Drainer : /\ drain'[x].lease = drain[x].lease
                            /\ drain'[x].slot = drain[x].slot
                            /\ drain'[x].stage = "idle" <=> drain[x].stage = "idle"
  <2> PICK b : b = pinned[drain[d].slot]  BY Zenon
  <2>1. drain \in [Drainer -> DrainJob] /\ b \in Bytes  BY Zenon DEF TypeOK, DrainJob
  <2>2. drain[d].stage = "copy" /\ drain' = [drain EXCEPT ![d].stage = "commit", ![d].data = b]
    BY Zenon
  <2> QED  BY ONLY <2>1, <2>2, d \in Drainer, ZenonT(30) DEF DrainJob
<1>2. TypeOK'  BY <1>1, Zenon DEF TypeOK
<1>3. LeaseBinding'  BY <1>1, BindingFrame, Zenon
<1>4. NoStrandedSlot'
  BY <1>1 DEF NoStrandedSlot, State, DrainQueued, DrainedBy, ReadQueued, ReadBy
<1>5. ThreadPhases'  BY <1>1, Zenon DEF ThreadPhases, Drainer
<1> QED  BY <1>2, <1>3, <1>4, <1>5, Zenon

(* The start of a worker's drain: the slot leaves the queue and is now the *)
(* worker's.                                                               *)
LEMMA DrainStartStep ==
  ASSUME IInv, NEW w \in DrainWorker, DrainStart(w)  PROVE IInv'
<1> DEFINE s == Head(drainQ)
<1> USE DEF IInv
<1>1. /\ s \in Slot /\ drainQ' \in Seq(Slot)
      /\ \A i \in DOMAIN drainQ :
           drainQ[i] = s \/ \E j \in DOMAIN drainQ' : drainQ'[j] = drainQ[i]
  BY TailFacts, Zenon DEF TypeOK, DrainStart
<1>2. UNCHANGED <<evicted, session, slot, leases, loc, coldStore, pinned, readQ, reader,
                  client, flight, nextLease, nextEpoch>>
  BY Zenon DEF DrainStart
<1>3. /\ drain' \in [Drainer -> DrainJob]
      /\ \A x \in Drainer \ {w} : drain'[x] = drain[x]
      /\ \/ drain' = drain /\ State(s) # "DRAIN_IN_FLIGHT"
         \/ drain'[w].stage = "copy" /\ drain'[w].slot = s /\ drain'[w].lease = slot[s].lease
  BY <1>1, ConstantTypes, ZenonT(60) DEF TypeOK, SlotEntry, DrainJob, DrainStart, Drainer
<1> HIDE DEF s
<1>4. TypeOK'  BY <1>1, <1>2, <1>3, Zenon DEF TypeOK
<1>5. LeaseBinding'
  <2>1. \A x \in Drainer :
          \/ drain'[x] = drain[x]
          \/ drain'[x].slot = s /\ drain'[x].lease = slot[s].lease
    BY <1>3, Zenon
  <2>2. nextLease' = nextLease /\ leases' = leases /\ slot' = slot /\ client' = client
    BY <1>2, Zenon
  <2>3. LeaseBinding /\ s \in Slot  BY <1>1, Zenon
  <2>4. \A d \in Drainer :
          /\ drain'[d].lease < nextLease
          /\ drain'[d].lease \in DOMAIN leases => leases[drain'[d].lease].slot = drain'[d].slot
    BY ONLY <2>1, <2>3, ZenonT(30) DEF LeaseBinding
  <2>5. ASSUME NEW e \in Epoch, client[e].pc = "prefetch", NEW d \in Drainer
        PROVE  drain'[d].lease # client[e].lease
    BY ONLY <2>1, <2>3, <2>5, ZenonT(30) DEF LeaseBinding
  <2> QED  BY ONLY <2>2, <2>3, <2>4, <2>5, ZenonT(30) DEF LeaseBinding
<1>6. NoStrandedSlot'
  <2>1. ASSUME NEW z \in Slot, State(z) = "DRAIN_IN_FLIGHT"
        PROVE  (DrainQueued(z) \/ \E d \in Drainer : DrainedBy(d, z))'
    <3>0. w \in Drainer /\ drain[w].stage = "idle"  BY Zenon DEF Drainer, DrainStart
    <3>1. CASE s = z
      BY <2>1, <3>0, <3>1, <1>3, Zenon DEF DrainedBy
    <3>2. CASE s # z /\ DrainQueued(z)
      BY <3>2, <1>1, Zenon DEF DrainQueued
    <3>3. CASE \E d \in Drainer : DrainedBy(d, z)
      BY <3>0, <3>3, <1>3, Zenon DEF DrainedBy
    <3> QED  BY <2>1, <3>1, <3>2, <3>3, Zenon DEF NoStrandedSlot
  <2> QED  BY <1>2, <2>1, Zenon DEF NoStrandedSlot, State, ReadQueued, ReadBy
<1>7. ThreadPhases'
  <2>1. \A e \in Epoch : e \in Drainer \ {w}  BY ConstantsAssumption, Zenon DEF Drainer
  <2> QED  BY <1>2, <1>3, <2>1, Zenon DEF ThreadPhases
<1> QED  BY <1>4, <1>5, <1>6, <1>7, Zenon

(* What a drain that ends leaves of the invariant, the drainer idle again. *)
LEMMA DrainEnds ==
  ASSUME IInv, NEW d \in Drainer,
         drain' = [drain EXCEPT ![d] = NoDrain],
         slot' \in [Slot -> SlotEntry],
         \A z \in Slot \ {drain[d].slot} : slot'[z] = slot[z],
         LET s == drain[d].slot
         IN  \/ slot'[s] = slot[s] /\ State(s) # "DRAIN_IN_FLIGHT"
                /\ leases' = leases
             \/ slot'[s].state \in {"FREE", "PINNED_VALID"}
                /\ slot'[s].lease \in {slot[s].lease, 0},
         leases' = leases \/ leases' = Without(leases, {drain[d].lease}),
         \A k \in Epoch : client'[k].pc = "prefetch" => client'[k] = client[k],
         UNCHANGED <<drainQ, readQ, reader, nextLease>>
  PROVE  LeaseBinding' /\ NoStrandedSlot'
<1> DEFINE s == drain[d].slot
<1> USE DEF IInv
<1>1. /\ DOMAIN leases' \subseteq DOMAIN leases
      /\ \A l \in DOMAIN leases' : leases'[l] = leases[l]
      /\ \A l \in DOMAIN leases \ {drain[d].lease} : l \in DOMAIN leases'
  <2>1. CASE leases' = leases  BY <2>1, Zenon
  <2>2. CASE leases' = Without(leases, {drain[d].lease})  BY <2>2 DEF Without
  <2> QED  BY <2>1, <2>2, Zenon
<1>2. s \in Slot /\ \A x \in Drainer \ {d} : drain'[x] = drain[x]
  BY Zenon DEF TypeOK, DrainJob
<1>3. drain'[d].lease = 0  BY Zenon DEF NoDrain, TypeOK
<1>4. LeaseBinding'
  <2>1. \A z \in Slot : slot'[z].lease \in {slot[z].lease, 0}  BY <1>2, Zenon
  <2>2. \A x \in Drainer : /\ drain'[x].lease \in {drain[x].lease, 0}
                           /\ drain'[x].lease # 0 => drain'[x].slot = drain[x].slot
    BY <1>2, <1>3, Zenon
  <2> QED  BY <1>1, <2>1, <2>2, BindingFrame, Zenon
<1>5. NoStrandedSlot'
  <2> SUFFICES ASSUME NEW z \in Slot
               PROVE  /\ State(z)' = "DRAIN_IN_FLIGHT" =>
                           (DrainQueued(z) \/ \E x \in Drainer : DrainedBy(x, z))'
                      /\ State(z)' = "READBACK_IN_FLIGHT" =>
                           (ReadQueued(z) \/ \E u \in ReadbackWorker : ReadBy(u, z))'
                      /\ State(z)' \in {"RESERVED_D2H", "D2H_IN_FLIGHT", "READBACK_IN_FLIGHT"} =>
                           (slot[z].lease \in DOMAIN leases /\ leases[slot[z].lease].slot = z)'
    BY Zenon DEF NoStrandedSlot
  <2>1. CASE z = s /\ slot'[z] = slot[z] /\ State(z) # "DRAIN_IN_FLIGHT" /\ leases' = leases
    BY <2>1 DEF NoStrandedSlot, State, ReadQueued, ReadBy
  <2>2. CASE z = s /\ slot'[z].state \in {"FREE", "PINNED_VALID"}
    BY <2>2, Zenon DEF State
  <2>3. CASE z # s
    <3>1. slot'[z] = slot[z]  BY <2>3, Zenon
    <3>2. \A x \in Drainer : DrainedBy(x, z) => DrainedBy(x, z)'
      BY <2>3, <1>2, Zenon DEF DrainedBy
    <3>3. /\ slot[z].lease \in DOMAIN leases
          /\ leases[slot[z].lease].slot = z
          => slot[z].lease # drain[d].lease
      BY <2>3, Zenon DEF LeaseBinding
    <3>4. /\ slot[z].lease \in DOMAIN leases
          /\ leases[slot[z].lease].slot = z
          => slot[z].lease \in DOMAIN leases' /\ leases'[slot[z].lease].slot = z
      BY <3>3, <1>1, Zenon
    <3> QED  BY <3>1, <3>2, <3>4, Zenon DEF NoStrandedSlot, State, DrainQueued, ReadQueued, ReadBy
  <2> QED  BY <2>1, <2>2, <2>3, Zenon
<1> QED  BY <1>4, <1>5, Zenon

(* The second critical section of a worker's drain, done or failed.        *)
LEMMA DrainWorkerEndStep ==
  ASSUME IInv, NEW w \in DrainWorker, DrainDone(w) \/ DrainFailed(w)  PROVE IInv'
<1> DEFINE j == drain[w]
<1> USE DEF IInv
<1>1. w \in Drainer /\ j \in DrainJob /\ j.slot \in Slot  BY Zenon DEF Drainer, TypeOK, DrainJob
<1>2. /\ drain' = [drain EXCEPT ![w] = NoDrain]
      /\ UNCHANGED <<evicted, session, pinned, drainQ, readQ, reader, client, flight,
                     nextLease, nextEpoch>>
  BY Zenon DEF DrainDone, DrainFailed
<1>3. \/ /\ State(j.slot) # "DRAIN_IN_FLIGHT"
         /\ UNCHANGED <<slot, leases, loc, coldStore>>
      \/ /\ slot' = [slot EXCEPT ![j.slot] = FreeSlot]
         /\ leases' = Without(leases, {j.lease}) /\ ToCold(j)
      \/ /\ slot' = SetState(j.slot, "PINNED_VALID")
         /\ UNCHANGED <<leases, loc, coldStore>>
  BY Zenon DEF DrainDone, DrainFailed
<1> HIDE DEF j
<1>4. /\ slot' \in [Slot -> SlotEntry]
      /\ \A z \in Slot \ {j.slot} : slot'[z] = slot[z]
      /\ \/ slot'[j.slot] = slot[j.slot] /\ State(j.slot) # "DRAIN_IN_FLIGHT" /\ leases' = leases
         \/ /\ slot'[j.slot].state \in {"FREE", "PINNED_VALID"}
            /\ slot'[j.slot].lease \in {slot[j.slot].lease, 0}
  <2>1. CASE slot' = slot  BY <1>1, <1>3, <2>1, SetStateFacts DEF TypeOK, SlotState, FreeSlot
  <2>2. CASE slot' = [slot EXCEPT ![j.slot] = FreeSlot]
    BY <1>1, <2>2, ConstantTypes, Zenon DEF TypeOK, FreeSlot
  <2>3. CASE slot' = SetState(j.slot, "PINNED_VALID")
    BY <1>1, <2>3, SetStateFacts DEF SlotState
  <2> QED  BY <1>3, <2>1, <2>2, <2>3, Zenon
<1>5. LeaseBinding' /\ NoStrandedSlot'
  BY <1>1, <1>2, <1>3, <1>4, DrainEnds, Zenon DEF j
<1>6. /\ coldStore' \in Seq(Bytes) /\ loc' \in [Tensor -> Location]
      /\ DOMAIN coldStore \subseteq DOMAIN coldStore'
  BY <1>1, <1>3, ToColdType, Zenon DEF TypeOK
<1>7. TypeOK'
  <2>1. DOMAIN leases' \subseteq LeaseId /\ \A l \in DOMAIN leases' : leases'[l] \in Lease
    BY <1>3, Zenon DEF TypeOK, Without
  <2> QED  BY <1>2, <1>4, <1>6, <2>1, ConstantTypes, Zenon DEF TypeOK
<1>8. ThreadPhases'
  <2>1. \A e \in Epoch : drain'[e] = drain[e]
    BY <1>2, ConstantsAssumption, Zenon DEF TypeOK, Drainer
  <2> QED  BY <1>2, <1>6, <2>1, Zenon DEF ThreadPhases
<1> QED  BY <1>5, <1>7, <1>8, Zenon

(* A forced drain that fails puts its slot back and ends the call.         *)
LEMMA ForcedDrainFailedStep ==
  ASSUME IInv, NEW e \in Epoch, ForcedDrainFailed(e)  PROVE IInv'
<1> DEFINE s == drain[e].slot
<1> USE DEF IInv
<1>1. e \in Drainer /\ s \in Slot  BY Zenon DEF Drainer, TypeOK, DrainJob
<1>2. /\ drain' = [drain EXCEPT ![e] = NoDrain]
      /\ client' = [client EXCEPT ![e] = Idle(e)]
      /\ slot' = SetState(s, "PINNED_VALID")
      /\ drain[e].stage # "idle"
      /\ UNCHANGED <<evicted, session, leases, loc, coldStore, pinned, drainQ, readQ, reader,
                     flight, nextLease, nextEpoch>>
  BY Zenon DEF ForcedDrainFailed
<1>3. \A k \in Epoch : client'[k].pc = "prefetch" => client'[k] = client[k]
  BY <1>2, IdleFacts, Zenon DEF TypeOK
<1>4. /\ slot' \in [Slot -> SlotEntry]
      /\ \A z \in Slot \ {s} : slot'[z] = slot[z]
      /\ slot'[s].state = "PINNED_VALID" /\ slot'[s].lease = slot[s].lease
  BY <1>1, <1>2, SetStateFacts, ZenonT(60) DEF SlotState
<1> HIDE DEF s
<1>5. LeaseBinding' /\ NoStrandedSlot'
  BY <1>1, <1>2, <1>3, <1>4, DrainEnds, Zenon DEF s
<1>6. TypeOK'  BY <1>2, <1>4, ConstantTypes, IdleFacts, Zenon DEF TypeOK
<1>7. ThreadPhases'
  BY <1>1, <1>2, IdleFacts, Zenon DEF ThreadPhases, TypeOK, NoDrain, Drainer
<1> QED  BY <1>5, <1>6, <1>7, Zenon
----------------------------------------------------------------------------
(* The steps that end leases: completions, releases, and the recovery of a *)
(* dead session by the heartbeat monitor or by a registration.             *)

(* What a step that forgets leases leaves of the invariant, if none of     *)
(* their slots is then held for a transfer.                                *)
LEMMA LeasesEnd ==
  ASSUME IInv,
         DOMAIN leases' \subseteq DOMAIN leases,
         \A l \in DOMAIN leases' : leases'[l] = leases[l],
         \A z \in Slot :
           \/ slot'[z] = slot[z]
           \/ /\ slot'[z].state \in {"FREE", "PINNED_VALID"}
              /\ slot'[z].lease \in {slot[z].lease, 0},
         \A l \in DOMAIN leases \ DOMAIN leases' :
           slot'[leases[l].slot].state \notin
             {"RESERVED_D2H", "D2H_IN_FLIGHT", "READBACK_IN_FLIGHT"},
         \A k \in Epoch : client'[k].pc = "prefetch" =>
                             client[k].pc = "prefetch" /\ client'[k].lease = client[k].lease,
         UNCHANGED <<drain, drainQ, readQ, reader, nextLease>>
  PROVE  LeaseBinding' /\ NoStrandedSlot'
<1> USE DEF IInv
<1>1. LeaseBinding'
  <2>1. \A z \in Slot : slot'[z].lease \in {slot[z].lease, 0}  BY Zenon
  <2> QED  BY <2>1, BindingFrame, ZenonT(30)
<1>2. NoStrandedSlot'
  <2> SUFFICES ASSUME NEW z \in Slot, slot'[z] = slot[z]
               PROVE  /\ State(z) = "DRAIN_IN_FLIGHT" =>
                           DrainQueued(z) \/ \E x \in Drainer : DrainedBy(x, z)
                      /\ State(z) = "READBACK_IN_FLIGHT" =>
                           ReadQueued(z) \/ \E u \in ReadbackWorker : ReadBy(u, z)
                      /\ State(z) \in {"RESERVED_D2H", "D2H_IN_FLIGHT", "READBACK_IN_FLIGHT"} =>
                           slot[z].lease \in DOMAIN leases' /\ leases'[slot[z].lease].slot = z
    BY DEF NoStrandedSlot, State, DrainQueued, DrainedBy, ReadQueued, ReadBy
  <2> QED  BY DEF NoStrandedSlot, State
<1> QED  BY <1>1, <1>2, Zenon

(* Erasing leases keeps the others.                                        *)
LEMMA WithoutFacts ==
  ASSUME NEW D, leases' = Without(leases, D)
  PROVE  /\ DOMAIN leases' = DOMAIN leases \ D
         /\ \A l \in DOMAIN leases' : leases'[l] = leases[l]
  BY Zenon DEF Without

(* The completion of a D2H copy, accepted or rejected, preserves the       *)
(* invariant.                                                              *)
LEMMA D2HCompleteStep ==
  ASSUME IInv, NEW f \in flight, D2HComplete(f)  PROVE IInv'
<1> USE DEF IInv
<1>1. f.slot \in Slot /\ f.tensor \in Tensor /\ f.version \in 0 .. MaxVersion
  BY ConstantsAssumption DEF TypeOK, Flight, Version
<1>2. flight' \subseteq flight
      /\ UNCHANGED <<evicted, session, leases, coldStore, pinned, readQ, drain, reader, client,
                     nextLease, nextEpoch>>
  BY Zenon DEF D2HComplete, Report
<1>3. CASE UNCHANGED <<loc, slot, drainQ>>
  <2>1. TypeOK'  BY <1>2, <1>3, Zenon DEF TypeOK
  <2>2. LeaseBinding'  BY <1>2, <1>3, Zenon DEF LeaseBinding
  <2>3. NoStrandedSlot'
    BY <1>2, <1>3, ZenonT(30) DEF NoStrandedSlot, State, DrainQueued, DrainedBy, ReadQueued, ReadBy
  <2>4. ThreadPhases'  BY <1>2, Zenon DEF ThreadPhases
  <2> QED  BY <2>1, <2>2, <2>3, <2>4, Zenon
<1>4. CASE /\ loc' = UpdateLocation(loc, f.tensor, f.version, "PINNED", f.slot, 0)
           /\ slot' = SetState(f.slot, IF DrainOnD2H THEN "DRAIN_IN_FLIGHT" ELSE "PINNED_VALID")
           /\ drainQ' = IF DrainOnD2H THEN Append(drainQ, f.slot) ELSE drainQ
  <2>1. /\ slot' \in [Slot -> SlotEntry]
        /\ slot'[f.slot].state = IF DrainOnD2H THEN "DRAIN_IN_FLIGHT" ELSE "PINNED_VALID"
        /\ \A z \in Slot : slot'[z].lease = slot[z].lease
        /\ \A z \in Slot \ {f.slot} : slot'[z] = slot[z]
    BY <1>1, <1>4, SetStateFacts DEF SlotState
  <2>2. /\ drainQ' \in Seq(Slot)
        /\ \A i \in DOMAIN drainQ : i \in DOMAIN drainQ' /\ drainQ'[i] = drainQ[i]
        /\ DrainOnD2H => \E i \in DOMAIN drainQ' : drainQ'[i] = f.slot
    <3>1. drainQ \in Seq(Slot)  BY Zenon DEF TypeOK
    <3>2. CASE DrainOnD2H
      <4>1. drainQ' = Append(drainQ, f.slot)  BY <1>4, <3>2, Zenon
      <4> QED  BY <1>1, <3>1, <4>1, AppendFacts
    <3>3. CASE ~DrainOnD2H  BY <1>4, <3>1, <3>3, Zenon
    <3> QED  BY <3>2, <3>3, Zenon
  <2>3. loc' \in [Tensor -> Location]  BY <1>1, <1>4, UpdateType, ZenonT(30) DEF TypeOK
  <2>4. TypeOK'  BY <1>2, <2>1, <2>2, <2>3, ZenonT(30) DEF TypeOK
  <2>5. LeaseBinding'  BY <1>2, <2>1, BindingFrame, ZenonT(30)
  <2>6. NoStrandedSlot'
    <3>1. \A z \in Slot : DrainQueued(z) => DrainQueued(z)'  BY <2>2, Zenon DEF DrainQueued
    <3>2. DrainOnD2H => DrainQueued(f.slot)'  BY <2>2, Zenon DEF DrainQueued
    <3> QED
      BY <1>1, <1>2, <2>1, <3>1, <3>2, ZenonT(30) DEF NoStrandedSlot, State, DrainedBy, ReadQueued, ReadBy
  <2>7. ThreadPhases'  BY <1>2, Zenon DEF ThreadPhases
  <2> QED  BY <2>4, <2>5, <2>6, <2>7, Zenon
<1> QED  BY <1>3, <1>4, Zenon DEF D2HComplete

(* The completion of an H2D copy, accepted or rejected, preserves it.      *)
LEMMA H2DCompleteStep ==
  ASSUME IInv, NEW f \in flight, H2DComplete(f)  PROVE IInv'
<1> DEFINE cold == IF loc[f.tensor].cold # 0 THEN loc[f.tensor].cold ELSE slot[f.slot].cold
<1> USE DEF IInv
<1>1. /\ f.slot \in Slot /\ f.tensor \in Tensor /\ f.version \in 0 .. MaxVersion
      /\ cold \in Nat
  <2>1. f.slot \in Slot /\ f.tensor \in Tensor /\ f.version \in 0 .. MaxVersion
    BY ConstantsAssumption DEF TypeOK, Flight, Version
  <2> QED  BY <2>1, Zenon DEF TypeOK, Location, SlotEntry
<1>2. flight' \subseteq flight
      /\ UNCHANGED <<evicted, session, coldStore, pinned, drainQ, readQ, drain, reader, client,
                     nextLease, nextEpoch>>
  BY Zenon DEF H2DComplete, Report
<1>3. \/ UNCHANGED <<loc, slot, leases>>
      \/ /\ f.lease \in DOMAIN leases /\ leases[f.lease].slot = f.slot
         /\ \/ /\ \/ loc' = loc
                  \/ loc' = [loc EXCEPT ![f.tensor].kind = "COLD", ![f.tensor].slot = 0]
               /\ slot' = [slot EXCEPT ![f.slot] = FreeSlot]
               /\ leases' = Without(leases, {f.lease})
            \/ /\ loc' = UpdateLocation(loc, f.tensor, f.version, "PINNED", f.slot, cold)
               /\ slot' = SetState(f.slot, "PINNED_VALID")
               /\ leases' = leases
  BY Zenon DEF H2DComplete, Owns
<1> HIDE DEF cold
<1>4. loc' \in [Tensor -> Location]
  <2>1. [loc EXCEPT ![f.tensor].kind = "COLD", ![f.tensor].slot = 0] \in [Tensor -> Location]
    BY <1>1, ConstantTypes, ZenonT(60) DEF TypeOK, Location
  <2>2. UpdateLocation(loc, f.tensor, f.version, "PINNED", f.slot, cold)
          \in [Tensor -> Location]
    BY <1>1, UpdateType, Zenon DEF TypeOK
  <2>3. loc \in [Tensor -> Location]  BY Zenon DEF TypeOK
  <2> QED  BY <1>3, <2>1, <2>2, <2>3, Zenon
<1>5. /\ slot' \in [Slot -> SlotEntry]
      /\ \A z \in Slot : \/ slot'[z] = slot[z]
                          \/ /\ slot'[z].state \in {"FREE", "PINNED_VALID"}
                             /\ slot'[z].lease \in {slot[z].lease, 0}
  <2>1. CASE slot' = slot  BY <2>1, Zenon DEF TypeOK
  <2>2. CASE slot' = [slot EXCEPT ![f.slot] = FreeSlot]
    BY <2>2, ConstantTypes, Zenon DEF TypeOK, FreeSlot
  <2>3. CASE slot' = SetState(f.slot, "PINNED_VALID")
    <3>1. /\ slot' \in [Slot -> SlotEntry]
          /\ slot'[f.slot].state = "PINNED_VALID"
          /\ \A z \in Slot : slot'[z].lease = slot[z].lease
          /\ \A z \in Slot \ {f.slot} : slot'[z] = slot[z]
      BY <1>1, <2>3, SetStateFacts DEF SlotState
    <3> QED  BY <3>1, Zenon
  <2> QED  BY <1>3, <2>1, <2>2, <2>3, Zenon
<1>6. /\ DOMAIN leases' \subseteq DOMAIN leases
      /\ \A l \in DOMAIN leases' : leases'[l] = leases[l]
      /\ \A l \in DOMAIN leases \ DOMAIN leases' : slot'[leases[l].slot].state = "FREE"
  <2>1. CASE leases' = leases  BY <2>1, Zenon
  <2>2. CASE /\ f.lease \in DOMAIN leases /\ leases[f.lease].slot = f.slot
             /\ slot' = [slot EXCEPT ![f.slot] = FreeSlot]
             /\ leases' = Without(leases, {f.lease})
    <3>1. slot'[f.slot].state = "FREE"  BY <1>1, <2>2, Zenon DEF TypeOK, FreeSlot
    <3>2. /\ DOMAIN leases' = DOMAIN leases \ {f.lease}
          /\ \A l \in DOMAIN leases' : leases'[l] = leases[l]
      BY <2>2, WithoutFacts, Zenon
    <3> QED  BY <2>2, <3>1, <3>2, Zenon
  <2> QED  BY <1>3, <2>1, <2>2, Zenon
<1>7. LeaseBinding' /\ NoStrandedSlot'
  BY <1>2, <1>5, <1>6, LeasesEnd, ZenonT(30)
<1>8. TypeOK'  BY <1>2, <1>4, <1>5, <1>6, ZenonT(30) DEF TypeOK
<1>9. ThreadPhases'  BY <1>2, Zenon DEF ThreadPhases
<1> QED  BY <1>7, <1>8, <1>9, Zenon

(* handle_release_lease preserves it.                                      *)
LEMMA ReleaseStep ==
  ASSUME IInv, NEW e \in Epoch, NEW l \in DOMAIN leases, ReleaseLease(e, l)  PROVE IInv'
<1> DEFINE s == leases[l].slot
           t == leases[l].tensor
<1> USE DEF IInv
<1>1. s \in Slot /\ t \in Tensor  BY Zenon DEF TypeOK, Lease
<1>2. /\ UNCHANGED <<evicted, session, coldStore, pinned, drainQ, readQ, drain, reader, client,
                     flight, nextLease, nextEpoch>>
      /\ leases' = Without(leases, {l})
      /\ \/ /\ State(s) \notin {"RESERVED_D2H", "D2H_IN_FLIGHT", "READBACK_IN_FLIGHT"}
            /\ UNCHANGED <<loc, slot>>
         \/ /\ loc' = loc \/ loc' = [loc EXCEPT ![t].kind = "NONE"]
            /\ slot' = [slot EXCEPT ![s] = FreeSlot]
  BY Zenon DEF ReleaseLease
<1> HIDE DEF s, t
<1>3. loc' \in [Tensor -> Location]
  <2>1. [loc EXCEPT ![t].kind = "NONE"] \in [Tensor -> Location]
    BY <1>1, ZenonT(30) DEF TypeOK, Location
  <2> QED  BY <1>2, <2>1, Zenon DEF TypeOK
<1>4. /\ slot' \in [Slot -> SlotEntry]
      /\ \A z \in Slot : slot'[z] = slot[z] \/ slot'[z] = FreeSlot
      /\ slot'[s].state \notin {"RESERVED_D2H", "D2H_IN_FLIGHT", "READBACK_IN_FLIGHT"}
  <2>1. CASE slot' = slot /\ State(s) \notin {"RESERVED_D2H", "D2H_IN_FLIGHT", "READBACK_IN_FLIGHT"}
    BY <2>1, Zenon DEF TypeOK, State
  <2>2. CASE slot' = [slot EXCEPT ![s] = FreeSlot]
    BY <1>1, <2>2, ConstantTypes, Zenon DEF TypeOK, FreeSlot
  <2> QED  BY <1>2, <2>1, <2>2, Zenon
<1>5. /\ DOMAIN leases' = DOMAIN leases \ {l}
      /\ \A k \in DOMAIN leases' : leases'[k] = leases[k]
  BY <1>2, WithoutFacts, Zenon
<1>6. LeaseBinding' /\ NoStrandedSlot'
  BY <1>2, <1>4, <1>5, LeasesEnd DEF FreeSlot, s
<1>7. TypeOK'  BY <1>2, <1>3, <1>4, <1>5, Zenon DEF TypeOK
<1>8. ThreadPhases'  BY <1>2, Zenon DEF ThreadPhases
<1> QED  BY <1>6, <1>7, <1>8, Zenon

(* The recovery of a dead session's leases: a slot is as before or FREE,   *)
(* and a lease that goes leaves no slot that waits for its transfer.       *)
LEMMA RecoverFacts ==
  ASSUME TypeOK, NEW R, Recover(R)
  PROVE  /\ slot' \in [Slot -> SlotEntry]
         /\ \A z \in Slot : slot'[z] = slot[z] \/ slot'[z] = FreeSlot
         /\ DOMAIN leases' \subseteq DOMAIN leases
         /\ \A l \in DOMAIN leases' : leases'[l] = leases[l]
         /\ \A l \in DOMAIN leases \ DOMAIN leases' :
              slot'[leases[l].slot].state \notin
                {"RESERVED_D2H", "D2H_IN_FLIGHT", "READBACK_IN_FLIGHT"}
<1> DEFINE dead == LeasesOf(R)
<1>1. /\ slot' = [s \in Slot |-> IF s \in Reclaimed(dead) THEN FreeSlot ELSE slot[s]]
      /\ leases' = Without(leases, dead)
  BY Zenon DEF Recover
<1> HIDE DEF dead
<1>2. slot' \in [Slot -> SlotEntry] /\ \A z \in Slot : slot'[z] = slot[z] \/ slot'[z] = FreeSlot
  BY <1>1, ConstantTypes, Zenon DEF TypeOK
<1>3. DOMAIN leases' = DOMAIN leases \ dead /\ \A l \in DOMAIN leases' : leases'[l] = leases[l]
  BY <1>1, WithoutFacts, ZenonT(30)
<1>4. ASSUME NEW l \in DOMAIN leases \cap dead
      PROVE  slot'[leases[l].slot].state \notin
               {"RESERVED_D2H", "D2H_IN_FLIGHT", "READBACK_IN_FLIGHT"}
  <2> DEFINE s == leases[l].slot
  <2>1. s \in Slot  BY Zenon DEF TypeOK, Lease
  <2>2. CASE s \in Reclaimed(dead)
    BY <1>1, <2>1, <2>2, Zenon DEF FreeSlot
  <2>3. CASE s \notin Reclaimed(dead)
    <3>1. State(s) \in {"PINNED_VALID", "DRAIN_IN_FLIGHT"}
      BY <2>1, <2>3, Zenon DEF Reclaimed
    <3> QED  BY <1>1, <2>1, <2>3, <3>1, Zenon DEF State
  <2> QED  BY <2>2, <2>3, Zenon
<1> QED  BY <1>2, <1>3, <1>4, Zenon

(* Stopping agents changes nothing but whether they are up.                *)
LEMMA StopFacts ==
  ASSUME TypeOK, NEW E
  PROVE  /\ Stop(client, E) \in [Epoch -> Client]
         /\ \A k \in Epoch :
              /\ Stop(client, E)[k].pc = client[k].pc
              /\ Stop(client, E)[k].rank = client[k].rank
              /\ Stop(client, E)[k].tensor = client[k].tensor
              /\ Stop(client, E)[k].version = client[k].version
              /\ Stop(client, E)[k].lease = client[k].lease
<1>1. ASSUME NEW k \in Epoch
      PROVE  /\ Stop(client, E)[k] \in Client
             /\ Stop(client, E)[k].pc = client[k].pc
             /\ Stop(client, E)[k].rank = client[k].rank
             /\ Stop(client, E)[k].tensor = client[k].tensor
             /\ Stop(client, E)[k].version = client[k].version
             /\ Stop(client, E)[k].lease = client[k].lease
  BY ZenonT(30) DEF TypeOK, Stop, Client
<1> QED  BY <1>1, Zenon DEF Stop

(* The heartbeat monitor's recovery preserves the invariant.               *)
LEMMA HeartbeatTimeoutStep ==
  ASSUME IInv, NEW r \in Rank, HeartbeatTimeout(r)  PROVE IInv'
<1> DEFINE E == {session[r].epoch}
<1> USE DEF IInv
<1>1. /\ Recover({r})
      /\ client' = Stop(client, E)
      /\ flight' \subseteq flight
      /\ session' = [session EXCEPT ![r].alive = FALSE]
      /\ UNCHANGED <<evicted, loc, coldStore, pinned, drainQ, readQ, drain, reader,
                     nextLease, nextEpoch>>
  BY Zenon DEF HeartbeatTimeout, Abort
<1> HIDE DEF E
<1>2. LeaseBinding' /\ NoStrandedSlot'
  BY <1>1, RecoverFacts, StopFacts, LeasesEnd DEF FreeSlot
<1>3. TypeOK'
  <2>1. session' \in [Rank -> [epoch : 0 .. MaxEpoch, alive : BOOLEAN]]
    BY <1>1, Zenon DEF TypeOK
  <2>2. DOMAIN leases' \subseteq LeaseId /\ \A l \in DOMAIN leases' : leases'[l] \in Lease
    BY <1>1, RecoverFacts, Zenon DEF TypeOK
  <2> QED  BY <1>1, <2>1, <2>2, RecoverFacts, StopFacts, Zenon DEF TypeOK
<1>4. ThreadPhases'  BY <1>1, StopFacts DEF ThreadPhases
<1> QED  BY <1>2, <1>3, <1>4, Zenon

(* A registration, with the recovery of the sessions it replaces,          *)
(* preserves it.                                                           *)
LEMMA RegisterStep ==
  ASSUME IInv, NEW r \in Rank, Register(r)  PROVE IInv'
<1> DEFINE ended == {q \in Rank : session[q].alive /\ (q = r \/ PidOf[q] = PidOf[r])}
           E == {session[q].epoch : q \in ended}
           new == [Absent EXCEPT !.pc = "idle", !.up = TRUE, !.rank = r]
<1> USE DEF IInv
<1>1. /\ nextEpoch <= MaxEpoch /\ nextEpoch' = nextEpoch + 1
      /\ Recover(ended)
      /\ client' = [Stop(client, E) EXCEPT ![nextEpoch] = new]
      /\ flight' \subseteq flight
      /\ session' = [q \in Rank |-> IF q = r THEN [epoch |-> nextEpoch, alive |-> TRUE]
                                    ELSE [session[q] EXCEPT !.alive = @ /\ q \notin ended]]
      /\ UNCHANGED <<evicted, loc, coldStore, pinned, drainQ, readQ, drain, reader, nextLease>>
  BY Zenon DEF Register, Abort
<1>2. new \in Client /\ new.pc = "idle" /\ new.rank = r
  BY ConstantTypes, Zenon DEF Absent, Client
<1>3. nextEpoch \in Epoch /\ nextEpoch' \in 1 .. MaxEpoch + 1
  BY <1>1, ConstantsAssumption DEF TypeOK, Epoch
<1>4. session' \in [Rank -> [epoch : 0 .. MaxEpoch, alive : BOOLEAN]]
  <2>1. ASSUME NEW q \in Rank \ {r}
        PROVE  [session[q] EXCEPT !.alive = @ /\ q \notin ended]
                 \in [epoch : 0 .. MaxEpoch, alive : BOOLEAN]
    BY Zenon DEF TypeOK
  <2>2. [epoch |-> nextEpoch, alive |-> TRUE] \in [epoch : 0 .. MaxEpoch, alive : BOOLEAN]
    BY <1>3, ConstantsAssumption DEF Epoch
  <2> QED  BY <1>1, <2>1, <2>2, Zenon
<1> HIDE DEF ended, E, new
<1>5. /\ client' \in [Epoch -> Client]
      /\ client'[nextEpoch] = new
      /\ \A k \in Epoch \ {nextEpoch} :
           /\ client'[k].pc = client[k].pc
           /\ client'[k].rank = client[k].rank
           /\ client'[k].tensor = client[k].tensor
           /\ client'[k].version = client[k].version
           /\ client'[k].lease = client[k].lease
  BY <1>1, <1>2, <1>3, StopFacts, Zenon
<1>6. LeaseBinding' /\ NoStrandedSlot'
  BY <1>1, <1>2, <1>5, RecoverFacts, LeasesEnd DEF FreeSlot
<1>7. TypeOK'
  <2>1. DOMAIN leases' \subseteq LeaseId /\ \A l \in DOMAIN leases' : leases'[l] \in Lease
    BY <1>1, RecoverFacts, Zenon DEF TypeOK
  <2> QED  BY <1>1, <1>3, <1>4, <1>5, <2>1, RecoverFacts, Zenon DEF TypeOK
<1>8. ThreadPhases'
  <2>1. client[nextEpoch].pc = "none" /\ drain[nextEpoch].stage = "idle"
    <3>1. nextEpoch >= nextEpoch  BY <1>3 DEF Epoch
    <3> QED  BY <1>3, <3>1, Zenon DEF ThreadPhases
  <2>2. \A k \in Epoch : k >= nextEpoch + 1 => k >= nextEpoch /\ k # nextEpoch
    BY <1>3 DEF Epoch
  <2>3. \A k \in Epoch : k >= nextEpoch' => client'[k].pc = "none"
    BY <1>1, <1>5, <2>2, Zenon DEF ThreadPhases
  <2> QED  BY <1>1, <1>2, <1>3, <1>5, <2>1, <2>3 DEF ThreadPhases
<1> QED  BY <1>6, <1>7, <1>8, Zenon
----------------------------------------------------------------------------
(* The steps that grant a lease, and the theorems.                         *)

(* next_lease_id_ is not in use anywhere.                                  *)
LEMMA FreshId ==
  ASSUME TypeOK, LeaseBinding
  PROVE  /\ nextLease \notin DOMAIN leases
         /\ \A s \in Slot : slot[s].lease # nextLease
         /\ \A d \in Drainer : drain[d].lease # nextLease
         /\ \A k \in Epoch : client[k].pc = "prefetch" => client[k].lease # nextLease
<1>1. nextLease \in Nat /\ ~(nextLease < nextLease)  BY DEF TypeOK, LeaseId
<1> QED  BY <1>1 DEF LeaseBinding

(* Ids below a counter stay below it when it grows.                        *)
LEMMA RangeGrows ==
  ASSUME NEW a \in Nat, NEW b \in Nat, a <= b
  PROVE  \A x \in 1 .. a - 1 : x \in 1 .. b - 1
  OBVIOUS

(* LeaseBinding survives a step that adds lease l on slot s, if no slot,   *)
(* drain or other pending prefetch remembers l.                            *)
LEMMA BindingFresh ==
  ASSUME TypeOK, LeaseBinding, NEW l \in Nat \ {0}, NEW s,
         DOMAIN leases' \subseteq DOMAIN leases \cup {l},
         leases'[l].slot = s,
         \A k \in DOMAIN leases' \ {l} : leases'[k] = leases[k],
         nextLease' \in Nat, nextLease <= nextLease', l < nextLease',
         \A z \in Slot : \/ slot'[z].lease \in {slot[z].lease, 0}
                         \/ z = s /\ slot'[z].lease = l,
         \A z \in Slot : slot[z].lease # l,
         \A d \in Drainer : drain[d].lease # l,
         \A d \in Drainer : /\ drain'[d].lease \in {drain[d].lease, 0}
                            /\ drain'[d].lease # 0 => drain'[d].slot = drain[d].slot,
         \A k \in Epoch : client'[k].pc = "prefetch" =>
                             client[k].pc = "prefetch" /\ client'[k].lease = client[k].lease
                             /\ client[k].lease # l
  PROVE  LeaseBinding'
<1>1. 0 < nextLease' /\ 0 \notin DOMAIN leases'
  <2>1. l \in Nat \ {0} /\ nextLease' \in Nat /\ l < nextLease'  BY Zenon
  <2>2. 0 < nextLease'  BY ONLY <2>1
  <2>3. 0 \notin DOMAIN leases'  BY Zenon DEF TypeOK, LeaseId
  <2> QED  BY <2>2, <2>3, Zenon
<1>0. nextLease \in Nat /\ nextLease' \in Nat /\ nextLease <= nextLease'
  BY Zenon DEF TypeOK, LeaseId
<1>2. \A x \in Nat : x < nextLease => x < nextLease'  BY ONLY <1>0
<1>3. \A k \in DOMAIN leases' : k < nextLease'
  BY <1>2, ZenonT(30) DEF LeaseBinding, TypeOK, LeaseId
<1>4. \A d \in Drainer :
        /\ drain'[d].lease < nextLease'
        /\ drain'[d].lease \in DOMAIN leases' => leases'[drain'[d].lease].slot = drain'[d].slot
  <2>1. \A d \in Drainer : drain[d].lease \in Nat  BY ZenonT(30) DEF TypeOK, DrainJob
  <2> QED  BY <1>1, <1>2, <2>1 DEF LeaseBinding
<1>5. \A z \in Slot :
        /\ slot'[z].lease < nextLease'
        /\ slot'[z].lease \in DOMAIN leases' => leases'[slot'[z].lease].slot = z
  <2>1. \A z \in Slot : slot[z].lease \in Nat  BY Zenon DEF TypeOK, SlotEntry
  <2> QED  BY <1>1, <1>2, <2>1 DEF LeaseBinding
<1>6. \A e \in Epoch : client'[e].pc = "prefetch" =>
        client'[e].lease \in (1 .. nextLease' - 1) \ DOMAIN leases'
  <2>1. \A x \in 1 .. nextLease - 1 : x \in 1 .. nextLease' - 1
    BY <1>0, RangeGrows, Zenon
  <2>2. \A e \in Epoch : client'[e].pc = "prefetch" =>
          /\ client'[e].lease \in 1 .. nextLease - 1
          /\ client'[e].lease \notin DOMAIN leases \cup {l}
    BY Zenon DEF LeaseBinding
  <2> QED  BY <2>1, <2>2, Zenon
<1>7. \A e \in Epoch : client'[e].pc = "prefetch" =>
        /\ \A z \in Slot : slot'[z].lease # client'[e].lease
        /\ \A d \in Drainer : drain'[d].lease # client'[e].lease
        /\ \A k \in Epoch \ {e} : client'[k].pc = "prefetch" => client'[k].lease # client'[e].lease
  BY <1>1, <1>6 DEF LeaseBinding
<1> QED  BY <1>3, <1>4, <1>5, <1>6, <1>7, ZenonT(30) DEF LeaseBinding

(* A prefetch that is served from the pinned copy preserves the invariant. *)
LEMMA PrefetchPinnedStep ==
  ASSUME IInv, NEW e \in Epoch, NEW t \in Tensor, NEW v \in Version, PrefetchPinned(e, t, v)
  PROVE  IInv'
<1> DEFINE s == loc[t].slot
           rec == [slot |-> s, tensor |-> t, version |-> v, rank |-> client[e].rank,
                   epoch |-> e, prefetch |-> TRUE]
           c == At(e, "ready", t, v, nextLease, s, 0)
<1> USE DEF IInv
<1>1. /\ leases' = With(leases, nextLease, rec)
      /\ client' = [client EXCEPT ![e] = c]
      /\ nextLease' = nextLease + 1
      /\ client[e].rank \in Rank
      /\ client[e].pc \in {"idle", "poll"}
      /\ UNCHANGED <<evicted, session, slot, loc, coldStore, pinned, drainQ, readQ, drain,
                     reader, flight, nextEpoch>>
  BY Zenon DEF PrefetchPinned, EpochValid, Restoring
<1>2. s \in Slot /\ nextLease \in Nat \ {0}  BY Zenon DEF TypeOK, Location, LeaseId
<1>3. rec \in Lease /\ rec.slot = s  BY <1>1, <1>2, ZenonT(30) DEF Lease
<1>4. /\ c \in Client /\ c.pc = "ready" /\ c.rank \in Rank /\ c.tensor \in Tensor
      /\ c.version \in Version /\ c.lease # 0
  BY <1>1, <1>2, AtFacts
<1> HIDE DEF rec, c, s
<1>5. /\ DOMAIN leases' = DOMAIN leases \cup {nextLease}
      /\ nextLease \notin DOMAIN leases
      /\ leases'[nextLease] = rec
      /\ \A k \in DOMAIN leases : leases'[k] = leases[k]
  <2>1. nextLease \notin DOMAIN leases
    BY <1>2, FreshId, Zenon
  <2> QED  BY <1>1, <2>1, Zenon DEF With
<1>6. TypeOK'
  <2>1. nextLease' \in LeaseId  BY <1>1, <1>2 DEF LeaseId
  <2>2. DOMAIN leases' \subseteq LeaseId /\ \A l \in DOMAIN leases' : leases'[l] \in Lease
    BY <1>3, <1>5, ZenonT(30) DEF TypeOK
  <2> QED  BY <1>1, <1>4, <2>1, <2>2, Zenon DEF TypeOK
<1>7. LeaseBinding'
  <2>1. \A k \in Epoch : client'[k].pc = "prefetch" => client'[k] = client[k]
    BY <1>1, <1>4, Zenon DEF TypeOK
  <2>2. nextLease' \in Nat /\ nextLease < nextLease'  BY <1>1, <1>2
  <2>3. /\ TypeOK /\ LeaseBinding /\ nextLease \in Nat \ {0} /\ leases'[nextLease].slot = s
        /\ DOMAIN leases' \subseteq DOMAIN leases \cup {nextLease}
        /\ \A k \in DOMAIN leases' \ {nextLease} : leases'[k] = leases[k]
    BY <1>2, <1>3, <1>5, Zenon
  <2>4. nextLease <= nextLease'  BY ONLY <1>2, <2>2
  <2>5. /\ \A z \in Slot : slot'[z].lease \in {slot[z].lease, 0} /\ slot[z].lease # nextLease
        /\ \A d \in Drainer : /\ drain[d].lease # nextLease
                              /\ drain'[d].lease \in {drain[d].lease, 0}
                              /\ drain'[d].lease # 0 => drain'[d].slot = drain[d].slot
    BY <1>1, FreshId, Zenon
  <2>6. \A k \in Epoch : client'[k].pc = "prefetch" =>
          client[k].pc = "prefetch" /\ client'[k].lease = client[k].lease
          /\ client[k].lease # nextLease
    BY <2>1, FreshId, Zenon
  <2> QED  BY ONLY <2>2, <2>3, <2>4, <2>5, <2>6, BindingFresh
<1>8. NoStrandedSlot'
  BY <1>1, <1>5, ZenonT(30) DEF NoStrandedSlot, State, DrainQueued, DrainedBy, ReadQueued, ReadBy
<1>9. ThreadPhases'  BY <1>1, <1>4, Zenon DEF ThreadPhases, TypeOK
<1> QED  BY <1>6, <1>7, <1>8, <1>9, Zenon

(* Granting slot s under lease l, in the tables sl and ls: those at hand,  *)
(* or what the forced drain of e made of them.                             *)
Allocated(e, sl, ls) ==
  \/ sl = slot /\ ls = leases /\ drain' = drain /\ drain[e].stage = "idle"
  \/ /\ drain[e].stage # "idle"
     /\ sl = [slot EXCEPT ![drain[e].slot] = FreeSlot]
     /\ ls = Without(leases, {drain[e].lease})
     /\ drain' = [drain EXCEPT ![e] = NoDrain]

(* The id of a reservation is next_lease_id_, or the one the waiting       *)
(* prefetch took before its forced drain.                                  *)
NewId(e, l) ==
  /\ l \notin DOMAIN leases
  /\ \A z \in Slot : slot[z].lease # l
  /\ \A d \in Drainer : drain[d].lease # l
  /\ \A k \in Epoch \ {e} : client[k].pc = "prefetch" => client[k].lease # l
  /\ nextLease' \in LeaseId /\ nextLease <= nextLease' /\ l < nextLease'

(* What a reservation enters: the lease names the slot, the slot the       *)
(* lease, and the slot waits for a D2H copy or for a readback that is      *)
(* queued.                                                                 *)
Granted(e, s, l, entry, rec, c) ==
  /\ entry.lease = l /\ rec.slot = s
  /\ entry.state = "RESERVED_D2H" \/ (entry.state = "READBACK_IN_FLIGHT" /\ ReadQueued(s)')
  /\ c.pc \in {"granted", "poll"} /\ c.rank \in Rank /\ c.tensor \in Tensor
  /\ c.version \in Version /\ (c.pc = "granted" => c.lease # 0)
  /\ client' = [client EXCEPT ![e] = c]
  /\ readQ' \in Seq(ReadJob) /\ \A z \in Slot : ReadQueued(z) => ReadQueued(z)'

(* What no reservation touches.                                            *)
Others ==
  /\ coldStore' \in Seq(Bytes) /\ DOMAIN coldStore \subseteq DOMAIN coldStore'
  /\ loc' \in [Tensor -> Location]
  /\ evicted' \in [Epoch -> [Tensor -> 0 .. MaxVersion]]
  /\ UNCHANGED <<session, pinned, drainQ, reader, flight, nextEpoch>>

(* A reservation, given the slots and leases it starts from, preserves the *)
(* invariant.                                                              *)
LEMMA ReserveStep ==
  ASSUME IInv, NEW e \in Epoch, client[e].pc # "none", NEW s \in Slot, NEW l \in Nat \ {0},
         NEW sl, NEW ls, NEW entry \in SlotEntry, NEW rec \in Lease, NEW c \in Client,
         Allocated(e, sl, ls), slot' = [sl EXCEPT ![s] = entry], leases' = With(ls, l, rec),
         NewId(e, l), Granted(e, s, l, entry, rec, c), Others
  PROVE  IInv'
<1> DEFINE j == drain[e]
<1> USE DEF IInv, Allocated, NewId, Granted, Others
<1>1. e \in Drainer /\ j \in DrainJob /\ j.slot \in Slot  BY Zenon DEF Drainer, TypeOK, DrainJob
<1>2. /\ drain' \in [Drainer -> DrainJob]
      /\ \A d \in Drainer \ {e} : drain'[d] = drain[d]
      /\ drain'[e].stage = "idle"
      /\ drain'[e] = drain[e] \/ drain'[e].lease = 0
  <2>1. CASE drain' = drain /\ drain[e].stage = "idle"  BY <2>1, Zenon DEF TypeOK
  <2>2. CASE drain' = [drain EXCEPT ![e] = NoDrain]
    BY <1>1, <2>2, ConstantTypes, Zenon DEF TypeOK, NoDrain
  <2> QED  BY <2>1, <2>2, Zenon
<1>3. /\ slot' \in [Slot -> SlotEntry]
      /\ slot'[s] = entry
      /\ \A z \in Slot \ {s} : \/ slot'[z] = slot[z] /\ (z # j.slot \/ j = drain'[e])
                               \/ slot'[z] = FreeSlot
  <2>1. sl \in [Slot -> SlotEntry]  BY <1>1, ConstantTypes, Zenon DEF TypeOK
  <2>2. \A z \in Slot : \/ sl[z] = slot[z] /\ (z # j.slot \/ j = drain'[e])
                        \/ sl[z] = FreeSlot
    BY <1>1, Zenon DEF TypeOK
  <2> QED  BY <2>1, <2>2, Zenon
<1>4. /\ DOMAIN leases' \subseteq DOMAIN leases \cup {l}
      /\ l \in DOMAIN leases' /\ leases'[l] = rec
      /\ \A k \in DOMAIN leases' \ {l} : leases'[k] = leases[k]
      /\ \A k \in DOMAIN leases : k \in DOMAIN leases' \/ (k = j.lease /\ j # drain'[e])
  BY <1>2, ZenonT(30) DEF With, Without
<1> HIDE DEF j
<1>5. TypeOK'
  <2>1. l \in LeaseId  BY Zenon DEF LeaseId
  <2>2. DOMAIN leases' \subseteq LeaseId /\ \A k \in DOMAIN leases' : leases'[k] \in Lease
    <3>1. /\ DOMAIN leases \subseteq LeaseId /\ \A k \in DOMAIN leases : leases[k] \in Lease
          /\ rec \in Lease
      BY Zenon DEF TypeOK
    <3> QED  BY ONLY <1>4, <2>1, <3>1, ZenonT(30)
  <2> QED  BY <1>2, <1>3, <2>2, Zenon DEF TypeOK
<1>6. LeaseBinding'
  <2>1. \A k \in Epoch : client'[k].pc = "prefetch" => k # e /\ client'[k] = client[k]
    BY ZenonT(30) DEF TypeOK
  <2>2. \A z \in Slot : \/ slot'[z].lease \in {slot[z].lease, 0}
                        \/ z = s /\ slot'[z].lease = l
    BY <1>3, FreeFacts, Zenon
  <2>3. \A d \in Drainer : /\ drain'[d].lease \in {drain[d].lease, 0}
                           /\ drain'[d].lease # 0 => drain'[d].slot = drain[d].slot
    BY <1>2, Zenon
  <2>4. nextLease' \in Nat  BY Zenon DEF LeaseId
  <2>5. \A k \in Epoch : client'[k].pc = "prefetch" =>
          /\ client[k].pc = "prefetch" /\ client'[k].lease = client[k].lease
          /\ client[k].lease # l
    BY <2>1, Zenon
  <2>6. leases'[l].slot = s  BY <1>4, Zenon
  <2>7. /\ DOMAIN leases' \subseteq DOMAIN leases \cup {l}
        /\ \A k \in DOMAIN leases' \ {l} : leases'[k] = leases[k]
    BY <1>4, Zenon
  <2>8. /\ TypeOK /\ LeaseBinding /\ nextLease <= nextLease' /\ l < nextLease'
        /\ \A z \in Slot : slot[z].lease # l
        /\ \A d \in Drainer : drain[d].lease # l
    BY Zenon
  <2> QED  BY ONLY <2>2, <2>3, <2>4, <2>5, <2>6, <2>7, <2>8, l \in Nat \ {0}, BindingFresh
<1>7. NoStrandedSlot'
  <2> SUFFICES ASSUME NEW z \in Slot
               PROVE  /\ State(z)' = "DRAIN_IN_FLIGHT" =>
                           (DrainQueued(z) \/ \E x \in Drainer : DrainedBy(x, z))'
                      /\ State(z)' = "READBACK_IN_FLIGHT" =>
                           (ReadQueued(z) \/ \E u \in ReadbackWorker : ReadBy(u, z))'
                      /\ State(z)' \in {"RESERVED_D2H", "D2H_IN_FLIGHT", "READBACK_IN_FLIGHT"} =>
                           (slot[z].lease \in DOMAIN leases /\ leases[slot[z].lease].slot = z)'
    BY Zenon DEF NoStrandedSlot
  <2>1. CASE z = s
    BY <2>1, <1>3, <1>4, Zenon DEF State
  <2>2. CASE z # s /\ slot'[z] = FreeSlot
    BY <2>2, FreeFacts, Zenon DEF State
  <2>3. CASE z # s /\ slot'[z] = slot[z] /\ (z # j.slot \/ j = drain'[e])
    <3>1. \A x \in Drainer : DrainedBy(x, z) => DrainedBy(x, z)'
      BY <2>3, <1>2, Zenon DEF DrainedBy, j
    <3>2. /\ slot[z].lease \in DOMAIN leases
          /\ leases[slot[z].lease].slot = z
          => slot[z].lease \in DOMAIN leases' /\ leases'[slot[z].lease].slot = z
      <4> SUFFICES ASSUME slot[z].lease \in DOMAIN leases, leases[slot[z].lease].slot = z
                   PROVE  slot[z].lease \in DOMAIN leases' \ {l}
        BY <1>4, Zenon
      <4>1. j.lease \in DOMAIN leases => leases[j.lease].slot = j.slot
        BY <1>1, Zenon DEF LeaseBinding, j
      <4>2. slot[z].lease # j.lease \/ j = drain'[e]  BY <2>3, <4>1, Zenon
      <4> QED  BY <1>4, <4>2, Zenon
    <3>3. \A u \in ReadbackWorker : ReadBy(u, z) => ReadBy(u, z)'  BY Zenon DEF ReadBy
    <3>4. DrainQueued(z) => DrainQueued(z)'  BY Zenon DEF DrainQueued
    <3>5. State(z)' = State(z) /\ slot'[z].lease = slot[z].lease  BY <2>3, Zenon DEF State
    <3>6. State(z) = "READBACK_IN_FLIGHT" =>
             (ReadQueued(z) \/ \E u \in ReadbackWorker : ReadBy(u, z))'
      BY <3>3, Zenon DEF NoStrandedSlot
    <3>7. State(z) = "DRAIN_IN_FLIGHT" =>
             (DrainQueued(z) \/ \E x \in Drainer : DrainedBy(x, z))'
      BY <3>1, <3>4, Zenon DEF NoStrandedSlot
    <3>8. State(z) \in {"RESERVED_D2H", "D2H_IN_FLIGHT", "READBACK_IN_FLIGHT"} =>
             slot[z].lease \in DOMAIN leases' /\ leases'[slot[z].lease].slot = z
      BY <3>2, Zenon DEF NoStrandedSlot
    <3> QED  BY <3>5, <3>6, <3>7, <3>8, Zenon
  <2> QED  BY <1>3, <2>1, <2>2, <2>3, Zenon
<1>8. ThreadPhases'
  BY <1>2, ZenonT(30) DEF ThreadPhases, TypeOK, Drainer
<1> QED  BY <1>5, <1>6, <1>7, <1>8, Zenon

(* The start of a forced drain, for a call that now waits for it.          *)
LEMMA ForceStartStep ==
  ASSUME IInv, NEW e \in Epoch, drain[e].stage = "idle", client[e].pc # "none",
         NEW l \in Victims, StartForcedDrain(e, l), NEW c \in Client,
         client' = [client EXCEPT ![e] = c],
         c.rank \in Rank, c.tensor \in Tensor, c.version \in Version,
         \/ c.pc = "offload" /\ nextLease' = nextLease
         \/ c.pc = "prefetch" /\ c.lease = nextLease /\ nextLease' = nextLease + 1,
         evicted' \in [Epoch -> [Tensor -> 0 .. MaxVersion]],
         UNCHANGED <<session, leases, loc, coldStore, pinned, drainQ, readQ, reader, flight,
                     nextEpoch>>
  PROVE  IInv'
<1>0. l \in DOMAIN leases /\ leases[l] \in Lease /\ l \in LeaseId /\ nextLease \in LeaseId
  BY ZenonT(30) DEF IInv, TypeOK, Victims
<1> PICK s \in Slot : s = leases[l].slot  BY <1>0, ZenonT(30) DEF Lease
<1> DEFINE j == [stage |-> "copy", slot |-> s, lease |-> l, tensor |-> leases[l].tensor,
                version |-> leases[l].version, data |-> Blank]
<1> USE DEF IInv
<1>1. /\ e \in Drainer /\ l \in Nat /\ nextLease \in Nat \ {0}
      /\ leases[l].tensor \in Tensor /\ leases[l].version \in 0 .. MaxVersion
  <2>1. e \in Drainer  BY Zenon DEF Drainer
  <2> QED  BY ONLY <1>0, <2>1, ConstantsAssumption DEF Lease, LeaseId, Version
<1>2. j \in DrainJob /\ j.stage = "copy" /\ j.slot = s /\ j.lease = l
  BY <1>1, ConstantTypes, Zenon DEF DrainJob
<1>3. slot' = SetState(s, "DRAIN_IN_FLIGHT") /\ drain' = [drain EXCEPT ![e] = j]
  BY Zenon DEF StartForcedDrain
<1> HIDE DEF j
<1>4. /\ drain' \in [Drainer -> DrainJob] /\ drain'[e] = j
      /\ \A d \in Drainer \ {e} : drain'[d] = drain[d]
  BY <1>1, <1>2, <1>3, ZenonT(30) DEF TypeOK
<1>5. /\ slot' \in [Slot -> SlotEntry]
      /\ slot'[s].state = "DRAIN_IN_FLIGHT"
      /\ \A z \in Slot : slot'[z].lease = slot[z].lease
      /\ \A z \in Slot \ {s} : slot'[z] = slot[z]
  <2>1. TypeOK /\ "DRAIN_IN_FLIGHT" \in SlotState  BY Zenon DEF SlotState
  <2> QED  BY ONLY <1>3, <2>1, s \in Slot, SetStateFacts, ZenonT(30)
<1>6. TypeOK'
  <2>0. nextLease' \in {nextLease, nextLease + 1}  BY Zenon
  <2>1. nextLease' \in LeaseId  BY ONLY <1>1, <2>0 DEF LeaseId
  <2> QED  BY <1>4, <1>5, <2>1, ZenonT(30) DEF TypeOK
<1>7. LeaseBinding'
  <2>1. nextLease' \in Nat /\ \A x \in Nat : x < nextLease => x < nextLease'
    BY <1>1
  <2>2. \A k \in DOMAIN leases : k < nextLease'  BY <2>1, Zenon DEF LeaseBinding, TypeOK, LeaseId
  <2>3. \A z \in Slot :
          /\ slot'[z].lease < nextLease'
          /\ slot'[z].lease \in DOMAIN leases => leases[slot'[z].lease].slot = z
    BY <1>5, <2>1, ZenonT(30) DEF LeaseBinding, TypeOK, SlotEntry
  <2>4. \A d \in Drainer :
          /\ drain'[d].lease < nextLease'
          /\ drain'[d].lease \in DOMAIN leases => leases[drain'[d].lease].slot = drain'[d].slot
    <3>1. \A d \in Drainer : drain[d].lease \in Nat  BY Zenon DEF TypeOK, DrainJob
    <3> QED  BY <1>0, <1>1, <1>2, <1>4, <2>1, <2>2, <3>1, ZenonT(30) DEF LeaseBinding
  <2>5. ASSUME NEW k \in Epoch, client'[k].pc = "prefetch"
        PROVE  /\ client'[k].lease \in (1 .. nextLease' - 1) \ DOMAIN leases
               /\ \A z \in Slot : slot'[z].lease # client'[k].lease
               /\ \A d \in Drainer : drain'[d].lease # client'[k].lease
               /\ \A i \in Epoch \ {k} : client'[i].pc = "prefetch" =>
                                         client'[i].lease # client'[k].lease
    <3>1. CASE k = e
      <4>1. client'[k].lease = nextLease /\ nextLease' = nextLease + 1
        BY <2>5, <3>1, Zenon DEF TypeOK
      <4>2. \A i \in Epoch \ {k} : client'[i] = client[i]  BY <3>1, Zenon DEF TypeOK
      <4>3. nextLease \in 1 .. nextLease' - 1  BY ONLY <4>1, <1>1
      <4>4. \A d \in Drainer : drain'[d].lease \in {drain[d].lease, l}  BY <1>2, <1>4, Zenon
      <4>5. /\ nextLease \notin DOMAIN leases
            /\ \A z \in Slot : slot[z].lease # nextLease
            /\ \A d \in Drainer : drain[d].lease # nextLease
            /\ \A i \in Epoch : client[i].pc = "prefetch" => client[i].lease # nextLease
        BY FreshId, Zenon
      <4>6. l # nextLease  BY <1>0, <4>5, Zenon
      <4> QED  BY <1>5, <4>1, <4>2, <4>3, <4>4, <4>5, <4>6, ZenonT(60)
    <3>2. CASE k # e
      <4>1. client'[k] = client[k]  BY <3>2, Zenon DEF TypeOK
      <4>2. /\ client[k].lease \in (1 .. nextLease - 1) \ DOMAIN leases
            /\ client[k].lease # nextLease
        <5>1. client[k].pc = "prefetch"  BY <2>5, <4>1, Zenon
        <5>2. client[k].lease \in (1 .. nextLease - 1) \ DOMAIN leases
          BY <5>1, ZenonT(30) DEF LeaseBinding
        <5> QED  BY ONLY <5>2, <1>1
      <4>3. client[k].lease \in 1 .. nextLease' - 1  BY <4>2, <1>1
      <4>4. \A i \in Epoch \ {k} : client'[i].pc = "prefetch" =>
              client'[i].lease \in {client[i].lease, nextLease}
              /\ (client'[i].lease = nextLease \/ client[i].pc = "prefetch")
        BY Zenon DEF TypeOK
      <4>5. /\ \A z \in Slot : slot[z].lease # client[k].lease
            /\ \A d \in Drainer : drain[d].lease # client[k].lease
            /\ \A i \in Epoch \ {k} : client[i].pc = "prefetch" =>
                                      client[i].lease # client[k].lease
        BY <2>5, <4>1, Zenon DEF LeaseBinding
      <4>6. \A d \in Drainer : drain'[d].lease \in {drain[d].lease, l}
        BY <1>2, <1>4, Zenon
      <4>7. l # client[k].lease  BY <1>0, <4>2, ZenonT(30)
      <4> QED
        BY <1>5, <4>1, <4>2, <4>3, <4>4, <4>5, <4>6, <4>7, ZenonT(60)
    <3> QED  BY <3>1, <3>2, Zenon
  <2>6. leases' = leases  BY ZenonT(30)
  <2> QED  BY ONLY <2>2, <2>3, <2>4, <2>5, <2>6, ZenonT(30) DEF LeaseBinding
<1>8. NoStrandedSlot'
  <2>1. DrainedBy(e, s)'  BY <1>2, <1>4, Zenon DEF DrainedBy
  <2>2. \A d \in Drainer, z \in Slot : DrainedBy(d, z) => DrainedBy(d, z)'
    BY <1>4, Zenon DEF DrainedBy
  <2> QED
    BY <1>1, <1>5, <2>1, <2>2 DEF NoStrandedSlot, State, DrainQueued, ReadQueued, ReadBy
<1>9. ThreadPhases'
  BY <1>4, Zenon DEF ThreadPhases, TypeOK, Drainer
<1> QED  BY <1>6, <1>7, <1>8, <1>9, Zenon

(* Remembering the version that was evicted keeps its type.                *)
LEMMA EvictedType ==
  ASSUME TypeOK, NEW e, NEW t, NEW v \in Version,
         evicted' = [evicted EXCEPT ![e][t] = v]
  PROVE  evicted' \in [Epoch -> [Tensor -> 0 .. MaxVersion]]
<1>1. v \in 0 .. MaxVersion  BY ConstantsAssumption DEF Version
<1> QED  BY <1>1, Zenon DEF TypeOK

(* The reservations, by either kind of call and with or without a forced   *)
(* drain before it.                                                        *)
LEMMA OffloadGrant ==
  ASSUME IInv, NEW e \in Epoch, NEW t \in Tensor, NEW v \in Version, NEW s \in Slot,
         client[e].rank \in Rank, client[e].pc # "none", NEW sl, NEW ls,
         Allocated(e, sl, ls),
         ReserveOffload(e, t, v, s, sl, ls),
         Others
  PROVE  IInv'
<1> DEFINE entry == [state |-> "RESERVED_D2H", tensor |-> t, version |-> v,
                     lease |-> nextLease, cold |-> 0]
           rec == [slot |-> s, tensor |-> t, version |-> v, rank |-> client[e].rank,
                   epoch |-> e, prefetch |-> FALSE]
           c == At(e, "granted", t, v, nextLease, s, 0)
<1>1. /\ slot' = [sl EXCEPT ![s] = entry] /\ leases' = With(ls, nextLease, rec)
      /\ client' = [client EXCEPT ![e] = c] /\ nextLease' = nextLease + 1 /\ readQ' = readQ
  BY Zenon DEF ReserveOffload
<1>2. nextLease \in Nat \ {0}  BY Zenon DEF IInv, TypeOK, LeaseId
<1>3. entry \in SlotEntry /\ entry.lease = nextLease /\ entry.state = "RESERVED_D2H"
  BY <1>2, ConstantsAssumption DEF SlotEntry, SlotState, Version
<1>4. rec \in Lease /\ rec.slot = s  BY Zenon DEF Lease
<1>5. /\ c \in Client /\ c.pc = "granted" /\ c.rank \in Rank /\ c.tensor \in Tensor
      /\ c.version \in Version /\ c.lease # 0
  BY <1>2, AtFacts DEF IInv
<1> HIDE DEF entry, rec, c
<1>6. NewId(e, nextLease)
  <2>1. nextLease' \in LeaseId /\ nextLease <= nextLease' /\ nextLease < nextLease'
    BY <1>1, <1>2 DEF LeaseId
  <2> QED  BY <2>1, FreshId, Zenon DEF IInv, NewId
<1>7. Granted(e, s, nextLease, entry, rec, c)
  <2>1. readQ' \in Seq(ReadJob) /\ \A z \in Slot : ReadQueued(z) => ReadQueued(z)'
    BY <1>1, Zenon DEF IInv, TypeOK, ReadQueued
  <2> QED  BY <1>1, <1>3, <1>4, <1>5, <2>1, Zenon DEF Granted
<1> QED  BY <1>1, <1>2, <1>3, <1>4, <1>5, <1>6, <1>7, ReserveStep, Zenon

(* The reservation of a readback slot.                                     *)
LEMMA ReadbackGrant ==
  ASSUME IInv, NEW e \in Epoch, NEW t \in Tensor, NEW v \in Version, NEW s \in Slot,
         NEW l \in Nat \ {0}, NEW cold \in Nat,
         client[e].rank \in Rank, client[e].pc # "none", NEW sl, NEW ls,
         Allocated(e, sl, ls),
         ReserveReadback(e, t, v, l, cold, s, sl, ls),
         NewId(e, l), Others
  PROVE  IInv'
<1> DEFINE entry == [state |-> "READBACK_IN_FLIGHT", tensor |-> t, version |-> v,
                     lease |-> l, cold |-> cold]
           rec == [slot |-> s, tensor |-> t, version |-> v, rank |-> client[e].rank,
                   epoch |-> e, prefetch |-> TRUE]
           job == [slot |-> s, cold |-> cold]
           c == At(e, "poll", t, v, 0, 0, 0)
<1>1. /\ slot' = [sl EXCEPT ![s] = entry] /\ leases' = With(ls, l, rec)
      /\ client' = [client EXCEPT ![e] = c] /\ readQ' = Append(readQ, job)
  BY ZenonT(30) DEF ReserveReadback
<1>2. entry \in SlotEntry /\ entry.lease = l /\ entry.state = "READBACK_IN_FLIGHT"
  BY ConstantsAssumption DEF SlotEntry, SlotState, Version
<1>3. rec \in Lease /\ rec.slot = s  BY ZenonT(30) DEF Lease
<1>4. /\ c \in Client /\ c.pc = "poll" /\ c.rank \in Rank /\ c.tensor \in Tensor
      /\ c.version \in Version
  <2>1. /\ TypeOK /\ e \in Epoch /\ t \in Tensor /\ v \in Version /\ 0 \in Slot /\ 0 \in Nat
        /\ client[e].rank \in Rank
    BY ConstantTypes, ZenonT(30) DEF IInv
  <2> QED  BY ONLY <2>1, AtFacts
<1>5. job \in ReadJob /\ job.slot = s  BY ZenonT(30) DEF ReadJob
<1> HIDE DEF entry, rec, job, c
<1>6. /\ readQ' \in Seq(ReadJob) /\ ReadQueued(s)'
      /\ \A z \in Slot : ReadQueued(z) => ReadQueued(z)'
  <2>1. readQ \in Seq(ReadJob)  BY Zenon DEF IInv, TypeOK
  <2>2. /\ readQ' \in Seq(ReadJob)
        /\ \A i \in DOMAIN readQ : i \in DOMAIN readQ' /\ readQ'[i] = readQ[i]
        /\ \E i \in DOMAIN readQ' : readQ'[i] = job
    <3>1. readQ' = Append(readQ, job)  BY <1>1, Zenon
    <3> QED  BY ONLY <1>5, <2>1, <3>1, AppendFacts
  <2> QED  BY <1>5, <2>2, Zenon DEF ReadQueued
<1>7. Granted(e, s, l, entry, rec, c)
  BY <1>1, <1>2, <1>3, <1>4, <1>6, ZenonT(30) DEF Granted
<1> QED  BY <1>1, <1>2, <1>3, <1>4, <1>7, ReserveStep, Zenon

(* RequestOffload preserves the invariant, with room or with a forced      *)
(* drain to make some.                                                     *)
LEMMA RequestOffloadStep ==
  ASSUME IInv, NEW e \in Epoch, NEW t \in Tensor, NEW v \in Version, RequestOffload(e, t, v)
  PROVE  IInv'
<1>1. /\ client[e].rank \in Rank /\ client[e].pc = "idle" /\ drain[e].stage = "idle"
  BY Zenon DEF RequestOffload, CanCall, EpochValid, IInv, ThreadPhases
<1>2. /\ evicted' \in [Epoch -> [Tensor -> 0 .. MaxVersion]]
      /\ UNCHANGED <<session, loc, coldStore, pinned, drainQ, reader, flight, nextEpoch>>
  BY EvictedType, Zenon DEF RequestOffload, IInv
<1>3. Others  BY <1>2, Zenon DEF Others, IInv, TypeOK
<1>4. ASSUME NEW s \in FreeSlots(slot), ReserveOffload(e, t, v, s, slot, leases), drain' = drain
      PROVE  IInv'
  <2>1. s \in Slot  BY Zenon DEF FreeSlots
  <2>2. Allocated(e, slot, leases)  BY <1>1, <1>4, Zenon DEF Allocated
  <2> QED  BY <1>1, <1>3, <1>4, <2>1, <2>2, OffloadGrant, Zenon
<1>5. ASSUME NEW l \in Victims, StartForcedDrain(e, l),
             client' = [client EXCEPT ![e] = At(e, "offload", t, v, 0, 0, 0)],
             UNCHANGED <<leases, readQ, nextLease>>
      PROVE  IInv'
  <2> DEFINE c == At(e, "offload", t, v, 0, 0, 0)
  <2>1. /\ c \in Client /\ c.pc = "offload" /\ c.rank \in Rank /\ c.tensor \in Tensor
        /\ c.version \in Version
    <3>1. TypeOK /\ e \in Epoch /\ t \in Tensor /\ v \in Version /\ 0 \in Slot /\ 0 \in Nat
      BY ConstantTypes, Zenon DEF IInv
    <3> QED  BY ONLY <1>1, <3>1, AtFacts
  <2> HIDE DEF c
  <2>2. client' = [client EXCEPT ![e] = c]  BY <1>5, Zenon DEF c
  <2> QED  BY <1>1, <1>2, <1>5, <2>1, <2>2, ForceStartStep, ZenonT(30)
<1> QED  BY <1>4, <1>5, Zenon DEF RequestOffload

(* RequestPrefetch of a cold tensor preserves it.                          *)
LEMMA PrefetchColdStep ==
  ASSUME IInv, NEW e \in Epoch, NEW t \in Tensor, NEW v \in Version, PrefetchCold(e, t, v)
  PROVE  IInv'
<1>1. /\ client[e].rank \in Rank /\ client[e].pc \in {"idle", "poll"}
      /\ drain[e].stage = "idle"
  BY Zenon DEF PrefetchCold, Restoring, EpochValid, IInv, ThreadPhases
<1>2. /\ nextLease' = nextLease + 1
      /\ UNCHANGED <<evicted, session, loc, coldStore, pinned, drainQ, reader, flight, nextEpoch>>
  BY Zenon DEF PrefetchCold
<1>3. Others  BY <1>2, Zenon DEF Others, IInv, TypeOK
<1>4. loc[t].cold \in Nat /\ nextLease \in Nat \ {0} /\ nextLease' \in LeaseId
  BY <1>2 DEF IInv, TypeOK, Location, LeaseId
<1>5. ASSUME NEW s \in FreeSlots(slot), drain' = drain,
             ReserveReadback(e, t, v, nextLease, loc[t].cold, s, slot, leases)
      PROVE  IInv'
  <2>1. s \in Slot  BY Zenon DEF FreeSlots
  <2>2. Allocated(e, slot, leases)  BY <1>1, <1>5, Zenon DEF Allocated
  <2>3. NewId(e, nextLease)
    <3>1. nextLease <= nextLease' /\ nextLease < nextLease'  BY <1>2, <1>4
    <3> QED  BY <1>4, <3>1, FreshId, Zenon DEF IInv, NewId
  <2> QED  BY <1>1, <1>3, <1>4, <1>5, <2>1, <2>2, <2>3, ReadbackGrant, Zenon
<1>6. ASSUME NEW l \in Victims, StartForcedDrain(e, l),
             client' = [client EXCEPT ![e] = At(e, "prefetch", t, v, nextLease, 0, loc[t].cold)],
             UNCHANGED <<leases, readQ>>
      PROVE  IInv'
  <2> DEFINE c == At(e, "prefetch", t, v, nextLease, 0, loc[t].cold)
  <2>1. /\ c \in Client /\ c.pc = "prefetch" /\ c.rank \in Rank /\ c.tensor \in Tensor
        /\ c.version \in Version /\ c.lease = nextLease
    <3>1. /\ TypeOK /\ e \in Epoch /\ t \in Tensor /\ v \in Version
          /\ nextLease \in Nat /\ 0 \in Slot /\ loc[t].cold \in Nat
      BY <1>4, ConstantTypes, Zenon DEF IInv
    <3> QED  BY ONLY <1>1, <3>1, AtFacts
  <2> HIDE DEF c
  <2>2. client' = [client EXCEPT ![e] = c]  BY <1>6, Zenon DEF c
  <2>3. evicted' \in [Epoch -> [Tensor -> 0 .. MaxVersion]]  BY <1>3, Zenon DEF Others
  <2> QED  BY <1>1, <1>2, <1>6, <2>1, <2>2, <2>3, ForceStartStep, ZenonT(30)
<1>7. ASSUME client' = [client EXCEPT ![e] = Idle(e)], UNCHANGED <<slot, leases, readQ, drain>>
      PROVE  IInv'
  <2> USE DEF IInv
  <2>1. TypeOK'  BY <1>2, <1>4, <1>7, IdleFacts, Zenon DEF TypeOK
  <2>2. \A k \in Epoch : client'[k].pc = "prefetch" => client'[k] = client[k]
    BY <1>7, IdleFacts, Zenon DEF TypeOK
  <2>3. /\ nextLease < nextLease' /\ nextLease' \in Nat /\ nextLease <= nextLease'
    BY <1>2, <1>4
  <2>4. LeaseBinding'
    <3>1. \A x \in Nat : x < nextLease => x < nextLease'  BY <2>3, <1>4
    <3>2. \A x \in 1 .. nextLease - 1 : x \in 1 .. nextLease' - 1
      <4>1. \A x \in 1 .. nextLease - 1 : x \in 1 .. (nextLease + 1) - 1
        BY ONLY <1>4
      <4> QED  BY ONLY <1>2, <4>1
    <3>3. /\ \A z \in Slot : slot[z].lease \in Nat
          /\ \A d \in Drainer : drain[d].lease \in Nat
          /\ DOMAIN leases \subseteq Nat
      BY Zenon DEF TypeOK, SlotEntry, DrainJob, LeaseId
    <3>4. leases' = leases /\ slot' = slot /\ drain' = drain  BY <1>7, Zenon
    <3>5. \A k \in DOMAIN leases' : k < nextLease'
      BY <3>1, <3>3, <3>4, Zenon DEF LeaseBinding
    <3>6. \A z \in Slot :
            /\ slot'[z].lease < nextLease'
            /\ slot'[z].lease \in DOMAIN leases' => leases'[slot'[z].lease].slot = z
      BY <3>1, <3>3, <3>4, Zenon DEF LeaseBinding
    <3>7. \A d \in Drainer :
            /\ drain'[d].lease < nextLease'
            /\ drain'[d].lease \in DOMAIN leases' => leases'[drain'[d].lease].slot = drain'[d].slot
      BY <3>1, <3>3, <3>4, Zenon DEF LeaseBinding
    <3>8. ASSUME NEW k \in Epoch, client'[k].pc = "prefetch"
          PROVE  /\ client'[k].lease \in (1 .. nextLease' - 1) \ DOMAIN leases'
                 /\ \A z \in Slot : slot'[z].lease # client'[k].lease
                 /\ \A d \in Drainer : drain'[d].lease # client'[k].lease
                 /\ \A i \in Epoch \ {k} : client'[i].pc = "prefetch" =>
                                           client'[i].lease # client'[k].lease
      BY <2>2, <3>2, <3>4, <3>8, ZenonT(30) DEF LeaseBinding
    <3> QED  BY ONLY <3>5, <3>6, <3>7, <3>8, ZenonT(30) DEF LeaseBinding
  <2>5. NoStrandedSlot'
    BY <1>2, <1>7, Zenon DEF NoStrandedSlot, State, DrainQueued, DrainedBy, ReadQueued, ReadBy
  <2>6. ThreadPhases'  BY <1>1, <1>2, <1>7, IdleFacts, Zenon DEF ThreadPhases, TypeOK
  <2> QED  BY <2>1, <2>4, <2>5, <2>6, Zenon
<1> QED  BY <1>5, <1>6, <1>7, Zenon DEF PrefetchCold

(* A forced drain that commits, and the reservation that waited for it.    *)
LEMMA ForcedDrainDoneStep ==
  ASSUME IInv, NEW e \in Epoch, ForcedDrainDone(e)  PROVE IInv'
<1> DEFINE j == drain[e]
           sl == [slot EXCEPT ![j.slot] = FreeSlot]
           ls == Without(leases, {j.lease})
           c == client[e]
<1>1. /\ j \in DrainJob /\ c \in Client
  <2>1. e \in Drainer  BY Zenon DEF Drainer
  <2> QED  BY <2>1, Zenon DEF IInv, TypeOK
<1>2. /\ j.stage = "commit" /\ ToCold(j) /\ drain' = [drain EXCEPT ![e] = NoDrain]
      /\ UNCHANGED <<evicted, session, pinned, drainQ, reader, flight, nextEpoch>>
  BY Zenon DEF ForcedDrainDone
<1>3. /\ c.pc \in {"offload", "prefetch"} /\ c.rank \in Rank
      /\ c.tensor \in Tensor /\ c.version \in Version
  BY <1>2, ZenonT(30) DEF IInv, ThreadPhases
<1>4. Others  BY <1>1, <1>2, ToColdType, Zenon DEF Others, IInv, TypeOK
<1>5. Allocated(e, sl, ls)  BY <1>2, Zenon DEF Allocated
<1> HIDE DEF sl, ls
<1>6. ASSUME NEW s \in FreeSlots(sl), ReserveOffload(e, c.tensor, c.version, s, sl, ls)
      PROVE  IInv'
  <2>1. s \in Slot  BY Zenon DEF FreeSlots
  <2> QED  BY <1>3, <1>4, <1>5, <1>6, <2>1, OffloadGrant, Zenon
<1>7. ASSUME NEW s \in FreeSlots(sl), c.pc = "prefetch",
             ReserveReadback(e, c.tensor, c.version, c.lease, c.cold, s, sl, ls),
             nextLease' = nextLease
      PROVE  IInv'
  <2>1. s \in Slot  BY Zenon DEF FreeSlots
  <2>2. c.lease \in Nat \ {0} /\ c.lease < nextLease /\ nextLease \in LeaseId
        /\ nextLease <= nextLease
    <3>1. nextLease \in LeaseId  BY Zenon DEF IInv, TypeOK
    <3>2. c.lease \in 1 .. nextLease - 1  BY <1>7, Zenon DEF IInv, LeaseBinding
    <3>3. \A n \in LeaseId : \A k \in 1 .. n - 1 : k \in Nat \ {0} /\ k < n /\ n <= n
      BY DEF LeaseId
    <3> QED  BY <3>1, <3>2, <3>3, Zenon
  <2>3. NewId(e, c.lease)  BY <1>7, <2>2, Zenon DEF IInv, LeaseBinding, NewId
  <2>4. c.cold \in Nat  BY <1>1, Zenon DEF Client
  <2> QED  BY <1>3, <1>4, <1>5, <1>7, <2>1, <2>2, <2>3, <2>4, ReadbackGrant, Zenon
<1> QED  BY <1>6, <1>7, Zenon DEF ForcedDrainDone, sl, ls
----------------------------------------------------------------------------
(* Every step of the daemon and the agents preserves the invariant.        *)
LEMMA NextIInv == IInv /\ [Next]_vars => IInv'
<1> SUFFICES ASSUME IInv, [Next]_vars PROVE IInv'  BY Zenon
<1>1. CASE AgentNext
  BY <1>1, RegisterStep, RequestOffloadStep, PendingStep, PrefetchPinnedStep, PrefetchColdStep,
     GivenUpStep, CheckSlotStep, SubmitStep, ReleaseStep, LandStep, D2HCompleteStep,
     H2DCompleteStep, Zenon DEF AgentNext
<1>2. CASE DaemonNext
  BY <1>2, HeartbeatTimeoutStep, DrainCopyStep, ForcedDrainDoneStep, ForcedDrainFailedStep,
     DrainStartStep, DrainWorkerEndStep, ReadStartStep, ReadCopyStep, ReadEndStep, Zenon DEF DaemonNext
<1>3. CASE UNCHANGED vars
  <2> USE <1>3 DEF vars, IInv
  <2>1. TypeOK'  BY Zenon DEF TypeOK
  <2>2. LeaseBinding'  BY Zenon DEF LeaseBinding
  <2>3. NoStrandedSlot'
    BY ZenonT(30) DEF NoStrandedSlot, State, DrainQueued, DrainedBy, ReadQueued, ReadBy
  <2>4. ThreadPhases'  BY Zenon DEF ThreadPhases
  <2> QED  BY <2>1, <2>2, <2>3, <2>4, Zenon
<1> QED  BY <1>1, <1>2, <1>3, Zenon DEF Next

(* The invariant holds in every reachable state.                           *)
LEMMA SpecIInv == Spec => []IInv
  BY InitIInv, NextIInv, PTL DEF Spec

(* The daemon's tables keep their types (daemon.h), for any number of      *)
(* ranks, slots, tensors and workers and with any set of faults.           *)
THEOREM TypeCorrect == Spec => []TypeOK
<1>1. IInv => TypeOK  BY Zenon DEF IInv
<1> QED  BY <1>1, SpecIInv, PTL

(* A slot, a drain and a prefetch that waits for room name a lease of that *)
(* slot or one that is gone, and no lease id is given out twice (leases_,  *)
(* next_lease_id_).                                                        *)
THEOREM LeasesBound == Spec => []LeaseBinding
<1>1. IInv => LeaseBinding  BY Zenon DEF IInv
<1> QED  BY <1>1, SpecIInv, PTL

(* A slot that waits for a drain or a readback is always in the hands of a *)
(* queue or a thread that will finish it, also when leases are recovered   *)
(* in between (drain_q_, readback_q_, force_drain_one).                    *)
THEOREM SlotsNotStranded == Spec => []NoStrandedSlot
<1>1. IInv => NoStrandedSlot  BY Zenon DEF IInv
<1> QED  BY <1>1, SpecIInv, PTL

(* update_location_locked never lowers a version.                          *)
LEMMA UpdateMonotone ==
  ASSUME NEW lc \in [Tensor -> Location], NEW t, NEW v \in 0 .. MaxVersion, NEW kind,
         NEW s, NEW c, NEW x \in Tensor
  PROVE  UpdateLocation(lc, t, v, kind, s, c)[x].version >= lc[x].version
<1>1. lc[x].version \in 0 .. MaxVersion  BY Zenon DEF Location
<1> QED  BY <1>1 DEF UpdateLocation

(* No step lowers the version of a location.                               *)
LEMMA LocationStep ==
  ASSUME TypeOK, Next, NEW x \in Tensor
  PROVE  loc'[x].version >= loc[x].version
<1>1. loc \in [Tensor -> Location] /\ loc[x].version \in Nat
  BY ConstantsAssumption DEF TypeOK, Location
<1>2. CASE loc' = loc  BY <1>1, <1>2
<1>3. ASSUME NEW f \in flight, D2HComplete(f)  PROVE loc'[x].version >= loc[x].version
  <2>1. f.version \in 0 .. MaxVersion  BY ConstantsAssumption DEF TypeOK, Flight, Version
  <2>2. \/ loc' = loc
        \/ loc' = UpdateLocation(loc, f.tensor, f.version, "PINNED", f.slot, 0)
    BY <1>3, Zenon DEF D2HComplete
  <2> QED  BY <1>1, <1>2, <2>1, <2>2, UpdateMonotone, Zenon
<1>4. ASSUME NEW f \in flight, H2DComplete(f)  PROVE loc'[x].version >= loc[x].version
  <2> DEFINE cold == IF loc[f.tensor].cold # 0 THEN loc[f.tensor].cold ELSE slot[f.slot].cold
  <2>1. f.version \in 0 .. MaxVersion  BY ConstantsAssumption DEF TypeOK, Flight, Version
  <2>2. \/ loc' = loc
        \/ loc' = [loc EXCEPT ![f.tensor].kind = "COLD", ![f.tensor].slot = 0]
        \/ loc' = UpdateLocation(loc, f.tensor, f.version, "PINNED", f.slot, cold)
    BY <1>4, Zenon DEF H2DComplete
  <2> HIDE DEF cold
  <2>3. CASE loc' = [loc EXCEPT ![f.tensor].kind = "COLD", ![f.tensor].slot = 0]
    <3>1. loc'[x].version = loc[x].version  BY <2>3, <1>1, Zenon DEF Location
    <3> QED  BY <1>1, <3>1
  <2> QED  BY <1>1, <1>2, <2>1, <2>2, <2>3, UpdateMonotone, Zenon
<1>5. ASSUME NEW e \in Epoch, NEW l \in DOMAIN leases, ReleaseLease(e, l)
      PROVE  loc'[x].version >= loc[x].version
  <2>1. loc' = loc \/ loc' = [loc EXCEPT ![leases[l].tensor].kind = "NONE"]
    BY <1>5, Zenon DEF ReleaseLease
  <2>2. CASE loc' = [loc EXCEPT ![leases[l].tensor].kind = "NONE"]
    <3>1. loc'[x].version = loc[x].version  BY <2>2, <1>1, Zenon DEF Location
    <3> QED  BY <1>1, <3>1
  <2> QED  BY <1>2, <2>1, <2>2, Zenon
<1>6. ASSUME NEW d \in Drainer, ToCold(drain[d])  PROVE loc'[x].version >= loc[x].version
  <2>1. drain[d].version \in 0 .. MaxVersion  BY Zenon DEF TypeOK, DrainJob
  <2> QED  BY <1>1, <1>6, <2>1, UpdateMonotone, Zenon DEF ToCold
<1>7. ASSUME NEW w \in ReadbackWorker, ReadDone(w)  PROVE loc'[x].version >= loc[x].version
  <2> DEFINE s == reader[w].slot
  <2>1. slot[s].version \in 0 .. MaxVersion
    <3>1. s \in Slot  BY Zenon DEF TypeOK, Readback
    <3> QED  BY <3>1, Zenon DEF TypeOK, SlotEntry
  <2>2. \/ loc' = loc
        \/ loc' = UpdateLocation(loc, slot[s].tensor, slot[s].version, "PINNED", s, reader[w].cold)
    BY <1>7, ZenonT(30) DEF ReadDone
  <2> QED  BY <1>1, <1>2, <2>1, <2>2, UpdateMonotone, Zenon
<1>8. CASE AgentNext
  <2>1. ASSUME NEW e \in Epoch, NEW t \in Tensor, NEW v \in Version,
               \/ RequestOffload(e, t, v) \/ PrefetchPending(e, t, v)
               \/ PrefetchPinned(e, t, v) \/ PrefetchCold(e, t, v)
        PROVE  loc' = loc
    BY <2>1, Zenon DEF RequestOffload, PrefetchPending, PrefetchPinned, PrefetchCold, tables
  <2>2. ASSUME NEW e \in Epoch,
               \/ PrefetchGivenUp(e) \/ CheckSlot(e)
               \/ MarkD2HSubmitted(e) \/ MarkH2DSubmitted(e)
        PROVE  loc' = loc
    BY <2>2, Zenon DEF PrefetchGivenUp, CheckSlot, MarkD2HSubmitted, MarkH2DSubmitted, tables
  <2>3. ASSUME NEW f \in flight, Land(f)  PROVE loc' = loc  BY <2>3, Zenon DEF Land, tables
  <2>4. ASSUME NEW r \in Rank, Register(r)  PROVE loc' = loc  BY <2>4, Zenon DEF Register
  <2> QED  BY <1>8, <2>1, <2>2, <2>3, <2>4, <1>2, <1>3, <1>4, <1>5, Zenon DEF AgentNext
<1>9. CASE DaemonNext
  <2>1. \/ loc' = loc
        \/ \E d \in Drainer : ToCold(drain[d])
        \/ \E w \in ReadbackWorker : ReadDone(w)
    BY <1>9, Zenon
    DEF DaemonNext, HeartbeatTimeout, DrainCopy, ForcedDrainDone, ForcedDrainFailed, DrainStart,
        DrainDone, DrainFailed, ReadStart, ReadMissing, ReadCopy, ReadFailed, tables, Drainer
  <2> QED  BY <2>1, <1>2, <1>6, <1>7, Zenon
<1> QED  BY <1>8, <1>9, Zenon DEF Next

(* The version of a tensor's location never goes back, in whatever order   *)
(* completions, drains and readbacks commit (update_location_locked).      *)
THEOREM LocationsMonotone == Spec => LocationMonotone
<1>1. TypeOK /\ [Next]_vars
        => [\A t \in Tensor : loc'[t].version >= loc[t].version]_vars
  BY LocationStep, Zenon
<1> QED  BY <1>1, TypeCorrect, PTL DEF Spec, LocationMonotone
============================================================================
