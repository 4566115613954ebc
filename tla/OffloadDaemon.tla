--------------------------- MODULE OffloadDaemon ---------------------------
(***************************************************************************)
(* The tables of offloadd (src/src/daemon/daemon.cpp) and the rank agents  *)
(* that use them (src/src/agent/agent.cpp): sessions and epochs, pinned    *)
(* slots, leases, tensor locations, the cold store, the drain and the      *)
(* readback workers, the allocation loops that force a drain with mu_      *)
(* released, and the recovery of a dead rank's leases.                     *)
(*                                                                         *)
(* One step is one critical section of mu_, or one copy made outside it.   *)
(* What is abstracted:                                                     *)
(*  - a tensor takes one slot (contiguous runs: module SlotAllocator), and *)
(*    the allocator may return any FREE slot;                              *)
(*  - bytes are named by the tensor and version they encode;               *)
(*  - PAGEABLE and NVME are one kind, COLD;                                *)
(*  - last_touch_ns is a wall clock, so the oldest run force_drain_one     *)
(*    looks for may be any of the eligible ones;                           *)
(*  - the completion ring, MarkXComplete and BatchComplete end in the same *)
(*    apply_*_complete and are one action each (module CompletionRing has  *)
(*    the ring itself);                                                    *)
(*  - COLD_VALID only exists inside one critical section of a drain        *)
(*    commit, which ends in FREE;                                          *)
(*  - a worker's pop from its queue and its first look at the slot are one *)
(*    step: in between it holds nothing but the job;                       *)
(*  - a call the daemon rejects without changing anything is no step,      *)
(*    unless the agent goes on as if it had been accepted.                 *)
(***************************************************************************)
EXTENDS Integers, Sequences, FiniteSets

CONSTANTS
  Rank,            \* rank ids
  Tensor,          \* rank-assigned tensor ids
  Owner,           \* Owner[t]: the rank whose process offloads and restores t
  PidOf,           \* PidOf[r]: the process that registers as rank r
  NumSlots,        \* slots of the pinned arena
  DrainWorker, ReadbackWorker,
  DrainOnD2H,      \* cfg.drain_on_d2h_complete
  Faults,          \* what may go wrong, a subset of FaultKinds
  MaxVersion, MaxEpoch, MaxLease,   \* bounds on what the ranks do
  None

Slot    == 0 .. NumSlots - 1
Epoch   == 1 .. MaxEpoch
Version == 1 .. MaxVersion
LeaseId == Nat \ {0}

(* "restart": a rank registers again.  "timeout": a session misses its     *)
(* heartbeats, or a restore() its patience.  "zombie": the process of a    *)
(* session that was invalidated runs on (without it, ranks are fail-stop). *)
(* "io": a cold write or read fails.  "discard": the application discards  *)
(* a tensor whose eviction is still copying.                               *)
FaultKinds == {"restart", "timeout", "zombie", "io", "discard"}

ASSUME ConstantsAssumption ==
  /\ NumSlots \in Nat \ {0}
  /\ MaxVersion \in Nat /\ MaxEpoch \in Nat /\ MaxLease \in Nat
  /\ Owner \in [Tensor -> Rank]
  /\ DrainOnD2H \in BOOLEAN
  /\ Faults \subseteq FaultKinds
  /\ None \notin Tensor \cup Rank
  /\ DrainWorker \cap Epoch = {}

VARIABLES
  session,     \* sessions_: rank -> newest epoch and whether it is alive
  slot,        \* slots_: the slot table in shared control memory
  leases,      \* leases_: lease id -> lease, for the live ids
  loc,         \* locations_: tensor -> latest location (version 0: no entry)
  coldStore,   \* cold_store_: the bytes of cold_ref 1, 2, ... in turn
  pinned,      \* the bytes in the pinned arena
  drainQ, readQ,         \* drain_queue_, readback_queue_
  drain,       \* drains under way: of the workers, and of handler threads
  reader,      \* readbacks under way
  client,      \* the calling thread of the agent that registered as an epoch
  flight,      \* copies the agents have launched and not reported
  evicted,     \* the version each process last evicted a tensor at
  nextLease, nextEpoch

tables == <<slot, leases, loc, coldStore, drainQ, readQ>>
vars == <<session, slot, leases, loc, coldStore, pinned, drainQ, readQ,
          drain, reader, client, flight, evicted, nextLease, nextEpoch>>

Drainer == DrainWorker \cup Epoch

Bytes == [tensor : Tensor \cup {None}, version : 0 .. MaxVersion]
Blank == [tensor |-> None, version |-> 0]
Copy(t, v) == [tensor |-> t, version |-> v]

SlotState == {"FREE", "RESERVED_D2H", "D2H_IN_FLIGHT", "PINNED_VALID",
              "DRAIN_IN_FLIGHT", "READBACK_IN_FLIGHT", "H2D_IN_FLIGHT", "ERROR"}

SlotEntry == [state : SlotState, tensor : Tensor \cup {None},
              version : 0 .. MaxVersion, lease : Nat, cold : Nat]
FreeSlot == [state |-> "FREE", tensor |-> None, version |-> 0,
             lease |-> 0, cold |-> 0]

Lease == [slot : Slot, tensor : Tensor, version : Version, rank : Rank,
          epoch : Epoch, prefetch : BOOLEAN]

Location == [kind : {"NONE", "PINNED", "COLD"}, version : 0 .. MaxVersion,
             slot : Slot, cold : Nat]

(* A drain under way, with what was read from the tables before mu_ was    *)
(* released; data is what the copy outside mu_ found in the slot.          *)
DrainJob == [stage : {"idle", "copy", "commit"}, slot : Slot,
             lease : Nat, tensor : Tensor \cup {None},
             version : 0 .. MaxVersion, data : Bytes]
NoDrain == [stage |-> "idle", slot |-> 0, lease |-> 0, tensor |-> None,
            version |-> 0, data |-> Blank]

ReadJob == [slot : Slot, cold : Nat]
Readback == [stage : {"idle", "copy", "missing", "commit"}, slot : Slot, cold : Nat]
NoReadback == [stage |-> "idle", slot |-> 0, cold |-> 0]

(* pc of an agent's calling thread: "offload" and "prefetch" wait for a    *)
(* handler that forces a drain; "granted" has a slot to evict into; "poll" *)
(* re-issues RequestPrefetch; "ready" and "checked" lead up to an H2D.     *)
Client == [pc : {"none", "idle", "offload", "prefetch", "granted", "poll",
                 "ready", "checked"},
           up : BOOLEAN, rank : Rank \cup {None}, tensor : Tensor \cup {None},
           version : 0 .. MaxVersion, lease : Nat, slot : Slot,
           cold : Nat]
Absent == [pc |-> "none", up |-> FALSE, rank |-> None, tensor |-> None,
           version |-> 0, lease |-> 0, slot |-> 0, cold |-> 0]

Flight == [client : Epoch, dir : {"D2H", "H2D"}, lease : LeaseId, slot : Slot,
           tensor : Tensor, version : Version, landed : BOOLEAN, data : Bytes]
----------------------------------------------------------------------------
Init ==
  /\ session = [r \in Rank |-> [epoch |-> 0, alive |-> FALSE]]
  /\ slot = [s \in Slot |-> FreeSlot]
  /\ leases = [l \in {} |-> None]
  /\ loc = [t \in Tensor |-> [kind |-> "NONE", version |-> 0, slot |-> 0, cold |-> 0]]
  /\ coldStore = <<>>
  /\ pinned = [s \in Slot |-> Blank]
  /\ drainQ = <<>> /\ readQ = <<>>
  /\ drain = [d \in Drainer |-> NoDrain]
  /\ reader = [w \in ReadbackWorker |-> NoReadback]
  /\ client = [e \in Epoch |-> Absent]
  /\ flight = {}
  /\ evicted = [e \in Epoch |-> [t \in Tensor |-> 0]]
  /\ nextLease = 1 /\ nextEpoch = 1
----------------------------------------------------------------------------
State(s) == slot[s].state
SetState(s, x) == [slot EXCEPT ![s].state = x]
(* Mutant: a slot that is being drained is handed out as well.             *)
DrainingSlotsToo(sl) == {s \in Slot : sl[s].state \in {"FREE", "DRAIN_IN_FLIGHT"}}
FreeSlots(sl) == {s \in Slot : sl[s].state = "FREE"}

EpochValid(e) ==
  LET r == client[e].rank
  IN  r \in Rank /\ session[r].alive /\ session[r].epoch = e

(* find_lease and the owner and slot checks every Mark* call makes.        *)
Owns(e, l, s) ==
  /\ EpochValid(e)
  /\ l \in DOMAIN leases
  /\ leases[l].rank = client[e].rank
  /\ leases[l].slot = s

(* Mutants: the version is not compared; it is bumped.                     *)
UpdateLocationAlways(lc, t, v, kind, s, c) ==
  IF t \notin Tensor THEN lc
  ELSE [lc EXCEPT ![t] = [kind |-> kind, version |-> v, slot |-> s, cold |-> c]]
UpdateLocationBumped(lc, t, v, kind, s, c) ==
  IF t \notin Tensor \/ v < lc[t].version THEN lc
  ELSE [lc EXCEPT ![t] = [kind |-> kind, version |-> v + 1, slot |-> s, cold |-> c]]
(* update_location_if_latest: only an older version is turned away.        *)
UpdateLocation(lc, t, v, kind, s, c) ==
  IF t \notin Tensor \/ v < lc[t].version THEN lc
  ELSE [lc EXCEPT ![t] = [kind |-> kind, version |-> v, slot |-> s, cold |-> c]]

Without(ls, gone) == [l \in DOMAIN ls \ gone |-> ls[l]]
With(ls, l, rec) == [k \in DOMAIN ls \cup {l} |-> IF k = l THEN rec ELSE ls[k]]

(* The calling thread of e at pc, with what it remembers of its call.      *)
At(e, pc, t, v, l, s, c) ==
  [pc |-> pc, up |-> client[e].up, rank |-> client[e].rank, tensor |-> t,
   version |-> v, lease |-> l, slot |-> s, cold |-> c]
Idle(e) == At(e, "idle", None, 0, 0, 0, 0)

(* Lease ids are spent by RequestPrefetch at once, by RequestOffload after *)
(* its allocation loop.                                                    *)
LeaseIdLeft == nextLease + Cardinality({e \in Epoch : client[e].pc = "offload"}) <= MaxLease

(* The process of e can start a call of the agent API.                     *)
CanCall(e) == client[e].up /\ client[e].pc = "idle"
----------------------------------------------------------------------------
(* Sessions.                                                               *)

(* Mutant: recovery leaves a slot with a D2H under way alone.              *)
ReclaimedButD2H(dead) ==
  {s \in Slot : /\ State(s) \notin {"PINNED_VALID", "DRAIN_IN_FLIGHT", "D2H_IN_FLIGHT"}
                /\ \E l \in dead : leases[l].slot = s}

(* What a session's end does to its leases: data that is safe or being     *)
(* drained keeps its slot, everything else is reclaimed; the leases go.    *)
LeasesOf(R) == {l \in DOMAIN leases : \E r \in R :
                  leases[l].rank = r /\ leases[l].epoch = session[r].epoch}
Reclaimed(dead) ==
  {s \in Slot : /\ State(s) \notin {"PINNED_VALID", "DRAIN_IN_FLIGHT"}
                /\ \E l \in dead : leases[l].slot = s}
Recover(R) ==
  LET dead == LeasesOf(R)
  IN  /\ slot' = [s \in Slot |-> IF s \in Reclaimed(dead) THEN FreeSlot ELSE slot[s]]
      /\ leases' = Without(leases, dead)

(* Without zombies the processes of these epochs are gone, and with them   *)
(* their CUDA contexts; a handler thread of theirs in the daemon is not.   *)
Gone(E) == IF "zombie" \in Faults THEN {} ELSE E
Stop(cl, E) == [e \in Epoch |-> IF e \in Gone(E) THEN [cl[e] EXCEPT !.up = FALSE] ELSE cl[e]]
Abort(E) == flight' = {f \in flight : f.client \notin Gone(E)}

Register(r) ==
  LET ended == {q \in Rank : session[q].alive /\ (q = r \/ PidOf[q] = PidOf[r])}
      E == {session[q].epoch : q \in ended}
  IN  /\ nextEpoch <= MaxEpoch
      /\ session[r].epoch = 0 \/ "restart" \in Faults
      /\ Recover(ended)
      /\ session' = [q \in Rank |->
            IF q = r THEN [epoch |-> nextEpoch, alive |-> TRUE]
            ELSE [session[q] EXCEPT !.alive = @ /\ q \notin ended]]
      /\ client' = [Stop(client, E) EXCEPT ![nextEpoch] =
            [Absent EXCEPT !.pc = "idle", !.up = TRUE, !.rank = r]]
      /\ Abort(E)
      /\ nextEpoch' = nextEpoch + 1
      /\ UNCHANGED <<evicted, loc, coldStore, pinned, drainQ, readQ, drain, reader, nextLease>>

HeartbeatTimeout(r) ==
  /\ "timeout" \in Faults
  /\ session[r].alive
  /\ Recover({r})
  /\ session' = [session EXCEPT ![r].alive = FALSE]
  /\ client' = Stop(client, {session[r].epoch})
  /\ Abort({session[r].epoch})
  /\ UNCHANGED <<evicted, loc, coldStore, pinned, drainQ, readQ, drain, reader,
                 nextLease, nextEpoch>>
----------------------------------------------------------------------------
(* Allocation.  Both RequestOffload and a cold RequestPrefetch take a FREE *)
(* slot, or else drain a victim first with mu_ released in the middle.     *)

(* force_drain_one, up to lk.unlock().                                     *)
Victims == {l \in DOMAIN leases : /\ ~leases[l].prefetch
                                  /\ State(leases[l].slot) = "PINNED_VALID"}
StartForcedDrain(e, l) ==
  /\ slot' = SetState(leases[l].slot, "DRAIN_IN_FLIGHT")
  /\ drain' = [drain EXCEPT ![e] =
        [stage |-> "copy", slot |-> leases[l].slot, lease |-> l,
         tensor |-> leases[l].tensor, version |-> leases[l].version, data |-> Blank]]

(* Mutant: next_lease_id_ is read and not advanced.                        *)
ReserveOffloadSameId(e, t, v, s, sl, ls) ==
  /\ slot' = [sl EXCEPT ![s] = [state |-> "RESERVED_D2H", tensor |-> t, version |-> v,
                                lease |-> nextLease, cold |-> 0]]
  /\ leases' = With(ls, nextLease,
        [slot |-> s, tensor |-> t, version |-> v, rank |-> client[e].rank,
         epoch |-> e, prefetch |-> FALSE])
  /\ client' = [client EXCEPT ![e] = At(e, "granted", t, v, nextLease, s, 0)]
  /\ UNCHANGED <<nextLease, readQ>>

(* The reservation at the end of handle_request_offload, in slot s of the  *)
(* tables sl and ls as the allocation loop left them.                      *)
ReserveOffload(e, t, v, s, sl, ls) ==
  /\ slot' = [sl EXCEPT ![s] = [state |-> "RESERVED_D2H", tensor |-> t, version |-> v,
                                lease |-> nextLease, cold |-> 0]]
  /\ leases' = With(ls, nextLease,
        [slot |-> s, tensor |-> t, version |-> v, rank |-> client[e].rank,
         epoch |-> e, prefetch |-> FALSE])
  /\ client' = [client EXCEPT ![e] = At(e, "granted", t, v, nextLease, s, 0)]
  /\ nextLease' = nextLease + 1
  /\ UNCHANGED readQ

(* The end of handle_request_prefetch: lease l was numbered, and c read    *)
(* from the location, before the allocation loop.                          *)
ReserveReadback(e, t, v, l, c, s, sl, ls) ==
  /\ slot' = [sl EXCEPT ![s] = [state |-> "READBACK_IN_FLIGHT", tensor |-> t,
                                version |-> v, lease |-> l, cold |-> c]]
  /\ leases' = With(ls, l,
        [slot |-> s, tensor |-> t, version |-> v, rank |-> client[e].rank,
         epoch |-> e, prefetch |-> TRUE])
  /\ readQ' = Append(readQ, [slot |-> s, cold |-> c])
  /\ client' = [client EXCEPT ![e] = At(e, "poll", t, v, 0, 0, 0)]

(* evict() of a tensor, each time at a bumped version.                     *)
RequestOffload(e, t, v) ==
  /\ CanCall(e) /\ EpochValid(e)
  /\ Owner[t] = client[e].rank
  /\ v > evicted[e][t]
  /\ LeaseIdLeft
  /\ evicted' = [evicted EXCEPT ![e][t] = v]
  /\ \/ \E s \in FreeSlots(slot) : ReserveOffload(e, t, v, s, slot, leases)
        /\ UNCHANGED drain
     \/ /\ FreeSlots(slot) = {}
        /\ \E l \in Victims : StartForcedDrain(e, l)
        /\ client' = [client EXCEPT ![e] = At(e, "offload", t, v, 0, 0, 0)]
        /\ UNCHANGED <<leases, readQ, nextLease>>
  /\ UNCHANGED <<session, loc, coldStore, pinned, drainQ, reader, flight, nextEpoch>>

(* The lease RequestPrefetch finds to be idempotent, whoever owns it.      *)
Pending(t, v) == {l \in DOMAIN leases :
  /\ leases[l].prefetch /\ leases[l].tensor = t /\ leases[l].version = v
  /\ State(leases[l].slot) \in {"READBACK_IN_FLIGHT", "PINNED_VALID"}}

Resident(t, v) == loc[t].version = v /\ loc[t].kind # "NONE"

(* An agent in restore(): the first call, or a poll for (t, v).            *)
Restoring(e, t, v) ==
  /\ client[e].up
  /\ \/ client[e].pc = "idle" /\ Owner[t] = client[e].rank
     \/ client[e].pc = "poll" /\ client[e].tensor = t /\ client[e].version = v

PrefetchPending(e, t, v) ==
  /\ Restoring(e, t, v) /\ EpochValid(e) /\ Resident(t, v)
  /\ \E l \in Pending(t, v) :
       client' = [client EXCEPT ![e] =
         IF State(leases[l].slot) = "PINNED_VALID"
         THEN At(e, "ready", t, v, l, leases[l].slot, 0)
         ELSE At(e, "poll", t, v, 0, 0, 0)]
  /\ UNCHANGED <<evicted, session, tables, pinned, drain, reader, flight, nextLease, nextEpoch>>

PrefetchPinned(e, t, v) ==
  /\ Restoring(e, t, v) /\ EpochValid(e) /\ Resident(t, v)
  /\ Pending(t, v) = {}
  /\ loc[t].kind = "PINNED" /\ State(loc[t].slot) = "PINNED_VALID"
  /\ LeaseIdLeft
  /\ leases' = With(leases, nextLease,
        [slot |-> loc[t].slot, tensor |-> t, version |-> v,
         rank |-> client[e].rank, epoch |-> e, prefetch |-> TRUE])
  /\ client' = [client EXCEPT ![e] = At(e, "ready", t, v, nextLease, loc[t].slot, 0)]
  /\ nextLease' = nextLease + 1
  /\ UNCHANGED <<evicted, session, slot, loc, coldStore, pinned, drainQ, readQ, drain,
                 reader, flight, nextEpoch>>

PrefetchCold(e, t, v) ==
  /\ Restoring(e, t, v) /\ EpochValid(e) /\ Resident(t, v)
  /\ Pending(t, v) = {}
  /\ ~(loc[t].kind = "PINNED" /\ State(loc[t].slot) = "PINNED_VALID")
  /\ LeaseIdLeft
  /\ nextLease' = nextLease + 1
  /\ \/ /\ \E s \in FreeSlots(slot) :
             ReserveReadback(e, t, v, nextLease, loc[t].cold, s, slot, leases)
        /\ UNCHANGED drain
     \/ /\ FreeSlots(slot) = {}
        /\ \E l \in Victims : StartForcedDrain(e, l)
        /\ client' = [client EXCEPT ![e] =
              At(e, "prefetch", t, v, nextLease, 0, loc[t].cold)]
        /\ UNCHANGED <<leases, readQ>>
     \/ /\ FreeSlots(slot) = {} /\ Victims = {}
        /\ client' = [client EXCEPT ![e] = Idle(e)]
        /\ UNCHANGED <<slot, leases, readQ, drain>>
  /\ UNCHANGED <<evicted, session, loc, coldStore, pinned, drainQ, reader, flight, nextEpoch>>

(* restore() gives up when a poll is refused, or when its guard runs out.  *)
PrefetchGivenUp(e) ==
  /\ client[e].up /\ client[e].pc = "poll"
  /\ \/ ~(EpochValid(e) /\ Resident(client[e].tensor, client[e].version))
     \/ "timeout" \in Faults
  /\ client' = [client EXCEPT ![e] = Idle(e)]
  /\ UNCHANGED <<evicted, session, tables, pinned, drain, reader, flight, nextLease, nextEpoch>>
----------------------------------------------------------------------------
(* Drains.  A commit puts the bytes in the cold store, moves the location  *)
(* there if the version is still the latest, and frees the slot.           *)

DrainCopy(d) ==
  /\ drain[d].stage = "copy"
  /\ drain' = [drain EXCEPT ![d].stage = "commit", ![d].data = pinned[drain[d].slot]]
  /\ UNCHANGED <<evicted, session, tables, pinned, reader, client, flight, nextLease, nextEpoch>>

(* Mutant: the location stays with the slot that is about to be freed.     *)
ToColdUnlisted(j) ==
  /\ coldStore' = Append(coldStore, j.data)
  /\ UNCHANGED loc
ToCold(j) ==
  /\ coldStore' = Append(coldStore, j.data)
  /\ loc' = UpdateLocation(loc, j.tensor, j.version, "COLD", j.slot, Len(coldStore) + 1)

(* force_drain_one from lk.lock() on: it does not look at the slot again.  *)
(* Back in the allocation loop, still under mu_, a slot is FREE.           *)
ForcedDrainDone(e) ==
  LET j == drain[e]
      sl == [slot EXCEPT ![j.slot] = FreeSlot]
      ls == Without(leases, {j.lease})
      c == client[e]
  IN  /\ j.stage = "commit"
      /\ ToCold(j)
      /\ \E s \in FreeSlots(sl) :
           \/ c.pc = "offload" /\ ReserveOffload(e, c.tensor, c.version, s, sl, ls)
           \/ /\ c.pc = "prefetch"
              /\ ReserveReadback(e, c.tensor, c.version, c.lease, c.cold, s, sl, ls)
              /\ UNCHANGED nextLease
      /\ drain' = [drain EXCEPT ![e] = NoDrain]
      /\ UNCHANGED <<evicted, session, pinned, drainQ, reader, flight, nextEpoch>>

ForcedDrainFailed(e) ==
  /\ "io" \in Faults
  /\ drain[e].stage = "commit"
  /\ slot' = SetState(drain[e].slot, "PINNED_VALID")
  /\ client' = [client EXCEPT ![e] = Idle(e)]
  /\ drain' = [drain EXCEPT ![e] = NoDrain]
  /\ UNCHANGED <<evicted, session, leases, loc, coldStore, pinned, drainQ, readQ, reader,
                 flight, nextLease, nextEpoch>>

(* A drain worker takes a job; one whose slot moved on is dropped.         *)
DrainStart(w) ==
  LET s == Head(drainQ)
  IN  /\ drain[w].stage = "idle" /\ drainQ # <<>>
      /\ drainQ' = Tail(drainQ)
      /\ drain' = IF State(s) # "DRAIN_IN_FLIGHT" THEN drain
                  ELSE [drain EXCEPT ![w] =
                          [stage |-> "copy", slot |-> s, lease |-> slot[s].lease,
                           tensor |-> slot[s].tensor, version |-> slot[s].version,
                           data |-> Blank]]
      /\ UNCHANGED <<evicted, session, slot, leases, loc, coldStore, pinned, readQ, reader,
                     client, flight, nextLease, nextEpoch>>

(* Mutant: the lease outlives the drain of its slot.                       *)
DrainDoneLeaseKept(w) ==
  LET j == drain[w]
  IN  /\ j.stage = "commit"
      /\ IF State(j.slot) = "DRAIN_IN_FLIGHT"
         THEN ToCold(j) /\ slot' = [slot EXCEPT ![j.slot] = FreeSlot]
         ELSE UNCHANGED <<slot, loc, coldStore>>
      /\ drain' = [drain EXCEPT ![w] = NoDrain]
      /\ UNCHANGED <<evicted, session, leases, pinned, drainQ, readQ, reader, client, flight,
                     nextLease, nextEpoch>>

DrainDone(w) ==
  LET j == drain[w]
  IN  /\ j.stage = "commit"
      /\ IF State(j.slot) = "DRAIN_IN_FLIGHT"
         THEN /\ ToCold(j)
              /\ slot' = [slot EXCEPT ![j.slot] = FreeSlot]
              /\ leases' = Without(leases, {j.lease})
         ELSE UNCHANGED <<slot, leases, loc, coldStore>>
      /\ drain' = [drain EXCEPT ![w] = NoDrain]
      /\ UNCHANGED <<evicted, session, pinned, drainQ, readQ, reader, client, flight,
                     nextLease, nextEpoch>>

(* Mutant: a failed drain leaves its slot as it is.                        *)
DrainAbandoned(w) ==
  /\ "io" \in Faults
  /\ drain[w].stage = "commit" /\ State(drain[w].slot) = "DRAIN_IN_FLIGHT"
  /\ drain' = [drain EXCEPT ![w] = NoDrain]
  /\ UNCHANGED <<evicted, session, slot, leases, loc, coldStore, pinned, drainQ, readQ,
                 reader, client, flight, nextLease, nextEpoch>>

DrainFailed(w) ==
  LET j == drain[w]
  IN  /\ "io" \in Faults
      /\ j.stage = "commit" /\ State(j.slot) = "DRAIN_IN_FLIGHT"
      /\ slot' = SetState(j.slot, "PINNED_VALID")
      /\ drain' = [drain EXCEPT ![w] = NoDrain]
      /\ UNCHANGED <<evicted, session, leases, loc, coldStore, pinned, drainQ, readQ, reader,
                     client, flight, nextLease, nextEpoch>>
----------------------------------------------------------------------------
(* Readbacks.                                                              *)

ReadStart(w) ==
  LET job == Head(readQ)
  IN  /\ reader[w].stage = "idle" /\ readQ # <<>>
      /\ readQ' = Tail(readQ)
      /\ reader' = IF State(job.slot) # "READBACK_IN_FLIGHT" THEN reader
                   ELSE [reader EXCEPT ![w] =
                     [stage |-> IF job.cold \in DOMAIN coldStore THEN "copy" ELSE "missing",
                      slot |-> job.slot, cold |-> job.cold]]
      /\ UNCHANGED <<evicted, session, slot, leases, loc, coldStore, pinned, drainQ, drain,
                     client, flight, nextLease, nextEpoch>>

(* The cold entry is missing: in a second critical section the slot is put *)
(* in ERROR, whatever it has become.                                       *)
ReadMissing(w) ==
  /\ reader[w].stage = "missing"
  /\ slot' = SetState(reader[w].slot, "ERROR")
  /\ reader' = [reader EXCEPT ![w] = NoReadback]
  /\ UNCHANGED <<evicted, session, leases, loc, coldStore, pinned, drainQ, readQ, drain,
                 client, flight, nextLease, nextEpoch>>

ReadCopy(w) ==
  /\ reader[w].stage = "copy"
  /\ pinned' = [pinned EXCEPT ![reader[w].slot] = coldStore[reader[w].cold]]
  /\ reader' = [reader EXCEPT ![w].stage = "commit"]
  /\ UNCHANGED <<evicted, session, tables, drain, client, flight, nextLease, nextEpoch>>

(* Tensor and version are those the slot has now.                          *)
ReadDone(w) ==
  LET s == reader[w].slot
  IN  /\ reader[w].stage = "commit"
      /\ IF State(s) = "READBACK_IN_FLIGHT"
         THEN /\ slot' = SetState(s, "PINNED_VALID")
              /\ loc' = UpdateLocation(loc, slot[s].tensor, slot[s].version, "PINNED",
                                       s, reader[w].cold)
         ELSE UNCHANGED <<slot, loc>>
      /\ reader' = [reader EXCEPT ![w] = NoReadback]
      /\ UNCHANGED <<evicted, session, leases, coldStore, pinned, drainQ, readQ, drain,
                     client, flight, nextLease, nextEpoch>>

(* Mutant: a failed readback leaves its slot as it is.                     *)
ReadAbandoned(w) ==
  /\ "io" \in Faults
  /\ reader[w].stage = "commit" /\ State(reader[w].slot) = "READBACK_IN_FLIGHT"
  /\ reader' = [reader EXCEPT ![w] = NoReadback]
  /\ UNCHANGED <<evicted, session, slot, leases, loc, coldStore, pinned, drainQ, readQ,
                 drain, client, flight, nextLease, nextEpoch>>

ReadFailed(w) ==
  /\ "io" \in Faults
  /\ reader[w].stage = "commit" /\ State(reader[w].slot) = "READBACK_IN_FLIGHT"
  /\ slot' = SetState(reader[w].slot, "ERROR")
  /\ reader' = [reader EXCEPT ![w] = NoReadback]
  /\ UNCHANGED <<evicted, session, leases, loc, coldStore, pinned, drainQ, readQ, drain,
                 client, flight, nextLease, nextEpoch>>
----------------------------------------------------------------------------
(* Transfers.  The agent launches its copy whether or not the daemon       *)
(* accepted the Mark*Submitted call ("proceeding"), and reports it later.  *)

Launch(e, dir) ==
  /\ flight' = flight \cup {[client |-> e, dir |-> dir, lease |-> client[e].lease,
        slot |-> client[e].slot, tensor |-> client[e].tensor,
        version |-> client[e].version, landed |-> FALSE, data |-> Blank]}
  /\ client' = [client EXCEPT ![e] = Idle(e)]

MarkSubmitted(e, from, to) ==
  LET s == client[e].slot
  IN  slot' = IF Owns(e, client[e].lease, s) /\ State(s) = from
              THEN SetState(s, to) ELSE slot

MarkD2HSubmitted(e) ==
  /\ client[e].up /\ client[e].pc = "granted"
  /\ MarkSubmitted(e, "RESERVED_D2H", "D2H_IN_FLIGHT")
  /\ Launch(e, "D2H")
  /\ UNCHANGED <<evicted, session, leases, loc, coldStore, pinned, drainQ, readQ, drain,
                 reader, nextLease, nextEpoch>>

(* restore() reads the slot state in shared memory before it goes on.      *)
CheckSlot(e) ==
  /\ client[e].up /\ client[e].pc = "ready"
  /\ client' = [client EXCEPT ![e] =
        IF State(client[e].slot) = "PINNED_VALID"
        THEN [client[e] EXCEPT !.pc = "checked"] ELSE Idle(e)]
  /\ UNCHANGED <<evicted, session, tables, pinned, drain, reader, flight, nextLease, nextEpoch>>

MarkH2DSubmitted(e) ==
  /\ client[e].up /\ client[e].pc = "checked"
  /\ MarkSubmitted(e, "PINNED_VALID", "H2D_IN_FLIGHT")
  /\ Launch(e, "H2D")
  /\ UNCHANGED <<evicted, session, leases, loc, coldStore, pinned, drainQ, readQ, drain,
                 reader, nextLease, nextEpoch>>

(* The DMA itself: into the slot, or out of it.                            *)
Land(f) ==
  /\ ~f.landed
  /\ pinned' = IF f.dir = "H2D" THEN pinned
               ELSE [pinned EXCEPT ![f.slot] = Copy(f.tensor, f.version)]
  /\ flight' = (flight \ {f}) \cup {[f EXCEPT !.landed = TRUE,
        !.data = IF f.dir = "H2D" THEN pinned[f.slot] ELSE Blank]}
  /\ UNCHANGED <<evicted, session, tables, drain, reader, client, nextLease, nextEpoch>>

(* Mutant: a copy is reported before its event says that it is done.       *)
ReportEarly(f, dir) ==
  /\ f.dir = dir
  /\ flight' = flight \ {f}

Report(f, dir) ==
  /\ f.dir = dir /\ f.landed
  /\ flight' = flight \ {f}

(* apply_d2h_complete, reached by RPC, by batch or through the ring.       *)
D2HComplete(f) ==
  /\ Report(f, "D2H")
  /\ IF /\ Owns(f.client, f.lease, f.slot)
        /\ leases[f.lease].tensor = f.tensor /\ leases[f.lease].version = f.version
        /\ State(f.slot) = "D2H_IN_FLIGHT"
     THEN /\ loc' = UpdateLocation(loc, f.tensor, f.version, "PINNED", f.slot, 0)
          /\ slot' = SetState(f.slot, IF DrainOnD2H THEN "DRAIN_IN_FLIGHT" ELSE "PINNED_VALID")
          /\ drainQ' = IF DrainOnD2H THEN Append(drainQ, f.slot) ELSE drainQ
     ELSE UNCHANGED <<loc, slot, drainQ>>
  /\ UNCHANGED <<evicted, session, leases, coldStore, pinned, readQ, drain, reader, client,
                 nextLease, nextEpoch>>

(* apply_h2d_complete with keep_pinned = false, as every agent sends it.   *)
H2DComplete(f) ==
  LET t == f.tensor
      cold == IF loc[t].cold # 0 THEN loc[t].cold ELSE slot[f.slot].cold
  IN  /\ Report(f, "H2D")
      /\ IF ~(Owns(f.client, f.lease, f.slot) /\ State(f.slot) = "H2D_IN_FLIGHT")
         THEN UNCHANGED <<loc, slot, leases>>
         ELSE IF cold \in DOMAIN coldStore
         THEN /\ loc' = IF loc[t].slot = f.slot /\ loc[t].version = f.version
                        THEN [loc EXCEPT ![t].kind = "COLD", ![t].slot = 0] ELSE loc
              /\ slot' = [slot EXCEPT ![f.slot] = FreeSlot]
              /\ leases' = Without(leases, {f.lease})
         ELSE /\ loc' = UpdateLocation(loc, t, f.version, "PINNED", f.slot, cold)
              /\ slot' = SetState(f.slot, "PINNED_VALID")
              /\ UNCHANGED leases
      /\ UNCHANGED <<evicted, session, coldStore, pinned, drainQ, readQ, drain, reader, client,
                     nextLease, nextEpoch>>

(* discard() releases the lease of an eviction (handle_release_lease).     *)
ReleaseLease(e, l) ==
  LET s == leases[l].slot
      t == leases[l].tensor
  IN  /\ CanCall(e) /\ EpochValid(e)
      /\ leases[l].epoch = e /\ ~leases[l].prefetch
      /\ \/ "discard" \in Faults
         \/ \A f \in flight : <<f.tensor, f.version>> # <<t, leases[l].version>>
      /\ IF State(s) \in {"PINNED_VALID", "RESERVED_D2H", "H2D_IN_FLIGHT",
                          "D2H_IN_FLIGHT", "READBACK_IN_FLIGHT"}
         THEN /\ loc' = IF /\ loc[t].slot = s /\ loc[t].kind = "PINNED"
                           /\ loc[t].version = leases[l].version
                        THEN [loc EXCEPT ![t].kind = "NONE"] ELSE loc
              /\ slot' = [slot EXCEPT ![s] = FreeSlot]
         ELSE UNCHANGED <<loc, slot>>
      /\ leases' = Without(leases, {l})
      /\ UNCHANGED <<evicted, session, coldStore, pinned, drainQ, readQ, drain, reader, client,
                     flight, nextLease, nextEpoch>>
----------------------------------------------------------------------------
AgentNext ==
  \/ \E r \in Rank : Register(r)
  \/ \E e \in Epoch, t \in Tensor, v \in Version :
       \/ RequestOffload(e, t, v)
       \/ PrefetchPending(e, t, v) \/ PrefetchPinned(e, t, v) \/ PrefetchCold(e, t, v)
  \/ \E e \in Epoch :
       \/ PrefetchGivenUp(e) \/ CheckSlot(e)
       \/ MarkD2HSubmitted(e) \/ MarkH2DSubmitted(e)
       \/ \E l \in DOMAIN leases : ReleaseLease(e, l)
  \/ \E f \in flight : Land(f) \/ D2HComplete(f) \/ H2DComplete(f)

DaemonNext ==
  \/ \E r \in Rank : HeartbeatTimeout(r)
  \/ \E d \in Drainer : DrainCopy(d)
  \/ \E e \in Epoch : ForcedDrainDone(e) \/ ForcedDrainFailed(e)
  \/ \E w \in DrainWorker : DrainStart(w) \/ DrainDone(w) \/ DrainFailed(w)
  \/ \E w \in ReadbackWorker :
       \/ ReadStart(w) \/ ReadMissing(w) \/ ReadCopy(w)
       \/ ReadDone(w) \/ ReadFailed(w)

Next == AgentNext \/ DaemonNext

Spec == Init /\ [][Next]_vars
----------------------------------------------------------------------------
(* Type correctness of every table and thread.                             *)
TypeOK ==
  /\ session \in [Rank -> [epoch : 0 .. MaxEpoch, alive : BOOLEAN]]
  /\ slot \in [Slot -> SlotEntry]
  /\ DOMAIN leases \subseteq LeaseId
  /\ \A l \in DOMAIN leases : leases[l] \in Lease
  /\ loc \in [Tensor -> Location]
  /\ coldStore \in Seq(Bytes)
  /\ pinned \in [Slot -> Bytes]
  /\ drainQ \in Seq(Slot) /\ readQ \in Seq(ReadJob)
  /\ drain \in [Drainer -> DrainJob]
  /\ reader \in [ReadbackWorker -> Readback]
  /\ client \in [Epoch -> Client]
  /\ flight \subseteq Flight
  /\ evicted \in [Epoch -> [Tensor -> 0 .. MaxVersion]]
  /\ nextLease \in LeaseId /\ nextEpoch \in 1 .. MaxEpoch + 1

(* No slot is stranded.  However calls, workers, failures and the recovery *)
(* of dead ranks interleave, a slot in DRAIN_IN_FLIGHT is in drain_queue_  *)
(* or in the hands of a drainer, a slot in READBACK_IN_FLIGHT likewise for *)
(* readbacks, and a slot held for a transfer is named by a lease of the    *)
(* table, the only thing recovery could reclaim it by.                     *)
DrainQueued(s) == \E i \in DOMAIN drainQ : drainQ[i] = s
DrainedBy(d, s) == drain[d].stage # "idle" /\ drain[d].slot = s
ReadQueued(s) == \E i \in DOMAIN readQ : readQ[i].slot = s
ReadBy(w, s) == reader[w].stage # "idle" /\ reader[w].slot = s
NoStrandedSlot ==
  \A s \in Slot :
    /\ State(s) = "DRAIN_IN_FLIGHT" =>
         DrainQueued(s) \/ \E d \in Drainer : DrainedBy(d, s)
    /\ State(s) = "READBACK_IN_FLIGHT" =>
         ReadQueued(s) \/ \E w \in ReadbackWorker : ReadBy(w, s)
    /\ State(s) \in {"RESERVED_D2H", "D2H_IN_FLIGHT", "READBACK_IN_FLIGHT"} =>
         slot[s].lease \in DOMAIN leases /\ leases[slot[s].lease].slot = s

(* A lease id stands for one slot for as long as it is in the table: what  *)
(* a slot, or a drain that let go of mu_, remembers of a lease is that     *)
(* lease or one that is gone, and never a lease of another slot; and an id *)
(* a RequestPrefetch drew before its forced drain is not in use meanwhile. *)
LeaseBinding ==
  /\ \A l \in DOMAIN leases : l < nextLease
  /\ \A s \in Slot :
       /\ slot[s].lease < nextLease
       /\ slot[s].lease \in DOMAIN leases => leases[slot[s].lease].slot = s
  /\ \A d \in Drainer :
       /\ drain[d].lease < nextLease
       /\ drain[d].lease \in DOMAIN leases => leases[drain[d].lease].slot = drain[d].slot
  /\ \A e \in Epoch : client[e].pc = "prefetch" =>
       /\ client[e].lease \in (1 .. nextLease - 1) \ DOMAIN leases
       /\ \A s \in Slot : slot[s].lease # client[e].lease
       /\ \A d \in Drainer : drain[d].lease # client[e].lease
       /\ \A k \in Epoch \ {e} : client[k].pc = "prefetch" => client[k].lease # client[e].lease

(* A location never goes back to an older version, whatever completes late *)
(* (race-conditions.md section 5): the drains, readbacks and transfers of  *)
(* an old version all finish through update_location_if_latest.            *)
LocationMonotone == [][\A t \in Tensor : loc'[t].version >= loc[t].version]_vars

(* A restore() copies the bytes of the tensor and version it asked for,    *)
(* although the agent reads the slot outside mu_ and after its last check. *)
RestoreExact ==
  \A f \in flight : f.dir = "H2D" /\ f.landed => f.data = Copy(f.tensor, f.version)

(* A location that says PINNED names a slot which holds exactly that       *)
(* tensor and version, valid, until the location is moved elsewhere.       *)
PinnedBacked ==
  \A t \in Tensor : loc[t].kind = "PINNED" =>
    LET s == loc[t].slot
    IN  /\ State(s) \in {"PINNED_VALID", "DRAIN_IN_FLIGHT", "H2D_IN_FLIGHT"}
        /\ slot[s].tensor = t /\ slot[s].version = loc[t].version
        /\ pinned[s] = Copy(t, loc[t].version)

(* A location that says COLD names a cold entry with the bytes of exactly  *)
(* that tensor and version.                                                *)
ColdBacked ==
  \A t \in Tensor : loc[t].kind = "COLD" =>
    /\ loc[t].cold \in DOMAIN coldStore
    /\ coldStore[loc[t].cold] = Copy(t, loc[t].version)

(* Every lease belongs to a session that is alive: a lease of any other    *)
(* epoch is past the reach of its rank and of recovery.                    *)
NoLeakedLease ==
  \A l \in DOMAIN leases :
    LET r == leases[l].rank
    IN  session[r].alive /\ session[r].epoch = leases[l].epoch

(* Two evictions never have leases on one slot.                            *)
OneWriter ==
  \A l, m \in DOMAIN leases :
    l # m /\ leases[l].slot = leases[m].slot => leases[l].prefetch \/ leases[m].prefetch
----------------------------------------------------------------------------
(* The daemon's own threads keep running: its workers, and the handler     *)
(* threads that force a drain.  Nothing is assumed of the ranks.           *)
Fairness ==
  /\ \A d \in Drainer : WF_vars(DrainCopy(d))
  /\ \A e \in Epoch : WF_vars(ForcedDrainDone(e))
  /\ \A w \in DrainWorker : WF_vars(DrainStart(w)) /\ WF_vars(DrainDone(w))
  /\ \A w \in ReadbackWorker :
       WF_vars(ReadStart(w)) /\ WF_vars(ReadCopy(w)) /\ WF_vars(ReadMissing(w))
                            /\ WF_vars(ReadDone(w))
FairSpec == Spec /\ Fairness

(* Every drain ends: DRAIN_IN_FLIGHT is left again, by a worker or by the  *)
(* handler that forced it, so a slot cannot be lost to it.                 *)
DrainsEnd ==
  \A s \in Slot : State(s) = "DRAIN_IN_FLIGHT" ~> State(s) # "DRAIN_IN_FLIGHT"

(* Every readback ends, in PINNED_VALID or in ERROR, so a restore() that   *)
(* polls for it does not wait for ever.                                    *)
ReadbacksEnd ==
  \A s \in Slot : State(s) = "READBACK_IN_FLIGHT" ~> State(s) # "READBACK_IN_FLIGHT"
============================================================================
