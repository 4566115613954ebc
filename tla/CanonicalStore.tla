--------------------------- MODULE CanonicalStore ---------------------------
(***************************************************************************)
(* The canonical object store of offloadd (src/src/daemon/canonical.cpp,   *)
(* canonical_rollout.cpp) for one job and one model role: ranks create or  *)
(* attach to deduplicated objects, restore and release them; a trainer     *)
(* seals, promotes and drops model versions; rollout engines pull sealed   *)
(* objects.  One step is one critical section of mu_, or one copy made     *)
(* outside it.  What is abstracted:                                        *)
(*  - an object takes one slot, and the allocator may return any FREE one; *)
(*  - a lease and a cold entry are named by the synthetic tensor id they   *)
(*    are for: reserve() is called once for an id, and an id is drained at *)
(*    most once, since a slot warmed by a restore has no lease;            *)
(*  - the VALID_* states of an object are one, VALID (its location tells   *)
(*    the tier), and PAGEABLE and NVME are one kind, COLD;                 *)
(*  - bytes are named by the key they encode;                              *)
(*  - cfg.drain_on_d2h_complete is false, quotas are unlimited, and a call *)
(*    that is rejected without changing a table is no step;                *)
(*  - a rank that dies is fail-stop and does not come back (epochs and     *)
(*    zombies: module OffloadDaemon).  Its handler thread runs on.         *)
(***************************************************************************)
EXTENDS Integers, FiniteSets

CONSTANTS
  Rank, Puller,    \* ranks; rollout connections
  Param,           \* parameters of the model
  MaxVersion,      \* bound on the model versions
  MaxId,           \* bound on next_object_id_
  NumSlots,        \* slots of the pinned arena
  Policies,        \* how ranks deduplicate, a subset of PolicyKinds
  Calls,           \* what ranks, trainer, rollout and chance may do, a subset of CallKinds
  Retain,          \* cfg.v2_retain_sealed_versions, 0 for all
  None

PolicyKinds == {"attach", "verify", "duplicate"}
CallKinds == {"seal", "drop", "pull", "die", "io", "borrow"}

Slot    == 0 .. NumSlots - 1
Id      == 1 .. MaxId
Version == 1 .. MaxVersion
Key     == [param : Param, version : Version]

ASSUME StoreAssumption ==
  /\ NumSlots \in Nat \ {0} /\ MaxId \in Nat /\ MaxVersion \in Nat /\ Retain \in Nat
  /\ Policies \subseteq PolicyKinds /\ Calls \subseteq CallKinds
  /\ None \notin Key

VARIABLES
  alive,       \* ranks whose session is valid
  slot,        \* slots_
  leases,      \* leases_: id -> slot and owner
  loc,         \* locations_, by synthetic id ("NONE": no entry)
  cold,        \* cold_store_: the bytes of an id (None: no entry)
  pinned,      \* the bytes in the pinned arena
  objects,     \* objects_: id -> object
  byKey,       \* object_by_key_ (0: no entry)
  manifest,    \* manifests_
  latest,      \* latest_sealed_ (0: no entry)
  client,      \* the thread of each rank, and of the handler that serves it
  drain,       \* the forced drain under way in that handler
  pull,        \* the handler of each rollout connection
  nextId

backing == <<slot, leases, loc, cold>>
index == <<objects, byKey>>
versions == <<manifest, latest>>
vars == <<alive, backing, pinned, index, versions, client, drain, pull, nextId>>

Bytes == Key \cup {None}
FreeSlot == [state |-> "FREE", tid |-> 0]
Nowhere == [kind |-> "NONE", slot |-> 0]
NoManifest == [state |-> "NONE", members |-> {}]
Idle == [pc |-> "idle", obj |-> 0, id |-> 0, key |-> None, slot |-> 0, data |-> None]
NoDrain == [stage |-> "idle", slot |-> 0, tid |-> 0, data |-> None]
NoPull == [pc |-> "idle", obj |-> 0, data |-> None]

Object == [key : Key, state : {"CREATING", "VALID", "SEALED", "EXPORT"},
           holders : SUBSET Rank, exports : Nat, restores : Nat, slot : Slot]

Init ==
  /\ alive = Rank
  /\ slot = [s \in Slot |-> FreeSlot]
  /\ leases = [i \in {} |-> None]
  /\ loc = [i \in Id |-> Nowhere]
  /\ cold = [i \in Id |-> None]
  /\ pinned = [s \in Slot |-> None]
  /\ objects = [i \in {} |-> None]
  /\ byKey = [k \in Key |-> 0]
  /\ manifest = [v \in Version |-> NoManifest]
  /\ latest = 0
  /\ client = [r \in Rank |-> Idle]
  /\ drain = [r \in Rank |-> NoDrain]
  /\ pull = [p \in Puller |-> NoPull]
  /\ nextId = 1
----------------------------------------------------------------------------
Without(f, gone) == [i \in DOMAIN f \ gone |-> f[i]]
With(f, i, x) == [j \in DOMAIN f \cup {i} |-> IF j = i THEN x ELSE f[j]]

State(s) == slot[s].state
FreeSlots(sl) == {s \in Slot : sl[s].state = "FREE"}
Exists(o) == o \in DOMAIN objects
OfVersion(v) == {o \in DOMAIN objects : objects[o].key.version = v}
Readable(o) == Exists(o) /\ objects[o].state # "CREATING"
Busy(ob) == ob.exports > 0 \/ ob.restores > 0
CanCall(r) == r \in alive /\ client[r].pc = "idle"

(* Mutant: only exports keep an object.                                    *)
NotExported(objs, S) == {o \in S : objs[o].exports = 0}
(* What release_object does not refuse.                                    *)
Releasable(objs, S) == {o \in S : ~Busy(objs[o])}

(* release_object for each of gone, on tables that the caller has already  *)
(* changed.  The slot goes only if it is PINNED_VALID, the cold entry only *)
(* if the bytes are not pinned.                                            *)
Release(gone, objs, sl, ls) ==
  /\ objects' = Without(objs, gone)
  /\ byKey' = [k \in Key |-> IF \E o \in gone : objs[o].key = k THEN 0 ELSE byKey[k]]
  /\ leases' = Without(ls, gone)
  /\ slot' = [s \in Slot |->
        IF sl[s].state = "PINNED_VALID"
           /\ \E o \in gone : loc[o].kind = "PINNED" /\ objs[o].slot = s
        THEN FreeSlot ELSE sl[s]]
  /\ loc' = [i \in Id |-> IF i \in gone THEN Nowhere ELSE loc[i]]
  /\ cold' = [i \in Id |-> IF i \in gone /\ loc[i].kind = "COLD" THEN None ELSE cold[i]]

(* maybe_free_object for each of S.                                        *)
MaybeFree(objs, S, sl, ls) ==
  Release(Releasable(objs, {o \in S : objs[o].holders = {}}), objs, sl, ls)
----------------------------------------------------------------------------
(* Reservation.  A FREE slot is granted at once; without one, a victim is  *)
(* drained first with mu_ released, and the caller goes on where it was.   *)

(* Mutant: a drain may take the slot of an object that is being restored.  *)
VictimsReadToo == {i \in DOMAIN leases :
  /\ State(leases[i].slot) = "PINNED_VALID"
  /\ ~(Exists(i) /\ (objects[i].exports > 0 \/ objects[i].state = "CREATING"))}
(* What force_drain_one may choose.                                        *)
Victims == {i \in DOMAIN leases :
  /\ State(leases[i].slot) = "PINNED_VALID"
  /\ ~(Exists(i) /\ (Busy(objects[i]) \/ objects[i].state = "CREATING"))}

StartDrain(r) ==
  \E i \in Victims :
    LET s == leases[i].slot
    IN  /\ slot' = [slot EXCEPT ![s].state = "DRAIN_IN_FLIGHT"]
        /\ drain' = [drain EXCEPT ![r] = [stage |-> "copy", slot |-> s, tid |-> i, data |-> None]]

NewObject(r, k, s) == [key |-> k, state |-> "CREATING", holders |-> {r},
                       exports |-> 0, restores |-> 0, slot |-> s]

(* The end of reserve() in slot s of tables sl and ls, and of the handler: *)
(* a creator's object enters the tables, over any entry its key has now; a *)
(* candidate is told which object to verify against.                       *)
Grant(r, pc, i, k, o, s, sl, ls) ==
  /\ slot' = [sl EXCEPT ![s] = [state |-> "RESERVED_D2H", tid |-> i]]
  /\ leases' = With(ls, i, [slot |-> s, rank |-> r])
  /\ IF pc = "create"
     THEN /\ objects' = With(objects, i, NewObject(r, k, s))
          /\ byKey' = [byKey EXCEPT ![k] = i]
     ELSE UNCHANGED index
  /\ client' = [client EXCEPT ![r] =
        [pc |-> "granted", obj |-> o, id |-> i, key |-> k, slot |-> s, data |-> None]]

Reserve(r, pc, k, o) ==
  /\ nextId <= MaxId
  /\ nextId' = nextId + 1
  /\ \/ /\ \E s \in FreeSlots(slot) : Grant(r, pc, nextId, k, o, s, slot, leases)
        /\ UNCHANGED drain
     \/ /\ FreeSlots(slot) = {}
        /\ StartDrain(r)
        /\ client' = [client EXCEPT ![r] =
              [pc |-> pc, obj |-> o, id |-> nextId, key |-> k, slot |-> 0, data |-> None]]
        /\ UNCHANGED <<leases, index>>
  /\ UNCHANGED <<alive, loc, cold, pinned, versions, pull>>

(* handle_request_canonical_evict: attach, verify against or race with an  *)
(* existing object, or create one.  WAIT_FOR_CREATOR changes nothing.      *)
EvictAttach(r, k) ==
  LET o == byKey[k]
  IN  /\ CanCall(r) /\ manifest[k.version].state # "SEALED"
      /\ Policies \cap {"attach", "duplicate"} # {} /\ Readable(o)
      /\ objects' = [objects EXCEPT ![o].holders = @ \cup {r}]
      /\ UNCHANGED <<alive, backing, pinned, byKey, versions, client, drain, pull, nextId>>

EvictCandidate(r, k) ==
  LET o == byKey[k]
  IN  /\ CanCall(r) /\ manifest[k.version].state # "SEALED"
      /\ \/ "verify" \in Policies /\ Readable(o)
         \/ "duplicate" \in Policies /\ Exists(o) /\ objects[o].state = "CREATING"
      /\ Reserve(r, "verify", k, o)

EvictCreate(r, k) ==
  /\ CanCall(r) /\ manifest[k.version].state # "SEALED"
  /\ ~Exists(byKey[k])
  /\ Reserve(r, "create", k, nextId)

(* force_drain_one with mu_ released, and from lk.lock() on.               *)
DrainCopy(r) ==
  /\ drain[r].stage = "copy"
  /\ drain' = [drain EXCEPT ![r].stage = "commit", ![r].data = pinned[drain[r].slot]]
  /\ UNCHANGED <<alive, backing, pinned, index, versions, client, pull, nextId>>

(* The run a restore binds to its object before it reads the cold bytes.   *)
BindWarm(r, o, s, sl, bytes) ==
  /\ slot' = [sl EXCEPT ![s] = [state |-> "READBACK_IN_FLIGHT", tid |-> o]]
  /\ client' = [client EXCEPT ![r] =
        [Idle EXCEPT !.pc = "warming", !.obj = o, !.slot = s, !.data = bytes]]

(* Mutant: the drained bytes are stored, the location is not moved.        *)
DrainedLostTrack(j) ==
  /\ cold' = [cold EXCEPT ![j.tid] = j.data]
  /\ UNCHANGED loc
Drained(j) ==
  /\ cold' = [cold EXCEPT ![j.tid] = j.data]
  /\ loc' = [loc EXCEPT ![j.tid] = [kind |-> "COLD", slot |-> j.slot]]

(* Back in the allocation loop a slot is FREE.  existing is read through a *)
(* pointer: if that object is gone the id may be any.                      *)
DrainDone(r) ==
  LET j == drain[r]
      c == client[r]
      sl == [slot EXCEPT ![j.slot] = FreeSlot]
      ls == Without(leases, {j.tid})
  IN  /\ j.stage = "commit"
      /\ Drained(j)
      /\ \E s \in FreeSlots(sl) :
           \/ c.pc = "create" /\ Grant(r, c.pc, c.id, c.key, c.id, s, sl, ls)
           \/ /\ c.pc = "verify"
              /\ \E o \in IF Exists(c.obj) THEN {c.obj} ELSE Id :
                   Grant(r, c.pc, c.id, c.key, o, s, sl, ls)
           \/ /\ c.pc = "warm"
              /\ BindWarm(r, c.obj, s, sl, c.data)
              /\ leases' = ls
              /\ UNCHANGED index
      /\ drain' = [drain EXCEPT ![r] = NoDrain]
      /\ UNCHANGED <<alive, pinned, versions, pull, nextId>>

DrainFailed(r) ==
  /\ "io" \in Calls /\ drain[r].stage = "commit"
  /\ slot' = [slot EXCEPT ![drain[r].slot].state = "PINNED_VALID"]
  /\ client' = [client EXCEPT ![r] = Idle]
  /\ drain' = [drain EXCEPT ![r] = NoDrain]
  /\ UNCHANGED <<alive, leases, loc, cold, pinned, index, versions, pull, nextId>>
----------------------------------------------------------------------------
(* The agent's canonical_evict after a grant: it proceeds through the v1   *)
(* transfer whether or not its calls are accepted, and commits.            *)

AgentAt(r, pc) == r \in alive /\ client[r].pc = pc
Goto(r, pc) == client' = [client EXCEPT ![r].pc = pc]
Leased(r) == client[r].id \in DOMAIN leases

MarkD2HSubmitted(r) ==
  /\ AgentAt(r, "granted")
  /\ slot' = IF Leased(r) /\ State(client[r].slot) = "RESERVED_D2H"
             THEN [slot EXCEPT ![client[r].slot].state = "D2H_IN_FLIGHT"] ELSE slot
  /\ Goto(r, "copying")
  /\ UNCHANGED <<alive, leases, loc, cold, pinned, index, versions, drain, pull, nextId>>

Land(r) ==
  /\ AgentAt(r, "copying")
  /\ pinned' = [pinned EXCEPT ![client[r].slot] = client[r].key]
  /\ Goto(r, "landed")
  /\ UNCHANGED <<alive, backing, index, versions, drain, pull, nextId>>

(* apply_d2h_complete; a canonical object is not drained here.             *)
D2HComplete(r) ==
  LET s == client[r].slot
  IN  /\ AgentAt(r, "landed")
      /\ IF Leased(r) /\ State(s) = "D2H_IN_FLIGHT"
         THEN /\ slot' = [slot EXCEPT ![s].state = "PINNED_VALID"]
              /\ loc' = [loc EXCEPT ![client[r].id] = [kind |-> "PINNED", slot |-> s]]
         ELSE UNCHANGED <<slot, loc>>
      /\ Goto(r, "staged")
      /\ UNCHANGED <<alive, leases, cold, pinned, index, versions, drain, pull, nextId>>

(* handle_commit_canonical_object of the creator.                          *)
CommitCreator(r) ==
  LET o == client[r].obj
  IN  /\ AgentAt(r, "staged") /\ o = client[r].id
      /\ objects' = IF Exists(o) /\ objects[o].state = "CREATING" /\ loc[o].kind # "NONE"
                    THEN [objects EXCEPT ![o].state = "VALID"] ELSE objects
      /\ client' = [client EXCEPT ![r] = Idle]
      /\ UNCHANGED <<alive, backing, pinned, byKey, versions, drain, pull, nextId>>

(* Mutant: the location that goes is the object's.                         *)
CommitCandidateWrongTid(r, hashOk) ==
  LET o == client[r].obj
      i == client[r].id
      s == client[r].slot
  IN  /\ AgentAt(r, "staged") /\ o # i
      /\ client' = [client EXCEPT ![r] = Idle]
      /\ IF Exists(o) /\ Leased(r)
         THEN /\ slot' = IF State(s) \in {"PINNED_VALID", "RESERVED_D2H", "D2H_IN_FLIGHT"}
                         THEN [slot EXCEPT ![s] = FreeSlot] ELSE slot
              /\ loc' = [loc EXCEPT ![o] = Nowhere]
              /\ leases' = Without(leases, {i})
         ELSE UNCHANGED <<slot, loc, leases>>
      /\ objects' = IF Readable(o) /\ hashOk
                    THEN [objects EXCEPT ![o].holders = @ \cup {r}] ELSE objects
      /\ UNCHANGED <<alive, cold, pinned, byKey, versions, drain, pull, nextId>>
(* ... and of a candidate: its slot, location and lease go, and the rank   *)
(* attaches to the object if that is valid and the hashes agree.           *)
CommitCandidate(r, hashOk) ==
  LET o == client[r].obj
      i == client[r].id
      s == client[r].slot
  IN  /\ AgentAt(r, "staged") /\ o # i
      /\ client' = [client EXCEPT ![r] = Idle]
      /\ IF Exists(o) /\ Leased(r)
         THEN /\ slot' = IF State(s) \in {"PINNED_VALID", "RESERVED_D2H", "D2H_IN_FLIGHT"}
                         THEN [slot EXCEPT ![s] = FreeSlot] ELSE slot
              /\ loc' = [loc EXCEPT ![i] = Nowhere]
              /\ leases' = Without(leases, {i})
         ELSE UNCHANGED <<slot, loc, leases>>
      /\ objects' = IF Readable(o) /\ hashOk
                    THEN [objects EXCEPT ![o].holders = @ \cup {r}] ELSE objects
      /\ UNCHANGED <<alive, cold, pinned, byKey, versions, drain, pull, nextId>>
----------------------------------------------------------------------------
(* Restores.  The handler does not ask for a hold; a rank without one      *)
(* borrows.  While the object is in transition the agent polls, which      *)
(* changes nothing.                                                        *)

Restorable(r, o) ==
  /\ CanCall(r) /\ Readable(o)
  /\ "borrow" \in Calls \/ r \in objects[o].holders

RestorePinned(r, o) ==
  /\ Restorable(r, o)
  /\ loc[o].kind = "PINNED" /\ State(loc[o].slot) = "PINNED_VALID"
  /\ objects' = [objects EXCEPT ![o].restores = @ + 1]
  /\ client' = [client EXCEPT ![r] =
        [Idle EXCEPT !.pc = "reading", !.obj = o, !.slot = loc[o].slot]]
  /\ UNCHANGED <<alive, backing, pinned, byKey, versions, drain, pull, nextId>>

RestoreCold(r, o) ==
  /\ Restorable(r, o)
  /\ loc[o].kind = "COLD" /\ cold[o] # None
  /\ \/ /\ \E s \in FreeSlots(slot) : BindWarm(r, o, s, slot, cold[o])
        /\ UNCHANGED drain
     \/ /\ FreeSlots(slot) = {}
        /\ StartDrain(r)
        /\ client' = [client EXCEPT ![r] = [Idle EXCEPT !.pc = "warm", !.obj = o, !.data = cold[o]]]
  /\ UNCHANGED <<alive, leases, loc, cold, pinned, index, versions, pull, nextId>>

(* do_readback_from_cold with mu_ released, from the entry copied before.  *)
WarmCopy(r) ==
  /\ client[r].pc = "warming"
  /\ pinned' = [pinned EXCEPT ![client[r].slot] = client[r].data]
  /\ Goto(r, "warmed")
  /\ UNCHANGED <<alive, backing, index, versions, drain, pull, nextId>>

(* Relocked: the warmed slot is the object's residency, and its state is   *)
(* VALID_MULTI_TIER whatever it was.  Writes through the pointer to an     *)
(* object that is gone reach no table.                                     *)
WarmDone(r) ==
  LET o == client[r].obj
      s == client[r].slot
  IN  /\ client[r].pc = "warmed"
      /\ slot' = [slot EXCEPT ![s].state = "PINNED_VALID"]
      /\ loc' = [loc EXCEPT ![o] = [kind |-> "PINNED", slot |-> s]]
      /\ objects' = IF Exists(o)
                    THEN [objects EXCEPT ![o].slot = s, ![o].state = "VALID",
                                         ![o].restores = @ + 1]
                    ELSE objects
      /\ Goto(r, "reading")
      /\ UNCHANGED <<alive, leases, cold, pinned, byKey, versions, drain, pull, nextId>>

WarmFailed(r) ==
  /\ "io" \in Calls /\ client[r].pc = "warmed"
  /\ slot' = [slot EXCEPT ![client[r].slot] = FreeSlot]
  /\ client' = [client EXCEPT ![r] = Idle]
  /\ UNCHANGED <<alive, leases, loc, cold, pinned, index, versions, drain, pull, nextId>>

(* The agent's H2D, outside mu_.                                           *)
H2D(r) ==
  /\ AgentAt(r, "reading")
  /\ client' = [client EXCEPT ![r].pc = "read", ![r].data = pinned[client[r].slot]]
  /\ UNCHANGED <<alive, backing, pinned, index, versions, drain, pull, nextId>>

ReleaseRestore(r) ==
  LET o == client[r].obj
      objs == IF Exists(o) /\ objects[o].restores > 0
              THEN [objects EXCEPT ![o].restores = @ - 1] ELSE objects
  IN  /\ AgentAt(r, "read")
      /\ client' = [client EXCEPT ![r] = Idle]
      /\ MaybeFree(objs, {o} \cap DOMAIN objs, slot, leases)
      /\ UNCHANGED <<alive, pinned, versions, drain, pull, nextId>>

(* handle_release_canonical of one object or of a version.                 *)
Unheld(r, S) == [o \in DOMAIN objects |->
  IF o \in S THEN [objects[o] EXCEPT !.holders = @ \ {r}] ELSE objects[o]]
Held(r) == {o \in DOMAIN objects : r \in objects[o].holders}

ReleaseCanonical(r, S) ==
  LET held == S \cap Held(r)
  IN  /\ CanCall(r) /\ held # {}
      /\ MaybeFree(Unheld(r, held), held, slot, leases)
      /\ UNCHANGED <<alive, pinned, versions, client, drain, pull, nextId>>

(* The end of a rank's session: in-flight slots are reclaimed, leases go,  *)
(* and so do its holds (purge_rank_from_canonical).                        *)
(* Mutant: the holds of the rank are forgotten about.                      *)
PurgeNothing(r, sl, ls) ==
  /\ slot' = sl /\ leases' = ls
  /\ UNCHANGED <<loc, cold, index>>
Purge(r, sl, ls) == MaybeFree(Unheld(r, Held(r)), Held(r), sl, ls)

Die(r) ==
  LET mine == {i \in DOMAIN leases : leases[i].rank = r}
      sl == [s \in Slot |->
        IF State(s) \notin {"PINNED_VALID", "DRAIN_IN_FLIGHT"}
           /\ \E i \in mine : leases[i].slot = s
        THEN FreeSlot ELSE slot[s]]
  IN  /\ "die" \in Calls /\ r \in alive
      /\ alive' = alive \ {r}
      /\ Purge(r, sl, Without(leases, mine))
      /\ UNCHANGED <<pinned, versions, client, drain, pull, nextId>>
----------------------------------------------------------------------------
(* Versions.                                                               *)

Invalid(v, expected) ==
  \/ \E o \in OfVersion(v) : objects[o].state = "CREATING"
  \/ \E q \in expected : \A o \in OfVersion(v) : ~Readable(o) \/ objects[o].key.param # q

(* Mutant: retention looks at the age only.                                *)
ExpiredByAge(sealed, keep) ==
  {v \in sealed : Retain > 0 /\ Cardinality({w \in sealed : w > v}) >= Retain}
(* enforce_sealed_retention: sealed versions past the newest ones, but not *)
(* the one that is promoted.                                               *)
Expired(sealed, keep) ==
  {v \in sealed \ {keep} : Retain > 0 /\ Cardinality({w \in sealed : w > v}) >= Retain}

(* The members of a manifest in ERROR are never looked at.                 *)
SealFailed(v, expected) ==
  /\ "seal" \in Calls
  /\ manifest[v].state # "SEALED" /\ Invalid(v, expected)
  /\ manifest' = [manifest EXCEPT ![v] = [state |-> "ERROR", members |-> {}]]
  /\ UNCHANGED <<alive, backing, pinned, index, latest, client, drain, pull, nextId>>

(* handle_seal_model_version, also with invalid objects: fail_if_missing   *)
(* may be unset, and they are left out.  A version that retention finds    *)
(* expired loses its manifest if all its objects go.                       *)
Seal(v, promote) ==
  LET members == {o \in OfVersion(v) : Readable(o)}
      objs == [o \in DOMAIN objects |->
        IF o \in members THEN [objects[o] EXCEPT !.state = "SEALED"] ELSE objects[o]]
      man == [manifest EXCEPT ![v] = [state |-> "SEALED", members |-> members]]
      expired == IF promote THEN Expired({w \in Version : man[w].state = "SEALED"}, v) ELSE {}
      gone == Releasable(objs, UNION {OfVersion(w) : w \in expired})
  IN  /\ "seal" \in Calls
      /\ manifest[v].state # "SEALED"
      /\ Release(gone, objs, slot, leases)
      /\ manifest' = [w \in Version |->
            IF w \in expired /\ OfVersion(w) \subseteq gone THEN NoManifest ELSE man[w]]
      /\ latest' = IF promote THEN v ELSE latest
      /\ UNCHANGED <<alive, pinned, client, drain, pull, nextId>>

(* handle_drop_canonical_version: whoever holds them, except for objects   *)
(* in transfer; the manifest goes in any case.                             *)
DropVersion(v) ==
  /\ "drop" \in Calls /\ (OfVersion(v) # {} \/ manifest[v] # NoManifest)
  /\ Release(Releasable(objects, OfVersion(v)), objects, slot, leases)
  /\ manifest' = [manifest EXCEPT ![v] = NoManifest]
  /\ latest' = IF latest = v THEN 0 ELSE latest
  /\ UNCHANGED <<alive, pinned, client, drain, pull, nextId>>
----------------------------------------------------------------------------
(* Pulls.  handle_pull_tensor takes an export hold; a pinned object is     *)
(* copied at once, a cold one with mu_ released.  Without a location the   *)
(* hold is given back and nothing has changed.                             *)

Pull(p, v, o) ==
  /\ "pull" \in Calls /\ pull[p].pc = "idle"
  /\ manifest[v].state = "SEALED" /\ o \in manifest[v].members
  /\ Exists(o) /\ objects[o].state = "SEALED"
  /\ \/ /\ loc[o].kind = "PINNED"
        /\ pull' = [pull EXCEPT ![p] = [pc |-> "sending", obj |-> o, data |-> pinned[loc[o].slot]]]
     \/ /\ loc[o].kind = "COLD" /\ cold[o] # None
        /\ pull' = [pull EXCEPT ![p] = [pc |-> "staging", obj |-> o, data |-> cold[o]]]
  /\ objects' = [objects EXCEPT ![o].exports = @ + 1, ![o].state = "EXPORT"]
  /\ UNCHANGED <<alive, backing, pinned, byKey, versions, client, drain, nextId>>

(* stage_object_for_export reads the entry into its buffer, and before     *)
(* that calls do_readback_from_cold for slot 0.                            *)
StageCold(p) ==
  /\ pull[p].pc = "staging"
  /\ pinned' = [pinned EXCEPT ![0] = pull[p].data]
  /\ pull' = [pull EXCEPT ![p].pc = "sending"]
  /\ UNCHANGED <<alive, backing, index, versions, client, drain, nextId>>

StageFailed(p) ==
  /\ "io" \in Calls /\ pull[p].pc = "staging"
  /\ objects' = IF Exists(pull[p].obj)
                THEN [objects EXCEPT ![pull[p].obj].exports = @ - 1, ![pull[p].obj].state = "SEALED"]
                ELSE objects
  /\ pull' = [pull EXCEPT ![p] = NoPull]
  /\ UNCHANGED <<alive, backing, pinned, byKey, versions, client, drain, nextId>>

(* Mutants: the last hold is given back and nobody reclaims the object;    *)
(* the hold is given back twice.                                           *)
PullDoneOnly(p) ==
  LET o == pull[p].obj
      left == IF objects[o].exports > 0 THEN objects[o].exports - 1 ELSE 0
  IN  /\ pull[p].pc = "sending"
      /\ pull' = [pull EXCEPT ![p] = NoPull]
      /\ objects' = IF Exists(o)
                    THEN [objects EXCEPT ![o].exports = left,
                                         ![o].state = IF left = 0 THEN "SEALED" ELSE @]
                    ELSE objects
      /\ UNCHANGED <<alive, backing, pinned, byKey, versions, client, drain, nextId>>
PullDoneTwice(p) ==
  LET o == pull[p].obj
      objs == [objects EXCEPT ![o].exports = @ - 2, ![o].state = "SEALED"]
  IN  /\ pull[p].pc = "sending"
      /\ pull' = [pull EXCEPT ![p] = NoPull]
      /\ MaybeFree(objs, {o} \cap DOMAIN objs, slot, leases)
      /\ UNCHANGED <<alive, pinned, versions, client, drain, nextId>>
(* Sent, or not: the hold is given back, and an object that has lost its   *)
(* holders meanwhile is reclaimed.                                         *)
PullDone(p) ==
  LET o == pull[p].obj
      left == IF objects[o].exports > 0 THEN objects[o].exports - 1 ELSE 0
      objs == IF Exists(o)
              THEN [objects EXCEPT ![o].exports = left,
                                   ![o].state = IF left = 0 THEN "SEALED" ELSE @]
              ELSE objects
  IN  /\ pull[p].pc = "sending"
      /\ pull' = [pull EXCEPT ![p] = NoPull]
      /\ MaybeFree(objs, {o} \cap DOMAIN objs, slot, leases)
      /\ UNCHANGED <<alive, pinned, versions, client, drain, nextId>>
----------------------------------------------------------------------------
HandlerNext ==
  \E r \in Rank :
    \/ DrainCopy(r) \/ DrainDone(r) \/ DrainFailed(r)
    \/ WarmCopy(r) \/ WarmDone(r) \/ WarmFailed(r)

RankNext ==
  \E r \in Rank :
    \/ \E k \in Key : EvictAttach(r, k) \/ EvictCandidate(r, k) \/ EvictCreate(r, k)
    \/ MarkD2HSubmitted(r) \/ Land(r) \/ D2HComplete(r) \/ CommitCreator(r)
    \/ \E hashOk \in BOOLEAN : CommitCandidate(r, hashOk)
    \/ \E o \in DOMAIN objects :
         RestorePinned(r, o) \/ RestoreCold(r, o) \/ ReleaseCanonical(r, {o})
    \/ H2D(r) \/ ReleaseRestore(r)
    \/ \E v \in Version : ReleaseCanonical(r, OfVersion(v))
    \/ Die(r)

RolloutNext ==
  \/ \E v \in Version :
       \/ \E expected \in {{}, Param} : SealFailed(v, expected)
       \/ \E promote \in BOOLEAN : Seal(v, promote)
       \/ DropVersion(v)
  \/ \E p \in Puller :
       \/ \E v \in Version, o \in DOMAIN objects : Pull(p, v, o)
       \/ StageCold(p) \/ StageFailed(p) \/ PullDone(p)

Next == HandlerNext \/ RankNext \/ RolloutNext

Spec == Init /\ [][Next]_vars
----------------------------------------------------------------------------
(* Type correctness of the tables and threads.                             *)
TypeOK ==
  /\ alive \subseteq Rank
  /\ slot \in [Slot -> [state : {"FREE", "RESERVED_D2H", "D2H_IN_FLIGHT", "PINNED_VALID",
                                 "DRAIN_IN_FLIGHT", "READBACK_IN_FLIGHT"}, tid : Id \cup {0}]]
  /\ DOMAIN leases \subseteq Id
  /\ \A i \in DOMAIN leases : leases[i] \in [slot : Slot, rank : Rank]
  /\ loc \in [Id -> [kind : {"NONE", "PINNED", "COLD"}, slot : Slot]]
  /\ cold \in [Id -> Bytes] /\ pinned \in [Slot -> Bytes]
  /\ DOMAIN objects \subseteq Id
  /\ \A o \in DOMAIN objects : objects[o] \in Object
  /\ byKey \in [Key -> Id \cup {0}]
  /\ manifest \in [Version -> [state : {"NONE", "ERROR", "SEALED"}, members : SUBSET Id]]
  /\ latest \in Version \cup {0}
  /\ client \in [Rank -> [pc : {"idle", "create", "verify", "warm", "granted", "copying",
                                "landed", "staged", "warming", "warmed", "reading", "read"},
                          obj : Id \cup {0}, id : Id \cup {0}, key : Bytes, slot : Slot,
                          data : Bytes]]
  /\ drain \in [Rank -> [stage : {"idle", "copy", "commit"}, slot : Slot,
                         tid : Id \cup {0}, data : Bytes]]
  /\ pull \in [Puller -> [pc : {"idle", "staging", "sending"}, obj : Id \cup {0}, data : Bytes]]
  /\ nextId \in 1 .. MaxId + 1


(* The holders of an object are live ranks (canonical.h, holders): a dead  *)
(* rank's hold would keep the object, and its key, for ever.               *)
HoldersAlive == \A o \in DOMAIN objects : objects[o].holders \subseteq alive

(* An object that nobody holds and nothing transfers does not stay behind, *)
(* although its last holder may go while a pull or a restore has it.       *)
NoIdleOrphan == \A o \in DOMAIN objects : objects[o].holders # {} \/ Busy(objects[o])

(* What is being pulled is kept: an object in export is in the table with  *)
(* a hold on it, whatever is released, dropped, trimmed or drained.        *)
ExportHeld ==
  \A p \in Puller : pull[p].pc # "idle" =>
    Exists(pull[p].obj) /\ objects[pull[p].obj].exports > 0

(* What is being read is kept: an object in export has its hold, and so    *)
(* has one a live rank restores, whose slot is still its own and valid.    *)
TransferHeld ==
  /\ ExportHeld
  /\ \A r \in alive : client[r].pc \in {"reading", "read"} =>
       LET o == client[r].obj
           s == client[r].slot
       IN  /\ Exists(o) /\ objects[o].restores > 0
           /\ slot[s] = [state |-> "PINNED_VALID", tid |-> o]

(* The version rollout engines are told is the latest one has a sealed     *)
(* manifest, whatever is sealed, trimmed by retention or dropped.          *)
LatestSealed == latest # 0 => manifest[latest].state = "SEALED"

(* A readable object can be found: its location names a slot that is its   *)
(* own and keeps its bytes, or its cold entry exists, through drains with  *)
(* mu_ released, failed I/O, warmed copies and pulls.                      *)
Located ==
  \A o \in DOMAIN objects : Readable(o) =>
    \/ /\ loc[o].kind = "PINNED"
       /\ slot[loc[o].slot].tid = o
       /\ State(loc[o].slot) \in {"PINNED_VALID", "DRAIN_IN_FLIGHT"}
    \/ loc[o].kind = "COLD" /\ cold[o] # None

(* ... and what it finds there is exactly its bytes.                       *)
Backed ==
  \A o \in DOMAIN objects : Readable(o) =>
    objects[o].key = IF loc[o].kind = "PINNED" THEN pinned[loc[o].slot] ELSE cold[o]


(* Ranks told to wait for a creator do not wait in vain: an object that is *)
(* CREATING has a live rank under way to the commit, with its lease, and   *)
(* with the location the commit asks for once its copy is reported.        *)
CreatorAtWork ==
  \A o \in DOMAIN objects : objects[o].state = "CREATING" =>
    \E r \in alive :
      /\ client[r].obj = o /\ client[r].id = o
      /\ client[r].pc \in {"granted", "copying", "landed", "staged"}
      /\ o \in DOMAIN leases
      /\ client[r].pc = "staged" => loc[o].kind # "NONE"
=============================================================================
