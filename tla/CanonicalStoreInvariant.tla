---------------------- MODULE CanonicalStoreInvariant ----------------------
(***************************************************************************)
(* Proofs about the canonical store for every number of ranks, rollout     *)
(* connections, parameters, versions, slots and objects, and whatever is   *)
(* called, dies or fails: the inductive invariant, and its preservation by *)
(* the steps that take no slot.                                            *)
(*                                                                         *)
(* Located is not inductive.  A location is right because a slot has one   *)
(* user at a time, and that rests on ids: one that a table or a thread     *)
(* knows has been used, and reserve() is never called with it again.       *)
(* StoreInv says so, entry by entry.                                       *)
(***************************************************************************)
EXTENDS CanonicalStore, FiniteSetTheorems, TLAPS

SlotRecord == [state : {"FREE", "RESERVED_D2H", "D2H_IN_FLIGHT", "PINNED_VALID",
                        "DRAIN_IN_FLIGHT", "READBACK_IN_FLIGHT"}, tid : Id \cup {0}]
LocRecord == [kind : {"NONE", "PINNED", "COLD"}, slot : Slot]
ClientRecord == [pc : {"idle", "create", "verify", "warm", "granted", "copying",
                       "landed", "staged", "warming", "warmed", "reading", "read"},
                 obj : Id \cup {0}, id : Id \cup {0}, key : Bytes, slot : Slot, data : Bytes]
DrainRecord == [stage : {"idle", "copy", "commit"}, slot : Slot, tid : Id \cup {0}, data : Bytes]
PullRecord == [pc : {"idle", "staging", "sending"}, obj : Id \cup {0}, data : Bytes]

(* The threads of a rank that wait for a slot, that have got one for a     *)
(* copy of their own, and that fill one from the cold store.               *)
Waiting(r) == client[r].pc \in {"create", "verify"}
Staging(r) == client[r].pc \in {"granted", "copying", "landed", "staged"}
Warming(r) == client[r].pc \in {"warming", "warmed"}

(* An id whose slot has been granted.                                      *)
Used(i) == i < nextId /\ \A r \in Rank : Waiting(r) => client[r].id # i

(* States of a slot that has a lease, and of one whose bytes are there.    *)
LeaseStates == {"RESERVED_D2H", "D2H_IN_FLIGHT", "PINNED_VALID", "DRAIN_IN_FLIGHT"}
Settled == {"PINNED_VALID", "DRAIN_IN_FLIGHT"}

(* The entries of the tables ...                                           *)
LeaseOK(i) ==
  /\ Used(i)
  /\ slot[leases[i].slot].tid = i /\ State(leases[i].slot) \in LeaseStates
LocOK(i) ==
  /\ loc[i].kind # "NONE" => Used(i)
  /\ loc[i].kind = "COLD" => cold[i] # None
SlotOK(s) == State(s) \in Settled => pinned[s] # None
ObjectOK(o) ==
  /\ Used(o)
  /\ loc[o].kind = "PINNED" =>
       /\ objects[o].slot = loc[o].slot
       /\ slot[loc[o].slot].tid = o /\ State(loc[o].slot) \in Settled
  /\ Readable(o) => loc[o].kind # "NONE"

(* ... and the threads.                                                    *)
WaitOK(r) ==
  Waiting(r) => client[r].id \in Id /\ client[r].id < nextId /\ client[r].key \in Key
StageOK(r) ==
  LET c == client[r] IN
  Staging(r) =>
    /\ c.id \in Id /\ c.key \in Key /\ Used(c.id)
    /\ Leased(r) => leases[c.id].slot = c.slot
    /\ Exists(c.id) => objects[c.id].state = "CREATING" /\ objects[c.id].slot = c.slot
    /\ c.pc = "landed" => pinned[c.slot] # None
WarmOK(r) ==
  LET c == client[r] IN
  c.pc \in {"warm", "warming", "warmed"} =>
    /\ c.obj \in Id /\ Used(c.obj)
    /\ Exists(c.obj) => objects[c.obj].state # "CREATING"
    /\ c.pc # "warm" => slot[c.slot] = [state |-> "READBACK_IN_FLIGHT", tid |-> c.obj]
    /\ IF c.pc = "warmed" THEN pinned[c.slot] # None ELSE c.data # None
DrainOK(r) ==
  LET j == drain[r] IN
  j.stage # "idle" =>
    /\ j.tid \in Id /\ Used(j.tid)
    /\ slot[j.slot] = [state |-> "DRAIN_IN_FLIGHT", tid |-> j.tid]
    /\ j.stage = "commit" => j.data # None
PullOK(p) ==
  /\ pull[p].pc # "idle" => pull[p].obj \in Id
  /\ pull[p].pc = "staging" => pull[p].data # None

(* No two threads have an id or a slot in common.                          *)
Apart(q, r) ==
  q # r =>
    /\ (Waiting(q) \/ Staging(q)) /\ (Waiting(r) \/ Staging(r)) => client[q].id # client[r].id
    /\ Warming(q) /\ Warming(r) => client[q].slot # client[r].slot
    /\ drain[q].stage # "idle" /\ drain[r].stage # "idle" => drain[q].slot # drain[r].slot

Core ==
  /\ \A i \in DOMAIN leases : LeaseOK(i)
  /\ \A i \in Id : LocOK(i)
  /\ \A s \in Slot : SlotOK(s)
  /\ \A o \in DOMAIN objects : ObjectOK(o)
  /\ \A r \in Rank : WaitOK(r) /\ StageOK(r) /\ WarmOK(r) /\ DrainOK(r)
  /\ \A q, r \in Rank : Apart(q, r)

(* The table objs has as many exports of an object as pl has pulls of it.  *)
PullsOf(pl, o) == {p \in Puller : pl[p].pc # "idle" /\ pl[p].obj = o}
Counted(objs, pl) ==
  \A o \in Id :
    /\ IsFiniteSet(PullsOf(pl, o))
    /\ PullsOf(pl, o) # {} => o \in DOMAIN objs /\ objs[o].state # "CREATING"
    /\ o \in DOMAIN objs => objs[o].exports = Cardinality(PullsOf(pl, o))

StoreInv ==
  /\ TypeOK /\ Core /\ Counted(objects, pull)
  /\ \A p \in Puller : PullOK(p)
----------------------------------------------------------------------------
(* The types of the tables, in the names above, now and after a step.      *)
BackingOK ==
  /\ slot \in [Slot -> SlotRecord]
  /\ DOMAIN leases \subseteq Id
  /\ \A i \in DOMAIN leases : leases[i] \in [slot : Slot, rank : Rank]
  /\ loc \in [Id -> LocRecord] /\ cold \in [Id -> Bytes]
IndexOK ==
  /\ DOMAIN objects \subseteq Id /\ \A o \in DOMAIN objects : objects[o] \in Object
  /\ byKey \in [Key -> Id \cup {0}]
VersionsOK ==
  /\ manifest \in [Version -> [state : {"NONE", "ERROR", "SEALED"}, members : SUBSET Id]]
  /\ latest \in Version \cup {0}
Typed ==
  /\ alive \subseteq Rank /\ BackingOK /\ pinned \in [Slot -> Bytes] /\ IndexOK /\ VersionsOK
  /\ client \in [Rank -> ClientRecord] /\ drain \in [Rank -> DrainRecord]
  /\ pull \in [Puller -> PullRecord] /\ nextId \in 1 .. MaxId + 1

LEMMA Types == TypeOK <=> Typed
  BY Zenon DEF TypeOK, Typed, BackingOK, IndexOK, VersionsOK,
               SlotRecord, LocRecord, ClientRecord, DrainRecord, PullRecord
LEMMA TypesNext == TypeOK' <=> Typed'
  BY Zenon DEF TypeOK, Typed, BackingOK, IndexOK, VersionsOK,
               SlotRecord, LocRecord, ClientRecord, DrainRecord, PullRecord

(* Initially the tables are empty.                                         *)
LEMMA InitStore == Init => StoreInv
<1> SUFFICES ASSUME Init PROVE StoreInv
  BY Zenon
<1>1. TypeOK
  BY StoreAssumption DEF Init, TypeOK, FreeSlot, Nowhere, NoManifest, Idle, NoDrain, NoPull, Bytes, Slot
<1>2. Core
  <2>1. DOMAIN leases = {} /\ DOMAIN objects = {}
    BY Zenon DEF Init
  <2>2. /\ \A i \in Id : loc[i].kind = "NONE"
        /\ \A s \in Slot : State(s) = "FREE"
        /\ \A r \in Rank : client[r].pc = "idle" /\ drain[r].stage = "idle"
    BY Zenon DEF Init, State, FreeSlot, Nowhere, Idle, NoDrain
  <2>. QED
    BY <2>1, <2>2, Zenon DEF Core, LocOK, SlotOK, WaitOK, StageOK, WarmOK, DrainOK, Apart, Settled,
                      Waiting, Staging, Warming
<1>3. \A p \in Puller : pull[p].pc = "idle"
  BY Zenon DEF Init, NoPull
<1>4. Counted(objects, pull)
  <2> SUFFICES ASSUME NEW o \in Id PROVE PullsOf(pull, o) = {} /\ o \notin DOMAIN objects
    BY FS_EmptySet, Zenon DEF Counted
  <2>. QED
    BY <1>3, Zenon DEF Init, PullsOf
<1>. QED
  BY <1>1, <1>2, <1>3, <1>4, Zenon DEF StoreInv, PullOK

(* A step of a thread that starts to wait with no id but the next one      *)
(* leaves the used ids used.                                               *)
LEMMA UsedKept ==
  ASSUME TypeOK, nextId' \in {nextId, nextId + 1},
         \A r \in Rank : client'[r] = client[r] \/ client'[r].pc \notin {"create", "verify"}
                         \/ client'[r].id = nextId
  PROVE  \A i \in Id : Used(i) => Used(i)'
<1> SUFFICES ASSUME NEW i \in Id, Used(i) PROVE Used(i)'
  BY Zenon
<1>1. nextId \in Nat /\ i \in Nat
  BY StoreAssumption DEF TypeOK, Id
<1>2. i < nextId /\ i < nextId' /\ i # nextId
  BY <1>1 DEF Used
<1>. QED
  BY <1>2, Zenon DEF Used, Waiting
----------------------------------------------------------------------------
(* Steps that only let go: leases, slots, locations and objects disappear, *)
(* what stays is as it was, and threads come to rest.                      *)
AtRest == {"idle", "reading", "read"}
Shrunk ==
  /\ \A i \in DOMAIN leases' :
       /\ i \in DOMAIN leases /\ leases'[i] = leases[i]
       /\ slot'[leases[i].slot] = slot[leases[i].slot]
  /\ \A s \in Slot : slot'[s] = slot[s] \/ slot'[s] = FreeSlot
  /\ \A i \in Id : loc'[i] \in {loc[i], Nowhere} /\ (loc'[i].kind = "COLD" => cold'[i] = cold[i])
  /\ \A o \in DOMAIN objects' :
       /\ o \in DOMAIN objects /\ objects'[o].slot = objects[o].slot
       /\ objects'[o].state = "CREATING" <=> objects[o].state = "CREATING"
       /\ loc'[o] = loc[o] \/ objects[o].state = "CREATING"
       /\ loc[o].kind = "PINNED" /\ loc'[o] = loc[o] => slot'[loc[o].slot] = slot[loc[o].slot]
  /\ \A r \in Rank :
       /\ client'[r] = client[r] \/ client'[r].pc \in AtRest
       /\ Warming(r) /\ client'[r] = client[r] => slot'[client[r].slot] = slot[client[r].slot]
       /\ drain[r].stage # "idle" => slot'[drain[r].slot] = slot[drain[r].slot]
  /\ UNCHANGED <<pinned, drain, nextId>>

LEMMA ShrunkCore ==
  ASSUME TypeOK, Core, Shrunk
  PROVE  Core'
<1>1. \A i \in Id : Used(i) => Used(i)'
  BY UsedKept, Zenon DEF Shrunk, AtRest
<1>2. /\ DOMAIN leases \subseteq Id /\ DOMAIN objects \subseteq Id
      /\ pinned' = pinned /\ drain' = drain /\ nextId' = nextId
  BY Zenon DEF TypeOK, Shrunk
<1>3. ASSUME NEW i \in DOMAIN leases' PROVE LeaseOK(i)'
  <2>1. /\ i \in DOMAIN leases /\ leases'[i] = leases[i]
        /\ slot'[leases[i].slot] = slot[leases[i].slot]
    BY Zenon DEF Shrunk
  <2>2. LeaseOK(i)
    BY <2>1, Zenon DEF Core
  <2>. QED
    BY <1>1, <1>2, <2>1, <2>2, Zenon DEF LeaseOK, State
<1>4. ASSUME NEW i \in Id PROVE LocOK(i)'
  <2>1. LocOK(i)
    BY Zenon DEF Core
  <2>2. loc'[i] = loc[i] \/ loc'[i].kind = "NONE"
    BY DEF Shrunk, Nowhere
  <2>3. loc'[i].kind = "COLD" => cold'[i] = cold[i]
    BY Zenon DEF Shrunk
  <2>. QED
    BY <1>1, <2>1, <2>2, <2>3, Zenon DEF LocOK
<1>5. ASSUME NEW s \in Slot PROVE SlotOK(s)'
  <2>1. SlotOK(s)
    BY Zenon DEF Core
  <2>2. slot'[s] = slot[s] \/ slot'[s].state = "FREE"
    BY DEF Shrunk, FreeSlot
  <2>. QED
    BY <1>2, <2>1, <2>2, Zenon DEF SlotOK, State, Settled
<1>6. ASSUME NEW o \in DOMAIN objects' PROVE ObjectOK(o)'
  <2>1. /\ o \in DOMAIN objects /\ objects'[o].slot = objects[o].slot
        /\ objects'[o].state = "CREATING" <=> objects[o].state = "CREATING"
        /\ loc'[o] = loc[o] \/ objects[o].state = "CREATING"
        /\ loc[o].kind = "PINNED" /\ loc'[o] = loc[o] => slot'[loc[o].slot] = slot[loc[o].slot]
    BY Zenon DEF Shrunk
  <2>2. o \in Id /\ ObjectOK(o)
    BY <1>2, <2>1, Zenon DEF Core
  <2>3. loc'[o] = loc[o] \/ loc'[o].kind = "NONE"
    BY <2>2 DEF Shrunk, Nowhere
  <2>. QED
    BY <1>1, <2>1, <2>2, <2>3, Zenon DEF ObjectOK, State, Readable, Exists
<1>7. ASSUME NEW r \in Rank PROVE WaitOK(r)' /\ StageOK(r)' /\ WarmOK(r)' /\ DrainOK(r)'
  <2>1. WaitOK(r) /\ StageOK(r) /\ WarmOK(r) /\ DrainOK(r)
    BY Zenon DEF Core
  <2>2. client'[r] = client[r] \/ client'[r].pc \in AtRest
    BY Zenon DEF Shrunk
  <2>3. WaitOK(r)'
    BY <1>2, <2>1, <2>2, Zenon DEF WaitOK, Waiting, AtRest
  <2>4. StageOK(r)'
    <3> SUFFICES ASSUME Staging(r)' PROVE StageOK(r)'
      BY Zenon DEF StageOK
    <3>1. client'[r] = client[r] /\ Staging(r)
      BY <2>2, Zenon DEF Staging, AtRest
    <3>2. Leased(r)' => Leased(r) /\ leases'[client[r].id] = leases[client[r].id]
      BY <3>1, Zenon DEF Leased, Shrunk
    <3>3. Exists(client[r].id)' =>
            /\ Exists(client[r].id) /\ objects'[client[r].id].slot = objects[client[r].id].slot
            /\ objects'[client[r].id].state = "CREATING" <=> objects[client[r].id].state = "CREATING"
      BY <3>1, Zenon DEF Exists, Shrunk
    <3>. QED
      BY <1>1, <1>2, <2>1, <3>1, <3>2, <3>3, Zenon DEF StageOK, Exists
  <2>5. WarmOK(r)'
    <3> SUFFICES ASSUME client'[r].pc \in {"warm", "warming", "warmed"} PROVE WarmOK(r)'
      BY Zenon DEF WarmOK
    <3>1. client'[r] = client[r]
      BY <2>2, Zenon DEF AtRest
    <3>2. Warming(r) => slot'[client[r].slot] = slot[client[r].slot]
      BY <3>1, Zenon DEF Shrunk
    <3>3. Exists(client[r].obj)' =>
            /\ Exists(client[r].obj)
            /\ objects'[client[r].obj].state = "CREATING" <=> objects[client[r].obj].state = "CREATING"
      BY <3>1, Zenon DEF Exists, Shrunk
    <3>. QED
      BY <1>1, <1>2, <2>1, <3>1, <3>2, <3>3, Zenon DEF WarmOK, Warming, Exists
  <2>6. DrainOK(r)'
    <3>1. drain[r].stage # "idle" => slot'[drain[r].slot] = slot[drain[r].slot]
      BY Zenon DEF Shrunk
    <3>. QED
      BY <1>1, <1>2, <2>1, <3>1, Zenon DEF DrainOK
  <2>. QED
    BY <2>3, <2>4, <2>5, <2>6, Zenon
<1>8. ASSUME NEW q \in Rank, NEW r \in Rank PROVE Apart(q, r)'
  <2>1. Apart(q, r)
    BY Zenon DEF Core
  <2>2. client'[q] = client[q] \/ client'[q].pc \in AtRest
    BY Zenon DEF Shrunk
  <2>3. client'[r] = client[r] \/ client'[r].pc \in AtRest
    BY Zenon DEF Shrunk
  <2>. QED
    BY <1>2, <2>1, <2>2, <2>3, Zenon DEF Apart, Waiting, Staging, Warming, AtRest
<1>. QED
  BY <1>3, <1>4, <1>5, <1>6, <1>7, <1>8, Zenon DEF Core
----------------------------------------------------------------------------
(* release_object.  Its tables: those of a session that has ended at most  *)
(* lack in-flight slots and their leases; the objects are where they were. *)
Trimmed(sl, ls) ==
  /\ \A i \in DOMAIN ls :
       /\ i \in DOMAIN leases /\ ls[i] = leases[i]
       /\ sl[leases[i].slot] = slot[leases[i].slot]
  /\ \A s \in Slot :
       sl[s] = slot[s] \/ (sl[s] = FreeSlot /\ State(s) \in {"RESERVED_D2H", "D2H_IN_FLIGHT"})
SameObjects(objs) ==
  /\ DOMAIN objs = DOMAIN objects
  /\ \A o \in DOMAIN objects :
       /\ objs[o] \in Object /\ objs[o].slot = objects[o].slot
       /\ objs[o].state = "CREATING" <=> objects[o].state = "CREATING"
Resting == \A r \in Rank : client'[r] = client[r] \/ client'[r].pc \in AtRest

(* A slot that is released is the object's own.                            *)
LEMMA ReleaseShrunk ==
  ASSUME TypeOK, Core, NEW gone, NEW objs, NEW sl, NEW ls, Release(gone, objs, sl, ls),
         gone \subseteq DOMAIN objects, SameObjects(objs), Trimmed(sl, ls), Resting,
         UNCHANGED <<pinned, drain, nextId>>
  PROVE  Shrunk
<1>1. /\ DOMAIN leases' = DOMAIN ls \ gone /\ \A i \in DOMAIN ls \ gone : leases'[i] = ls[i]
      /\ DOMAIN objects' = DOMAIN objects \ gone
      /\ \A o \in DOMAIN objects \ gone : objects'[o] = objs[o]
  BY Zenon DEF Release, Without, SameObjects
<1>2. \A i \in Id : /\ loc'[i] = IF i \in gone THEN Nowhere ELSE loc[i]
                    /\ i \notin gone => cold'[i] = cold[i]
  BY Zenon DEF Release
<1>3. \A s \in Slot : slot'[s] = IF sl[s].state = "PINNED_VALID"
           /\ \E o \in gone : loc[o].kind = "PINNED" /\ objs[o].slot = s
        THEN FreeSlot ELSE sl[s]
  BY Zenon DEF Release
<1>4. ASSUME NEW s \in Slot
      PROVE  \/ slot'[s] = slot[s]
             \/ slot'[s] = FreeSlot /\ State(s) \in {"RESERVED_D2H", "D2H_IN_FLIGHT"} /\ slot'[s] = sl[s]
             \/ slot'[s] = FreeSlot /\ State(s) = "PINNED_VALID" /\ slot[s].tid \in gone
  <2>1. CASE sl[s].state = "PINNED_VALID" /\ \E o \in gone : loc[o].kind = "PINNED" /\ objs[o].slot = s
    <3>1. sl[s] = slot[s] /\ State(s) = "PINNED_VALID"
      BY <2>1 DEF Trimmed, FreeSlot, State
    <3>2. PICK o \in gone : loc[o].kind = "PINNED" /\ objs[o].slot = s
      BY <2>1, Zenon
    <3>3. o \in DOMAIN objects /\ ObjectOK(o) /\ objects[o].slot = s
      BY <3>2, Zenon DEF Core, SameObjects
    <3>4. slot[s].tid = o
      BY <3>2, <3>3, Zenon DEF ObjectOK
    <3>. QED
      BY <1>3, <2>1, <3>1, <3>4, Zenon
  <2>2. CASE ~(sl[s].state = "PINNED_VALID" /\ \E o \in gone : loc[o].kind = "PINNED" /\ objs[o].slot = s)
    <3>1. slot'[s] = sl[s]
      BY <1>3, <2>2, Zenon
    <3>. QED
      BY <3>1, Zenon DEF Trimmed
  <2>. QED
    BY <2>1, <2>2, Zenon
<1>5. DOMAIN objects \subseteq Id
  BY Zenon DEF TypeOK
<1>6. ASSUME NEW i \in DOMAIN leases'
      PROVE  /\ i \in DOMAIN leases /\ leases'[i] = leases[i]
             /\ slot'[leases[i].slot] = slot[leases[i].slot]
  <2>1. /\ i \notin gone /\ i \in DOMAIN leases /\ leases'[i] = leases[i]
        /\ sl[leases[i].slot] = slot[leases[i].slot]
    BY <1>1, Zenon DEF Trimmed
  <2>2. leases[i].slot \in Slot /\ LeaseOK(i)
    BY <2>1, Zenon DEF TypeOK, Core
  <2>. QED
    BY <1>4, <2>1, <2>2, Zenon DEF LeaseOK
<1>7. ASSUME NEW o \in DOMAIN objects'
      PROVE  /\ o \in DOMAIN objects /\ objects'[o].slot = objects[o].slot
             /\ objects'[o].state = "CREATING" <=> objects[o].state = "CREATING"
             /\ loc'[o] = loc[o]
             /\ loc[o].kind = "PINNED" => slot'[loc[o].slot] = slot[loc[o].slot]
  <2>1. o \in DOMAIN objects /\ o \in Id /\ o \notin gone /\ objects'[o] = objs[o]
    BY <1>1, <1>5, Zenon
  <2>2. ObjectOK(o) /\ loc[o].slot \in Slot
    BY <2>1, Zenon DEF Core, TypeOK
  <2>3. loc[o].kind = "PINNED" => slot'[loc[o].slot] = slot[loc[o].slot]
    BY <1>4, <2>1, <2>2, Zenon DEF ObjectOK, Settled
  <2>. QED
    BY <1>2, <2>1, <2>3, Zenon DEF SameObjects
<1>8. ASSUME NEW r \in Rank
      PROVE  /\ Warming(r) => slot'[client[r].slot] = slot[client[r].slot]
             /\ drain[r].stage # "idle" => slot'[drain[r].slot] = slot[drain[r].slot]
  <2>1. client[r].slot \in Slot /\ drain[r].slot \in Slot /\ WarmOK(r) /\ DrainOK(r)
    BY Zenon DEF TypeOK, Core
  <2>2. Warming(r) => State(client[r].slot) = "READBACK_IN_FLIGHT"
    BY <2>1 DEF WarmOK, Warming, State
  <2>3. drain[r].stage # "idle" => State(drain[r].slot) = "DRAIN_IN_FLIGHT"
    BY <2>1 DEF DrainOK, State
  <2>. QED
    BY <1>4, <2>1, <2>2, <2>3, Zenon
<1>9. \A i \in Id : loc'[i] \in {loc[i], Nowhere} /\ (loc'[i].kind = "COLD" => cold'[i] = cold[i])
  BY <1>2 DEF Nowhere
<1>. QED
  BY <1>4, <1>6, <1>7, <1>8, <1>9, Zenon DEF Shrunk, Resting

(* The types of the tables it leaves.                                      *)
LEMMA ReleaseTypes ==
  ASSUME TypeOK, NEW gone, NEW objs, NEW sl, NEW ls, Release(gone, objs, sl, ls),
         SameObjects(objs), Trimmed(sl, ls)
  PROVE  BackingOK' /\ IndexOK'
<1>1. FreeSlot \in SlotRecord /\ Nowhere \in LocRecord /\ None \in Bytes
  BY StoreAssumption DEF FreeSlot, Nowhere, SlotRecord, LocRecord, Bytes, Slot
<1>2. /\ slot \in [Slot -> SlotRecord] /\ loc \in [Id -> LocRecord] /\ cold \in [Id -> Bytes]
      /\ byKey \in [Key -> Id \cup {0}] /\ DOMAIN leases \subseteq Id /\ DOMAIN objects \subseteq Id
      /\ \A i \in DOMAIN leases : leases[i] \in [slot : Slot, rank : Rank]
  BY Types, Zenon DEF Typed, BackingOK, IndexOK
<1>3. \A s \in Slot : sl[s] \in SlotRecord
  BY <1>1, <1>2, Zenon DEF Trimmed
<1>4. /\ DOMAIN leases' = DOMAIN ls \ gone /\ \A i \in DOMAIN ls \ gone : leases'[i] = ls[i]
      /\ DOMAIN objects' = DOMAIN objects \ gone
      /\ \A o \in DOMAIN objects \ gone : objects'[o] = objs[o]
  BY Zenon DEF Release, Without, SameObjects
<1>5. slot' \in [Slot -> SlotRecord]
  BY <1>1, <1>3, Zenon DEF Release
<1>6. loc' \in [Id -> LocRecord] /\ cold' \in [Id -> Bytes] /\ byKey' \in [Key -> Id \cup {0}]
  BY <1>1, <1>2, Zenon DEF Release
<1>7. \A i \in DOMAIN ls \ gone : i \in DOMAIN leases /\ ls[i] = leases[i]
  BY Zenon DEF Trimmed
<1>8. \A o \in DOMAIN objects : objs[o] \in Object
  BY Zenon DEF SameObjects
<1>. QED
  BY <1>2, <1>4, <1>5, <1>6, <1>7, <1>8, Zenon DEF BackingOK, IndexOK

(* What is released is not exported.                                       *)
LEMMA ReleaseCounted ==
  ASSUME NEW gone, NEW objs, NEW pl, Counted(objs, pl), DOMAIN objs \subseteq Id,
         \A o \in DOMAIN objs : objs[o] \in Object, gone \subseteq DOMAIN objs,
         \A o \in gone : ~Busy(objs[o])
  PROVE  Counted(Without(objs, gone), pl)
<1>1. ASSUME NEW o \in gone PROVE PullsOf(pl, o) = {}
  <2>1. /\ o \in Id /\ o \in DOMAIN objs /\ objs[o].exports \in Nat /\ ~(objs[o].exports > 0)
    BY Zenon DEF Busy, Object
  <2>2. IsFiniteSet(PullsOf(pl, o)) /\ objs[o].exports = Cardinality(PullsOf(pl, o))
    BY <2>1, Zenon DEF Counted
  <2>3. Cardinality(PullsOf(pl, o)) = 0
    BY <2>1, <2>2
  <2>. QED
    BY <2>2, <2>3, FS_EmptySet, Zenon
<1>2. /\ DOMAIN Without(objs, gone) = DOMAIN objs \ gone
      /\ \A o \in DOMAIN objs \ gone : Without(objs, gone)[o] = objs[o]
  BY Zenon DEF Without
<1>. QED
  BY <1>1, <1>2, Zenon DEF Counted

LEMMA ReleaseStep ==
  ASSUME TypeOK, Core, NEW gone, NEW objs, NEW sl, NEW ls, NEW pl, Release(gone, objs, sl, ls),
         gone \subseteq DOMAIN objects, \A o \in gone : ~Busy(objs[o]),
         SameObjects(objs), Counted(objs, pl), Trimmed(sl, ls), Resting,
         UNCHANGED <<pinned, drain, nextId>>
  PROVE  Core' /\ BackingOK' /\ IndexOK' /\ Counted(objects', pl)
<1>1. Shrunk
  BY ReleaseShrunk, Zenon
<1>2. Core'
  BY <1>1, ShrunkCore, Zenon
<1>3. BackingOK' /\ IndexOK'
  BY ReleaseTypes, Zenon
<1>4. /\ DOMAIN objs \subseteq Id /\ gone \subseteq DOMAIN objs
      /\ \A o \in DOMAIN objs : objs[o] \in Object
  BY Zenon DEF SameObjects, TypeOK
<1>5. objects' = Without(objs, gone)
  BY Zenon DEF Release
<1>6. Counted(Without(objs, gone), pl)
  BY <1>4, ReleaseCounted, Zenon
<1>. QED
  BY <1>2, <1>3, <1>5, <1>6, Zenon

LEMMA MaybeFreeStep ==
  ASSUME TypeOK, Core, NEW S, NEW objs, NEW sl, NEW ls, NEW pl, MaybeFree(objs, S, sl, ls),
         S \subseteq DOMAIN objects, SameObjects(objs), Counted(objs, pl), Trimmed(sl, ls), Resting,
         UNCHANGED <<pinned, drain, nextId>>
  PROVE  Core' /\ BackingOK' /\ IndexOK' /\ Counted(objects', pl)
<1> DEFINE gone == Releasable(objs, {o \in S : objs[o].holders = {}})
<1>1. gone \subseteq DOMAIN objects /\ \A o \in gone : ~Busy(objs[o])
  BY Zenon DEF Releasable
<1>2. Release(gone, objs, sl, ls)
  BY Zenon DEF MaybeFree
<1> HIDE DEF gone
<1>. QED
  BY <1>1, <1>2, ReleaseStep, Zenon

(* A step that leaves the tables alone, but for fields of the objects.     *)
LEMMA QuietStep ==
  ASSUME TypeOK, Core, UNCHANGED <<backing, pinned, drain, nextId>>, SameObjects(objects'), Resting
  PROVE  Core' /\ BackingOK' /\ (byKey' = byKey => IndexOK')
<1>1. slot' = slot /\ leases' = leases /\ loc' = loc /\ cold' = cold
  BY Zenon DEF backing
<1>2. Shrunk
  BY <1>1, Zenon DEF SameObjects, Resting, Shrunk
<1>3. Core'
  BY <1>2, ShrunkCore, Zenon
<1>4. BackingOK /\ IndexOK
  BY Types, Zenon DEF Typed
<1>5. BackingOK'
  BY <1>1, <1>4, Zenon DEF BackingOK
<1>6. ASSUME byKey' = byKey PROVE IndexOK'
  BY <1>4, <1>6, Zenon DEF IndexOK, SameObjects
<1>. QED
  BY <1>3, <1>5, <1>6, Zenon

(* The counts in a table with the same exports.                            *)
SameExports(a, b) ==
  /\ DOMAIN a = DOMAIN b
  /\ \A o \in DOMAIN a : a[o].exports = b[o].exports /\ (a[o].state = "CREATING" <=> b[o].state = "CREATING")
LEMMA CountedSame ==
  ASSUME NEW a, NEW b, NEW pl, SameExports(a, b), Counted(a, pl)
  PROVE  Counted(b, pl)
BY Zenon DEF SameExports, Counted

(* The counts when a pull ends: objs has one export of o less.             *)
OneLess(o, objs) ==
  /\ DOMAIN objs = DOMAIN objects
  /\ objs[o].exports = objects[o].exports - 1 /\ objs[o].state # "CREATING"
  /\ \A x \in DOMAIN objects \ {o} : objs[x] = objects[x]
LEMMA PullEnds ==
  ASSUME StoreInv, NEW p \in Puller, pull[p].pc # "idle", pull' = [pull EXCEPT ![p] = NoPull]
  PROVE  LET o == pull[p].obj
         IN  /\ o \in DOMAIN objects /\ objects[o].state # "CREATING"
             /\ objects[o].exports \in Nat \ {0}
             /\ pull' \in [Puller -> PullRecord]
             /\ \A q \in Puller : PullOK(q)'
             /\ \A objs : OneLess(o, objs) => Counted(objs, pull')
<1> DEFINE o == pull[p].obj
<1>1. /\ TypeOK /\ o \in Id /\ p \in PullsOf(pull, o) /\ pull \in [Puller -> PullRecord]
      /\ Counted(objects, pull) /\ \A q \in Puller : PullOK(q)
  BY Types, Zenon DEF StoreInv, PullOK, PullsOf, Typed
<1>2. /\ o \in DOMAIN objects /\ objects[o].state # "CREATING" /\ IsFiniteSet(PullsOf(pull, o))
      /\ objects[o].exports = Cardinality(PullsOf(pull, o))
  BY <1>1, Zenon DEF Counted
<1>3. Cardinality(PullsOf(pull, o)) \in Nat \ {0}
  BY <1>1, <1>2, FS_EmptySet, FS_CardinalityType, Zenon
<1>4. \A q \in Puller : pull'[q] = IF q = p THEN NoPull ELSE pull[q]
  BY <1>1, Zenon
<1>5. PullsOf(pull', o) = PullsOf(pull, o) \ {p}
  BY <1>4 DEF PullsOf, NoPull
<1>6. IsFiniteSet(PullsOf(pull', o)) /\ Cardinality(PullsOf(pull', o)) = Cardinality(PullsOf(pull, o)) - 1
  <2>1. IsFiniteSet(PullsOf(pull, o)) /\ p \in PullsOf(pull, o)
    BY <1>1, <1>2, Zenon
  <2>2. /\ IsFiniteSet(PullsOf(pull, o) \ {p})
        /\ Cardinality(PullsOf(pull, o) \ {p}) = Cardinality(PullsOf(pull, o)) - 1
    BY <2>1, FS_RemoveElement, Zenon
  <2>. QED
    BY <1>5, <2>2, Zenon
<1>7. ASSUME NEW x \in Id \ {o} PROVE PullsOf(pull', x) = PullsOf(pull, x)
  BY <1>4 DEF PullsOf, NoPull
<1>8. pull' \in [Puller -> PullRecord]
  BY <1>1, Zenon DEF NoPull, PullRecord, Bytes
<1>9. \A q \in Puller : PullOK(q)'
  BY <1>1, <1>4, Zenon DEF PullOK, NoPull
<1>10. ASSUME NEW objs, OneLess(o, objs) PROVE Counted(objs, pull')
  <2> USE <1>10 DEF OneLess
  <2>1. objs[o].exports = Cardinality(PullsOf(pull', o))
    BY <1>2, <1>6, <1>10, Zenon
  <2> SUFFICES ASSUME NEW x \in Id
               PROVE  /\ IsFiniteSet(PullsOf(pull', x))
                      /\ PullsOf(pull', x) # {} => x \in DOMAIN objs /\ objs[x].state # "CREATING"
                      /\ x \in DOMAIN objs => objs[x].exports = Cardinality(PullsOf(pull', x))
    BY Zenon DEF Counted
  <2>2. CASE x = o
    BY <1>2, <1>6, <1>10, <2>1, <2>2, Zenon
  <2>3. CASE x # o
    <3>1. PullsOf(pull', x) = PullsOf(pull, x) /\ (x \in DOMAIN objects => objs[x] = objects[x])
      BY <1>7, <1>10, <2>3, Zenon
    <3>. QED
      BY <1>1, <1>10, <3>1, Zenon DEF Counted
  <2>. QED
    BY <2>2, <2>3, Zenon
<1> HIDE DEF o
<1>11. o \in DOMAIN objects /\ objects[o].state # "CREATING" /\ objects[o].exports \in Nat \ {0}
  BY <1>2, <1>3, Zenon
<1>. QED
  BY <1>8, <1>9, <1>10, <1>11, Zenon DEF o
----------------------------------------------------------------------------
(* What a step has to show: in the threads of the ranks ...                *)
LEMMA RankStep ==
  ASSUME StoreInv, UNCHANGED <<versions, pull>>, Core', BackingOK', IndexOK', Counted(objects', pull),
         alive' \subseteq Rank, pinned' \in [Slot -> Bytes], client' \in [Rank -> ClientRecord],
         drain' \in [Rank -> DrainRecord], nextId' \in 1 .. MaxId + 1
  PROVE  StoreInv'
<1>1. Typed /\ \A p \in Puller : PullOK(p)
  BY Types, Zenon DEF StoreInv
<1>2. pull' = pull /\ manifest' = manifest /\ latest' = latest
  BY Zenon DEF versions
<1>3. Typed'
  BY <1>1, <1>2, Zenon DEF Typed, VersionsOK
<1>4. \A p \in Puller : PullOK(p)'
  BY <1>1, <1>2, Zenon DEF PullOK
<1>. QED
  BY <1>2, <1>3, <1>4, TypesNext, Zenon DEF StoreInv

(* ... and in those of the trainer and of rollout.                         *)
LEMMA RolloutStep ==
  ASSUME StoreInv, UNCHANGED <<alive, client, drain, nextId>>, Core', BackingOK', IndexOK', VersionsOK',
         pinned' \in [Slot -> Bytes], pull' \in [Puller -> PullRecord], Counted(objects', pull'),
         \A p \in Puller : PullOK(p)'
  PROVE  StoreInv'
<1>1. Typed
  BY Types, Zenon DEF StoreInv
<1>2. Typed'
  BY <1>1, Zenon DEF Typed
<1>. QED
  BY <1>2, TypesNext, Zenon DEF StoreInv

LEMMA Parts ==
  ASSUME StoreInv
  PROVE  /\ TypeOK /\ Core /\ Counted(objects, pull) /\ \A p \in Puller : PullOK(p)
         /\ alive \subseteq Rank /\ BackingOK /\ IndexOK /\ VersionsOK /\ pinned \in [Slot -> Bytes]
         /\ client \in [Rank -> ClientRecord] /\ drain \in [Rank -> DrainRecord]
         /\ pull \in [Puller -> PullRecord] /\ nextId \in 1 .. MaxId + 1
BY Types, Zenon DEF StoreInv, Typed

LEMMA IdleTyped == Idle \in ClientRecord /\ Idle.pc = "idle" /\ 0 \in Slot
BY StoreAssumption DEF Idle, ClientRecord, Bytes, Slot

LEMMA EvictAttachStore ==
  ASSUME StoreInv, NEW r \in Rank, NEW k \in Key, EvictAttach(r, k)
  PROVE  StoreInv'
<1> DEFINE o == byKey[k]
<1>1. /\ o \in DOMAIN objects /\ objects' = [objects EXCEPT ![o].holders = @ \cup {r}]
      /\ UNCHANGED <<alive, backing, pinned, byKey, versions, client, drain, pull, nextId>>
  BY Zenon DEF EvictAttach, Readable, Exists
<1> HIDE DEF o
<1>2. \A x \in DOMAIN objects : objects[x] \in Object
  BY Parts, Zenon DEF IndexOK
<1>3. SameObjects(objects') /\ SameExports(objects, objects')
  BY <1>1, <1>2, ZenonT(30) DEF SameObjects, SameExports, Object
<1>4. Resting
  BY <1>1, Zenon DEF Resting
<1>5. Core' /\ BackingOK' /\ IndexOK'
  BY <1>1, <1>3, <1>4, Parts, QuietStep, Zenon
<1>6. Counted(objects', pull)
  BY <1>3, Parts, CountedSame, Zenon
<1>. QED
  BY <1>1, <1>5, <1>6, Parts, RankStep, Zenon

LEMMA RestorePinnedStore ==
  ASSUME StoreInv, NEW r \in Rank, NEW o \in DOMAIN objects, RestorePinned(r, o)
  PROVE  StoreInv'
<1>1. /\ objects' = [objects EXCEPT ![o].restores = @ + 1]
      /\ client' = [client EXCEPT ![r] = [Idle EXCEPT !.pc = "reading", !.obj = o, !.slot = loc[o].slot]]
      /\ UNCHANGED <<alive, backing, pinned, byKey, versions, drain, pull, nextId>>
  BY Zenon DEF RestorePinned
<1>2. o \in Id /\ loc[o].slot \in Slot /\ \A x \in DOMAIN objects : objects[x] \in Object
  BY Parts, Zenon DEF IndexOK, BackingOK, LocRecord
<1>3. SameObjects(objects') /\ SameExports(objects, objects')
  BY <1>1, <1>2 DEF SameObjects, SameExports, Object
<1>4. client' \in [Rank -> ClientRecord] /\ client'[r].pc = "reading"
      /\ \A q \in Rank \ {r} : client'[q] = client[q]
  <2> DEFINE c == [Idle EXCEPT !.pc = "reading", !.obj = o, !.slot = loc[o].slot]
  <2>1. c \in ClientRecord /\ c.pc = "reading"
    BY <1>2, Zenon DEF Idle, ClientRecord, Bytes
  <2> HIDE DEF c
  <2>2. client' = [client EXCEPT ![r] = c]
    BY <1>1, Zenon DEF c
  <2>. QED
    BY <2>1, <2>2, Parts, Zenon
<1>5. Resting
  BY <1>4, Zenon DEF Resting, AtRest
<1>6. Core' /\ BackingOK' /\ IndexOK'
  BY <1>1, <1>3, <1>5, Parts, QuietStep, Zenon
<1>7. Counted(objects', pull)
  BY <1>3, Parts, CountedSame, Zenon
<1>. QED
  BY <1>1, <1>4, <1>6, <1>7, Parts, RankStep, Zenon

LEMMA H2DStore ==
  ASSUME StoreInv, NEW r \in Rank, H2D(r)
  PROVE  StoreInv'
<1>1. /\ client' = [client EXCEPT ![r].pc = "read", ![r].data = pinned[client[r].slot]]
      /\ UNCHANGED <<alive, backing, pinned, index, versions, drain, pull, nextId>>
  BY Zenon DEF H2D
<1>2. client[r] \in ClientRecord /\ pinned[client[r].slot] \in Bytes
  BY Parts, Zenon DEF ClientRecord
<1>3. client' \in [Rank -> ClientRecord] /\ client'[r].pc = "read"
      /\ \A q \in Rank \ {r} : client'[q] = client[q]
  <2> DEFINE c == [client[r] EXCEPT !.pc = "read", !.data = pinned[client[r].slot]]
  <2>1. c \in ClientRecord /\ c.pc = "read"
    BY <1>2, Zenon DEF ClientRecord
  <2>2. client' = [client EXCEPT ![r] = c]
    BY <1>1, Parts, Zenon
  <2> HIDE DEF c
  <2>. QED
    BY <2>1, <2>2, Parts, Zenon
<1>4. objects' = objects /\ byKey' = byKey /\ SameObjects(objects')
  BY <1>1, Parts, Zenon DEF index, SameObjects, IndexOK
<1>5. Resting
  BY <1>3, Zenon DEF Resting, AtRest
<1>6. Core' /\ BackingOK' /\ IndexOK'
  BY <1>1, <1>4, <1>5, Parts, QuietStep, Zenon
<1>. QED
  BY <1>1, <1>3, <1>4, <1>6, Parts, RankStep, Zenon

(* An object with other holders or restores.                               *)
LEMMA ReleaseRestoreStore ==
  ASSUME StoreInv, NEW r \in Rank, ReleaseRestore(r)
  PROVE  StoreInv'
<1> DEFINE o == client[r].obj
           objs == IF Exists(o) /\ objects[o].restores > 0
                   THEN [objects EXCEPT ![o].restores = @ - 1] ELSE objects
<1>1. /\ client' = [client EXCEPT ![r] = Idle]
      /\ MaybeFree(objs, {o} \cap DOMAIN objs, slot, leases)
      /\ UNCHANGED <<alive, pinned, versions, drain, pull, nextId>>
  BY Zenon DEF ReleaseRestore
<1>2. \A x \in DOMAIN objects : objects[x] \in Object
  BY Parts, Zenon DEF IndexOK
<1>3. SameObjects(objs) /\ SameExports(objects, objs)
  <2>1. CASE Exists(o) /\ objects[o].restores > 0
    <3>1. objs = [objects EXCEPT ![o].restores = @ - 1] /\ o \in DOMAIN objects
      BY <2>1, Zenon DEF Exists
    <3> HIDE DEF o, objs
    <3>. QED
      BY <1>2, <2>1, <3>1 DEF SameObjects, SameExports, Object
  <2>2. CASE ~(Exists(o) /\ objects[o].restores > 0)
    <3>1. objs = objects
      BY <2>2, Zenon
    <3> HIDE DEF o, objs
    <3>. QED
      BY <1>2, <3>1, Zenon DEF SameObjects, SameExports
  <2>. QED
    BY <2>1, <2>2, Zenon
<1> HIDE DEF o, objs
<1>4. client' \in [Rank -> ClientRecord] /\ Resting
  BY <1>1, Parts, IdleTyped, Zenon DEF Resting, AtRest
<1>5. Trimmed(slot, leases) /\ {o} \cap DOMAIN objs \subseteq DOMAIN objects
  BY <1>3, Zenon DEF Trimmed, SameObjects
<1>6. Counted(objs, pull)
  BY <1>3, Parts, CountedSame, Zenon
<1>7. UNCHANGED <<pinned, drain, nextId>>
  BY <1>1, Zenon
<1>8. Core' /\ BackingOK' /\ IndexOK' /\ Counted(objects', pull)
  BY <1>1, <1>3, <1>4, <1>5, <1>6, <1>7, Parts, MaybeFreeStep, ZenonT(30)
<1>. QED
  BY <1>1, <1>4, <1>8, Parts, RankStep, Zenon

LEMMA UnheldSame ==
  ASSUME StoreInv, NEW r, NEW S
  PROVE  /\ SameObjects(Unheld(r, S)) /\ SameExports(objects, Unheld(r, S))
         /\ Counted(Unheld(r, S), pull)
<1>1. \A x \in DOMAIN objects : objects[x] \in Object
  BY Parts, Zenon DEF IndexOK
<1>2. /\ DOMAIN Unheld(r, S) = DOMAIN objects
      /\ \A x \in DOMAIN objects :
           Unheld(r, S)[x] = IF x \in S THEN [objects[x] EXCEPT !.holders = @ \ {r}] ELSE objects[x]
  BY Zenon DEF Unheld
<1>3. ASSUME NEW x \in DOMAIN objects
      PROVE  /\ Unheld(r, S)[x] \in Object /\ Unheld(r, S)[x].slot = objects[x].slot
             /\ Unheld(r, S)[x].state = objects[x].state /\ Unheld(r, S)[x].exports = objects[x].exports
  BY <1>1, <1>2 DEF Object
<1>4. SameObjects(Unheld(r, S)) /\ SameExports(objects, Unheld(r, S))
  BY <1>2, <1>3, Zenon DEF SameObjects, SameExports
<1>. QED
  BY <1>4, Parts, CountedSame, Zenon

LEMMA ReleaseCanonicalStore ==
  ASSUME StoreInv, NEW r \in Rank, NEW S, ReleaseCanonical(r, S)
  PROVE  StoreInv'
<1> DEFINE held == S \cap Held(r)
<1>1. /\ MaybeFree(Unheld(r, held), held, slot, leases)
      /\ UNCHANGED <<alive, pinned, versions, client, drain, pull, nextId>>
  BY Zenon DEF ReleaseCanonical
<1>2. held \subseteq DOMAIN objects
  BY Zenon DEF Held
<1> HIDE DEF held
<1>3. Resting /\ Trimmed(slot, leases) /\ UNCHANGED <<pinned, drain, nextId>>
  BY <1>1, Zenon DEF Resting, Trimmed
<1>4. SameObjects(Unheld(r, held)) /\ Counted(Unheld(r, held), pull)
  BY UnheldSame, Zenon
<1>5. Core' /\ BackingOK' /\ IndexOK' /\ Counted(objects', pull)
  BY <1>1, <1>2, <1>3, <1>4, Parts, MaybeFreeStep, Zenon
<1>. QED
  BY <1>1, <1>5, Parts, RankStep, Zenon

LEMMA DieStore ==
  ASSUME StoreInv, NEW r \in Rank, Die(r)
  PROVE  StoreInv'
<1> DEFINE mine == {i \in DOMAIN leases : leases[i].rank = r}
           sl == [s \in Slot |->
             IF State(s) \notin {"PINNED_VALID", "DRAIN_IN_FLIGHT"} /\ \E i \in mine : leases[i].slot = s
             THEN FreeSlot ELSE slot[s]]
           ls == Without(leases, mine)
<1>1. /\ alive' = alive \ {r}
      /\ MaybeFree(Unheld(r, Held(r)), Held(r), sl, ls)
      /\ UNCHANGED <<pinned, versions, client, drain, pull, nextId>>
  BY Zenon DEF Die, Purge
<1>2. \A s \in Slot : sl[s] =
        IF State(s) \notin {"PINNED_VALID", "DRAIN_IN_FLIGHT"} /\ \E i \in mine : leases[i].slot = s
        THEN FreeSlot ELSE slot[s]
  BY Zenon
<1>3. DOMAIN ls = DOMAIN leases \ mine /\ \A i \in DOMAIN leases \ mine : ls[i] = leases[i]
  BY Zenon DEF Without
<1>4. mine \subseteq DOMAIN leases
  BY Zenon
<1> HIDE DEF mine, sl, ls
<1>5. \A i \in DOMAIN leases : leases[i].slot \in Slot /\ LeaseOK(i)
  BY Parts, Zenon DEF BackingOK, Core
<1>6. ASSUME NEW i \in DOMAIN ls
      PROVE  i \in DOMAIN leases /\ ls[i] = leases[i] /\ sl[leases[i].slot] = slot[leases[i].slot]
  <2>1. i \in DOMAIN leases /\ i \notin mine /\ ls[i] = leases[i]
    BY <1>3, Zenon
  <2>2. ASSUME NEW j \in mine PROVE leases[j].slot # leases[i].slot
    BY <1>4, <1>5, <2>1, Zenon DEF LeaseOK
  <2>. QED
    BY <1>2, <1>5, <2>1, <2>2, Zenon
<1>7. ASSUME NEW s \in Slot
      PROVE  sl[s] = slot[s] \/ (sl[s] = FreeSlot /\ State(s) \in {"RESERVED_D2H", "D2H_IN_FLIGHT"})
  BY <1>2, <1>4, <1>5 DEF LeaseOK, LeaseStates
<1>8. Trimmed(sl, ls)
  BY <1>6, <1>7, Zenon DEF Trimmed
<1>9. Resting /\ Held(r) \subseteq DOMAIN objects /\ UNCHANGED <<pinned, drain, nextId>>
  BY <1>1, Zenon DEF Resting, Held
<1>10. SameObjects(Unheld(r, Held(r))) /\ Counted(Unheld(r, Held(r)), pull)
  BY UnheldSame, Zenon
<1>11. Core' /\ BackingOK' /\ IndexOK' /\ Counted(objects', pull)
  BY <1>1, <1>8, <1>9, <1>10, Parts, MaybeFreeStep, Zenon
<1>12. alive' \subseteq Rank
  BY <1>1, Parts, Zenon
<1>. QED
  BY <1>1, <1>11, <1>12, Parts, RankStep, Zenon

LEMMA WarmFailedStore ==
  ASSUME StoreInv, NEW r \in Rank, WarmFailed(r)
  PROVE  StoreInv'
<1> DEFINE s == client[r].slot
<1>1. /\ client[r].pc = "warmed" /\ slot' = [slot EXCEPT ![s] = FreeSlot]
      /\ client' = [client EXCEPT ![r] = Idle]
      /\ UNCHANGED <<alive, leases, loc, cold, pinned, index, versions, drain, pull, nextId>>
  BY Zenon DEF WarmFailed
<1>2. s \in Slot /\ State(s) = "READBACK_IN_FLIGHT" /\ \A i \in DOMAIN leases : leases[i].slot # s
  <2>1. s \in Slot /\ WarmOK(r) /\ \A i \in DOMAIN leases : LeaseOK(i)
    BY Parts, Zenon DEF Core, ClientRecord
  <2>2. State(s) = "READBACK_IN_FLIGHT"
    BY <1>1, <2>1 DEF WarmOK, State
  <2>. QED
    BY <2>1, <2>2, Zenon DEF LeaseOK, LeaseStates
<1>3. \A t \in Slot : slot'[t] = IF t = s THEN FreeSlot ELSE slot[t]
  BY <1>1, Parts, Zenon DEF BackingOK
<1>4. client' \in [Rank -> ClientRecord] /\ \A q \in Rank : client'[q] = IF q = r THEN Idle ELSE client[q]
  BY <1>1, Parts, IdleTyped, Zenon
<1>5. slot' \in [Slot -> SlotRecord]
  BY <1>1, Parts, Zenon DEF BackingOK, SlotRecord, FreeSlot
<1> HIDE DEF s
<1>6. BackingOK' /\ IndexOK' /\ Counted(objects', pull)
  BY <1>1, <1>5, Parts, Zenon DEF BackingOK, IndexOK, index
<1>7. objects' = objects /\ leases' = leases /\ loc' = loc /\ cold' = cold /\ UNCHANGED <<pinned, drain, nextId>>
  BY <1>1, Zenon DEF index
<1>8. \A i \in DOMAIN leases : leases[i].slot \in Slot
  BY Parts, Zenon DEF BackingOK
<1>9. ASSUME NEW o \in DOMAIN objects, loc[o].kind = "PINNED" PROVE loc[o].slot \in Slot /\ loc[o].slot # s
  BY <1>2, <1>9, Parts, Zenon DEF Core, ObjectOK, Settled, BackingOK, IndexOK, LocRecord
<1>10. ASSUME NEW q \in Rank
       PROVE  /\ client'[q] = client[q] \/ client'[q].pc \in AtRest
              /\ Warming(q) /\ client'[q] = client[q] => slot'[client[q].slot] = slot[client[q].slot]
              /\ drain[q].stage # "idle" => slot'[drain[q].slot] = slot[drain[q].slot]
  <2>1. client[q].slot \in Slot /\ drain[q].slot \in Slot /\ DrainOK(q) /\ Apart(q, r)
    BY Parts, Zenon DEF Core, ClientRecord, DrainRecord
  <2>2. drain[q].stage # "idle" => drain[q].slot # s
    BY <1>2, <2>1 DEF DrainOK, State
  <2>3. Warming(q) /\ client'[q] = client[q] => client[q].slot # s
    BY <1>1, <1>4, <2>1, IdleTyped, Zenon DEF Apart, Warming, s
  <2>. QED
    BY <1>3, <1>4, <2>1, <2>2, <2>3, IdleTyped, Zenon DEF AtRest
<1>11. Shrunk
  BY <1>2, <1>3, <1>7, <1>8, <1>9, <1>10, Zenon DEF Shrunk
<1>12. Core'
  BY <1>11, Parts, ShrunkCore, Zenon
<1>. QED
  BY <1>1, <1>4, <1>6, <1>12, Parts, RankStep, Zenon

LEMMA CommitCandidateStore ==
  ASSUME StoreInv, NEW r \in Rank, NEW hashOk \in BOOLEAN, CommitCandidate(r, hashOk)
  PROVE  StoreInv'
<1> DEFINE o == client[r].obj
           i == client[r].id
           s == client[r].slot
<1>1. /\ client[r].pc = "staged" /\ o # i
      /\ client' = [client EXCEPT ![r] = Idle]
      /\ UNCHANGED <<alive, cold, pinned, byKey, versions, drain, pull, nextId>>
  BY Zenon DEF CommitCandidate, AgentAt
<1>2. \/ slot' = slot /\ loc' = loc /\ leases' = leases
      \/ /\ i \in DOMAIN leases
         /\ slot' = IF State(s) \in {"PINNED_VALID", "RESERVED_D2H", "D2H_IN_FLIGHT"}
                    THEN [slot EXCEPT ![s] = FreeSlot] ELSE slot
         /\ loc' = [loc EXCEPT ![i] = Nowhere]
         /\ leases' = Without(leases, {i})
  BY Zenon DEF CommitCandidate, Leased
<1>3. \/ objects' = objects
      \/ o \in DOMAIN objects /\ objects' = [objects EXCEPT ![o].holders = @ \cup {r}]
  BY Zenon DEF CommitCandidate, Readable, Exists
<1>4. \A x \in DOMAIN objects : objects[x] \in Object
  BY Parts, Zenon DEF IndexOK
<1>5. client' \in [Rank -> ClientRecord] /\ \A q \in Rank : client'[q] = IF q = r THEN Idle ELSE client[q]
  BY <1>1, Parts, IdleTyped, Zenon
<1>6. /\ s \in Slot /\ i \in Id /\ (i \in DOMAIN leases => leases[i].slot = s)
      /\ i \in DOMAIN objects => objects[i].state = "CREATING"
  BY <1>1, Parts, Zenon DEF Core, StageOK, Staging, Leased, Exists, ClientRecord
<1> HIDE DEF o, i, s
<1>7. SameObjects(objects') /\ SameExports(objects, objects')
  <2>1. CASE objects' = objects
    BY <1>4, <2>1, Zenon DEF SameObjects, SameExports
  <2>2. CASE o \in DOMAIN objects /\ objects' = [objects EXCEPT ![o].holders = @ \cup {r}]
    BY <1>4, <2>2, Zenon DEF SameObjects, SameExports, Object
  <2>. QED
    BY <1>3, <2>1, <2>2, Zenon
<1>8. Counted(objects', pull)
  BY <1>7, Parts, CountedSame, Zenon
<1>9. IndexOK'
  BY <1>1, <1>7, Parts, Zenon DEF IndexOK, SameObjects
<1>10. CASE slot' = slot /\ loc' = loc /\ leases' = leases
  <2>1. Resting
    BY <1>5, IdleTyped, Zenon DEF Resting, AtRest
  <2>2. UNCHANGED <<backing, pinned, drain, nextId>>
    BY <1>1, <1>10, Zenon DEF backing
  <2>3. Core' /\ BackingOK'
    BY <1>7, <2>1, <2>2, Parts, QuietStep, Zenon
  <2>. QED
    BY <1>1, <1>5, <1>8, <1>9, <2>3, Parts, RankStep, Zenon
<1>11. CASE /\ i \in DOMAIN leases
            /\ slot' = IF State(s) \in {"PINNED_VALID", "RESERVED_D2H", "D2H_IN_FLIGHT"}
                       THEN [slot EXCEPT ![s] = FreeSlot] ELSE slot
            /\ loc' = [loc EXCEPT ![i] = Nowhere]
            /\ leases' = Without(leases, {i})
  <2>1. /\ slot \in [Slot -> SlotRecord] /\ loc \in [Id -> LocRecord] /\ DOMAIN leases \subseteq Id
        /\ \A x \in DOMAIN leases : leases[x] \in [slot : Slot, rank : Rank] /\ LeaseOK(x)
        /\ cold \in [Id -> Bytes]
    BY Parts, Zenon DEF BackingOK, Core
  <2>2. \A t \in Slot : /\ slot'[t] = slot[t] \/ slot'[t] = FreeSlot
                        /\ t # s => slot'[t] = slot[t]
                        /\ State(t) \in {"DRAIN_IN_FLIGHT", "READBACK_IN_FLIGHT"} => slot'[t] = slot[t]
    BY <1>11, <2>1, Zenon
  <2>3. \A x \in Id : loc'[x] = IF x = i THEN Nowhere ELSE loc[x]
    BY <1>11, <2>1, Zenon
  <2>4. DOMAIN leases' = DOMAIN leases \ {i} /\ \A x \in DOMAIN leases' : leases'[x] = leases[x]
    BY <1>11, Zenon DEF Without
  <2>5. FreeSlot \in SlotRecord /\ Nowhere \in LocRecord
    BY IdleTyped, Zenon DEF FreeSlot, Nowhere, SlotRecord, LocRecord
  <2>6. slot' \in [Slot -> SlotRecord] /\ loc' \in [Id -> LocRecord]
    BY <1>11, <2>1, <2>5, Zenon
  <2>7. BackingOK'
    BY <1>1, <2>1, <2>4, <2>6, Zenon DEF BackingOK
  <2>8. slot[s].tid = i
    BY <1>6, <1>11, <2>1, Zenon DEF LeaseOK
  <2>9. ASSUME NEW x \in DOMAIN leases' PROVE slot'[leases[x].slot] = slot[leases[x].slot]
    <3>1. x # i /\ leases[x].slot \in Slot /\ slot[leases[x].slot].tid = x
      BY <2>1, <2>4, Zenon DEF LeaseOK
    <3>. QED
      BY <2>2, <2>8, <3>1, Zenon
  <2>10. ASSUME NEW x \in DOMAIN objects'
         PROVE  /\ x \in DOMAIN objects /\ objects'[x].slot = objects[x].slot
                /\ objects'[x].state = "CREATING" <=> objects[x].state = "CREATING"
                /\ loc'[x] = loc[x] \/ objects[x].state = "CREATING"
                /\ loc[x].kind = "PINNED" /\ loc'[x] = loc[x] => slot'[loc[x].slot] = slot[loc[x].slot]
    <3>1. /\ x \in DOMAIN objects /\ objects'[x].slot = objects[x].slot
          /\ objects'[x].state = "CREATING" <=> objects[x].state = "CREATING"
      BY <1>7, Zenon DEF SameObjects
    <3>2. x \in Id /\ ObjectOK(x) /\ loc[x].slot \in Slot
      BY <3>1, Parts, Zenon DEF Core, IndexOK, BackingOK, LocRecord
    <3>3. x = i => loc'[x].kind = "NONE"
      BY <2>3, <3>2 DEF Nowhere
    <3>4. x # i => loc'[x] = loc[x]
      BY <2>3, <3>2, Zenon
    <3>5. loc[x].kind = "PINNED" /\ x # i => loc[x].slot # s
      BY <2>8, <3>2, Zenon DEF ObjectOK
    <3>. QED
      BY <1>6, <2>2, <3>1, <3>2, <3>3, <3>4, <3>5, Zenon
  <2>11. ASSUME NEW q \in Rank
         PROVE  /\ client'[q] = client[q] \/ client'[q].pc \in AtRest
                /\ Warming(q) => slot'[client[q].slot] = slot[client[q].slot]
                /\ drain[q].stage # "idle" => slot'[drain[q].slot] = slot[drain[q].slot]
    <3>1. client[q].slot \in Slot /\ drain[q].slot \in Slot /\ DrainOK(q) /\ WarmOK(q)
      BY Parts, Zenon DEF Core, ClientRecord, DrainRecord
    <3>2. Warming(q) => State(client[q].slot) = "READBACK_IN_FLIGHT"
      BY <3>1 DEF WarmOK, Warming, State
    <3>3. drain[q].stage # "idle" => State(drain[q].slot) = "DRAIN_IN_FLIGHT"
      BY <3>1 DEF DrainOK, State
    <3>. QED
      BY <1>5, <2>2, <3>1, <3>2, <3>3, IdleTyped, Zenon DEF AtRest
  <2>12. \A x \in Id : loc'[x] \in {loc[x], Nowhere} /\ cold'[x] = cold[x]
    BY <1>1, <2>3, Zenon
  <2>13. \A x \in DOMAIN leases' : x \in DOMAIN leases /\ leases'[x] = leases[x]
    BY <2>4, Zenon
  <2>14. UNCHANGED <<pinned, drain, nextId>>
    BY <1>1, Zenon
  <2>15. Shrunk
    BY <2>2, <2>9, <2>10, <2>11, <2>12, <2>13, <2>14, Zenon DEF Shrunk
  <2>16. Core'
    BY <2>15, Parts, ShrunkCore, Zenon
  <2>. QED
    BY <1>1, <1>5, <1>8, <1>9, <2>7, <2>16, Parts, RankStep, Zenon
<1>. QED
  BY <1>2, <1>10, <1>11, Zenon
----------------------------------------------------------------------------
(* Versions.                                                               *)
LEMMA SealFailedStore ==
  ASSUME StoreInv, NEW v \in Version, NEW expected, SealFailed(v, expected)
  PROVE  StoreInv'
<1>1. /\ manifest' = [manifest EXCEPT ![v] = [state |-> "ERROR", members |-> {}]]
      /\ UNCHANGED <<alive, backing, pinned, index, latest, client, drain, pull, nextId>>
  BY Zenon DEF SealFailed
<1>2. objects' = objects /\ byKey' = byKey /\ SameObjects(objects') /\ Resting
  BY <1>1, Parts, Zenon DEF index, SameObjects, IndexOK, Resting
<1>3. Core' /\ BackingOK' /\ IndexOK'
  BY <1>1, <1>2, Parts, QuietStep, Zenon
<1>4. VersionsOK'
  BY <1>1, Parts, Zenon DEF VersionsOK
<1>5. Counted(objects', pull') /\ \A p \in Puller : PullOK(p)'
  BY <1>1, <1>2, Parts, Zenon DEF PullOK
<1>. QED
  BY <1>1, <1>3, <1>4, <1>5, Parts, RolloutStep, Zenon

LEMMA SealStore ==
  ASSUME StoreInv, NEW v \in Version, NEW promote \in BOOLEAN, Seal(v, promote)
  PROVE  StoreInv'
<1> DEFINE members == {o \in OfVersion(v) : Readable(o)}
           objs == [o \in DOMAIN objects |->
             IF o \in members THEN [objects[o] EXCEPT !.state = "SEALED"] ELSE objects[o]]
           man == [manifest EXCEPT ![v] = [state |-> "SEALED", members |-> members]]
           expired == IF promote THEN Expired({w \in Version : man[w].state = "SEALED"}, v) ELSE {}
           gone == Releasable(objs, UNION {OfVersion(w) : w \in expired})
<1>1. /\ Release(gone, objs, slot, leases)
      /\ manifest' = [w \in Version |->
            IF w \in expired /\ OfVersion(w) \subseteq gone THEN NoManifest ELSE man[w]]
      /\ latest' = IF promote THEN v ELSE latest
      /\ UNCHANGED <<alive, pinned, client, drain, pull, nextId>>
  BY ZenonT(30) DEF Seal
<1>2. \A x \in DOMAIN objects : objects[x] \in Object
  BY Parts, Zenon DEF IndexOK
<1>3. /\ DOMAIN objs = DOMAIN objects
      /\ \A x \in DOMAIN objects :
           objs[x] = IF x \in members THEN [objects[x] EXCEPT !.state = "SEALED"] ELSE objects[x]
  BY Zenon
<1>4. \A x \in members : objects[x].state # "CREATING"
  BY Zenon DEF Readable
<1>5. gone \subseteq DOMAIN objects /\ \A o \in gone : ~Busy(objs[o])
  BY Zenon DEF Releasable, OfVersion
<1>6. members \in SUBSET Id
  BY Parts, Zenon DEF OfVersion, IndexOK
<1>7. man \in [Version -> [state : {"NONE", "ERROR", "SEALED"}, members : SUBSET Id]]
  <2> HIDE DEF members
  <2>. QED
    BY <1>6, Parts, Zenon DEF VersionsOK
<1> HIDE DEF members, objs, man, expired, gone
<1>8. SameObjects(objs) /\ SameExports(objects, objs)
  BY <1>2, <1>3, <1>4 DEF SameObjects, SameExports, Object
<1>9. Counted(objs, pull)
  BY <1>8, Parts, CountedSame, Zenon
<1>10. Resting /\ Trimmed(slot, leases) /\ UNCHANGED <<pinned, drain, nextId>>
  BY <1>1, Zenon DEF Resting, Trimmed
<1>11. Core' /\ BackingOK' /\ IndexOK' /\ Counted(objects', pull)
  BY <1>1, <1>5, <1>8, <1>9, <1>10, Parts, ReleaseStep, Zenon
<1>12. VersionsOK'
  BY <1>1, <1>7, Parts, Zenon DEF VersionsOK, NoManifest
<1>13. \A p \in Puller : PullOK(p)'
  BY <1>1, Parts, Zenon DEF PullOK
<1>. QED
  BY <1>1, <1>11, <1>12, <1>13, Parts, RolloutStep, Zenon

LEMMA DropVersionStore ==
  ASSUME StoreInv, NEW v \in Version, DropVersion(v)
  PROVE  StoreInv'
<1> DEFINE gone == Releasable(objects, OfVersion(v))
<1>1. /\ Release(gone, objects, slot, leases)
      /\ manifest' = [manifest EXCEPT ![v] = NoManifest]
      /\ latest' = IF latest = v THEN 0 ELSE latest
      /\ UNCHANGED <<alive, pinned, client, drain, pull, nextId>>
  BY Zenon DEF DropVersion
<1>2. gone \subseteq DOMAIN objects /\ \A o \in gone : ~Busy(objects[o])
  BY Zenon DEF Releasable, OfVersion
<1> HIDE DEF gone
<1>3. SameObjects(objects)
  BY Parts, Zenon DEF SameObjects, IndexOK
<1>4. Resting /\ Trimmed(slot, leases) /\ UNCHANGED <<pinned, drain, nextId>>
  BY <1>1, Zenon DEF Resting, Trimmed
<1>5. Core' /\ BackingOK' /\ IndexOK' /\ Counted(objects', pull)
  BY <1>1, <1>2, <1>3, <1>4, Parts, ReleaseStep, Zenon
<1>6. VersionsOK'
  BY <1>1, Parts, Zenon DEF VersionsOK, NoManifest
<1>7. \A p \in Puller : PullOK(p)'
  BY <1>1, Parts, Zenon DEF PullOK
<1>. QED
  BY <1>1, <1>5, <1>6, <1>7, Parts, RolloutStep, Zenon
----------------------------------------------------------------------------
(* Pulls.                                                                  *)
Live == {"VALID", "SEALED", "EXPORT"}
Reexport(ob, n, st) == [ob EXCEPT !.exports = n, !.state = st]
LEMMA Reexported ==
  ASSUME NEW ob \in Object, NEW n \in Nat, NEW st \in Live
  PROVE  LET b == Reexport(ob, n, st)
         IN  b \in Object /\ b.exports = n /\ b.state = st /\ b.slot = ob.slot
<1> DEFINE c == [ob EXCEPT !.exports = n]
           b == Reexport(ob, n, st)
<1>1. c \in Object /\ c.exports = n /\ c.slot = ob.slot
  BY Zenon DEF Object
<1>2. b = [c EXCEPT !.state = st]
  BY Zenon DEF Object, Reexport
<1> HIDE DEF c, b
<1>3. b \in Object /\ b.exports = n /\ b.state = st /\ b.slot = ob.slot
  BY <1>1, <1>2, Zenon DEF Object, Live
<1>. QED
  BY <1>3, Zenon DEF b

LEMMA PullStore ==
  ASSUME StoreInv, NEW p \in Puller, NEW v \in Version, NEW o \in DOMAIN objects, Pull(p, v, o)
  PROVE  StoreInv'
<1>1. /\ pull[p].pc = "idle" /\ objects[o].state = "SEALED"
      /\ objects' = [objects EXCEPT ![o].exports = @ + 1, ![o].state = "EXPORT"]
      /\ UNCHANGED <<alive, backing, pinned, byKey, versions, client, drain, nextId>>
  BY Zenon DEF Pull
<1>2. o \in Id /\ loc[o].slot \in Slot /\ \A x \in DOMAIN objects : objects[x] \in Object
  BY Parts, Zenon DEF IndexOK, BackingOK, LocRecord
<1>3. PICK x \in PullRecord :
        x.pc # "idle" /\ x.obj = o /\ (x.pc = "staging" => x.data # None) /\ pull' = [pull EXCEPT ![p] = x]
  <2>1. pinned[loc[o].slot] \in Bytes /\ cold[o] \in Bytes
    BY <1>2, Parts, Zenon DEF BackingOK
  <2> DEFINE a == [pc |-> "sending", obj |-> o, data |-> pinned[loc[o].slot]]
             b == [pc |-> "staging", obj |-> o, data |-> cold[o]]
  <2>2. a \in PullRecord /\ a.pc # "idle" /\ a.obj = o /\ a.pc # "staging"
    BY <1>2, <2>1, Zenon DEF PullRecord
  <2>3. b \in PullRecord /\ b.pc # "idle" /\ b.obj = o /\ b.data = cold[o]
    BY <1>2, <2>1, Zenon DEF PullRecord
  <2>4. pull' = [pull EXCEPT ![p] = a] \/ (cold[o] # None /\ pull' = [pull EXCEPT ![p] = b])
    BY Zenon DEF Pull
  <2> HIDE DEF a, b
  <2>. QED
    BY <2>2, <2>3, <2>4, Zenon
<1>4. /\ \A y \in DOMAIN objects \ {o} : objects'[y] = objects[y]
      /\ DOMAIN objects' = DOMAIN objects
      /\ objects'[o].exports = objects[o].exports + 1 /\ objects'[o].state = "EXPORT"
      /\ objects'[o].slot = objects[o].slot /\ objects'[o] \in Object
  <2> DEFINE b == Reexport(objects[o], objects[o].exports + 1, "EXPORT")
  <2>1. objects[o] \in Object /\ objects[o].exports + 1 \in Nat /\ "EXPORT" \in Live
    BY <1>2 DEF Object, Live
  <2>2. b \in Object /\ b.exports = objects[o].exports + 1 /\ b.state = "EXPORT" /\ b.slot = objects[o].slot
    BY ONLY <2>1, Reexported
  <2>3. objects' = [objects EXCEPT ![o] = b]
    BY <1>1, Zenon DEF Reexport
  <2> HIDE DEF b
  <2>. QED
    BY <2>2, <2>3, Zenon
<1>5. SameObjects(objects') /\ Resting
  BY <1>1, <1>2, <1>4, Zenon DEF SameObjects, Resting
<1>6. Core' /\ BackingOK' /\ IndexOK'
  BY <1>1, <1>5, Parts, QuietStep, Zenon
<1>7. pull' \in [Puller -> PullRecord] /\ \A q \in Puller : pull'[q] = IF q = p THEN x ELSE pull[q]
  BY <1>3, Parts, Zenon
<1>8. \A q \in Puller : PullOK(q)'
  BY <1>2, <1>3, <1>7, Parts, Zenon DEF PullOK
<1>9. ASSUME NEW y \in Id \ {o} PROVE PullsOf(pull', y) = PullsOf(pull, y)
  BY <1>1, <1>3, <1>7, Zenon DEF PullsOf
<1>10. PullsOf(pull', o) = PullsOf(pull, o) \cup {p} /\ p \notin PullsOf(pull, o)
  BY <1>1, <1>3, <1>7, Zenon DEF PullsOf
<1>11. /\ IsFiniteSet(PullsOf(pull', o))
       /\ Cardinality(PullsOf(pull', o)) = Cardinality(PullsOf(pull, o)) + 1
       /\ objects[o].exports = Cardinality(PullsOf(pull, o))
  <2>1. IsFiniteSet(PullsOf(pull, o)) /\ objects[o].exports = Cardinality(PullsOf(pull, o))
    BY <1>2, Parts, Zenon DEF Counted
  <2>2. /\ IsFiniteSet(PullsOf(pull, o) \cup {p})
        /\ Cardinality(PullsOf(pull, o) \cup {p}) = Cardinality(PullsOf(pull, o)) + 1
    BY <1>10, <2>1, FS_AddElement, Zenon
  <2>. QED
    BY <1>10, <2>1, <2>2, Zenon
<1>12. Counted(objects', pull')
  <2>1. objects'[o].exports = Cardinality(PullsOf(pull', o)) /\ objects'[o].state # "CREATING"
    BY <1>4, <1>11, Zenon
  <2> SUFFICES ASSUME NEW y \in Id
               PROVE  /\ IsFiniteSet(PullsOf(pull', y))
                      /\ PullsOf(pull', y) # {} => y \in DOMAIN objects' /\ objects'[y].state # "CREATING"
                      /\ y \in DOMAIN objects' => objects'[y].exports = Cardinality(PullsOf(pull', y))
    BY Zenon DEF Counted
  <2>2. CASE y = o
    BY <1>4, <1>11, <2>1, <2>2, Zenon
  <2>3. CASE y # o
    <3>1. PullsOf(pull', y) = PullsOf(pull, y) /\ (y \in DOMAIN objects => objects'[y] = objects[y])
      BY <1>4, <1>9, <2>3, Zenon
    <3>. QED
      BY <1>4, <3>1, Parts, Zenon DEF Counted
  <2>. QED
    BY <2>2, <2>3, Zenon
<1>13. VersionsOK'
  BY <1>1, Parts, Zenon DEF VersionsOK, versions
<1>. QED
  BY <1>1, <1>6, <1>7, <1>8, <1>12, <1>13, Parts, RolloutStep, Zenon

(* The hold of a pull that ends is given back.                             *)
LEMMA HoldBack ==
  ASSUME StoreInv, NEW p \in Puller, pull[p].pc # "idle", pull' = [pull EXCEPT ![p] = NoPull],
         NEW st \in Live, NEW objs,
         LET o == pull[p].obj
         IN  objs = [objects EXCEPT ![o].exports = objects[o].exports - 1, ![o].state = st]
  PROVE  SameObjects(objs) /\ Counted(objs, pull')
<1> DEFINE o == pull[p].obj
           b == Reexport(objects[o], objects[o].exports - 1, st)
<1>1. /\ o \in DOMAIN objects /\ objects[o].state # "CREATING" /\ objects[o].exports \in Nat \ {0}
      /\ \A a : OneLess(o, a) => Counted(a, pull')
  BY PullEnds, Zenon
<1>2. objs = [objects EXCEPT ![o] = b]
  BY Zenon DEF Reexport
<1>3. \A x \in DOMAIN objects : objects[x] \in Object
  BY Parts, Zenon DEF IndexOK
<1>4. objects[o] \in Object /\ objects[o].exports - 1 \in Nat
  BY <1>1, <1>3, SMTT(20)
<1>5. b \in Object /\ b.exports = objects[o].exports - 1 /\ b.state = st /\ b.slot = objects[o].slot
  BY ONLY <1>4, st \in Live, Reexported, SMTT(20)
<1> HIDE DEF o, b
<1>6. /\ DOMAIN objs = DOMAIN objects /\ objs[o] = b
      /\ \A x \in DOMAIN objects \ {o} : objs[x] = objects[x]
  BY <1>1, <1>2, Zenon
<1>7. SameObjects(objs)
  BY <1>1, <1>3, <1>5, <1>6, Zenon DEF SameObjects, Live
<1>8. OneLess(o, objs)
  BY <1>5, <1>6, Zenon DEF OneLess, Live
<1>. QED
  BY <1>1, <1>7, <1>8, Zenon

LEMMA StageFailedStore ==
  ASSUME StoreInv, NEW p \in Puller, StageFailed(p)
  PROVE  StoreInv'
<1> DEFINE o == pull[p].obj
<1>1. /\ pull[p].pc # "idle" /\ pull' = [pull EXCEPT ![p] = NoPull]
      /\ UNCHANGED <<alive, backing, pinned, byKey, versions, client, drain, nextId>>
  BY Zenon DEF StageFailed
<1>2. o \in DOMAIN objects /\ pull' \in [Puller -> PullRecord] /\ \A q \in Puller : PullOK(q)'
  BY <1>1, PullEnds, Zenon
<1>3. objects' = [objects EXCEPT ![o].exports = objects[o].exports - 1, ![o].state = "SEALED"]
  BY <1>2, Zenon DEF StageFailed, Exists
<1>4. SameObjects(objects') /\ Counted(objects', pull')
  <2>1. "SEALED" \in Live
    BY Zenon DEF Live
  <2>. QED
    BY <1>1, <1>3, <2>1, HoldBack, Zenon
<1>5. Resting /\ VersionsOK'
  BY <1>1, Parts, Zenon DEF Resting, VersionsOK, versions
<1>6. Core' /\ BackingOK' /\ IndexOK'
  BY <1>1, <1>4, <1>5, Parts, QuietStep, Zenon
<1>. QED
  BY <1>1, <1>2, <1>4, <1>5, <1>6, Parts, RolloutStep, Zenon

LEMMA PullDoneStore ==
  ASSUME StoreInv, NEW p \in Puller, PullDone(p)
  PROVE  StoreInv'
<1> DEFINE o == pull[p].obj
           left == IF objects[o].exports > 0 THEN objects[o].exports - 1 ELSE 0
           objs == IF Exists(o)
                   THEN [objects EXCEPT ![o].exports = left,
                                        ![o].state = IF left = 0 THEN "SEALED" ELSE @]
                   ELSE objects
<1>1. /\ pull[p].pc # "idle" /\ pull' = [pull EXCEPT ![p] = NoPull]
      /\ MaybeFree(objs, {o} \cap DOMAIN objs, slot, leases)
      /\ UNCHANGED <<alive, pinned, versions, client, drain, nextId>>
  BY Zenon DEF PullDone
<1>2. /\ o \in DOMAIN objects /\ pull' \in [Puller -> PullRecord] /\ \A q \in Puller : PullOK(q)'
      /\ objects[o].exports \in Nat \ {0} /\ objects[o].state # "CREATING"
  BY <1>1, PullEnds, Zenon
<1>3. SameObjects(objs) /\ Counted(objs, pull')
  <2> DEFINE st == IF left = 0 THEN "SEALED" ELSE objects[o].state
  <2>1. left = objects[o].exports - 1
    BY <1>2
  <2>2. st \in Live
    BY <1>2, Parts, Zenon DEF IndexOK, Object, Live
  <2>3. objs = [objects EXCEPT ![o].exports = left, ![o].state = st]
    <3>1. objs = [objects EXCEPT ![o].exports = left, ![o].state = IF left = 0 THEN "SEALED" ELSE @]
      BY <1>2, Zenon DEF Exists
    <3> HIDE DEF left, objs, o
    <3>2. [objects EXCEPT ![o].exports = left, ![o].state = IF left = 0 THEN "SEALED" ELSE @]
            = [objects EXCEPT ![o].exports = left, ![o].state = st]
      BY <1>2, Parts, Zenon DEF IndexOK, Object
    <3>. QED
      BY <3>1, <3>2, Zenon
  <2> HIDE DEF st, objs, left
  <2>. QED
    BY <1>1, <2>1, <2>2, <2>3, HoldBack, Zenon
<1> HIDE DEF o, left, objs
<1>4. /\ Resting /\ Trimmed(slot, leases) /\ UNCHANGED <<pinned, drain, nextId>>
      /\ {o} \cap DOMAIN objs \subseteq DOMAIN objects /\ VersionsOK'
  BY <1>1, <1>3, Parts, Zenon DEF Resting, Trimmed, SameObjects, VersionsOK, versions
<1>5. Core' /\ BackingOK' /\ IndexOK' /\ Counted(objects', pull')
  BY <1>1, <1>3, <1>4, Parts, MaybeFreeStep, Zenon
<1>. QED
  BY <1>1, <1>2, <1>4, <1>5, Parts, RolloutStep, Zenon
----------------------------------------------------------------------------
(* A thread of a rank that goes on with what it has.                       *)
SameFields(r) ==
  /\ client'[r].obj = client[r].obj /\ client'[r].id = client[r].id /\ client'[r].key = client[r].key
  /\ client'[r].slot = client[r].slot /\ client'[r].data = client[r].data
Moved(r, pc) ==
  /\ client' \in [Rank -> ClientRecord] /\ client'[r].pc = pc /\ SameFields(r)
  /\ \A q \in Rank \ {r} : client'[q] = client[q]

LEMMA GotoMoves ==
  ASSUME StoreInv, NEW r \in Rank,
         NEW pc \in {"copying", "landed", "staged", "warmed", "reading"}, Goto(r, pc)
  PROVE  Moved(r, pc)
<1>1. client \in [Rank -> ClientRecord] /\ client[r] \in ClientRecord
  BY Parts, Zenon
<1> DEFINE c == [client[r] EXCEPT !.pc = pc]
<1>2. /\ c \in ClientRecord /\ c.pc = pc /\ c.obj = client[r].obj /\ c.id = client[r].id
      /\ c.key = client[r].key /\ c.slot = client[r].slot /\ c.data = client[r].data
  BY <1>1, Zenon DEF ClientRecord
<1>3. client' = [client EXCEPT ![r] = c]
  BY Zenon DEF Goto
<1> HIDE DEF c
<1>4. client'[r] = c /\ client' \in [Rank -> ClientRecord] /\ \A q \in Rank \ {r} : client'[q] = client[q]
  BY <1>1, <1>2, <1>3, Zenon
<1>. QED
  BY <1>2, <1>4, Zenon DEF Moved, SameFields

(* Steps that write the bytes of a slot, or none, and a copy goes on.      *)
Advanced(r) ==
  \/ client'[r] = client[r]
  \/ /\ SameFields(r)
     /\ \/ client[r].pc = "granted" /\ client'[r].pc = "copying"
        \/ client[r].pc = "copying" /\ client'[r].pc = "landed" /\ pinned'[client[r].slot] # None
        \/ client[r].pc = "landed" /\ client'[r].pc = "staged"
        \/ client[r].pc = "warming" /\ client'[r].pc = "warmed" /\ pinned'[client[r].slot] # None

LEMMA WrittenCore ==
  ASSUME TypeOK, Core, UNCHANGED <<backing, objects, drain, nextId>>,
         \A s \in Slot : pinned'[s] = pinned[s] \/ pinned'[s] # None,
         \A r \in Rank : Advanced(r)
  PROVE  Core'
<1>1. /\ slot' = slot /\ leases' = leases /\ loc' = loc /\ cold' = cold
      /\ objects' = objects /\ drain' = drain /\ nextId' = nextId
  BY Zenon DEF backing
<1>2. \A i \in Id : Used(i) => Used(i)'
  BY <1>1, UsedKept, Zenon DEF Advanced
<1>3. DOMAIN leases \subseteq Id /\ DOMAIN objects \subseteq Id
  BY Zenon DEF TypeOK
<1>4. \A i \in DOMAIN leases' : LeaseOK(i)'
  BY <1>1, <1>2, <1>3, Zenon DEF Core, LeaseOK, State
<1>5. \A i \in Id : LocOK(i)'
  BY <1>1, <1>2, Zenon DEF Core, LocOK
<1>6. \A s \in Slot : SlotOK(s)'
  BY <1>1, Zenon DEF Core, SlotOK, State
<1>7. \A o \in DOMAIN objects' : ObjectOK(o)'
  BY <1>1, <1>2, <1>3, Zenon DEF Core, ObjectOK, State, Readable, Exists
<1>8. ASSUME NEW r \in Rank PROVE WaitOK(r)' /\ StageOK(r)' /\ WarmOK(r)' /\ DrainOK(r)'
  <2>1. WaitOK(r) /\ StageOK(r) /\ WarmOK(r) /\ DrainOK(r) /\ client[r].slot \in Slot
    BY Zenon DEF Core, TypeOK
  <2>2. Advanced(r) /\ (pinned'[client[r].slot] = pinned[client[r].slot] \/ pinned'[client[r].slot] # None)
    BY <2>1, Zenon
  <2>3. WaitOK(r)'
    BY <1>1, <2>1, <2>2, Zenon DEF WaitOK, Waiting, Advanced, SameFields
  <2>4. StageOK(r)'
    BY <1>1, <1>2, <2>1, <2>2, ZenonT(30) DEF StageOK, Staging, Leased, Exists, Advanced, SameFields
  <2>5. WarmOK(r)'
    BY <1>1, <1>2, <2>1, <2>2, SMTT(20) DEF WarmOK, Exists, Advanced, SameFields
  <2>6. DrainOK(r)'
    BY <1>1, <1>2, <2>1, Zenon DEF DrainOK
  <2>. QED
    BY <2>3, <2>4, <2>5, <2>6, Zenon
<1>9. ASSUME NEW q \in Rank, NEW r \in Rank PROVE Apart(q, r)'
  <2>1. Apart(q, r) /\ Advanced(q) /\ Advanced(r)
    BY Zenon DEF Core
  <2>. QED
    BY <1>1, <2>1, Zenon DEF Apart, Waiting, Staging, Warming, Advanced, SameFields
<1>. QED
  BY <1>4, <1>5, <1>6, <1>7, <1>8, <1>9, Zenon DEF Core

LEMMA LandStore ==
  ASSUME StoreInv, NEW r \in Rank, Land(r)
  PROVE  StoreInv'
<1>1. /\ client[r].pc = "copying" /\ Goto(r, "landed")
      /\ pinned' = [pinned EXCEPT ![client[r].slot] = client[r].key]
      /\ UNCHANGED <<alive, backing, index, versions, drain, pull, nextId>>
  BY Zenon DEF Land, AgentAt
<1>2. client[r].slot \in Slot /\ client[r].key # None /\ client[r].key \in Bytes
  BY <1>1, StoreAssumption, Parts, Zenon DEF Core, StageOK, Staging, ClientRecord
<1>3. Moved(r, "landed")
  BY <1>1, GotoMoves, Zenon
<1>4. /\ pinned' \in [Slot -> Bytes] /\ pinned'[client[r].slot] # None
      /\ \A s \in Slot : pinned'[s] = pinned[s] \/ pinned'[s] # None
  BY <1>1, <1>2, Parts, Zenon
<1>5. \A q \in Rank : Advanced(q)
  BY <1>1, <1>3, <1>4, Zenon DEF Moved, Advanced
<1>6. UNCHANGED <<backing, objects, drain, nextId>> /\ byKey' = byKey
  BY <1>1, Zenon DEF index
<1>7. Core'
  BY <1>4, <1>5, <1>6, Parts, WrittenCore, Zenon
<1>8. BackingOK' /\ IndexOK' /\ Counted(objects', pull)
  BY <1>6, Parts, Zenon DEF BackingOK, IndexOK, backing
<1>9. client' \in [Rank -> ClientRecord]
  BY <1>3, Zenon DEF Moved
<1>. QED
  BY <1>1, <1>4, <1>7, <1>8, <1>9, Parts, RankStep, Zenon

LEMMA WarmCopyStore ==
  ASSUME StoreInv, NEW r \in Rank, WarmCopy(r)
  PROVE  StoreInv'
<1>1. /\ client[r].pc = "warming" /\ Goto(r, "warmed")
      /\ pinned' = [pinned EXCEPT ![client[r].slot] = client[r].data]
      /\ UNCHANGED <<alive, backing, index, versions, drain, pull, nextId>>
  BY Zenon DEF WarmCopy
<1>2. client[r].slot \in Slot /\ client[r].data # None /\ client[r].data \in Bytes
  BY <1>1, Parts, Zenon DEF Core, WarmOK, ClientRecord
<1>3. Moved(r, "warmed")
  BY <1>1, GotoMoves, Zenon
<1>4. /\ pinned' \in [Slot -> Bytes] /\ pinned'[client[r].slot] # None
      /\ \A s \in Slot : pinned'[s] = pinned[s] \/ pinned'[s] # None
  BY <1>1, <1>2, Parts, Zenon
<1>5. \A q \in Rank : Advanced(q)
  BY <1>1, <1>3, <1>4, Zenon DEF Moved, Advanced
<1>6. UNCHANGED <<backing, objects, drain, nextId>> /\ byKey' = byKey
  BY <1>1, ZenonT(30) DEF index
<1>7. Core'
  BY <1>4, <1>5, <1>6, Parts, WrittenCore, Zenon
<1>8. BackingOK' /\ IndexOK' /\ Counted(objects', pull)
  BY <1>6, Parts, Zenon DEF BackingOK, IndexOK, backing
<1>9. client' \in [Rank -> ClientRecord]
  BY <1>3, Zenon DEF Moved
<1>. QED
  BY <1>1, <1>4, <1>7, <1>8, <1>9, Parts, RankStep, Zenon

LEMMA StageColdStore ==
  ASSUME StoreInv, NEW p \in Puller, StageCold(p)
  PROVE  StoreInv'
<1>1. /\ pull[p].pc = "staging"
      /\ pinned' = [pinned EXCEPT ![0] = pull[p].data]
      /\ pull' = [pull EXCEPT ![p].pc = "sending"]
      /\ UNCHANGED <<alive, backing, index, versions, client, drain, nextId>>
  BY Zenon DEF StageCold
<1>2. pull \in [Puller -> PullRecord] /\ PullOK(p) /\ pull[p].data \in Bytes /\ pull[p].data # None
  BY <1>1, Parts, Zenon DEF PullOK, PullRecord
<1>3. pinned' \in [Slot -> Bytes] /\ \A s \in Slot : pinned'[s] = pinned[s] \/ pinned'[s] # None
  BY <1>1, <1>2, Parts, IdleTyped, Zenon
<1>4. UNCHANGED <<backing, objects, drain, nextId>> /\ byKey' = byKey /\ \A q \in Rank : Advanced(q)
  BY <1>1, Zenon DEF index, Advanced
<1>5. Core'
  BY <1>3, <1>4, Parts, WrittenCore, Zenon
<1>6. BackingOK' /\ IndexOK' /\ VersionsOK'
  BY <1>1, <1>4, Parts, Zenon DEF BackingOK, IndexOK, VersionsOK, backing, versions
<1>7. /\ pull' \in [Puller -> PullRecord]
      /\ \A q \in Puller \ {p} : pull'[q] = pull[q]
      /\ pull'[p].pc = "sending" /\ pull'[p].obj = pull[p].obj
  BY <1>1, <1>2, Zenon DEF PullRecord
<1>8. \A q \in Puller : PullOK(q)'
  BY <1>1, <1>7, Parts, Zenon DEF PullOK
<1>9. \A o \in Id : PullsOf(pull', o) = PullsOf(pull, o)
  BY <1>1, <1>7, Zenon DEF PullsOf
<1>10. Counted(objects', pull')
  BY <1>4, <1>9, Parts, Zenon DEF Counted
<1>. QED
  BY <1>1, <1>3, <1>5, <1>6, <1>7, <1>8, <1>10, Parts, RolloutStep, ZenonT(30)

LEMMA DrainCopyStore ==
  ASSUME StoreInv, NEW r \in Rank, DrainCopy(r)
  PROVE  StoreInv'
<1>1. /\ drain[r].stage = "copy"
      /\ drain' = [drain EXCEPT ![r].stage = "commit", ![r].data = pinned[drain[r].slot]]
      /\ UNCHANGED <<alive, backing, pinned, index, versions, client, pull, nextId>>
  BY Zenon DEF DrainCopy
<1>2. drain \in [Rank -> DrainRecord] /\ drain[r] \in DrainRecord /\ drain[r].slot \in Slot /\ DrainOK(r)
  BY Parts, Zenon DEF DrainRecord, Core
<1>3. State(drain[r].slot) = "DRAIN_IN_FLIGHT"
  BY <1>1, <1>2 DEF DrainOK, State
<1>4. pinned[drain[r].slot] # None /\ pinned[drain[r].slot] \in Bytes
  BY <1>2, <1>3, Parts, Zenon DEF Core, SlotOK, Settled
<1>5. /\ drain' \in [Rank -> DrainRecord] /\ \A q \in Rank \ {r} : drain'[q] = drain[q]
      /\ drain'[r].stage = "commit" /\ drain'[r].slot = drain[r].slot /\ drain'[r].tid = drain[r].tid
      /\ drain'[r].data # None
  <2> DEFINE j == [drain[r] EXCEPT !.stage = "commit", !.data = pinned[drain[r].slot]]
  <2>1. /\ j \in DrainRecord /\ j.stage = "commit" /\ j.slot = drain[r].slot /\ j.tid = drain[r].tid
        /\ j.data # None
    BY ONLY <1>2, <1>4, Zenon DEF DrainRecord
  <2>2. drain' = [drain EXCEPT ![r] = j]
    BY <1>1, Zenon
  <2> HIDE DEF j
  <2>. QED
    BY <1>2, <2>1, <2>2, Zenon
<1>6. /\ slot' = slot /\ leases' = leases /\ loc' = loc /\ cold' = cold
      /\ objects' = objects /\ byKey' = byKey /\ client' = client /\ nextId' = nextId /\ pinned' = pinned
  BY <1>1, Zenon DEF backing, index
<1>7. Core'
  <2>1. \A i \in Id : Used(i) <=> Used(i)'
    BY <1>6, Zenon DEF Used, Waiting
  <2>2. /\ \A i \in DOMAIN leases : LeaseOK(i)
        /\ \A i \in Id : LocOK(i)
        /\ \A s \in Slot : SlotOK(s)
        /\ \A o \in DOMAIN objects : ObjectOK(o)
        /\ DOMAIN leases \subseteq Id /\ DOMAIN objects \subseteq Id
    BY Parts, Zenon DEF Core, BackingOK, IndexOK
  <2>3. /\ \A i \in DOMAIN leases' : LeaseOK(i)'
        /\ \A i \in Id : LocOK(i)'
        /\ \A s \in Slot : SlotOK(s)'
        /\ \A o \in DOMAIN objects' : ObjectOK(o)'
    BY <1>6, <2>1, <2>2, Zenon DEF LeaseOK, LocOK, SlotOK, ObjectOK, State, Readable, Exists
  <2>4. ASSUME NEW q \in Rank PROVE WaitOK(q)' /\ StageOK(q)' /\ WarmOK(q)' /\ DrainOK(q)'
    <3>1. WaitOK(q) /\ StageOK(q) /\ WarmOK(q) /\ DrainOK(q)
      BY Parts, Zenon DEF Core
    <3>2. WaitOK(q)' /\ StageOK(q)' /\ WarmOK(q)'
      BY <1>6, <2>1, <3>1, Zenon DEF WaitOK, StageOK, WarmOK, Waiting, Staging, Leased, Exists
    <3>3. CASE q = r
      BY <1>1, <1>5, <1>6, <2>1, <3>1, <3>2, <3>3, Zenon DEF DrainOK
    <3>4. CASE q # r
      BY <1>5, <1>6, <2>1, <3>1, <3>2, <3>4, Zenon DEF DrainOK
    <3>. QED
      BY <3>3, <3>4, Zenon
  <2>5. ASSUME NEW q \in Rank, NEW t \in Rank PROVE Apart(q, t)'
    <3>1. Apart(q, t)
      BY Parts, Zenon DEF Core
    <3>2. \A x \in Rank : drain'[x].slot = drain[x].slot /\ (drain'[x].stage # "idle" <=> drain[x].stage # "idle")
      BY <1>1, <1>5, Zenon
    <3>. QED
      BY <1>6, <3>1, <3>2, Zenon DEF Apart, Waiting, Staging, Warming
  <2>. QED
    BY <2>3, <2>4, <2>5, Zenon DEF Core
<1>8. BackingOK' /\ IndexOK' /\ Counted(objects', pull)
  BY <1>6, Parts, Zenon DEF BackingOK, IndexOK
<1>. QED
  BY <1>1, <1>5, <1>7, <1>8, Parts, RankStep, Zenon
----------------------------------------------------------------------------
(* The commit of a creator.                                                *)
LEMMA CommitCreatorStore ==
  ASSUME StoreInv, NEW r \in Rank, CommitCreator(r)
  PROVE  StoreInv'
<1> DEFINE o == client[r].obj
<1>1. /\ client[r].pc = "staged" /\ client[r].id = o
      /\ client' = [client EXCEPT ![r] = Idle]
      /\ UNCHANGED <<alive, backing, pinned, byKey, versions, drain, pull, nextId>>
  BY Zenon DEF CommitCreator, AgentAt
<1>2. \/ objects' = objects
      \/ /\ o \in DOMAIN objects /\ objects[o].state = "CREATING" /\ loc[o].kind # "NONE"
         /\ objects' = [objects EXCEPT ![o].state = "VALID"]
  BY Zenon DEF CommitCreator, Exists
<1> HIDE DEF o
<1>3. client' \in [Rank -> ClientRecord] /\ \A q \in Rank : client'[q] = IF q = r THEN Idle ELSE client[q]
  BY <1>1, Parts, IdleTyped, Zenon
<1>4. /\ slot' = slot /\ leases' = leases /\ loc' = loc /\ cold' = cold
      /\ byKey' = byKey /\ drain' = drain /\ nextId' = nextId /\ pinned' = pinned
  BY <1>1, Zenon DEF backing
<1>5. \A x \in DOMAIN objects : objects[x] \in Object
  BY Parts, Zenon DEF IndexOK
<1>6. CASE objects' = objects
  <2>1. SameObjects(objects') /\ Resting
    BY <1>3, <1>5, <1>6, IdleTyped, Zenon DEF SameObjects, Resting, AtRest
  <2>2. Core' /\ BackingOK' /\ IndexOK'
    BY <1>1, <2>1, Parts, QuietStep, Zenon
  <2>. QED
    BY <1>1, <1>3, <1>6, <2>2, Parts, RankStep, Zenon
<1>7. CASE /\ o \in DOMAIN objects /\ objects[o].state = "CREATING" /\ loc[o].kind # "NONE"
           /\ objects' = [objects EXCEPT ![o].state = "VALID"]
  <2>1. /\ DOMAIN objects' = DOMAIN objects /\ objects'[o] \in Object
        /\ objects'[o].state = "VALID" /\ objects'[o].slot = objects[o].slot
        /\ objects'[o].exports = objects[o].exports
        /\ \A x \in DOMAIN objects \ {o} : objects'[x] = objects[x]
    BY <1>5, <1>7, Zenon DEF Object
  <2>2. IndexOK' /\ BackingOK'
    BY <1>4, <1>5, <2>1, Parts, Zenon DEF IndexOK, BackingOK
  <2>3. Counted(objects', pull)
    <3> SUFFICES ASSUME NEW x \in Id
                 PROVE  /\ IsFiniteSet(PullsOf(pull, x))
                        /\ PullsOf(pull, x) # {} => x \in DOMAIN objects' /\ objects'[x].state # "CREATING"
                        /\ x \in DOMAIN objects' => objects'[x].exports = Cardinality(PullsOf(pull, x))
      BY Zenon DEF Counted
    <3>1. /\ IsFiniteSet(PullsOf(pull, x))
          /\ PullsOf(pull, x) # {} => x \in DOMAIN objects /\ objects[x].state # "CREATING"
          /\ x \in DOMAIN objects => objects[x].exports = Cardinality(PullsOf(pull, x))
      BY Parts, Zenon DEF Counted
    <3>2. x \in DOMAIN objects => objects'[x].exports = objects[x].exports
      BY <2>1, Zenon
    <3>3. x \in DOMAIN objects /\ objects[x].state # "CREATING" => objects'[x].state # "CREATING"
      BY <1>7, <2>1, Zenon
    <3>. QED
      BY <2>1, <3>1, <3>2, <3>3, Zenon
  <2>4. \A i \in Id : Used(i) => Used(i)'
    BY <1>3, <1>4, IdleTyped, Parts, UsedKept, Zenon
  <2>5. /\ \A i \in DOMAIN leases : LeaseOK(i)
        /\ \A i \in Id : LocOK(i)
        /\ \A s \in Slot : SlotOK(s)
        /\ \A x \in DOMAIN objects : ObjectOK(x)
        /\ DOMAIN leases \subseteq Id /\ DOMAIN objects \subseteq Id
    BY Parts, Zenon DEF Core, BackingOK, IndexOK
  <2>6. /\ \A i \in DOMAIN leases' : LeaseOK(i)'
        /\ \A i \in Id : LocOK(i)'
        /\ \A s \in Slot : SlotOK(s)'
    BY <1>4, <2>4, <2>5, Zenon DEF LeaseOK, LocOK, SlotOK, State
  <2>7. ASSUME NEW x \in DOMAIN objects' PROVE ObjectOK(x)'
    <3>1. x \in DOMAIN objects /\ x \in Id /\ ObjectOK(x) /\ objects'[x].slot = objects[x].slot
      BY <2>1, <2>5, Zenon
    <3>2. x = o \/ objects'[x] = objects[x]
      BY <2>1, <3>1, Zenon
    <3>. QED
      BY <1>4, <1>7, <2>4, <3>1, <3>2, Zenon DEF ObjectOK, State, Readable, Exists
  <2>8. ASSUME NEW q \in Rank PROVE WaitOK(q)' /\ StageOK(q)' /\ WarmOK(q)' /\ DrainOK(q)'
    <3>1. WaitOK(q) /\ StageOK(q) /\ WarmOK(q) /\ DrainOK(q) /\ Apart(q, r)
      BY Parts, Zenon DEF Core
    <3>2. DrainOK(q)'
      BY <1>4, <2>4, <3>1, Zenon DEF DrainOK
    <3>3. CASE q = r
      BY <1>3, <3>2, <3>3, IdleTyped, Zenon DEF WaitOK, StageOK, WarmOK, Waiting, Staging
    <3>4. CASE q # r
      <4>1. client'[q] = client[q]
        BY <1>3, <3>4, Zenon
      <4>2. Staging(q) => client[q].id # o
        BY <1>1, <3>1, <3>4, Zenon DEF Apart, Staging
      <4>3. StageOK(q)'
        BY <1>4, <2>1, <2>4, <3>1, <4>1, <4>2, Zenon DEF StageOK, Staging, Leased, Exists
      <4>4. Exists(client[q].obj)' => Exists(client[q].obj)
                 /\ (objects[client[q].obj].state # "CREATING" => objects'[client[q].obj].state # "CREATING")
        BY <2>1, <4>1, Zenon DEF Exists
      <4>5. WarmOK(q)'
        BY <1>4, <2>4, <3>1, <4>1, <4>4, Zenon DEF WarmOK, Exists
      <4>6. WaitOK(q)'
        BY <1>4, <3>1, <4>1, Zenon DEF WaitOK, Waiting
      <4>. QED
        BY <3>2, <4>3, <4>5, <4>6, Zenon
    <3>. QED
      BY <3>3, <3>4, Zenon
  <2>9. ASSUME NEW q \in Rank, NEW t \in Rank PROVE Apart(q, t)'
    <3>1. Apart(q, t)
      BY Parts, Zenon DEF Core
    <3>. QED
      BY <1>3, <1>4, <3>1, IdleTyped, Zenon DEF Apart, Waiting, Staging, Warming
  <2>10. Core'
    BY <2>6, <2>7, <2>8, <2>9, Zenon DEF Core
  <2>. QED
    BY <1>1, <1>3, <2>2, <2>3, <2>10, Parts, RankStep, ZenonT(30)
<1>. QED
  BY <1>2, <1>6, <1>7, Zenon
----------------------------------------------------------------------------
(* Slot s turns to state st, for the thread of rank r, which is done with  *)
(* it or stages on; its bytes may become the residency of the id it has.   *)
Resident(x, s) == loc'[x].kind = "PINNED" /\ loc'[x].slot = s
Turned(r, s, st) ==
  /\ slot'[s].state = st /\ slot'[s].tid = slot[s].tid /\ \A t \in Slot \ {s} : slot'[t] = slot[t]
  /\ st = "PINNED_VALID" => pinned[s] # None
  /\ \A x \in Id :
       \/ loc'[x] = loc[x]
       \/ /\ Resident(x, s) /\ slot[s].tid = x /\ st = "PINNED_VALID" /\ Used(x)
          /\ x \in DOMAIN objects => objects'[x].slot = s
  /\ DOMAIN objects' = DOMAIN objects
  /\ \A x \in DOMAIN objects :
       /\ objects'[x].state = "CREATING" <=> objects[x].state = "CREATING"
       /\ \/ objects'[x].slot = objects[x].slot
          \/ Resident(x, s) /\ objects'[x].slot = s /\ objects[x].state # "CREATING"
       /\ loc[x].kind = "PINNED" /\ loc[x].slot = s => st = "PINNED_VALID"
  /\ \A q \in Rank \ {r} :
       /\ client'[q] = client[q] /\ (Warming(q) => client[q].slot # s)
       /\ drain'[q] = drain[q] /\ (drain[q].stage # "idle" => drain[q].slot # s)
  /\ \/ client'[r].pc \in AtRest
     \/ SameFields(r) /\ Staging(r) /\ client'[r].pc \in {"copying", "staged"}
  /\ \/ drain'[r].stage = "idle"
     \/ drain'[r] = drain[r] /\ (drain[r].stage # "idle" => drain[r].slot # s)
  /\ UNCHANGED <<leases, cold, pinned, nextId>>

LEMMA TurnedCore ==
  ASSUME TypeOK, Core, NEW r \in Rank, NEW s \in Slot, NEW st \in {"D2H_IN_FLIGHT", "PINNED_VALID"},
         Turned(r, s, st)
  PROVE  Core'
<1>1. \A q \in Rank : client'[q] = client[q] \/ client'[q].pc \notin {"create", "verify"}
  BY Zenon DEF Turned, AtRest
<1>2. leases' = leases /\ cold' = cold /\ pinned' = pinned /\ nextId' = nextId
  BY Zenon DEF Turned
<1>3. \A i \in Id : Used(i) => Used(i)'
  BY <1>1, <1>2, UsedKept, Zenon
<1>4. /\ slot'[s].state = st /\ slot'[s].tid = slot[s].tid /\ \A t \in Slot \ {s} : slot'[t] = slot[t]
      /\ st = "PINNED_VALID" => pinned[s] # None
  BY Zenon DEF Turned
<1>5. ASSUME NEW i \in DOMAIN leases' PROVE LeaseOK(i)'
  <2>1. i \in Id /\ i \in DOMAIN leases /\ LeaseOK(i) /\ leases[i].slot \in Slot
    BY <1>2, Zenon DEF Core, TypeOK
  <2>. QED
    BY <1>2, <1>3, <1>4, <2>1, Zenon DEF LeaseOK, State, LeaseStates
<1>6. ASSUME NEW i \in Id PROVE LocOK(i)'
  <2>1. LocOK(i)
    BY Zenon DEF Core
  <2>2. loc'[i] = loc[i] \/ (loc'[i].kind = "PINNED" /\ Used(i))
    BY Zenon DEF Turned, Resident
  <2>. QED
    BY <1>2, <1>3, <2>1, <2>2, Zenon DEF LocOK
<1>7. ASSUME NEW t \in Slot PROVE SlotOK(t)'
  <2>1. SlotOK(t)
    BY Zenon DEF Core
  <2>. QED
    BY <1>2, <1>4, <2>1, Zenon DEF SlotOK, State, Settled
<1>8. ASSUME NEW x \in DOMAIN objects' PROVE ObjectOK(x)'
  <2>1. x \in Id /\ x \in DOMAIN objects /\ ObjectOK(x) /\ loc[x].slot \in Slot
    BY Zenon DEF Turned, TypeOK, Core
  <2>2. /\ objects'[x].state = "CREATING" <=> objects[x].state = "CREATING"
        /\ \/ objects'[x].slot = objects[x].slot
           \/ Resident(x, s) /\ objects'[x].slot = s
        /\ loc[x].kind = "PINNED" /\ loc[x].slot = s => st = "PINNED_VALID"
    BY <2>1, Zenon DEF Turned
  <2>3. \/ loc'[x] = loc[x]
        \/ Resident(x, s) /\ slot[s].tid = x /\ st = "PINNED_VALID" /\ objects'[x].slot = s
    BY <2>1, Zenon DEF Turned
  <2>4. CASE Resident(x, s) /\ slot[s].tid = x /\ st = "PINNED_VALID" /\ objects'[x].slot = s
    BY <1>3, <1>4, <2>1, <2>4, Zenon DEF ObjectOK, Resident, State, Settled
  <2>5. CASE loc'[x] = loc[x]
    <3>1. loc[x].kind = "PINNED" => objects'[x].slot = loc[x].slot
      BY <2>1, <2>2, <2>5, Zenon DEF ObjectOK, Resident
    <3>2. loc[x].kind = "PINNED" => slot'[loc[x].slot].tid = x /\ slot'[loc[x].slot].state \in Settled
      BY <1>4, <2>1, <2>2, Zenon DEF ObjectOK, State, Settled
    <3>3. Readable(x)' => Readable(x)
      BY <2>1, <2>2, Zenon DEF Readable, Exists
    <3>. QED
      BY <1>3, <2>1, <2>5, <3>1, <3>2, <3>3, Zenon DEF ObjectOK, State
  <2>. QED
    BY <2>3, <2>4, <2>5, ZenonT(30)
<1>9. ASSUME NEW q \in Rank PROVE WaitOK(q)' /\ StageOK(q)' /\ WarmOK(q)' /\ DrainOK(q)'
  <2>1. WaitOK(q) /\ StageOK(q) /\ WarmOK(q) /\ DrainOK(q) /\ client[q].slot \in Slot /\ drain[q].slot \in Slot
    BY Zenon DEF Core, TypeOK
  <2>2. \/ client'[q] = client[q] /\ (Warming(q) => client[q].slot # s)
        \/ client'[q].pc \in AtRest
        \/ SameFields(q) /\ Staging(q) /\ client'[q].pc \in {"copying", "staged"}
    BY Zenon DEF Turned
  <2>3. WaitOK(q)'
    BY <1>2, <2>1, <2>2, Zenon DEF WaitOK, Waiting, AtRest
  <2>4. StageOK(q)'
    <3> SUFFICES ASSUME Staging(q)' PROVE StageOK(q)'
      BY Zenon DEF StageOK
    <3>1. /\ Staging(q) /\ client'[q].id = client[q].id /\ client'[q].key = client[q].key
          /\ client'[q].slot = client[q].slot /\ (client'[q].pc = "landed" => client[q].pc = "landed")
      BY <2>2, Zenon DEF Staging, AtRest, SameFields
    <3>2. ASSUME client[q].id \in DOMAIN objects, objects[client[q].id].state = "CREATING"
          PROVE  /\ objects'[client[q].id].state = "CREATING"
                 /\ objects'[client[q].id].slot = objects[client[q].id].slot
      BY <3>2, Zenon DEF Turned
    <3>3. DOMAIN objects' = DOMAIN objects
      BY Zenon DEF Turned
    <3>. QED
      BY <1>2, <1>3, <2>1, <3>1, <3>2, <3>3, Zenon DEF StageOK, Leased, Exists
  <2>5. WarmOK(q)'
    <3> SUFFICES ASSUME client'[q].pc \in {"warm", "warming", "warmed"} PROVE WarmOK(q)'
      BY Zenon DEF WarmOK
    <3>1. client'[q] = client[q] /\ (Warming(q) => client[q].slot # s)
      BY <2>2, Zenon DEF AtRest
    <3>2. client[q].pc # "warm" => slot'[client[q].slot] = slot[client[q].slot]
      BY <1>4, <2>1, <3>1, Zenon DEF Warming
    <3>3. Exists(client[q].obj)' =>
            /\ Exists(client[q].obj)
            /\ objects[client[q].obj].state # "CREATING" => objects'[client[q].obj].state # "CREATING"
      BY <3>1, Zenon DEF Turned, Exists
    <3>. QED
      BY <1>2, <1>3, <2>1, <3>1, <3>2, <3>3, Zenon DEF WarmOK, Exists
  <2>6. DrainOK(q)'
    <3>1. drain'[q].stage = "idle" \/ (drain'[q] = drain[q] /\ (drain[q].stage # "idle" => drain[q].slot # s))
      BY Zenon DEF Turned
    <3>. QED
      BY <1>2, <1>3, <1>4, <2>1, <3>1, Zenon DEF DrainOK
  <2>. QED
    BY <2>3, <2>4, <2>5, <2>6, SMTT(20)
<1>10. ASSUME NEW q \in Rank, NEW u \in Rank PROVE Apart(q, u)'
  <2>1. Apart(q, u)
    BY Zenon DEF Core
  <2>2. \A x \in Rank : /\ Waiting(x)' \/ Staging(x)' => (Waiting(x) \/ Staging(x)) /\ client'[x].id = client[x].id
                        /\ Warming(x)' => Warming(x) /\ client'[x].slot = client[x].slot
                        /\ drain'[x].stage # "idle" => drain'[x] = drain[x]
    <3> SUFFICES ASSUME NEW x \in Rank
                 PROVE  /\ Waiting(x)' \/ Staging(x)' => (Waiting(x) \/ Staging(x)) /\ client'[x].id = client[x].id
                        /\ Warming(x)' => Warming(x) /\ client'[x].slot = client[x].slot
                        /\ drain'[x].stage # "idle" => drain'[x] = drain[x]
      BY Zenon
    <3>1. \/ client'[x] = client[x]
          \/ client'[x].pc \in AtRest
          \/ SameFields(x) /\ Staging(x) /\ client'[x].pc \in {"copying", "staged"}
      BY Zenon DEF Turned
    <3>2. drain'[x].stage # "idle" => drain'[x] = drain[x]
      BY Zenon DEF Turned
    <3>. QED
      BY <3>1, <3>2, Zenon DEF Waiting, Staging, Warming, AtRest, SameFields
  <2>. QED
    BY <2>1, <2>2, Zenon DEF Apart
<1>. QED
  BY <1>5, <1>6, <1>7, <1>8, <1>9, <1>10, Zenon DEF Core

LEMMA SetState ==
  ASSUME StoreInv, NEW s \in Slot, NEW st \in {"D2H_IN_FLIGHT", "PINNED_VALID", "DRAIN_IN_FLIGHT"},
         slot' = [slot EXCEPT ![s].state = st]
  PROVE  /\ slot' \in [Slot -> SlotRecord] /\ slot'[s].state = st /\ slot'[s].tid = slot[s].tid
         /\ \A t \in Slot \ {s} : slot'[t] = slot[t]
<1>1. slot \in [Slot -> SlotRecord] /\ slot[s] \in SlotRecord
  BY Parts, Zenon DEF BackingOK
<1> DEFINE x == [slot[s] EXCEPT !.state = st]
<1>2. x \in SlotRecord /\ x.state = st /\ x.tid = slot[s].tid
  BY <1>1, Zenon DEF SlotRecord
<1>3. slot' = [slot EXCEPT ![s] = x]
  BY Zenon
<1> HIDE DEF x
<1>. QED
  BY <1>1, <1>2, <1>3, Zenon

(* The states of the slots that a restore and a drain are at work on.      *)
LEMMA Users ==
  ASSUME StoreInv, NEW q \in Rank
  PROVE  /\ client[q].slot \in Slot /\ drain[q].slot \in Slot
         /\ Warming(q) => State(client[q].slot) = "READBACK_IN_FLIGHT"
         /\ drain[q].stage # "idle" => State(drain[q].slot) = "DRAIN_IN_FLIGHT"
<1>1. client[q].slot \in Slot /\ drain[q].slot \in Slot /\ WarmOK(q) /\ DrainOK(q)
  BY Parts, Zenon DEF Core, ClientRecord, DrainRecord
<1>. QED
  BY <1>1 DEF WarmOK, DrainOK, Warming, State

(* The slot of a lease that the agent stages into.                         *)
LEMMA Own ==
  ASSUME StoreInv, NEW r \in Rank, Staging(r)
  PROVE  /\ client[r].slot \in Slot /\ client[r].id \in Id /\ Used(client[r].id)
         /\ Leased(r) => slot[client[r].slot].tid = client[r].id
         /\ client[r].id \in DOMAIN objects =>
              /\ objects[client[r].id].slot = client[r].slot
              /\ objects[client[r].id].state = "CREATING"
<1>1. client[r].slot \in Slot /\ StageOK(r) /\ \A i \in DOMAIN leases : LeaseOK(i)
  BY Parts, Zenon DEF Core, ClientRecord
<1>. QED
  BY <1>1, Zenon DEF StageOK, Leased, Exists, LeaseOK

LEMMA MarkStore ==
  ASSUME StoreInv, NEW r \in Rank, MarkD2HSubmitted(r)
  PROVE  StoreInv'
<1> DEFINE s == client[r].slot
<1>1. /\ client[r].pc = "granted" /\ Goto(r, "copying")
      /\ slot' = IF Leased(r) /\ State(s) = "RESERVED_D2H"
                 THEN [slot EXCEPT ![s].state = "D2H_IN_FLIGHT"] ELSE slot
      /\ UNCHANGED <<alive, leases, loc, cold, pinned, index, versions, drain, pull, nextId>>
  BY Zenon DEF MarkD2HSubmitted, AgentAt
<1>2. Moved(r, "copying") /\ s \in Slot
  BY <1>1, GotoMoves, Users, Zenon
<1> HIDE DEF s
<1>3. objects' = objects /\ byKey' = byKey
  BY <1>1, Zenon DEF index
<1>4. IndexOK' /\ Counted(objects', pull) /\ client' \in [Rank -> ClientRecord]
  BY <1>2, <1>3, Parts, Zenon DEF IndexOK, Moved
<1>5. CASE slot' = slot
  <2>1. UNCHANGED <<backing, objects, drain, nextId>> /\ pinned' = pinned
    BY <1>1, <1>3, <1>5, Zenon DEF backing
  <2>2. \A q \in Rank : Advanced(q)
    BY <1>1, <1>2, Zenon DEF Moved, Advanced
  <2>3. Core'
    BY <2>1, <2>2, Parts, WrittenCore, Zenon
  <2>4. BackingOK'
    BY <2>1, Parts, SMTT(20) DEF BackingOK, backing
  <2>. QED
    BY <1>1, <1>4, <2>3, <2>4, Parts, RankStep, Zenon
<1>6. CASE State(s) = "RESERVED_D2H" /\ slot' = [slot EXCEPT ![s].state = "D2H_IN_FLIGHT"]
  <2>1. /\ slot' \in [Slot -> SlotRecord] /\ slot'[s].state = "D2H_IN_FLIGHT" /\ slot'[s].tid = slot[s].tid
        /\ \A t \in Slot \ {s} : slot'[t] = slot[t]
    BY <1>2, <1>6, SetState, Zenon
  <2>2. \A q \in Rank : /\ Warming(q) => client[q].slot # s
                        /\ drain[q].stage # "idle" => drain[q].slot # s
    BY <1>6, Users, Zenon
  <2>3. \A x \in DOMAIN objects : loc[x].kind = "PINNED" => loc[x].slot # s
    BY <1>6, Parts, Zenon DEF Core, ObjectOK, Settled
  <2>4. Staging(r)
    BY <1>1, Zenon DEF Staging
  <2>5. UNCHANGED <<leases, loc, cold, pinned, drain, nextId>>
    BY <1>1, Zenon
  <2>6. Turned(r, s, "D2H_IN_FLIGHT")
    BY <1>2, <1>3, <2>1, <2>2, <2>3, <2>4, <2>5, Zenon DEF Turned, Moved
  <2>7. Core'
    BY <1>2, <2>6, Parts, TurnedCore, Zenon
  <2>8. BackingOK'
    BY <1>1, <2>1, Parts, Zenon DEF BackingOK
  <2>. QED
    BY <1>1, <1>4, <2>7, <2>8, Parts, RankStep, Zenon
<1>. QED
  BY <1>1, <1>5, <1>6, Zenon

LEMMA D2HCompleteStore ==
  ASSUME StoreInv, NEW r \in Rank, D2HComplete(r)
  PROVE  StoreInv'
<1> DEFINE s == client[r].slot
           i == client[r].id
<1>1. /\ client[r].pc = "landed" /\ Goto(r, "staged")
      /\ \/ slot' = slot /\ loc' = loc
         \/ /\ Leased(r) /\ State(s) = "D2H_IN_FLIGHT"
            /\ slot' = [slot EXCEPT ![s].state = "PINNED_VALID"]
            /\ loc' = [loc EXCEPT ![i] = [kind |-> "PINNED", slot |-> s]]
      /\ UNCHANGED <<alive, leases, cold, pinned, index, versions, drain, pull, nextId>>
  BY Zenon DEF D2HComplete, AgentAt
<1>2. Moved(r, "staged") /\ Staging(r)
  BY <1>1, GotoMoves, Zenon DEF Staging
<1>3. /\ s \in Slot /\ i \in Id /\ Used(i) /\ (Leased(r) => slot[s].tid = i)
      /\ i \in DOMAIN objects => objects[i].slot = s
  BY <1>2, Own, Zenon
<1>4. pinned[s] # None
  BY <1>1, <1>2, Parts, Zenon DEF Core, StageOK
<1> HIDE DEF s, i
<1>5. objects' = objects /\ byKey' = byKey
  BY <1>1, Zenon DEF index
<1>6. IndexOK' /\ Counted(objects', pull) /\ client' \in [Rank -> ClientRecord]
  BY <1>2, <1>5, Parts, Zenon DEF IndexOK, Moved
<1>7. CASE slot' = slot /\ loc' = loc
  <2>1. UNCHANGED <<backing, objects, drain, nextId>> /\ pinned' = pinned
    BY <1>1, <1>5, <1>7, Zenon DEF backing
  <2>2. \A q \in Rank : Advanced(q)
    BY <1>1, <1>2, Zenon DEF Moved, Advanced
  <2>3. Core'
    BY <2>1, <2>2, Parts, WrittenCore, Zenon
  <2>4. BackingOK'
    BY <2>1, Parts, Zenon DEF BackingOK, backing
  <2>. QED
    BY <1>1, <1>6, <2>3, <2>4, Parts, RankStep, Zenon
<1>8. CASE /\ Leased(r) /\ State(s) = "D2H_IN_FLIGHT"
           /\ slot' = [slot EXCEPT ![s].state = "PINNED_VALID"]
           /\ loc' = [loc EXCEPT ![i] = [kind |-> "PINNED", slot |-> s]]
  <2>1. /\ slot' \in [Slot -> SlotRecord] /\ slot'[s].state = "PINNED_VALID" /\ slot'[s].tid = slot[s].tid
        /\ \A t \in Slot \ {s} : slot'[t] = slot[t]
    BY <1>3, <1>8, SetState, Zenon
  <2>2. \A q \in Rank : /\ Warming(q) => client[q].slot # s
                        /\ drain[q].stage # "idle" => drain[q].slot # s
    BY <1>8, Users, Zenon
  <2>3. loc' \in [Id -> LocRecord] /\ Resident(i, s) /\ \A x \in Id \ {i} : loc'[x] = loc[x]
    BY <1>3, <1>8, Parts, Zenon DEF BackingOK, LocRecord, Resident
  <2>4. UNCHANGED <<leases, cold, pinned, drain, nextId>>
    BY <1>1, Zenon
  <2>5. \A x \in Id :
          \/ loc'[x] = loc[x]
          \/ /\ Resident(x, s) /\ slot[s].tid = x /\ Used(x)
             /\ x \in DOMAIN objects => objects'[x].slot = s
    BY <1>3, <1>5, <1>8, <2>3, Zenon
  <2>6. Turned(r, s, "PINNED_VALID")
    BY <1>2, <1>4, <1>5, <2>1, <2>2, <2>4, <2>5, Zenon DEF Turned, Moved
  <2>7. Core'
    BY <1>3, <2>6, Parts, TurnedCore, Zenon
  <2>8. BackingOK'
    BY <1>1, <2>1, <2>3, Parts, Zenon DEF BackingOK
  <2>. QED
    BY <1>1, <1>6, <2>7, <2>8, Parts, RankStep, Zenon
<1>. QED
  BY <1>1, <1>7, <1>8, Zenon

LEMMA DrainFailedStore ==
  ASSUME StoreInv, NEW r \in Rank, DrainFailed(r)
  PROVE  StoreInv'
<1> DEFINE s == drain[r].slot
<1>1. /\ drain[r].stage = "commit"
      /\ slot' = [slot EXCEPT ![s].state = "PINNED_VALID"]
      /\ client' = [client EXCEPT ![r] = Idle]
      /\ drain' = [drain EXCEPT ![r] = NoDrain]
      /\ UNCHANGED <<alive, leases, loc, cold, pinned, index, versions, pull, nextId>>
  BY Zenon DEF DrainFailed
<1>2. s \in Slot /\ State(s) = "DRAIN_IN_FLIGHT"
  BY <1>1, Users, Zenon
<1>3. \A q \in Rank \ {r} : /\ Warming(q) => client[q].slot # s
                            /\ drain[q].stage # "idle" => drain[q].slot # s
  <2> SUFFICES ASSUME NEW q \in Rank \ {r}
               PROVE  /\ Warming(q) => client[q].slot # s
                      /\ drain[q].stage # "idle" => drain[q].slot # s
    BY Zenon
  <2>1. Apart(q, r)
    BY Parts, Zenon DEF Core
  <2>. QED
    BY <1>1, <1>2, <2>1, Users, Zenon DEF Apart
<1> HIDE DEF s
<1>4. pinned[s] # None
  BY <1>2, Parts, Zenon DEF Core, SlotOK, Settled
<1>5. /\ slot' \in [Slot -> SlotRecord] /\ slot'[s].state = "PINNED_VALID" /\ slot'[s].tid = slot[s].tid
      /\ \A t \in Slot \ {s} : slot'[t] = slot[t]
  BY <1>1, <1>2, SetState, Zenon
<1>6. client' \in [Rank -> ClientRecord] /\ client'[r].pc = "idle" /\ \A q \in Rank \ {r} : client'[q] = client[q]
  BY <1>1, Parts, IdleTyped, Zenon
<1>7. NoDrain \in DrainRecord /\ NoDrain.stage = "idle"
  BY IdleTyped, Zenon DEF NoDrain, DrainRecord, Bytes
<1>8. drain' \in [Rank -> DrainRecord] /\ drain'[r].stage = "idle" /\ \A q \in Rank \ {r} : drain'[q] = drain[q]
  BY <1>1, <1>7, Parts, Zenon
<1>9. objects' = objects /\ byKey' = byKey /\ UNCHANGED <<leases, loc, cold, pinned, nextId>>
  BY <1>1, Zenon DEF index
<1>10. Turned(r, s, "PINNED_VALID")
  BY <1>3, <1>4, <1>5, <1>6, <1>8, <1>9, Zenon DEF Turned, AtRest
<1>11. Core'
  BY <1>2, <1>10, Parts, TurnedCore, Zenon
<1>12. BackingOK' /\ IndexOK' /\ Counted(objects', pull)
  BY <1>5, <1>9, Parts, Zenon DEF BackingOK, IndexOK
<1>. QED
  BY <1>1, <1>6, <1>8, <1>11, <1>12, Parts, RankStep, Zenon

LEMMA Rewarmed ==
  ASSUME NEW ob \in Object, NEW s \in Slot
  PROVE  LET b == [ob EXCEPT !.slot = s, !.state = "VALID", !.restores = @ + 1]
         IN  b \in Object /\ b.slot = s /\ b.state = "VALID" /\ b.exports = ob.exports
<1> DEFINE c == [ob EXCEPT !.slot = s]
           d == [c EXCEPT !.state = "VALID"]
           b == [ob EXCEPT !.slot = s, !.state = "VALID", !.restores = @ + 1]
<1>1. c \in Object /\ c.slot = s /\ c.exports = ob.exports
  BY Zenon DEF Object
<1>2. b = [d EXCEPT !.restores = @ + 1]
  BY Zenon DEF Object
<1> HIDE DEF c
<1>3. d \in Object /\ d.slot = s /\ d.exports = ob.exports /\ d.state = "VALID"
  BY <1>1, Zenon DEF Object
<1> HIDE DEF d, b
<1>4. b \in Object /\ b.slot = s /\ b.state = "VALID" /\ b.exports = ob.exports
  BY <1>2, <1>3 DEF Object
<1>. QED
  BY <1>4, Zenon DEF b

LEMMA WarmDoneStore ==
  ASSUME StoreInv, NEW r \in Rank, WarmDone(r)
  PROVE  StoreInv'
<1> DEFINE s == client[r].slot
           o == client[r].obj
<1>1. /\ client[r].pc = "warmed" /\ Goto(r, "reading")
      /\ slot' = [slot EXCEPT ![s].state = "PINNED_VALID"]
      /\ loc' = [loc EXCEPT ![o] = [kind |-> "PINNED", slot |-> s]]
      /\ UNCHANGED <<alive, leases, cold, pinned, byKey, versions, drain, pull, nextId>>
  BY Zenon DEF WarmDone
<1>2. \/ objects' = objects /\ o \notin DOMAIN objects
      \/ /\ o \in DOMAIN objects
         /\ objects' = [objects EXCEPT ![o].slot = s, ![o].state = "VALID", ![o].restores = @ + 1]
  BY Zenon DEF WarmDone, Exists
<1>3. Moved(r, "reading")
  BY <1>1, GotoMoves, Zenon
<1>4. /\ s \in Slot /\ o \in Id /\ Used(o) /\ slot[s].tid = o /\ State(s) = "READBACK_IN_FLIGHT"
      /\ pinned[s] # None /\ (o \in DOMAIN objects => objects[o].state # "CREATING")
  <2>1. client[r].slot \in Slot /\ WarmOK(r)
    BY Parts, Zenon DEF Core, ClientRecord
  <2>. QED
    BY ONLY <1>1, <2>1 DEF WarmOK, Exists, State
<1>5. \A q \in Rank \ {r} : Warming(q) => client[q].slot # s
  BY <1>1, Parts, Zenon DEF Core, Apart, Warming
<1> HIDE DEF s, o
<1>6. \A q \in Rank : drain[q].stage # "idle" => drain[q].slot # s
  BY <1>4, Users, Zenon
<1>7. \A x \in DOMAIN objects : loc[x].kind = "PINNED" => loc[x].slot # s
  BY <1>4, Parts, Zenon DEF Core, ObjectOK, Settled
<1>8. /\ slot' \in [Slot -> SlotRecord] /\ slot'[s].state = "PINNED_VALID" /\ slot'[s].tid = slot[s].tid
      /\ \A t \in Slot \ {s} : slot'[t] = slot[t]
  BY <1>1, <1>4, SetState, Zenon
<1>9. loc' \in [Id -> LocRecord] /\ Resident(o, s) /\ \A x \in Id \ {o} : loc'[x] = loc[x]
  BY <1>1, <1>4, Parts, Zenon DEF BackingOK, LocRecord, Resident
<1>10. \A x \in DOMAIN objects : objects[x] \in Object
  BY Parts, Zenon DEF IndexOK
<1>11. /\ DOMAIN objects' = DOMAIN objects
       /\ \A x \in DOMAIN objects \ {o} : objects'[x] = objects[x]
       /\ o \in DOMAIN objects => /\ objects'[o] \in Object /\ objects'[o].slot = s
                                  /\ objects'[o].state = "VALID" /\ objects'[o].exports = objects[o].exports
  <2>1. CASE objects' = objects /\ o \notin DOMAIN objects
    BY <2>1, Zenon
  <2>2. CASE /\ o \in DOMAIN objects
             /\ objects' = [objects EXCEPT ![o].slot = s, ![o].state = "VALID", ![o].restores = @ + 1]
    <3> DEFINE b == [objects[o] EXCEPT !.slot = s, !.state = "VALID", !.restores = @ + 1]
    <3>1. objects[o] \in Object /\ s \in Slot
      BY <1>4, <1>10, <2>2, Zenon
    <3>2. b \in Object /\ b.slot = s /\ b.state = "VALID" /\ b.exports = objects[o].exports
      BY ONLY <3>1, Rewarmed, Zenon
    <3>3. objects' = [objects EXCEPT ![o] = b]
      BY <2>2, Zenon
    <3> HIDE DEF b
    <3>. QED
      BY <2>2, <3>2, <3>3, Zenon
  <2>. QED
    BY <1>2, <2>1, <2>2, Zenon
<1>12. UNCHANGED <<leases, cold, pinned, drain, nextId>>
  BY <1>1, Zenon
<1>13. \A x \in Id :
         \/ loc'[x] = loc[x]
         \/ /\ Resident(x, s) /\ slot[s].tid = x /\ Used(x)
            /\ x \in DOMAIN objects => objects'[x].slot = s
  BY <1>4, <1>9, <1>11, Zenon
<1>14. ASSUME NEW x \in DOMAIN objects
       PROVE  /\ objects'[x].state = "CREATING" <=> objects[x].state = "CREATING"
              /\ \/ objects'[x].slot = objects[x].slot
                 \/ Resident(x, s) /\ objects'[x].slot = s /\ objects[x].state # "CREATING"
              /\ objects'[x].exports = objects[x].exports
              /\ objects'[x] \in Object
  <2>1. CASE x = o
    BY <1>4, <1>9, <1>11, <2>1, Zenon
  <2>2. CASE x # o
    BY <1>10, <1>11, <2>2, ZenonT(30)
  <2>. QED
    BY <2>1, <2>2, Zenon
<1>15. Turned(r, s, "PINNED_VALID")
  <2>1. client'[r].pc \in AtRest /\ \A q \in Rank \ {r} : client'[q] = client[q]
    BY <1>3, Zenon DEF Moved, AtRest
  <2>. QED
    BY <1>4, <1>5, <1>6, <1>7, <1>8, <1>11, <1>12, <1>13, <1>14, <2>1, SMTT(20) DEF Turned
<1>16. Core'
  BY <1>4, <1>15, Parts, TurnedCore, Zenon
<1>17. BackingOK'
  BY <1>8, <1>9, <1>12, Parts, Zenon DEF BackingOK
<1>18. IndexOK'
  BY <1>1, <1>11, <1>14, Parts, Zenon DEF IndexOK
<1>19. Counted(objects', pull)
  <2>1. SameExports(objects, objects')
    BY <1>11, <1>14, Zenon DEF SameExports
  <2>. QED
    BY <2>1, Parts, CountedSame, Zenon
<1>20. client' \in [Rank -> ClientRecord]
  BY <1>3, Zenon DEF Moved
<1>. QED
  BY <1>1, <1>16, <1>17, <1>18, <1>19, <1>20, Parts, RankStep, Zenon
=============================================================================
