------------------------ MODULE CanonicalStoreProofs ------------------------
(***************************************************************************)
(* Proofs about the canonical store: the steps that take a slot, at once   *)
(* or after a drain, preserve StoreInv, and what follows from it.          *)
(***************************************************************************)
EXTENDS CanonicalStoreInvariant

(* A slot is taken.  Before that a drain may have ended: sl and ls are the *)
(* slots and the leases then, and the drained bytes are cold.              *)
Cleared(sl, ls) ==
  /\ \A x \in DOMAIN ls :
       x \in DOMAIN leases /\ ls[x] = leases[x] /\ sl[leases[x].slot] = slot[leases[x].slot]
  /\ \A t \in Slot : sl[t] = slot[t] \/ sl[t] = FreeSlot
  /\ \A x \in Id : \/ loc'[x] = loc[x] /\ cold'[x] = cold[x]
                   \/ loc'[x].kind = "COLD" /\ cold'[x] # None /\ Used(x)
  /\ \A x \in DOMAIN objects : loc'[x].kind = "PINNED" => sl[loc[x].slot] = slot[loc[x].slot]
  /\ \A q \in Rank :
       /\ Warming(q) => sl[client[q].slot] = slot[client[q].slot]
       /\ drain'[q].stage # "idle" => drain'[q] = drain[q] /\ sl[drain[q].slot] = slot[drain[q].slot]
  /\ sl \in [Slot -> SlotRecord] /\ loc' \in [Id -> LocRecord] /\ cold' \in [Id -> Bytes]
  /\ drain' \in [Rank -> DrainRecord] /\ pinned' = pinned

LEMMA NothingCleared ==
  ASSUME StoreInv, UNCHANGED <<loc, cold, drain, pinned>>
  PROVE  Cleared(slot, leases)
BY Parts, Zenon DEF Cleared, BackingOK

LEMMA DrainCleared ==
  ASSUME StoreInv, NEW r \in Rank, drain[r].stage = "commit", Drained(drain[r]),
         drain' = [drain EXCEPT ![r] = NoDrain], pinned' = pinned
  PROVE  Cleared([slot EXCEPT ![drain[r].slot] = FreeSlot], Without(leases, {drain[r].tid}))
<1> DEFINE s == drain[r].slot
           i == drain[r].tid
           d == drain[r].data
           sl == [slot EXCEPT ![s] = FreeSlot]
           ls == Without(leases, {i})
<1>1. /\ s \in Slot /\ i \in Id /\ Used(i) /\ slot[s].tid = i /\ State(s) = "DRAIN_IN_FLIGHT"
      /\ d # None /\ d \in Bytes
  <2>1. drain[r].slot \in Slot /\ drain[r].data \in Bytes /\ DrainOK(r)
    BY Parts, Zenon DEF Core, DrainRecord
  <2>. QED
    BY ONLY <2>1, drain[r].stage = "commit" DEF DrainOK, State
<1>2. /\ cold' = [cold EXCEPT ![i] = d]
      /\ loc' = [loc EXCEPT ![i] = [kind |-> "COLD", slot |-> s]]
  BY Zenon DEF Drained
<1>3. DOMAIN ls = DOMAIN leases \ {i} /\ \A x \in DOMAIN leases \ {i} : ls[x] = leases[x]
  BY Zenon DEF Without
<1>4. slot \in [Slot -> SlotRecord] /\ FreeSlot \in SlotRecord
  BY Parts, Zenon DEF BackingOK, FreeSlot, SlotRecord
<1>5. sl \in [Slot -> SlotRecord] /\ \A t \in Slot : sl[t] = IF t = s THEN FreeSlot ELSE slot[t]
  BY <1>4, Zenon
<1>6. NoDrain \in DrainRecord /\ NoDrain.stage = "idle"
  BY IdleTyped, Zenon DEF NoDrain, DrainRecord, Bytes
<1>7. /\ drain' \in [Rank -> DrainRecord]
      /\ \A q \in Rank : drain'[q] = IF q = r THEN NoDrain ELSE drain[q]
  BY <1>6, Parts, Zenon
<1>8. \A q \in Rank \ {r} : drain[q].stage # "idle" => drain[q].slot # s
  BY Parts, Zenon DEF Core, Apart
<1> HIDE DEF s, i, d, sl, ls
<1>9. /\ loc' \in [Id -> LocRecord] /\ cold' \in [Id -> Bytes]
      /\ loc'[i].kind = "COLD" /\ cold'[i] # None
      /\ \A x \in Id \ {i} : loc'[x] = loc[x] /\ cold'[x] = cold[x]
  BY <1>1, <1>2, Parts, Zenon DEF BackingOK, LocRecord
<1>10. ASSUME NEW x \in DOMAIN ls
       PROVE  x \in DOMAIN leases /\ ls[x] = leases[x] /\ sl[leases[x].slot] = slot[leases[x].slot]
  <2>1. x \in DOMAIN leases /\ x # i /\ ls[x] = leases[x]
    BY <1>3, Zenon
  <2>2. LeaseOK(x) /\ leases[x].slot \in Slot
    BY <2>1, Parts, Zenon DEF Core, BackingOK
  <2>. QED
    BY <1>1, <1>5, <2>1, <2>2, Zenon DEF LeaseOK
<1>11. ASSUME NEW x \in DOMAIN objects, loc'[x].kind = "PINNED"
       PROVE  sl[loc[x].slot] = slot[loc[x].slot]
  <2>1. x \in Id /\ ObjectOK(x) /\ loc[x].slot \in Slot
    BY Parts, Zenon DEF Core, IndexOK, BackingOK, LocRecord
  <2>2. x # i /\ loc[x].kind = "PINNED"
    BY <1>9, <1>11, <2>1, Zenon
  <2>. QED
    BY <1>1, <1>5, <2>1, <2>2, Zenon DEF ObjectOK
<1>12. ASSUME NEW q \in Rank
       PROVE  /\ Warming(q) => sl[client[q].slot] = slot[client[q].slot]
              /\ drain'[q].stage # "idle" => drain'[q] = drain[q] /\ sl[drain[q].slot] = slot[drain[q].slot]
  BY <1>1, <1>5, <1>6, <1>7, <1>8, Users, Zenon
<1>13. Cleared(sl, ls)
  BY <1>1, <1>5, <1>7, <1>9, <1>10, <1>11, <1>12, Zenon DEF Cleared
<1>. QED
  BY <1>13, Zenon DEF s, i, sl, ls

(* What is in use is not disturbed by taking a FREE slot.                  *)
Undisturbed(s, ls) ==
  /\ \A x \in DOMAIN ls :
       x \in DOMAIN leases /\ ls[x] = leases[x] /\ slot'[leases[x].slot] = slot[leases[x].slot]
  /\ \A t \in Slot \ {s} : slot'[t] = slot[t] \/ slot'[t].state = "FREE"
  /\ \A x \in Id : \/ loc'[x] = loc[x] /\ cold'[x] = cold[x]
                   \/ loc'[x].kind = "COLD" /\ cold'[x] # None /\ Used(x)
  /\ \A x \in DOMAIN objects : loc'[x].kind = "PINNED" => slot'[loc[x].slot] = slot[loc[x].slot]
  /\ \A q \in Rank :
       /\ Warming(q) => slot'[client[q].slot] = slot[client[q].slot] /\ client[q].slot # s
       /\ drain'[q].stage # "idle" => drain'[q] = drain[q] /\ slot'[drain[q].slot] = slot[drain[q].slot]
  /\ pinned' = pinned

LEMMA TakenUndisturbed ==
  ASSUME StoreInv, NEW sl, NEW ls, Cleared(sl, ls), NEW s \in FreeSlots(sl),
         \A t \in Slot \ {s} : slot'[t] = sl[t]
  PROVE  Undisturbed(s, ls)
<1>1. s \in Slot /\ sl[s].state = "FREE"
  BY Zenon DEF FreeSlots
<1>2. ASSUME NEW x \in DOMAIN ls
      PROVE  x \in DOMAIN leases /\ ls[x] = leases[x] /\ slot'[leases[x].slot] = slot[leases[x].slot]
  <2>1. x \in DOMAIN leases /\ ls[x] = leases[x] /\ sl[leases[x].slot] = slot[leases[x].slot]
    BY Zenon DEF Cleared
  <2>2. LeaseOK(x) /\ leases[x].slot \in Slot
    BY <2>1, Parts, Zenon DEF Core, BackingOK
  <2>. QED
    BY <1>1, <2>1, <2>2, Zenon DEF LeaseOK, LeaseStates, State
<1>3. ASSUME NEW x \in DOMAIN objects, loc'[x].kind = "PINNED"
      PROVE  slot'[loc[x].slot] = slot[loc[x].slot]
  <2>1. x \in Id /\ ObjectOK(x) /\ loc[x].slot \in Slot
    BY Parts, Zenon DEF Core, IndexOK, BackingOK, LocRecord
  <2>2. sl[loc[x].slot] = slot[loc[x].slot] /\ loc[x].kind = "PINNED"
    BY <1>3, <2>1, Zenon DEF Cleared
  <2>. QED
    BY <1>1, <2>1, <2>2, Zenon DEF ObjectOK, Settled, State
<1>4. ASSUME NEW q \in Rank
      PROVE  /\ Warming(q) => slot'[client[q].slot] = slot[client[q].slot] /\ client[q].slot # s
             /\ drain'[q].stage # "idle" => drain'[q] = drain[q] /\ slot'[drain[q].slot] = slot[drain[q].slot]
  <2>1. /\ Warming(q) => sl[client[q].slot] = slot[client[q].slot]
        /\ drain'[q].stage # "idle" => drain'[q] = drain[q] /\ sl[drain[q].slot] = slot[drain[q].slot]
    BY Zenon DEF Cleared
  <2>. QED
    BY <1>1, <2>1, Users, Zenon DEF State
<1>5. \A t \in Slot \ {s} : slot'[t] = slot[t] \/ slot'[t].state = "FREE"
  BY DEF Cleared, FreeSlot
<1>6. /\ \A x \in Id : \/ loc'[x] = loc[x] /\ cold'[x] = cold[x]
                       \/ loc'[x].kind = "COLD" /\ cold'[x] # None /\ Used(x)
      /\ pinned' = pinned
  BY Zenon DEF Cleared
<1>. QED
  BY <1>2, <1>3, <1>4, <1>5, <1>6, Zenon DEF Undisturbed

(* The tables and the drains, when slot s is taken.                        *)
LEMMA TakenTables ==
  ASSUME TypeOK, Core, NEW s \in Slot, NEW ls, Undisturbed(s, ls), slot'[s].state \notin Settled,
         \A i \in Id : Used(i) => Used(i)'
  PROVE  /\ \A i \in DOMAIN ls : leases'[i] = ls[i] => LeaseOK(i)'
         /\ \A i \in Id : LocOK(i)'
         /\ \A t \in Slot : SlotOK(t)'
         /\ \A o \in DOMAIN objects : objects'[o] = objects[o] /\ o \in DOMAIN objects' => ObjectOK(o)'
         /\ \A q \in Rank : DrainOK(q)'
<1>1. DOMAIN leases \subseteq Id /\ DOMAIN objects \subseteq Id /\ pinned' = pinned
  BY Zenon DEF TypeOK, Undisturbed
<1>2. ASSUME NEW i \in DOMAIN ls, leases'[i] = ls[i] PROVE LeaseOK(i)'
  <2>1. /\ i \in DOMAIN leases /\ i \in Id /\ leases'[i] = leases[i]
        /\ slot'[leases[i].slot] = slot[leases[i].slot]
    BY <1>1, <1>2, Zenon DEF Undisturbed
  <2>2. LeaseOK(i)
    BY <2>1, Zenon DEF Core
  <2>. QED
    BY <2>1, <2>2, Zenon DEF LeaseOK, State
<1>3. ASSUME NEW i \in Id PROVE LocOK(i)'
  <2>1. LocOK(i)
    BY Zenon DEF Core
  <2>2. \/ loc'[i] = loc[i] /\ cold'[i] = cold[i]
        \/ loc'[i].kind = "COLD" /\ cold'[i] # None /\ Used(i)
    BY Zenon DEF Undisturbed
  <2>. QED
    BY <2>1, <2>2, Zenon DEF LocOK
<1>4. ASSUME NEW t \in Slot PROVE SlotOK(t)'
  <2>1. SlotOK(t)
    BY Zenon DEF Core
  <2>2. t # s => slot'[t] = slot[t] \/ slot'[t].state = "FREE"
    BY Zenon DEF Undisturbed
  <2>. QED
    BY <1>1, <2>1, <2>2, Zenon DEF SlotOK, State, Settled
<1>5. ASSUME NEW o \in DOMAIN objects, objects'[o] = objects[o], o \in DOMAIN objects' PROVE ObjectOK(o)'
  <2>1. o \in Id /\ ObjectOK(o)
    BY <1>1, Zenon DEF Core
  <2>2. loc'[o] = loc[o] \/ loc'[o].kind = "COLD"
    BY <2>1, Zenon DEF Undisturbed
  <2>3. loc'[o].kind = "PINNED" => slot'[loc[o].slot] = slot[loc[o].slot]
    BY Zenon DEF Undisturbed
  <2>. QED
    BY <1>5, <2>1, <2>2, <2>3 DEF ObjectOK, Readable, Exists, State
<1>6. ASSUME NEW q \in Rank PROVE DrainOK(q)'
  <2>1. DrainOK(q)
    BY Zenon DEF Core
  <2>2. drain'[q].stage # "idle" => drain'[q] = drain[q] /\ slot'[drain[q].slot] = slot[drain[q].slot]
    BY Zenon DEF Undisturbed
  <2>. QED
    BY <2>1, <2>2, Zenon DEF DrainOK
<1>. QED
  BY <1>2, <1>3, <1>4, <1>5, <1>6, Zenon

(* Slot s is granted to rank r for the id i, which is not used yet.        *)
Granted(r, i, s, ls) ==
  /\ slot'[s].state = "RESERVED_D2H" /\ slot'[s].tid = i
  /\ DOMAIN leases' = DOMAIN ls \cup {i} /\ leases'[i].slot = s
  /\ \A x \in DOMAIN ls \ {i} : leases'[x] = ls[x]
  /\ i < nextId' /\ nextId' \in {nextId, nextId + 1} /\ ~Used(i)
  /\ client'[r].pc = "granted" /\ client'[r].id = i /\ client'[r].slot = s /\ client'[r].key \in Key
  /\ \A q \in Rank \ {r} : client'[q] = client[q] /\ (Waiting(q) \/ Staging(q) => client[q].id # i)
  /\ \/ objects' = objects
     \/ /\ DOMAIN objects' = DOMAIN objects \cup {i}
        /\ objects'[i].state = "CREATING" /\ objects'[i].slot = s
        /\ \A x \in DOMAIN objects \ {i} : objects'[x] = objects[x]

LEMMA GrantedCore ==
  ASSUME TypeOK, Core, NEW r \in Rank, NEW i \in Id, NEW s \in Slot, NEW ls,
         Undisturbed(s, ls), Granted(r, i, s, ls)
  PROVE  Core'
<1>1. \A q \in Rank : client'[q] = client[q] \/ client'[q].pc \notin {"create", "verify"}
  BY Zenon DEF Granted
<1>2. \A x \in Id : Used(x) => Used(x)'
  BY <1>1, UsedKept, Zenon DEF Granted
<1>3. Used(i)'
  BY DEF Used, Granted, Waiting
<1>4. DOMAIN leases \subseteq Id /\ DOMAIN objects \subseteq Id
  BY Zenon DEF TypeOK
<1>5. i \notin DOMAIN leases /\ i \notin DOMAIN objects /\ loc[i].kind = "NONE" /\ i \notin DOMAIN ls
  BY Zenon DEF Core, LeaseOK, ObjectOK, LocOK, Granted, Undisturbed
<1>6. loc'[i].kind = "NONE"
  BY <1>5, Zenon DEF Undisturbed, Granted
<1>7. slot'[s].state \notin Settled
  BY Zenon DEF Granted, Settled
<1>8. /\ \A x \in DOMAIN ls : leases'[x] = ls[x] => LeaseOK(x)'
      /\ \A x \in Id : LocOK(x)'
      /\ \A t \in Slot : SlotOK(t)'
      /\ \A o \in DOMAIN objects : objects'[o] = objects[o] /\ o \in DOMAIN objects' => ObjectOK(o)'
      /\ \A q \in Rank : DrainOK(q)'
  BY <1>2, <1>7, TakenTables, Zenon
<1>9. ASSUME NEW x \in DOMAIN leases' PROVE LeaseOK(x)'
  <2>1. CASE x = i
    BY <1>3, <2>1, Zenon DEF LeaseOK, State, LeaseStates, Granted
  <2>2. CASE x # i
    BY <1>8, <2>2, Zenon DEF Granted
  <2>. QED
    BY <2>1, <2>2, Zenon
<1>10. ASSUME NEW x \in DOMAIN objects' PROVE ObjectOK(x)'
  <2>1. CASE x \in DOMAIN objects
    <3>1. objects'[x] = objects[x]
      BY <1>5, <2>1, Zenon DEF Granted
    <3>. QED
      BY <1>8, <2>1, <3>1, Zenon
  <2>2. CASE x \notin DOMAIN objects
    <3>1. x = i /\ objects'[x].state = "CREATING"
      BY <2>2, Zenon DEF Granted
    <3>. QED
      BY <1>3, <1>6, <3>1, Zenon DEF ObjectOK, Readable
  <2>. QED
    BY <2>1, <2>2, Zenon
<1>11. ASSUME NEW x \in Id, x # i
       PROVE  /\ x \in DOMAIN leases' => x \in DOMAIN leases /\ leases'[x] = leases[x]
              /\ x \in DOMAIN objects' => x \in DOMAIN objects /\ objects'[x] = objects[x]
  BY <1>11 DEF Granted, Undisturbed
<1>12. ASSUME NEW q \in Rank PROVE WaitOK(q)' /\ StageOK(q)' /\ WarmOK(q)'
  <2>1. WaitOK(q) /\ StageOK(q) /\ WarmOK(q)
    BY Zenon DEF Core
  <2>2. CASE q = r
    <3>1. /\ client'[q].pc = "granted" /\ client'[q].id = i /\ client'[q].slot = s /\ client'[q].key \in Key
          /\ leases'[i].slot = s
      BY <2>2, Zenon DEF Granted
    <3>2. i \in DOMAIN objects' => objects'[i].state = "CREATING" /\ objects'[i].slot = s
      BY <1>5, Zenon DEF Granted
    <3>. QED
      BY <1>3, <3>1, <3>2, Zenon DEF WaitOK, StageOK, WarmOK, Waiting, Leased, Exists
  <2>3. CASE q # r
    <3>1. client'[q] = client[q] /\ (Waiting(q) \/ Staging(q) => client[q].id # i)
      BY <2>3, Zenon DEF Granted
    <3>2. nextId \in Nat /\ nextId' \in {nextId, nextId + 1} /\ pinned' = pinned /\ Id \subseteq Nat
      BY StoreAssumption DEF Granted, Undisturbed, TypeOK, Id
    <3>3. WaitOK(q)'
      BY <2>1, <3>1, <3>2 DEF WaitOK, Waiting
    <3>4. StageOK(q)'
      BY <1>2, <1>11, <2>1, <3>1, <3>2, ZenonT(30) DEF StageOK, Staging, Leased, Exists
    <3>5. WarmOK(q)'
      <4> SUFFICES ASSUME client[q].pc \in {"warm", "warming", "warmed"} PROVE WarmOK(q)'
        BY <3>1, Zenon DEF WarmOK
      <4>1. client[q].obj \in Id /\ Used(client[q].obj) /\ client[q].obj # i
        BY <2>1, Zenon DEF WarmOK, Granted
      <4>2. client[q].pc # "warm" => slot'[client[q].slot] = slot[client[q].slot]
        BY Zenon DEF Undisturbed, Warming
      <4>. QED
        BY <1>2, <1>11, <2>1, <3>1, <3>2, <4>1, <4>2, SMTT(20) DEF WarmOK, Exists
    <3>. QED
      BY <3>3, <3>4, <3>5, Zenon
  <2>. QED
    BY <2>2, <2>3, Zenon
<1>13. ASSUME NEW q \in Rank, NEW t \in Rank PROVE Apart(q, t)'
  <2>1. Apart(q, t)
    BY Zenon DEF Core
  <2>2. \A x \in Rank : drain'[x].stage # "idle" => drain'[x] = drain[x]
    BY Zenon DEF Undisturbed
  <2>3. \A x \in Rank \ {r} : client'[x] = client[x] /\ (Waiting(x) \/ Staging(x) => client[x].id # i)
    BY Zenon DEF Granted
  <2>4. client'[r].pc = "granted" /\ client'[r].id = i
    BY Zenon DEF Granted
  <2>. QED
    BY <2>1, <2>2, <2>3, <2>4, SMTT(20) DEF Apart, Waiting, Staging, Warming
<1>. QED
  BY <1>8, <1>9, <1>10, <1>12, <1>13, Zenon DEF Core

(* Slot s is bound to the object o that the thread of rank r warms.        *)
Bound(r, o, s, ls) ==
  /\ slot'[s] = [state |-> "READBACK_IN_FLIGHT", tid |-> o]
  /\ leases' = ls /\ objects' = objects /\ nextId' = nextId
  /\ client'[r].pc = "warming" /\ client'[r].obj = o /\ client'[r].slot = s /\ client'[r].data # None
  /\ Used(o) /\ (o \in DOMAIN objects => objects[o].state # "CREATING")
  /\ \A q \in Rank \ {r} : client'[q] = client[q]

LEMMA BoundCore ==
  ASSUME TypeOK, Core, NEW r \in Rank, NEW o \in Id, NEW s \in Slot, NEW ls,
         Undisturbed(s, ls), Bound(r, o, s, ls)
  PROVE  Core'
<1>1. \A q \in Rank : client'[q] = client[q] \/ client'[q].pc \notin {"create", "verify"}
  BY Zenon DEF Bound
<1>2. \A x \in Id : Used(x) => Used(x)'
  BY <1>1, UsedKept, Zenon DEF Bound
<1>3. slot'[s].state \notin Settled
  BY SMTT(20) DEF Bound, Settled
<1>4. /\ \A x \in DOMAIN ls : leases'[x] = ls[x] => LeaseOK(x)'
      /\ \A x \in Id : LocOK(x)'
      /\ \A t \in Slot : SlotOK(t)'
      /\ \A x \in DOMAIN objects : objects'[x] = objects[x] /\ x \in DOMAIN objects' => ObjectOK(x)'
      /\ \A q \in Rank : DrainOK(q)'
  BY <1>2, <1>3, TakenTables, Zenon
<1>5. leases' = ls /\ objects' = objects /\ nextId' = nextId /\ pinned' = pinned
  BY Zenon DEF Bound, Undisturbed
<1>6. ASSUME NEW q \in Rank PROVE WaitOK(q)' /\ StageOK(q)' /\ WarmOK(q)'
  <2>1. WaitOK(q) /\ StageOK(q) /\ WarmOK(q)
    BY Zenon DEF Core
  <2>2. CASE q = r
    <3>1. /\ client'[q].pc = "warming" /\ client'[q].obj = o /\ client'[q].slot = s /\ client'[q].data # None
          /\ slot'[s] = [state |-> "READBACK_IN_FLIGHT", tid |-> o]
          /\ Used(o) /\ (o \in DOMAIN objects => objects[o].state # "CREATING")
      BY <2>2, Zenon DEF Bound
    <3>. QED
      BY <1>2, <1>5, <3>1, Zenon DEF WaitOK, StageOK, WarmOK, Waiting, Staging, Exists
  <2>3. CASE q # r
    <3>1. client'[q] = client[q]
      BY <2>3, Zenon DEF Bound
    <3>2. \A x \in DOMAIN ls : x \in DOMAIN leases /\ ls[x] = leases[x]
      BY Zenon DEF Undisturbed
    <3>3. WaitOK(q)'
      BY <1>5, <2>1, <3>1, Zenon DEF WaitOK, Waiting
    <3>4. StageOK(q)'
      BY <1>2, <1>5, <2>1, <3>1, <3>2, Zenon DEF StageOK, Staging, Leased, Exists
    <3>5. Warming(q) => slot'[client[q].slot] = slot[client[q].slot]
      BY Zenon DEF Undisturbed
    <3>6. WarmOK(q)'
      BY <1>2, <1>5, <2>1, <3>1, <3>5, ZenonT(30) DEF WarmOK, Warming, Exists
    <3>. QED
      BY <3>3, <3>4, <3>6, Zenon
  <2>. QED
    BY <2>2, <2>3, Zenon
<1>7. ASSUME NEW q \in Rank, NEW t \in Rank PROVE Apart(q, t)'
  <2>1. Apart(q, t)
    BY Zenon DEF Core
  <2>2. \A x \in Rank : /\ drain'[x].stage # "idle" => drain'[x] = drain[x]
                        /\ Warming(x) => client[x].slot # s
    BY Zenon DEF Undisturbed
  <2>3. \A x \in Rank \ {r} : client'[x] = client[x]
    BY Zenon DEF Bound
  <2>4. client'[r].pc = "warming" /\ client'[r].slot = s
    BY Zenon DEF Bound
  <2>. QED
    BY <2>1, <2>2, <2>3, <2>4, SMTT(20) DEF Apart, Waiting, Staging, Warming
<1>8. /\ \A x \in DOMAIN leases' : LeaseOK(x)'
      /\ \A x \in DOMAIN objects' : ObjectOK(x)'
  BY <1>4, <1>5, Zenon
<1>. QED
  BY <1>4, <1>6, <1>7, <1>8, Zenon DEF Core

(* A forced drain starts for a thread that is to wait: with a new id, or   *)
(* for an object to warm.                                                  *)
Begun(r) ==
  /\ \/ /\ client'[r].pc \in {"create", "verify"} /\ client'[r].id = nextId /\ nextId \in Id
        /\ client'[r].key \in Key /\ nextId' = nextId + 1
     \/ /\ client'[r].pc = "warm" /\ client'[r].data # None /\ nextId' = nextId
        /\ client'[r].obj \in Id /\ Used(client'[r].obj)
        /\ client'[r].obj \in DOMAIN objects => objects[client'[r].obj].state # "CREATING"
  /\ \A q \in Rank \ {r} : client'[q] = client[q]

LEMMA StartCore ==
  ASSUME StoreInv, NEW r \in Rank, StartDrain(r), Begun(r), UNCHANGED <<leases, loc, cold, pinned, objects>>
  PROVE  Core' /\ slot' \in [Slot -> SlotRecord] /\ drain' \in [Rank -> DrainRecord]
<1>1. PICK i \in Victims :
        /\ slot' = [slot EXCEPT ![leases[i].slot].state = "DRAIN_IN_FLIGHT"]
        /\ drain' = [drain EXCEPT ![r] = [stage |-> "copy", slot |-> leases[i].slot, tid |-> i, data |-> None]]
  BY Zenon DEF StartDrain
<1> DEFINE s == leases[i].slot
<1>2. i \in DOMAIN leases /\ i \in Id /\ s \in Slot /\ State(s) = "PINNED_VALID" /\ LeaseOK(i)
  BY Parts, Zenon DEF Victims, BackingOK, Core
<1>3. slot[s].tid = i /\ Used(i)
  BY <1>2, Zenon DEF LeaseOK
<1> HIDE DEF s
<1>4. /\ slot' \in [Slot -> SlotRecord] /\ slot'[s].state = "DRAIN_IN_FLIGHT" /\ slot'[s].tid = slot[s].tid
      /\ \A t \in Slot \ {s} : slot'[t] = slot[t]
  BY <1>1, <1>2, SetState, Zenon DEF s
<1>5. slot'[s] = [state |-> "DRAIN_IN_FLIGHT", tid |-> i]
  <2>1. slot'[s] \in SlotRecord
    BY <1>2, <1>4, Zenon
  <2>. QED
    BY <1>3, <1>4, <2>1, Zenon DEF SlotRecord
<1>6. /\ drain' \in [Rank -> DrainRecord]
      /\ drain'[r].stage = "copy" /\ drain'[r].slot = s /\ drain'[r].tid = i
      /\ \A q \in Rank \ {r} : drain'[q] = drain[q]
  <2> DEFINE j == [stage |-> "copy", slot |-> s, tid |-> i, data |-> None]
  <2>1. j \in DrainRecord /\ j.stage = "copy" /\ j.slot = s /\ j.tid = i
    BY <1>2, Zenon DEF DrainRecord, Bytes
  <2>2. drain' = [drain EXCEPT ![r] = j]
    BY <1>1, Zenon DEF s
  <2> HIDE DEF j
  <2>. QED
    BY <2>1, <2>2, Parts, Zenon
<1>7. nextId' \in {nextId, nextId + 1} /\ nextId \in Nat /\ Id \subseteq Nat
  BY StoreAssumption, Parts, SMTT(20) DEF Begun, Id
<1>8. \A q \in Rank : client'[q] = client[q] \/ client'[q].pc \notin {"create", "verify"} \/ client'[q].id = nextId
  BY Zenon DEF Begun
<1>9. \A x \in Id : Used(x) => Used(x)'
  BY <1>7, <1>8, Parts, UsedKept, Zenon
<1>10. leases' = leases /\ loc' = loc /\ cold' = cold /\ pinned' = pinned /\ objects' = objects
  BY Zenon
<1>11. \A t \in Slot : slot'[t].tid = slot[t].tid /\ (slot'[t].state = slot[t].state \/ (t = s /\ slot'[t].state = "DRAIN_IN_FLIGHT"))
  BY <1>4, Zenon
<1>12. ASSUME NEW x \in DOMAIN leases' PROVE LeaseOK(x)'
  <2>1. x \in Id /\ x \in DOMAIN leases /\ LeaseOK(x) /\ leases[x].slot \in Slot
    BY <1>10, Parts, Zenon DEF BackingOK, Core
  <2>. QED
    BY <1>9, <1>10, <1>11, <2>1, Zenon DEF LeaseOK, State, LeaseStates
<1>13. \A x \in Id : LocOK(x)'
  BY <1>9, <1>10, Parts, Zenon DEF Core, LocOK
<1>14. ASSUME NEW t \in Slot PROVE SlotOK(t)'
  <2>1. SlotOK(t)
    BY Parts, Zenon DEF Core
  <2>. QED
    BY <1>2, <1>10, <1>11, <2>1, Zenon DEF SlotOK, State, Settled
<1>15. ASSUME NEW x \in DOMAIN objects' PROVE ObjectOK(x)'
  <2>1. x \in Id /\ x \in DOMAIN objects /\ ObjectOK(x) /\ loc[x].slot \in Slot
    BY <1>10, Parts, Zenon DEF BackingOK, IndexOK, LocRecord, Core
  <2>. QED
    BY <1>9, <1>10, <1>11, <2>1, Zenon DEF ObjectOK, State, Settled, Readable, Exists
<1>16. ASSUME NEW q \in Rank PROVE WaitOK(q)' /\ StageOK(q)' /\ WarmOK(q)'
  <2>1. WaitOK(q) /\ StageOK(q) /\ WarmOK(q)
    BY Parts, Zenon DEF Core
  <2>2. CASE q = r
    <3>1. CASE /\ client'[r].pc \in {"create", "verify"} /\ client'[r].id = nextId /\ nextId \in Id
               /\ client'[r].key \in Key /\ nextId' = nextId + 1
      BY <1>7, <2>2, <3>1, SMTT(20) DEF WaitOK, StageOK, WarmOK, Waiting, Staging
    <3>2. CASE /\ client'[r].pc = "warm" /\ client'[r].data # None
               /\ client'[r].obj \in Id /\ Used(client'[r].obj)
               /\ client'[r].obj \in DOMAIN objects => objects[client'[r].obj].state # "CREATING"
      BY <1>9, <1>10, <2>2, <3>2, Zenon DEF WaitOK, StageOK, WarmOK, Waiting, Staging, Exists
    <3>. QED
      BY <3>1, <3>2, Zenon DEF Begun
  <2>3. CASE q # r
    <3>1. client'[q] = client[q]
      BY <2>3, Zenon DEF Begun
    <3>2. WaitOK(q)'
      <4>1. \A x \in Id : x < nextId => x < nextId'
        BY ONLY <1>7
      <4>. QED
        BY ONLY <2>1, <3>1, <4>1, Zenon DEF WaitOK, Waiting
    <3>3. StageOK(q)'
      BY <1>9, <1>10, <2>1, <3>1, Zenon DEF StageOK, Staging, Leased, Exists
    <3>4. Warming(q) => slot'[client[q].slot] = slot[client[q].slot]
      BY <1>2, <1>4, Users, Zenon
    <3>5. WarmOK(q)'
      BY <1>9, <1>10, <2>1, <3>1, <3>4, Zenon DEF WarmOK, Warming, Exists
    <3>. QED
      BY <3>2, <3>3, <3>5, Zenon
  <2>. QED
    BY <2>2, <2>3, Zenon
<1>17. ASSUME NEW q \in Rank PROVE DrainOK(q)'
  <2>1. CASE q = r
    BY <1>2, <1>3, <1>5, <1>6, <1>9, <2>1, SMTT(20) DEF DrainOK
  <2>2. CASE q # r
    <3>1. DrainOK(q) /\ drain'[q] = drain[q]
      BY <1>6, <2>2, Parts, Zenon DEF Core
    <3>2. drain[q].stage # "idle" => slot'[drain[q].slot] = slot[drain[q].slot]
      BY <1>2, <1>4, Users, Zenon
    <3>. QED
      BY <1>9, <3>1, <3>2, Zenon DEF DrainOK
  <2>. QED
    BY <2>1, <2>2, Zenon
<1>18. ASSUME NEW q \in Rank, NEW t \in Rank PROVE Apart(q, t)'
  <2>1. Apart(q, t)
    BY Parts, Zenon DEF Core
  <2>2. \A x \in Rank : Waiting(x) \/ Staging(x) => client[x].id < nextId
    BY Parts, Zenon DEF Core, WaitOK, StageOK, Used
  <2>3. \A x \in Rank : Waiting(x) \/ Staging(x) => client[x].id # nextId
    BY <1>7, <2>2, SMTT(20)
  <2>4. \A x \in Rank : drain[x].stage # "idle" => drain[x].slot # s
    BY <1>2, Users, Zenon
  <2>5. \A x \in Rank \ {r} : client'[x] = client[x] /\ drain'[x] = drain[x]
    BY <1>6, Zenon DEF Begun
  <2>6. /\ client'[r].pc \in {"create", "verify", "warm"} /\ (client'[r].pc # "warm" => client'[r].id = nextId)
        /\ drain'[r].slot = s
    BY <1>6, Zenon DEF Begun
  <2>. QED
    BY <2>1, <2>3, <2>4, <2>5, <2>6, SMTT(20) DEF Apart, Waiting, Staging, Warming
<1>19. Core'
  BY <1>12, <1>13, <1>14, <1>15, <1>16, <1>17, <1>18, Zenon DEF Core
<1>. QED
  BY <1>4, <1>6, <1>19, Zenon
----------------------------------------------------------------------------
(* The tables after a grant.                                               *)
LEMMA GrantStore ==
  ASSUME StoreInv, NEW r \in Rank, NEW pc, NEW i \in Id, NEW k \in Key, NEW o \in Id \cup {0},
         NEW sl, NEW ls, Cleared(sl, ls), NEW s \in FreeSlots(sl), Grant(r, pc, i, k, o, s, sl, ls),
         ~Used(i), i < nextId', nextId' \in {nextId, nextId + 1}, nextId' \in 1 .. MaxId + 1,
         \A q \in Rank \ {r} : Waiting(q) \/ Staging(q) => client[q].id # i,
         UNCHANGED <<alive, versions, pull>>
  PROVE  StoreInv'
<1> DEFINE c == [pc |-> "granted", obj |-> o, id |-> i, key |-> k, slot |-> s, data |-> None]
           x == [state |-> "RESERVED_D2H", tid |-> i]
           l == [slot |-> s, rank |-> r]
           n == NewObject(r, k, s)
<1>1. /\ slot' = [sl EXCEPT ![s] = x] /\ leases' = With(ls, i, l)
      /\ \/ objects' = With(objects, i, n) /\ byKey' = [byKey EXCEPT ![k] = i]
         \/ objects' = objects /\ byKey' = byKey
      /\ client' = [client EXCEPT ![r] = c]
  BY ZenonT(30) DEF Grant, index
<1>2. s \in Slot
  BY Zenon DEF FreeSlots
<1>3. c \in ClientRecord /\ c.pc = "granted" /\ c.id = i /\ c.slot = s /\ c.key = k
  BY <1>2, Zenon DEF ClientRecord, Bytes
<1>4. x \in SlotRecord /\ x.state = "RESERVED_D2H" /\ x.tid = i
  BY Zenon DEF SlotRecord
<1>5. l \in [slot : Slot, rank : Rank] /\ l.slot = s
  BY <1>2, Zenon
<1>6. n \in Object /\ n.state = "CREATING" /\ n.slot = s /\ n.exports = 0
  BY <1>2, Zenon DEF NewObject, Object
<1> HIDE DEF c, x, l, n
<1>7. client' \in [Rank -> ClientRecord] /\ client'[r] = c /\ \A q \in Rank \ {r} : client'[q] = client[q]
  BY <1>1, <1>3, Parts, Zenon
<1>8. slot' \in [Slot -> SlotRecord] /\ slot'[s] = x /\ \A t \in Slot \ {s} : slot'[t] = sl[t]
  BY <1>1, <1>2, <1>4, SMTT(20) DEF Cleared
<1>9. DOMAIN leases' = DOMAIN ls \cup {i} /\ leases'[i] = l /\ \A y \in DOMAIN ls \ {i} : leases'[y] = ls[y]
  BY <1>1, Zenon DEF With
<1>10. Undisturbed(s, ls)
  BY <1>8, TakenUndisturbed, Zenon
<1>11. i \notin DOMAIN objects
  BY Parts, Zenon DEF Core, ObjectOK
<1>12. \/ objects' = objects
       \/ /\ DOMAIN objects' = DOMAIN objects \cup {i} /\ objects'[i] = n
          /\ \A y \in DOMAIN objects \ {i} : objects'[y] = objects[y]
  BY <1>1, Zenon DEF With
<1>13. Granted(r, i, s, ls)
  <2>1. /\ slot'[s].state = "RESERVED_D2H" /\ slot'[s].tid = i /\ leases'[i].slot = s
        /\ client'[r].pc = "granted" /\ client'[r].id = i /\ client'[r].slot = s /\ client'[r].key \in Key
    BY <1>3, <1>4, <1>5, <1>7, <1>8, <1>9, SMTT(20)
  <2>2. \/ objects' = objects
        \/ /\ DOMAIN objects' = DOMAIN objects \cup {i}
           /\ objects'[i].state = "CREATING" /\ objects'[i].slot = s
           /\ \A y \in DOMAIN objects \ {i} : objects'[y] = objects[y]
    BY <1>6, <1>12, Zenon
  <2>. QED
    BY <1>7, <1>9, <2>1, <2>2, Zenon DEF Granted
<1>14. Core'
  BY <1>2, <1>10, <1>13, Parts, GrantedCore, Zenon
<1>15. BackingOK'
  <2>1. loc' \in [Id -> LocRecord] /\ cold' \in [Id -> Bytes]
    BY Zenon DEF Cleared
  <2>2. \A y \in DOMAIN ls : y \in Id /\ ls[y] \in [slot : Slot, rank : Rank]
    BY <1>10, Parts, Zenon DEF Undisturbed, BackingOK
  <2>3. DOMAIN leases' \subseteq Id /\ \A y \in DOMAIN leases' : leases'[y] \in [slot : Slot, rank : Rank]
    BY <1>5, <1>9, <2>2, Zenon
  <2>. QED
    BY <1>8, <2>1, <2>3, Zenon DEF BackingOK
<1>16. IndexOK'
  <2>1. byKey' \in [Key -> Id \cup {0}]
    BY <1>1, Parts, Zenon DEF IndexOK
  <2>2. DOMAIN objects \subseteq Id /\ \A y \in DOMAIN objects : objects[y] \in Object
    BY Parts, Zenon DEF IndexOK
  <2>3. DOMAIN objects' \subseteq Id /\ \A y \in DOMAIN objects' : objects'[y] \in Object
    BY <1>6, <1>12, <2>2, Zenon
  <2>. QED
    BY <2>1, <2>3, Zenon DEF IndexOK
<1>17. Counted(objects', pull)
  <2>1. CASE objects' = objects
    BY <2>1, Parts, Zenon
  <2>2. CASE /\ DOMAIN objects' = DOMAIN objects \cup {i} /\ objects'[i] = n
             /\ \A y \in DOMAIN objects \ {i} : objects'[y] = objects[y]
    <3>1. \A y \in Id : /\ IsFiniteSet(PullsOf(pull, y))
                        /\ PullsOf(pull, y) # {} => y \in DOMAIN objects /\ objects[y].state # "CREATING"
                        /\ y \in DOMAIN objects => objects[y].exports = Cardinality(PullsOf(pull, y))
      BY Parts, Zenon DEF Counted
    <3>2. PullsOf(pull, i) = {} /\ objects'[i].exports = 0
      BY <1>6, <1>11, <2>2, <3>1, SMTT(20)
    <3>3. objects'[i].exports = Cardinality(PullsOf(pull, i))
      BY <3>2, FS_EmptySet, Zenon
    <3>4. \A y \in DOMAIN objects : y # i /\ objects'[y] = objects[y]
      BY <1>11, <2>2, Zenon
    <3> SUFFICES ASSUME NEW y \in Id
                 PROVE  /\ IsFiniteSet(PullsOf(pull, y))
                        /\ PullsOf(pull, y) # {} => y \in DOMAIN objects' /\ objects'[y].state # "CREATING"
                        /\ y \in DOMAIN objects' => objects'[y].exports = Cardinality(PullsOf(pull, y))
      BY Zenon DEF Counted
    <3>5. CASE y = i
      BY <3>1, <3>2, <3>3, <3>5, Zenon
    <3>6. CASE y # i
      <4>1. y \in DOMAIN objects' <=> y \in DOMAIN objects
        BY <2>2, <3>6, Zenon
      <4>. QED
        BY <3>1, <3>4, <4>1, Zenon
    <3>. QED
      BY <3>5, <3>6, Zenon
  <2>. QED
    BY <1>12, <2>1, <2>2, Zenon
<1>18. drain' \in [Rank -> DrainRecord] /\ pinned' \in [Slot -> Bytes] /\ alive' \subseteq Rank
  BY Parts, Zenon DEF Cleared
<1>. QED
  BY <1>7, <1>14, <1>15, <1>16, <1>17, <1>18, Parts, RankStep, ZenonT(30)

(* ... and after a slot is bound to an object to warm.                     *)
LEMMA BindStore ==
  ASSUME StoreInv, NEW r \in Rank, NEW o \in Id, NEW bytes \in Bytes, bytes # None, Used(o),
         o \in DOMAIN objects => objects[o].state # "CREATING",
         NEW sl, NEW ls, Cleared(sl, ls), NEW s \in FreeSlots(sl), BindWarm(r, o, s, sl, bytes),
         leases' = ls, UNCHANGED <<alive, index, versions, pull, nextId>>
  PROVE  StoreInv'
<1> DEFINE c == [Idle EXCEPT !.pc = "warming", !.obj = o, !.slot = s, !.data = bytes]
           x == [state |-> "READBACK_IN_FLIGHT", tid |-> o]
<1>1. slot' = [sl EXCEPT ![s] = x] /\ client' = [client EXCEPT ![r] = c]
  BY ZenonT(30) DEF BindWarm
<1>2. s \in Slot /\ objects' = objects /\ byKey' = byKey
  BY Zenon DEF FreeSlots, index
<1>3. c \in ClientRecord /\ c.pc = "warming" /\ c.obj = o /\ c.slot = s /\ c.data = bytes
  BY <1>2, Zenon DEF Idle, ClientRecord, Bytes
<1>4. x \in SlotRecord
  BY Zenon DEF SlotRecord
<1> HIDE DEF c
<1>5. client' \in [Rank -> ClientRecord] /\ client'[r] = c /\ \A q \in Rank \ {r} : client'[q] = client[q]
  BY <1>1, <1>3, Parts, Zenon
<1>6. slot' \in [Slot -> SlotRecord] /\ slot'[s] = x /\ \A t \in Slot \ {s} : slot'[t] = sl[t]
  <2> HIDE DEF x
  <2>. QED
    BY <1>1, <1>2, <1>4, Zenon DEF Cleared
<1>7. Undisturbed(s, ls)
  BY <1>6, TakenUndisturbed, Zenon
<1>8. Bound(r, o, s, ls)
  BY <1>2, <1>3, <1>5, <1>6, Zenon DEF Bound
<1>9. Core'
  BY <1>2, <1>7, <1>8, Parts, BoundCore, ZenonT(30)
<1>10. BackingOK'
  <2>1. loc' \in [Id -> LocRecord] /\ cold' \in [Id -> Bytes]
    BY Zenon DEF Cleared
  <2>2. \A y \in DOMAIN ls : y \in Id /\ ls[y] \in [slot : Slot, rank : Rank]
    BY <1>7, Parts, Zenon DEF Undisturbed, BackingOK
  <2>. QED
    BY <1>6, <2>1, <2>2, Zenon DEF BackingOK
<1>11. IndexOK' /\ Counted(objects', pull)
  BY <1>2, Parts, Zenon DEF IndexOK
<1>12. drain' \in [Rank -> DrainRecord] /\ pinned' \in [Slot -> Bytes] /\ alive' \subseteq Rank
  BY Parts, Zenon DEF Cleared
<1>. QED
  BY <1>5, <1>9, <1>10, <1>11, <1>12, Parts, RankStep, ZenonT(30)

LEMMA ReserveStore ==
  ASSUME StoreInv, NEW r \in Rank, NEW pc \in {"create", "verify"}, NEW k \in Key, NEW o \in Id \cup {0},
         Reserve(r, pc, k, o)
  PROVE  StoreInv'
<1>1. nextId <= MaxId /\ nextId' = nextId + 1 /\ UNCHANGED <<alive, loc, cold, pinned, versions, pull>>
  BY Zenon DEF Reserve
<1>2. nextId \in Id /\ nextId < nextId' /\ nextId' \in 1 .. MaxId + 1
  BY <1>1, StoreAssumption, Parts, SMTT(20) DEF Id
<1>3. ~Used(nextId) /\ \A q \in Rank : Waiting(q) \/ Staging(q) => client[q].id # nextId
  <2>1. ~(nextId < nextId)
    BY <1>2 DEF Id
  <2>2. \A q \in Rank : Waiting(q) \/ Staging(q) => client[q].id < nextId
    BY Parts, Zenon DEF Core, WaitOK, StageOK, Used
  <2>. QED
    BY <2>1, <2>2, Zenon DEF Used
<1>4. CASE /\ \E s \in FreeSlots(slot) : Grant(r, pc, nextId, k, o, s, slot, leases)
           /\ UNCHANGED drain
  <2>1. PICK s \in FreeSlots(slot) : Grant(r, pc, nextId, k, o, s, slot, leases)
    BY <1>4, Zenon
  <2>2. Cleared(slot, leases)
    BY <1>1, <1>4, NothingCleared, Zenon
  <2>3. nextId' \in {nextId, nextId + 1} /\ UNCHANGED <<alive, versions, pull>>
    BY <1>1, Zenon
  <2>. QED
    BY <1>2, <1>3, <2>1, <2>2, <2>3, GrantStore, ZenonT(30)
<1>5. CASE /\ StartDrain(r)
           /\ client' = [client EXCEPT ![r] =
                 [pc |-> pc, obj |-> o, id |-> nextId, key |-> k, slot |-> 0, data |-> None]]
           /\ UNCHANGED <<leases, index>>
  <2> DEFINE c == [pc |-> pc, obj |-> o, id |-> nextId, key |-> k, slot |-> 0, data |-> None]
  <2>1. c \in ClientRecord /\ c.pc = pc /\ c.id = nextId /\ c.key = k
    BY <1>2, IdleTyped, Zenon DEF ClientRecord, Bytes
  <2>2. client' = [client EXCEPT ![r] = c]
    BY <1>5, Zenon
  <2> HIDE DEF c
  <2>3. client' \in [Rank -> ClientRecord] /\ client'[r] = c /\ \A q \in Rank \ {r} : client'[q] = client[q]
    BY <2>1, <2>2, Parts, Zenon
  <2>4. Begun(r)
    BY <1>1, <1>2, <2>1, <2>3, Zenon DEF Begun
  <2>5. objects' = objects /\ byKey' = byKey /\ UNCHANGED <<leases, loc, cold, pinned, objects>>
    BY <1>1, <1>5, Zenon DEF index
  <2>6. Core' /\ slot' \in [Slot -> SlotRecord] /\ drain' \in [Rank -> DrainRecord]
    BY <1>5, <2>4, <2>5, StartCore, Zenon
  <2>7. BackingOK' /\ IndexOK' /\ Counted(objects', pull)
    BY <2>5, <2>6, Parts, Zenon DEF BackingOK, IndexOK
  <2>. QED
    BY <1>1, <1>2, <2>3, <2>6, <2>7, Parts, RankStep, ZenonT(30)
<1>. QED
  BY <1>4, <1>5, Zenon DEF Reserve

LEMMA EvictReserveStore ==
  ASSUME StoreInv, NEW r \in Rank, NEW k \in Key, EvictCandidate(r, k) \/ EvictCreate(r, k)
  PROVE  StoreInv'
<1>1. CASE EvictCandidate(r, k)
  <2>1. byKey[k] \in Id \cup {0} /\ Reserve(r, "verify", k, byKey[k])
    BY <1>1, Parts, Zenon DEF EvictCandidate, IndexOK
  <2>. QED
    BY <2>1, ReserveStore, Zenon
<1>2. CASE EvictCreate(r, k)
  <2>1. nextId \in Id \cup {0} /\ Reserve(r, "create", k, nextId)
    BY <1>2, StoreAssumption, Parts, SMTT(20) DEF EvictCreate, Reserve, Id
  <2>. QED
    BY <2>1, ReserveStore, ZenonT(30)
<1>. QED
  BY <1>1, <1>2, Zenon

LEMMA RestoreColdStore ==
  ASSUME StoreInv, NEW r \in Rank, NEW o \in DOMAIN objects, RestoreCold(r, o)
  PROVE  StoreInv'
<1>1. /\ objects[o].state # "CREATING" /\ cold[o] # None
      /\ UNCHANGED <<alive, leases, loc, cold, pinned, index, versions, pull, nextId>>
  BY Zenon DEF RestoreCold, Restorable, Readable
<1>2. o \in Id /\ cold[o] \in Bytes /\ Used(o)
  BY Parts, Zenon DEF IndexOK, BackingOK, Core, ObjectOK
<1>3. CASE /\ \E s \in FreeSlots(slot) : BindWarm(r, o, s, slot, cold[o])
           /\ UNCHANGED drain
  <2>1. PICK s \in FreeSlots(slot) : BindWarm(r, o, s, slot, cold[o])
    BY <1>3, Zenon
  <2>2. Cleared(slot, leases)
    BY <1>1, <1>3, NothingCleared, Zenon
  <2>3. leases' = leases /\ UNCHANGED <<alive, index, versions, pull, nextId>>
    BY <1>1, Zenon
  <2>. QED
    BY <1>1, <1>2, <2>1, <2>2, <2>3, BindStore, ZenonT(30)
<1>4. CASE /\ StartDrain(r)
           /\ client' = [client EXCEPT ![r] = [Idle EXCEPT !.pc = "warm", !.obj = o, !.data = cold[o]]]
  <2> DEFINE c == [Idle EXCEPT !.pc = "warm", !.obj = o, !.data = cold[o]]
  <2>1. c \in ClientRecord /\ c.pc = "warm" /\ c.obj = o /\ c.data = cold[o]
    BY <1>2, IdleTyped, Zenon DEF Idle, ClientRecord, Bytes
  <2>2. client' = [client EXCEPT ![r] = c]
    BY <1>4, Zenon
  <2> HIDE DEF c
  <2>3. client' \in [Rank -> ClientRecord] /\ client'[r] = c /\ \A q \in Rank \ {r} : client'[q] = client[q]
    BY <2>1, <2>2, Parts, Zenon
  <2>4. Begun(r)
    BY <1>1, <1>2, <2>1, <2>3, Zenon DEF Begun
  <2>5. objects' = objects /\ byKey' = byKey /\ UNCHANGED <<leases, loc, cold, pinned, objects>>
    BY <1>1, Zenon DEF index
  <2>6. Core' /\ slot' \in [Slot -> SlotRecord] /\ drain' \in [Rank -> DrainRecord]
    BY <1>4, <2>4, <2>5, StartCore, Zenon
  <2>7. BackingOK' /\ IndexOK' /\ Counted(objects', pull)
    BY <2>5, <2>6, Parts, Zenon DEF BackingOK, IndexOK
  <2>. QED
    BY <1>1, <2>3, <2>6, <2>7, Parts, RankStep, ZenonT(30)
<1>. QED
  BY <1>3, <1>4, Zenon DEF RestoreCold

LEMMA DrainDoneStore ==
  ASSUME StoreInv, NEW r \in Rank, DrainDone(r)
  PROVE  StoreInv'
<1> DEFINE c == client[r]
           sl == [slot EXCEPT ![drain[r].slot] = FreeSlot]
           ls == Without(leases, {drain[r].tid})
<1>1. /\ drain[r].stage = "commit" /\ Drained(drain[r])
      /\ \E s \in FreeSlots(sl) :
           \/ c.pc = "create" /\ Grant(r, c.pc, c.id, c.key, c.id, s, sl, ls)
           \/ /\ c.pc = "verify"
              /\ \E o \in IF Exists(c.obj) THEN {c.obj} ELSE Id :
                   Grant(r, c.pc, c.id, c.key, o, s, sl, ls)
           \/ /\ c.pc = "warm" /\ BindWarm(r, c.obj, s, sl, c.data)
              /\ leases' = ls /\ UNCHANGED index
      /\ drain' = [drain EXCEPT ![r] = NoDrain]
      /\ UNCHANGED <<alive, pinned, versions, pull, nextId>>
  BY ZenonT(30) DEF DrainDone
<1>2. Cleared(sl, ls)
  BY <1>1, DrainCleared, Zenon
<1> HIDE DEF sl, ls
<1>3. UNCHANGED <<alive, versions, pull>> /\ nextId' = nextId
  BY <1>1, Zenon
<1>4. nextId' \in {nextId, nextId + 1} /\ nextId' \in 1 .. MaxId + 1
  BY <1>3, Parts, Zenon
<1>5. ASSUME NEW s \in FreeSlots(sl), NEW o \in Id \cup {0}, c.pc \in {"create", "verify"},
             Grant(r, c.pc, c.id, c.key, o, s, sl, ls)
      PROVE  StoreInv'
  <2>1. Waiting(r) /\ WaitOK(r) /\ \A q \in Rank : Apart(q, r)
    BY <1>5, Parts, Zenon DEF Waiting, Core
  <2>2. c.id \in Id /\ c.id < nextId' /\ c.key \in Key
    BY <1>3, <2>1, Zenon DEF WaitOK
  <2>3. ~Used(c.id) /\ \A q \in Rank \ {r} : Waiting(q) \/ Staging(q) => client[q].id # c.id
    BY <2>1, Zenon DEF Used, Apart
  <2>. QED
    BY <1>2, <1>3, <1>4, <1>5, <2>2, <2>3, GrantStore, ZenonT(30)
<1>6. c.id \in Id \cup {0} /\ c.obj \in Id \cup {0} /\ c.data \in Bytes
  BY Parts, Zenon DEF ClientRecord
<1>7. ASSUME NEW s \in FreeSlots(sl), c.pc = "warm", BindWarm(r, c.obj, s, sl, c.data), leases' = ls,
             UNCHANGED index
      PROVE  StoreInv'
  <2>1. /\ c.obj \in Id /\ Used(c.obj) /\ c.data # None
        /\ c.obj \in DOMAIN objects => objects[c.obj].state # "CREATING"
    BY <1>7, Parts, Zenon DEF Core, WarmOK, Exists
  <2>2. UNCHANGED <<alive, index, versions, pull, nextId>>
    BY <1>3, <1>7, Zenon
  <2>. QED
    BY <1>2, <1>6, <1>7, <2>1, <2>2, BindStore, ZenonT(30)
<1>8. PICK s \in FreeSlots(sl) :
        \/ c.pc = "create" /\ Grant(r, c.pc, c.id, c.key, c.id, s, sl, ls)
        \/ /\ c.pc = "verify"
           /\ \E o \in IF Exists(c.obj) THEN {c.obj} ELSE Id : Grant(r, c.pc, c.id, c.key, o, s, sl, ls)
        \/ /\ c.pc = "warm" /\ BindWarm(r, c.obj, s, sl, c.data)
           /\ leases' = ls /\ UNCHANGED index
  BY <1>1, Zenon
<1> HIDE DEF c
<1>9. CASE c.pc = "create" /\ Grant(r, c.pc, c.id, c.key, c.id, s, sl, ls)
  BY <1>5, <1>6, <1>9, Zenon
<1>10. CASE /\ c.pc = "verify"
            /\ \E o \in IF Exists(c.obj) THEN {c.obj} ELSE Id : Grant(r, c.pc, c.id, c.key, o, s, sl, ls)
  <2>1. PICK o \in Id \cup {0} : Grant(r, c.pc, c.id, c.key, o, s, sl, ls)
    BY <1>6, <1>10, Zenon
  <2>. QED
    BY <1>5, <1>10, <2>1, Zenon
<1>11. CASE /\ c.pc = "warm" /\ BindWarm(r, c.obj, s, sl, c.data)
            /\ leases' = ls /\ UNCHANGED index
  BY <1>7, <1>11, Zenon
<1>. QED
  BY <1>8, <1>9, <1>10, <1>11, Zenon
----------------------------------------------------------------------------
LEMMA StutterStore == ASSUME StoreInv, UNCHANGED vars PROVE StoreInv'
<1>1. /\ UNCHANGED <<alive, slot, leases, loc, cold, pinned, objects, byKey, manifest, latest>>
      /\ UNCHANGED <<client, drain, pull, nextId>>
  BY Zenon DEF vars, backing, index, versions
<1>2. TypeOK'
  BY <1>1, Parts, Zenon DEF TypeOK
<1>3. Core'
  <2>1. (\A i \in DOMAIN leases : LeaseOK(i))' /\ (\A i \in Id : LocOK(i))' /\ (\A s \in Slot : SlotOK(s))'
    BY <1>1, Parts, Zenon DEF Core, LeaseOK, LocOK, SlotOK, Used, Waiting, State
  <2>2. (\A o \in DOMAIN objects : ObjectOK(o))'
    BY <1>1, Parts, Zenon DEF Core, ObjectOK, Used, Waiting, State, Readable, Exists
  <2>3. ASSUME NEW r \in Rank PROVE WaitOK(r)' /\ StageOK(r)' /\ WarmOK(r)' /\ DrainOK(r)'
    <3>1. WaitOK(r) /\ StageOK(r) /\ WarmOK(r) /\ DrainOK(r)
      BY Parts, Zenon DEF Core
    <3>2. WaitOK(r)' /\ DrainOK(r)'
      BY <1>1, <3>1, Zenon DEF WaitOK, DrainOK, Used, Waiting
    <3>3. StageOK(r)'
      BY <1>1, <3>1, Zenon DEF StageOK, Used, Waiting, Staging, Leased, Exists
    <3>4. WarmOK(r)'
      BY <1>1, <3>1, Zenon DEF WarmOK, Used, Waiting, Exists
    <3>. QED
      BY <3>2, <3>3, <3>4, Zenon
  <2>4. (\A q, r \in Rank : Apart(q, r))'
    BY <1>1, Parts, ZenonT(30) DEF Core, Apart, Waiting, Staging, Warming
  <2>. QED
    BY <2>1, <2>2, <2>3, <2>4, ZenonT(30) DEF Core
<1>4. Counted(objects, pull)' /\ (\A p \in Puller : PullOK(p))'
  BY <1>1, Parts, Zenon DEF Counted, PullsOf, PullOK
<1>. QED
  BY <1>2, <1>3, <1>4, Zenon DEF StoreInv

LEMMA NextStore == ASSUME StoreInv, [Next]_vars PROVE StoreInv'
<1>1. CASE HandlerNext
  <2>1. PICK r \in Rank : \/ DrainCopy(r) \/ DrainDone(r) \/ DrainFailed(r)
                          \/ WarmCopy(r) \/ WarmDone(r) \/ WarmFailed(r)
    BY <1>1, Zenon DEF HandlerNext
  <2>2. CASE DrainCopy(r) \/ DrainDone(r) \/ DrainFailed(r)
    BY <2>2, DrainCopyStore, DrainDoneStore, DrainFailedStore, Zenon
  <2>3. CASE WarmCopy(r) \/ WarmDone(r) \/ WarmFailed(r)
    BY <2>3, WarmCopyStore, WarmDoneStore, WarmFailedStore, Zenon
  <2>. QED
    BY <2>1, <2>2, <2>3, Zenon
<1>2. CASE RankNext
  <2>1. PICK r \in Rank :
          \/ \E k \in Key : EvictAttach(r, k) \/ EvictCandidate(r, k) \/ EvictCreate(r, k)
          \/ MarkD2HSubmitted(r) \/ Land(r) \/ D2HComplete(r) \/ CommitCreator(r)
          \/ \E hashOk \in BOOLEAN : CommitCandidate(r, hashOk)
          \/ \E o \in DOMAIN objects :
               RestorePinned(r, o) \/ RestoreCold(r, o) \/ ReleaseCanonical(r, {o})
          \/ H2D(r) \/ ReleaseRestore(r)
          \/ \E v \in Version : ReleaseCanonical(r, OfVersion(v))
          \/ Die(r)
    BY <1>2, Zenon DEF RankNext
  <2>2. CASE \E k \in Key : EvictAttach(r, k) \/ EvictCandidate(r, k) \/ EvictCreate(r, k)
    BY <2>2, EvictAttachStore, EvictReserveStore, Zenon
  <2>3. CASE MarkD2HSubmitted(r) \/ Land(r) \/ D2HComplete(r) \/ CommitCreator(r)
    BY <2>3, MarkStore, LandStore, D2HCompleteStore, CommitCreatorStore, ZenonT(30)
  <2>4. CASE \E hashOk \in BOOLEAN : CommitCandidate(r, hashOk)
    BY <2>4, CommitCandidateStore, Zenon
  <2>5. CASE \E o \in DOMAIN objects :
               RestorePinned(r, o) \/ RestoreCold(r, o) \/ ReleaseCanonical(r, {o})
    BY <2>5, RestorePinnedStore, RestoreColdStore, ReleaseCanonicalStore, ZenonT(30)
  <2>6. CASE H2D(r) \/ ReleaseRestore(r)
    BY <2>6, H2DStore, ReleaseRestoreStore, Zenon
  <2>7. CASE \E v \in Version : ReleaseCanonical(r, OfVersion(v))
    BY <2>7, ReleaseCanonicalStore, Zenon
  <2>8. CASE Die(r)
    BY <2>8, DieStore, Zenon
  <2>. QED
    BY <2>1, <2>2, <2>3, <2>4, <2>5, <2>6, <2>7, <2>8, ZenonT(30)
<1>3. CASE RolloutNext
  <2>1. CASE \E v \in Version :
               \/ \E expected \in {{}, Param} : SealFailed(v, expected)
               \/ \E promote \in BOOLEAN : Seal(v, promote)
               \/ DropVersion(v)
    BY <2>1, SealFailedStore, SealStore, DropVersionStore, Zenon
  <2>2. CASE \E p \in Puller :
               \/ \E v \in Version, o \in DOMAIN objects : Pull(p, v, o)
               \/ StageCold(p) \/ StageFailed(p) \/ PullDone(p)
    BY <2>2, PullStore, StageColdStore, StageFailedStore, PullDoneStore, ZenonT(30)
  <2>. QED
    BY <1>3, <2>1, <2>2, Zenon DEF RolloutNext
<1>4. CASE UNCHANGED vars
  BY <1>4, StutterStore, Zenon
<1>. QED
  BY <1>1, <1>2, <1>3, <1>4, ZenonT(30) DEF Next

(* The tables and threads of the store agree in every state, whatever the  *)
(* ranks and rollout engines call, in which order, and whatever fails.     *)
THEOREM StoreConsistent == Spec => []StoreInv
<1>1. Init => StoreInv
  BY InitStore, Zenon
<1>2. StoreInv /\ [Next]_vars => StoreInv'
  BY NextStore, Zenon
<1>. QED
  BY <1>1, <1>2, PTL DEF Spec

(* The tables and threads keep their types.                                *)
THEOREM StoreTyped == Spec => []TypeOK
<1>1. StoreInv => TypeOK
  BY Zenon DEF StoreInv
<1>. QED
  BY <1>1, StoreConsistent, PTL

(* A readable object can be found: release_object, drains that run with    *)
(* mu_ released, restores, pulls and the end of sessions leave it a valid  *)
(* slot of its own or a cold entry.                                        *)
THEOREM ObjectsLocated == Spec => []Located
<1>1. StoreInv => Located
  <2> SUFFICES ASSUME StoreInv, NEW o \in DOMAIN objects, Readable(o)
               PROVE  \/ /\ loc[o].kind = "PINNED"
                         /\ slot[loc[o].slot].tid = o /\ State(loc[o].slot) \in Settled
                      \/ loc[o].kind = "COLD" /\ cold[o] # None
    BY Zenon DEF Located, Settled
  <2>1. ObjectOK(o) /\ LocOK(o) /\ loc[o].kind \in {"NONE", "PINNED", "COLD"}
    BY Parts, ZenonT(30) DEF IndexOK, BackingOK, LocRecord, Core
  <2>. QED
    BY <2>1, Zenon DEF ObjectOK, LocOK
<1>. QED
  BY <1>1, StoreConsistent, PTL

(* What a rollout connection pulls stays in the table with a hold on it    *)
(* until the pull gives it back (handle_pull_tensor): no release, drop,    *)
(* retention or death of a holder removes it.                              *)
THEOREM PulledObjectsHeld == Spec => []ExportHeld
<1>1. StoreInv => ExportHeld
  <2> SUFFICES ASSUME StoreInv, NEW p \in Puller, pull[p].pc # "idle"
               PROVE  Exists(pull[p].obj) /\ objects[pull[p].obj].exports > 0
    BY Zenon DEF ExportHeld
  <2> DEFINE o == pull[p].obj
             S == PullsOf(pull, o)
  <2>1. o \in Id /\ p \in S
    BY Parts, Zenon DEF PullOK, PullsOf
  <2>2. IsFiniteSet(S) /\ Exists(o) /\ objects[o].exports = Cardinality(S)
    BY <2>1, Parts, Zenon DEF Counted, Exists
  <2>3. Cardinality(S) \in Nat /\ Cardinality(S) # 0
    BY <2>1, <2>2, FS_CardinalityType, FS_EmptySet, ZenonT(30)
  <2>. QED
    BY ONLY <2>2, <2>3, SMTT(20)
<1>. QED
  BY <1>1, StoreConsistent, PTL
----------------------------------------------------------------------------
(* Only sealing and dropping change the manifests.                         *)
LEMMA VersionsSame == HandlerNext \/ RankNext => manifest' = manifest /\ latest' = latest
<1> SUFFICES ASSUME HandlerNext \/ RankNext PROVE UNCHANGED versions
  BY Zenon DEF versions
<1>1. ASSUME NEW r \in Rank, NEW pc, NEW k, NEW o, Reserve(r, pc, k, o) PROVE UNCHANGED versions
  BY <1>1, Zenon DEF Reserve
<1>2. ASSUME NEW r \in Rank, NEW S, ReleaseCanonical(r, S) PROVE UNCHANGED versions
  BY <1>2, Zenon DEF ReleaseCanonical
<1>3. CASE HandlerNext
  <2>1. PICK r \in Rank : \/ DrainCopy(r) \/ DrainDone(r) \/ DrainFailed(r)
                          \/ WarmCopy(r) \/ WarmDone(r) \/ WarmFailed(r)
    BY <1>3, Zenon DEF HandlerNext
  <2>2. DrainCopy(r) \/ DrainDone(r) \/ DrainFailed(r) => UNCHANGED versions
    BY Zenon DEF DrainCopy, DrainDone, DrainFailed
  <2>3. WarmCopy(r) \/ WarmDone(r) \/ WarmFailed(r) => UNCHANGED versions
    BY Zenon DEF WarmCopy, WarmDone, WarmFailed
  <2>. QED
    BY <2>1, <2>2, <2>3, Zenon
<1>4. CASE RankNext
  <2>1. PICK r \in Rank :
          \/ \E k \in Key : EvictAttach(r, k) \/ EvictCandidate(r, k) \/ EvictCreate(r, k)
          \/ MarkD2HSubmitted(r) \/ Land(r) \/ D2HComplete(r) \/ CommitCreator(r)
          \/ \E hashOk \in BOOLEAN : CommitCandidate(r, hashOk)
          \/ \E o \in DOMAIN objects :
               RestorePinned(r, o) \/ RestoreCold(r, o) \/ ReleaseCanonical(r, {o})
          \/ H2D(r) \/ ReleaseRestore(r)
          \/ \E v \in Version : ReleaseCanonical(r, OfVersion(v))
          \/ Die(r)
    BY <1>4, Zenon DEF RankNext
  <2>2. ASSUME NEW k PROVE EvictAttach(r, k) \/ EvictCandidate(r, k) \/ EvictCreate(r, k) => UNCHANGED versions
    BY <1>1, Zenon DEF EvictAttach, EvictCandidate, EvictCreate
  <2>3. MarkD2HSubmitted(r) \/ Land(r) \/ D2HComplete(r) \/ CommitCreator(r) => UNCHANGED versions
    BY Zenon DEF MarkD2HSubmitted, Land, D2HComplete, CommitCreator
  <2>4. ASSUME NEW hashOk PROVE CommitCandidate(r, hashOk) => UNCHANGED versions
    BY Zenon DEF CommitCandidate
  <2>5. ASSUME NEW o PROVE RestorePinned(r, o) \/ RestoreCold(r, o) => UNCHANGED versions
    BY Zenon DEF RestorePinned, RestoreCold
  <2>6. H2D(r) \/ ReleaseRestore(r) \/ Die(r) => UNCHANGED versions
    BY Zenon DEF H2D, ReleaseRestore, Die
  <2>. QED
    BY <1>2, <2>1, <2>2, <2>3, <2>4, <2>5, <2>6, ZenonT(30)
<1>. QED
  BY <1>3, <1>4, Zenon

LEMMA SealLatest ==
  ASSUME StoreInv, LatestSealed, NEW v \in Version, NEW promote \in BOOLEAN, Seal(v, promote)
  PROVE  LatestSealed'
<1> DEFINE members == {o \in OfVersion(v) : Readable(o)}
           man == [manifest EXCEPT ![v] = [state |-> "SEALED", members |-> members]]
           expired == IF promote THEN Expired({w \in Version : man[w].state = "SEALED"}, v) ELSE {}
           objs == [o \in DOMAIN objects |->
             IF o \in members THEN [objects[o] EXCEPT !.state = "SEALED"] ELSE objects[o]]
           gone == Releasable(objs, UNION {OfVersion(w) : w \in expired})
<1>1. /\ manifest' = [w \in Version |->
           IF w \in expired /\ OfVersion(w) \subseteq gone THEN NoManifest ELSE man[w]]
      /\ latest' = IF promote THEN v ELSE latest
  BY ZenonT(30) DEF Seal
<1>3. man[v].state = "SEALED" /\ \A w \in Version \ {v} : man[w] = manifest[w]
  BY Parts, Zenon DEF VersionsOK
<1>4. v \notin expired
  BY Zenon DEF Expired
<1>5. ~promote => expired = {}
  BY Zenon
<1> HIDE DEF man, expired, gone
<1>6. latest \in Version \cup {0} /\ (latest # 0 => manifest[latest].state = "SEALED")
  BY Parts, Zenon DEF VersionsOK, LatestSealed
<1>7. CASE promote
  BY <1>1, <1>3, <1>4, <1>7, ZenonT(30) DEF LatestSealed
<1>8. CASE ~promote
  <2>1. latest' = latest /\ \A w \in Version : manifest'[w] = man[w]
    BY <1>1, <1>5, <1>8, Zenon
  <2>. QED
    BY ONLY <1>3, <1>6, <2>1, Zenon DEF LatestSealed
<1>. QED
  BY <1>7, <1>8, Zenon

(* The latest version is sealed, whatever is sealed, trimmed by retention  *)
(* (enforce_sealed_retention spares the version being promoted) or dropped *)
(* (handle_drop_canonical_version resets the latest version).              *)
THEOREM LatestVersionSealed == Spec => []LatestSealed
<1>1. Init => LatestSealed
  BY Zenon DEF Init, LatestSealed
<1>2. StoreInv /\ LatestSealed /\ [Next]_vars => LatestSealed'
  <2> SUFFICES ASSUME StoreInv, LatestSealed, [Next]_vars PROVE LatestSealed'
    BY Zenon
  <2>1. CASE manifest' = manifest /\ latest' = latest
    BY <2>1, Zenon DEF LatestSealed
  <2>2. CASE \E v \in Version :
               \/ \E expected \in {{}, Param} : SealFailed(v, expected)
               \/ \E promote \in BOOLEAN : Seal(v, promote)
               \/ DropVersion(v)
    <3>1. PICK v \in Version :
            \/ \E expected \in {{}, Param} : SealFailed(v, expected)
            \/ \E promote \in BOOLEAN : Seal(v, promote)
            \/ DropVersion(v)
      BY <2>2, Zenon
    <3>2. latest \in Version \cup {0} /\ (latest # 0 => manifest[latest].state = "SEALED")
          /\ \A m : \A w \in Version \ {v} : [manifest EXCEPT ![v] = m][w] = manifest[w]
      BY Parts, Zenon DEF VersionsOK, LatestSealed
    <3>3. ASSUME NEW expected, SealFailed(v, expected) PROVE LatestSealed'
      <4>1. /\ manifest[v].state # "SEALED" /\ latest' = latest
            /\ manifest' = [manifest EXCEPT ![v] = [state |-> "ERROR", members |-> {}]]
        BY <3>3, Zenon DEF SealFailed
      <4>. QED
        BY ONLY <3>2, <4>1, SMTT(20) DEF LatestSealed
    <3>4. CASE DropVersion(v)
      <4>1. /\ manifest' = [manifest EXCEPT ![v] = NoManifest]
            /\ latest' = IF latest = v THEN 0 ELSE latest
        BY <3>4, Zenon DEF DropVersion
      <4>. QED
        BY ONLY <3>2, <4>1, SMTT(20) DEF LatestSealed
    <3>. QED
      BY <3>1, <3>3, <3>4, SealLatest, ZenonT(30)
  <2>3. CASE \E p \in Puller :
               \/ \E v \in Version, o \in DOMAIN objects : Pull(p, v, o)
               \/ StageCold(p) \/ StageFailed(p) \/ PullDone(p)
    <3>1. UNCHANGED versions
      BY <2>3, ZenonT(30) DEF Pull, StageCold, StageFailed, PullDone
    <3>. QED
      BY <2>1, <3>1, Zenon DEF versions
  <2>4. CASE UNCHANGED vars
    BY <2>1, <2>4, Zenon DEF vars, versions
  <2>. QED
    BY <2>1, <2>2, <2>3, <2>4, VersionsSame, ZenonT(30) DEF Next, RolloutNext
<1>. QED
  BY <1>1, <1>2, StoreConsistent, PTL DEF Spec
=============================================================================
