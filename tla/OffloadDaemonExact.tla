------------------------ MODULE OffloadDaemonExact -------------------------
(***************************************************************************)
(* That the bytes are right.  When no session ends and nothing fails, with *)
(* drain_on_d2h_complete set, a restore() copies exactly the version it    *)
(* asked for, and every location names a slot or a cold entry that holds   *)
(* the bytes it promises.  The inductive invariant says who works with a   *)
(* slot in each of its states, and with what bytes.                        *)
(***************************************************************************)
EXTENDS OffloadDaemon, TLAPS

(* Setting the state of a slot leaves its other fields, and other slots.   *)
LEMMA SetStateFacts ==
  ASSUME TypeOK, NEW s \in Slot, NEW x \in SlotState
  PROVE  /\ SetState(s, x) \in [Slot -> SlotEntry]
         /\ SetState(s, x)[s].state = x
         /\ \A z \in Slot : SetState(s, x)[z].lease = slot[z].lease
         /\ \A z \in Slot \ {s} : SetState(s, x)[z] = slot[z]
<1> USE DEF TypeOK, SetState
<1>1. ASSUME NEW z \in Slot
      PROVE SetState(s, x)[z] \in SlotEntry /\ SetState(s, x)[z].lease = slot[z].lease
  BY ZenonT(30) DEF SlotEntry
<1>2. SetState(s, x)[s].state = x  BY Zenon DEF SlotEntry
<1> QED  BY <1>1, <1>2, Zenon

(* Erasing leases keeps the others.                                        *)
LEMMA WithoutFacts ==
  ASSUME NEW D, leases' = Without(leases, D)
  PROVE  /\ DOMAIN leases' = DOMAIN leases \ D
         /\ \A l \in DOMAIN leases' : leases'[l] = leases[l]
  BY Zenon DEF Without

(* Every rank is a process of its own, which registers once and lives on.  *)
Undisturbed ==
  /\ DrainOnD2H
  /\ Faults = {}
  /\ \A q, r \in Rank : PidOf[q] = PidOf[r] => q = r

(* Cold entry c has the bytes of version v of t.                           *)
ColdHas(c, t, v) == c \in DOMAIN coldStore /\ coldStore[c] = Copy(t, v)

(* In the tables ls and sl, a call or a copy u works under a lease of its  *)
(* slot, and the slot is at x.                                             *)
Uses(ls, sl, u, x) ==
  /\ u.lease \in DOMAIN ls
  /\ ls[u.lease].slot = u.slot
  /\ ls[u.lease].tensor = u.tensor
  /\ ls[u.lease].version = u.version
  /\ sl[u.slot].state = x

Calling(e) == client[e].pc # "none"

(* The agents that have registered, and only those, have live sessions.    *)
SessionInv ==
  /\ \A r \in Rank : /\ session[r].epoch < nextEpoch
                     /\ session[r].epoch = 0 => ~session[r].alive
  /\ \A e \in Epoch : Calling(e) =>
       /\ client[e].rank \in Rank
       /\ client[e].up
       /\ session[client[e].rank].epoch = e
       /\ session[client[e].rank].alive

(* A lease belongs to the tensor's rank and agrees with its slot, which is *)
(* on its way out of the device, or on its way back.                       *)
LeaseOK(l) ==
  /\ l < nextLease
  /\ slot[leases[l].slot].lease = l
  /\ slot[leases[l].slot].tensor = leases[l].tensor
  /\ slot[leases[l].slot].version = leases[l].version
  /\ leases[l].rank = Owner[leases[l].tensor]
  /\ leases[l].prefetch =>
       State(leases[l].slot) \in {"READBACK_IN_FLIGHT", "PINNED_VALID", "H2D_IN_FLIGHT", "ERROR"}
  /\ ~leases[l].prefetch =>
       State(leases[l].slot) \in {"RESERVED_D2H", "D2H_IN_FLIGHT", "DRAIN_IN_FLIGHT"}
LeaseInv == \A l \in DOMAIN leases : LeaseOK(l)

(* A slot that is reserved, copied into or valid has its lease, and behind *)
(* it the call or the copy that goes on with it.                           *)
HeldOK(z) ==
  /\ State(z) \in {"RESERVED_D2H", "D2H_IN_FLIGHT", "READBACK_IN_FLIGHT", "PINNED_VALID"} =>
       slot[z].lease \in DOMAIN leases /\ leases[slot[z].lease].slot = z
  /\ State(z) = "RESERVED_D2H" =>
       /\ client[leases[slot[z].lease].epoch].pc = "granted"
       /\ client[leases[slot[z].lease].epoch].lease = slot[z].lease
  /\ State(z) = "D2H_IN_FLIGHT" => \E f \in flight : f.lease = slot[z].lease
HeldInv == \A z \in Slot : HeldOK(z)

(* A slot that is drained or restored from has the bytes it is listed for; *)
(* one that came from the cold store has them there as well.               *)
BytesOK(z) ==
  /\ State(z) \in {"DRAIN_IN_FLIGHT", "PINNED_VALID", "H2D_IN_FLIGHT"} =>
       pinned[z] = Copy(slot[z].tensor, slot[z].version)
  /\ State(z) \in {"READBACK_IN_FLIGHT", "PINNED_VALID", "H2D_IN_FLIGHT"} /\ slot[z].cold # 0 =>
       ColdHas(slot[z].cold, slot[z].tensor, slot[z].version)
  /\ State(z) \in {"PINNED_VALID", "H2D_IN_FLIGHT"} => slot[z].cold # 0
BytesInv == \A z \in Slot : BytesOK(z)

(* No call waits for a forced drain; one that goes on has its slot.        *)
ClientOK(e) ==
  /\ client[e].pc \notin {"offload", "prefetch"}
  /\ client[e].pc \in {"granted", "poll", "ready", "checked"} =>
       client[e].tensor \in Tensor /\ Owner[client[e].tensor] = client[e].rank
  /\ client[e].pc = "granted" => Uses(leases, slot, client[e], "RESERVED_D2H")
  /\ client[e].pc \in {"ready", "checked"} => Uses(leases, slot, client[e], "PINNED_VALID")
ClientInv == \A e \in Epoch : ClientOK(e)

(* A copy in flight has its slot to itself, and has carried its bytes.     *)
FlightOK(f) ==
  /\ Calling(f.client) /\ client[f.client].rank = Owner[f.tensor]
  /\ f.dir = "D2H" => Uses(leases, slot, f, "D2H_IN_FLIGHT")
  /\ f.dir = "H2D" => Uses(leases, slot, f, "H2D_IN_FLIGHT")
  /\ f.dir = "D2H" /\ f.landed => pinned[f.slot] = Copy(f.tensor, f.version)
  /\ f.dir = "H2D" /\ f.landed => f.data = Copy(f.tensor, f.version)
FlightInv ==
  /\ \A f \in flight : FlightOK(f)
  /\ \A f, g \in flight : f.slot = g.slot => f = g

(* Drains are the workers', each of a slot of its own, queued once.        *)
DrainOK(w) ==
  drain[w].stage # "idle" =>
    /\ State(drain[w].slot) = "DRAIN_IN_FLIGHT"
    /\ drain[w].lease = slot[drain[w].slot].lease
    /\ drain[w].tensor = slot[drain[w].slot].tensor
    /\ drain[w].version = slot[drain[w].slot].version
    /\ drain[w].stage = "commit" => drain[w].data = Copy(drain[w].tensor, drain[w].version)
DrainInv ==
  /\ \A e \in Epoch : drain[e].stage = "idle"
  /\ \A w \in DrainWorker : DrainOK(w)
  /\ \A v, w \in DrainWorker :
       drain[v].stage # "idle" /\ drain[w].stage # "idle" /\ drain[v].slot = drain[w].slot => v = w
  /\ \A i \in DOMAIN drainQ :
       /\ State(drainQ[i]) = "DRAIN_IN_FLIGHT"
       /\ \A w \in DrainWorker : ~DrainedBy(w, drainQ[i])
  /\ \A i, j \in DOMAIN drainQ : drainQ[i] = drainQ[j] => i = j

(* Likewise the readbacks; one that goes on has found its cold entry.      *)
ReadOK(w) ==
  reader[w].stage # "idle" =>
    /\ State(reader[w].slot) = "READBACK_IN_FLIGHT"
    /\ reader[w].cold = slot[reader[w].slot].cold
    /\ reader[w].stage # "missing" => reader[w].cold # 0
    /\ reader[w].stage = "commit" =>
         pinned[reader[w].slot] = Copy(slot[reader[w].slot].tensor, slot[reader[w].slot].version)
ReadInv ==
  /\ \A w \in ReadbackWorker : ReadOK(w)
  /\ \A v, w \in ReadbackWorker :
       reader[v].stage # "idle" /\ reader[w].stage # "idle" /\ reader[v].slot = reader[w].slot => v = w
  /\ \A i \in DOMAIN readQ :
       /\ State(readQ[i].slot) = "READBACK_IN_FLIGHT"
       /\ readQ[i].cold = slot[readQ[i].slot].cold
       /\ \A w \in ReadbackWorker : ~ReadBy(w, readQ[i].slot)
  /\ \A i, j \in DOMAIN readQ : readQ[i].slot = readQ[j].slot => i = j

(* A location has its bytes: in the cold store, or in a slot that is being *)
(* drained (no cold entry yet) or came back from the cold store.           *)
LocOK(t) ==
  /\ loc[t].cold # 0 => ColdHas(loc[t].cold, t, loc[t].version)
  /\ loc[t].kind = "NONE" => loc[t].version = 0
  /\ loc[t].kind = "COLD" => loc[t].cold # 0
  /\ loc[t].kind = "PINNED" =>
       /\ State(loc[t].slot) \in {"DRAIN_IN_FLIGHT", "PINNED_VALID", "H2D_IN_FLIGHT"}
       /\ loc[t].cold = 0 => State(loc[t].slot) = "DRAIN_IN_FLIGHT"
       /\ slot[loc[t].slot].tensor = t
       /\ slot[loc[t].slot].version = loc[t].version
LocInv == \A t \in Tensor : LocOK(t)

(* The inductive invariant, beside TypeOK.                                 *)
ExactInv ==
  /\ SessionInv /\ LeaseInv /\ HeldInv /\ BytesInv /\ ClientInv
  /\ FlightInv /\ DrainInv /\ ReadInv /\ LocInv
----------------------------------------------------------------------------
(* Where the tables point, said without their record types.                *)
Ranges ==
  /\ \A l \in DOMAIN leases : /\ leases[l].slot \in Slot /\ leases[l].epoch \in Epoch
                              /\ leases[l].tensor \in Tensor /\ leases[l].version \in Version
                              /\ leases[l].rank \in Rank
  /\ \A e \in Epoch : client[e].slot \in Slot
  /\ \A f \in flight : /\ f.slot \in Slot /\ f.client \in Epoch /\ f.dir \in {"D2H", "H2D"}
                       /\ f.tensor \in Tensor /\ f.version \in Version
  /\ \A t \in Tensor : /\ loc[t].slot \in Slot /\ loc[t].version \in 0 .. MaxVersion
                       /\ loc[t].kind \in {"NONE", "PINNED", "COLD"}
  /\ \A w \in DrainWorker : drain[w].slot \in Slot
  /\ \A w \in ReadbackWorker : reader[w].slot \in Slot
  /\ \A i \in DOMAIN drainQ : drainQ[i] \in Slot
  /\ \A i \in DOMAIN readQ : readQ[i].slot \in Slot

LEMMA RangesHold == TypeOK => Ranges
<1> SUFFICES ASSUME TypeOK PROVE Ranges  BY Zenon
<1>1. \A l \in DOMAIN leases : /\ leases[l].slot \in Slot /\ leases[l].epoch \in Epoch
                              /\ leases[l].tensor \in Tensor /\ leases[l].version \in Version
                              /\ leases[l].rank \in Rank
  BY Zenon DEF TypeOK, Lease
<1>2. \A e \in Epoch : client[e].slot \in Slot
  BY Zenon DEF TypeOK, Client
<1>3. \A f \in flight : /\ f.slot \in Slot /\ f.client \in Epoch /\ f.dir \in {"D2H", "H2D"}
                       /\ f.tensor \in Tensor /\ f.version \in Version
  BY Zenon DEF TypeOK, Flight
<1>4. \A t \in Tensor : /\ loc[t].slot \in Slot /\ loc[t].version \in 0 .. MaxVersion
                       /\ loc[t].kind \in {"NONE", "PINNED", "COLD"}
  BY Zenon DEF TypeOK, Location
<1>5. \A w \in DrainWorker : drain[w].slot \in Slot
  BY Zenon DEF TypeOK, DrainJob, Drainer
<1>6. \A w \in ReadbackWorker : reader[w].slot \in Slot
  BY Zenon DEF TypeOK, Readback
<1>7. \A i \in DOMAIN drainQ : drainQ[i] \in Slot
  BY DEF TypeOK
<1>8. \A i \in DOMAIN readQ : readQ[i].slot \in Slot
  <2>1. \A i \in DOMAIN readQ : readQ[i] \in ReadJob  BY DEF TypeOK
  <2> QED  BY <2>1, Zenon DEF ReadJob
<1> QED  BY <1>1, <1>2, <1>3, <1>4, <1>5, <1>6, <1>7, <1>8, Zenon DEF Ranges

(* What a step may leave alone: the slots other than z, the leases of      *)
(* other slots, the bytes in them, the cold entries there are, and who the *)
(* agents are.                                                             *)
SlotsKept(z)  == \A y \in Slot : y # z => slot'[y] = slot[y]
LeasesKept(z) == \A l \in DOMAIN leases :
                   leases[l].slot # z => l \in DOMAIN leases' /\ leases'[l] = leases[l]
PinnedKept(z) == \A y \in Slot : y # z => pinned'[y] = pinned[y]
ColdKept      == \A c \in DOMAIN coldStore :
                   c \in DOMAIN coldStore' /\ coldStore'[c] = coldStore[c]
AgentsKept    == \A e \in Epoch : Calling(e) => /\ client'[e].pc # "none"
                                                 /\ client'[e].rank = client[e].rank
                                                 /\ client'[e].up = client[e].up
ClientsKept   == AgentsKept /\ \A e \in Epoch : client'[e].pc # "none" => Calling(e)

(* A step that only changes slot z and its lease leaves users of other     *)
(* slots theirs.                                                           *)
LEMMA UsesKept ==
  ASSUME NEW z, SlotsKept(z), LeasesKept(z), NEW u, NEW x, u.slot \in Slot, u.slot # z,
         Uses(leases, slot, u, x)
  PROVE  Uses(leases', slot', u, x)
  BY Zenon DEF SlotsKept, LeasesKept, Uses

LEMMA SessionFrame ==
  ASSUME SessionInv, ClientsKept, UNCHANGED <<session, nextEpoch>>
  PROVE  SessionInv'
  BY Zenon DEF SessionInv, ClientsKept, AgentsKept, Calling

LEMMA LeaseFrame ==
  ASSUME LeaseInv, UNCHANGED <<leases, slot, nextLease>>
  PROVE  LeaseInv'
  BY Zenon DEF LeaseInv, LeaseOK, State

LEMMA HeldFrame ==
  ASSUME HeldInv, UNCHANGED <<leases, slot, client, flight>>
  PROVE  HeldInv'
  BY Zenon DEF HeldInv, HeldOK, State

LEMMA BytesFrame ==
  ASSUME BytesInv, UNCHANGED <<slot, pinned, coldStore>>
  PROVE  BytesInv'
  BY Zenon DEF BytesInv, BytesOK, ColdHas, State

LEMMA ClientFrame ==
  ASSUME ClientInv, UNCHANGED <<leases, slot, client>>
  PROVE  ClientInv'
  BY Zenon DEF ClientInv, ClientOK

LEMMA FlightFrame ==
  ASSUME FlightInv, Ranges, AgentsKept, UNCHANGED <<leases, slot, pinned, flight>>
  PROVE  FlightInv'
  BY Zenon DEF FlightInv, FlightOK, Ranges, AgentsKept, Calling

LEMMA DrainFrame ==
  ASSUME DrainInv, UNCHANGED <<slot, drain, drainQ>>
  PROVE  DrainInv'
  BY Zenon DEF DrainInv, DrainOK, DrainedBy, State

LEMMA ReadFrame ==
  ASSUME ReadInv, UNCHANGED <<slot, pinned, reader, readQ>>
  PROVE  ReadInv'
  BY Zenon DEF ReadInv, ReadOK, ReadBy, State

LEMMA LocFrame ==
  ASSUME LocInv, UNCHANGED <<slot, loc, coldStore>>
  PROVE  LocInv'
  BY Zenon DEF LocInv, LocOK, ColdHas, State

(* The parts of the invariant that do not look at slot z.                  *)
LEMMA LeasesOffSlot ==
  ASSUME LeaseInv, Ranges, NEW z, SlotsKept(z), UNCHANGED nextLease,
         \A l \in DOMAIN leases' : l \in DOMAIN leases /\ leases'[l] = leases[l],
         \A l \in DOMAIN leases' : leases[l].slot # z
  PROVE  LeaseInv'
<1> SUFFICES ASSUME NEW l \in DOMAIN leases' PROVE LeaseOK(l)'  BY Zenon DEF LeaseInv
<1>1. l \in DOMAIN leases /\ leases'[l] = leases[l] /\ leases[l].slot \in Slot
  BY Zenon DEF Ranges
<1>2. slot'[leases[l].slot] = slot[leases[l].slot]  BY <1>1, Zenon DEF SlotsKept
<1> QED  BY <1>1, <1>2 DEF LeaseInv, LeaseOK, State

LEMMA BytesOffSlot ==
  ASSUME BytesInv, NEW z, SlotsKept(z), PinnedKept(z), ColdKept, BytesOK(z)'
  PROVE  BytesInv'
<1> SUFFICES ASSUME NEW y \in Slot, y # z PROVE BytesOK(y)'  BY Zenon DEF BytesInv
<1>1. slot'[y] = slot[y] /\ pinned'[y] = pinned[y]  BY Zenon DEF SlotsKept, PinnedKept
<1> QED  BY <1>1, Zenon DEF BytesInv, BytesOK, State, ColdHas, ColdKept

LEMMA ClientOffSlot ==
  ASSUME ClientInv, Ranges, NEW z, SlotsKept(z), LeasesKept(z), NEW e \in Epoch,
         client'[e] = client[e],
         \/ State(z) \notin {"RESERVED_D2H", "PINNED_VALID"}
         \/ client[e].pc \notin {"granted", "ready", "checked"}
         \/ client[e].slot # z
  PROVE  ClientOK(e)'
<1>1. ClientOK(e) /\ client[e].slot \in Slot  BY Zenon DEF ClientInv, Ranges
<1>2. ASSUME client[e].pc = "granted"
      PROVE  Uses(leases', slot', client[e], "RESERVED_D2H")
  BY <1>1, <1>2, UsesKept DEF ClientOK, Uses, State
<1>3. ASSUME client[e].pc \in {"ready", "checked"}
      PROVE  Uses(leases', slot', client[e], "PINNED_VALID")
  BY <1>1, <1>3, UsesKept DEF ClientOK, Uses, State
<1> QED  BY <1>1, <1>2, <1>3, Zenon DEF ClientOK

LEMMA FlightOffSlot ==
  ASSUME FlightInv, Ranges, NEW z, SlotsKept(z), LeasesKept(z), PinnedKept(z), AgentsKept,
         NEW f \in flight,
         State(z) \notin {"D2H_IN_FLIGHT", "H2D_IN_FLIGHT"} \/ f.slot # z
  PROVE  FlightOK(f)'
<1>1. FlightOK(f) /\ f.slot \in Slot /\ f.client \in Epoch /\ f.dir \in {"D2H", "H2D"}
  BY Zenon DEF FlightInv, Ranges
<1>2. f.slot # z  BY <1>1, Zenon DEF FlightOK, Uses, State
<1>3. ASSUME f.dir = "D2H" PROVE Uses(leases', slot', f, "D2H_IN_FLIGHT")
  BY <1>1, <1>2, <1>3, UsesKept, Zenon DEF FlightOK
<1>4. ASSUME f.dir = "H2D" PROVE Uses(leases', slot', f, "H2D_IN_FLIGHT")
  BY <1>1, <1>2, <1>4, UsesKept, Zenon DEF FlightOK
<1> QED  BY <1>1, <1>2, <1>3, <1>4, Zenon DEF FlightOK, AgentsKept, Calling, PinnedKept

LEMMA FlightsOffSlot ==
  ASSUME FlightInv, Ranges, NEW z, SlotsKept(z), LeasesKept(z), PinnedKept(z), AgentsKept,
         flight' \subseteq flight,
         State(z) \notin {"D2H_IN_FLIGHT", "H2D_IN_FLIGHT"} \/ \A f \in flight' : f.slot # z
  PROVE  FlightInv'
<1>1. \A f \in flight' : FlightOK(f)'  BY FlightOffSlot
<1> QED  BY <1>1, Zenon DEF FlightInv

(* Slots other than z that wait for a call or a copy still have it.        *)
LEMMA HeldOffSlot ==
  ASSUME HeldInv, ClientInv, FlightInv, Ranges, NEW z, SlotsKept(z), LeasesKept(z),
         z \in Slot => HeldOK(z)',
         \A k \in Epoch : client[k].pc = "granted" /\ client[k].slot # z => client'[k] = client[k],
         \A g \in flight : g.slot # z => \E h \in flight' : h.lease = g.lease
  PROVE  HeldInv'
<1> SUFFICES ASSUME NEW y \in Slot, y # z PROVE HeldOK(y)'  BY Zenon DEF HeldInv
<1>1. HeldOK(y) /\ slot'[y] = slot[y]  BY Zenon DEF HeldInv, SlotsKept
<1> DEFINE l == slot[y].lease
<1>2. l \in DOMAIN leases /\ leases[l].slot = y => l \in DOMAIN leases' /\ leases'[l] = leases[l]
  BY Zenon DEF LeasesKept
<1>3. ASSUME State(y) = "RESERVED_D2H"
      PROVE  client'[leases[l].epoch] = client[leases[l].epoch]
  <2>1. /\ l \in DOMAIN leases /\ leases[l].slot = y /\ leases[l].epoch \in Epoch
        /\ client[leases[l].epoch].pc = "granted" /\ client[leases[l].epoch].lease = l
    BY <1>1, <1>3, Zenon DEF HeldOK, Ranges
  <2>2. Uses(leases, slot, client[leases[l].epoch], "RESERVED_D2H")
    BY <2>1, Zenon DEF ClientInv, ClientOK
  <2>3. client[leases[l].epoch].slot = y  BY <2>1, <2>2, Zenon DEF Uses
  <2> QED  BY <2>1, <2>3, Zenon
<1>4. ASSUME State(y) = "D2H_IN_FLIGHT" PROVE \E h \in flight' : h.lease = l
  <2>1. l \in DOMAIN leases /\ leases[l].slot = y  BY <1>1, <1>4, Zenon DEF HeldOK
  <2>2. PICK g \in flight : g.lease = l  BY <1>1, <1>4, Zenon DEF HeldOK
  <2>3. leases[g.lease].slot = g.slot
    BY Zenon DEF FlightInv, FlightOK, Uses, Ranges
  <2>4. g.slot # z  BY <2>1, <2>2, <2>3, Zenon
  <2> QED  BY <2>2, <2>4, Zenon
<1> HIDE DEF l
<1> QED  BY <1>1, <1>2, <1>3, <1>4, Zenon DEF HeldOK, State, l

LEMMA DrainOffSlot ==
  ASSUME DrainInv, Ranges, NEW z, SlotsKept(z), UNCHANGED <<drain, drainQ>>,
         State(z) # "DRAIN_IN_FLIGHT"
  PROVE  DrainInv'
<1>1. ASSUME NEW w \in DrainWorker PROVE DrainOK(w)'
  BY DEF DrainInv, DrainOK, Ranges, SlotsKept, State
<1>2. ASSUME NEW i \in DOMAIN drainQ PROVE State(drainQ[i])' = "DRAIN_IN_FLIGHT"
  BY Zenon DEF DrainInv, Ranges, SlotsKept, State
<1> QED  BY <1>1, <1>2, Zenon DEF DrainInv, DrainedBy

LEMMA ReadOffSlot ==
  ASSUME ReadInv, Ranges, NEW z, SlotsKept(z), PinnedKept(z), UNCHANGED <<reader, readQ>>,
         State(z) # "READBACK_IN_FLIGHT"
  PROVE  ReadInv'
<1>1. ASSUME NEW w \in ReadbackWorker PROVE ReadOK(w)'
  <2>1. CASE reader[w].stage = "idle"  BY <2>1, Zenon DEF ReadOK
  <2>2. CASE reader[w].stage # "idle"
    <3>1. reader[w].slot \in Slot /\ reader[w].slot # z
      BY <2>2, Zenon DEF ReadInv, ReadOK, Ranges
    <3> QED  BY <2>2, <3>1 DEF ReadInv, ReadOK, SlotsKept, PinnedKept, State
  <2> QED  BY <2>1, <2>2, Zenon
<1>2. ASSUME NEW i \in DOMAIN readQ
      PROVE State(readQ[i].slot)' = "READBACK_IN_FLIGHT" /\ readQ'[i].cold = slot'[readQ[i].slot].cold
  BY Zenon DEF ReadInv, Ranges, SlotsKept, State
<1> QED  BY <1>1, <1>2, Zenon DEF ReadInv, ReadBy

LEMMA LocOffSlot ==
  ASSUME LocInv, Ranges, NEW z, SlotsKept(z), ColdKept, NEW t \in Tensor, loc'[t] = loc[t],
         \/ State(z) \notin {"DRAIN_IN_FLIGHT", "PINNED_VALID", "H2D_IN_FLIGHT"}
         \/ loc[t].slot # z \/ loc[t].kind # "PINNED"
  PROVE  LocOK(t)'
<1>1. LocOK(t) /\ loc[t].slot \in Slot  BY Zenon DEF LocInv, Ranges
<1>2. loc[t].cold # 0 => ColdHas(loc[t].cold, t, loc[t].version)'
  BY <1>1, Zenon DEF LocOK, ColdHas, ColdKept
<1>3. loc[t].kind = "PINNED" => slot'[loc[t].slot] = slot[loc[t].slot]
  BY <1>1, Zenon DEF LocOK, SlotsKept
<1> QED  BY <1>1, <1>2, <1>3, Zenon DEF LocOK, State, ColdHas

(* What an agent's call leaves it with.                                    *)
LEMMA CallStep ==
  ASSUME TypeOK, NEW e \in Epoch, NEW pc, NEW t, NEW v, NEW l, NEW s, NEW c,
         client' = [client EXCEPT ![e] = At(e, pc, t, v, l, s, c)]
  PROVE  /\ client'[e].pc = pc /\ client'[e].up = client[e].up
         /\ client'[e].rank = client[e].rank /\ client'[e].tensor = t
         /\ client'[e].version = v /\ client'[e].lease = l /\ client'[e].slot = s
         /\ \A k \in Epoch : k # e => client'[k] = client[k]
<1>1. client'[e] = At(e, pc, t, v, l, s, c) /\ \A k \in Epoch : k # e => client'[k] = client[k]
  BY Zenon DEF TypeOK
<1> QED  BY <1>1 DEF At

LEMMA IdleStep ==
  ASSUME TypeOK, NEW e \in Epoch, client' = [client EXCEPT ![e] = Idle(e)]
  PROVE  /\ client'[e].pc = "idle" /\ client'[e].up = client[e].up
         /\ client'[e].rank = client[e].rank
         /\ \A k \in Epoch : k # e => client'[k] = client[k]
<1>1. client'[e] = Idle(e) /\ \A k \in Epoch : k # e => client'[k] = client[k]
  BY Zenon DEF TypeOK
<1> QED  BY <1>1 DEF Idle, At

(* A call of a registered agent stays one.                                 *)
LEMMA CallKept ==
  ASSUME NEW e \in Epoch, client[e].pc # "none", client'[e].pc # "none",
         client'[e].up = client[e].up, client'[e].rank = client[e].rank,
         \A k \in Epoch : k # e => client'[k] = client[k]
  PROVE  ClientsKept /\ AgentsKept
  BY Zenon DEF ClientsKept, AgentsKept, Calling

LEMMA ClientsSame ==
  ASSUME UNCHANGED client PROVE ClientsKept /\ AgentsKept
  BY Zenon DEF ClientsKept, AgentsKept, Calling

(* Setting the state of a slot leaves the rest of it, and other slots.     *)
LEMMA StateStep ==
  ASSUME TypeOK, NEW s \in Slot, NEW x, slot' = SetState(s, x)
  PROVE  /\ slot'[s].state = x /\ slot'[s].tensor = slot[s].tensor
         /\ slot'[s].version = slot[s].version /\ slot'[s].lease = slot[s].lease
         /\ slot'[s].cold = slot[s].cold
         /\ SlotsKept(s)
<1>1. slot'[s] = [slot[s] EXCEPT !.state = x] /\ SlotsKept(s)
  BY Zenon DEF TypeOK, SetState, SlotsKept
<1>2. slot[s] \in SlotEntry  BY Zenon DEF TypeOK
<1> QED  BY <1>1, <1>2, Zenon DEF SlotEntry

(* Giving a slot a new entry leaves the other slots.                       *)
LEMMA EntryStep ==
  ASSUME TypeOK, NEW s \in Slot, NEW rec, slot' = [slot EXCEPT ![s] = rec]
  PROVE  slot'[s] = rec /\ SlotsKept(s)
  BY Zenon DEF TypeOK, SlotsKept

(* A job at the end of a queue, and the queue without its first job.       *)
LEMMA AppendIndex ==
  ASSUME NEW S, NEW q \in Seq(S), NEW x \in S
  PROVE  \A i \in DOMAIN Append(q, x) :
           \/ i \in DOMAIN q /\ Append(q, x)[i] = q[i]
           \/ i = Len(q) + 1 /\ Append(q, x)[i] = x
  OBVIOUS

LEMMA TailIndex ==
  ASSUME NEW S, NEW q \in Seq(S), q # <<>>
  PROVE  /\ 1 \in DOMAIN q /\ Head(q) = q[1]
         /\ \A i \in DOMAIN Tail(q) : /\ i + 1 \in DOMAIN q /\ i + 1 # 1
                                      /\ Tail(q)[i] = q[i + 1]
         /\ \A i, j \in DOMAIN Tail(q) : i + 1 = j + 1 => i = j
  OBVIOUS

(* A drained copy gets a cold entry of its own, and the others keep theirs. *)
LEMMA ColdStep ==
  ASSUME TypeOK, NEW b \in Bytes, coldStore' = Append(coldStore, b)
  PROVE  /\ ColdKept
         /\ Len(coldStore) + 1 \in DOMAIN coldStore' /\ Len(coldStore) + 1 # 0
         /\ coldStore'[Len(coldStore) + 1] = b
  BY DEF TypeOK, ColdKept

LEMMA ColdSame ==
  ASSUME UNCHANGED coldStore PROVE ColdKept
  BY Zenon DEF ColdKept

(* A registered agent passes the daemon's checks of epoch and owner.       *)
LEMMA ValidEpoch ==
  ASSUME SessionInv, NEW e \in Epoch, Calling(e)
  PROVE  EpochValid(e)
  BY Zenon DEF SessionInv, EpochValid

(* With evictions drained as soon as they land there is nothing to force   *)
(* out: force_drain_one finds no victim.                                   *)
LEMMA NoVictims ==
  ASSUME LeaseInv PROVE Victims = {}
  BY Zenon DEF LeaseInv, LeaseOK, Victims

(* A location in a valid slot is one a readback filled, and its lease is   *)
(* still there for RequestPrefetch to find.                                *)
LEMMA ValidIsPending ==
  ASSUME LeaseInv, HeldInv, LocInv, Ranges, NEW t \in Tensor, NEW v, Resident(t, v),
         loc[t].kind = "PINNED", State(loc[t].slot) = "PINNED_VALID"
  PROVE  Pending(t, v) # {}
<1> DEFINE z == loc[t].slot
<1> DEFINE l == slot[z].lease
<1>1. z \in Slot /\ slot[z].tensor = t /\ slot[z].version = v
  BY Zenon DEF Ranges, LocInv, LocOK, Resident
<1>2. l \in DOMAIN leases /\ leases[l].slot = z
  BY <1>1, Zenon DEF HeldInv, HeldOK
<1>3. LeaseOK(l)  BY <1>2, Zenon DEF LeaseInv
<1>4. leases[l].prefetch /\ leases[l].tensor = t /\ leases[l].version = v
  BY <1>1, <1>2, <1>3, Zenon DEF LeaseOK
<1>5. l \in Pending(t, v)  BY <1>2, <1>4, Zenon DEF Pending
<1> QED  BY <1>5, Zenon

----------------------------------------------------------------------------
(* The invariant holds when the daemon starts.                             *)
LEMMA InitExact == Init => ExactInv
<1> SUFFICES ASSUME Init PROVE ExactInv  BY Zenon
<1> USE DEF Init, State
<1>1. SessionInv  BY DEF SessionInv, Calling, Absent
<1>2. LeaseInv  BY Zenon DEF LeaseInv
<1>3. HeldInv  BY Zenon DEF HeldInv, HeldOK, FreeSlot
<1>4. BytesInv  BY Zenon DEF BytesInv, BytesOK, FreeSlot
<1>5. ClientInv  BY Zenon DEF ClientInv, ClientOK, Absent
<1>6. FlightInv  BY Zenon DEF FlightInv
<1>7. DrainInv  BY DEF DrainInv, DrainOK, NoDrain, Drainer
<1>8. ReadInv  BY DEF ReadInv, ReadOK, NoReadback
<1>9. LocInv  BY Zenon DEF LocInv, LocOK
<1> QED  BY <1>1, <1>2, <1>3, <1>4, <1>5, <1>6, <1>7, <1>8, <1>9, Zenon DEF ExactInv

(* A first registration ends no session and recovers no lease.             *)
LEMMA RegisterExact ==
  ASSUME TypeOK, Undisturbed, ExactInv, NEW r \in Rank, Register(r)
  PROVE  ExactInv'
<1> DEFINE ended == {q \in Rank : session[q].alive /\ (q = r \/ PidOf[q] = PidOf[r])}
<1> DEFINE E == {session[q].epoch : q \in ended}
<1>0. /\ SessionInv /\ LeaseInv /\ HeldInv /\ BytesInv /\ ClientInv /\ FlightInv
      /\ DrainInv /\ ReadInv /\ LocInv /\ Ranges
  BY RangesHold, Zenon DEF ExactInv
<1>1. session[r].epoch = 0 /\ nextEpoch \in Epoch
  BY ConstantsAssumption DEF Register, Undisturbed, TypeOK, Epoch
<1>2. ended = {} /\ E = {}
  BY <1>0, <1>1 DEF Undisturbed, SessionInv
<1>3. /\ Recover(ended)
      /\ client' = [Stop(client, E) EXCEPT ![nextEpoch] =
            [Absent EXCEPT !.pc = "idle", !.up = TRUE, !.rank = r]]
      /\ Abort(E)
      /\ session' = [q \in Rank |->
            IF q = r THEN [epoch |-> nextEpoch, alive |-> TRUE]
            ELSE [session[q] EXCEPT !.alive = @ /\ q \notin ended]]
      /\ nextEpoch' = nextEpoch + 1
      /\ UNCHANGED <<evicted, loc, coldStore, pinned, drainQ, readQ, drain, reader, nextLease>>
  BY Zenon DEF Register
<1> HIDE DEF ended, E
<1>4. slot' = slot
  BY <1>2, <1>3, Zenon DEF Recover, LeasesOf, Reclaimed, TypeOK
<1>5. DOMAIN leases' = DOMAIN leases /\ \A l \in DOMAIN leases : leases'[l] = leases[l]
  BY <1>2, <1>3, Zenon DEF Recover, LeasesOf, Without
<1>6. flight' = flight
  BY <1>2, <1>3, Zenon DEF Abort, Gone
<1>7. \A k \in Epoch : k # nextEpoch => client'[k] = client[k]
  BY <1>2, <1>3, Zenon DEF Stop, Gone
<1>8. client'[nextEpoch] = [Absent EXCEPT !.pc = "idle", !.up = TRUE, !.rank = r]
  BY <1>1, <1>3, Zenon DEF Stop
<1>9. client'[nextEpoch].pc = "idle" /\ client'[nextEpoch].up /\ client'[nextEpoch].rank = r
  BY <1>8, Zenon DEF Absent
<1>10. client[nextEpoch].pc = "none"
  BY <1>0, <1>1 DEF SessionInv, Calling, Epoch
<1>11. AgentsKept
  BY <1>7, <1>10, Zenon DEF AgentsKept, Calling
<1>12. /\ \A q \in Rank : q # r => session'[q].epoch = session[q].epoch
                                   /\ session'[q].alive = session[q].alive
       /\ session'[r].epoch = nextEpoch /\ session'[r].alive
  BY <1>2, <1>3, Zenon DEF TypeOK
<1>13. SessionInv'
  <2>1. ASSUME NEW q \in Rank
        PROVE  session'[q].epoch < nextEpoch' /\ (session'[q].epoch = 0 => ~session'[q].alive)
    <3>1. nextEpoch \in Nat \ {0} /\ session[q].epoch \in Nat  BY DEF TypeOK
    <3>2. session[q].epoch < nextEpoch /\ (session[q].epoch = 0 => ~session[q].alive)
      BY <1>0, Zenon DEF SessionInv
    <3>3. CASE q = r  BY <1>3, <1>12, <3>1, <3>3
    <3>4. CASE q # r
      <4>1. session'[q].epoch = session[q].epoch /\ session'[q].alive = session[q].alive
        BY <1>12, <3>4, Zenon
      <4>2. session[q].epoch < nextEpoch'  BY <1>3, <3>1, <3>2
      <4> QED  BY <3>2, <4>1, <4>2, Zenon
    <3> QED  BY <3>3, <3>4, Zenon
  <2>2. ASSUME NEW e \in Epoch, client'[e].pc # "none"
        PROVE  /\ client'[e].rank \in Rank /\ client'[e].up
               /\ session'[client'[e].rank].epoch = e /\ session'[client'[e].rank].alive
    <3>1. CASE e = nextEpoch  BY <1>9, <1>12, <3>1, Zenon
    <3>2. CASE e # nextEpoch
      <4>1. /\ client[e].rank \in Rank /\ client[e].up /\ session[client[e].rank].epoch = e
            /\ session[client[e].rank].alive /\ client'[e] = client[e]
        BY <1>0, <1>7, <2>2, <3>2, Zenon DEF SessionInv, Calling
      <4>2. client[e].rank # r  BY <1>1, <4>1 DEF Epoch
      <4> QED  BY <1>12, <4>1, <4>2, Zenon
    <3> QED  BY <3>1, <3>2, Zenon
  <2> QED  BY <2>1, <2>2, Zenon DEF SessionInv, Calling
<1>14. SlotsKept(-1) /\ LeasesKept(-1) /\ PinnedKept(-1)
  BY <1>3, <1>4, <1>5, Zenon DEF SlotsKept, LeasesKept, PinnedKept
<1>15. -1 \notin Slot  BY DEF Slot
<1>16. LeaseInv'
  <2>1. \A l \in DOMAIN leases' : l \in DOMAIN leases /\ leases'[l] = leases[l] /\ leases[l].slot # -1
    BY <1>0, <1>5, <1>15, Zenon DEF Ranges
  <2> QED  BY <1>0, <1>3, <1>14, <2>1, LeasesOffSlot, Zenon
<1>17. HeldInv'
  <2> SUFFICES ASSUME NEW z \in Slot PROVE HeldOK(z)'  BY Zenon DEF HeldInv
  <2>1. HeldOK(z)  BY <1>0, Zenon DEF HeldInv
  <2> QED  BY <1>0, <1>4, <1>5, <1>6, <1>7, <1>10, <2>1, Zenon DEF HeldOK, State, Ranges
<1>18. BytesInv'  BY <1>0, <1>3, <1>4, BytesFrame, Zenon
<1>19. ClientInv'
  <2> SUFFICES ASSUME NEW e \in Epoch PROVE ClientOK(e)'  BY Zenon DEF ClientInv
  <2>1. CASE e = nextEpoch  BY <1>9, <2>1, Zenon DEF ClientOK
  <2>2. CASE e # nextEpoch
    <3>1. client[e].slot # -1  BY <1>0, <1>15, Zenon DEF Ranges
    <3> QED  BY <1>0, <1>7, <1>14, <2>2, <3>1, ClientOffSlot, Zenon
  <2> QED  BY <2>1, <2>2, Zenon
<1>20. FlightInv'
  <2>1. \A f \in flight' : f.slot # -1  BY <1>0, <1>6, <1>15, Zenon DEF Ranges
  <2> QED  BY <1>0, <1>6, <1>11, <1>14, <2>1, FlightsOffSlot, Zenon
<1>21. DrainInv'  BY <1>0, <1>3, <1>4, DrainFrame, Zenon
<1>22. ReadInv'  BY <1>0, <1>3, <1>4, ReadFrame, Zenon
<1>23. LocInv'  BY <1>0, <1>3, <1>4, LocFrame, Zenon
<1> QED
  BY <1>13, <1>16, <1>17, <1>18, <1>19, <1>20, <1>21, <1>22, <1>23, Zenon DEF ExactInv

(* A step that only moves an agent's call on.                              *)
LEMMA CallOnly ==
  ASSUME TypeOK, ExactInv, NEW e \in Epoch,
         Calling(e), client[e].pc # "granted", client'[e].pc # "none",
         client'[e].up = client[e].up, client'[e].rank = client[e].rank,
         \A k \in Epoch : k # e => client'[k] = client[k],
         ClientOK(e)', nextLease' \in {nextLease, nextLease + 1},
         UNCHANGED <<session, tables, pinned, drain, reader, flight, nextEpoch>>
  PROVE  ExactInv'
<1>0. /\ SessionInv /\ LeaseInv /\ HeldInv /\ BytesInv /\ ClientInv /\ FlightInv
      /\ DrainInv /\ ReadInv /\ LocInv /\ Ranges
  BY RangesHold, Zenon DEF ExactInv
<1>1. UNCHANGED <<slot, leases, loc, coldStore, drainQ, readQ>>  BY Zenon DEF tables
<1>2. ClientsKept /\ AgentsKept  BY CallKept, Zenon DEF Calling
<1>3. SessionInv'  BY <1>0, <1>2, SessionFrame, Zenon
<1>4. LeaseInv'
  <2> SUFFICES ASSUME NEW l \in DOMAIN leases PROVE LeaseOK(l)'
    BY <1>1, Zenon DEF LeaseInv
  <2>1. LeaseOK(l)  BY <1>0, Zenon DEF LeaseInv
  <2>2. l < nextLease'  BY <2>1 DEF LeaseOK, TypeOK, LeaseId
  <2> QED  BY <1>1, <2>1, <2>2, Zenon DEF LeaseOK, State
<1>5. HeldInv'
  <2> SUFFICES ASSUME NEW z \in Slot PROVE HeldOK(z)'  BY Zenon DEF HeldInv
  <2>1. HeldOK(z)  BY <1>0, Zenon DEF HeldInv
  <2>2. State(z) = "RESERVED_D2H" =>
          client'[leases[slot[z].lease].epoch] = client[leases[slot[z].lease].epoch]
    BY <1>0, <2>1, Zenon DEF HeldOK, Ranges
  <2> QED  BY <1>1, <2>1, <2>2, Zenon DEF HeldOK, State
<1>6. BytesInv'  BY <1>0, <1>1, BytesFrame, Zenon
<1>7. ClientInv'
  <2> SUFFICES ASSUME NEW k \in Epoch, k # e PROVE ClientOK(k)'  BY Zenon DEF ClientInv
  <2>1. ClientOK(k) /\ client'[k] = client[k]  BY <1>0, Zenon DEF ClientInv
  <2> QED  BY <1>1, <2>1, Zenon DEF ClientOK
<1>8. FlightInv'  BY <1>0, <1>1, <1>2, FlightFrame, Zenon
<1>9. DrainInv'  BY <1>0, <1>1, DrainFrame, Zenon
<1>10. ReadInv'  BY <1>0, <1>1, ReadFrame, Zenon
<1>11. LocInv'  BY <1>0, <1>1, LocFrame, Zenon
<1> QED
  BY <1>3, <1>4, <1>5, <1>6, <1>7, <1>8, <1>9, <1>10, <1>11, Zenon DEF ExactInv

(* A call that ends: restore() gives up, or finds no room.                 *)
LEMMA CallEnds ==
  ASSUME TypeOK, ExactInv, NEW e \in Epoch, Calling(e), client[e].pc # "granted",
         client' = [client EXCEPT ![e] = Idle(e)],
         nextLease' \in {nextLease, nextLease + 1},
         UNCHANGED <<session, tables, pinned, drain, reader, flight, nextEpoch>>
  PROVE  ExactInv'
<1>1. /\ client'[e].pc = "idle" /\ client'[e].up = client[e].up
      /\ client'[e].rank = client[e].rank
      /\ \A k \in Epoch : k # e => client'[k] = client[k]
  BY IdleStep, Zenon
<1>2. ClientOK(e)'  BY <1>1, Zenon DEF ClientOK
<1> QED  BY <1>1, <1>2, CallOnly, Zenon

LEMMA GivenUpExact ==
  ASSUME TypeOK, ExactInv, NEW e \in Epoch, PrefetchGivenUp(e)
  PROVE  ExactInv'
  BY CallEnds, Zenon DEF PrefetchGivenUp, Calling

(* RequestPrefetch finds the lease of an earlier call, whose slot is valid *)
(* or still being filled.                                                  *)
LEMMA PendingExact ==
  ASSUME TypeOK, ExactInv, NEW e \in Epoch, NEW t \in Tensor, NEW v \in Version,
         PrefetchPending(e, t, v)
  PROVE  ExactInv'
<1>1. PICK l \in Pending(t, v) : client' = [client EXCEPT ![e] =
         IF State(leases[l].slot) = "PINNED_VALID"
         THEN At(e, "ready", t, v, l, leases[l].slot, 0)
         ELSE At(e, "poll", t, v, 0, 0, 0)]
  BY Zenon DEF PrefetchPending
<1>2. UNCHANGED <<session, tables, pinned, drain, reader, flight, nextEpoch, nextLease>>
  BY Zenon DEF PrefetchPending
<1>3. client[e].pc \in {"idle", "poll"} /\ Calling(e) /\ Owner[t] = client[e].rank
  BY Zenon DEF PrefetchPending, Restoring, Calling, ExactInv, ClientInv, ClientOK
<1>4. /\ l \in DOMAIN leases /\ leases[l].tensor = t /\ leases[l].version = v
  BY Zenon DEF Pending
<1>5. CASE State(leases[l].slot) = "PINNED_VALID"
  <2>0. PICK z : z = leases[l].slot  BY Zenon
  <2>1. client' = [client EXCEPT ![e] = At(e, "ready", t, v, l, z, 0)]
    BY <1>1, <1>5, <2>0, Zenon
  <2>2. /\ client'[e].pc = "ready" /\ client'[e].up = client[e].up
        /\ client'[e].rank = client[e].rank /\ client'[e].tensor = t
        /\ client'[e].version = v /\ client'[e].lease = l /\ client'[e].slot = z
        /\ \A k \in Epoch : k # e => client'[k] = client[k]
    BY <2>1, CallStep, Zenon
  <2>3. ClientOK(e)'
    BY <1>2, <1>3, <1>4, <1>5, <2>0, <2>2, Zenon DEF ClientOK, Uses, State, tables
  <2> QED  BY <1>2, <1>3, <2>2, <2>3, CallOnly, Zenon
<1>6. CASE State(leases[l].slot) # "PINNED_VALID"
  <2>1. client' = [client EXCEPT ![e] = At(e, "poll", t, v, 0, 0, 0)]
    BY <1>1, <1>6, Zenon
  <2>2. /\ client'[e].pc = "poll" /\ client'[e].up = client[e].up
        /\ client'[e].rank = client[e].rank /\ client'[e].tensor = t
        /\ client'[e].version = v /\ client'[e].lease = 0 /\ client'[e].slot = 0
        /\ \A k \in Epoch : k # e => client'[k] = client[k]
    BY <2>1, CallStep, Zenon
  <2>3. ClientOK(e)'  BY <1>3, <2>2, Zenon DEF ClientOK
  <2> QED  BY <1>2, <1>3, <2>2, <2>3, CallOnly, Zenon
<1> QED  BY <1>5, <1>6, Zenon

(* The agent's look at the slot state finds what the daemon promised.      *)
LEMMA CheckSlotExact ==
  ASSUME TypeOK, ExactInv, NEW e \in Epoch, CheckSlot(e)
  PROVE  ExactInv'
<1>1. /\ client[e].pc = "ready" /\ Calling(e)
      /\ UNCHANGED <<session, tables, pinned, drain, reader, flight, nextEpoch, nextLease>>
  BY Zenon DEF CheckSlot, Calling
<1>2. ClientOK(e)  BY Zenon DEF ExactInv, ClientInv
<1>3. State(client[e].slot) = "PINNED_VALID"
  BY <1>1, <1>2, Zenon DEF ClientOK, Uses, State
<1>4. client' = [client EXCEPT ![e] = [client[e] EXCEPT !.pc = "checked"]]
  BY <1>3, Zenon DEF CheckSlot
<1>5. client[e] \in Client  BY Zenon DEF TypeOK
<1>6. /\ client'[e] = [client[e] EXCEPT !.pc = "checked"]
      /\ \A k \in Epoch : k # e => client'[k] = client[k]
  BY <1>4, Zenon DEF TypeOK
<1>7. /\ client'[e].pc = "checked" /\ client'[e].up = client[e].up
      /\ client'[e].rank = client[e].rank /\ client'[e].tensor = client[e].tensor
      /\ client'[e].version = client[e].version /\ client'[e].lease = client[e].lease
      /\ client'[e].slot = client[e].slot
  BY <1>5, <1>6, Zenon DEF Client
<1>8. ClientOK(e)'
  <2>1. leases' = leases /\ slot' = slot  BY <1>1, Zenon DEF tables
  <2> QED  BY <1>1, <1>2, <1>7, <2>1, Zenon DEF ClientOK, Uses
<1> QED  BY <1>1, <1>6, <1>7, <1>8, CallOnly, Zenon

(* Entry rec and lease ls, numbered nextLease, agree with each other and   *)
(* with the call that asks for them: an eviction that is granted its slot, *)
(* or a restore() that polls for a readback.                               *)
Granted(e, s, rec, ls) ==
  /\ rec.lease = nextLease /\ ls.slot = s
  /\ ls.tensor = rec.tensor /\ ls.version = rec.version
  /\ ls.rank = Owner[ls.tensor]
  /\ rec.cold # 0 => ColdHas(rec.cold, rec.tensor, rec.version)
  /\ \/ /\ rec.state = "READBACK_IN_FLIGHT" /\ ls.prefetch
        /\ client'[e].pc = "poll"
     \/ /\ rec.state = "RESERVED_D2H" /\ ~ls.prefetch
        /\ client'[e].pc = "granted" /\ client'[e].lease = nextLease
        /\ client'[e].slot = s /\ client'[e].tensor = rec.tensor
        /\ client'[e].version = rec.version /\ ls.epoch = e
  /\ client'[e].tensor \in Tensor /\ Owner[client'[e].tensor] = client'[e].rank

(* A grant of a FREE slot disturbs nobody.                                 *)
LEMMA GrantStep ==
  ASSUME TypeOK, ExactInv, NEW e \in Epoch, NEW s \in Slot, NEW rec, NEW ls,
         State(s) = "FREE", client[e].pc \in {"idle", "poll"}, Granted(e, s, rec, ls),
         slot' = [slot EXCEPT ![s] = rec], leases' = With(leases, nextLease, ls),
         client'[e].up = client[e].up, client'[e].rank = client[e].rank,
         \A k \in Epoch : k # e => client'[k] = client[k],
         nextLease' = nextLease + 1, ReadInv',
         UNCHANGED <<session, loc, coldStore, pinned, drainQ, drain, reader, flight, nextEpoch>>
  PROVE  ExactInv'
<1>0. /\ SessionInv /\ LeaseInv /\ HeldInv /\ BytesInv /\ ClientInv /\ FlightInv
      /\ DrainInv /\ ReadInv /\ LocInv /\ Ranges
  BY RangesHold, Zenon DEF ExactInv
<1>1. slot'[s] = rec /\ SlotsKept(s)  BY EntryStep, Zenon
<1>2. nextLease \notin DOMAIN leases
  <2>1. nextLease \in Nat /\ ~(nextLease < nextLease)  BY DEF TypeOK, LeaseId
  <2> QED  BY <1>0, <2>1, Zenon DEF LeaseInv, LeaseOK
<1>3. /\ DOMAIN leases' = DOMAIN leases \cup {nextLease} /\ leases'[nextLease] = ls
      /\ \A l \in DOMAIN leases : leases'[l] = leases[l]
  BY <1>2, Zenon DEF With
<1>4. LeasesKept(s) /\ PinnedKept(s) /\ ColdKept
  BY <1>3, Zenon DEF LeasesKept, PinnedKept, ColdKept
<1>5. client'[e].pc \in {"poll", "granted"}  BY Zenon DEF Granted
<1>6. ClientsKept /\ AgentsKept  BY <1>5, CallKept, Zenon
<1>7. SessionInv'  BY <1>0, <1>6, SessionFrame, Zenon
<1>8. LeaseInv'
  <2> SUFFICES ASSUME NEW l \in DOMAIN leases' PROVE LeaseOK(l)'  BY Zenon DEF LeaseInv
  <2>1. CASE l = nextLease
    <3>1. nextLease < nextLease'  BY DEF TypeOK, LeaseId
    <3> QED  BY <1>1, <1>3, <2>1, <3>1 DEF Granted, LeaseOK, State
  <2>2. CASE l # nextLease
    <3>1. l \in DOMAIN leases /\ LeaseOK(l) /\ leases'[l] = leases[l] /\ leases[l].slot \in Slot
      BY <1>0, <1>3, <2>2, Zenon DEF LeaseInv, Ranges
    <3>2. leases[l].slot # s  BY <3>1, Zenon DEF LeaseOK
    <3>3. slot'[leases[l].slot] = slot[leases[l].slot]  BY <1>1, <3>1, <3>2, Zenon DEF SlotsKept
    <3>4. l < nextLease'  BY <3>1 DEF LeaseOK, TypeOK, LeaseId
    <3> QED  BY <3>1, <3>3, <3>4, ZenonT(30) DEF LeaseOK, State
  <2> QED  BY <2>1, <2>2, Zenon
<1>9. HeldInv'
  <2> SUFFICES ASSUME NEW z \in Slot PROVE HeldOK(z)'  BY ZenonT(30) DEF HeldInv
  <2>1. CASE z = s
    BY <1>1, <1>3, <2>1 DEF HeldOK, State, Granted
  <2>2. CASE z # s
    <3>1. HeldOK(z) /\ slot'[z] = slot[z]  BY <1>0, <1>1, <2>2, Zenon DEF HeldInv, SlotsKept
    <3>2. slot[z].lease \in DOMAIN leases =>
            slot[z].lease \in DOMAIN leases' /\ leases'[slot[z].lease] = leases[slot[z].lease]
      BY <1>3, Zenon
    <3>3. State(z) = "RESERVED_D2H" =>
            client'[leases[slot[z].lease].epoch] = client[leases[slot[z].lease].epoch]
      BY <1>0, <3>1, Zenon DEF HeldOK, Ranges
    <3> QED  BY <3>1, <3>2, <3>3, Zenon DEF HeldOK, State
  <2> QED  BY <2>1, <2>2, Zenon
<1>10. BytesInv'
  <2>1. BytesOK(s)'
    BY <1>1, Zenon DEF BytesOK, State, Granted, ColdHas
  <2> QED  BY <1>0, <1>1, <1>4, <2>1, BytesOffSlot, Zenon
<1>11. ClientInv'
  <2> SUFFICES ASSUME NEW k \in Epoch PROVE ClientOK(k)'  BY Zenon DEF ClientInv
  <2>1. CASE k = e
    <3>1. client'[e].pc = "granted" => Uses(leases', slot', client'[e], "RESERVED_D2H")
      BY <1>1, <1>3, ZenonT(30) DEF Granted, Uses
    <3> QED  BY <2>1, <3>1, Zenon DEF ClientOK, Granted
  <2>2. CASE k # e  BY <1>0, <1>1, <1>4, <2>2, ClientOffSlot, Zenon
  <2> QED  BY <2>1, <2>2, Zenon
<1>12. FlightInv'  BY <1>0, <1>1, <1>4, <1>6, FlightsOffSlot, Zenon
<1>13. DrainInv'  BY <1>0, <1>1, DrainOffSlot, Zenon
<1>14. LocInv'
  <2> SUFFICES ASSUME NEW t \in Tensor PROVE LocOK(t)'  BY Zenon DEF LocInv
  <2> QED  BY <1>0, <1>1, <1>4, LocOffSlot, Zenon
<1> QED
  BY <1>7, <1>8, <1>9, <1>10, <1>11, <1>12, <1>13, <1>14, Zenon DEF ExactInv

(* Queueing a readback of slot z, which had none.                          *)
LEMMA ReadbackQueued ==
  ASSUME TypeOK, ReadInv, Ranges, NEW z \in Slot, SlotsKept(z), PinnedKept(z),
         State(z) # "READBACK_IN_FLIGHT", NEW job \in ReadJob, job.slot = z,
         slot'[z].state = "READBACK_IN_FLIGHT", slot'[z].cold = job.cold,
         readQ' = Append(readQ, job), UNCHANGED reader
  PROVE  ReadInv'
<1>1. \A i \in DOMAIN readQ' : \/ i \in DOMAIN readQ /\ readQ'[i] = readQ[i]
                               \/ i = Len(readQ) + 1 /\ readQ'[i] = job
  BY AppendIndex DEF TypeOK
<1>2. \A i \in DOMAIN readQ : readQ[i].slot \in Slot /\ readQ[i].slot # z
  BY Zenon DEF ReadInv, Ranges
<1>3. \A w \in ReadbackWorker : reader[w].stage # "idle" => reader[w].slot # z
  BY Zenon DEF ReadInv, ReadOK
<1>4. ASSUME NEW w \in ReadbackWorker PROVE ReadOK(w)'
  <2>1. CASE reader[w].stage = "idle"  BY <2>1, Zenon DEF ReadOK
  <2>2. CASE reader[w].stage # "idle"
    <3>1. /\ slot'[reader[w].slot] = slot[reader[w].slot]
          /\ pinned'[reader[w].slot] = pinned[reader[w].slot]
      BY <1>3, <2>2, Zenon DEF SlotsKept, PinnedKept, Ranges
    <3>2. ReadOK(w)  BY Zenon DEF ReadInv
    <3> QED  BY <3>1, <3>2, Zenon DEF ReadOK, State
  <2> QED  BY <2>1, <2>2, Zenon
<1>5. ASSUME NEW i \in DOMAIN readQ'
      PROVE  /\ State(readQ[i].slot)' = "READBACK_IN_FLIGHT"
             /\ readQ'[i].cold = slot'[readQ'[i].slot].cold
             /\ \A w \in ReadbackWorker : ~ReadBy(w, readQ[i].slot)'
  <2>1. CASE i \in DOMAIN readQ /\ readQ'[i] = readQ[i]
    <3>1. slot'[readQ[i].slot] = slot[readQ[i].slot]  BY <1>2, <2>1, Zenon DEF SlotsKept
    <3>2. /\ State(readQ[i].slot) = "READBACK_IN_FLIGHT"
          /\ readQ[i].cold = slot[readQ[i].slot].cold
          /\ \A w \in ReadbackWorker : ~ReadBy(w, readQ[i].slot)
      BY <2>1, Zenon DEF ReadInv
    <3> QED  BY <2>1, <3>1, <3>2, Zenon DEF ReadBy, State
  <2>2. CASE readQ'[i] = job
    BY <1>3, <2>2, Zenon DEF ReadBy, State
  <2> QED  BY <1>1, <2>1, <2>2, Zenon
<1>6. ASSUME NEW i \in DOMAIN readQ', NEW j \in DOMAIN readQ', readQ'[i].slot = readQ'[j].slot
      PROVE  i = j
  BY <1>1, <1>2, <1>6, Zenon DEF ReadInv
<1>7. \A v, w \in ReadbackWorker :
        /\ reader'[v].stage # "idle" /\ reader'[w].stage # "idle"
        /\ reader'[v].slot = reader'[w].slot
        => v = w
  BY Zenon DEF ReadInv
<1> QED  BY <1>4, <1>5, <1>6, <1>7, Zenon DEF ReadInv

(* evict(): a slot is FREE, or the call waits; there is nothing to force   *)
(* out.                                                                    *)
LEMMA RequestOffloadExact ==
  ASSUME TypeOK, ExactInv, NEW e \in Epoch, NEW t \in Tensor, NEW v \in Version,
         RequestOffload(e, t, v)
  PROVE  ExactInv'
<1>0. LeaseInv /\ ReadInv /\ Ranges  BY RangesHold, Zenon DEF ExactInv
<1>1. /\ client[e].pc = "idle" /\ Owner[t] = client[e].rank
      /\ UNCHANGED <<session, loc, coldStore, pinned, drainQ, reader, flight, nextEpoch>>
  BY Zenon DEF RequestOffload, CanCall
<1>2. (\E s \in FreeSlots(slot) : ReserveOffload(e, t, v, s, slot, leases)) /\ UNCHANGED drain
  BY <1>0, NoVictims, Zenon DEF RequestOffload
<1>3. PICK s \in FreeSlots(slot) : ReserveOffload(e, t, v, s, slot, leases)
  BY <1>2, Zenon
<1>4. s \in Slot /\ State(s) = "FREE"  BY Zenon DEF FreeSlots, State
<1> DEFINE rec == [state |-> "RESERVED_D2H", tensor |-> t, version |-> v,
                   lease |-> nextLease, cold |-> 0]
<1> DEFINE ls == [slot |-> s, tensor |-> t, version |-> v, rank |-> client[e].rank,
                  epoch |-> e, prefetch |-> FALSE]
<1>5. /\ slot' = [slot EXCEPT ![s] = rec] /\ leases' = With(leases, nextLease, ls)
      /\ client' = [client EXCEPT ![e] = At(e, "granted", t, v, nextLease, s, 0)]
      /\ nextLease' = nextLease + 1 /\ UNCHANGED readQ
  BY <1>3, Zenon DEF ReserveOffload
<1>6. PICK n : n = nextLease  BY Zenon
<1>61. client' = [client EXCEPT ![e] = At(e, "granted", t, v, n, s, 0)]  BY <1>5, <1>6, Zenon
<1>7. /\ client'[e].pc = "granted" /\ client'[e].up = client[e].up
      /\ client'[e].rank = client[e].rank /\ client'[e].tensor = t
      /\ client'[e].version = v /\ client'[e].lease = n /\ client'[e].slot = s
      /\ \A k \in Epoch : k # e => client'[k] = client[k]
  BY <1>61, CallStep, Zenon
<1>8. Granted(e, s, rec, ls)
  BY <1>1, <1>6, <1>7, Zenon DEF Granted
<1>9. ReadInv'
  <2>1. SlotsKept(s) /\ PinnedKept(s)  BY <1>1, <1>4, <1>5, EntryStep, Zenon DEF PinnedKept
  <2> QED  BY <1>0, <1>1, <1>4, <1>5, <2>1, ReadOffSlot, Zenon
<1> HIDE DEF rec, ls
<1> QED  BY <1>1, <1>2, <1>4, <1>5, <1>7, <1>8, <1>9, GrantStep, Zenon

(* RequestPrefetch of a tensor that is not in a valid slot: its readback   *)
(* is queued with the cold entry of its location.                          *)
LEMMA PrefetchColdExact ==
  ASSUME TypeOK, ExactInv, NEW e \in Epoch, NEW t \in Tensor, NEW v \in Version,
         PrefetchCold(e, t, v)
  PROVE  ExactInv'
<1>0. LeaseInv /\ ReadInv /\ ClientInv /\ LocInv /\ Ranges  BY RangesHold, Zenon DEF ExactInv
<1>1. /\ client[e].pc \in {"idle", "poll"} /\ Owner[t] = client[e].rank
      /\ Resident(t, v) /\ nextLease' = nextLease + 1
      /\ UNCHANGED <<session, loc, coldStore, pinned, drainQ, reader, flight, nextEpoch>>
  BY <1>0, Zenon DEF PrefetchCold, Restoring, ClientInv, ClientOK
<1>2. \/ /\ \E s \in FreeSlots(slot) :
              ReserveReadback(e, t, v, nextLease, loc[t].cold, s, slot, leases)
         /\ UNCHANGED drain
      \/ /\ client' = [client EXCEPT ![e] = Idle(e)]
         /\ UNCHANGED <<slot, leases, readQ, drain>>
  BY <1>0, NoVictims, Zenon DEF PrefetchCold
<1>3. CASE /\ client' = [client EXCEPT ![e] = Idle(e)]
           /\ UNCHANGED <<slot, leases, readQ, drain>>
  BY <1>1, <1>3, CallEnds, Zenon DEF Calling, tables
<1>4. CASE /\ \E s \in FreeSlots(slot) :
                ReserveReadback(e, t, v, nextLease, loc[t].cold, s, slot, leases)
           /\ UNCHANGED drain
  <2>1. PICK s \in FreeSlots(slot) :
          ReserveReadback(e, t, v, nextLease, loc[t].cold, s, slot, leases)
    BY <1>4, Zenon
  <2>2. s \in Slot /\ State(s) = "FREE"  BY Zenon DEF FreeSlots, State
  <2> DEFINE rec == [state |-> "READBACK_IN_FLIGHT", tensor |-> t, version |-> v,
                     lease |-> nextLease, cold |-> loc[t].cold]
  <2> DEFINE ls == [slot |-> s, tensor |-> t, version |-> v, rank |-> client[e].rank,
                    epoch |-> e, prefetch |-> TRUE]
  <2> DEFINE job == [slot |-> s, cold |-> loc[t].cold]
  <2>3. /\ slot' = [slot EXCEPT ![s] = rec] /\ leases' = With(leases, nextLease, ls)
        /\ readQ' = Append(readQ, job)
        /\ client' = [client EXCEPT ![e] = At(e, "poll", t, v, 0, 0, 0)]
    BY <2>1, Zenon DEF ReserveReadback
  <2>4. /\ client'[e].pc = "poll" /\ client'[e].up = client[e].up
        /\ client'[e].rank = client[e].rank /\ client'[e].tensor = t
        /\ client'[e].version = v /\ client'[e].lease = 0 /\ client'[e].slot = 0
        /\ \A k \in Epoch : k # e => client'[k] = client[k]
    BY <2>3, CallStep, Zenon
  <2>5. loc[t].cold # 0 => ColdHas(loc[t].cold, t, v)
    BY <1>0, <1>1, Zenon DEF LocInv, LocOK, Resident
  <2>6. Granted(e, s, rec, ls)
    BY <1>1, <2>4, <2>5, Zenon DEF Granted
  <2>7. ReadInv'
    <3>1. slot'[s] = rec /\ SlotsKept(s) /\ PinnedKept(s)
      BY <1>1, <2>2, <2>3, EntryStep, Zenon DEF PinnedKept
    <3>2. job \in ReadJob /\ job.slot = s  BY <2>2, Zenon DEF TypeOK, ReadJob, Location
    <3>3. slot'[s].state = "READBACK_IN_FLIGHT" /\ slot'[s].cold = job.cold
      BY <3>1
    <3>4. UNCHANGED reader  BY <1>1, Zenon
    <3> HIDE DEF job, rec
    <3> QED  BY <1>0, <2>2, <2>3, <3>1, <3>2, <3>3, <3>4, ReadbackQueued, Zenon
  <2> HIDE DEF rec, ls, job
  <2> QED  BY <1>1, <1>4, <2>2, <2>3, <2>4, <2>6, <2>7, GrantStep, Zenon
<1> QED  BY <1>2, <1>3, <1>4, Zenon

(* RequestPrefetch never leases a valid slot anew: the readback that       *)
(* filled it has its lease still.                                          *)
LEMMA PrefetchPinnedNever ==
  ASSUME TypeOK, ExactInv, NEW e \in Epoch, NEW t \in Tensor, NEW v \in Version
  PROVE  ~PrefetchPinned(e, t, v)
<1>0. LeaseInv /\ HeldInv /\ LocInv /\ Ranges  BY RangesHold, Zenon DEF ExactInv
<1> QED  BY <1>0, ValidIsPending, Zenon DEF PrefetchPinned

(* The state changes a slot goes through under its lease.                  *)
Moves(x, y) ==
  \/ x = "RESERVED_D2H" /\ y = "D2H_IN_FLIGHT"
  \/ x = "D2H_IN_FLIGHT" /\ y = "DRAIN_IN_FLIGHT"
  \/ x = "READBACK_IN_FLIGHT" /\ y \in {"PINNED_VALID", "ERROR"}
  \/ x = "PINNED_VALID" /\ y = "H2D_IN_FLIGHT"

LEMMA LeaseMoved ==
  ASSUME TypeOK, LeaseInv, Ranges, NEW z \in Slot, NEW y, Moves(State(z), y),
         slot' = SetState(z, y), UNCHANGED <<leases, nextLease>>
  PROVE  LeaseInv'
<1> SUFFICES ASSUME NEW l \in DOMAIN leases PROVE LeaseOK(l)'  BY Zenon DEF LeaseInv
<1>1. LeaseOK(l) /\ leases[l].slot \in Slot  BY Zenon DEF LeaseInv, Ranges
<1>2. /\ slot'[z].state = y /\ slot'[z].tensor = slot[z].tensor
      /\ slot'[z].version = slot[z].version /\ slot'[z].lease = slot[z].lease
      /\ SlotsKept(z)
  BY StateStep, Zenon
<1>3. CASE leases[l].slot = z
  <2>1. leases[l].prefetch =>
          y \in {"READBACK_IN_FLIGHT", "PINNED_VALID", "H2D_IN_FLIGHT", "ERROR"}
    BY <1>1, <1>3, Zenon DEF LeaseOK, Moves
  <2>2. ~leases[l].prefetch => y \in {"RESERVED_D2H", "D2H_IN_FLIGHT", "DRAIN_IN_FLIGHT"}
    BY <1>1, <1>3, Zenon DEF LeaseOK, Moves
  <2> QED  BY <1>1, <1>2, <1>3, <2>1, <2>2, Zenon DEF LeaseOK, State
<1>4. CASE leases[l].slot # z
  <2>1. slot'[leases[l].slot] = slot[leases[l].slot]  BY <1>1, <1>2, <1>4, Zenon DEF SlotsKept
  <2> QED  BY <1>1, <2>1, Zenon DEF LeaseOK, State
<1> QED  BY <1>3, <1>4, Zenon

(* The lease a call or a copy works under is the tensor's rank's, and its  *)
(* slot is that of no other lease.                                         *)
LEMMA UserFacts ==
  ASSUME LeaseInv, Ranges, NEW u, NEW x, Uses(leases, slot, u, x)
  PROVE  /\ u.slot \in Slot /\ u.tensor \in Tensor /\ u.version \in Version
         /\ leases[u.lease].rank = Owner[u.tensor]
         /\ slot[u.slot].lease = u.lease /\ slot[u.slot].tensor = u.tensor
         /\ slot[u.slot].version = u.version
         /\ \A l \in DOMAIN leases : leases[l].slot = u.slot => l = u.lease
<1>1. LeaseOK(u.lease)  BY Zenon DEF LeaseInv, Uses
<1>2. \A l \in DOMAIN leases : leases[l].slot = u.slot => l = slot[u.slot].lease
  BY Zenon DEF LeaseInv, LeaseOK
<1> QED  BY <1>1, <1>2, Zenon DEF LeaseOK, Uses, Ranges

(* Two agents are never at work with one slot.                             *)
LEMMA OneCaller ==
  ASSUME SessionInv, LeaseInv, ClientInv, Ranges, NEW e \in Epoch, NEW k \in Epoch,
         client[e].pc \in {"granted", "ready", "checked"},
         client[k].pc \in {"granted", "ready", "checked"},
         client[e].slot = client[k].slot
  PROVE  e = k
<1>1. PICK x : Uses(leases, slot, client[e], x)  BY Zenon DEF ClientInv, ClientOK
<1>2. PICK y : Uses(leases, slot, client[k], y)  BY Zenon DEF ClientInv, ClientOK
<1>3. slot[client[e].slot].tensor = client[e].tensor  BY <1>1, UserFacts, Zenon
<1>4. slot[client[k].slot].tensor = client[k].tensor  BY <1>2, UserFacts, Zenon
<1>5. client[e].rank = Owner[client[e].tensor] /\ client[k].rank = Owner[client[k].tensor]
  BY Zenon DEF ClientInv, ClientOK
<1>6. session[client[e].rank].epoch = e /\ session[client[k].rank].epoch = k
  BY Zenon DEF SessionInv, Calling
<1> QED  BY <1>3, <1>4, <1>5, <1>6, Zenon

(* A copy is launched under an accepted Mark*Submitted call.               *)
LEMMA SubmitExact ==
  ASSUME TypeOK, ExactInv, NEW e \in Epoch, NEW dir, NEW from, NEW to,
         \/ /\ client[e].pc = "granted" /\ dir = "D2H"
            /\ from = "RESERVED_D2H" /\ to = "D2H_IN_FLIGHT"
         \/ /\ client[e].pc = "checked" /\ dir = "H2D"
            /\ from = "PINNED_VALID" /\ to = "H2D_IN_FLIGHT",
         MarkSubmitted(e, from, to), Launch(e, dir),
         UNCHANGED <<session, leases, loc, coldStore, pinned, drainQ, readQ, drain,
                     reader, nextLease, nextEpoch>>
  PROVE  ExactInv'
<1>0. /\ SessionInv /\ LeaseInv /\ HeldInv /\ BytesInv /\ ClientInv /\ FlightInv
      /\ DrainInv /\ ReadInv /\ LocInv /\ Ranges
  BY RangesHold, Zenon DEF ExactInv
<1>s. PICK s : s = client[e].slot  BY Zenon
<1>1. /\ Uses(leases, slot, client[e], from) /\ Calling(e)
      /\ Owner[client[e].tensor] = client[e].rank
  BY <1>0, Zenon DEF ClientInv, ClientOK, Calling
<1>2. /\ s \in Slot /\ leases[client[e].lease].rank = Owner[client[e].tensor]
      /\ slot[s].lease = client[e].lease /\ slot[s].tensor = client[e].tensor
      /\ slot[s].version = client[e].version
  BY <1>s, <1>0, <1>1, UserFacts, Zenon
<1>3. State(s) = from /\ Owns(e, client[e].lease, s)
  BY <1>s, <1>0, <1>1, <1>2, ValidEpoch, Zenon DEF Uses, Owns, State
<1>4. slot' = SetState(s, to)  BY <1>s, <1>3, Zenon DEF MarkSubmitted
<1>5. /\ slot'[s].state = to /\ slot'[s].tensor = slot[s].tensor
      /\ slot'[s].version = slot[s].version /\ slot'[s].lease = slot[s].lease
      /\ slot'[s].cold = slot[s].cold /\ SlotsKept(s)
  BY <1>2, <1>4, StateStep, Zenon
<1>6. /\ client'[e].pc = "idle" /\ client'[e].up = client[e].up
      /\ client'[e].rank = client[e].rank
      /\ \A k \in Epoch : k # e => client'[k] = client[k]
  BY IdleStep, Zenon DEF Launch
<1>7. ClientsKept /\ AgentsKept  BY <1>1, <1>6, CallKept, Zenon DEF Calling
<1>8. LeasesKept(s) /\ PinnedKept(s) /\ ColdKept
  BY Zenon DEF LeasesKept, PinnedKept, ColdKept
<1>f. PICK f : f = [client |-> e, dir |-> dir, lease |-> client[e].lease,
        slot |-> client[e].slot, tensor |-> client[e].tensor,
        version |-> client[e].version, landed |-> FALSE, data |-> Blank]
  BY Zenon
<1>9. flight' = flight \cup {f}  BY <1>f, Zenon DEF Launch
<1>10. /\ f.client = e /\ f.dir = dir /\ f.lease = client[e].lease /\ f.slot = s
       /\ f.tensor = client[e].tensor /\ f.version = client[e].version /\ ~f.landed
  BY <1>s, <1>f, Zenon
<1>11. \A g \in flight : g.slot # s
  <2>1. from \notin {"D2H_IN_FLIGHT", "H2D_IN_FLIGHT"}  BY Zenon
  <2> QED  BY <1>0, <1>3, <2>1, Zenon DEF FlightInv, FlightOK, Uses, Ranges, State
<1>12. SessionInv'  BY <1>0, <1>7, SessionFrame, Zenon
<1>13. LeaseInv'  BY <1>0, <1>2, <1>3, <1>4, LeaseMoved, Zenon DEF Moves
<1>14. HeldInv'
  <2>1. HeldOK(s)'
    <3>1. client[e].lease \in DOMAIN leases /\ leases[client[e].lease].slot = s
      BY <1>s, <1>1, Zenon DEF Uses
    <3> QED  BY <1>2, <1>5, <1>9, <1>10, <3>1, Zenon DEF HeldOK, State
  <2>2. \A k \in Epoch : client[k].pc = "granted" /\ client[k].slot # s => client'[k] = client[k]
    BY <1>s, <1>6, Zenon
  <2>3. \A g \in flight : g \in flight'  BY <1>9, Zenon
  <2> QED  BY <1>0, <1>5, <1>8, <2>1, <2>2, <2>3, HeldOffSlot, Zenon
<1>15. BytesInv'
  <2>1. BytesOK(s)'
    BY <1>0, <1>2, <1>3, <1>5, Zenon DEF BytesInv, BytesOK, State, ColdHas
  <2> QED  BY <1>0, <1>5, <1>8, <2>1, BytesOffSlot, Zenon
<1>16. ClientInv'
  <2> SUFFICES ASSUME NEW k \in Epoch PROVE ClientOK(k)'  BY Zenon DEF ClientInv
  <2>1. CASE k = e  BY <1>6, <2>1, Zenon DEF ClientOK
  <2>2. CASE k # e
    <3>1. client[k].pc \notin {"granted", "ready", "checked"} \/ client[k].slot # s
      BY <1>s, <1>0, <2>2, OneCaller, Zenon
    <3> QED  BY <1>0, <1>5, <1>6, <1>8, <2>2, <3>1, ClientOffSlot, Zenon
  <2> QED  BY <2>1, <2>2, Zenon
<1>17. FlightInv'
  <2>1. FlightOK(f)'
    <3>1. Uses(leases', slot', f, to)
      BY <1>s, <1>1, <1>5, <1>10, Zenon DEF Uses
    <3>2. client'[e].pc # "none" /\ client'[e].rank = Owner[client[e].tensor]
      BY <1>1, <1>6, Zenon
    <3> QED  BY <1>10, <3>1, <3>2, Zenon DEF FlightOK, Calling
  <2>2. \A g \in flight : FlightOK(g)'
    BY <1>0, <1>5, <1>7, <1>8, <1>11, FlightOffSlot, Zenon
  <2> QED  BY <1>0, <1>9, <1>10, <1>11, <2>1, <2>2, Zenon DEF FlightInv
<1>18. DrainInv'
  BY <1>0, <1>3, <1>5, DrainOffSlot, Zenon
<1>19. ReadInv'
  BY <1>0, <1>3, <1>5, <1>8, ReadOffSlot, Zenon
<1>20. LocInv'
  <2> SUFFICES ASSUME NEW t \in Tensor PROVE LocOK(t)'  BY Zenon DEF LocInv
  <2>1. CASE loc[t].slot # s \/ loc[t].kind # "PINNED"
    BY <1>0, <1>5, <1>8, <2>1, LocOffSlot, Zenon
  <2>2. CASE loc[t].slot = s /\ loc[t].kind = "PINNED"
    <3>1. LocOK(t)  BY <1>0, Zenon DEF LocInv
    <3>2. from = "PINNED_VALID" /\ to = "H2D_IN_FLIGHT"
      BY <1>3, <2>2, <3>1, Zenon DEF LocOK
    <3> QED  BY <1>3, <1>5, <2>2, <3>1, <3>2, Zenon DEF LocOK, State, ColdHas
  <2> QED  BY <2>1, <2>2, Zenon
<1> QED
  BY <1>12, <1>13, <1>14, <1>15, <1>16, <1>17, <1>18, <1>19, <1>20, Zenon DEF ExactInv

(* A DMA ends: into its slot, or with what it found there.                 *)
LEMMA LandExact ==
  ASSUME TypeOK, ExactInv, NEW f \in flight, Land(f)
  PROVE  ExactInv'
<1>0. /\ SessionInv /\ LeaseInv /\ HeldInv /\ BytesInv /\ ClientInv /\ FlightInv
      /\ DrainInv /\ ReadInv /\ LocInv /\ Ranges
  BY RangesHold, Zenon DEF ExactInv
<1>1. /\ UNCHANGED <<session, slot, leases, loc, coldStore, drainQ, readQ, drain, reader,
                     client, nextLease, nextEpoch>>
      /\ ~f.landed
  BY Zenon DEF Land, tables
<1>2. PICK g : g = [f EXCEPT !.landed = TRUE,
                             !.data = IF f.dir = "H2D" THEN pinned[f.slot] ELSE Blank]
  BY Zenon
<1>3. flight' = (flight \ {f}) \cup {g}  BY <1>2, Zenon DEF Land
<1>4. /\ g.client = f.client /\ g.dir = f.dir /\ g.lease = f.lease /\ g.slot = f.slot
      /\ g.tensor = f.tensor /\ g.version = f.version
      /\ f.dir = "H2D" => g.data = pinned[f.slot]
  <2>1. f \in Flight  BY Zenon DEF TypeOK
  <2> QED  BY <1>2, <2>1, Zenon DEF Flight
<1>5. FlightOK(f) /\ f.slot \in Slot /\ f.dir \in {"D2H", "H2D"}
  BY <1>0, Zenon DEF FlightInv, Ranges
<1>6. /\ f.dir = "D2H" => pinned'[f.slot] = Copy(f.tensor, f.version)
      /\ f.dir = "H2D" => pinned' = pinned
      /\ PinnedKept(f.slot)
  BY <1>5, Zenon DEF Land, PinnedKept, TypeOK
<1>7. SlotsKept(f.slot) /\ LeasesKept(f.slot) /\ ColdKept /\ ClientsKept /\ AgentsKept
  BY <1>1, ClientsSame, Zenon DEF SlotsKept, LeasesKept, ColdKept
<1>8. State(f.slot) \in {"D2H_IN_FLIGHT", "H2D_IN_FLIGHT"}
  BY <1>5, Zenon DEF FlightOK, Uses, State
<1>9. SessionInv'  BY <1>0, <1>1, <1>7, SessionFrame, Zenon
<1>10. LeaseInv'  BY <1>0, <1>1, LeaseFrame, Zenon
<1>11. HeldInv'
  <2> SUFFICES ASSUME NEW z \in Slot PROVE HeldOK(z)'  BY Zenon DEF HeldInv
  <2>1. HeldOK(z)  BY <1>0, Zenon DEF HeldInv
  <2>2. (\E h \in flight : h.lease = slot[z].lease) => \E h \in flight' : h.lease = slot[z].lease
    BY <1>3, <1>4, Zenon
  <2> QED  BY <1>1, <2>1, <2>2, Zenon DEF HeldOK, State
<1>12. BytesInv'
  <2>1. BytesOK(f.slot)'
    <3>1. BytesOK(f.slot)  BY <1>0, <1>5, Zenon DEF BytesInv
    <3>2. State(f.slot) = "H2D_IN_FLIGHT" => f.dir = "H2D"
      BY <1>5, Zenon DEF FlightOK, Uses, State
    <3> QED  BY <1>1, <1>6, <1>8, <3>1, <3>2, Zenon DEF BytesOK, State, ColdHas
  <2> QED  BY <1>0, <1>6, <1>7, <2>1, BytesOffSlot, Zenon
<1>13. ClientInv'  BY <1>0, <1>1, ClientFrame, Zenon
<1>14. FlightInv'
  <2>1. FlightOK(g)'
    <3>1. /\ f.dir = "D2H" => Uses(leases', slot', g, "D2H_IN_FLIGHT")
          /\ f.dir = "H2D" => Uses(leases', slot', g, "H2D_IN_FLIGHT")
      BY <1>1, <1>4, <1>5, Zenon DEF FlightOK, Uses
    <3>2. f.dir = "H2D" => g.data = Copy(f.tensor, f.version)
      <4> SUFFICES ASSUME f.dir = "H2D" PROVE pinned[f.slot] = Copy(f.tensor, f.version)
        BY <1>4, Zenon
      <4>1. Uses(leases, slot, f, "H2D_IN_FLIGHT")  BY <1>5, Zenon DEF FlightOK
      <4>2. slot[f.slot].tensor = f.tensor /\ slot[f.slot].version = f.version
        BY <1>0, <4>1, UserFacts, Zenon
      <4>3. State(f.slot) = "H2D_IN_FLIGHT"  BY <4>1, Zenon DEF Uses, State
      <4> QED  BY <1>0, <1>5, <4>2, <4>3, Zenon DEF BytesInv, BytesOK
    <3>3. client'[g.client].pc # "none" /\ client'[g.client].rank = Owner[g.tensor]
      BY <1>1, <1>4, <1>5, Zenon DEF FlightOK, Calling
    <3> QED  BY <1>4, <1>5, <1>6, <3>1, <3>2, <3>3, Zenon DEF FlightOK, Calling
  <2>2. ASSUME NEW h \in flight, h # f PROVE FlightOK(h)' /\ h.slot # f.slot
    <3>1. h.slot # f.slot  BY <1>0, <2>2, Zenon DEF FlightInv
    <3> QED  BY <1>0, <1>6, <1>7, <3>1, FlightOffSlot, Zenon
  <2> QED  BY <1>0, <1>3, <1>4, <2>1, <2>2, Zenon DEF FlightInv
<1>15. DrainInv'  BY <1>0, <1>1, DrainFrame, Zenon
<1>16. ReadInv'  BY <1>0, <1>1, <1>6, <1>7, <1>8, ReadOffSlot, Zenon
<1>17. LocInv'  BY <1>0, <1>1, LocFrame, Zenon
<1> QED
  BY <1>9, <1>10, <1>11, <1>12, <1>13, <1>14, <1>15, <1>16, <1>17, Zenon DEF ExactInv

(* Queueing a drain of slot z, which had none.                             *)
LEMMA DrainIsQueued ==
  ASSUME TypeOK, DrainInv, Ranges, NEW z \in Slot, SlotsKept(z),
         State(z) # "DRAIN_IN_FLIGHT", slot'[z].state = "DRAIN_IN_FLIGHT",
         drainQ' = Append(drainQ, z), UNCHANGED drain
  PROVE  DrainInv'
<1>1. \A i \in DOMAIN drainQ' : \/ i \in DOMAIN drainQ /\ drainQ'[i] = drainQ[i]
                                \/ i = Len(drainQ) + 1 /\ drainQ'[i] = z
  BY AppendIndex DEF TypeOK
<1>2. \A i \in DOMAIN drainQ : drainQ[i] \in Slot /\ drainQ[i] # z
  BY Zenon DEF DrainInv, Ranges
<1>3. \A w \in DrainWorker : drain[w].stage # "idle" => drain[w].slot # z
  BY Zenon DEF DrainInv, DrainOK
<1>4. ASSUME NEW w \in DrainWorker PROVE DrainOK(w)'
  <2>1. CASE drain[w].stage = "idle"  BY <2>1, Zenon DEF DrainOK
  <2>2. CASE drain[w].stage # "idle"
    <3>1. slot'[drain[w].slot] = slot[drain[w].slot]
      BY <1>3, <2>2, Zenon DEF SlotsKept, Ranges
    <3>2. DrainOK(w)  BY Zenon DEF DrainInv
    <3> QED  BY <3>1, <3>2, Zenon DEF DrainOK, State
  <2> QED  BY <2>1, <2>2, Zenon
<1>5. ASSUME NEW i \in DOMAIN drainQ'
      PROVE  /\ State(drainQ[i])' = "DRAIN_IN_FLIGHT"
             /\ \A w \in DrainWorker : ~DrainedBy(w, drainQ[i])'
  <2>1. CASE i \in DOMAIN drainQ /\ drainQ'[i] = drainQ[i]
    <3>1. slot'[drainQ[i]] = slot[drainQ[i]]  BY <1>2, <2>1, Zenon DEF SlotsKept
    <3>2. /\ State(drainQ[i]) = "DRAIN_IN_FLIGHT"
          /\ \A w \in DrainWorker : ~DrainedBy(w, drainQ[i])
      BY <2>1, Zenon DEF DrainInv
    <3> QED  BY <2>1, <3>1, <3>2, Zenon DEF DrainedBy, State
  <2>2. CASE drainQ'[i] = z
    BY <1>3, <2>2, Zenon DEF DrainedBy, State
  <2> QED  BY <1>1, <2>1, <2>2, Zenon
<1>6. ASSUME NEW i \in DOMAIN drainQ', NEW j \in DOMAIN drainQ', drainQ'[i] = drainQ'[j]
      PROVE  i = j
  BY <1>1, <1>2, <1>6, Zenon DEF DrainInv
<1>7. /\ \A e \in Epoch : drain'[e].stage = "idle"
      /\ \A v, w \in DrainWorker :
           drain'[v].stage # "idle" /\ drain'[w].stage # "idle" /\ drain'[v].slot = drain'[w].slot
           => v = w
  BY Zenon DEF DrainInv
<1> QED  BY <1>4, <1>5, <1>6, <1>7, Zenon DEF DrainInv

(* A copy in flight has its slot to itself, and its agent owns the lease.  *)
LEMMA CopyFacts ==
  ASSUME ExactInv, Ranges, NEW f \in flight
  PROVE  /\ f.slot \in Slot /\ Owns(f.client, f.lease, f.slot)
         /\ leases[f.lease].tensor = f.tensor /\ leases[f.lease].version = f.version
         /\ f.dir = "D2H" => State(f.slot) = "D2H_IN_FLIGHT"
         /\ f.dir = "H2D" => State(f.slot) = "H2D_IN_FLIGHT"
         /\ slot[f.slot].lease = f.lease /\ slot[f.slot].tensor = f.tensor
         /\ slot[f.slot].version = f.version
         /\ \A l \in DOMAIN leases : leases[l].slot = f.slot => l = f.lease
         /\ \A g \in flight \ {f} : g.slot # f.slot
<1>0. SessionInv /\ LeaseInv /\ FlightInv  BY Zenon DEF ExactInv
<1>1. FlightOK(f) /\ f.client \in Epoch /\ f.dir \in {"D2H", "H2D"}
  BY <1>0, Zenon DEF FlightInv, Ranges
<1>2. PICK x : Uses(leases, slot, f, x)  BY <1>1, Zenon DEF FlightOK
<1>3. /\ f.slot \in Slot /\ leases[f.lease].rank = Owner[f.tensor]
      /\ slot[f.slot].lease = f.lease /\ slot[f.slot].tensor = f.tensor
      /\ slot[f.slot].version = f.version
      /\ \A l \in DOMAIN leases : leases[l].slot = f.slot => l = f.lease
  BY <1>0, <1>2, UserFacts, Zenon
<1>4. EpochValid(f.client)  BY <1>0, <1>1, ValidEpoch, Zenon DEF FlightOK
<1>5. Owns(f.client, f.lease, f.slot)
  BY <1>1, <1>2, <1>3, <1>4, Zenon DEF Owns, FlightOK, Uses
<1>6. /\ leases[f.lease].tensor = f.tensor /\ leases[f.lease].version = f.version
      /\ f.dir = "D2H" => State(f.slot) = "D2H_IN_FLIGHT"
      /\ f.dir = "H2D" => State(f.slot) = "H2D_IN_FLIGHT"
  BY <1>1, <1>2, Zenon DEF FlightOK, Uses, State
<1>7. \A g \in flight \ {f} : g.slot # f.slot  BY <1>0, Zenon DEF FlightInv
<1> QED  BY <1>3, <1>5, <1>6, <1>7, Zenon

(* apply_d2h_complete: the slot is listed as the tensor's latest location  *)
(* and queued for its drain.                                               *)
LEMMA D2HCompleteExact ==
  ASSUME TypeOK, Undisturbed, ExactInv, NEW f \in flight, D2HComplete(f)
  PROVE  ExactInv'
<1>0. /\ SessionInv /\ LeaseInv /\ HeldInv /\ BytesInv /\ ClientInv /\ FlightInv
      /\ DrainInv /\ ReadInv /\ LocInv /\ Ranges
  BY RangesHold, Zenon DEF ExactInv
<1>1. /\ f.slot \in Slot /\ Owns(f.client, f.lease, f.slot)
      /\ leases[f.lease].tensor = f.tensor /\ leases[f.lease].version = f.version
      /\ f.dir = "D2H" => State(f.slot) = "D2H_IN_FLIGHT"
      /\ slot[f.slot].lease = f.lease /\ slot[f.slot].tensor = f.tensor
      /\ slot[f.slot].version = f.version
      /\ \A g \in flight \ {f} : g.slot # f.slot
  BY <1>0, CopyFacts, Zenon
<1>2. /\ f.dir = "D2H" /\ f.landed /\ flight' = flight \ {f}
      /\ UNCHANGED <<session, leases, coldStore, pinned, readQ, drain, reader, client,
                     nextLease, nextEpoch>>
  BY Zenon DEF D2HComplete, Report
<1>3. State(f.slot) = "D2H_IN_FLIGHT"  BY <1>1, <1>2, Zenon
<1>4. /\ loc' = UpdateLocation(loc, f.tensor, f.version, "PINNED", f.slot, 0)
      /\ slot' = SetState(f.slot, "DRAIN_IN_FLIGHT")
      /\ drainQ' = Append(drainQ, f.slot)
  BY <1>1, <1>3, Zenon DEF D2HComplete, Undisturbed
<1>5. /\ slot'[f.slot].state = "DRAIN_IN_FLIGHT" /\ slot'[f.slot].tensor = slot[f.slot].tensor
      /\ slot'[f.slot].version = slot[f.slot].version /\ SlotsKept(f.slot)
  BY <1>1, <1>4, StateStep, Zenon
<1>6. LeasesKept(f.slot) /\ PinnedKept(f.slot) /\ ColdKept /\ ClientsKept /\ AgentsKept
  BY <1>2, ClientsSame, Zenon DEF LeasesKept, PinnedKept, ColdKept
<1>7. SessionInv'  BY <1>0, <1>2, <1>6, SessionFrame, Zenon
<1>8. LeaseInv'  BY <1>0, <1>1, <1>2, <1>3, <1>4, LeaseMoved, Zenon DEF Moves
<1>9. HeldInv'
  <2>1. HeldOK(f.slot)'  BY <1>5, Zenon DEF HeldOK, State
  <2>2. \A g \in flight : g.slot # f.slot => g \in flight'  BY <1>2, Zenon
  <2>3. \A k \in Epoch : client'[k] = client[k]  BY <1>2, Zenon
  <2> QED  BY <1>0, <1>5, <1>6, <2>1, <2>2, <2>3, HeldOffSlot, Zenon
<1>10. BytesInv'
  <2>1. pinned[f.slot] = Copy(f.tensor, f.version)
    BY <1>0, <1>2, Zenon DEF FlightInv, FlightOK
  <2>2. BytesOK(f.slot)'  BY <1>1, <1>2, <1>5, <2>1, Zenon DEF BytesOK, State
  <2> QED  BY <1>0, <1>5, <1>6, <2>2, BytesOffSlot, Zenon
<1>11. ClientInv'
  <2> SUFFICES ASSUME NEW k \in Epoch PROVE ClientOK(k)'  BY Zenon DEF ClientInv
  <2> QED  BY <1>0, <1>2, <1>3, <1>5, <1>6, ClientOffSlot, Zenon
<1>12. FlightInv'
  <2>1. flight' \subseteq flight /\ \A g \in flight' : g.slot # f.slot  BY <1>1, <1>2, Zenon
  <2> QED  BY <1>0, <1>5, <1>6, <2>1, FlightsOffSlot, Zenon
<1>13. DrainInv'  BY <1>0, <1>1, <1>2, <1>3, <1>4, <1>5, DrainIsQueued, Zenon
<1>14. ReadInv'  BY <1>0, <1>2, <1>3, <1>5, <1>6, ReadOffSlot, Zenon
<1>15. LocInv'
  <2> SUFFICES ASSUME NEW t \in Tensor PROVE LocOK(t)'  BY Zenon DEF LocInv
  <2>1. CASE loc'[t] = loc[t]  BY <1>0, <1>3, <1>5, <1>6, <2>1, LocOffSlot, Zenon
  <2>2. CASE loc'[t] # loc[t]
    <3>1. /\ t = f.tensor
          /\ loc'[t] = [kind |-> "PINNED", version |-> f.version, slot |-> f.slot, cold |-> 0]
      BY <1>4, <2>2, Zenon DEF UpdateLocation, TypeOK
    <3>2. /\ loc'[t].kind = "PINNED" /\ loc'[t].version = f.version
          /\ loc'[t].slot = f.slot /\ loc'[t].cold = 0
      BY <3>1
    <3> QED  BY <1>1, <1>5, <3>1, <3>2, Zenon DEF LocOK, State
  <2> QED  BY <2>1, <2>2, Zenon
<1> QED
  BY <1>7, <1>8, <1>9, <1>10, <1>11, <1>12, <1>13, <1>14, <1>15, Zenon DEF ExactInv

(* The lease of slot z ends, with the slot's own end or while it drains.   *)
LEMMA LeaseDropped ==
  ASSUME TypeOK, ExactInv, NEW z \in Slot, State(z) \in {"DRAIN_IN_FLIGHT", "H2D_IN_FLIGHT"},
         leases' = Without(leases, {slot[z].lease}),
         slot[z].lease \in DOMAIN leases => leases[slot[z].lease].slot = z,
         slot'[z].state \in {"FREE", "DRAIN_IN_FLIGHT"}, SlotsKept(z), BytesOK(z)',
         UNCHANGED <<session, client, pinned, nextLease, nextEpoch>>, ColdKept,
         flight' \subseteq flight, \A g \in flight : g.slot # z => g \in flight',
         State(z) = "DRAIN_IN_FLIGHT" \/ \A g \in flight' : g.slot # z
  PROVE  /\ SessionInv' /\ LeaseInv' /\ HeldInv' /\ BytesInv' /\ ClientInv' /\ FlightInv'
         /\ PinnedKept(z)
<1>0. /\ SessionInv /\ LeaseInv /\ HeldInv /\ BytesInv /\ ClientInv /\ FlightInv /\ Ranges
  BY RangesHold, Zenon DEF ExactInv
<1>1. /\ \A l \in DOMAIN leases' : l \in DOMAIN leases /\ leases'[l] = leases[l]
      /\ \A l \in DOMAIN leases' : l # slot[z].lease
      /\ \A l \in DOMAIN leases : l # slot[z].lease => l \in DOMAIN leases' /\ leases'[l] = leases[l]
  BY Zenon DEF Without
<1>2. \A l \in DOMAIN leases : leases[l].slot = z => l = slot[z].lease
  BY <1>0 DEF LeaseInv, LeaseOK
<1>3. LeasesKept(z)  BY <1>1, Zenon DEF LeasesKept
<1>4. ClientsKept /\ AgentsKept /\ PinnedKept(z)  BY ClientsSame, Zenon DEF PinnedKept
<1>5. SessionInv'  BY <1>0, <1>4, SessionFrame, Zenon
<1>6. LeaseInv'
  <2>1. \A l \in DOMAIN leases' : leases[l].slot # z  BY <1>1, <1>2, Zenon
  <2> QED  BY <1>0, <1>1, <2>1, LeasesOffSlot, Zenon
<1>7. HeldInv'
  <2>1. HeldOK(z)'  BY Zenon DEF HeldOK, State
  <2>2. \A k \in Epoch : client'[k] = client[k]  BY Zenon
  <2>3. \A g \in flight : g.slot # z => \E h \in flight' : h.lease = g.lease  BY Zenon
  <2> QED  BY <1>0, <1>3, <2>1, <2>2, <2>3, HeldOffSlot, Zenon
<1>8. BytesInv'  BY <1>0, <1>4, BytesOffSlot, Zenon
<1>9. ClientInv'
  <2> SUFFICES ASSUME NEW k \in Epoch PROVE ClientOK(k)'  BY Zenon DEF ClientInv
  <2>1. client'[k] = client[k] /\ State(z) \notin {"RESERVED_D2H", "PINNED_VALID"}
    BY Zenon
  <2> QED  BY <1>0, <1>3, <2>1, ClientOffSlot, Zenon
<1>10. FlightInv'  BY <1>0, <1>3, <1>4, FlightsOffSlot, Zenon
<1> QED  BY <1>4, <1>5, <1>6, <1>7, <1>8, <1>9, <1>10, Zenon

(* apply_h2d_complete: the cold copy a restore came from is still there,   *)
(* so the slot is given back and the location returns to it.               *)
LEMMA H2DCompleteExact ==
  ASSUME TypeOK, ExactInv, NEW f \in flight, H2DComplete(f)
  PROVE  ExactInv'
<1>0. /\ SessionInv /\ LeaseInv /\ BytesInv /\ DrainInv /\ ReadInv /\ LocInv /\ Ranges
  BY RangesHold, Zenon DEF ExactInv
<1> PICK t, z : t = f.tensor /\ z = f.slot  BY Zenon
<1>1. /\ z \in Slot /\ Owns(f.client, f.lease, z)
      /\ f.dir = "H2D" => State(z) = "H2D_IN_FLIGHT"
      /\ slot[z].lease = f.lease /\ slot[z].tensor = t /\ slot[z].version = f.version
      /\ \A g \in flight \ {f} : g.slot # z
  BY <1>0, CopyFacts, Zenon
<1>2. /\ f.dir = "H2D" /\ flight' = flight \ {f}
      /\ UNCHANGED <<session, coldStore, pinned, drainQ, readQ, drain, reader, client,
                     nextLease, nextEpoch>>
  BY Zenon DEF H2DComplete, Report
<1>3. State(z) = "H2D_IN_FLIGHT"  BY <1>1, <1>2, Zenon
<1>4. t \in Tensor /\ f.version \in Version /\ LocOK(t) /\ BytesOK(z)
  BY <1>0, <1>1, Zenon DEF Ranges, LocInv, BytesInv
<1>5. (IF loc[t].cold # 0 THEN loc[t].cold ELSE slot[z].cold) \in DOMAIN coldStore
  BY <1>3, <1>4, Zenon DEF LocOK, BytesOK, ColdHas
<1>6. /\ loc' = IF loc[t].slot = z /\ loc[t].version = f.version
                THEN [loc EXCEPT ![t].kind = "COLD", ![t].slot = 0] ELSE loc
      /\ slot' = [slot EXCEPT ![z] = FreeSlot]
      /\ leases' = Without(leases, {f.lease})
  BY <1>1, <1>3, <1>5, Zenon DEF H2DComplete
<1>7. slot'[z].state = "FREE" /\ SlotsKept(z) /\ ColdKept
  <2>1. slot'[z] = FreeSlot /\ SlotsKept(z)  BY <1>1, <1>6, EntryStep, Zenon
  <2>2. ColdKept  BY <1>2, ColdSame, Zenon
  <2> QED  BY <2>1, <2>2 DEF FreeSlot
<1>8. BytesOK(z)'  BY <1>7, Zenon DEF BytesOK, State
<1>9. leases[slot[z].lease].slot = z  BY <1>1, Zenon DEF Owns
<1>10. /\ flight' \subseteq flight /\ (\A g \in flight' : g.slot # z)
       /\ \A g \in flight : g.slot # z => g \in flight'
  BY <1>1, <1>2, Zenon
<1>11. /\ SessionInv' /\ LeaseInv' /\ HeldInv' /\ BytesInv' /\ ClientInv' /\ FlightInv'
       /\ PinnedKept(z)
  BY <1>1, <1>2, <1>3, <1>6, <1>7, <1>8, <1>9, <1>10, LeaseDropped, Zenon
<1>12. DrainInv'  BY <1>0, <1>2, <1>3, <1>7, DrainOffSlot, Zenon
<1>13. ReadInv'  BY <1>0, <1>2, <1>3, <1>7, <1>11, ReadOffSlot, Zenon
<1>14. LocInv'
  <2> SUFFICES ASSUME NEW u \in Tensor PROVE LocOK(u)'  BY Zenon DEF LocInv
  <2>1. CASE u = t /\ loc[t].slot = z /\ loc[t].version = f.version
    <3>1. loc'[t] = [loc[t] EXCEPT !.kind = "COLD", !.slot = 0] /\ loc[t] \in Location
      BY <1>4, <1>6, <2>1, Zenon DEF TypeOK
    <3>2. loc'[t].kind = "COLD" /\ loc'[t].version = loc[t].version /\ loc'[t].cold = loc[t].cold
      BY <3>1, Zenon DEF Location
    <3>3. f.version # 0  BY <1>4 DEF Version
    <3>4. loc[t].kind \in {"NONE", "PINNED", "COLD"}  BY <1>0, <1>4, Zenon DEF Ranges
    <3>5. loc[t].cold # 0  BY <1>3, <1>4, <2>1, <3>3, <3>4, Zenon DEF LocOK
    <3> QED  BY <1>2, <1>4, <2>1, <3>2, <3>5, Zenon DEF LocOK, ColdHas
  <2>2. CASE ~(u = t /\ loc[t].slot = z /\ loc[t].version = f.version)
    <3>1. loc'[u] = loc[u]  BY <1>6, <2>2, Zenon DEF TypeOK
    <3>2. loc[u].slot # z \/ loc[u].kind # "PINNED"
      BY <1>0, <1>1, <2>2 DEF LocInv, LocOK
    <3> QED  BY <1>0, <1>7, <3>1, <3>2, LocOffSlot, Zenon
  <2> QED  BY <2>1, <2>2, Zenon
<1> QED  BY <1>11, <1>12, <1>13, <1>14, Zenon DEF ExactInv

(* discard(): by then the eviction has landed, and only its drain is left. *)
LEMMA ReleaseLeaseExact ==
  ASSUME TypeOK, Undisturbed, ExactInv, NEW e \in Epoch, NEW l \in DOMAIN leases,
         ReleaseLease(e, l)
  PROVE  ExactInv'
<1>0. /\ SessionInv /\ LeaseInv /\ HeldInv /\ BytesInv /\ FlightInv
      /\ DrainInv /\ ReadInv /\ LocInv /\ Ranges
  BY RangesHold, Zenon DEF ExactInv
<1> PICK z : z = leases[l].slot  BY Zenon
<1>1. z \in Slot /\ slot[z].lease = l /\ LeaseOK(l) /\ HeldOK(z)
  BY <1>0, Zenon DEF Ranges, LeaseInv, LeaseOK, HeldInv
<1>2. /\ client[e].pc = "idle" /\ leases[l].epoch = e /\ ~leases[l].prefetch
      /\ \A f \in flight : <<f.tensor, f.version>> # <<leases[l].tensor, leases[l].version>>
      /\ leases' = Without(leases, {l})
      /\ UNCHANGED <<session, coldStore, pinned, drainQ, readQ, drain, reader, client,
                     flight, nextLease, nextEpoch>>
  BY Zenon DEF ReleaseLease, Undisturbed, CanCall
<1>3. State(z) # "RESERVED_D2H"  BY <1>1, <1>2, Zenon DEF HeldOK
<1>4. State(z) # "D2H_IN_FLIGHT"
  <2> SUFFICES ASSUME State(z) = "D2H_IN_FLIGHT" PROVE FALSE  BY Zenon
  <2>1. PICK f \in flight : f.lease = l  BY <1>1, Zenon DEF HeldOK
  <2>2. leases[l].tensor = f.tensor /\ leases[l].version = f.version
    BY <1>0, <2>1, CopyFacts, Zenon
  <2> QED  BY <1>2, <2>2, Zenon
<1>5. State(z) = "DRAIN_IN_FLIGHT"  BY <1>1, <1>2, <1>3, <1>4, Zenon DEF LeaseOK
<1>6. UNCHANGED <<loc, slot>>  BY <1>5, Zenon DEF ReleaseLease
<1>7. SlotsKept(z) /\ ColdKept /\ slot'[z].state = "DRAIN_IN_FLIGHT"
  BY <1>2, <1>5, <1>6, ColdSame, Zenon DEF SlotsKept, State
<1>8. BytesOK(z)'
  BY <1>0, <1>1, <1>2, <1>6, Zenon DEF BytesInv, BytesOK, ColdHas, State
<1>9. SessionInv' /\ LeaseInv' /\ HeldInv' /\ BytesInv' /\ ClientInv' /\ FlightInv'
  BY <1>1, <1>2, <1>5, <1>7, <1>8, LeaseDropped, Zenon
<1>10. DrainInv'  BY <1>0, <1>2, <1>6, DrainFrame, Zenon
<1>11. ReadInv'  BY <1>0, <1>2, <1>6, ReadFrame, Zenon
<1>12. LocInv'  BY <1>0, <1>2, <1>6, LocFrame, Zenon
<1> QED  BY <1>9, <1>10, <1>11, <1>12, Zenon DEF ExactInv
----------------------------------------------------------------------------
(* A drain worker takes the job at the head of the queue.                  *)
LEMMA DrainStartExact ==
  ASSUME TypeOK, ExactInv, NEW w \in DrainWorker, DrainStart(w)
  PROVE  ExactInv'
<1>0. /\ SessionInv /\ LeaseInv /\ HeldInv /\ BytesInv /\ ClientInv /\ FlightInv
      /\ DrainInv /\ ReadInv /\ LocInv /\ Ranges
  BY RangesHold, Zenon DEF ExactInv
<1> PICK s : s = Head(drainQ)  BY Zenon
<1>1. /\ drain[w].stage = "idle" /\ drainQ # <<>> /\ drainQ' = Tail(drainQ)
      /\ UNCHANGED <<session, slot, leases, loc, coldStore, pinned, readQ, reader,
                     client, flight, nextLease, nextEpoch>>
  BY Zenon DEF DrainStart
<1>2. /\ 1 \in DOMAIN drainQ /\ s = drainQ[1]
      /\ \A i \in DOMAIN drainQ' : /\ i + 1 \in DOMAIN drainQ /\ i + 1 # 1
                                   /\ drainQ'[i] = drainQ[i + 1]
      /\ \A i, j \in DOMAIN drainQ' : i + 1 = j + 1 => i = j
  <2>1. drainQ \in Seq(Slot)  BY Zenon DEF TypeOK
  <2> QED  BY ONLY <1>1, <2>1, TailIndex, s = Head(drainQ)
<1>3. /\ State(s) = "DRAIN_IN_FLIGHT" /\ \A v \in DrainWorker : ~DrainedBy(v, s)
      /\ \A i \in DOMAIN drainQ : drainQ[i] = s => i = 1
  BY <1>0, <1>2 DEF DrainInv
<1>4. /\ drain'[w] = [stage |-> "copy", slot |-> s, lease |-> slot[s].lease,
                      tensor |-> slot[s].tensor, version |-> slot[s].version, data |-> Blank]
      /\ \A d \in Drainer : d # w => drain'[d] = drain[d]
  BY <1>3, Zenon DEF DrainStart, TypeOK, Drainer
<1>5. /\ drain'[w].stage = "copy" /\ drain'[w].slot = s /\ drain'[w].lease = slot[s].lease
      /\ drain'[w].tensor = slot[s].tensor /\ drain'[w].version = slot[s].version
  BY <1>4
<1>6. DrainInv'
  <2>1. ASSUME NEW e \in Epoch PROVE drain'[e].stage = "idle"
    BY <1>0, <1>4, ConstantsAssumption, Zenon DEF DrainInv, Drainer
  <2>2. ASSUME NEW v \in DrainWorker PROVE DrainOK(v)'
    <3>1. CASE v = w  BY <1>1, <1>3, <1>5, <3>1, Zenon DEF DrainOK, State
    <3>2. CASE v # w
      <4>1. drain'[v] = drain[v] /\ DrainOK(v)  BY <1>0, <1>4, <3>2, Zenon DEF Drainer, DrainInv
      <4> QED  BY <1>1, <4>1, Zenon DEF DrainOK, State
    <3> QED  BY <3>1, <3>2, Zenon
  <2>3. ASSUME NEW u \in DrainWorker, NEW v \in DrainWorker, drain'[u].stage # "idle",
               drain'[v].stage # "idle", drain'[u].slot = drain'[v].slot
        PROVE  u = v
    <3>1. \A d \in DrainWorker : d # w /\ drain'[d].stage # "idle" =>
             drain'[d] = drain[d] /\ drain[d].slot # s
      BY <1>3, <1>4, Zenon DEF Drainer, DrainedBy
    <3> QED  BY <1>0, <1>5, <2>3, <3>1 DEF DrainInv
  <2>4. ASSUME NEW i \in DOMAIN drainQ'
        PROVE  /\ State(drainQ[i])' = "DRAIN_IN_FLIGHT"
               /\ \A v \in DrainWorker : ~DrainedBy(v, drainQ[i])'
    <3>1. /\ State(drainQ[i + 1]) = "DRAIN_IN_FLIGHT" /\ drainQ[i + 1] # s
          /\ \A v \in DrainWorker : ~DrainedBy(v, drainQ[i + 1])
      BY <1>0, <1>2, <1>3, Zenon DEF DrainInv
    <3>2. drainQ'[i] = drainQ[i + 1]  BY <1>2, Zenon
    <3>3. State(drainQ[i])' = "DRAIN_IN_FLIGHT"  BY <1>1, <3>1, <3>2, Zenon DEF State
    <3>4. ASSUME NEW v \in DrainWorker PROVE ~DrainedBy(v, drainQ[i])'
      BY <1>4, <1>5, <3>1, <3>2, Zenon DEF DrainedBy, Drainer
    <3> QED  BY <3>3, <3>4, Zenon
  <2>5. ASSUME NEW i \in DOMAIN drainQ', NEW j \in DOMAIN drainQ', drainQ'[i] = drainQ'[j]
        PROVE  i = j
    BY <1>0, <1>2, <2>5 DEF DrainInv
  <2> QED  BY <2>1, <2>2, <2>3, <2>4, <2>5, Zenon DEF DrainInv
<1>7. ClientsKept /\ AgentsKept  BY <1>1, ClientsSame, Zenon
<1>8. SessionInv'  BY <1>0, <1>1, <1>7, SessionFrame, Zenon
<1>9. LeaseInv'  BY <1>0, <1>1, LeaseFrame, Zenon
<1>10. HeldInv'  BY <1>0, <1>1, HeldFrame, Zenon
<1>11. BytesInv'  BY <1>0, <1>1, BytesFrame, Zenon
<1>12. ClientInv'  BY <1>0, <1>1, ClientFrame, Zenon
<1>13. FlightInv'  BY <1>0, <1>1, <1>7, FlightFrame, Zenon
<1>14. ReadInv'  BY <1>0, <1>1, ReadFrame, Zenon
<1>15. LocInv'  BY <1>0, <1>1, LocFrame, Zenon
<1> QED
  BY <1>6, <1>8, <1>9, <1>10, <1>11, <1>12, <1>13, <1>14, <1>15, Zenon DEF ExactInv

(* The copy out of the slot, made without mu_: nobody else writes there.   *)
LEMMA DrainCopyExact ==
  ASSUME TypeOK, ExactInv, NEW w \in Drainer, DrainCopy(w)
  PROVE  ExactInv'
<1>0. /\ SessionInv /\ LeaseInv /\ HeldInv /\ BytesInv /\ ClientInv /\ FlightInv
      /\ DrainInv /\ ReadInv /\ LocInv /\ Ranges
  BY RangesHold, Zenon DEF ExactInv
<1>1. /\ drain[w].stage = "copy"
      /\ drain' = [drain EXCEPT ![w].stage = "commit", ![w].data = pinned[drain[w].slot]]
      /\ UNCHANGED <<session, slot, leases, loc, coldStore, pinned, drainQ, readQ, reader,
                     client, flight, nextLease, nextEpoch>>
  BY Zenon DEF DrainCopy, tables
<1>2. w \in DrainWorker  BY <1>0, <1>1, Zenon DEF DrainInv, Drainer
<1>3. /\ drain[w] \in DrainJob
      /\ drain'[w] = [drain[w] EXCEPT !.stage = "commit", !.data = pinned[drain[w].slot]]
      /\ \A d \in Drainer : d # w => drain'[d] = drain[d]
  BY <1>1, Zenon DEF TypeOK
<1>4. /\ drain'[w].stage = "commit" /\ drain'[w].slot = drain[w].slot
      /\ drain'[w].lease = drain[w].lease /\ drain'[w].tensor = drain[w].tensor
      /\ drain'[w].version = drain[w].version /\ drain'[w].data = pinned[drain[w].slot]
  BY <1>3, Zenon DEF DrainJob
<1>5. DrainOK(w) /\ drain[w].slot \in Slot  BY <1>0, <1>2, Zenon DEF DrainInv, Ranges
<1>6. pinned[drain[w].slot] = Copy(drain[w].tensor, drain[w].version)
  BY <1>0, <1>1, <1>5, Zenon DEF DrainOK, BytesInv, BytesOK
<1>7. DrainInv'
  <2>1. \A d \in Drainer : /\ drain'[d].stage = "idle" <=> drain[d].stage = "idle"
                           /\ drain'[d].slot = drain[d].slot
    BY <1>1, <1>3, <1>4, Zenon
  <2>2. ASSUME NEW v \in DrainWorker PROVE DrainOK(v)'
    <3>1. CASE v = w  BY <1>1, <1>4, <1>5, <1>6, <3>1, Zenon DEF DrainOK, State
    <3>2. CASE v # w
      <4>1. drain'[v] = drain[v] /\ DrainOK(v)  BY <1>0, <1>3, <3>2, Zenon DEF Drainer, DrainInv
      <4> QED  BY <1>1, <4>1, Zenon DEF DrainOK, State
    <3> QED  BY <3>1, <3>2, Zenon
  <2>3. (\A v \in DrainWorker : v \in Drainer) /\ slot' = slot /\ drainQ' = drainQ
    BY <1>1, Zenon DEF Drainer
  <2>4. \A e \in Epoch : e \in Drainer  BY Zenon DEF Drainer
  <2>5. /\ \A e \in Epoch : drain'[e].stage = "idle"
        /\ \A u, v \in DrainWorker :
             drain'[u].stage # "idle" /\ drain'[v].stage # "idle" /\ drain'[u].slot = drain'[v].slot
             => u = v
        /\ \A i, k \in DOMAIN drainQ' : drainQ'[i] = drainQ'[k] => i = k
    BY <1>0, <2>1, <2>3, <2>4, Zenon DEF DrainInv
  <2>6. ASSUME NEW i \in DOMAIN drainQ'
        PROVE  /\ State(drainQ[i])' = "DRAIN_IN_FLIGHT"
               /\ \A v \in DrainWorker : ~DrainedBy(v, drainQ[i])'
    BY <1>0, <2>1, <2>3 DEF DrainInv, DrainedBy, State
  <2> QED  BY <2>2, <2>5, <2>6, Zenon DEF DrainInv
<1>8. ClientsKept /\ AgentsKept  BY <1>1, ClientsSame, Zenon
<1>9. SessionInv'  BY <1>0, <1>1, <1>8, SessionFrame, Zenon
<1>10. LeaseInv'  BY <1>0, <1>1, LeaseFrame, Zenon
<1>11. HeldInv'  BY <1>0, <1>1, HeldFrame, Zenon
<1>12. BytesInv'  BY <1>0, <1>1, BytesFrame, Zenon
<1>13. ClientInv'  BY <1>0, <1>1, ClientFrame, Zenon
<1>14. FlightInv'  BY <1>0, <1>1, <1>8, FlightFrame, Zenon
<1>15. ReadInv'  BY <1>0, <1>1, ReadFrame, Zenon
<1>16. LocInv'  BY <1>0, <1>1, LocFrame, Zenon
<1> QED
  BY <1>7, <1>9, <1>10, <1>11, <1>12, <1>13, <1>14, <1>15, <1>16, Zenon DEF ExactInv

(* The drain's commit: a location that named the slot names the new cold   *)
(* entry before the slot is free.                                          *)
LEMMA DrainDoneExact ==
  ASSUME TypeOK, LeaseBinding, ExactInv, NEW w \in DrainWorker, DrainDone(w)
  PROVE  ExactInv'
<1>0. /\ DrainInv /\ ReadInv /\ LocInv /\ Ranges
  BY RangesHold, Zenon DEF ExactInv
<1> PICK j, z : j = drain[w] /\ z = drain[w].slot  BY Zenon
<1>1. /\ j.stage = "commit" /\ drain' = [drain EXCEPT ![w] = NoDrain]
      /\ UNCHANGED <<session, pinned, drainQ, readQ, reader, client, flight,
                     nextLease, nextEpoch>>
  BY Zenon DEF DrainDone
<1>2. /\ z \in Slot /\ j.slot = z /\ State(z) = "DRAIN_IN_FLIGHT" /\ j.lease = slot[z].lease
      /\ j.tensor = slot[z].tensor /\ j.version = slot[z].version
      /\ j.data = Copy(j.tensor, j.version)
  BY <1>0, <1>1, Zenon DEF DrainInv, DrainOK, Ranges
<1>3. /\ coldStore' = Append(coldStore, j.data)
      /\ loc' = UpdateLocation(loc, j.tensor, j.version, "COLD", z, Len(coldStore) + 1)
      /\ slot' = [slot EXCEPT ![z] = FreeSlot]
      /\ leases' = Without(leases, {slot[z].lease})
  BY <1>2, Zenon DEF DrainDone, ToCold
<1>4. j.data \in Bytes /\ j.version \in Nat
  <2>1. j \in DrainJob  BY Zenon DEF TypeOK, Drainer
  <2> QED  BY <2>1 DEF DrainJob
<1> PICK c : c = Len(coldStore) + 1  BY Zenon
<1>5. /\ ColdKept /\ c \in DOMAIN coldStore' /\ c # 0
      /\ coldStore'[c] = Copy(j.tensor, j.version)
  BY <1>2, <1>3, <1>4, ColdStep, Zenon
<1>6. slot'[z].state = "FREE" /\ SlotsKept(z)
  <2>1. slot'[z] = FreeSlot /\ SlotsKept(z)  BY <1>2, <1>3, EntryStep, Zenon
  <2> QED  BY <2>1 DEF FreeSlot
<1>7. BytesOK(z)'  BY <1>6, Zenon DEF BytesOK, State
<1>8. slot[z].lease \in DOMAIN leases => leases[slot[z].lease].slot = z
  BY <1>2, Zenon DEF LeaseBinding
<1>9. /\ SessionInv' /\ LeaseInv' /\ HeldInv' /\ BytesInv' /\ ClientInv' /\ FlightInv'
      /\ PinnedKept(z)
  BY <1>1, <1>2, <1>3, <1>5, <1>6, <1>7, <1>8, LeaseDropped, Zenon
<1>10. DrainInv'
  <2>1. drain'[w].stage = "idle" /\ \A d \in Drainer : d # w => drain'[d] = drain[d]
    BY <1>1, Zenon DEF TypeOK, Drainer, NoDrain
  <2>2. ASSUME NEW e \in Epoch PROVE drain'[e].stage = "idle"
    BY <1>0, <2>1, Zenon DEF DrainInv, Drainer
  <2>3. ASSUME NEW v \in DrainWorker PROVE DrainOK(v)'
    <3>1. CASE drain'[v].stage = "idle"  BY <3>1, Zenon DEF DrainOK
    <3>2. CASE drain'[v].stage # "idle"
      <4>1. v # w /\ drain'[v] = drain[v]  BY <2>1, <3>2, Zenon DEF Drainer
      <4>2. drain[v].slot # z /\ drain[v].slot \in Slot /\ DrainOK(v)
        BY <1>0, <1>1, <3>2, <4>1, Zenon DEF DrainInv, Ranges
      <4>3. slot'[drain[v].slot] = slot[drain[v].slot]  BY <1>6, <4>2, Zenon DEF SlotsKept
      <4> QED  BY <4>1, <4>2, <4>3, Zenon DEF DrainOK, State
    <3> QED  BY <3>1, <3>2, Zenon
  <2>4. ASSUME NEW i \in DOMAIN drainQ PROVE slot'[drainQ[i]] = slot[drainQ[i]]
    <3>1. drainQ[i] # z /\ drainQ[i] \in Slot
      BY <1>0, <1>1, <1>2, Zenon DEF DrainInv, DrainedBy, Ranges
    <3> QED  BY <1>6, <3>1, Zenon DEF SlotsKept
  <2>5. \A v \in DrainWorker : drain'[v].stage # "idle" => drain'[v] = drain[v]
    BY <2>1, Zenon DEF Drainer
  <2>6. /\ \A u, v \in DrainWorker :
             drain'[u].stage # "idle" /\ drain'[v].stage # "idle" /\ drain'[u].slot = drain'[v].slot
             => u = v
        /\ \A i, k \in DOMAIN drainQ' : drainQ'[i] = drainQ'[k] => i = k
    BY <1>0, <1>1, <2>5 DEF DrainInv
  <2>7. ASSUME NEW i \in DOMAIN drainQ'
        PROVE  /\ State(drainQ[i])' = "DRAIN_IN_FLIGHT"
               /\ \A v \in DrainWorker : ~DrainedBy(v, drainQ[i])'
    BY <1>0, <1>1, <2>4, <2>5 DEF DrainInv, DrainedBy, State
  <2> QED  BY <2>2, <2>3, <2>6, <2>7, Zenon DEF DrainInv
<1>11. ReadInv'  BY <1>0, <1>1, <1>2, <1>6, <1>9, ReadOffSlot, Zenon
<1>12. LocInv'
  <2> SUFFICES ASSUME NEW t \in Tensor PROVE LocOK(t)'  BY Zenon DEF LocInv
  <2>1. CASE t = j.tensor /\ ~(j.version < loc[t].version)
    <3>1. loc'[t] = [kind |-> "COLD", version |-> j.version, slot |-> z, cold |-> c]
      BY <1>3, <2>1, Zenon DEF UpdateLocation, TypeOK
    <3>2. loc'[t].kind = "COLD" /\ loc'[t].version = j.version /\ loc'[t].cold = c
      BY <3>1
    <3> QED  BY <1>5, <2>1, <3>2, Zenon DEF LocOK, ColdHas
  <2>2. CASE ~(t = j.tensor /\ ~(j.version < loc[t].version))
    <3>1. loc'[t] = loc[t]  BY <1>3, <2>2, Zenon DEF UpdateLocation, TypeOK
    <3>2. loc[t].slot # z \/ loc[t].kind # "PINNED"
      BY <1>0, <1>2, <1>4, <2>2 DEF LocInv, LocOK
    <3> QED  BY <1>0, <1>5, <1>6, <3>1, <3>2, LocOffSlot, Zenon
  <2> QED  BY <2>1, <2>2, Zenon
<1> QED  BY <1>9, <1>10, <1>11, <1>12, Zenon DEF ExactInv
----------------------------------------------------------------------------
(* A readback worker takes the job at the head of the queue.               *)
LEMMA ReadStartExact ==
  ASSUME TypeOK, ExactInv, NEW w \in ReadbackWorker, ReadStart(w)
  PROVE  ExactInv'
<1>0. /\ SessionInv /\ LeaseInv /\ HeldInv /\ BytesInv /\ ClientInv /\ FlightInv
      /\ DrainInv /\ ReadInv /\ LocInv /\ Ranges
  BY RangesHold, Zenon DEF ExactInv
<1> PICK job, s : job = Head(readQ) /\ s = job.slot  BY Zenon
<1>1. /\ reader[w].stage = "idle" /\ readQ # <<>> /\ readQ' = Tail(readQ)
      /\ UNCHANGED <<session, slot, leases, loc, coldStore, pinned, drainQ, drain,
                     client, flight, nextLease, nextEpoch>>
  BY Zenon DEF ReadStart
<1>2. /\ 1 \in DOMAIN readQ /\ job = readQ[1]
      /\ \A i \in DOMAIN readQ' : /\ i + 1 \in DOMAIN readQ /\ i + 1 # 1
                                  /\ readQ'[i] = readQ[i + 1]
      /\ \A i, j \in DOMAIN readQ' : i + 1 = j + 1 => i = j
  <2>1. readQ \in Seq(ReadJob)  BY Zenon DEF TypeOK
  <2> QED  BY ONLY <1>1, <2>1, TailIndex, job = Head(readQ)
<1>3. /\ State(s) = "READBACK_IN_FLIGHT" /\ job.cold = slot[s].cold
      /\ \A v \in ReadbackWorker : ~ReadBy(v, s)
      /\ \A i \in DOMAIN readQ : readQ[i].slot = s => i = 1
  BY <1>0, <1>2 DEF ReadInv
<1>4. /\ reader'[w] = [stage |-> IF job.cold \in DOMAIN coldStore THEN "copy" ELSE "missing",
                       slot |-> s, cold |-> job.cold]
      /\ \A v \in ReadbackWorker : v # w => reader'[v] = reader[v]
  BY <1>3, Zenon DEF ReadStart, TypeOK
<1>5. /\ reader'[w].slot = s /\ reader'[w].cold = job.cold
      /\ reader'[w].stage \in {"copy", "missing"}
      /\ reader'[w].stage = "copy" => job.cold \in DOMAIN coldStore
  BY <1>4
<1>6. 0 \notin DOMAIN coldStore  BY DEF TypeOK
<1>7. ReadInv'
  <2>1. ASSUME NEW v \in ReadbackWorker PROVE ReadOK(v)'
    <3>1. CASE v = w  BY <1>1, <1>3, <1>5, <1>6, <3>1, Zenon DEF ReadOK, State
    <3>2. CASE v # w
      <4>1. reader'[v] = reader[v] /\ ReadOK(v)  BY <1>0, <1>4, <3>2, Zenon DEF ReadInv
      <4> QED  BY <1>1, <4>1, Zenon DEF ReadOK, State
    <3> QED  BY <3>1, <3>2, Zenon
  <2>2. ASSUME NEW u \in ReadbackWorker, NEW v \in ReadbackWorker, reader'[u].stage # "idle",
               reader'[v].stage # "idle", reader'[u].slot = reader'[v].slot
        PROVE  u = v
    <3>1. \A d \in ReadbackWorker : d # w /\ reader'[d].stage # "idle" =>
             reader'[d] = reader[d] /\ reader[d].slot # s
      BY <1>3, <1>4, Zenon DEF ReadBy
    <3> QED  BY <1>0, <1>5, <2>2, <3>1 DEF ReadInv
  <2>3. ASSUME NEW i \in DOMAIN readQ'
        PROVE  /\ State(readQ[i].slot)' = "READBACK_IN_FLIGHT"
               /\ readQ'[i].cold = slot'[readQ'[i].slot].cold
               /\ \A v \in ReadbackWorker : ~ReadBy(v, readQ[i].slot)'
    <3>1. /\ State(readQ[i + 1].slot) = "READBACK_IN_FLIGHT" /\ readQ[i + 1].slot # s
          /\ readQ[i + 1].cold = slot[readQ[i + 1].slot].cold
          /\ \A v \in ReadbackWorker : ~ReadBy(v, readQ[i + 1].slot)
      BY <1>0, <1>2, <1>3, Zenon DEF ReadInv
    <3>2. readQ'[i] = readQ[i + 1]  BY <1>2, Zenon
    <3>3. /\ State(readQ[i].slot)' = "READBACK_IN_FLIGHT"
          /\ readQ'[i].cold = slot'[readQ'[i].slot].cold
      BY <1>1, <3>1, <3>2, Zenon DEF State
    <3>4. ASSUME NEW v \in ReadbackWorker PROVE ~ReadBy(v, readQ[i].slot)'
      BY <1>4, <1>5, <3>1, <3>2, Zenon DEF ReadBy
    <3> QED  BY <3>3, <3>4, Zenon
  <2>4. ASSUME NEW i \in DOMAIN readQ', NEW j \in DOMAIN readQ', readQ'[i].slot = readQ'[j].slot
        PROVE  i = j
    BY <1>0, <1>2, <2>4 DEF ReadInv
  <2> QED  BY <2>1, <2>2, <2>3, <2>4, Zenon DEF ReadInv
<1>8. ClientsKept /\ AgentsKept  BY <1>1, ClientsSame, Zenon
<1>9. SessionInv'  BY <1>0, <1>1, <1>8, SessionFrame, Zenon
<1>10. LeaseInv'  BY <1>0, <1>1, LeaseFrame, Zenon
<1>11. HeldInv'  BY <1>0, <1>1, HeldFrame, Zenon
<1>12. BytesInv'  BY <1>0, <1>1, BytesFrame, Zenon
<1>13. ClientInv'  BY <1>0, <1>1, ClientFrame, Zenon
<1>14. FlightInv'  BY <1>0, <1>1, <1>8, FlightFrame, Zenon
<1>15. DrainInv'  BY <1>0, <1>1, DrainFrame, Zenon
<1>16. LocInv'  BY <1>0, <1>1, LocFrame, Zenon
<1> QED
  BY <1>7, <1>9, <1>10, <1>11, <1>12, <1>13, <1>14, <1>15, <1>16, Zenon DEF ExactInv

(* The copy into the slot finds the cold entry the slot was reserved for.  *)
LEMMA ReadCopyExact ==
  ASSUME TypeOK, ExactInv, NEW w \in ReadbackWorker, ReadCopy(w)
  PROVE  ExactInv'
<1>0. /\ SessionInv /\ LeaseInv /\ HeldInv /\ BytesInv /\ ClientInv /\ FlightInv
      /\ DrainInv /\ ReadInv /\ LocInv /\ Ranges
  BY RangesHold, Zenon DEF ExactInv
<1> PICK z : z = reader[w].slot  BY Zenon
<1>1. /\ reader[w].stage = "copy"
      /\ pinned' = [pinned EXCEPT ![z] = coldStore[reader[w].cold]]
      /\ reader' = [reader EXCEPT ![w].stage = "commit"]
      /\ UNCHANGED <<session, slot, leases, loc, coldStore, drainQ, readQ, drain,
                     client, flight, nextLease, nextEpoch>>
  BY Zenon DEF ReadCopy, tables
<1>2. ReadOK(w) /\ z \in Slot /\ BytesOK(z)
  BY <1>0, Zenon DEF ReadInv, Ranges, BytesInv
<1>3. /\ State(z) = "READBACK_IN_FLIGHT" /\ reader[w].cold = slot[z].cold /\ slot[z].cold # 0
  BY <1>1, <1>2, Zenon DEF ReadOK
<1>4. /\ pinned'[z] = Copy(slot[z].tensor, slot[z].version) /\ PinnedKept(z)
  BY <1>1, <1>2, <1>3, Zenon DEF BytesOK, ColdHas, TypeOK, PinnedKept
<1>5. /\ reader'[w].stage = "commit" /\ reader'[w].slot = z /\ reader'[w].cold = slot[z].cold
      /\ \A v \in ReadbackWorker : v # w => reader'[v] = reader[v]
  <2>1. reader[w] \in Readback  BY Zenon DEF TypeOK
  <2>2. /\ reader'[w] = [reader[w] EXCEPT !.stage = "commit"]
        /\ \A v \in ReadbackWorker : v # w => reader'[v] = reader[v]
    BY <1>1, Zenon DEF TypeOK
  <2> QED  BY <1>3, <2>1, <2>2, Zenon DEF Readback
<1>6. SlotsKept(z) /\ LeasesKept(z) /\ ColdKept /\ ClientsKept /\ AgentsKept
  BY <1>1, ClientsSame, Zenon DEF SlotsKept, LeasesKept, ColdKept
<1>7. ReadInv'
  <2>1. ASSUME NEW v \in ReadbackWorker PROVE ReadOK(v)'
    <3>1. CASE v = w  BY <1>1, <1>3, <1>4, <1>5, <3>1, Zenon DEF ReadOK, State
    <3>2. CASE v # w /\ reader[v].stage = "idle"
      <4>1. reader'[v] = reader[v]  BY <1>5, <3>2, Zenon
      <4> QED  BY <3>2, <4>1, Zenon DEF ReadOK
    <3>3. CASE v # w /\ reader[v].stage # "idle"
      <4>1. reader'[v] = reader[v] /\ reader[v].slot \in Slot /\ reader[v].slot # z /\ ReadOK(v)
        BY <1>0, <1>1, <1>5, <3>3, Zenon DEF ReadInv, Ranges
      <4>2. pinned'[reader[v].slot] = pinned[reader[v].slot]  BY <1>4, <4>1, Zenon DEF PinnedKept
      <4> QED  BY <1>1, <4>1, <4>2, Zenon DEF ReadOK, State
    <3> QED  BY <3>1, <3>2, <3>3, Zenon
  <2>2. \A v \in ReadbackWorker : /\ reader'[v].stage = "idle" <=> reader[v].stage = "idle"
                                  /\ reader'[v].slot = reader[v].slot
    BY <1>1, <1>5, Zenon
  <2>3. ASSUME NEW i \in DOMAIN readQ'
        PROVE  /\ State(readQ[i].slot)' = "READBACK_IN_FLIGHT"
               /\ readQ'[i].cold = slot'[readQ'[i].slot].cold
               /\ \A v \in ReadbackWorker : ~ReadBy(v, readQ[i].slot)'
    BY <1>0, <1>1, <2>2 DEF ReadInv, ReadBy, State
  <2>4. /\ \A u, v \in ReadbackWorker :
             reader'[u].stage # "idle" /\ reader'[v].stage # "idle"
             /\ reader'[u].slot = reader'[v].slot => u = v
        /\ \A i, j \in DOMAIN readQ' : readQ'[i].slot = readQ'[j].slot => i = j
    BY <1>0, <1>1, <2>2 DEF ReadInv
  <2> QED  BY <2>1, <2>3, <2>4, Zenon DEF ReadInv
<1>8. BytesInv'
  <2>1. BytesOK(z)'  BY <1>1, <1>2, <1>3, Zenon DEF BytesOK, ColdHas, State
  <2> QED  BY <1>0, <1>4, <1>6, <2>1, BytesOffSlot, Zenon
<1>9. SessionInv'  BY <1>0, <1>1, <1>6, SessionFrame, Zenon
<1>10. LeaseInv'  BY <1>0, <1>1, LeaseFrame, Zenon
<1>11. HeldInv'  BY <1>0, <1>1, HeldFrame, Zenon
<1>12. ClientInv'  BY <1>0, <1>1, ClientFrame, Zenon
<1>13. FlightInv'
  <2>1. flight' \subseteq flight  BY <1>1, Zenon
  <2> QED  BY <1>0, <1>3, <1>4, <1>6, <2>1, FlightsOffSlot, Zenon
<1>14. DrainInv'  BY <1>0, <1>1, DrainFrame, Zenon
<1>15. LocInv'  BY <1>0, <1>1, LocFrame, Zenon
<1> QED
  BY <1>7, <1>8, <1>9, <1>10, <1>11, <1>12, <1>13, <1>14, <1>15, Zenon DEF ExactInv

(* The end of a readback: its slot is valid, or in ERROR.                  *)
LEMMA ReadEnds ==
  ASSUME TypeOK, ExactInv, NEW w \in ReadbackWorker, NEW z \in Slot, z = reader[w].slot,
         reader[w].stage # "idle", NEW y \in {"PINNED_VALID", "ERROR"},
         y = "PINNED_VALID" => reader[w].stage = "commit",
         slot' = SetState(z, y), reader' = [reader EXCEPT ![w] = NoReadback],
         UNCHANGED <<session, leases, coldStore, pinned, drainQ, readQ, drain,
                     client, flight, nextLease, nextEpoch>>
  PROVE  /\ SessionInv' /\ LeaseInv' /\ HeldInv' /\ BytesInv' /\ ClientInv' /\ FlightInv'
         /\ DrainInv' /\ ReadInv'
<1>0. /\ SessionInv /\ LeaseInv /\ HeldInv /\ BytesInv /\ ClientInv /\ FlightInv
      /\ DrainInv /\ ReadInv /\ Ranges
  BY RangesHold, Zenon DEF ExactInv
<1>1. ReadOK(w) /\ State(z) = "READBACK_IN_FLIGHT"
  BY <1>0, Zenon DEF ReadInv, ReadOK
<1>2. /\ slot'[z].state = y /\ slot'[z].tensor = slot[z].tensor
      /\ slot'[z].version = slot[z].version /\ slot'[z].lease = slot[z].lease
      /\ slot'[z].cold = slot[z].cold /\ SlotsKept(z)
  BY StateStep, Zenon
<1>3. LeasesKept(z) /\ PinnedKept(z) /\ ColdKept /\ ClientsKept /\ AgentsKept
  BY ClientsSame, Zenon DEF LeasesKept, PinnedKept, ColdKept
<1>4. SessionInv'  BY <1>0, <1>3, SessionFrame, Zenon
<1>5. LeaseInv'
  <2>1. Moves(State(z), y)  BY <1>1, Zenon DEF Moves
  <2> QED  BY <1>0, <2>1, LeaseMoved, Zenon
<1>6. HeldInv'
  <2>1. HeldOK(z)'
    <3>1. slot[z].lease \in DOMAIN leases /\ leases[slot[z].lease].slot = z
      BY <1>0, <1>1, Zenon DEF HeldInv, HeldOK
    <3> QED  BY <1>2, <3>1, Zenon DEF HeldOK, State
  <2>2. /\ \A k \in Epoch : client'[k] = client[k]
        /\ \A g \in flight : g.slot # z => \E h \in flight' : h.lease = g.lease
    BY Zenon
  <2> QED  BY <1>0, <1>2, <1>3, <2>1, <2>2, HeldOffSlot, Zenon
<1>7. BytesInv'
  <2>1. BytesOK(z)'
    <3>1. BytesOK(z)  BY <1>0, Zenon DEF BytesInv
    <3> QED  BY <1>1, <1>2, <3>1, Zenon DEF BytesOK, ReadOK, ColdHas, State
  <2> QED  BY <1>0, <1>2, <1>3, <2>1, BytesOffSlot, Zenon
<1>8. ClientInv'
  <2> SUFFICES ASSUME NEW k \in Epoch PROVE ClientOK(k)'  BY Zenon DEF ClientInv
  <2>1. client'[k] = client[k] /\ State(z) \notin {"RESERVED_D2H", "PINNED_VALID"}
    BY <1>1, Zenon
  <2> QED  BY <1>0, <1>2, <1>3, <2>1, ClientOffSlot, Zenon
<1>9. FlightInv'
  <2>1. flight' \subseteq flight  BY Zenon
  <2> QED  BY <1>0, <1>1, <1>2, <1>3, <2>1, FlightsOffSlot, Zenon
<1>10. DrainInv'  BY <1>0, <1>1, <1>2, DrainOffSlot, Zenon
<1>11. ReadInv'
  <2>1. reader'[w].stage = "idle" /\ \A v \in ReadbackWorker : v # w => reader'[v] = reader[v]
    BY Zenon DEF TypeOK, NoReadback
  <2>2. \A v \in ReadbackWorker : reader'[v].stage # "idle" =>
          reader'[v] = reader[v] /\ reader[v].slot # z /\ reader[v].slot \in Slot
    BY <1>0, <2>1, Zenon DEF ReadInv, Ranges
  <2>3. ASSUME NEW v \in ReadbackWorker PROVE ReadOK(v)'
    <3>1. CASE reader'[v].stage = "idle"  BY <3>1, Zenon DEF ReadOK
    <3>2. CASE reader'[v].stage # "idle"
      <4>1. reader'[v] = reader[v] /\ slot'[reader[v].slot] = slot[reader[v].slot] /\ ReadOK(v)
        BY <1>0, <1>2, <2>2, <3>2, ZenonT(30) DEF SlotsKept, ReadInv
      <4> QED  BY <4>1, Zenon DEF ReadOK, State
    <3> QED  BY <3>1, <3>2, Zenon
  <2>4. ASSUME NEW i \in DOMAIN readQ'
        PROVE  /\ State(readQ[i].slot)' = "READBACK_IN_FLIGHT"
               /\ readQ'[i].cold = slot'[readQ'[i].slot].cold
               /\ \A v \in ReadbackWorker : ~ReadBy(v, readQ[i].slot)'
    <3>1. readQ[i].slot # z /\ readQ[i].slot \in Slot
      BY <1>0, Zenon DEF ReadInv, ReadBy, Ranges
    <3>2. slot'[readQ[i].slot] = slot[readQ[i].slot]  BY <1>2, <3>1, Zenon DEF SlotsKept
    <3> QED  BY <1>0, <2>2, <3>2 DEF ReadInv, ReadBy, State
  <2>5. /\ \A u, v \in ReadbackWorker :
             reader'[u].stage # "idle" /\ reader'[v].stage # "idle"
             /\ reader'[u].slot = reader'[v].slot => u = v
        /\ \A i, j \in DOMAIN readQ' : readQ'[i].slot = readQ'[j].slot => i = j
    BY <1>0, <2>2 DEF ReadInv
  <2> QED  BY <2>3, <2>4, <2>5, Zenon DEF ReadInv
<1> QED  BY <1>4, <1>5, <1>6, <1>7, <1>8, <1>9, <1>10, <1>11, Zenon

LEMMA ReadMissingExact ==
  ASSUME TypeOK, ExactInv, NEW w \in ReadbackWorker, ReadMissing(w)
  PROVE  ExactInv'
<1>0. ReadInv /\ LocInv /\ Ranges  BY RangesHold, Zenon DEF ExactInv
<1> PICK z : z = reader[w].slot  BY Zenon
<1>1. /\ reader[w].stage = "missing" /\ slot' = SetState(z, "ERROR")
      /\ reader' = [reader EXCEPT ![w] = NoReadback]
      /\ UNCHANGED <<session, leases, loc, coldStore, pinned, drainQ, readQ, drain,
                     client, flight, nextLease, nextEpoch>>
  BY Zenon DEF ReadMissing
<1>2. z \in Slot /\ State(z) = "READBACK_IN_FLIGHT"
  BY <1>0, <1>1, Zenon DEF Ranges, ReadInv, ReadOK
<1>3. /\ SessionInv' /\ LeaseInv' /\ HeldInv' /\ BytesInv' /\ ClientInv' /\ FlightInv'
      /\ DrainInv' /\ ReadInv'
  BY <1>1, <1>2, ReadEnds, Zenon
<1>4. LocInv'
  <2> SUFFICES ASSUME NEW t \in Tensor PROVE LocOK(t)'  BY Zenon DEF LocInv
  <2>1. SlotsKept(z)  BY <1>1, <1>2, StateStep, Zenon
  <2>2. ColdKept /\ loc'[t] = loc[t]  BY <1>1, ColdSame, Zenon
  <2> QED  BY <1>0, <1>2, <2>1, <2>2, LocOffSlot, Zenon
<1> QED  BY <1>3, <1>4, Zenon DEF ExactInv

(* The commit of a readback: the slot has the bytes, and the location, if  *)
(* it is of that version, keeps its cold entry.                            *)
LEMMA ReadDoneExact ==
  ASSUME TypeOK, ExactInv, NEW w \in ReadbackWorker, ReadDone(w)
  PROVE  ExactInv'
<1>0. ReadInv /\ BytesInv /\ LocInv /\ Ranges  BY RangesHold, Zenon DEF ExactInv
<1> PICK z : z = reader[w].slot  BY Zenon
<1>1. /\ reader[w].stage = "commit" /\ reader' = [reader EXCEPT ![w] = NoReadback]
      /\ UNCHANGED <<session, leases, coldStore, pinned, drainQ, readQ, drain,
                     client, flight, nextLease, nextEpoch>>
  BY Zenon DEF ReadDone
<1>2. /\ z \in Slot /\ State(z) = "READBACK_IN_FLIGHT"
      /\ reader[w].cold = slot[z].cold /\ slot[z].cold # 0
  BY <1>0, <1>1, Zenon DEF Ranges, ReadInv, ReadOK
<1>3. /\ slot' = SetState(z, "PINNED_VALID")
      /\ loc' = UpdateLocation(loc, slot[z].tensor, slot[z].version, "PINNED", z, slot[z].cold)
  BY <1>2, Zenon DEF ReadDone
<1>4. /\ SessionInv' /\ LeaseInv' /\ HeldInv' /\ BytesInv' /\ ClientInv' /\ FlightInv'
      /\ DrainInv' /\ ReadInv'
  BY <1>1, <1>2, <1>3, ReadEnds, Zenon
<1>5. /\ slot'[z].state = "PINNED_VALID" /\ slot'[z].tensor = slot[z].tensor
      /\ slot'[z].version = slot[z].version /\ SlotsKept(z)
  BY <1>2, <1>3, StateStep, Zenon
<1>6. LocInv'
  <2> SUFFICES ASSUME NEW t \in Tensor PROVE LocOK(t)'  BY Zenon DEF LocInv
  <2>1. CASE loc'[t] = loc[t]
    <3>1. ColdKept  BY <1>1, ColdSame, Zenon
    <3> QED  BY <1>0, <1>2, <1>5, <2>1, <3>1, LocOffSlot, Zenon
  <2>2. CASE loc'[t] # loc[t]
    <3>1. /\ t = slot[z].tensor
          /\ loc'[t] = [kind |-> "PINNED", version |-> slot[z].version,
                        slot |-> z, cold |-> slot[z].cold]
      BY <1>3, <2>2, ZenonT(30) DEF UpdateLocation, TypeOK
    <3>2. /\ loc'[t].kind = "PINNED" /\ loc'[t].version = slot[z].version
          /\ loc'[t].slot = z /\ loc'[t].cold = slot[z].cold
      BY <3>1
    <3>3. ColdHas(slot[z].cold, t, slot[z].version)
      BY <1>0, <1>2, <3>1, Zenon DEF BytesInv, BytesOK
    <3> QED  BY <1>1, <1>2, <1>5, <3>1, <3>2, <3>3, Zenon DEF LocOK, ColdHas, State
  <2> QED  BY <2>1, <2>2, Zenon
<1> QED  BY <1>4, <1>6, Zenon DEF ExactInv
----------------------------------------------------------------------------

(* The agent's launches, of an eviction's copy and of a restore()'s.       *)
LEMMA MarkD2HExact ==
  ASSUME TypeOK, ExactInv, NEW e \in Epoch, MarkD2HSubmitted(e)
  PROVE  ExactInv'
<1>1. /\ client[e].pc = "granted" /\ MarkSubmitted(e, "RESERVED_D2H", "D2H_IN_FLIGHT")
      /\ Launch(e, "D2H")
      /\ UNCHANGED <<session, leases, loc, coldStore, pinned, drainQ, readQ, drain,
                     reader, nextLease, nextEpoch>>
  BY Zenon DEF MarkD2HSubmitted
<1> QED  BY <1>1, SubmitExact, Zenon

LEMMA MarkH2DExact ==
  ASSUME TypeOK, ExactInv, NEW e \in Epoch, MarkH2DSubmitted(e)
  PROVE  ExactInv'
<1>1. /\ client[e].pc = "checked" /\ MarkSubmitted(e, "PINNED_VALID", "H2D_IN_FLIGHT")
      /\ Launch(e, "H2D")
      /\ UNCHANGED <<session, leases, loc, coldStore, pinned, drainQ, readQ, drain,
                     reader, nextLease, nextEpoch>>
  BY Zenon DEF MarkH2DSubmitted
<1> QED  BY <1>1, SubmitExact, Zenon

(* No session ends, no I/O fails, and no call forces a drain.              *)
LEMMA NeverTaken ==
  ASSUME Undisturbed, ExactInv
  PROVE  /\ \A r \in Rank : ~HeartbeatTimeout(r)
         /\ \A e \in Epoch : ~ForcedDrainDone(e) /\ ~ForcedDrainFailed(e)
         /\ \A w \in DrainWorker : ~DrainFailed(w)
         /\ \A w \in ReadbackWorker : ~ReadFailed(w)
<1>1. Faults = {}  BY Zenon DEF Undisturbed
<1>2. \A e \in Epoch : drain[e].stage # "commit"  BY Zenon DEF ExactInv, DrainInv
<1>3. \A e \in Epoch : ~ForcedDrainDone(e)  BY <1>2, Zenon DEF ForcedDrainDone
<1>4. /\ \A r \in Rank : ~HeartbeatTimeout(r)
      /\ \A e \in Epoch : ~ForcedDrainFailed(e)
      /\ \A w \in DrainWorker : ~DrainFailed(w)
      /\ \A w \in ReadbackWorker : ~ReadFailed(w)
  BY <1>1, Zenon DEF HeartbeatTimeout, ForcedDrainFailed, DrainFailed, ReadFailed
<1> QED  BY <1>3, <1>4, Zenon

(* Nothing moves.                                                          *)
LEMMA StutterExact ==
  ASSUME TypeOK, ExactInv, UNCHANGED vars
  PROVE  ExactInv'
<1>1. /\ SessionInv /\ LeaseInv /\ HeldInv /\ BytesInv /\ ClientInv /\ FlightInv
      /\ DrainInv /\ ReadInv /\ LocInv /\ Ranges
  BY RangesHold, Zenon DEF ExactInv
<1>2. UNCHANGED <<session, slot, leases, loc, coldStore, pinned, drainQ, readQ, drain, reader,
                  client, flight, nextLease, nextEpoch>>
  BY Zenon DEF vars, tables
<1>3. ClientsKept /\ AgentsKept  BY <1>2, Zenon DEF ClientsKept, AgentsKept, Calling
<1>4. SessionInv' /\ LeaseInv' /\ HeldInv'
  BY <1>1, <1>2, <1>3, SessionFrame, LeaseFrame, HeldFrame, Zenon
<1>5. BytesInv' /\ ClientInv' /\ FlightInv'
  BY <1>1, <1>2, <1>3, BytesFrame, ClientFrame, FlightFrame, Zenon
<1>6. DrainInv' /\ ReadInv' /\ LocInv'
  BY <1>1, <1>2, DrainFrame, ReadFrame, LocFrame, Zenon
<1> QED  BY <1>4, <1>5, <1>6, Zenon DEF ExactInv

(* Every step preserves the invariant.                                     *)
LEMMA ExactNext ==
  TypeOK /\ LeaseBinding /\ Undisturbed /\ ExactInv /\ [Next]_vars => ExactInv'
<1> SUFFICES ASSUME TypeOK, LeaseBinding, Undisturbed, ExactInv, [Next]_vars
             PROVE  ExactInv'
  BY Zenon
<1>1. CASE UNCHANGED vars  BY <1>1, StutterExact, Zenon
<1>2. CASE AgentNext
  <2>1. ASSUME NEW r \in Rank, Register(r) PROVE ExactInv'
    BY <2>1, RegisterExact, Zenon
  <2>2. ASSUME NEW e \in Epoch, NEW t \in Tensor, NEW v \in Version,
               \/ RequestOffload(e, t, v) \/ PrefetchPending(e, t, v)
               \/ PrefetchPinned(e, t, v) \/ PrefetchCold(e, t, v)
        PROVE  ExactInv'
    BY <2>2, RequestOffloadExact, PendingExact, PrefetchPinnedNever, PrefetchColdExact, Zenon
  <2>3. ASSUME NEW e \in Epoch,
               \/ PrefetchGivenUp(e) \/ CheckSlot(e) \/ MarkD2HSubmitted(e) \/ MarkH2DSubmitted(e)
        PROVE  ExactInv'
    BY <2>3, GivenUpExact, CheckSlotExact, MarkD2HExact, MarkH2DExact, Zenon
  <2>4. ASSUME NEW e \in Epoch, NEW l \in DOMAIN leases, ReleaseLease(e, l) PROVE ExactInv'
    BY <2>4, ReleaseLeaseExact, Zenon
  <2>5. ASSUME NEW f \in flight, Land(f) \/ D2HComplete(f) \/ H2DComplete(f) PROVE ExactInv'
    BY <2>5, LandExact, D2HCompleteExact, H2DCompleteExact, Zenon
  <2> QED  BY <1>2, <2>1, <2>2, <2>3, <2>4, <2>5, Zenon DEF AgentNext
<1>3. CASE DaemonNext
  <2>1. ASSUME NEW w \in Drainer, DrainCopy(w) PROVE ExactInv'
    BY <2>1, DrainCopyExact, Zenon
  <2>2. ASSUME NEW w \in DrainWorker, DrainStart(w) \/ DrainDone(w) PROVE ExactInv'
    BY <2>2, DrainStartExact, DrainDoneExact, Zenon
  <2>3. ASSUME NEW w \in ReadbackWorker,
               ReadStart(w) \/ ReadMissing(w) \/ ReadCopy(w) \/ ReadDone(w)
        PROVE  ExactInv'
    BY <2>3, ReadStartExact, ReadMissingExact, ReadCopyExact, ReadDoneExact, Zenon
  <2> QED  BY <1>3, <2>1, <2>2, <2>3, NeverTaken, Zenon DEF DaemonNext
<1> QED  BY <1>1, <1>2, <1>3, Zenon DEF Next

(* The invariant implies the properties.                                   *)
LEMMA ExactImplies ==
  TypeOK /\ ExactInv => RestoreExact /\ PinnedBacked /\ ColdBacked /\ OneWriter
<1> SUFFICES ASSUME TypeOK, ExactInv
             PROVE  RestoreExact /\ PinnedBacked /\ ColdBacked /\ OneWriter
  BY Zenon
<1>1. LeaseInv /\ BytesInv /\ FlightInv /\ LocInv /\ Ranges
  BY RangesHold, Zenon DEF ExactInv
<1>2. RestoreExact  BY <1>1, Zenon DEF RestoreExact, FlightInv, FlightOK
<1>3. PinnedBacked
  <2> SUFFICES ASSUME NEW t \in Tensor, loc[t].kind = "PINNED"
               PROVE  /\ State(loc[t].slot) \in {"PINNED_VALID", "DRAIN_IN_FLIGHT", "H2D_IN_FLIGHT"}
                      /\ slot[loc[t].slot].tensor = t
                      /\ slot[loc[t].slot].version = loc[t].version
                      /\ pinned[loc[t].slot] = Copy(t, loc[t].version)
    BY Zenon DEF PinnedBacked
  <2>1. LocOK(t) /\ loc[t].slot \in Slot /\ BytesOK(loc[t].slot)
    BY <1>1, Zenon DEF LocInv, Ranges, BytesInv
  <2> QED  BY <2>1, Zenon DEF LocOK, BytesOK
<1>4. ColdBacked  BY <1>1, Zenon DEF ColdBacked, LocInv, LocOK, ColdHas
<1>5. OneWriter
  <2>1. \A l \in DOMAIN leases : slot[leases[l].slot].lease = l  BY <1>1, Zenon DEF LeaseInv, LeaseOK
  <2> QED  BY <2>1, Zenon DEF OneWriter
<1> QED  BY <1>2, <1>3, <1>4, <1>5, Zenon
----------------------------------------------------------------------------
(* The types and the bindings of leases, proved in OffloadDaemonProofs.    *)
(* That module is instantiated at this place, and not extended at the top, *)
(* to keep its lemmas out of the proofs above.  The instance has its own   *)
(* copy of every definition: the copies say the same.                      *)
Typed == INSTANCE OffloadDaemonProofs

(* The two copies of what a state is say the same.                         *)
LEMMA SameState ==
  /\ Init => Typed!Init
  /\ Typed!TypeOK /\ Typed!LeaseBinding => TypeOK /\ LeaseBinding
<1> USE DEF Slot, Epoch, Version, LeaseId, Drainer, Bytes, Blank, SlotState, SlotEntry,
           FreeSlot, Lease, Location, DrainJob, NoDrain, ReadJob, Readback, NoReadback,
           Client, Absent, Flight, Typed!Slot, Typed!Epoch, Typed!Version, Typed!LeaseId,
           Typed!Drainer, Typed!Bytes, Typed!Blank, Typed!SlotState, Typed!SlotEntry,
           Typed!FreeSlot, Typed!Lease, Typed!Location, Typed!DrainJob, Typed!NoDrain,
           Typed!ReadJob, Typed!Readback, Typed!NoReadback, Typed!Client, Typed!Absent,
           Typed!Flight
<1>1. Init => Typed!Init  BY Zenon DEF Init, Typed!Init
<1>2. Typed!TypeOK => TypeOK  BY Zenon DEF TypeOK, Typed!TypeOK
<1>3. Typed!LeaseBinding => LeaseBinding  BY ZenonT(30) DEF LeaseBinding, Typed!LeaseBinding
<1> QED  BY <1>1, <1>2, <1>3, ZenonT(30)

(* And so do the two copies of the steps of the daemon's threads, and of   *)
(* the agents.                                                             *)
LEMMA SameDaemonNext == DaemonNext => Typed!DaemonNext
  BY ZenonT(30)
  DEF Slot, Epoch, tables, Drainer, Blank, FreeSlot, NoDrain, NoReadback, State, SetState,
      FreeSlots, UpdateLocation, Without, With, At, Idle, LeasesOf, Reclaimed, Recover,
      Gone, Stop, Abort, HeartbeatTimeout, ReserveOffload, ReserveReadback, DrainCopy,
      ToCold, ForcedDrainDone, ForcedDrainFailed, DrainStart, DrainDone, DrainFailed,
      ReadStart, ReadMissing, ReadCopy, ReadDone, ReadFailed, DaemonNext, Typed!Slot,
      Typed!Epoch, Typed!tables, Typed!Drainer, Typed!Blank, Typed!FreeSlot,
      Typed!NoDrain, Typed!NoReadback, Typed!State, Typed!SetState, Typed!FreeSlots,
      Typed!UpdateLocation, Typed!Without, Typed!With, Typed!At, Typed!Idle,
      Typed!LeasesOf, Typed!Reclaimed, Typed!Recover, Typed!Gone, Typed!Stop, Typed!Abort,
      Typed!HeartbeatTimeout, Typed!ReserveOffload, Typed!ReserveReadback,
      Typed!DrainCopy, Typed!ToCold, Typed!ForcedDrainDone, Typed!ForcedDrainFailed,
      Typed!DrainStart, Typed!DrainDone, Typed!DrainFailed, Typed!ReadStart,
      Typed!ReadMissing, Typed!ReadCopy, Typed!ReadDone, Typed!ReadFailed,
      Typed!DaemonNext

LEMMA SameAgentNext == AgentNext => Typed!AgentNext
<1>1. LeaseIdLeft => Typed!LeaseIdLeft
  BY Zenon DEF LeaseIdLeft, Epoch, Cardinality, Typed!LeaseIdLeft, Typed!Epoch, Typed!Cardinality
<1> USE DEF Slot, Epoch, tables, Blank, Copy, FreeSlot, Absent, State, SetState, FreeSlots,
           EpochValid, Owns, UpdateLocation, Without, With, At, Idle, CanCall, LeasesOf,
           Reclaimed, Recover, Gone, Stop, Abort, Register, Victims, StartForcedDrain,
           ReserveOffload, ReserveReadback, RequestOffload, Pending, Resident, Restoring,
           PrefetchPending, PrefetchPinned, PrefetchCold, PrefetchGivenUp, Launch,
           MarkSubmitted, MarkD2HSubmitted, CheckSlot, MarkH2DSubmitted, Land, Report,
           D2HComplete, H2DComplete, ReleaseLease, Typed!Slot, Typed!Epoch, Typed!tables,
           Typed!Blank, Typed!Copy, Typed!FreeSlot, Typed!Absent, Typed!State,
           Typed!SetState, Typed!FreeSlots, Typed!EpochValid, Typed!Owns,
           Typed!UpdateLocation, Typed!Without, Typed!With, Typed!At, Typed!Idle,
           Typed!CanCall, Typed!LeasesOf, Typed!Reclaimed, Typed!Recover, Typed!Gone,
           Typed!Stop, Typed!Abort, Typed!Register, Typed!Victims, Typed!StartForcedDrain,
           Typed!ReserveOffload, Typed!ReserveReadback, Typed!RequestOffload,
           Typed!Pending, Typed!Resident, Typed!Restoring, Typed!PrefetchPending,
           Typed!PrefetchPinned, Typed!PrefetchCold, Typed!PrefetchGivenUp, Typed!Launch,
           Typed!MarkSubmitted, Typed!MarkD2HSubmitted, Typed!CheckSlot,
           Typed!MarkH2DSubmitted, Typed!Land, Typed!Report, Typed!D2HComplete,
           Typed!H2DComplete, Typed!ReleaseLease
<1>2. ASSUME NEW e, NEW t, NEW v, RequestOffload(e, t, v) PROVE Typed!RequestOffload(e, t, v)
  BY <1>1, <1>2, ZenonT(30)
<1>3. ASSUME NEW e, NEW t, NEW v, PrefetchPending(e, t, v) PROVE Typed!PrefetchPending(e, t, v)
  BY <1>3, ZenonT(30)
<1>4. ASSUME NEW e, NEW t, NEW v, PrefetchPinned(e, t, v) PROVE Typed!PrefetchPinned(e, t, v)
  BY <1>1, <1>4, ZenonT(30)
<1>5. ASSUME NEW e, NEW t, NEW v, PrefetchCold(e, t, v) PROVE Typed!PrefetchCold(e, t, v)
  BY <1>1, <1>5, ZenonT(30)
<1>6. ASSUME NEW r, Register(r) PROVE Typed!Register(r)
  BY <1>6, ZenonT(30)
<1>7. ASSUME NEW e, \/ PrefetchGivenUp(e) \/ CheckSlot(e)
                   \/ MarkD2HSubmitted(e) \/ MarkH2DSubmitted(e)
                   \/ \E l \in DOMAIN leases : ReleaseLease(e, l)
      PROVE  \/ Typed!PrefetchGivenUp(e) \/ Typed!CheckSlot(e)
             \/ Typed!MarkD2HSubmitted(e) \/ Typed!MarkH2DSubmitted(e)
             \/ \E l \in DOMAIN leases : Typed!ReleaseLease(e, l)
  BY <1>7, ZenonT(30)
<1>8. ASSUME NEW f, Land(f) \/ D2HComplete(f) \/ H2DComplete(f)
      PROVE  Typed!Land(f) \/ Typed!D2HComplete(f) \/ Typed!H2DComplete(f)
  BY <1>8, ZenonT(30)
<1> HIDE DEF Register, RequestOffload, PrefetchPending, PrefetchPinned, PrefetchCold,
            PrefetchGivenUp, CheckSlot, MarkD2HSubmitted, MarkH2DSubmitted, ReleaseLease,
            Land, D2HComplete, H2DComplete, Typed!Register, Typed!RequestOffload,
            Typed!PrefetchPending, Typed!PrefetchPinned, Typed!PrefetchCold,
            Typed!PrefetchGivenUp, Typed!CheckSlot, Typed!MarkD2HSubmitted,
            Typed!MarkH2DSubmitted, Typed!ReleaseLease, Typed!Land, Typed!D2HComplete,
            Typed!H2DComplete
<1> QED
  BY <1>2, <1>3, <1>4, <1>5, <1>6, <1>7, <1>8, ZenonT(30)
  DEF AgentNext, Typed!AgentNext, Epoch, Version, Typed!Epoch, Typed!Version

LEMMA SameNext == [Next]_vars => [Typed!Next]_(Typed!vars)
  BY SameAgentNext, SameDaemonNext, ZenonT(30)
  DEF Next, Typed!Next, vars, Typed!vars, tables, Typed!tables

(* What OffloadDaemonProofs shows.                                         *)
LEMMA SpecTyped == Spec => [](TypeOK /\ LeaseBinding)
<1>1. Spec => Typed!Spec  BY SameState, SameNext, PTL DEF Spec, Typed!Spec
<1>2. (Typed!Spec => []Typed!TypeOK) /\ (Typed!Spec => []Typed!LeaseBinding)
  BY ConstantsAssumption, Typed!TypeCorrect, Typed!LeasesBound, ZenonT(30)
  DEF FaultKinds, Typed!FaultKinds, Epoch, Typed!Epoch
<1> QED  BY <1>1, <1>2, SameState, PTL

LEMMA SpecExact == Undisturbed /\ Spec => [](TypeOK /\ ExactInv)
<1>1. Undisturbed => Undisturbed'  BY Zenon DEF Undisturbed
<1> QED  BY <1>1, InitExact, ExactNext, SpecTyped, PTL DEF Spec

(* When nothing disturbs the agents, a restore() copies the bytes of the   *)
(* tensor and version it asked for, for every number of ranks, tensors,    *)
(* slots and workers.                                                      *)
THEOREM RestoresExact == Undisturbed /\ Spec => []RestoreExact
  BY ExactImplies, SpecExact, PTL

(* A location that says PINNED then names a slot that has its bytes.       *)
THEOREM PinnedLocationsBacked == Undisturbed /\ Spec => []PinnedBacked
  BY ExactImplies, SpecExact, PTL

(* One that says COLD names a cold entry that has them.                    *)
THEOREM ColdLocationsBacked == Undisturbed /\ Spec => []ColdBacked
  BY ExactImplies, SpecExact, PTL

(* And two evictions never have leases on one slot.                        *)
THEOREM SlotsHaveOneWriter == Undisturbed /\ Spec => []OneWriter
  BY ExactImplies, SpecExact, PTL
============================================================================
