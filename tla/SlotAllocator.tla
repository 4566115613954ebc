--------------------------- MODULE SlotAllocator ---------------------------
(***************************************************************************)
(* The pinned slots of offloadd (src/src/daemon/daemon.cpp): the plan that *)
(* carves the NUMA arenas into windows of slots, and the allocation and    *)
(* the release of runs of consecutive slots.  Everything happens under     *)
(* mu_.  The configuration is chosen in Init among those that load_config  *)
(* accepts and does not change.                                            *)
(*                                                                         *)
(* Abstracted: a slot is FREE or held (module OffloadDaemon has its life   *)
(* while it is held), and the scan of one window is its result, the lowest *)
(* FREE run (module WindowScan has its loop).                              *)
(***************************************************************************)
EXTENDS Integers, Sequences, FiniteSets, FiniteSetsExt

CONSTANTS
  Gran,       \* cfg.allocation_granularity_bytes
  Configs,    \* the configurations: sequences of arenas
  Gpu,        \* GPU ids
  Overflow,   \* kOverflowGpu
  Sizes,      \* the byte sizes that are requested
  MaxRuns     \* bound on the runs that are held at a time

ASSUME AllocatorAssumption ==
  /\ Gran \in Nat \ {0} /\ Overflow \notin Gpu /\ Sizes \subseteq Nat
  /\ \A c \in Configs : \A a \in DOMAIN c :
       c[a].node \in Nat /\ c[a].size \in Nat /\ c[a].overflow \in Nat

VARIABLES
  arenas,     \* cfg_.per_numa
  windows,    \* windows_, each with its first slot id and its arena offset
  held,       \* the slots that are not FREE
  runs        \* the runs that leases name

vars == <<arenas, windows, held, runs>>

NoSlot == -1
----------------------------------------------------------------------------
(* The checks of load_config.                                              *)
Accepted(c) ==
  /\ c # <<>>
  /\ \A a \in DOMAIN c :
       LET total == MapThenSumSet(LAMBDA w : c[a].windows[w].bytes, DOMAIN c[a].windows)
       IN  c[a].size > 0 /\ total + c[a].overflow <= c[a].size

NumSlots == MapThenSumSet(LAMBDA a : arenas[a].size \div Gran, DOMAIN arenas)

(* Mutant: a window that does not end on a slot boundary gets one more.    *)
CarveRoundedUp(ws, a, gpu, bytes) ==
  LET n == (bytes + Gran - 1) \div Gran
      first == MapThenSumSet(LAMBDA w : ws[w].count, DOMAIN ws)
      cursor == MapThenSumSet(LAMBDA w : IF ws[w].arena = a THEN ws[w].count * Gran ELSE 0,
                              DOMAIN ws)
  IN  IF n = 0 THEN ws
      ELSE Append(ws, [arena |-> a, gpu |-> gpu, first |-> first, count |-> n,
                       offset |-> cursor])

(* carve_window, after the windows ws: first is global_slot, cursor the    *)
(* byte offset in arena a.                                                 *)
Carve(ws, a, gpu, bytes) ==
  LET n == bytes \div Gran
      first == MapThenSumSet(LAMBDA w : ws[w].count, DOMAIN ws)
      cursor == MapThenSumSet(LAMBDA w : IF ws[w].arena = a THEN ws[w].count * Gran ELSE 0,
                              DOMAIN ws)
  IN  IF n = 0 THEN ws
      ELSE Append(ws, [arena |-> a, gpu |-> gpu, first |-> first, count |-> n,
                       offset |-> cursor])

(* build_slot_plan: the GPU windows of each arena in turn, and then its    *)
(* overflow window.                                                        *)
CarveArena(c, ws, a) ==
  LET gw == c[a].windows
      carve[w \in 0 .. Len(gw)] ==
        IF w = 0 THEN ws ELSE Carve(carve[w - 1], a, gw[w].gpu, gw[w].bytes)
  IN  Carve(carve[Len(gw)], a, Overflow, c[a].overflow)

Plan(c) ==
  LET upto[a \in 0 .. Len(c)] == IF a = 0 THEN <<>> ELSE CarveArena(c, upto[a - 1], a)
  IN  upto[Len(c)]

Node(w) == arenas[windows[w].arena].node
Ids(w) == windows[w].first .. windows[w].first + windows[w].count - 1

(* arena_id and arena_offset of a slot.                                    *)
WindowOf(s) == CHOOSE w \in DOMAIN windows : s \in Ids(w)
ArenaId(s) == windows[WindowOf(s)].arena
ArenaOffset(s) == windows[WindowOf(s)].offset + (s - windows[WindowOf(s)].first) * Gran
----------------------------------------------------------------------------
Run(b, n) == b .. b + n - 1

SlotsForBytes(bytes) == Max({1, (bytes + Gran - 1) \div Gran})

(* Mutants: the last slot of a run is not looked at; a run may leave its   *)
(* window.                                                                 *)
TryWindowButLast(w, n) ==
  LET fits == {b \in Ids(w) : Run(b, n) \subseteq Ids(w) /\ Run(b, n - 1) \cap held = {}}
  IN  IF fits = {} THEN NoSlot ELSE Min(fits)
TryAcrossWindows(w, n) ==
  LET all == UNION {Ids(v) : v \in DOMAIN windows}
      fits == {b \in Ids(w) : Run(b, n) \subseteq all /\ Run(b, n) \cap held = {}}
  IN  IF fits = {} THEN NoSlot ELSE Min(fits)

(* try_alloc_in_window.                                                    *)
TryWindow(w, n) ==
  LET fits == {b \in Ids(w) : Run(b, n) \subseteq Ids(w) /\ Run(b, n) \cap held = {}}
  IN  IF fits = {} THEN NoSlot ELSE Min(fits)

(* window_index_: the window carved last for a node and a GPU.             *)
Indexed(node, gpu) == {w \in DOMAIN windows : Node(w) = node /\ windows[w].gpu = gpu}
Lookup(node, gpu) == IF Indexed(node, gpu) = {} THEN {} ELSE {Max(Indexed(node, gpu))}

(* Mutants: the overflow window is forgotten; remote windows are tried     *)
(* before the peers.                                                       *)
NoOverflowTiers(gpu, node, remote) ==
  << Lookup(node, gpu), {},
     {w \in DOMAIN windows : Node(w) = node /\ windows[w].gpu \notin {gpu, Overflow}},
     {w \in DOMAIN windows : Node(w) # node /\ remote} >>

(* The windows allocate_slots tries, tier by tier: the GPU's own, the      *)
(* overflow of its node, the other GPUs of its node and, if the request    *)
(* allows it, those of other nodes.  A tier is tried in the order of       *)
(* windows_.                                                               *)
Tiers(gpu, node, remote) ==
  << Lookup(node, gpu), Lookup(node, Overflow),
     {w \in DOMAIN windows : Node(w) = node /\ windows[w].gpu \notin {gpu, Overflow}},
     {w \in DOMAIN windows : Node(w) # node /\ remote} >>

AllocateSlots(gpu, node, n, remote) ==
  LET tiers == Tiers(gpu, node, remote)
      Room(i) == {w \in tiers[i] : TryWindow(w, n) # NoSlot}
      some == {i \in DOMAIN tiers : Room(i) # {}}
  IN  IF some = {} THEN NoSlot ELSE TryWindow(Min(Room(Min(some))), n)
----------------------------------------------------------------------------
Init ==
  /\ arenas \in {c \in Configs : Accepted(c)}
  /\ windows = Plan(arenas)
  /\ held = {} /\ runs = {}

(* The allocation and the reservation of a run for a request.              *)
Allocate(gpu, node, bytes, remote) ==
  LET n == SlotsForBytes(bytes)
      b == AllocateSlots(gpu, node, n, remote)
  IN  /\ Cardinality(runs) < MaxRuns
      /\ b # NoSlot
      /\ held' = held \cup Run(b, n)
      /\ runs' = runs \cup {[base |-> b, count |-> n, bytes |-> bytes]}
      /\ UNCHANGED <<arenas, windows>>

FreeRun(r) ==
  /\ held' = held \ Run(r.base, r.count)
  /\ runs' = runs \ {r}
  /\ UNCHANGED <<arenas, windows>>

Nodes == {arenas[a].node : a \in DOMAIN arenas}

Next ==
  \/ \E gpu \in Gpu, node \in Nodes, bytes \in Sizes, remote \in BOOLEAN :
       Allocate(gpu, node, bytes, remote)
  \/ \E r \in runs : FreeRun(r)

Spec == Init /\ [][Next]_vars
----------------------------------------------------------------------------
(* Every slot of the plan exists: however the sizes round, carve_window    *)
(* hands out fewer ids than the slot table has entries, and no two windows *)
(* share one.                                                              *)
PlanFits ==
  /\ \A w \in DOMAIN windows : Ids(w) \subseteq 0 .. NumSlots - 1
  /\ \A v, w \in DOMAIN windows : v # w => Ids(v) \cap Ids(w) = {}

(* No two leases get overlapping runs, and a slot that some lease holds is *)
(* never handed out (TEST_PLAN.md, "Slot overlap").                        *)
RunsDisjoint ==
  /\ \A q, r \in runs : q # r => Run(q.base, q.count) \cap Run(r.base, r.count) = {}
  /\ held = UNION {Run(r.base, r.count) : r \in runs}

(* A run can be copied in one piece: its slots lie one after the other in  *)
(* one arena, with room for the bytes of the tensor before the arena ends, *)
(* although ids run on from one window, and one arena, to the next.        *)
RunContiguous ==
  \A r \in runs :
    /\ \A k \in 0 .. r.count - 1 :
         /\ ArenaId(r.base + k) = ArenaId(r.base)
         /\ ArenaOffset(r.base + k) = ArenaOffset(r.base) + k * Gran
    /\ r.bytes <= r.count * Gran
    /\ ArenaOffset(r.base) + r.count * Gran <= arenas[ArenaId(r.base)].size

(* A request is turned away only if no window it may use has room.         *)
RefusedOnlyWhenFull ==
  \A gpu \in Gpu, node \in Nodes, bytes \in Sizes, remote \in BOOLEAN :
    LET n == SlotsForBytes(bytes)
    IN  AllocateSlots(gpu, node, n, remote) = NoSlot =>
          \A w \in DOMAIN windows : (remote \/ Node(w) = node) => TryWindow(w, n) = NoSlot

============================================================================
