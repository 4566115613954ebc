------------------------- MODULE SessionRingsProofs -------------------------
(***************************************************************************)
(* Two proofs for every number of ranks, processes, rings, cells, leases   *)
(* and registrations, and whatever faults occur.                           *)
(*                                                                         *)
(* A live session has its ring to itself.  RingsHeld is inductive once the *)
(* shapes of the session table, the ring table and the ring headers are    *)
(* known: a registration lets go exactly the rings of the sessions it ends *)
(* and takes a ring that no one has; a timeout moves a ring from the first *)
(* case of RingsHeld to the second; every other step leaves the tables and *)
(* the headers alone.                                                      *)
(*                                                                         *)
(* No completion is lost.  CompletionsKept is not inductive: it rests on   *)
(* whose leases an agent carries and on which indices it may write, and    *)
(* KeptInv adds both.                                                      *)
(***************************************************************************)
EXTENDS SessionRings, WellFoundedInduction, TLAPS

(* The session table, the ring table and the headers.                      *)
Shape ==
  /\ sessions \in [Rank -> [epoch : Nat, pid : Pid \cup {0}, alive : BOOLEAN,
                            ring : Ring \cup {NoRing}]]
  /\ ringOwner \in [Ring -> Rank \cup {NoRank}]
  /\ header \in [Ring -> [owner : Rank \cup {NoRank}, epoch : Nat]]

HeldInv == Shape /\ RingsHeld

(* Initially no session is alive and no ring is taken.                     *)
LEMMA InitHeld == Init => HeldInv
<1> SUFFICES ASSUME Init PROVE HeldInv
  BY Zenon
<1>1. Shape
  BY Zenon DEF Init, Shape, NoSession, Unassigned, NoRing
<1>2. RingsHeld
  BY Zenon DEF Init, RingsHeld, NoSession
<1>. QED
  BY <1>1, <1>2, Zenon DEF HeldInv

(* handle_register keeps the rings in order.                               *)
LEMMA RegisterHeld ==
  ASSUME HeldInv, NEW r \in Rank, NEW p \in Pid, Register(r, p)
  PROVE  HeldInv'
<1> DEFINE old == Replaced(r, p)
           freed == {sessions[q].ring : q \in old}
           owner == [i \in Ring |-> IF i \in freed THEN NoRank ELSE ringOwner[i]]
<1>1. PICK mine \in Ring \cup {NoRing} :
        /\ FirstFree(owner, mine)
        /\ ringOwner' = [i \in Ring |-> IF i = mine THEN r ELSE owner[i]]
        /\ header' = [i \in Ring |->
             IF i = mine THEN [owner |-> r, epoch |-> nextEpoch]
             ELSE IF i \in freed THEN Unassigned ELSE header[i]]
        /\ sessions' = [q \in Rank |->
             IF q = r THEN [epoch |-> nextEpoch, pid |-> p, alive |-> TRUE, ring |-> mine]
             ELSE IF q \in old THEN [sessions[q] EXCEPT !.alive = FALSE] ELSE sessions[q]]
  BY Zenon DEF Register
<1>2. nextEpoch \in Epoch /\ timedOut' = timedOut
  BY Zenon DEF Register
<1>3. nextEpoch \in Nat
  BY <1>2, SessionAssumption DEF Epoch
<1>4. Shape'
  <2>1. sessions' \in [Rank -> [epoch : Nat, pid : Pid \cup {0}, alive : BOOLEAN,
                                ring : Ring \cup {NoRing}]]
    <3>1. \A q \in Rank : sessions'[q] \in [epoch : Nat, pid : Pid \cup {0}, alive : BOOLEAN,
                                             ring : Ring \cup {NoRing}]
      BY <1>1, <1>3, ZenonT(30) DEF HeldInv, Shape
    <3>. QED
      BY <1>1, <3>1, Zenon
  <2>2. ringOwner' \in [Ring -> Rank \cup {NoRank}]
    BY <1>1, Zenon DEF HeldInv, Shape
  <2>3. header' \in [Ring -> [owner : Rank \cup {NoRank}, epoch : Nat]]
    BY <1>1, <1>3, Zenon DEF HeldInv, Shape, Unassigned
  <2>. QED
    BY <2>1, <2>2, <2>3, Zenon DEF Shape
<1>5. ASSUME NEW q \in Rank, sessions'[q].alive, sessions'[q].ring # NoRing
      PROVE  /\ ringOwner'[sessions'[q].ring] = q
             /\ header'[sessions'[q].ring] = [owner |-> q, epoch |-> sessions'[q].epoch]
  <2>1. CASE q = r
    BY <1>1, <1>5, <2>1, Zenon DEF NoRing, Ring
  <2>2. CASE q # r
    <3>1. q \notin old /\ sessions'[q] = sessions[q]
      BY <1>1, <1>5, <2>2, Zenon DEF HeldInv, Shape
    <3>2. sessions[q].ring \in Ring /\ sessions[q].alive
      BY <1>5, <3>1, Zenon DEF HeldInv, Shape
    <3>3. /\ ringOwner[sessions[q].ring] = q
          /\ header[sessions[q].ring] = [owner |-> q, epoch |-> sessions[q].epoch]
      BY <1>5, <3>1, <3>2, Zenon DEF HeldInv, RingsHeld
    <3>4. sessions[q].ring \notin freed
      <4> SUFFICES ASSUME NEW o \in old, sessions[o].ring = sessions[q].ring PROVE FALSE
        BY Zenon
      <4>1. o \in Rank /\ sessions[o].alive
        BY Zenon DEF Replaced
      <4>2. ringOwner[sessions[o].ring] = o
        BY <3>2, <4>1, <1>5, <3>1, Zenon DEF HeldInv, RingsHeld
      <4>. QED
        BY <3>1, <3>3, <4>2, Zenon
    <3>5. sessions[q].ring # mine
      BY <1>1, <3>2, <3>3, <3>4, SessionAssumption DEF FirstFree, NoRing, Ring
    <3>. QED
      BY <1>1, <3>1, <3>2, <3>3, <3>4, <3>5, Zenon
  <2>. QED
    BY <2>1, <2>2, Zenon
<1>6. ASSUME NEW i \in Ring, ringOwner'[i] # NoRank
      PROVE  \/ header'[i].epoch \in timedOut'
             \/ sessions'[ringOwner'[i]].alive /\ sessions'[ringOwner'[i]].ring = i
  <2>1. CASE i = mine
    BY <1>1, <2>1, Zenon
  <2>2. CASE i # mine
    <3>1. i \notin freed /\ ringOwner'[i] = ringOwner[i] /\ header'[i] = header[i]
      BY <1>1, <1>6, <2>2, Zenon
    <3>2. CASE header[i].epoch \in timedOut
      BY <1>2, <3>1, <3>2, Zenon
    <3>3. CASE sessions[ringOwner[i]].alive /\ sessions[ringOwner[i]].ring = i
      <4>1. ringOwner[i] \in Rank
        BY <1>6, <3>1, Zenon DEF HeldInv, Shape
      <4>2. ringOwner[i] \notin old
        BY <3>1, <3>3, Zenon
      <4>3. ringOwner[i] # r
        BY <3>3, <4>1, <4>2, Zenon DEF Replaced
      <4>. QED
        BY <1>1, <3>1, <3>3, <4>1, <4>2, <4>3, Zenon
    <3>. QED
      BY <1>6, <3>1, <3>2, <3>3, Zenon DEF HeldInv, RingsHeld
  <2>. QED
    BY <2>1, <2>2, Zenon
<1>. QED
  BY <1>4, <1>5, <1>6, Zenon DEF HeldInv, RingsHeld

(* A heartbeat timeout leaves the ring taken, in the name of an epoch that *)
(* has timed out.                                                          *)
LEMMA TimeoutHeld ==
  ASSUME HeldInv, NEW r \in Rank, HeartbeatTimeout(r)
  PROVE  HeldInv'
<1>1. /\ sessions' = [sessions EXCEPT ![r].alive = FALSE]
      /\ timedOut' = timedOut \cup {sessions[r].epoch}
      /\ sessions[r].alive
      /\ ringOwner' = ringOwner /\ header' = header
  BY Zenon DEF HeartbeatTimeout
<1>2. Shape'
  BY <1>1, ZenonT(30) DEF HeldInv, Shape
<1>3. /\ ~sessions'[r].alive
      /\ \A q \in Rank \ {r} : sessions'[q] = sessions[q]
  BY <1>1, Zenon DEF HeldInv, Shape
<1>4. ASSUME NEW q \in Rank, sessions'[q].alive, sessions'[q].ring # NoRing
      PROVE  /\ ringOwner'[sessions'[q].ring] = q
             /\ header'[sessions'[q].ring] = [owner |-> q, epoch |-> sessions'[q].epoch]
  BY <1>1, <1>3, <1>4 DEF HeldInv, RingsHeld
<1>5. ASSUME NEW i \in Ring, ringOwner'[i] # NoRank
      PROVE  \/ header'[i].epoch \in timedOut'
             \/ sessions'[ringOwner'[i]].alive /\ sessions'[ringOwner'[i]].ring = i
  <2>1. ringOwner[i] \in Rank
    BY <1>1, <1>5, Zenon DEF HeldInv, Shape
  <2>2. CASE header[i].epoch \in timedOut
    BY <1>1, <2>2, Zenon
  <2>3. CASE sessions[ringOwner[i]].alive /\ sessions[ringOwner[i]].ring = i
    <3>1. CASE ringOwner[i] = r
      <4>1. i # NoRing
        BY DEF Ring, NoRing
      <4>2. header[i] = [owner |-> r, epoch |-> sessions[r].epoch]
        BY <2>3, <3>1, <4>1 DEF HeldInv, RingsHeld
      <4>. QED
        BY <1>1, <4>2
    <3>2. CASE ringOwner[i] # r
      BY <1>1, <1>3, <2>1, <2>3, <3>2
    <3>. QED
      BY <3>1, <3>2, Zenon
  <2>. QED
    BY <1>1, <1>5, <2>2, <2>3, Zenon DEF HeldInv, RingsHeld
<1>. QED
  BY <1>2, <1>4, <1>5, Zenon DEF HeldInv, RingsHeld

(* Every step keeps the invariant; all but two leave its variables alone.  *)
LEMMA NextHeld == HeldInv /\ [Next]_vars => HeldInv'
<1> SUFFICES ASSUME HeldInv, [Next]_vars PROVE HeldInv'
  BY Zenon
<1>1. ASSUME UNCHANGED daemon PROVE HeldInv'
  BY <1>1, Zenon DEF HeldInv, Shape, RingsHeld, daemon
<1>2. CASE \E r \in Rank, p \in Pid : Register(r, p)
  BY <1>2, RegisterHeld, Zenon
<1>3. CASE \E r \in Rank : HeartbeatTimeout(r)
  BY <1>3, TimeoutHeld, Zenon
<1>4. CASE \E i \in Ring : PollPop(i)
  BY <1>1, <1>4, Zenon DEF PollPop
<1>5. ASSUME NEW e \in Epoch, Progress(e) PROVE HeldInv'
  BY <1>1, <1>5, Zenon DEF Progress, Attach, Gather, PushLoad, PushWrite, PushPublish, FlushEnd, Close
<1>6. CASE \E e \in Epoch : AttachFails(e) \/ Evict(e) \/ Stop(e) \/ \E l \in agents[e].inflight : EventError(e, l)
  BY <1>1, <1>6, Zenon DEF AttachFails, Evict, Stop, EventError
<1>7. CASE \E p \in Pid : Crash(p)
  BY <1>1, <1>7, Zenon DEF Crash
<1>8. CASE UNCHANGED vars
  BY <1>1, <1>8, Zenon DEF vars, daemon
<1>. QED
  BY <1>2, <1>3, <1>4, <1>5, <1>6, <1>7, <1>8, Zenon DEF Next

(* Whatever agents, processes and RPCs do, a live session has its ring to  *)
(* itself, and a ring stays taken only for a live session or one that the  *)
(* heartbeat monitor has ended (handle_register, heartbeat_monitor_loop).  *)
THEOREM SessionsHoldRings == Spec => []RingsHeld
<1>1. HeldInv => RingsHeld
  BY Zenon DEF HeldInv
<1>. QED
  BY InitHeld, NextHeld, <1>1, PTL DEF Spec
----------------------------------------------------------------------------
(* No completion is lost.  What is needed beyond HeldInv: the shapes of the *)
(* other tables ...                                                        *)
AgentRecord ==
  [pc : {"none", "attach", "poll", "push", "write", "publish", "rpc", "close", "ended", "crashed"},
   rank : Rank \cup {NoRank}, pid : Pid \cup {0}, ring : Ring \cup {NoRing},
   inflight : SUBSET Lease, batch : SUBSET Lease, over : SUBSET Lease, seq : Nat]
LeaseRecord == [rank : Rank \cup {NoRank}, epoch : Epoch, st : {"d2h", "applied", "gone"}]
RingRecord == [head : Nat, tail : Nat, cells : [0 .. Capacity - 1 -> Lease \cup {NoLease}]]

Tables ==
  /\ leases \in Seq(LeaseRecord) /\ Len(leases) <= MaxLease
  /\ rings \in [Ring -> RingRecord]
  /\ agents \in [Epoch -> AgentRecord]
  /\ nextEpoch \in Nat \ {0}
  /\ offloaded \subseteq DOMAIN leases /\ fouled \subseteq Ring

(* ... an epoch names one session, and a lease of a live session is its    *)
(* rank's and is not recovered ...                                         *)
Registered ==
  /\ \A r \in Rank : sessions[r].epoch < nextEpoch /\ (sessions[r].alive => sessions[r].epoch \in Epoch)
  /\ \A q, r \in Rank :
       sessions[q].alive /\ sessions[r].alive /\ sessions[q].epoch = sessions[r].epoch => q = r
  /\ \A l \in DOMAIN leases :
       /\ leases[l].epoch < nextEpoch
       /\ \A r \in Rank : EpochValid(r, leases[l].epoch) =>
            leases[l].rank = r /\ leases[l].st # "gone"

(* ... an agent reports leases of its own epoch, in the name of its rank,  *)
(* and to its session's ring ...                                           *)
CarriedBy(e) ==
  LET a == agents[e] IN
  /\ \A l \in a.inflight \cup a.batch \cup a.over : l \in DOMAIN leases /\ leases[l].epoch = e
  /\ ~Ended(e) => a.rank \in Rank
  /\ \A r \in Rank : EpochValid(r, e) /\ ~Ended(e) =>
       a.rank = r /\ a.ring \in {sessions[r].ring, NoRing}
  /\ a.pc \in {"push", "write", "publish"} => a.ring \in Ring
  /\ a.pc \in {"write", "publish"} => a.batch # {}

(* ... the ring of a live session that none but its own agent has written  *)
(* has no more entries than cells, and while the agent pushes, its         *)
(* sequence number is the tail and there is room ...                       *)
Disciplined(r) ==
  LET i == sessions[r].ring
      a == agents[sessions[r].epoch]
  IN  sessions[r].alive /\ i # NoRing /\ i \notin fouled =>
        /\ rings[i].head <= rings[i].tail /\ rings[i].tail - rings[i].head <= Capacity
        /\ a.pc \in {"write", "publish"} =>
             a.seq = rings[i].tail /\ rings[i].tail - rings[i].head < Capacity
        /\ a.pc = "publish" => rings[i].cells[a.seq % Capacity] = Min(a.batch)

(* ... and CompletionsKept, with the rank of the session as a variable.    *)
KeptFor(l, r) ==
  EpochValid(r, leases[l].epoch) /\ sessions[r].ring \notin fouled =>
    \/ leases[l].st = "applied"
    \/ sessions[r].ring # NoRing /\ l \in Pending(sessions[r].ring)

KeptInv ==
  /\ HeldInv /\ Tables /\ Registered
  /\ \A e \in Epoch : CarriedBy(e)
  /\ \A r \in Rank : Disciplined(r)
  /\ \A l \in offloaded \ unreported, r \in Rank : KeptFor(l, r)

(* The oldest of the leases in a set is one of them.                       *)
LEMMA OldestIn ==
  ASSUME NEW S \in SUBSET Lease, S # {}
  PROVE  Min(S) \in S
<1>1. S \subseteq Nat
  BY SessionAssumption DEF Lease
<1>2. PICK x \in S : \A y \in S : ~(<<y, x>> \in OpToRel(<, Nat))
  BY <1>1, NatLessThanWellFounded, WFMin, Zenon
<1>3. \A y \in S : x <= y
  <2> SUFFICES ASSUME NEW y \in S, y < x PROVE FALSE
    BY <1>1
  <2>1. <<y, x>> \in Nat \X Nat /\ <<y, x>>[1] < <<y, x>>[2]
    BY <1>1, Zenon
  <2>2. <<y, x>> \in OpToRel(<, Nat)
    BY <2>1, Zenon DEF OpToRel
  <2>. QED
    BY <1>2, <2>2, Zenon
<1>. QED
  BY <1>3, Zenon DEF Min

(* Indices less than a ring's capacity apart lie in different cells.       *)
LEMMA CellsDiffer ==
  ASSUME NEW a \in Nat, NEW b \in Nat, a < b, b - a < Capacity
  PROVE  a % Capacity # b % Capacity
<1> DEFINE p == a \div Capacity
           q == b \div Capacity
<1>1. /\ a = Capacity * p + (a % Capacity) /\ p \in Int
      /\ b = Capacity * q + (b % Capacity) /\ q \in Int
  BY SessionAssumption
<1> HIDE DEF p, q
<1> SUFFICES ASSUME a % Capacity = b % Capacity PROVE FALSE
  BY Zenon
<1>2. a % Capacity \in Int /\ Capacity \in Nat
  BY SessionAssumption
<1>3. b - a = Capacity * (q - p)
  BY <1>1, <1>2
<1>4. CASE q - p <= 0
  BY <1>1, <1>2, <1>3, <1>4
<1>5. CASE q - p >= 1
  BY <1>1, <1>2, <1>3, <1>5
<1>. QED
  BY <1>1, <1>4, <1>5

(* Applying completions changes nothing about a lease but its state, and   *)
(* what is reported by the live session that a lease belongs to is applied. *)
LEMMA ApplyLeases ==
  ASSUME Tables, NEW r, NEW e, NEW S, Apply(r, e, S)
  PROVE  /\ leases' \in Seq(LeaseRecord) /\ Len(leases') = Len(leases)
         /\ DOMAIN leases' = DOMAIN leases
         /\ \A l \in DOMAIN leases :
              /\ leases'[l].rank = leases[l].rank /\ leases'[l].epoch = leases[l].epoch
              /\ leases[l].st # "gone" => leases'[l].st # "gone"
              /\ leases[l].st = "applied" => leases'[l].st = "applied"
              /\ l \in S /\ EpochValid(r, e) /\ leases[l].rank = r /\ leases[l].st # "gone"
                   => leases'[l].st = "applied"
<1>1. leases \in Seq(LeaseRecord) /\ DOMAIN leases = 1 .. Len(leases) /\ Len(leases) \in Nat
  BY DEF Tables
<1>2. \A l \in DOMAIN leases : leases[l] \in LeaseRecord
  BY <1>1
<1>3. leases' = [l \in DOMAIN leases |->
               IF l \in S /\ EpochValid(r, e) /\ leases[l].rank = r /\ leases[l].st = "d2h"
               THEN [leases[l] EXCEPT !.st = "applied"] ELSE leases[l]]
  BY Zenon DEF Apply
<1>4. \A l \in DOMAIN leases : leases'[l] \in LeaseRecord
  BY <1>2, <1>3, Zenon DEF LeaseRecord
<1>5. leases' \in [1 .. Len(leases) -> LeaseRecord]
  BY <1>1, <1>3, <1>4, Zenon
<1>6. leases' \in Seq(LeaseRecord) /\ Len(leases') = Len(leases)
  BY <1>1, <1>5
<1>7. \A l \in DOMAIN leases :
        /\ leases'[l].rank = leases[l].rank /\ leases'[l].epoch = leases[l].epoch
        /\ leases[l].st # "gone" => leases'[l].st # "gone"
        /\ leases[l].st = "applied" => leases'[l].st = "applied"
        /\ l \in S /\ EpochValid(r, e) /\ leases[l].rank = r /\ leases[l].st # "gone"
             => leases'[l].st = "applied"
  BY <1>2, <1>3, Zenon DEF LeaseRecord
<1>. QED
  BY <1>1, <1>5, <1>6, <1>7, Zenon

(* Recovery changes nothing but the state of the leases of its epochs.     *)
LEMMA RecoverLeases ==
  ASSUME Tables, NEW E, Recover(E)
  PROVE  /\ leases' \in Seq(LeaseRecord) /\ Len(leases') = Len(leases)
         /\ DOMAIN leases' = DOMAIN leases
         /\ \A l \in DOMAIN leases :
              /\ leases'[l].rank = leases[l].rank /\ leases'[l].epoch = leases[l].epoch
              /\ leases[l].epoch \notin E => leases'[l] = leases[l]
<1>1. leases \in Seq(LeaseRecord) /\ DOMAIN leases = 1 .. Len(leases) /\ Len(leases) \in Nat
  BY DEF Tables
<1>2. \A l \in DOMAIN leases : leases[l] \in LeaseRecord
  BY <1>1
<1>3. leases' = [l \in DOMAIN leases |->
               IF leases[l].epoch \in E THEN [leases[l] EXCEPT !.st = "gone"] ELSE leases[l]]
  BY Zenon DEF Recover
<1>4. \A l \in DOMAIN leases : leases'[l] \in LeaseRecord
  BY <1>2, <1>3, Zenon DEF LeaseRecord
<1>5. leases' \in [1 .. Len(leases) -> LeaseRecord]
  BY <1>1, <1>3, <1>4, Zenon
<1>6. leases' \in Seq(LeaseRecord) /\ Len(leases') = Len(leases)
  BY <1>1, <1>5
<1>7. \A l \in DOMAIN leases :
        /\ leases'[l].rank = leases[l].rank /\ leases'[l].epoch = leases[l].epoch
        /\ leases[l].epoch \notin E => leases'[l] = leases[l]
  BY <1>2, <1>3, Zenon DEF LeaseRecord
<1>. QED
  BY <1>1, <1>5, <1>6, <1>7, Zenon

LEMMA InitKept == Init => KeptInv
<1> SUFFICES ASSUME Init PROVE KeptInv
  BY Zenon
<1> USE SessionAssumption DEF Init
<1>1. Tables
  <2>1. leases \in Seq(LeaseRecord) /\ Len(leases) <= MaxLease
    OBVIOUS
  <2>2. rings \in [Ring -> RingRecord]
    BY Zenon DEF RingRecord
  <2>3. agents \in [Epoch -> AgentRecord]
    BY Zenon DEF AgentRecord, NoAgent
  <2>4. nextEpoch \in Nat \ {0} /\ offloaded \subseteq DOMAIN leases /\ fouled \subseteq Ring
    OBVIOUS
  <2>. QED
    BY ONLY <2>1, <2>2, <2>3, <2>4, Zenon DEF Tables
<1>2. Registered
  BY DEF Registered, NoSession
<1>3. \A e \in Epoch : CarriedBy(e)
  BY Zenon DEF CarriedBy, NoAgent, Ended
<1>4. \A r \in Rank : Disciplined(r)
  BY Zenon DEF Disciplined, NoSession
<1>. QED
  BY <1>1, <1>2, <1>3, <1>4, InitHeld, Zenon DEF KeptInv

(* A step of one agent that leaves the tables, the rings and the leases    *)
(* alone has only itself to answer for.                                    *)
OwnStep(e, b) ==
  /\ agents' = [agents EXCEPT ![e] = b]
  /\ UNCHANGED <<daemon, rings, leases, offloaded, fouled>>
  /\ unreported \subseteq unreported'

LEMMA OneAgent ==
  ASSUME KeptInv, NEW e \in Epoch, NEW b \in AgentRecord, OwnStep(e, b), CarriedBy(e)',
         \A r \in Rank : EpochValid(r, e) => Disciplined(r)'
  PROVE  KeptInv'
<1>1. /\ sessions' = sessions /\ ringOwner' = ringOwner /\ header' = header
      /\ nextEpoch' = nextEpoch /\ timedOut' = timedOut
      /\ rings' = rings /\ leases' = leases /\ offloaded' = offloaded /\ fouled' = fouled
      /\ unreported \subseteq unreported'
  BY Zenon DEF OwnStep, daemon
<1>2. agents' \in [Epoch -> AgentRecord] /\ \A d \in Epoch \ {e} : agents'[d] = agents[d]
  BY Zenon DEF KeptInv, Tables, OwnStep
<1>3. HeldInv'
  BY <1>1, Zenon DEF KeptInv, HeldInv, Shape, RingsHeld
<1>4. Tables'
  BY <1>1, <1>2, Zenon DEF KeptInv, Tables
<1>5. Registered'
  BY <1>1 DEF KeptInv, Registered, EpochValid
<1>6. ASSUME NEW d \in Epoch PROVE CarriedBy(d)'
  <2>1. CASE d = e
    BY <2>1, Zenon
  <2>2. CASE d # e
    BY <1>1, <1>2, <2>2 DEF KeptInv, CarriedBy, EpochValid, Ended
  <2>. QED
    BY <2>1, <2>2, Zenon
<1>7. ASSUME NEW r \in Rank PROVE Disciplined(r)'
  <2>1. CASE EpochValid(r, e)
    BY <2>1, Zenon
  <2>2. CASE ~EpochValid(r, e)
    <3> SUFFICES ASSUME sessions[r].alive PROVE Disciplined(r)'
      BY <1>1, Zenon DEF Disciplined
    <3>1. sessions[r].epoch \in Epoch \ {e}
      BY <2>2, Zenon DEF KeptInv, Registered, EpochValid
    <3>2. agents'[sessions[r].epoch] = agents[sessions[r].epoch] /\ Disciplined(r)
      BY <1>2, <3>1, Zenon DEF KeptInv
    <3>. QED
      BY <1>1, <3>2, Zenon DEF Disciplined
  <2>. QED
    BY <2>1, <2>2, Zenon
<1>8. ASSUME NEW l \in offloaded' \ unreported', NEW r \in Rank PROVE KeptFor(l, r)'
  BY <1>1 DEF KeptInv, KeptFor, EpochValid, Pending
<1>. QED
  BY <1>3, <1>4, <1>5, <1>6, <1>7, <1>8, Zenon DEF KeptInv

(* In particular one that takes on no lease and does not start to write.   *)
NoMore(a, b) ==
  b.inflight \cup b.batch \cup b.over \subseteq a.inflight \cup a.batch \cup a.over

LEMMA QuietAgent ==
  ASSUME KeptInv, NEW e \in Epoch, NEW b \in AgentRecord,
         OwnStep(e, b), NoMore(agents[e], b),
         b.pc \notin {"write", "publish"}, b.pc = "push" => b.ring \in Ring,
         \/ b.pc \in {"ended", "crashed"}
         \/ ~Ended(e) /\ b.rank = agents[e].rank /\ b.ring \in {agents[e].ring, NoRing}
  PROVE  KeptInv'
<1>1. agents'[e] = b /\ CarriedBy(e)
  BY Zenon DEF KeptInv, Tables, OwnStep
<1>2. sessions' = sessions /\ leases' = leases /\ rings' = rings /\ fouled' = fouled
  BY Zenon DEF OwnStep, daemon
<1>3. CarriedBy(e)'
  BY <1>1, <1>2, Zenon DEF CarriedBy, EpochValid, Ended, NoMore
<1>4. ASSUME NEW r \in Rank, EpochValid(r, e) PROVE Disciplined(r)'
  BY <1>1, <1>2, <1>4, Zenon DEF KeptInv, Disciplined, EpochValid
<1>. QED
  BY <1>3, <1>4, OneAgent, Zenon

(* The constructor, its failure, a poll of the events, one that fails and  *)
(* the end of the progress thread.                                         *)
LEMMA QuietStepKept ==
  ASSUME KeptInv, NEW e \in Epoch,
         \/ Attach(e) \/ AttachFails(e) \/ Stop(e)
         \/ \E l \in agents[e].inflight : EventError(e, l)
         \/ \E done \in SUBSET agents[e].inflight : Gather(e, done)
  PROVE  KeptInv'
<1> DEFINE a == agents[e]
<1>1. a \in AgentRecord
  BY Zenon DEF KeptInv, Tables
<1> HIDE DEF a
<1>3. CASE Attach(e)
  <2> DEFINE b == [a EXCEPT !.pc = "poll",
                 !.ring = IF a.ring # NoRing /\ header[a.ring] = [owner |-> a.rank, epoch |-> e]
                          THEN a.ring ELSE NoRing]
  <2>1. a.pc = "attach" /\ agents' = [agents EXCEPT ![e] = b]
        /\ UNCHANGED <<daemon, rings, leases, offloaded, fouled, unreported>>
    BY <1>3, Zenon DEF Attach, a
  <2>2. b \in AgentRecord /\ b.pc = "poll" /\ b.rank = a.rank /\ b.ring \in {a.ring, NoRing}
        /\ b.inflight = a.inflight /\ b.batch = a.batch /\ b.over = a.over
    BY <1>1, Zenon DEF AgentRecord
  <2>3. ~Ended(e)
    BY <2>1, Zenon DEF Ended, a
  <2> HIDE DEF b
  <2>. QED
    BY <2>1, <2>2, <2>3, QuietAgent, Zenon DEF a, OwnStep, NoMore
<1>4. CASE AttachFails(e)
  <2> DEFINE b == [NoAgent EXCEPT !.pc = "crashed"]
  <2>1. agents' = [agents EXCEPT ![e] = b]
        /\ UNCHANGED <<daemon, rings, leases, offloaded, fouled, unreported>>
    BY <1>4, Zenon DEF AttachFails
  <2>2. b \in AgentRecord /\ b.pc = "crashed" /\ b.inflight = {} /\ b.batch = {} /\ b.over = {}
    BY SessionAssumption, Zenon DEF AgentRecord, NoAgent
  <2> HIDE DEF b
  <2>. QED
    BY <2>1, <2>2, QuietAgent, Zenon DEF a, OwnStep, NoMore
<1>5. CASE Stop(e)
  <2> DEFINE b == [a EXCEPT !.pc = "close"]
  <2>1. a.pc = "poll" /\ agents' = [agents EXCEPT ![e] = b]
        /\ UNCHANGED <<daemon, rings, leases, offloaded, fouled, unreported>>
    BY <1>5, Zenon DEF Stop, a, KeptInv, Tables
  <2>2. b \in AgentRecord /\ b.pc = "close" /\ b.rank = a.rank /\ b.ring = a.ring
        /\ b.inflight = a.inflight /\ b.batch = a.batch /\ b.over = a.over
    BY <1>1, Zenon DEF AgentRecord
  <2>3. ~Ended(e)
    BY <2>1, Zenon DEF Ended, a
  <2> HIDE DEF b
  <2>. QED
    BY <2>1, <2>2, <2>3, QuietAgent, Zenon DEF a, OwnStep, NoMore
<1>6. ASSUME NEW l \in agents[e].inflight, EventError(e, l) PROVE KeptInv'
  <2> DEFINE b == [a EXCEPT !.inflight = a.inflight \ {l}]
  <2>1. a.pc = "poll" /\ agents' = [agents EXCEPT ![e] = b]
        /\ UNCHANGED <<daemon, rings, leases, offloaded, fouled>> /\ unreported \subseteq unreported'
    BY <1>6, Zenon DEF EventError, a, KeptInv, Tables
  <2>2. b \in AgentRecord /\ b.pc = a.pc /\ b.rank = a.rank /\ b.ring = a.ring
        /\ b.inflight \subseteq a.inflight /\ b.batch = a.batch /\ b.over = a.over
    BY <1>1, Zenon DEF AgentRecord
  <2>3. ~Ended(e)
    BY <2>1, Zenon DEF Ended, a
  <2> HIDE DEF b
  <2>. QED
    BY <2>1, <2>2, <2>3, QuietAgent, Zenon DEF a, OwnStep, NoMore
<1>7. ASSUME NEW done \in SUBSET agents[e].inflight, Gather(e, done) PROVE KeptInv'
  <2> DEFINE b == [a EXCEPT !.inflight = a.inflight \ done,
                 !.batch = IF a.ring = NoRing THEN {} ELSE done,
                 !.over = IF a.ring = NoRing THEN done ELSE {},
                 !.pc = IF a.ring = NoRing THEN "rpc" ELSE "push"]
  <2>1. a.pc = "poll" /\ agents' = [agents EXCEPT ![e] = b]
        /\ UNCHANGED <<daemon, rings, leases, offloaded, fouled, unreported>>
    BY <1>7, Zenon DEF Gather, a
  <2>2. done \subseteq a.inflight
    BY Zenon DEF a
  <2>3. /\ b \in AgentRecord /\ b.pc \in {"rpc", "push"} /\ b.rank = a.rank /\ b.ring = a.ring
        /\ b.pc = "push" => b.ring \in Ring
        /\ b.inflight \subseteq a.inflight /\ b.batch \subseteq a.inflight /\ b.over \subseteq a.inflight
    BY <1>1, <2>2, ZenonT(30) DEF AgentRecord
  <2>4. ~Ended(e)
    BY <2>1, Zenon DEF Ended, a
  <2> HIDE DEF b
  <2>. QED
    BY <2>1, <2>3, <2>4, QuietAgent, Zenon DEF a, OwnStep, NoMore
<1>. QED
  BY <1>3, <1>4, <1>5, <1>6, <1>7, Zenon

(* A push that finds the ring full puts the completion among those that    *)
(* overflow; one that finds room starts at the tail.                       *)
LEMMA PushLoadKept ==
  ASSUME KeptInv, NEW e \in Epoch, PushLoad(e)
  PROVE  KeptInv'
<1> DEFINE a == agents[e]
           rg == rings[a.ring]
<1>1. a \in AgentRecord /\ CarriedBy(e)
  BY Zenon DEF KeptInv, Tables
<1>2. /\ a.pc = "push" /\ a.batch # {} /\ a.ring \in Ring
      /\ UNCHANGED <<daemon, rings, leases, offloaded, fouled, unreported>>
  BY <1>1, Zenon DEF PushLoad, CarriedBy
<1>3. Min(a.batch) \in a.batch
  BY <1>1, <1>2, OldestIn, Zenon DEF AgentRecord
<1>4. CASE Full(rg)
  <2> DEFINE b == [a EXCEPT !.over = a.over \cup {Min(a.batch)}, !.batch = a.batch \ {Min(a.batch)}]
  <2>1. agents' = [agents EXCEPT ![e] = b]
    BY <1>4, Zenon DEF PushLoad
  <2>2. /\ b \in AgentRecord /\ b.pc = "push" /\ b.rank = a.rank /\ b.ring = a.ring
        /\ b.inflight = a.inflight /\ b.batch \subseteq a.batch /\ b.over \subseteq a.over \cup a.batch
    BY <1>1, <1>2, <1>3, Zenon DEF AgentRecord
  <2>3. ~Ended(e)
    BY <1>2, Zenon DEF Ended
  <2> HIDE DEF b
  <2>. QED
    BY <1>2, <2>1, <2>2, <2>3, QuietAgent, Zenon DEF OwnStep, NoMore
<1>5. CASE ~Full(rg)
  <2> DEFINE b == [a EXCEPT !.pc = "write", !.seq = rg.tail]
  <2>1. agents' = [agents EXCEPT ![e] = b]
    BY <1>5, Zenon DEF PushLoad
  <2>2. rg \in RingRecord
    BY <1>2, Zenon DEF KeptInv, Tables
  <2>3. /\ b \in AgentRecord /\ b.pc = "write" /\ b.rank = a.rank /\ b.ring = a.ring
        /\ b.seq = rg.tail
        /\ b.inflight = a.inflight /\ b.batch = a.batch /\ b.over = a.over
    BY <1>1, <2>2, Zenon DEF AgentRecord, RingRecord
  <2>4. rg.head <= rg.tail /\ rg.tail - rg.head < Capacity
    <3>1. rg.head \in Nat /\ rg.tail \in Nat /\ Capacity \in Nat
      BY <2>2, SessionAssumption, Zenon DEF RingRecord
    <3> HIDE DEF rg
    <3>. QED
      BY ONLY <1>5, <3>1 DEF Full
  <2> HIDE DEF b
  <2>5. agents'[e] = b /\ sessions' = sessions /\ rings' = rings /\ leases' = leases
    BY <1>2, <2>1, Zenon DEF KeptInv, Tables, daemon
  <2>6. CarriedBy(e)'
    BY <1>1, <1>2, <2>3, <2>5, Zenon DEF CarriedBy, EpochValid, Ended
  <2>7. ASSUME NEW r \in Rank, EpochValid(r, e) PROVE Disciplined(r)'
    <3>1. sessions[r].ring \in {a.ring, NoRing} /\ sessions[r].epoch = e
      BY <1>1, <1>2, <2>7 DEF CarriedBy, Ended, EpochValid, NoRing, Ring
    <3>. QED
      <4>1. rings'[sessions'[r].ring] = rg \/ sessions'[r].ring = NoRing
        BY <2>5, <3>1, Zenon
      <4>2. agents'[sessions'[r].epoch] = b /\ b.pc = "write" /\ b.seq = rg.tail
        BY <2>3, <2>5, <3>1, Zenon
      <4>3. rg.tail - rg.head <= Capacity
        BY <2>2, <2>4, SessionAssumption DEF RingRecord
      <4> HIDE DEF rg
      <4>. QED
        BY ONLY <2>4, <4>1, <4>2, <4>3 DEF Disciplined
  <2>. QED
    BY <1>2, <2>1, <2>3, <2>6, <2>7, OneAgent, Zenon DEF OwnStep
<1>. QED
  BY <1>4, <1>5, Zenon

(* A process that dies takes its agents along.                             *)
LEMMA CrashKept ==
  ASSUME KeptInv, NEW p \in Pid, Crash(p)
  PROVE  KeptInv'
<1> DEFINE b == [NoAgent EXCEPT !.pc = "crashed"]
<1>1. /\ sessions' = sessions /\ ringOwner' = ringOwner /\ header' = header
      /\ nextEpoch' = nextEpoch /\ timedOut' = timedOut /\ unreported' = unreported
      /\ rings' = rings /\ leases' = leases /\ offloaded' = offloaded /\ fouled' = fouled
      /\ agents' = [e \in Epoch |-> IF ~Ended(e) /\ agents[e].pid = p THEN b ELSE agents[e]]
  BY Zenon DEF Crash, daemon
<1>2. b \in AgentRecord /\ b.pc = "crashed" /\ b.inflight = {} /\ b.batch = {} /\ b.over = {}
  BY SessionAssumption, Zenon DEF AgentRecord, NoAgent
<1> HIDE DEF b
<1>3. \A e \in Epoch : agents'[e] = b \/ agents'[e] = agents[e]
  BY <1>1, Zenon
<1>4. HeldInv' /\ Registered'
  BY <1>1 DEF KeptInv, HeldInv, Shape, RingsHeld, Registered, EpochValid
<1>5. Tables'
  <2>1. agents' \in [Epoch -> AgentRecord]
    BY <1>1, <1>2, Zenon DEF KeptInv, Tables
  <2>. QED
    BY <1>1, <2>1, Zenon DEF KeptInv, Tables
<1>6. ASSUME NEW e \in Epoch PROVE CarriedBy(e)'
  BY <1>1, <1>2, <1>3 DEF KeptInv, CarriedBy, EpochValid, Ended
<1>7. ASSUME NEW r \in Rank PROVE Disciplined(r)'
  <2> SUFFICES ASSUME sessions[r].alive PROVE Disciplined(r)'
    BY <1>1, Zenon DEF Disciplined
  <2>1. sessions[r].epoch \in Epoch /\ Disciplined(r)
    BY ZenonT(30) DEF KeptInv, Registered
  <2>. QED
    BY <1>1, <1>2, <1>3, <2>1, Zenon DEF Disciplined
<1>8. ASSUME NEW l \in offloaded' \ unreported', NEW r \in Rank PROVE KeptFor(l, r)'
  BY <1>1 DEF KeptInv, KeptFor, EpochValid, Pending
<1>. QED
  BY <1>4, <1>5, <1>6, <1>7, <1>8, Zenon DEF KeptInv

(* evict(): the new lease is the calling session's.                        *)
LEMMA EvictKept ==
  ASSUME KeptInv, NEW e \in Epoch, Evict(e)
  PROVE  KeptInv'
<1> DEFINE a == agents[e]
           n == Len(leases) + 1
           x == [rank |-> a.rank, epoch |-> e, st |-> "d2h"]
           b == [a EXCEPT !.inflight = a.inflight \cup {n}]
<1>1. a \in AgentRecord /\ CarriedBy(e) /\ leases \in Seq(LeaseRecord)
  BY Zenon DEF KeptInv, Tables
<1>2. /\ a.pc \in {"poll", "push", "write", "publish", "rpc"}
      /\ Len(leases) < MaxLease /\ EpochValid(a.rank, e)
      /\ leases' = Append(leases, x) /\ agents' = [agents EXCEPT ![e] = b]
  BY <1>1, Zenon DEF Evict, AgentRecord
<1>3. /\ sessions' = sessions /\ ringOwner' = ringOwner /\ header' = header
      /\ nextEpoch' = nextEpoch /\ timedOut' = timedOut /\ unreported' = unreported
      /\ rings' = rings /\ offloaded' = offloaded /\ fouled' = fouled
  BY Zenon DEF Evict, daemon
<1>4. ~Ended(e) /\ a.rank \in Rank
  BY <1>1, <1>2, Zenon DEF Ended, CarriedBy
<1>5. n \in Lease /\ n \notin DOMAIN leases /\ x \in LeaseRecord
  BY <1>1, <1>2, <1>4, SessionAssumption DEF Lease, LeaseRecord
<1>6. /\ leases' \in Seq(LeaseRecord) /\ Len(leases') <= MaxLease
      /\ DOMAIN leases' = DOMAIN leases \cup {n} /\ leases'[n] = x
      /\ \A l \in DOMAIN leases : leases'[l] = leases[l]
  BY <1>1, <1>2, <1>5, SessionAssumption
<1>7. /\ b \in AgentRecord /\ b.pc = a.pc /\ b.rank = a.rank /\ b.ring = a.ring /\ b.seq = a.seq
      /\ b.inflight = a.inflight \cup {n} /\ b.batch = a.batch /\ b.over = a.over
  BY <1>1, <1>5, Zenon DEF AgentRecord
<1>8. x.rank = a.rank /\ x.epoch = e /\ x.st = "d2h"
  BY Zenon
<1> HIDE DEF a, n, x, b
<1>9. agents' \in [Epoch -> AgentRecord] /\ agents'[e] = b /\ \A d \in Epoch \ {e} : agents'[d] = agents[d]
  BY <1>2, <1>7, Zenon DEF KeptInv, Tables
<1>10. HeldInv'
  BY <1>3, Zenon DEF KeptInv, HeldInv, Shape, RingsHeld
<1>11. Tables'
  BY <1>3, <1>6, <1>9, Zenon DEF KeptInv, Tables
<1>12. Registered'
  <2>1. sessions[a.rank].epoch = e /\ sessions[a.rank].alive
    BY <1>2, Zenon DEF EpochValid
  <2>2. x.epoch < nextEpoch /\ \A r \in Rank : EpochValid(r, x.epoch) => x.rank = r /\ x.st # "gone"
    BY <1>4, <1>8, <2>1 DEF KeptInv, Registered, EpochValid
  <2>. QED
    BY <1>3, <1>6, <2>2 DEF KeptInv, Registered, EpochValid
<1>13. ASSUME NEW d \in Epoch PROVE CarriedBy(d)'
  <2>1. CASE d = e
    BY <1>1, <1>3, <1>6, <1>7, <1>8, <1>9, <2>1 DEF CarriedBy, Ended, EpochValid, a
  <2>2. CASE d # e
    <3>1. agents'[d] = agents[d] /\ CarriedBy(d)
      BY <1>9, <2>2, Zenon DEF KeptInv
    <3>. QED
      BY <1>3, <1>6, <3>1, Zenon DEF CarriedBy, Ended, EpochValid
  <2>. QED
    BY <2>1, <2>2, Zenon
<1>14. ASSUME NEW r \in Rank PROVE Disciplined(r)'
  <2> SUFFICES ASSUME sessions[r].alive PROVE Disciplined(r)'
    BY <1>3, Zenon DEF Disciplined
  <2>1. sessions[r].epoch \in Epoch /\ Disciplined(r)
    BY Zenon DEF KeptInv, Registered
  <2>. QED
    <3>1. /\ agents'[sessions[r].epoch].pc = agents[sessions[r].epoch].pc
          /\ agents'[sessions[r].epoch].seq = agents[sessions[r].epoch].seq
          /\ agents'[sessions[r].epoch].batch = agents[sessions[r].epoch].batch
      BY <1>7, <1>9, <2>1, Zenon DEF a
    <3>. QED
      BY <1>3, <2>1, <3>1, Zenon DEF Disciplined
<1>15. ASSUME NEW l \in offloaded' \ unreported', NEW r \in Rank PROVE KeptFor(l, r)'
  <2>1. l \in DOMAIN leases /\ KeptFor(l, r)
    BY <1>3, Zenon DEF KeptInv, Tables
  <2>. QED
    BY <1>3, <1>6, <2>1, Zenon DEF KeptFor, EpochValid, Pending
<1>. QED
  BY <1>10, <1>11, <1>12, <1>13, <1>14, <1>15, Zenon DEF KeptInv

(* What an agent reports by RPC is applied, unless its session is over or  *)
(* the call fails.                                                         *)
ReportStep(e, S, b) ==
  /\ S \subseteq agents[e].inflight \cup agents[e].over
  /\ Report(agents[e].rank, e, S) /\ offloaded' = offloaded \cup S
  /\ agents' = [agents EXCEPT ![e] = b] /\ NoMore(agents[e], b)
  /\ b.pc \notin {"push", "write", "publish"} /\ b.rank = agents[e].rank /\ b.ring = agents[e].ring
  /\ UNCHANGED <<daemon, rings, fouled>>

LEMMA ReportKept ==
  ASSUME KeptInv, NEW e \in Epoch, NEW S, NEW b \in AgentRecord, ~Ended(e), ReportStep(e, S, b)
  PROVE  KeptInv'
<1> DEFINE a == agents[e]
<1>1. a \in AgentRecord /\ CarriedBy(e) /\ a.rank \in Rank
  BY Zenon DEF KeptInv, Tables, CarriedBy
<1>2. /\ sessions' = sessions /\ ringOwner' = ringOwner /\ header' = header
      /\ nextEpoch' = nextEpoch /\ timedOut' = timedOut
      /\ rings' = rings /\ fouled' = fouled /\ offloaded' = offloaded \cup S
  BY Zenon DEF ReportStep, daemon
<1>0. /\ NoMore(a, b) /\ b.pc \notin {"push", "write", "publish"}
      /\ b.rank = a.rank /\ b.ring = a.ring
  BY Zenon DEF ReportStep
<1>3. \A l \in S : l \in DOMAIN leases /\ leases[l].epoch = e
  BY <1>1, Zenon DEF CarriedBy, ReportStep
<1>4. /\ leases' \in Seq(LeaseRecord) /\ Len(leases') = Len(leases)
      /\ DOMAIN leases' = DOMAIN leases
      /\ unreported \subseteq unreported'
      /\ \A l \in DOMAIN leases :
           /\ leases'[l].rank = leases[l].rank /\ leases'[l].epoch = leases[l].epoch
           /\ leases[l].st # "gone" => leases'[l].st # "gone"
           /\ leases[l].st = "applied" => leases'[l].st = "applied"
           /\ l \in S \ unreported' /\ EpochValid(a.rank, e) /\ leases[l].rank = a.rank
                /\ leases[l].st # "gone" => leases'[l].st = "applied"
  <2>1. CASE Apply(a.rank, e, S) /\ UNCHANGED unreported
    <3>1. Tables
      BY Zenon DEF KeptInv
    <3>. QED
      BY <2>1, <3>1, ApplyLeases
  <2>2. CASE unreported' = unreported \cup S /\ leases' = leases
    BY <2>2, Zenon DEF KeptInv, Tables
  <2>. QED
    BY <2>1, <2>2, Zenon DEF ReportStep, Report
<1>5. agents' \in [Epoch -> AgentRecord] /\ agents'[e] = b /\ \A d \in Epoch \ {e} : agents'[d] = agents[d]
  BY Zenon DEF KeptInv, Tables, ReportStep
<1>6. HeldInv'
  BY <1>2, Zenon DEF KeptInv, HeldInv, Shape, RingsHeld
<1>7. Tables'
  BY <1>2, <1>3, <1>4, <1>5, Zenon DEF KeptInv, Tables
<1>8. Registered'
  BY <1>2, <1>4 DEF KeptInv, Registered, EpochValid
<1>9. ASSUME NEW d \in Epoch PROVE CarriedBy(d)'
  <2>1. CASE d = e
    BY <1>0, <1>1, <1>2, <1>4, <1>5, <2>1, Zenon DEF CarriedBy, Ended, EpochValid, NoMore
  <2>2. CASE d # e
    BY <1>2, <1>4, <1>5, <2>2 DEF KeptInv, CarriedBy, Ended, EpochValid
  <2>. QED
    BY <2>1, <2>2, Zenon
<1>10. ASSUME NEW r \in Rank PROVE Disciplined(r)'
  <2> SUFFICES ASSUME sessions[r].alive PROVE Disciplined(r)'
    BY <1>2, Zenon DEF Disciplined
  <2>1. sessions[r].epoch \in Epoch /\ Disciplined(r)
    BY Zenon DEF KeptInv, Registered
  <2>. QED
    BY <1>0, <1>2, <1>5, <2>1, Zenon DEF Disciplined
<1>11. ASSUME NEW l \in offloaded' \ unreported', NEW r \in Rank PROVE KeptFor(l, r)'
  <2>1. CASE l \in S
    <3> SUFFICES ASSUME EpochValid(r, e) PROVE leases'[l].st = "applied"
      BY <1>2, <1>3, <1>4, <2>1, Zenon DEF KeptFor, EpochValid
    <3>1. r = a.rank /\ leases[l].rank = r /\ leases[l].st # "gone"
      BY <1>1, <1>3, <2>1 DEF KeptInv, Registered, CarriedBy
    <3>. QED
      BY <1>3, <1>4, <1>11, <2>1, <3>1, Zenon
  <2>2. CASE l \notin S
    <3>1. l \in DOMAIN leases /\ KeptFor(l, r)
      BY <1>2, <1>4, <1>11, <2>2, Zenon DEF KeptInv, Tables
    <3>. QED
      BY <1>2, <1>4, <3>1, Zenon DEF KeptFor, EpochValid, Pending
  <2>. QED
    BY <2>1, <2>2, Zenon
<1>. QED
  BY <1>6, <1>7, <1>8, <1>9, <1>10, <1>11, Zenon DEF KeptInv

(* The end of a flush, and of an agent.                                    *)
LEMMA FlushEndKept ==
  ASSUME KeptInv, NEW e \in Epoch, FlushEnd(e)
  PROVE  KeptInv'
<1> DEFINE a == agents[e]
           b == [a EXCEPT !.pc = "poll", !.over = {}]
<1>1. a \in AgentRecord
  BY Zenon DEF KeptInv, Tables
<1>2. /\ a.pc \in {"rpc", "push"} /\ Report(a.rank, e, a.over) /\ offloaded' = offloaded \cup a.over
      /\ agents' = [agents EXCEPT ![e] = b] /\ UNCHANGED <<daemon, rings, fouled>>
  BY Zenon DEF FlushEnd
<1>3. /\ b \in AgentRecord /\ b.pc = "poll" /\ b.rank = a.rank /\ b.ring = a.ring
      /\ b.inflight = a.inflight /\ b.batch = a.batch /\ b.over = {}
  BY <1>1, Zenon DEF AgentRecord
<1>4. ~Ended(e)
  BY <1>2, Zenon DEF Ended
<1> HIDE DEF b
<1>. QED
  BY <1>2, <1>3, <1>4, ReportKept, Zenon DEF ReportStep, NoMore

LEMMA CloseKept ==
  ASSUME KeptInv, NEW e \in Epoch, Close(e)
  PROVE  KeptInv'
<1> DEFINE a == agents[e]
<1>1. a \in AgentRecord
  BY Zenon DEF KeptInv, Tables
<1>2. a.pc = "close" /\ UNCHANGED <<daemon, rings, fouled>> /\ ~Ended(e)
  BY Zenon DEF Close, Ended
<1>3. CASE a.inflight # {}
  <2> DEFINE l == Min(a.inflight)
             b == [a EXCEPT !.inflight = a.inflight \ {l}]
  <2>1. l \in a.inflight
    BY <1>1, <1>3, OldestIn, Zenon DEF AgentRecord
  <2>2. Report(a.rank, e, {l}) /\ offloaded' = offloaded \cup {l} /\ agents' = [agents EXCEPT ![e] = b]
    BY <1>3, Zenon DEF Close
  <2>3. /\ b \in AgentRecord /\ b.pc = "close" /\ b.rank = a.rank /\ b.ring = a.ring
        /\ b.inflight \subseteq a.inflight /\ b.batch = a.batch /\ b.over = a.over
    BY <1>1, <1>2, Zenon DEF AgentRecord
  <2> HIDE DEF l, b
  <2>. QED
    BY <1>2, <2>1, <2>2, <2>3, ReportKept, Zenon DEF ReportStep, NoMore
<1>4. CASE a.inflight = {}
  <2> DEFINE b == [NoAgent EXCEPT !.pc = "ended"]
  <2>1. agents' = [agents EXCEPT ![e] = b] /\ UNCHANGED <<leases, offloaded, unreported>>
    BY <1>4, Zenon DEF Close
  <2>2. b \in AgentRecord /\ b.pc = "ended" /\ b.inflight = {} /\ b.batch = {} /\ b.over = {}
    BY SessionAssumption, Zenon DEF AgentRecord, NoAgent
  <2> HIDE DEF b
  <2>. QED
    BY <1>2, <2>1, <2>2, QuietAgent, Zenon DEF OwnStep, NoMore
<1>. QED
  BY <1>3, <1>4, Zenon

(* Pending, as a function of the ring.                                     *)
Entries(rg) == {rg.cells[k % Capacity] : k \in rg.head .. rg.tail - 1}

(* A write to a ring by the agent e.  If it leaves the ring of a live      *)
(* session unfouled, the header names e, and so the session is e's own.    *)
RingWrite(e, R, b, D) ==
  LET a == agents[e] IN
  /\ a.ring \in Ring /\ Foul(e) /\ rings' = [rings EXCEPT ![a.ring] = R]
  /\ agents' = [agents EXCEPT ![e] = b] /\ NoMore(a, b)
  /\ b.rank = a.rank /\ b.ring = a.ring /\ b.pc \in {"push", "publish"}
  /\ b.pc = "publish" => b.batch # {}
  /\ D \subseteq a.batch /\ offloaded' = offloaded \cup D
  /\ UNCHANGED <<daemon, leases, unreported>>

LEMMA RingWriteKept ==
  ASSUME KeptInv, NEW e \in Epoch, NEW R \in RingRecord, NEW b \in AgentRecord, NEW D,
         ~Ended(e), RingWrite(e, R, b, D),
         \A r \in Rank :
           EpochValid(r, e) /\ sessions[r].ring = agents[e].ring /\ agents[e].ring \notin fouled =>
             /\ Disciplined(r)'
             /\ Pending(agents[e].ring) \cup D \subseteq Entries(R)
  PROVE  KeptInv'
<1> DEFINE a == agents[e]
           i == agents[e].ring
<1>0. /\ i \in Ring /\ NoMore(a, b) /\ b.rank = a.rank /\ b.ring = i /\ b.pc \in {"push", "publish"}
      /\ b.pc = "publish" => b.batch # {}
  BY Zenon DEF RingWrite
<1>1. a \in AgentRecord /\ CarriedBy(e)
  BY Zenon DEF KeptInv, Tables
<1>2. /\ sessions' = sessions /\ ringOwner' = ringOwner /\ header' = header
      /\ nextEpoch' = nextEpoch /\ timedOut' = timedOut
      /\ leases' = leases /\ unreported' = unreported /\ offloaded' = offloaded \cup D
  BY Zenon DEF RingWrite, daemon
<1>3. agents' \in [Epoch -> AgentRecord] /\ agents'[e] = b /\ \A d \in Epoch \ {e} : agents'[d] = agents[d]
  BY Zenon DEF KeptInv, Tables, RingWrite
<1>4. rings' \in [Ring -> RingRecord] /\ rings'[i] = R /\ \A k \in Ring \ {i} : rings'[k] = rings[k]
  BY Zenon DEF KeptInv, Tables, RingWrite
<1>5. /\ fouled' \subseteq Ring /\ fouled \subseteq fouled' /\ fouled' \subseteq fouled \cup {i}
      /\ i \notin fouled' => i \notin fouled /\ header[i].epoch = e
  BY <1>0, Zenon DEF RingWrite, Foul, KeptInv, Tables
<1>6. ASSUME NEW r \in Rank, sessions[r].alive, sessions[r].ring = i, i \notin fouled'
      PROVE  EpochValid(r, e) /\ i \notin fouled
  <2>1. i # NoRing
    BY <1>0 DEF Ring, NoRing
  <2>2. header[i] = [owner |-> r, epoch |-> sessions[r].epoch]
    BY <1>6, <2>1, Zenon DEF KeptInv, HeldInv, RingsHeld
  <2>. QED
    BY <1>5, <1>6, <2>2 DEF EpochValid
<1>7. HeldInv'
  BY <1>2, Zenon DEF KeptInv, HeldInv, Shape, RingsHeld
<1>8. Tables'
  <2>1. D \subseteq DOMAIN leases
    BY <1>1, Zenon DEF CarriedBy, RingWrite
  <2>. QED
    BY <1>2, <1>3, <1>4, <1>5, <2>1, Zenon DEF KeptInv, Tables
<1>9. Registered'
  BY <1>2 DEF KeptInv, Registered, EpochValid
<1>10. ASSUME NEW d \in Epoch PROVE CarriedBy(d)'
  <2>1. CASE d = e
    BY <1>0, <1>1, <1>2, <1>3, <2>1, ZenonT(30) DEF CarriedBy, Ended, EpochValid, NoMore
  <2>2. CASE d # e
    BY <1>2, <1>3, <2>2 DEF KeptInv, CarriedBy, Ended, EpochValid
  <2>. QED
    BY <2>1, <2>2, Zenon
<1>11. ASSUME NEW r \in Rank PROVE Disciplined(r)'
  <2> SUFFICES ASSUME sessions[r].alive, sessions[r].ring # NoRing, sessions[r].ring \notin fouled'
               PROVE  Disciplined(r)'
    BY <1>2, Zenon DEF Disciplined
  <2>1. CASE sessions[r].ring = i
    BY <1>6, <2>1, Zenon
  <2>2. CASE sessions[r].ring # i
    <3>1. sessions[r].ring \in Ring \ {i} /\ sessions[r].ring \notin fouled
      BY <1>5, <2>2, Zenon DEF KeptInv, HeldInv, Shape
    <3>2. sessions[r].epoch \in Epoch /\ Disciplined(r)
      BY Zenon DEF KeptInv, Registered
    <3>3. sessions[r].epoch # e
      BY <1>0, <1>1, <2>2 DEF CarriedBy, EpochValid, Ring, NoRing
    <3>4. agents'[sessions[r].epoch] = agents[sessions[r].epoch]
          /\ rings'[sessions[r].ring] = rings[sessions[r].ring]
      BY <1>3, <1>4, <3>1, <3>2, <3>3, Zenon
    <3>. QED
      BY <1>2, <3>1, <3>2, <3>4, Zenon DEF Disciplined
  <2>. QED
    BY <2>1, <2>2, Zenon
<1>12. ASSUME NEW l \in offloaded' \ unreported', NEW r \in Rank PROVE KeptFor(l, r)'
  <2> SUFFICES ASSUME EpochValid(r, leases[l].epoch), sessions[r].ring \notin fouled'
               PROVE  \/ leases[l].st = "applied"
                      \/ sessions[r].ring # NoRing /\ l \in Entries(rings'[sessions[r].ring])
    BY <1>2, Zenon DEF KeptFor, EpochValid, Pending, Entries
  <2>1. CASE l \in D
    <3>1. EpochValid(r, e) /\ sessions[r].ring = i /\ i # NoRing
      BY <1>0, <1>1, <2>1 DEF CarriedBy, RingWrite, Ring, NoRing
    <3>2. i \notin fouled
      BY <1>5, <3>1, Zenon
    <3>. QED
      BY <1>4, <2>1, <3>1, <3>2, ZenonT(30)
  <2>2. CASE l \notin D
    <3>1. KeptFor(l, r) /\ sessions[r].ring \notin fouled
      BY <1>2, <1>5, <1>12, <2>2, Zenon DEF KeptInv
    <3> SUFFICES ASSUME sessions[r].ring # NoRing, l \in Pending(sessions[r].ring)
                 PROVE  l \in Entries(rings'[sessions[r].ring])
      BY <3>1, Zenon DEF KeptFor
    <3>2. CASE sessions[r].ring = i
      BY <1>4, <1>6, <3>2, Zenon DEF EpochValid
    <3>3. CASE sessions[r].ring # i
      <4>1. rings'[sessions[r].ring] = rings[sessions[r].ring]
        BY <1>4, <3>3, Zenon DEF KeptInv, HeldInv, Shape
      <4>. QED
        BY <4>1, Zenon DEF Pending, Entries
    <3>. QED
      BY <3>2, <3>3, Zenon
  <2>. QED
    BY <2>1, <2>2, Zenon
<1>. QED
  BY <1>7, <1>8, <1>9, <1>10, <1>11, <1>12, Zenon DEF KeptInv

(* The entry is written to a cell that the poller has already passed.      *)
LEMMA PushWriteKept ==
  ASSUME KeptInv, NEW e \in Epoch, PushWrite(e)
  PROVE  KeptInv'
<1> DEFINE a == agents[e]
           rg == rings[a.ring]
           c == a.seq % Capacity
           R == [rg EXCEPT !.cells = [rg.cells EXCEPT ![c] = Min(a.batch)]]
           b == [a EXCEPT !.pc = "publish"]
<1>1. a \in AgentRecord /\ CarriedBy(e)
  BY Zenon DEF KeptInv, Tables
<1>2. a.pc = "write" /\ a.ring \in Ring /\ a.batch # {}
  BY <1>1, Zenon DEF PushWrite, CarriedBy
<1>3. Min(a.batch) \in Lease
  BY <1>1, <1>2, OldestIn, Zenon DEF AgentRecord
<1>4. rg \in RingRecord /\ a.seq \in Nat /\ c \in 0 .. Capacity - 1
  BY <1>1, <1>2, SessionAssumption DEF KeptInv, Tables, AgentRecord
<1>5. rings' = [rings EXCEPT ![a.ring] = R] /\ agents' = [agents EXCEPT ![e] = b] /\ Foul(e)
      /\ UNCHANGED <<daemon, leases, unreported>> /\ offloaded' = offloaded \cup {}
  BY <1>2, <1>4, Zenon DEF PushWrite, KeptInv, Tables, RingRecord
<1>6. /\ R \in RingRecord /\ R.head = rg.head /\ R.tail = rg.tail /\ R.cells[c] = Min(a.batch)
      /\ \A k \in 0 .. Capacity - 1 : k # c => R.cells[k] = rg.cells[k]
  BY <1>3, <1>4, Zenon DEF RingRecord
<1>7. /\ b \in AgentRecord /\ b.pc = "publish" /\ b.rank = a.rank /\ b.ring = a.ring
      /\ b.inflight = a.inflight /\ b.batch = a.batch /\ b.over = a.over /\ b.seq = a.seq
  BY <1>1, Zenon DEF AgentRecord
<1>8. ~Ended(e)
  BY <1>2, Zenon DEF Ended
<1> HIDE DEF R, b
<1>9. rings'[a.ring] = R /\ agents'[e] = b /\ sessions' = sessions
  BY <1>2, <1>5, Zenon DEF KeptInv, Tables, daemon
<1>10. ASSUME NEW r \in Rank, EpochValid(r, e), sessions[r].ring = a.ring, a.ring \notin fouled
       PROVE  Disciplined(r)' /\ Pending(a.ring) \cup {} \subseteq Entries(R)
  <2>1. sessions[r].alive /\ sessions[r].epoch = e /\ a.ring # NoRing /\ Disciplined(r)
    BY <1>2, <1>10 DEF EpochValid, Ring, NoRing, KeptInv
  <2>2. rg.head <= rg.tail /\ a.seq = rg.tail /\ rg.tail - rg.head < Capacity
    BY <1>2, <1>10, <2>1, Zenon DEF Disciplined
  <2>3. rg.head \in Nat /\ rg.tail \in Nat /\ Capacity \in Nat \ {0}
    BY <1>4, SessionAssumption, Zenon DEF RingRecord
  <2> HIDE DEF a, rg, c
  <2>4. Disciplined(r)'
    <3>1. rings'[sessions'[r].ring] = R /\ agents'[sessions'[r].epoch] = b
      BY <1>9, <1>10, <2>1, Zenon
    <3>2. R.head <= R.tail /\ R.tail - R.head <= Capacity /\ b.seq = R.tail /\ R.tail - R.head < Capacity
      BY ONLY <1>4, <1>6, <1>7, <2>2, <2>3
    <3>3. R.cells[b.seq % Capacity] = Min(b.batch)
      BY ONLY <1>6, <1>7, Zenon DEF c
    <3>. QED
      BY ONLY <3>1, <3>2, <3>3, Zenon DEF Disciplined
  <2>5. ASSUME NEW k \in rg.head .. rg.tail - 1 PROVE rg.cells[k % Capacity] = R.cells[k % Capacity]
    <3>1. k \in Nat /\ k < a.seq /\ a.seq - k < Capacity
      BY ONLY <1>4, <2>2, <2>3
    <3>2. k % Capacity # c /\ k % Capacity \in 0 .. Capacity - 1
      BY <1>4, <2>3, <3>1, CellsDiffer, SMTT(20) DEF c
    <3>. QED
      BY <1>6, <3>2, Zenon
  <2>. QED
    BY <1>6, <2>4, <2>5, Zenon DEF Pending, Entries, rg
<1>. QED
  BY <1>2, <1>5, <1>6, <1>7, <1>8, <1>10, RingWriteKept, Zenon DEF RingWrite, NoMore

(* The tail is stored: the entry joins those that the poller will pop.     *)
LEMMA PushPublishKept ==
  ASSUME KeptInv, NEW e \in Epoch, PushPublish(e)
  PROVE  KeptInv'
<1> DEFINE a == agents[e]
           rg == rings[a.ring]
           l == Min(a.batch)
           R == [rg EXCEPT !.tail = a.seq + 1]
           b == [a EXCEPT !.pc = "push", !.batch = a.batch \ {l}, !.seq = 0]
<1>1. a \in AgentRecord /\ CarriedBy(e)
  BY Zenon DEF KeptInv, Tables
<1>2. a.pc = "publish" /\ a.ring \in Ring /\ a.batch # {}
  BY <1>1, Zenon DEF PushPublish, CarriedBy
<1>3. l \in a.batch
  BY <1>1, <1>2, OldestIn, Zenon DEF AgentRecord
<1>4. rg \in RingRecord /\ a.seq \in Nat
  BY <1>1, <1>2, Zenon DEF KeptInv, Tables, AgentRecord
<1>5. rings' = [rings EXCEPT ![a.ring] = R] /\ agents' = [agents EXCEPT ![e] = b] /\ Foul(e)
      /\ UNCHANGED <<daemon, leases, unreported>> /\ offloaded' = offloaded \cup {l}
  BY <1>2, <1>4, Zenon DEF PushPublish, KeptInv, Tables, RingRecord
<1>6. R \in RingRecord /\ R.head = rg.head /\ R.tail = a.seq + 1 /\ R.cells = rg.cells
  BY <1>4 DEF RingRecord
<1>7. /\ b \in AgentRecord /\ b.pc = "push" /\ b.rank = a.rank /\ b.ring = a.ring
      /\ b.inflight = a.inflight /\ b.batch \subseteq a.batch /\ b.over = a.over
  BY <1>1, Zenon DEF AgentRecord
<1>8. ~Ended(e)
  BY <1>2, Zenon DEF Ended
<1> HIDE DEF R, b, l
<1>9. rings'[a.ring] = R /\ agents'[e] = b /\ sessions' = sessions
  BY <1>2, <1>5, Zenon DEF KeptInv, Tables, daemon
<1>10. ASSUME NEW r \in Rank, EpochValid(r, e), sessions[r].ring = a.ring, a.ring \notin fouled
       PROVE  Disciplined(r)' /\ Pending(a.ring) \cup {l} \subseteq Entries(R)
  <2>1. sessions[r].alive /\ sessions[r].epoch = e /\ a.ring # NoRing /\ Disciplined(r)
    BY <1>2, <1>10 DEF EpochValid, Ring, NoRing, KeptInv
  <2>2. rg.head <= rg.tail /\ a.seq = rg.tail /\ rg.tail - rg.head < Capacity
        /\ rg.cells[a.seq % Capacity] = l
    BY <1>2, <1>10, <2>1, Zenon DEF Disciplined, l
  <2>3. Disciplined(r)'
    <3>1. /\ rings'[sessions'[r].ring] = R /\ agents'[sessions'[r].epoch] = b
          /\ R.head <= R.tail /\ R.tail - R.head <= Capacity /\ b.pc = "push"
      <4>1. rings'[sessions'[r].ring] = R /\ agents'[sessions'[r].epoch] = b
        BY <1>9, <1>10, <2>1, Zenon
      <4>2. rg.head \in Nat /\ rg.tail \in Nat /\ Capacity \in Nat
        BY <1>4, SessionAssumption, Zenon DEF RingRecord
      <4> HIDE DEF a, rg
      <4>3. R.head <= R.tail /\ R.tail - R.head <= Capacity
        BY ONLY <1>6, <2>2, <4>2, SMTT(20)
      <4>. QED
        BY <1>7, <4>1, <4>3, Zenon
    <3>. QED
      BY ONLY <3>1, ZenonT(30) DEF Disciplined
  <2>4. rg.head .. rg.tail - 1 \subseteq R.head .. R.tail - 1 /\ a.seq \in R.head .. R.tail - 1
    BY <1>4, <1>6, <2>2 DEF RingRecord
  <2>. QED
    BY <1>6, <2>2, <2>3, <2>4, Zenon DEF Pending, Entries
<1>. QED
  BY <1>2, <1>3, <1>5, <1>6, <1>7, <1>8, <1>10, RingWriteKept, Zenon DEF RingWrite, NoMore

(* What the poller pops from an unfouled ring of a live session is applied. *)
LEMMA PollPopKept ==
  ASSUME KeptInv, NEW i \in Ring, PollPop(i)
  PROVE  KeptInv'
<1> DEFINE rg == rings[i]
           l0 == rg.cells[rg.head % Capacity]
           R == [rg EXCEPT !.head = rg.head + 1]
<1>1. rg \in RingRecord /\ rg.head \in Nat /\ rg.tail \in Nat
  BY Zenon DEF KeptInv, Tables, RingRecord
<1>2. /\ sessions' = sessions /\ ringOwner' = ringOwner /\ header' = header
      /\ nextEpoch' = nextEpoch /\ timedOut' = timedOut /\ agents' = agents
      /\ offloaded' = offloaded /\ fouled' = fouled /\ unreported' = unreported
  BY Zenon DEF PollPop, daemon
<1>3. /\ rg.head # rg.tail /\ Apply(header[i].owner, header[i].epoch, {l0})
      /\ rings' = [rings EXCEPT ![i] = R]
  BY Zenon DEF PollPop, KeptInv, Tables
<1>4. R \in RingRecord /\ R.head = rg.head + 1 /\ R.tail = rg.tail /\ R.cells = rg.cells
  BY <1>1 DEF RingRecord
<1> HIDE DEF R
<1>5. rings' \in [Ring -> RingRecord] /\ rings'[i] = R /\ \A k \in Ring \ {i} : rings'[k] = rings[k]
  BY <1>3, <1>4, Zenon DEF KeptInv, Tables
<1>6. /\ leases' \in Seq(LeaseRecord) /\ Len(leases') = Len(leases)
      /\ DOMAIN leases' = DOMAIN leases
      /\ \A l \in DOMAIN leases :
           /\ leases'[l].rank = leases[l].rank /\ leases'[l].epoch = leases[l].epoch
           /\ leases[l].st # "gone" => leases'[l].st # "gone"
           /\ leases[l].st = "applied" => leases'[l].st = "applied"
           /\ l = l0 /\ EpochValid(header[i].owner, header[i].epoch)
                /\ leases[l].rank = header[i].owner /\ leases[l].st # "gone" => leases'[l].st = "applied"
  <2>1. Tables
    BY Zenon DEF KeptInv
  <2>. QED
    BY <1>3, <2>1, ApplyLeases, ZenonT(30)
<1>7. HeldInv'
  BY <1>2, Zenon DEF KeptInv, HeldInv, Shape, RingsHeld
<1>8. Tables'
  BY <1>2, <1>5, <1>6, Zenon DEF KeptInv, Tables
<1>9. Registered'
  <2>1. Registered
    BY Zenon DEF KeptInv
  <2>. QED
    BY ONLY <1>2, <1>6, <2>1 DEF Registered, EpochValid
<1>10. \A d \in Epoch : CarriedBy(d)'
  BY <1>2, <1>6 DEF KeptInv, CarriedBy, Ended, EpochValid
<1>11. ASSUME NEW r \in Rank PROVE Disciplined(r)'
  <2> SUFFICES ASSUME sessions[r].alive, sessions[r].ring # NoRing, sessions[r].ring \notin fouled
               PROVE  Disciplined(r)'
    BY <1>2, Zenon DEF Disciplined
  <2> DEFINE a == agents[sessions[r].epoch]
  <2>1. Disciplined(r) /\ sessions[r].ring \in Ring
    BY Zenon DEF KeptInv, HeldInv, Shape
  <2>2. CASE sessions[r].ring = i
    <3>1. /\ rg.head <= rg.tail /\ rg.tail - rg.head <= Capacity
          /\ a.pc \in {"write", "publish"} => a.seq = rg.tail /\ rg.tail - rg.head < Capacity
          /\ a.pc = "publish" => rg.cells[a.seq % Capacity] = Min(a.batch)
      BY <2>1, <2>2, Zenon DEF Disciplined
    <3> HIDE DEF a, rg
    <3>2. /\ R.head <= R.tail /\ R.tail - R.head <= Capacity
          /\ a.pc \in {"write", "publish"} => a.seq = R.tail /\ R.tail - R.head < Capacity
          /\ a.pc = "publish" => R.cells[a.seq % Capacity] = Min(a.batch)
      BY <1>1, <1>3, <1>4, <3>1, SessionAssumption
    <3>3. rings'[sessions'[r].ring] = R /\ agents'[sessions'[r].epoch] = a
      BY <1>2, <1>5, <2>2, Zenon DEF a
    <3>. QED
      BY ONLY <3>2, <3>3, Zenon DEF Disciplined
  <2>3. CASE sessions[r].ring # i
    <3>1. rings'[sessions[r].ring] = rings[sessions[r].ring]
      BY <1>5, <2>1, <2>3, Zenon
    <3>. QED
      BY <1>2, <2>1, <3>1, Zenon DEF Disciplined
  <2>. QED
    BY <2>2, <2>3, Zenon
<1>12. ASSUME NEW l \in offloaded' \ unreported', NEW r \in Rank PROVE KeptFor(l, r)'
  <2>1. l \in DOMAIN leases /\ KeptFor(l, r)
    BY <1>2, <1>12, Zenon DEF KeptInv, Tables
  <2> SUFFICES ASSUME EpochValid(r, leases[l].epoch), sessions[r].ring \notin fouled
               PROVE  \/ leases'[l].st = "applied"
                      \/ sessions[r].ring # NoRing /\ l \in Entries(rings'[sessions[r].ring])
    BY <1>2, <1>6, <2>1, Zenon DEF KeptFor, EpochValid, Pending, Entries
  <2> SUFFICES ASSUME sessions[r].ring # NoRing, l \in Entries(rings[sessions[r].ring])
               PROVE  leases'[l].st = "applied" \/ l \in Entries(rings'[sessions[r].ring])
    BY <1>6, <2>1, Zenon DEF KeptFor, Pending, Entries
  <2>2. CASE sessions[r].ring = i
    <3>1. PICK k \in rg.head .. rg.tail - 1 : l = rg.cells[k % Capacity]
      BY <2>2, Zenon DEF Entries
    <3>2. CASE k = rg.head
      <4>1. header[i] = [owner |-> r, epoch |-> leases[l].epoch]
        BY <2>2, Zenon DEF KeptInv, HeldInv, RingsHeld, EpochValid
      <4>2. leases[l].rank = r /\ leases[l].st # "gone"
        BY <2>1, ZenonT(30) DEF KeptInv, Registered
      <4>3. l = l0 /\ header[i].owner = r /\ EpochValid(header[i].owner, header[i].epoch)
        <5>1. l = l0
          BY <3>1, <3>2, Zenon
        <5>2. header[i].owner = r /\ header[i].epoch = leases[l].epoch
          BY ONLY <4>1
        <5>. QED
          BY <5>1, <5>2, Zenon
      <4> HIDE DEF l0
      <4>. QED
        BY ONLY <1>6, <2>1, <4>2, <4>3, ZenonT(30)
    <3>3. CASE k # rg.head
      <4>1. k \in R.head .. R.tail - 1
        BY <1>1, <1>4, <3>3
      <4>2. l = R.cells[k % Capacity]
        BY <1>4, <3>1, Zenon
      <4>3. l \in Entries(R)
        BY ONLY <4>1, <4>2, Zenon DEF Entries
      <4>. QED
        BY <1>5, <2>2, <4>3, Zenon
    <3>. QED
      BY <3>2, <3>3, Zenon
  <2>3. CASE sessions[r].ring # i
    BY <1>5, <2>3, Zenon DEF KeptInv, HeldInv, Shape
  <2>. QED
    BY <2>2, <2>3, Zenon
<1>. QED
  BY <1>7, <1>8, <1>9, <1>10, <1>11, <1>12, Zenon DEF KeptInv

(* A session that times out has nothing left to keep.                      *)
LEMMA TimeoutKept ==
  ASSUME KeptInv, NEW q \in Rank, HeartbeatTimeout(q)
  PROVE  KeptInv'
<1>1. /\ ringOwner' = ringOwner /\ header' = header /\ nextEpoch' = nextEpoch
      /\ rings' = rings /\ agents' = agents /\ unreported' = unreported
      /\ offloaded' = offloaded /\ fouled' = fouled
      /\ sessions[q].alive /\ Recover({sessions[q].epoch})
      /\ sessions' = [sessions EXCEPT ![q].alive = FALSE]
  BY Zenon DEF HeartbeatTimeout
<1>2. HeldInv'
  BY TimeoutHeld, Zenon DEF KeptInv
<1>3. /\ ~sessions'[q].alive /\ sessions'[q].epoch = sessions[q].epoch
      /\ \A r \in Rank \ {q} : sessions'[r] = sessions[r]
  BY <1>1, Zenon DEF KeptInv, HeldInv, Shape
<1>4. /\ leases' \in Seq(LeaseRecord) /\ Len(leases') = Len(leases)
      /\ DOMAIN leases' = DOMAIN leases
      /\ \A l \in DOMAIN leases :
           /\ leases'[l].rank = leases[l].rank /\ leases'[l].epoch = leases[l].epoch
           /\ leases[l].epoch # sessions[q].epoch => leases'[l] = leases[l]
  <2>1. Tables
    BY Zenon DEF KeptInv
  <2>. QED
    BY <1>1, <2>1, RecoverLeases
<1>5. ASSUME NEW r \in Rank, sessions'[r].alive
      PROVE  r # q /\ sessions'[r] = sessions[r] /\ sessions[r].epoch # sessions[q].epoch
  BY <1>1, <1>3, <1>5, Zenon DEF KeptInv, Registered
<1>6. Tables'
  BY <1>1, <1>4, Zenon DEF KeptInv, Tables
<1>7. Registered'
  <2>1. \A r \in Rank : sessions'[r].epoch = sessions[r].epoch
    BY <1>3, Zenon
  <2>. QED
    BY <1>1, <1>4, <1>5, <2>1 DEF KeptInv, Registered, EpochValid
<1>8. \A d \in Epoch : CarriedBy(d)'
  BY <1>1, <1>4, <1>5 DEF KeptInv, CarriedBy, Ended, EpochValid
<1>9. ASSUME NEW r \in Rank PROVE Disciplined(r)'
  <2> SUFFICES ASSUME sessions'[r].alive PROVE Disciplined(r)'
    BY Zenon DEF Disciplined
  <2>1. sessions'[r] = sessions[r] /\ Disciplined(r)
    BY <1>5, Zenon DEF KeptInv
  <2>2. rings' = rings /\ agents' = agents /\ fouled' = fouled
    BY <1>1, ZenonT(30)
  <2>. QED
    BY ONLY <2>1, <2>2, Zenon DEF Disciplined
<1>10. ASSUME NEW l \in offloaded' \ unreported', NEW r \in Rank PROVE KeptFor(l, r)'
  <2>1. l \in DOMAIN leases /\ KeptFor(l, r)
    BY <1>1, <1>10, Zenon DEF KeptInv, Tables
  <2> SUFFICES ASSUME sessions'[r].alive, sessions'[r].epoch = leases'[l].epoch PROVE KeptFor(l, r)'
    BY Zenon DEF KeptFor, EpochValid
  <2>2. sessions'[r] = sessions[r] /\ leases'[l] = leases[l]
    BY <1>4, <1>5, <2>1, Zenon
  <2>. QED
    BY <1>1, <2>1, <2>2 DEF KeptFor, EpochValid, Pending
<1>. QED
  BY <1>2, <1>6, <1>7, <1>8, <1>9, <1>10, Zenon DEF KeptInv

(* handle_register starts a session with an epoch that no lease has, and   *)
(* with a ring that no live session has; what it lets go was the rings and *)
(* the leases of sessions that it ends.                                    *)
LEMMA RegisterKept ==
  ASSUME KeptInv, NEW r \in Rank, NEW p \in Pid, Register(r, p)
  PROVE  KeptInv'
<1> DEFINE old == Replaced(r, p)
           freed == {sessions[q].ring : q \in old}
           owner == [i \in Ring |-> IF i \in freed THEN NoRank ELSE ringOwner[i]]
           E == {sessions[q].epoch : q \in old}
           n == nextEpoch
<1>1. PICK mine \in Ring \cup {NoRing} :
        /\ FirstFree(owner, mine)
        /\ rings' = [i \in Ring |->
             IF i = mine THEN [rings[i] EXCEPT !.head = 0, !.tail = 0]
             ELSE IF i \in freed THEN Emptied(rings[i]) ELSE rings[i]]
        /\ fouled' = fouled \ {mine}
        /\ sessions' = [q \in Rank |->
             IF q = r THEN [epoch |-> n, pid |-> p, alive |-> TRUE, ring |-> mine]
             ELSE IF q \in old THEN [sessions[q] EXCEPT !.alive = FALSE] ELSE sessions[q]]
        /\ agents' = [agents EXCEPT ![n] =
             [NoAgent EXCEPT !.pc = "attach", !.rank = r, !.pid = p, !.ring = mine]]
  BY ZenonT(30) DEF Register
<1>2. /\ n \in Epoch /\ nextEpoch' = n + 1 /\ n \in Nat \ {0} /\ Recover(E)
      /\ offloaded' = offloaded /\ unreported' = unreported /\ fouled' = fouled \ {mine}
  <2>1. n \in Epoch /\ nextEpoch' = n + 1 /\ Recover(E) /\ UNCHANGED <<offloaded, timedOut, unreported>>
    BY ZenonT(30) DEF Register
  <2>2. n \in Nat \ {0}
    BY Zenon DEF KeptInv, Tables
  <2>3. fouled' = fouled \ {mine}
    BY <1>1, Zenon
  <2>. QED
    BY ONLY <2>1, <2>2, <2>3, Zenon
<1>3. HeldInv'
  BY RegisterHeld, Zenon DEF KeptInv
<1>4. /\ leases' \in Seq(LeaseRecord) /\ Len(leases') = Len(leases)
      /\ DOMAIN leases' = DOMAIN leases
      /\ \A l \in DOMAIN leases :
           /\ leases'[l].rank = leases[l].rank /\ leases'[l].epoch = leases[l].epoch
           /\ leases[l].epoch \notin E => leases'[l] = leases[l]
  <2>1. Tables
    BY Zenon DEF KeptInv
  <2>. QED
    BY <1>2, <2>1, RecoverLeases, Zenon
<1> DEFINE b == [NoAgent EXCEPT !.pc = "attach", !.rank = r, !.pid = p, !.ring = mine]
<1>5. /\ b \in AgentRecord /\ b.pc = "attach" /\ b.rank = r /\ b.ring = mine
      /\ b.inflight = {} /\ b.batch = {} /\ b.over = {}
  BY SessionAssumption, Zenon DEF AgentRecord, NoAgent
<1> HIDE DEF b
<1>6. /\ agents' \in [Epoch -> AgentRecord] /\ agents'[n] = b
      /\ \A d \in Epoch \ {n} : agents'[d] = agents[d]
  BY <1>1, <1>2, <1>5, Zenon DEF KeptInv, Tables, b
<1>7. /\ sessions'[r].alive /\ sessions'[r].epoch = n /\ sessions'[r].ring = mine
      /\ \A q \in Rank : sessions[q].epoch < n /\ sessions'[q].epoch <= n
  <2>1. \A q \in Rank : sessions[q].epoch \in Nat /\ sessions[q].epoch < n
    BY Zenon DEF KeptInv, HeldInv, Shape, Registered
  <2>2. sessions'[r].alive /\ sessions'[r].epoch = n /\ sessions'[r].ring = mine
    BY <1>1, Zenon
  <2>3. ASSUME NEW q \in Rank PROVE sessions'[q].epoch <= n
    <3>1. sessions'[q].epoch \in {n, sessions[q].epoch}
      BY <1>1, ZenonT(30) DEF KeptInv, HeldInv, Shape
    <3>2. n \in Nat /\ sessions[q].epoch \in Nat /\ sessions[q].epoch < n
      BY <1>2, <2>1, Zenon
    <3> HIDE DEF n
    <3>. QED
      BY ONLY <3>1, <3>2
  <2>. QED
    BY <2>1, <2>2, <2>3, Zenon
<1>8. ASSUME NEW q \in Rank, q # r, sessions'[q].alive
      PROVE  /\ sessions'[q] = sessions[q] /\ sessions[q].alive
             /\ sessions[q].epoch \notin E /\ sessions[q].epoch \in Epoch \ {n}
             /\ sessions[q].ring # NoRing =>
                  /\ rings'[sessions[q].ring] = rings[sessions[q].ring]
                  /\ sessions[q].ring # mine
  <2>1. q \notin old /\ sessions'[q] = sessions[q]
    BY <1>1, <1>8, Zenon DEF KeptInv, HeldInv, Shape
  <2>2. sessions[q].alive
    BY <1>8, <2>1, Zenon
  <2>3. sessions[q].epoch \notin E
    BY <2>1, <2>2, Zenon DEF Replaced, KeptInv, Registered
  <2>4. sessions[q].epoch \in Epoch \ {n}
    BY <1>2, <1>7, <2>2, SessionAssumption DEF KeptInv, Registered, Epoch
  <2>5. ASSUME sessions[q].ring # NoRing
        PROVE  rings'[sessions[q].ring] = rings[sessions[q].ring] /\ sessions[q].ring # mine
    <3>1. sessions[q].ring \in Ring /\ ringOwner[sessions[q].ring] = q
      BY <2>2, <2>5, Zenon DEF KeptInv, HeldInv, Shape, RingsHeld
    <3>2. sessions[q].ring \notin freed
      <4> SUFFICES ASSUME NEW o \in old, sessions[o].ring = sessions[q].ring PROVE FALSE
        BY Zenon
      <4>1. o \in Rank /\ sessions[o].alive
        BY Zenon DEF Replaced
      <4>2. ringOwner[sessions[o].ring] = o
        BY <2>5, <4>1, Zenon DEF KeptInv, HeldInv, RingsHeld
      <4>. QED
        BY <2>1, <3>1, <4>2, Zenon
    <3>3. sessions[q].ring # mine
      <4>1. FirstFree(owner, mine)
        BY <1>1, Zenon
      <4>2. owner[sessions[q].ring] # NoRank
        BY <3>1, <3>2, SessionAssumption, Zenon
      <4> HIDE DEF owner
      <4>. QED
        BY ONLY <3>1, <4>1, <4>2 DEF FirstFree, NoRing, Ring
    <3>. QED
      BY <1>1, <3>1, <3>2, <3>3, Zenon
  <2>. QED
    BY <2>1, <2>2, <2>3, <2>4, <2>5, Zenon
<1>9. Tables'
  <2>1. \A i \in Ring : rings'[i] \in RingRecord
    BY <1>1, ZenonT(30) DEF KeptInv, Tables, RingRecord, Emptied
  <2>2. rings' \in [Ring -> RingRecord]
    BY <1>1, <2>1, Zenon
  <2>3. nextEpoch' \in Nat \ {0} /\ offloaded' \subseteq DOMAIN leases' /\ fouled' \subseteq Ring
    BY <1>2, <1>4 DEF KeptInv, Tables
  <2>. QED
    BY <1>4, <1>6, <2>2, <2>3, Zenon DEF KeptInv, Tables
<1>10. Registered'
  <2>1. \A q \in Rank : sessions'[q].epoch < nextEpoch' /\ (sessions'[q].alive => sessions'[q].epoch \in Epoch)
    <3>1. \A q \in Rank : sessions'[q].epoch \in Nat
      BY <1>3, ZenonT(30) DEF HeldInv, Shape
    <3>. QED
      BY <1>2, <1>7, <1>8, <3>1
  <2>2. \A q, o \in Rank :
          sessions'[q].alive /\ sessions'[o].alive /\ sessions'[q].epoch = sessions'[o].epoch => q = o
    BY <1>7, <1>8 DEF KeptInv, Registered
  <2>3. ASSUME NEW l \in DOMAIN leases PROVE leases[l].epoch \in Nat /\ leases[l].epoch < n
    <3>1. leases \in Seq(LeaseRecord) /\ leases[l].epoch < n
      BY Zenon DEF KeptInv, Registered, Tables
    <3>2. leases[l] \in LeaseRecord
      BY <3>1
    <3>. QED
      BY <3>1, <3>2, SessionAssumption DEF LeaseRecord, Epoch
  <2>4. ASSUME NEW l \in DOMAIN leases, NEW q \in Rank,
               sessions'[q].alive, sessions'[q].epoch = leases'[l].epoch
        PROVE  leases'[l].rank = q /\ leases'[l].st # "gone"
    <3>1. q # r
      BY <1>4, <1>7, <2>3, <2>4
    <3>2. leases'[l] = leases[l] /\ EpochValid(q, leases[l].epoch)
      BY <1>4, <1>8, <2>4, <3>1 DEF EpochValid
    <3>. QED
      BY <3>2, Zenon DEF KeptInv, Registered
  <2>5. \A l \in DOMAIN leases : leases'[l].epoch < nextEpoch'
    BY <1>2, <1>4, <2>3
  <2>. QED
    BY ONLY <1>4, <2>1, <2>2, <2>4, <2>5, ZenonT(30) DEF Registered, EpochValid
<1>11. ASSUME NEW d \in Epoch PROVE CarriedBy(d)'
  <2>1. CASE d = n
    <3>1. \A q \in Rank : sessions'[q].alive /\ sessions'[q].epoch = n => q = r
      BY <1>7, <1>8, ZenonT(30)
    <3>. QED
      BY <1>5, <1>6, <1>7, <2>1, <3>1, Zenon DEF CarriedBy, Ended, EpochValid
  <2>2. CASE d # n
    <3>1. agents'[d] = agents[d] /\ CarriedBy(d)
      BY <1>6, <2>2, Zenon DEF KeptInv
    <3>2. \A q \in Rank : sessions'[q].alive /\ sessions'[q].epoch = d =>
            sessions'[q] = sessions[q] /\ EpochValid(q, d)
      BY <1>7, <1>8, <2>2, Zenon DEF EpochValid
    <3>. QED
      BY ONLY <1>4, <3>1, <3>2 DEF CarriedBy, Ended, EpochValid
  <2>. QED
    BY <2>1, <2>2, Zenon
<1>12. ASSUME NEW q \in Rank PROVE Disciplined(q)'
  <2> SUFFICES ASSUME sessions'[q].alive, sessions'[q].ring # NoRing, sessions'[q].ring \notin fouled'
               PROVE  Disciplined(q)'
    BY Zenon DEF Disciplined
  <2>1. CASE q = r
    <3>1. mine \in Ring /\ sessions'[q].ring = mine /\ agents'[sessions'[q].epoch] = b
      BY <1>6, <1>7, <2>1, Zenon
    <3>2. rings'[mine] = [rings[mine] EXCEPT !.head = 0, !.tail = 0] /\ rings[mine] \in RingRecord
      BY <1>1, <3>1, Zenon DEF KeptInv, Tables
    <3>3. rings'[mine].head = 0 /\ rings'[mine].tail = 0
      BY <3>2, Zenon DEF RingRecord
    <3>. QED
      BY ONLY <1>5, <3>1, <3>3, SessionAssumption DEF Disciplined
  <2>2. CASE q # r
    <3>1. /\ sessions'[q] = sessions[q] /\ rings'[sessions[q].ring] = rings[sessions[q].ring]
          /\ agents'[sessions[q].epoch] = agents[sessions[q].epoch]
          /\ sessions[q].ring \notin fouled
      <4>1. sessions'[q] = sessions[q] /\ sessions[q].epoch \in Epoch \ {n}
        BY <1>8, <2>2, ZenonT(30)
      <4>2. rings'[sessions[q].ring] = rings[sessions[q].ring] /\ sessions[q].ring # mine
        BY <1>8, <2>2, <4>1, ZenonT(30)
      <4>3. agents'[sessions[q].epoch] = agents[sessions[q].epoch]
        BY <1>6, <4>1, ZenonT(30)
      <4>4. sessions[q].ring \notin fouled
        BY <1>2, <4>1, <4>2, ZenonT(30)
      <4>. QED
        BY <4>1, <4>2, <4>3, <4>4, Zenon
    <3>2. Disciplined(q)
      BY Zenon DEF KeptInv
    <3>. QED
      BY ONLY <3>1, <3>2, Zenon DEF Disciplined
  <2>. QED
    BY <2>1, <2>2, Zenon
<1>13. ASSUME NEW l \in offloaded' \ unreported', NEW q \in Rank PROVE KeptFor(l, q)'
  <2>1. l \in DOMAIN leases /\ KeptFor(l, q) /\ leases[l].epoch # n
    BY <1>2, <1>13 DEF KeptInv, Tables, Registered
  <2> SUFFICES ASSUME sessions'[q].alive, sessions'[q].epoch = leases'[l].epoch,
                      sessions'[q].ring \notin fouled'
               PROVE  KeptFor(l, q)'
    BY Zenon DEF KeptFor, EpochValid
  <2>2. q # r
    BY <1>4, <1>7, <2>1, ZenonT(30)
  <2>3. /\ sessions'[q] = sessions[q] /\ leases'[l] = leases[l]
        /\ sessions[q].ring # NoRing => rings'[sessions[q].ring] = rings[sessions[q].ring]
        /\ sessions[q].ring \notin fouled
    <3>1. sessions[q].ring # mine \/ sessions[q].ring = NoRing
      BY <1>8, <2>2, Zenon
    <3>2. NoRing \notin fouled
      BY DEF KeptInv, Tables, Ring, NoRing
    <3>. QED
      BY <1>2, <1>4, <1>8, <2>1, <2>2, <3>1, <3>2
  <2>. QED
    BY ONLY <2>1, <2>3, Zenon DEF KeptFor, EpochValid, Pending
<1>. QED
  BY <1>3, <1>9, <1>10, <1>11, <1>12, <1>13, Zenon DEF KeptInv

(* Every step keeps the invariant.                                         *)
LEMMA NextKept == KeptInv /\ [Next]_vars => KeptInv'
<1> SUFFICES ASSUME KeptInv, [Next]_vars PROVE KeptInv'
  BY Zenon
<1>1. CASE \E r \in Rank, p \in Pid : Register(r, p)
  BY <1>1, RegisterKept, Zenon
<1>2. CASE \E r \in Rank : HeartbeatTimeout(r)
  BY <1>2, TimeoutKept, Zenon
<1>3. CASE \E i \in Ring : PollPop(i)
  BY <1>3, PollPopKept, Zenon
<1>4. ASSUME NEW e \in Epoch, Progress(e) PROVE KeptInv'
  BY <1>4, QuietStepKept, PushLoadKept, PushWriteKept, PushPublishKept, FlushEndKept, CloseKept, Zenon
  DEF Progress
<1>5. ASSUME NEW e \in Epoch,
             AttachFails(e) \/ Evict(e) \/ Stop(e) \/ \E l \in agents[e].inflight : EventError(e, l)
      PROVE  KeptInv'
  BY <1>5, QuietStepKept, EvictKept, Zenon
<1>6. CASE \E p \in Pid : Crash(p)
  BY <1>6, CrashKept, Zenon
<1>7. CASE UNCHANGED vars
  <2>1. /\ sessions' = sessions /\ ringOwner' = ringOwner /\ header' = header /\ rings' = rings
        /\ nextEpoch' = nextEpoch /\ leases' = leases /\ agents' = agents /\ offloaded' = offloaded
        /\ fouled' = fouled /\ timedOut' = timedOut /\ unreported' = unreported
    BY <1>7, ZenonT(30) DEF vars
  <2>2. HeldInv' /\ Tables' /\ Registered'
    BY <2>1 DEF KeptInv, HeldInv, Shape, RingsHeld, Tables, Registered, EpochValid
  <2>3. ASSUME NEW e \in Epoch PROVE CarriedBy(e)'
    <3>1. CarriedBy(e)
      BY Zenon DEF KeptInv
    <3>. QED
      BY ONLY <2>1, <3>1, Zenon DEF CarriedBy, Ended, EpochValid
  <2>4. ASSUME NEW r \in Rank PROVE Disciplined(r)'
    <3>1. Disciplined(r)
      BY Zenon DEF KeptInv
    <3>. QED
      BY ONLY <2>1, <3>1, Zenon DEF Disciplined
  <2>5. ASSUME NEW l \in offloaded' \ unreported', NEW r \in Rank PROVE KeptFor(l, r)'
    <3>1. KeptFor(l, r)
      BY <2>1, <2>5, Zenon DEF KeptInv
    <3>. QED
      BY ONLY <2>1, <3>1, Zenon DEF KeptFor, EpochValid, Pending
  <2>. QED
    BY <2>2, <2>3, <2>4, <2>5, Zenon DEF KeptInv
<1>. QED
  BY <1>1, <1>2, <1>3, <1>4, <1>5, <1>6, <1>7, Zenon DEF Next

(* Whatever the order of registrations, timeouts, crashes, pushes and      *)
(* polls: a completion that an agent has handed to its ring or to an RPC   *)
(* that has not failed is applied or waits in the session's ring, as long  *)
(* as the session lives and no agent of a former session has written to    *)
(* that ring (flush_completions_batch, ring_poller_loop, handle_register). *)
THEOREM CompletionsNotLost == Spec => []CompletionsKept
<1>1. KeptInv => CompletionsKept
  <2> SUFFICES ASSUME KeptInv, NEW l \in offloaded \ unreported,
                      Live(leases[l].epoch), RingOf(leases[l].epoch) \notin fouled
               PROVE  \/ leases[l].st = "applied"
                      \/ /\ RingOf(leases[l].epoch) # NoRing
                         /\ l \in Pending(RingOf(leases[l].epoch))
    BY Zenon DEF CompletionsKept
  <2> DEFINE r == CHOOSE q \in Rank : EpochValid(q, leases[l].epoch)
  <2>1. r \in Rank /\ EpochValid(r, leases[l].epoch) /\ RingOf(leases[l].epoch) = sessions[r].ring
    BY Zenon DEF Live, RingOf
  <2>2. KeptFor(l, r)
    BY <2>1, Zenon DEF KeptInv
  <2>. QED
    BY <2>1, <2>2, Zenon DEF KeptFor
<1>. QED
  BY InitKept, NextKept, <1>1, PTL DEF Spec
=============================================================================
