---------------------------- MODULE SessionRings ----------------------------
(***************************************************************************)
(* How rank sessions share the daemon's completion rings: handle_register, *)
(* the heartbeat monitor and the ring poller of the daemon                 *)
(* (src/src/daemon/daemon.cpp), and the life of an agent, from its         *)
(* constructor over its progress thread to its destructor or its crash     *)
(* (src/src/agent/agent.cpp).                                              *)
(*                                                                         *)
(* Module CompletionRing is one ring with one producer.  Here a ring goes  *)
(* from session to session, and an agent that the daemon has given up may  *)
(* still run and push into a ring that is no longer its own.  A daemon     *)
(* step is a critical section of mu_; a producer's step is an access to    *)
(* the ring.  An agent is named by the epoch of its session.  A completion *)
(* is the id of its lease; D2H and H2D completions travel alike, and those *)
(* of an agent in the order of their leases.  What becomes of an applied   *)
(* lease is module OffloadDaemon's.                                        *)
(***************************************************************************)
EXTENDS Integers, Sequences, FiniteSetsExt

CONSTANTS
  Rank, Pid, NoRank,   \* rank ids, processes, and 0xFFFFFFFF of owner_rank
  MaxRings,            \* completion_ring_max_ranks
  Capacity,            \* entries of a ring
  MaxEpoch,            \* bound on the registrations
  Caller,              \* the ranks and processes that may register, by epoch
  MaxLease,            \* bound on the leases
  MaxIndex,            \* bound on a free-running ring index
  Faults               \* of "crash", "stall", "zombie", "rpc", "cuda"

ASSUME SessionAssumption ==
  /\ NoRank \notin Rank
  /\ MaxRings \in Nat /\ Capacity \in Nat \ {0, 1}
  /\ MaxEpoch \in Nat /\ MaxLease \in Nat /\ MaxIndex \in Nat
  /\ Caller \in [1 .. MaxEpoch -> SUBSET (Rank \X Pid)]
  /\ Faults \subseteq {"crash", "stall", "zombie", "rpc", "cuda"}

Ring == 1 .. MaxRings
NoRing == 0               \* ring_index 0xFFFFFFFF: completions go by RPC
Epoch == 1 .. MaxEpoch
Lease == 1 .. MaxLease
NoLease == 0              \* a zeroed entry

VARIABLES
  sessions,    \* sessions_
  ringOwner,   \* ring_owner_
  header,      \* owner_rank and rank_epoch of the rings
  rings,       \* indices and entries of the rings
  nextEpoch,   \* next_rank_epoch_
  leases,      \* the lease ids granted so far, in order
  agents,      \* the agents, by epoch
  offloaded,   \* the leases that their agent has finalized
  fouled,      \* rings that another than their owner has written (history)
  timedOut,    \* epochs that the heartbeat monitor has ended (history)
  unreported   \* leases whose event or whose RPC has failed (history)

daemon == <<sessions, ringOwner, header, nextEpoch, timedOut>>
vars == <<sessions, ringOwner, header, rings, nextEpoch, leases, agents, offloaded, fouled,
          timedOut, unreported>>

NoSession == [epoch |-> 0, pid |-> 0, alive |-> FALSE, ring |-> NoRing]
Unassigned == [owner |-> NoRank, epoch |-> 0]
NoAgent == [pc |-> "none", rank |-> NoRank, pid |-> 0, ring |-> NoRing,
            inflight |-> {}, batch |-> {}, over |-> {}, seq |-> 0]

(* Agents that are done: the destructor has run, or the process is dead.   *)
Ended(e) == agents[e].pc \in {"none", "ended", "crashed"}

Init ==
  /\ sessions = [r \in Rank |-> NoSession]
  /\ ringOwner = [i \in Ring |-> NoRank]
  /\ header = [i \in Ring |-> Unassigned]
  /\ rings = [i \in Ring |-> [head |-> 0, tail |-> 0,
                              cells |-> [c \in 0 .. Capacity - 1 |-> NoLease]]]
  /\ nextEpoch = 1
  /\ leases = <<>>
  /\ agents = [e \in Epoch |-> NoAgent]
  /\ offloaded = {} /\ fouled = {} /\ timedOut = {} /\ unreported = {}
----------------------------------------------------------------------------
(* The daemon.                                                             *)

EpochValid(r, e) == sessions[r].alive /\ sessions[r].epoch = e

(* apply_d2h_complete: the completions in S, reported for rank r at epoch  *)
(* e.  The lease must still be there, with the rank as its owner.          *)
Apply(r, e, S) ==
  leases' = [l \in DOMAIN leases |->
               IF l \in S /\ EpochValid(r, e) /\ leases[l].rank = r /\ leases[l].st = "d2h"
               THEN [leases[l] EXCEPT !.st = "applied"] ELSE leases[l]]

(* The leases of the sessions with an epoch in E are recovered.            *)
Recover(E) ==
  leases' = [l \in DOMAIN leases |->
               IF leases[l].epoch \in E THEN [leases[l] EXCEPT !.st = "gone"] ELSE leases[l]]

(* Mutant: only sessions of the same process are replaced.                 *)
ReplacedByPid(r, p) == {q \in Rank : q # r /\ sessions[q].alive /\ sessions[q].pid = p}

(* The sessions that a registration of rank r by process p replaces.  One  *)
(* that the heartbeat monitor has ended is passed over.                    *)
Replaced(r, p) == {q \in Rank : sessions[q].alive /\ (q = r \/ sessions[q].pid = p)}

(* The loop for a free ring.                                               *)
FirstFree(owner, i) ==
  \/ i = NoRing /\ \A k \in Ring : owner[k] # NoRank
  \/ i \in Ring /\ owner[i] = NoRank /\ \A k \in 1 .. i - 1 : owner[k] # NoRank

(* What is left in a ring that is let go is popped and, since the session  *)
(* is no longer alive, rejected.  The loop ends only if the head is not    *)
(* beyond the tail; otherwise it pops 2^64 entries with mu_ held, and no   *)
(* registration of this model comes back from that.                        *)
Emptied(rg) == [rg EXCEPT !.head = rg.tail]

(* handle_register.  Without zombies a rank or a process registers again   *)
(* only when its former agents are gone.                                   *)
Register(r, p) ==
  /\ nextEpoch \in Epoch /\ <<r, p>> \in Caller[nextEpoch]
  /\ \/ "zombie" \in Faults
     \/ \A e \in Epoch : Ended(e) \/ (agents[e].rank # r /\ agents[e].pid # p)
  /\ LET old == Replaced(r, p)
         freed == {sessions[q].ring : q \in old}
         owner == [i \in Ring |-> IF i \in freed THEN NoRank ELSE ringOwner[i]]
     IN  /\ \A i \in freed \cap Ring : rings[i].head <= rings[i].tail
         /\ Recover({sessions[q].epoch : q \in old})
         /\ \E mine \in Ring \cup {NoRing} :
              /\ FirstFree(owner, mine)
              /\ ringOwner' = [i \in Ring |-> IF i = mine THEN r ELSE owner[i]]
              /\ header' = [i \in Ring |->
                   IF i = mine THEN [owner |-> r, epoch |-> nextEpoch]
                   ELSE IF i \in freed THEN Unassigned ELSE header[i]]
              /\ rings' = [i \in Ring |->
                   IF i = mine THEN [rings[i] EXCEPT !.head = 0, !.tail = 0]
                   ELSE IF i \in freed THEN Emptied(rings[i]) ELSE rings[i]]
              /\ fouled' = fouled \ {mine}
              /\ sessions' = [q \in Rank |->
                   IF q = r THEN [epoch |-> nextEpoch, pid |-> p, alive |-> TRUE, ring |-> mine]
                   ELSE IF q \in old THEN [sessions[q] EXCEPT !.alive = FALSE] ELSE sessions[q]]
              /\ agents' = [agents EXCEPT ![nextEpoch] =
                   [NoAgent EXCEPT !.pc = "attach", !.rank = r, !.pid = p, !.ring = mine]]
  /\ nextEpoch' = nextEpoch + 1
  /\ UNCHANGED <<offloaded, timedOut, unreported>>

(* heartbeat_loop: an agent keeps its session alive, and no other session, *)
(* until it has ended or, as a fault, its heartbeats are held up.          *)
Silent(r) == "stall" \in Faults \/ Ended(sessions[r].epoch)

(* heartbeat_monitor_loop finds that the heartbeats of r have stopped.     *)
(* The ring stays as it is.                                                *)
HeartbeatTimeout(r) ==
  /\ sessions[r].alive /\ Silent(r)
  /\ sessions' = [sessions EXCEPT ![r].alive = FALSE]
  /\ Recover({sessions[r].epoch})
  /\ timedOut' = timedOut \cup {sessions[r].epoch}
  /\ UNCHANGED <<ringOwner, header, rings, nextEpoch, agents, offloaded, fouled, unreported>>

(* Mutant: the last entry is taken for an empty ring.                      *)
PollPopLeavesOne(i) ==
  LET rg == rings[i] IN
  /\ ringOwner[i] # NoRank /\ header[i].epoch # 0
  /\ rg.head # rg.tail /\ rg.head + 1 # rg.tail /\ rg.head < MaxIndex
  /\ Apply(header[i].owner, header[i].epoch, {rg.cells[rg.head % Capacity]})
  /\ rings' = [rings EXCEPT ![i].head = rg.head + 1]
  /\ UNCHANGED <<daemon, agents, offloaded, fouled, unreported>>

(* ring_poller_loop pops one entry and applies it in the name of the       *)
(* ring's owner.  Stopping between two entries only models an entry that   *)
(* is published after the sweep.                                           *)
PollPop(i) ==
  LET rg == rings[i] IN
  /\ ringOwner[i] # NoRank /\ header[i].epoch # 0
  /\ rg.head # rg.tail /\ rg.head < MaxIndex
  /\ Apply(header[i].owner, header[i].epoch, {rg.cells[rg.head % Capacity]})
  /\ rings' = [rings EXCEPT ![i].head = rg.head + 1]
  /\ UNCHANGED <<daemon, agents, offloaded, fouled, unreported>>
----------------------------------------------------------------------------
(* The agent.                                                              *)

(* The constructor, once the registration is answered: it uses the ring if *)
(* the header says that it is its own.                                     *)
Attach(e) ==
  LET a == agents[e] IN
  /\ a.pc = "attach"
  /\ agents' = [agents EXCEPT ![e] =
       [a EXCEPT !.pc = "poll",
                 !.ring = IF a.ring # NoRing /\ header[a.ring] = [owner |-> a.rank, epoch |-> e]
                          THEN a.ring ELSE NoRing]]
  /\ UNCHANGED <<daemon, rings, leases, offloaded, fouled, unreported>>

(* The constructor throws: a mapping, the control header or a CUDA call is *)
(* at fault.  The daemon is not told, and the session stays.               *)
AttachFails(e) ==
  /\ "crash" \in Faults /\ agents[e].pc = "attach"
  /\ agents' = [agents EXCEPT ![e] = [NoAgent EXCEPT !.pc = "crashed"]]
  /\ UNCHANGED <<daemon, rings, leases, offloaded, fouled, unreported>>

(* evict(): the daemon grants a lease and the copy is in flight.           *)
Evict(e) ==
  LET a == agents[e] IN
  /\ a.pc \notin {"none", "attach", "close", "ended", "crashed"}
  /\ Len(leases) < MaxLease
  /\ EpochValid(a.rank, e)
  /\ leases' = Append(leases, [rank |-> a.rank, epoch |-> e, st |-> "d2h"])
  /\ agents' = [agents EXCEPT ![e] = [a EXCEPT !.inflight = @ \cup {Len(leases) + 1}]]
  /\ UNCHANGED <<daemon, rings, offloaded, fouled, unreported>>

(* A poll of the events: the copies in done have completed.  Without a     *)
(* ring they are reported by RPC.                                          *)
Gather(e, done) ==
  LET a == agents[e] IN
  /\ a.pc = "poll" /\ done # {}
  /\ agents' = [agents EXCEPT ![e] =
       [a EXCEPT !.inflight = @ \ done,
                 !.batch = IF a.ring = NoRing THEN {} ELSE done,
                 !.over = IF a.ring = NoRing THEN done ELSE {},
                 !.pc = IF a.ring = NoRing THEN "rpc" ELSE "push"]]
  /\ UNCHANGED <<daemon, rings, leases, offloaded, fouled, unreported>>

(* An event that reports an error is dropped.                              *)
EventError(e, l) ==
  /\ "cuda" \in Faults /\ agents[e].pc = "poll"
  /\ agents' = [agents EXCEPT ![e].inflight = @ \ {l}]
  /\ unreported' = unreported \cup {l}
  /\ UNCHANGED <<daemon, rings, leases, offloaded, fouled>>

(* ring_push sees a full ring; tail - head is unsigned, so a head beyond   *)
(* the tail counts as full too.                                            *)
Full(rg) == rg.tail < rg.head \/ rg.tail - rg.head >= Capacity

(* Mutant: one entry more than the ring has is let in.                     *)
PushLoadOneMore(e) ==
  LET a == agents[e] IN
  /\ a.pc = "push" /\ a.batch # {}
  /\ agents' = [agents EXCEPT ![e] =
       IF rings[a.ring].tail - rings[a.ring].head > Capacity
       THEN [a EXCEPT !.over = @ \cup {Min(a.batch)}, !.batch = @ \ {Min(a.batch)}]
       ELSE [a EXCEPT !.pc = "write", !.seq = rings[a.ring].tail]]
  /\ UNCHANGED <<daemon, rings, leases, offloaded, fouled, unreported>>

(* flush_completions_batch takes the next completion to the ring, or puts  *)
(* it among those that overflow.                                           *)
PushLoad(e) ==
  LET a == agents[e] IN
  /\ a.pc = "push" /\ a.batch # {}
  /\ agents' = [agents EXCEPT ![e] =
       IF Full(rings[a.ring])
       THEN [a EXCEPT !.over = @ \cup {Min(a.batch)}, !.batch = @ \ {Min(a.batch)}]
       ELSE [a EXCEPT !.pc = "write", !.seq = rings[a.ring].tail]]
  /\ UNCHANGED <<daemon, rings, leases, offloaded, fouled, unreported>>

(* The ring is fouled when its header no longer names the writer.          *)
Foul(e) == fouled' = IF header[agents[e].ring].epoch = e THEN fouled ELSE fouled \cup {agents[e].ring}

PushWrite(e) ==
  LET a == agents[e] IN
  /\ a.pc = "write"
  /\ rings' = [rings EXCEPT ![a.ring].cells[a.seq % Capacity] = Min(a.batch)]
  /\ agents' = [agents EXCEPT ![e] = [a EXCEPT !.pc = "publish"]]
  /\ Foul(e)
  /\ UNCHANGED <<daemon, leases, offloaded, unreported>>

(* The tail is stored and the completion finalized.                        *)
PushPublish(e) ==
  LET a == agents[e] IN
  /\ a.pc = "publish"
  /\ rings' = [rings EXCEPT ![a.ring].tail = a.seq + 1]
  /\ offloaded' = offloaded \cup {Min(a.batch)}
  /\ agents' = [agents EXCEPT ![e] = [a EXCEPT !.pc = "push", !.batch = @ \ {Min(a.batch)}, !.seq = 0]]
  /\ Foul(e)
  /\ UNCHANGED <<daemon, leases, unreported>>

(* MarkD2HComplete or BatchComplete for the completions in S, or an RPC    *)
(* that fails: the agent logs that and goes on.                            *)
Report(r, e, S) ==
  \/ Apply(r, e, S) /\ UNCHANGED unreported
  \/ /\ "rpc" \in Faults /\ S # {}
     /\ unreported' = unreported \cup S
     /\ UNCHANGED leases

(* The end of a flush: one RPC reports what the ring has not taken, and    *)
(* whether or not it fails the completions are finalized.                  *)
FlushEnd(e) ==
  LET a == agents[e] IN
  /\ a.pc = "rpc" \/ (a.pc = "push" /\ a.batch = {})
  /\ Report(a.rank, e, a.over)
  /\ offloaded' = offloaded \cup a.over
  /\ agents' = [agents EXCEPT ![e] = [a EXCEPT !.pc = "poll", !.over = {}]]
  /\ UNCHANGED <<daemon, rings, fouled>>

(* The destructor joins the progress thread between two polls ...          *)
Stop(e) ==
  /\ agents[e].pc = "poll"
  /\ agents' = [agents EXCEPT ![e].pc = "close"]
  /\ UNCHANGED <<daemon, rings, leases, offloaded, fouled, unreported>>

(* ... waits for each copy that is still in flight and reports it by RPC   *)
(* (drain_inflight_on_shutdown), and is done.                              *)
Close(e) ==
  LET a == agents[e] IN
  /\ a.pc = "close"
  /\ IF a.inflight # {}
     THEN /\ Report(a.rank, e, {Min(a.inflight)})
          /\ offloaded' = offloaded \cup {Min(a.inflight)}
          /\ agents' = [agents EXCEPT ![e] = [a EXCEPT !.inflight = @ \ {Min(a.inflight)}]]
     ELSE /\ agents' = [agents EXCEPT ![e] = [NoAgent EXCEPT !.pc = "ended"]]
          /\ UNCHANGED <<leases, offloaded, unreported>>
  /\ UNCHANGED <<daemon, rings, fouled>>

(* The process dies, wherever its agents are.                              *)
Crash(p) ==
  /\ "crash" \in Faults
  /\ \E e \in Epoch : ~Ended(e) /\ agents[e].pid = p
  /\ agents' = [e \in Epoch |-> IF ~Ended(e) /\ agents[e].pid = p
                                THEN [NoAgent EXCEPT !.pc = "crashed"] ELSE agents[e]]
  /\ UNCHANGED <<daemon, rings, leases, offloaded, fouled, unreported>>
----------------------------------------------------------------------------
Progress(e) ==
  \/ Attach(e)
  \/ \E done \in SUBSET agents[e].inflight : Gather(e, done)
  \/ PushLoad(e) \/ PushWrite(e) \/ PushPublish(e) \/ FlushEnd(e)
  \/ Close(e)

Next ==
  \/ \E r \in Rank, p \in Pid : Register(r, p)
  \/ \E r \in Rank : HeartbeatTimeout(r)
  \/ \E i \in Ring : PollPop(i)
  \/ \E e \in Epoch :
       \/ Progress(e) \/ AttachFails(e) \/ Evict(e) \/ Stop(e)
       \/ \E l \in agents[e].inflight : EventError(e, l)
  \/ \E p \in Pid : Crash(p)

Spec == Init /\ [][Next]_vars

(* The poller and the threads of a running agent go on; copies end.        *)
FairSpec ==
  /\ Spec
  /\ \A i \in Ring : WF_vars(PollPop(i))
  /\ \A e \in Epoch : WF_vars(Progress(e))
----------------------------------------------------------------------------
(* The entries that the poller has yet to pop from ring i.                 *)
Pending(i) == {rings[i].cells[k % Capacity] : k \in rings[i].head .. rings[i].tail - 1}

(* The live session with epoch e, and the ring its completions are in.     *)
Live(e) == \E r \in Rank : EpochValid(r, e)
RingOf(e) == sessions[CHOOSE r \in Rank : EpochValid(r, e)].ring

(* A session has its ring to itself: the ring table and the ring's header  *)
(* name its rank and epoch, whatever agents of former sessions still do;   *)
(* and a ring that is taken belongs to a live session, or to one that the  *)
(* heartbeat monitor has ended and that handle_register has passed over.   *)
RingsHeld ==
  /\ \A r \in Rank :
       LET s == sessions[r] IN
       s.alive /\ s.ring # NoRing =>
         ringOwner[s.ring] = r /\ header[s.ring] = [owner |-> r, epoch |-> s.epoch]
  /\ \A i \in Ring : ringOwner[i] # NoRank =>
       \/ header[i].epoch \in timedOut
       \/ sessions[ringOwner[i]].alive /\ sessions[ringOwner[i]].ring = i

(* No completion is lost: what a live session's agent has finalized has    *)
(* been applied or waits in the session's ring, except what an RPC failed  *)
(* to report, and as long as no agent of a former session has written to   *)
(* that ring.                                                              *)
CompletionsKept ==
  \A l \in offloaded \ unreported : LET e == leases[l].epoch IN
    Live(e) /\ RingOf(e) \notin fouled =>
      leases[l].st = "applied" \/ (RingOf(e) # NoRing /\ l \in Pending(RingOf(e)))

(* A lease of which the daemon knows the outcome, or cannot: its agent has *)
(* crashed, its event or RPC has failed, or its ring has been written by   *)
(* an agent of a former session.                                           *)
Settled(l) ==
  \/ leases[l].st # "d2h" \/ l \in unreported
  \/ agents[leases[l].epoch].pc = "crashed"
  \/ RingOf(leases[l].epoch) \in fouled

(* Every copy that succeeds, of an agent that goes on or is destroyed in   *)
(* good order, is applied in the end: however sessions come and go, leases *)
(* do not stay unsettled.  (A settled lease stays so and the leases are    *)
(* bounded, so this says that each lease is settled in the end.)           *)
Delivered == []<>(\A l \in DOMAIN leases : Settled(l))
=============================================================================
