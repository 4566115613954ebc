--------------------------- MODULE CompletionRing ---------------------------
(***************************************************************************)
(* The completion ring of one rank session, in shared memory               *)
(* (src/src/common/completion_ring.h), with the threads around it: the     *)
(* progress thread of the agent, which publishes the copies whose events   *)
(* are done and sends what does not fit by RPC (flush_completions_batch);  *)
(* the daemon's ring poller, which pops and applies them under mu_         *)
(* (ring_poller_loop); and the thread that calls restore(), which waits    *)
(* for the poller before it asks for a prefetch.                           *)
(*                                                                         *)
(* A step is one access to shared memory, or one critical section.  The    *)
(* acquire and release orders of head and tail make the accesses of the    *)
(* two sides appear in program order.  Copies are numbered in the order in *)
(* which their events are seen; indices are free-running counters (64 bits *)
(* do not wrap in practice).  Applying a completion is module              *)
(* OffloadDaemon's D2HComplete; here it is a set.  How a ring goes from    *)
(* one session to the next is module SessionRings'.                        *)
(***************************************************************************)
EXTENDS Integers, Sequences

CONSTANTS
  Capacity,    \* entries of the ring
  Budget,      \* entries popped per sweep of the poller
  MaxCopies    \* bound on the copies that complete

ASSUME RingAssumption ==
  Capacity \in Nat \ {0} /\ Budget \in Nat \ {0} /\ MaxCopies \in Nat

Item == 1 .. MaxCopies
None == 0          \* a zeroed entry, or no copy
NoSeq == -1        \* no entry of ring_push_seq

VARIABLES
  head, tail, entries,   \* the ring
  prog,                  \* the progress thread
  poll,                  \* the ring poller
  user,                  \* the thread in restore()
  mu,                    \* who holds mu_: "poller" or "none"
  seqOf,                 \* ring_push_seq
  offloaded,             \* the copies that are finalized
  applied,               \* the completions that the daemon has applied
  sent, taken            \* what was published, and popped, in order

ring == <<head, tail, entries, sent, taken>>
vars == <<head, tail, entries, prog, poll, user, mu, seqOf, offloaded, applied, sent, taken>>

(* The progress thread: it is at copy item of a batch that ends with last, *)
(* tail was seq when it started the push, and over is what did not fit.    *)
Prog == [pc : {"push", "write", "publish", "record", "finalize"},
         item : 1 .. MaxCopies + 1, last : 0 .. MaxCopies, seq : Nat, over : SUBSET Item]
Poll == [pc : {"idle", "load", "read", "advance", "apply"},
         item : 0 .. MaxCopies, budget : 0 .. Budget]
User == [pc : {"idle", "wait", "ask", "told"}, item : 0 .. MaxCopies,
         seq : Nat \cup {NoSeq}, found : BOOLEAN]

Cell(k) == k % Capacity

Init ==
  /\ head = 0 /\ tail = 0 /\ entries = [c \in 0 .. Capacity - 1 |-> None]
  /\ prog = [pc |-> "push", item |-> 1, last |-> 0, seq |-> 0, over |-> {}]
  /\ poll = [pc |-> "idle", item |-> None, budget |-> 0]
  /\ user = [pc |-> "idle", item |-> None, seq |-> NoSeq, found |-> FALSE]
  /\ mu = "none"
  /\ seqOf = [x \in Item |-> NoSeq]
  /\ offloaded = {} /\ applied = {}
  /\ sent = <<>> /\ taken = <<>>
----------------------------------------------------------------------------
(* The progress thread.                                                    *)

(* A poll of the events finds that the copies up to n are done.            *)
Gather(n) ==
  /\ prog.pc = "push" /\ prog.item > prog.last /\ prog.over = {}
  /\ n \in prog.item .. MaxCopies
  /\ prog' = [prog EXCEPT !.last = n]
  /\ UNCHANGED <<ring, poll, user, mu, seqOf, offloaded, applied>>

(* Mutant: one entry more than the ring has is let in.                     *)
PushLoadOneMore ==
  /\ prog.pc = "push" /\ prog.item <= prog.last
  /\ prog' = IF tail - head > Capacity
             THEN [prog EXCEPT !.item = @ + 1, !.over = @ \cup {prog.item}]
             ELSE [prog EXCEPT !.pc = "write", !.seq = tail]
  /\ UNCHANGED <<ring, poll, user, mu, seqOf, offloaded, applied>>

(* ring_push loads the indices; a full ring turns the copy away.           *)
PushLoad ==
  /\ prog.pc = "push" /\ prog.item <= prog.last
  /\ prog' = IF tail - head >= Capacity
             THEN [prog EXCEPT !.item = @ + 1, !.over = @ \cup {prog.item}]
             ELSE [prog EXCEPT !.pc = "write", !.seq = tail]
  /\ UNCHANGED <<ring, poll, user, mu, seqOf, offloaded, applied>>

PushWrite ==
  /\ prog.pc = "write"
  /\ entries' = [entries EXCEPT ![Cell(prog.seq)] = prog.item]
  /\ prog' = [prog EXCEPT !.pc = "publish"]
  /\ UNCHANGED <<head, tail, sent, taken, poll, user, mu, seqOf, offloaded, applied>>

PushPublish ==
  /\ prog.pc = "publish"
  /\ tail' = prog.seq + 1
  /\ sent' = Append(sent, prog.item)
  /\ prog' = [prog EXCEPT !.pc = "record"]
  /\ UNCHANGED <<head, entries, taken, poll, user, mu, seqOf, offloaded, applied>>

(* ring_push_d2h, after the push.                                          *)
PushRecord ==
  /\ prog.pc = "record"
  /\ seqOf' = [seqOf EXCEPT ![prog.item] = prog.seq]
  /\ prog' = [prog EXCEPT !.pc = "finalize"]
  /\ UNCHANGED <<ring, poll, user, mu, offloaded, applied>>

Finalize ==
  /\ prog.pc = "finalize"
  /\ offloaded' = offloaded \cup {prog.item}
  /\ prog' = [prog EXCEPT !.pc = "push", !.item = @ + 1]
  /\ UNCHANGED <<ring, poll, user, mu, seqOf, applied>>

(* The BatchComplete of what did not fit, answered, and its finalization.  *)
SendOverflow ==
  /\ prog.pc = "push" /\ prog.item > prog.last /\ prog.over # {}
  /\ mu = "none"
  /\ applied' = applied \cup prog.over
  /\ offloaded' = offloaded \cup prog.over
  /\ prog' = [prog EXCEPT !.over = {}]
  /\ UNCHANGED <<ring, poll, user, mu, seqOf>>
----------------------------------------------------------------------------
(* The ring poller.                                                        *)

Sweep ==
  /\ poll.pc = "idle" /\ mu = "none"
  /\ mu' = "poller"
  /\ poll' = [poll EXCEPT !.pc = "load", !.budget = Budget]
  /\ UNCHANGED <<ring, prog, user, seqOf, offloaded, applied>>

PopLoad ==
  /\ poll.pc = "load" /\ poll.budget > 0 /\ head # tail
  /\ poll' = [poll EXCEPT !.pc = "read", !.budget = @ - 1]
  /\ UNCHANGED <<ring, prog, user, mu, seqOf, offloaded, applied>>

SweepEnd ==
  /\ poll.pc = "load" /\ (poll.budget = 0 \/ head = tail)
  /\ mu' = "none"
  /\ poll' = [poll EXCEPT !.pc = "idle"]
  /\ UNCHANGED <<ring, prog, user, seqOf, offloaded, applied>>

PopRead ==
  /\ poll.pc = "read"
  /\ poll' = [poll EXCEPT !.pc = "advance", !.item = entries[Cell(head)]]
  /\ UNCHANGED <<ring, prog, user, mu, seqOf, offloaded, applied>>

(* Mutant: mu_ is let go before the entry is applied.                      *)
PopAdvanceUnlocked ==
  /\ poll.pc = "advance"
  /\ head' = head + 1
  /\ taken' = Append(taken, poll.item)
  /\ mu' = "none"
  /\ poll' = [poll EXCEPT !.pc = "apply"]
  /\ UNCHANGED <<tail, entries, sent, prog, user, seqOf, offloaded, applied>>

PopAdvance ==
  /\ poll.pc = "advance"
  /\ head' = head + 1
  /\ taken' = Append(taken, poll.item)
  /\ poll' = [poll EXCEPT !.pc = "apply"]
  /\ UNCHANGED <<tail, entries, sent, prog, user, mu, seqOf, offloaded, applied>>

(* Mutant: the first sweep that finds something is the last.               *)
ApplyOnce ==
  /\ poll.pc = "apply"
  /\ applied' = applied \cup {poll.item}
  /\ poll' = poll
  /\ UNCHANGED <<ring, prog, user, mu, seqOf, offloaded>>

(* apply_ring_completion.                                                  *)
Apply ==
  /\ poll.pc = "apply"
  /\ applied' = applied \cup {poll.item}
  /\ poll' = [poll EXCEPT !.pc = "load"]
  /\ UNCHANGED <<ring, prog, user, mu, seqOf, offloaded>>
----------------------------------------------------------------------------
(* restore() of a tensor whose eviction was waited for.                    *)

RestoreLookup(x) ==
  /\ user.pc \in {"idle", "told"} /\ x \in offloaded
  /\ user' = [pc |-> IF seqOf[x] = NoSeq THEN "ask" ELSE "wait", item |-> x,
              seq |-> seqOf[x], found |-> FALSE]
  /\ UNCHANGED <<ring, prog, poll, mu, seqOf, offloaded, applied>>

(* Mutant: it waits for the entry after its own.                           *)
WaitOneMore ==
  /\ user.pc = "wait" /\ head > user.seq + 1
  /\ user' = [user EXCEPT !.pc = "ask"]
  /\ UNCHANGED <<ring, prog, poll, mu, seqOf, offloaded, applied>>

WaitRingConsumed ==
  /\ user.pc = "wait" /\ head > user.seq
  /\ user' = [user EXCEPT !.pc = "ask"]
  /\ UNCHANGED <<ring, prog, poll, mu, seqOf, offloaded, applied>>

(* RequestPrefetch looks for the location under mu_.                       *)
AskPrefetch ==
  /\ user.pc = "ask" /\ mu = "none"
  /\ user' = [user EXCEPT !.pc = "told", !.found = user.item \in applied]
  /\ UNCHANGED <<ring, prog, poll, mu, seqOf, offloaded, applied>>
----------------------------------------------------------------------------
Progress == PushLoad \/ PushWrite \/ PushPublish \/ PushRecord \/ Finalize \/ SendOverflow
Poller == Sweep \/ PopLoad \/ SweepEnd \/ PopRead \/ PopAdvance \/ Apply

Next ==
  \/ \E n \in Item : Gather(n)
  \/ Progress \/ Poller
  \/ \E x \in Item : RestoreLookup(x)
  \/ WaitRingConsumed \/ AskPrefetch

Spec == Init /\ [][Next]_vars

(* The threads keep running.  mu_ is free again after every sweep, but the *)
(* poller may take it first each time: a handler gets it only if a lock    *)
(* that is free again and again is granted in the end.                     *)
Fairness ==
  /\ WF_vars(Progress) /\ SF_vars(SendOverflow)
  /\ WF_vars(Poller)
  /\ WF_vars(WaitRingConsumed) /\ SF_vars(AskPrefetch)
FairSpec == Spec /\ Fairness
----------------------------------------------------------------------------
(* Type correctness of the ring and its threads.                           *)
TypeOK ==
  /\ head \in Nat /\ tail \in Nat
  /\ entries \in [0 .. Capacity - 1 -> 0 .. MaxCopies]
  /\ prog \in Prog /\ poll \in Poll /\ user \in User
  /\ mu \in {"none", "poller"}
  /\ seqOf \in [Item -> Nat \cup {NoSeq}]
  /\ offloaded \subseteq Item /\ applied \subseteq Item
  /\ sent \in Seq(Item) /\ taken \in Seq(Item)

(* The ring is a bounded queue: nothing is lost, read before it is         *)
(* written, overwritten before it is read, or applied twice or out of      *)
(* order, although both sides work on indices the other one has moved on.  *)
(* The queue is what the cells from head to tail hold.                     *)
Pending == [i \in 1 .. tail - head |-> entries[Cell(head + i - 1)]]

Queue == INSTANCE CompletionQueue
         WITH Item <- Item, Capacity <- Capacity, queue <- Pending, taken <- taken
RingIsQueue == Queue!Spec

(* A restore() that waited until the poller's head was past its entry      *)
(* finds the completion applied, although head moves before the entry is   *)
(* applied: the request needs mu_, which the poller holds over both.       *)
RestoreFindsCompletion == user.pc = "told" => user.found

(* Every copy that is done is applied in the end, through the ring or by   *)
(* RPC, however full the ring is.                                          *)
CompletionsArrive ==
  \A x \in Item : (prog.item <= x /\ x <= prog.last) ~> x \in applied

(* A restore() that waits for the poller gets its answer.                  *)
RestoreAnswered == user.pc = "wait" ~> user.pc = "told"
============================================================================
