----------------------------- MODULE DaemonStop -----------------------------
(***************************************************************************)
(* How the daemon starts, serves connections and stops: run(),             *)
(* request_stop(), accept_loop(), serve_connection() and the wait loops of *)
(* its threads (src/src/daemon/daemon.cpp), called from main() and from    *)
(* its signal handler (src/src/daemon/main.cpp), over the sockets of       *)
(* src/src/common/uds.cpp.                                                 *)
(*                                                                         *)
(* A step is an access to an atomic, a system call or a critical section.  *)
(* File descriptors are numbers that the kernel reuses, lowest first.      *)
(* Handlers are the other modules' subject: here one returns, queues a job *)
(* for a drain or readback worker, throws, or stops the daemon.            *)
(***************************************************************************)
EXTENDS Integers

CONSTANTS
  NumClients,  \* peers that may connect
  NumFds,      \* descriptors that the process may open for connections
  Pool,        \* "drain", "readback": pools of worker threads, each with a queue
  PoolSize,    \* threads per pool
  MaxJobs      \* bound on the jobs in a queue

ASSUME StopAssumption ==
  /\ "drain" \in Pool /\ Pool \subseteq {"drain", "readback"}
  /\ NumClients \in Nat /\ NumFds \in Nat /\ PoolSize \in Nat \ {0} /\ MaxJobs \in Nat

Client == 1 .. NumClients   \* numbered as they connect
NoClient == 0               \* of a free descriptor
Fd == 1 .. NumFds
NoFd == 0
Worker == Pool \X (1 .. PoolSize)

VARIABLES
  main,             \* where the thread in run() is
  running,          \* running_
  workersRunning,   \* workers_running_
  pipe,             \* the stop pipe: "none", "open", "written" or "closed"
  signal,           \* the signal handler: "idle", "write" or "done"
  conn,             \* the thread of each connection and its descriptor
  peer,             \* the other side: "new", "queued", "up" or "gone"
  fds,              \* the kernel's table: the peer on each descriptor
  connFds,          \* conn_fds_
  shut,             \* connections that were shut down
  worker, queue,    \* the worker threads and the lengths of their queues
  poller,           \* the ring poller: "none", "loop", "final" or "gone"
  asked,            \* request_stop has been called (history)
  unheard,          \* ... before there was a pipe to write to (history)
  overslept         \* workers notified between test and sleep (history)

sockets == <<conn, peer, fds, connFds, shut>>
threads == <<worker, queue, poller, overslept>>
stop == <<running, pipe, signal, asked, unheard>>
vars == <<main, workersRunning, sockets, threads, stop>>

Init ==
  /\ main = "boot" /\ running = FALSE /\ workersRunning = FALSE
  /\ pipe = "none" /\ signal = "idle"
  /\ conn = [c \in Client |-> [pc |-> "none", fd |-> NoFd]]
  /\ peer = [c \in Client |-> "new"]
  /\ fds = [f \in Fd |-> NoClient]
  /\ connFds = {} /\ shut = {}
  /\ worker = [w \in Worker |-> "none"] /\ queue = [p \in Pool |-> 0]
  /\ poller = "none"
  /\ asked = FALSE /\ unheard = FALSE /\ overslept = {}
----------------------------------------------------------------------------
(* run().                                                                  *)

(* The pipe and the listening sockets are opened.                          *)
Listen ==
  /\ main = "boot"
  /\ main' = "listening" /\ pipe' = "open"
  /\ UNCHANGED <<running, workersRunning, signal, asked, unheard, sockets, threads>>

SetRunning ==
  /\ main = "listening"
  /\ main' = "spawn" /\ running' = TRUE /\ workersRunning' = TRUE
  /\ UNCHANGED <<pipe, signal, asked, unheard, sockets, threads>>

StartWorkers ==
  /\ main = "spawn"
  /\ main' = "check"
  /\ worker' = [w \in Worker |-> "test"]
  /\ poller' = "loop"
  /\ UNCHANGED <<workersRunning, queue, overslept, sockets, stop>>

(* accept_loop: the test of its loop ...                                   *)
Check ==
  /\ main = "check"
  /\ main' = IF running THEN "poll" ELSE "halt"
  /\ UNCHANGED <<workersRunning, sockets, threads, stop>>

(* ... poll(): a byte in the pipe comes before a peer that waits (an       *)
(* interrupted poll is repeated, and finds the handler's byte) ...         *)
Poll ==
  /\ main = "poll"
  /\ \/ pipe = "written" /\ main' = "halt"
     \/ pipe = "open" /\ (\E c \in Client : peer[c] = "queued") /\ main' = "accept"
  /\ UNCHANGED <<workersRunning, sockets, threads, stop>>

(* ... accept() ...                                                        *)
Accept(c) ==
  /\ main = "accept" /\ peer[c] = "queued"
  /\ \E f \in Fd :
       /\ fds[f] = NoClient /\ \A g \in 1 .. f - 1 : fds[g] # NoClient
       /\ fds' = [fds EXCEPT ![f] = c]
       /\ conn' = [conn EXCEPT ![c] = [pc |-> "accepted", fd |-> f]]
  /\ peer' = [peer EXCEPT ![c] = "up"]
  /\ main' = "track"
  /\ UNCHANGED <<workersRunning, connFds, shut, threads, stop>>

(* ... whose errors, a lack of descriptors or a connection aborted by its  *)
(* peer, leave run() by an exception; threads that are not joined end the  *)
(* process.                                                                *)
AcceptThrows ==
  /\ main = "accept"
  /\ main' = "terminated"
  /\ UNCHANGED <<workersRunning, sockets, threads, stop>>

(* ... and the start of a thread for the connection.                       *)
Track(c) ==
  /\ main = "track" /\ conn[c].pc = "accepted"
  /\ connFds' = connFds \cup {conn[c].fd}
  /\ conn' = [conn EXCEPT ![c].pc = "recv"]
  /\ main' = "check"
  /\ UNCHANGED <<workersRunning, peer, fds, shut, threads, stop>>

(* The loop is left: the workers are told to stop ...                      *)
Halt ==
  /\ main = "halt"
  /\ main' = "notify" /\ workersRunning' = FALSE
  /\ UNCHANGED <<sockets, threads, stop>>

(* ... and those that sleep are woken; no lock is held, so a worker may be *)
(* between its test and its sleep ...                                      *)
Notify ==
  /\ main = "notify"
  /\ main' = "shut"
  /\ worker' = [w \in Worker |-> IF worker[w] = "asleep" THEN "test" ELSE worker[w]]
  /\ overslept' = {w \in Worker : worker[w] = "falling asleep"}
  /\ UNCHANGED <<workersRunning, queue, poller, sockets, stop>>

(* ... the connections are shut down, by the numbers in conn_fds_ ...      *)
ShutFds ==
  /\ main = "shut"
  /\ main' = "join connections"
  /\ shut' = shut \cup {c \in Client : \E f \in connFds : fds[f] = c}
  /\ UNCHANGED <<workersRunning, conn, peer, fds, connFds, threads, stop>>

(* Mutant: the threads of connections that are gone by then are joined,    *)
(* those that have only closed their descriptor are not waited for.        *)
JoinOpenConnections ==
  /\ main = "join connections"
  /\ \A c \in Client : conn[c].pc \in {"none", "erase", "done"}
  /\ main' = "join workers"
  /\ UNCHANGED <<workersRunning, sockets, threads, stop>>

(* ... all threads are joined (the heartbeat monitor, which is not         *)
(* modelled, looks at workers_running_ every 50 ms) ...                    *)
JoinConnections ==
  /\ main = "join connections"
  /\ \A c \in Client : conn[c].pc \in {"none", "done"}
  /\ main' = "join workers"
  /\ UNCHANGED <<workersRunning, sockets, threads, stop>>

JoinWorkers ==
  /\ main = "join workers"
  /\ \A w \in Worker : worker[w] = "gone"
  /\ poller = "gone"
  /\ main' = "close"
  /\ UNCHANGED <<workersRunning, sockets, threads, stop>>

(* ... and what run() opened is closed.                                    *)
Return ==
  /\ main = "close"
  /\ main' = "returned" /\ pipe' = "closed"
  /\ UNCHANGED <<running, workersRunning, signal, asked, unheard, sockets, threads>>
----------------------------------------------------------------------------
(* request_stop(), in two steps: the flag ...                              *)
ClearRunning == running' = FALSE /\ asked' = TRUE

(* ... and the byte, if there is a pipe.                                   *)
WritePipe ==
  /\ pipe' = IF pipe = "open" THEN "written" ELSE pipe
  /\ unheard' = (unheard \/ pipe = "none")

(* A signal, which some thread handles while main() is in run().           *)
Signal ==
  /\ main \notin {"returned", "terminated"}
  /\ \/ signal = "idle" /\ signal' = "write" /\ ClearRunning /\ UNCHANGED <<pipe, unheard>>
     \/ signal = "write" /\ signal' = "done" /\ WritePipe /\ UNCHANGED <<running, asked>>
  /\ UNCHANGED <<main, workersRunning, sockets, threads>>
----------------------------------------------------------------------------
(* The queues of the workers.                                              *)

(* The lock of a pool is held by a worker that goes to sleep until it      *)
(* does; the other holders let go of it at once.                           *)
Unlocked(p) == \A w \in Worker : w[1] = p => worker[w] # "falling asleep"

(* A handler, or the poller, queues a job and notifies one worker.         *)
Enqueue(p) ==
  /\ Unlocked(p) /\ queue[p] < MaxJobs
  /\ queue' = [queue EXCEPT ![p] = @ + 1]
  /\ LET sleepers == {w \in Worker : w[1] = p /\ worker[w] = "asleep"} IN
     IF sleepers = {} THEN UNCHANGED worker
     ELSE \E w \in sleepers : worker' = [worker EXCEPT ![w] = "test"]

(* Mutant: the condition of the wait leaves out workers_running_.          *)
TestQueueOnly(w) ==
  /\ worker[w] = "test" /\ Unlocked(w[1])
  /\ \/ /\ queue[w[1]] > 0
        /\ queue' = [queue EXCEPT ![w[1]] = @ - 1]
        /\ worker' = [worker EXCEPT ![w] = "work"]
     \/ /\ queue[w[1]] = 0
        /\ worker' = [worker EXCEPT ![w] = "falling asleep"]
        /\ UNCHANGED queue
  /\ UNCHANGED <<main, workersRunning, poller, overslept, sockets, stop>>

(* drain_worker_loop and readback_worker_loop: the condition of the wait.  *)
Test(w) ==
  /\ worker[w] = "test" /\ Unlocked(w[1])
  /\ \/ /\ queue[w[1]] > 0
        /\ queue' = [queue EXCEPT ![w[1]] = @ - 1]
        /\ worker' = [worker EXCEPT ![w] = "work"]
     \/ /\ queue[w[1]] = 0
        /\ worker' = [worker EXCEPT ![w] = IF workersRunning THEN "falling asleep" ELSE "gone"]
        /\ UNCHANGED queue
  /\ UNCHANGED <<main, workersRunning, poller, overslept, sockets, stop>>

(* The wait itself, which releases the lock; and the end of a job.         *)
Sleep(w) ==
  /\ worker[w] = "falling asleep"
  /\ worker' = [worker EXCEPT ![w] = "asleep"]
  /\ UNCHANGED <<main, workersRunning, queue, poller, overslept, sockets, stop>>

Work(w) ==
  /\ worker[w] = "work"
  /\ worker' = [worker EXCEPT ![w] = "test"]
  /\ UNCHANGED <<main, workersRunning, queue, poller, overslept, sockets, stop>>

(* ring_poller_loop: completions that it applies may queue drains, those   *)
(* of its last sweep too.                                                  *)
PollerApplies ==
  /\ poller \in {"loop", "final"}
  /\ Enqueue("drain")
  /\ UNCHANGED <<main, workersRunning, poller, overslept, sockets, stop>>

PollerEnds ==
  /\ \/ poller = "loop" /\ ~workersRunning /\ poller' = "final"
     \/ poller = "final" /\ poller' = "gone"
  /\ UNCHANGED <<main, workersRunning, worker, queue, overslept, sockets, stop>>
----------------------------------------------------------------------------
(* serve_connection().                                                     *)

At(c, pc) == conn' = [conn EXCEPT ![c].pc = pc]

(* recv_frame returns a request (a peer sends one at a time, so one that   *)
(* came before a shutdown is the only one, and is read before it here) ... *)
RecvRequest(c) ==
  /\ conn[c].pc = "recv" /\ peer[c] = "up" /\ c \notin shut
  /\ At(c, "dispatch")
  /\ UNCHANGED <<main, workersRunning, peer, fds, connFds, shut, threads, stop>>

(* ... or finds the end of the stream, or fails.                           *)
RecvEnd(c) ==
  /\ conn[c].pc = "recv" /\ (peer[c] = "gone" \/ c \in shut)
  /\ At(c, "close")
  /\ UNCHANGED <<main, workersRunning, peer, fds, connFds, shut, threads, stop>>

(* send_frame: the answer is sent, or the connection ends.                 *)
Reply(c) == At(c, "again") \/ At(c, "close")

(* dispatch(): the request is decoded, handled and answered.  An unknown   *)
(* opcode is not answered; a request that cannot be decoded ends the       *)
(* connection.                                                             *)
Dispatch(c) ==
  /\ conn[c].pc = "dispatch"
  /\ \/ Reply(c) /\ UNCHANGED <<worker, queue>>
     \/ Reply(c) /\ \E p \in Pool : Enqueue(p)
     \/ At(c, "stop") /\ UNCHANGED <<worker, queue>>
  /\ UNCHANGED <<main, workersRunning, peer, fds, connFds, shut, poller, overslept, stop>>

(* handle_shutdown, and its answer.                                        *)
ShutdownRpc(c) ==
  /\ \/ conn[c].pc = "stop" /\ At(c, "write") /\ ClearRunning /\ UNCHANGED <<pipe, unheard>>
     \/ conn[c].pc = "write" /\ Reply(c) /\ WritePipe /\ UNCHANGED <<running, asked>>
  /\ UNCHANGED <<main, workersRunning, peer, fds, connFds, shut, threads, signal>>

(* Another round of the loop, or its end.                                  *)
Again(c) ==
  /\ conn[c].pc = "again"
  /\ At(c, IF running THEN "recv" ELSE "close")
  /\ UNCHANGED <<main, workersRunning, peer, fds, connFds, shut, threads, stop>>

(* The descriptor is closed, and its number taken out of conn_fds_.        *)
CloseFd(c) ==
  /\ conn[c].pc = "close"
  /\ fds' = [fds EXCEPT ![conn[c].fd] = NoClient]
  /\ At(c, "erase")
  /\ UNCHANGED <<main, workersRunning, peer, connFds, shut, threads, stop>>

EraseFd(c) ==
  /\ conn[c].pc = "erase"
  /\ connFds' = connFds \ {conn[c].fd}
  /\ At(c, "done")
  /\ UNCHANGED <<main, workersRunning, peer, fds, shut, threads, stop>>

(* A peer connects while the daemon listens, and leaves when it likes.     *)
Connect(c) ==
  /\ peer[c] = "new" /\ (\A d \in 1 .. c - 1 : peer[d] # "new")
  /\ main \notin {"boot", "returned", "terminated"}
  /\ peer' = [peer EXCEPT ![c] = "queued"]
  /\ UNCHANGED <<main, workersRunning, conn, fds, connFds, shut, threads, stop>>

Leave(c) ==
  /\ peer[c] = "up"
  /\ peer' = [peer EXCEPT ![c] = "gone"]
  /\ UNCHANGED <<main, workersRunning, conn, fds, connFds, shut, threads, stop>>
----------------------------------------------------------------------------
Run ==
  \/ Listen \/ SetRunning \/ StartWorkers \/ Check \/ Poll
  \/ \E c \in Client : Accept(c) \/ Track(c)
  \/ AcceptThrows
  \/ Halt \/ Notify \/ ShutFds \/ JoinConnections \/ JoinWorkers \/ Return

WorkerLoop(w) == main # "terminated" /\ (Test(w) \/ Sleep(w) \/ Work(w))
RingPoller == main # "terminated" /\ PollerEnds
Serve(c) ==
  /\ main # "terminated"
  /\ RecvEnd(c) \/ Dispatch(c) \/ ShutdownRpc(c) \/ Again(c) \/ CloseFd(c) \/ EraseFd(c)

Next ==
  \/ Run \/ Signal \/ RingPoller
  \/ \E w \in Worker : WorkerLoop(w)
  \/ main # "terminated" /\ PollerApplies
  \/ \E c \in Client : Serve(c) \/ Connect(c)
  \/ main # "terminated" /\ \E c \in Client : RecvRequest(c) \/ Leave(c)

Spec == Init /\ [][Next]_vars

(* The daemon's threads go on; peers need not.                             *)
FairSpec ==
  /\ Spec
  /\ WF_vars(Run) /\ WF_vars(RingPoller)
  /\ WF_vars(signal = "write" /\ Signal)
  /\ \A w \in Worker : WF_vars(WorkerLoop(w))
  /\ \A c \in Client : WF_vars(Serve(c))
----------------------------------------------------------------------------
(* When run() has returned, and main() goes on to tear the daemon down, no *)
(* thread of the daemon is left that could use it, and no connection is    *)
(* open or listed.                                                         *)
QuietReturn ==
  main = "returned" =>
    /\ \A c \in Client : conn[c].pc \in {"none", "done"}
    /\ \A w \in Worker : worker[w] = "gone"
    /\ poller = "gone"
    /\ connFds = {} /\ \A f \in Fd : fds[f] = NoClient

(* A worker that was notified before it slept, and that sleeps.            *)
Overslept == \E w \in overslept : worker[w] = "asleep"

(* A connection that is served and whose number is not listed: a former    *)
(* connection with the same number has taken it out.                       *)
Untracked ==
  \E c \in Client : conn[c].pc \in {"recv", "dispatch", "again"} /\ conn[c].fd \notin connFds

(* run() returns when it is asked to, except in three cases: the request   *)
(* came before there was a pipe; a worker missed its notification; or an   *)
(* open connection is not listed.                                          *)
StopsOrStuck ==
  asked ~> \/ main \in {"returned", "terminated"}
           \/ [](unheard \/ Overslept \/ Untracked)
=============================================================================
