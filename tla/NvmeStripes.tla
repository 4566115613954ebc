---------------------------- MODULE NvmeStripes -----------------------------
(***************************************************************************)
(* The NVMe cold tier (nvme_write and nvme_read in                         *)
(* src/src/daemon/daemon.cpp): a tensor is cut into one segment for each   *)
(* stripe file, a segment into blocks, and the blocks travel through a     *)
(* pool of bounce buffers, one at a time (pwrite) or up to QueueDepth in   *)
(* flight (io_uring).  The drain workers, the handlers that force a drain  *)
(* and the readback workers do this at the same time, without mu_; they    *)
(* share the stripe files and the cursors nvme_stripe_offsets_.            *)
(*                                                                         *)
(* A byte of tensor x is <<x, position>>.  A request to the kernel         *)
(* transfers at some moment between its submission and its completion.     *)
(***************************************************************************)
EXTENDS Integers, Sequences, FiniteSets, SequencesExt

CONSTANTS
  Thread,       \* threads that drain or read back
  Stripes,      \* nvme_stripe_count_
  Align,        \* 4096 in the code
  Block,        \* nvme_block_bytes
  QueueDepth,   \* nvme_queue_depth
  IovSlots,     \* entries of iov[], 64 in the code
  Engines,      \* the io_engine settings to check
  Sizings,      \* the sizes to check: functions from tensors to bytes
  MaxId,        \* bound: writes in a behaviour
  Faults        \* the <<engine, call>> pairs whose system calls may fail

ASSUME StripeAssumption ==
  /\ Stripes \in Nat \ {0} /\ Align \in Nat \ {0}
  /\ MaxId \in Nat /\ Sizings \subseteq [1 .. MaxId -> Nat]
ASSUME BlockAssumption ==
  /\ Block \in Nat \ {0} /\ Block % Align = 0      \* nvme_block_bytes is given in MB
  /\ QueueDepth \in Nat \ {0} /\ IovSlots \in Nat \ {0}

Stripe == 0 .. Stripes - 1
Id == 1 .. MaxId
Zero == <<0, 0>>    \* padding
Junk == <<0, 1>>    \* whatever a file or a buffer held before

VARIABLES
  engine,    \* cfg_.nvme_io_engine
  size,      \* nbytes of each tensor
  nextId,    \* the next drain's tensor
  cursor,    \* nvme_stripe_offsets_
  file,      \* the stripe files
  thread,    \* the call each thread is in, or the last one it made
  pool,      \* its bounce buffers
  entries,   \* the cold entries of the writes that succeeded: their chunks
  orphans    \* blocks still on their way to the disk when their ring was closed

vars == <<engine, size, nextId, cursor, file, thread, pool, entries, orphans>>
----------------------------------------------------------------------------
(* The layout.                                                             *)

RoundUp(n) == ((n + Align - 1) \div Align) * Align

(* stripe_segments.                                                        *)
Segment(n, i) ==
  IF i = Stripes - 1 THEN n - (Stripes - 1) * (n \div Stripes) ELSE n \div Stripes

(* The stripes a tensor of n bytes uses: the first one even if it is empty.*)
Used(n) == {i \in Stripe : Segment(n, i) # 0 \/ i = 0}

Total(chunks) == FoldSeq(LAMBDA c, sum : c.len + sum, 0, chunks)

(* The blocks of a chunk whose first byte is at position pos of the tensor.*)
Blocks(c, pos) ==
  [k \in 1 .. (c.len + Block - 1) \div Block |->
     [stripe |-> c.stripe, off |-> c.off + (k - 1) * Block, pos |-> pos + (k - 1) * Block,
      len |-> IF k * Block <= c.len THEN Block ELSE c.len - (k - 1) * Block]]

(* The block reads of an entry.                                            *)
ReadPlan(chunks) ==
  FlattenSeq([i \in DOMAIN chunks |-> Blocks(chunks[i], Total(SubSeq(chunks, 1, i - 1)))])
----------------------------------------------------------------------------
Depth == IF engine = "io_uring" THEN QueueDepth ELSE 1
Buffers == 0 .. QueueDepth - 1
FileEnd == MaxId * Max({RoundUp(z[x]) : z \in Sizings, x \in Id})

Garbage == [k \in 0 .. Block - 1 |-> Junk]
NewPool == [b \in Buffers |-> Garbage]
NoCall == [pc |-> "idle", call |-> "none", id |-> 0, todo |-> {}, chunks |-> <<>>,
           plan |-> <<>>, next |-> 0, flight |-> {}, free |-> <<>>, ok |-> FALSE,
           dst |-> <<>>]

Init ==
  /\ engine \in Engines /\ size \in Sizings
  /\ nextId = 1
  /\ cursor = [i \in Stripe |-> 0]
  /\ file = [i \in Stripe |-> [k \in 0 .. FileEnd - 1 |-> Junk]]
  /\ thread = [w \in Thread |-> NoCall]
  /\ pool = [w \in Thread |-> NewPool]
  /\ entries = <<>>
  /\ orphans = {}

FreeBuffers == [k \in 1 .. Depth |-> k - 1]

(* nvme_write: the stripes are opened and reserved one by one.             *)
StartWrite(w) ==
  /\ thread[w].pc = "idle" /\ nextId <= MaxId
  /\ nextId' = nextId + 1
  /\ thread' = [thread EXCEPT ![w] = [NoCall EXCEPT
        !.pc = "reserve", !.call = "write", !.id = nextId, !.todo = Used(size[nextId]),
        !.free = FreeBuffers]]
  /\ UNCHANGED <<engine, size, cursor, file, pool, entries, orphans>>

(* nvme_read: the chunks of the entry are read to the slot.                *)
StartRead(w, x) ==
  /\ thread[w].pc = "idle" /\ x \in DOMAIN entries
  /\ thread' = [thread EXCEPT ![w] = [NoCall EXCEPT
        !.pc = "fill", !.call = "read", !.id = x, !.chunks = entries[x],
        !.plan = ReadPlan(entries[x]), !.free = FreeBuffers,
        !.dst = [k \in 0 .. size[x] - 1 |-> Junk]]]
  /\ UNCHANGED <<engine, size, nextId, cursor, file, pool, entries, orphans>>

(* Mutant: the region is as long as the data, without its padding.         *)
SegUnpadded(len) == len

(* How much of a stripe file a segment of len bytes takes.                 *)
SegPadded(len) == RoundUp(len)

(* fetch_add of the padded length reserves a region of stripe file i, and  *)
(* the segment's blocks join the plan.  io_uring reserves all stripes      *)
(* before the first block is submitted, pwrite each one when its turn      *)
(* comes.  The chunk is in the entry from here on; the caller looks at the *)
(* entry only if the whole write succeeds.                                 *)
Reserve(w) ==
  LET t == thread[w]
  IN  /\ t.pc = "reserve"
      /\ \E i \in t.todo :
           LET c == [stripe |-> i, off |-> cursor[i], len |-> Segment(size[t.id], i)]
           IN  /\ \A k \in t.todo : i <= k
               /\ cursor' = [cursor EXCEPT ![i] = @ + SegPadded(c.len)]
               /\ thread' = [thread EXCEPT ![w] = [t EXCEPT
                     !.todo = @ \ {i}, !.chunks = Append(@, c),
                     !.plan = @ \o Blocks(c, Total(t.chunks)),
                     !.pc = IF engine = "io_uring" /\ t.todo # {i} THEN "reserve" ELSE "fill"]]
      /\ UNCHANGED <<engine, size, nextId, file, pool, entries, orphans>>

(* What is in a buffer once block b of tensor x was copied to it: zeros    *)
(* pad a short block, the rest of the buffer is what it was.               *)
Staged(old, x, b) ==
  [k \in 0 .. Block - 1 |->
     IF k < b.len THEN <<x, b.pos + k>> ELSE IF k < RoundUp(b.len) THEN Zero ELSE old[k]]


(* The buffer of the j-th block of a batch: the free ones are a stack.     *)
FreeBuf(free, j) == free[Len(free) + 1 - j]

(* The blocks that fit are given buffers from the top of the stack of free *)
(* ones and submitted together.  A request points to iov[buffer % 64]; the *)
(* kernel reads that entry at the submission, when all of them are filled. *)
Fill(w) ==
  LET t == thread[w]
      n == Min({Len(t.free), Len(t.plan) - t.next})
      buf(j) == FreeBuf(t.free, j)
      last(j) == CHOOSE m \in 1 .. n : /\ buf(m) % IovSlots = buf(j) % IovSlots
                                       /\ \A k \in m + 1 .. n : buf(k) % IovSlots # buf(j) % IovSlots
      new == {[io |-> t.next + j, buf |-> buf(j), at |-> buf(last(j)),
               span |-> RoundUp(t.plan[t.next + last(j)].len), moved |-> FALSE] : j \in 1 .. n}
  IN  /\ t.pc = "fill" /\ (t.next < Len(t.plan) \/ t.flight # {})
      /\ pool' = [pool EXCEPT ![w] = [b \in Buffers |->
            IF t.call = "write" /\ \E j \in 1 .. n : buf(j) = b
            THEN Staged(@[b], t.id, t.plan[t.next + CHOOSE j \in 1 .. n : buf(j) = b])
            ELSE @[b]]]
      /\ thread' = [thread EXCEPT ![w] = [t EXCEPT
            !.pc = "wait", !.next = @ + n, !.flight = @ \cup new,
            !.free = SubSeq(@, 1, Len(@) - n)]]
      /\ UNCHANGED <<engine, size, nextId, cursor, file, entries, orphans>>

(* The kernel carries out request r: pwrite, pread, or what io_uring was   *)
(* given.                                                                  *)
Transfer(w, r) ==
  LET t == thread[w]
      b == t.plan[r.io]
  IN  /\ ~r.moved
      /\ thread' = [thread EXCEPT ![w].flight = (@ \ {r}) \cup {[r EXCEPT !.moved = TRUE]}]
      /\ IF t.call = "write"
         THEN /\ file' = [file EXCEPT ![b.stripe] = [k \in DOMAIN @ |->
                    IF k \in b.off .. b.off + r.span - 1 THEN pool[w][r.at][k - b.off] ELSE @[k]]]
              /\ UNCHANGED pool
         ELSE /\ pool' = [pool EXCEPT ![w][r.at] = [k \in DOMAIN @ |->
                    IF k < r.span THEN file[b.stripe][b.off + k] ELSE @[k]]]
              /\ UNCHANGED file
      /\ UNCHANGED <<engine, size, nextId, cursor, entries, orphans>>

(* The slot after the block of request r was copied out of its buffer.     *)
CopiedOut(t, bufs, r) ==
  LET b == t.plan[r.io]
  IN  IF t.call = "write" THEN t.dst
      ELSE [k \in DOMAIN t.dst |->
              IF k \in b.pos .. b.pos + b.len - 1 THEN bufs[r.buf][k - b.pos] ELSE t.dst[k]]

(* A write must report its padded length, a read at least its length.      *)
Complete(t, r) ==
  IF t.call = "write" THEN r.span = RoundUp(t.plan[r.io].len) ELSE r.span >= t.plan[r.io].len

(* Mutant: the buffer of a completed block is not given back.              *)
ReapNoBuffer(w, r) ==
  LET t == thread[w]
  IN  /\ t.pc = "wait" /\ r.moved /\ Complete(t, r)
      /\ thread' = [thread EXCEPT ![w] = [t EXCEPT
            !.pc = "fill", !.flight = @ \ {r}, !.dst = CopiedOut(t, pool[w], r)]]
      /\ pool' = [pool EXCEPT ![w][r.buf] = Garbage]
      /\ UNCHANGED <<engine, size, nextId, cursor, file, entries, orphans>>

(* io_uring_wait_cqe returns the completion of request r.  Nothing may     *)
(* rely on what a free buffer holds: it is taken to be garbage.            *)
Reap(w, r) ==
  LET t == thread[w]
  IN  /\ t.pc = "wait" /\ r.moved /\ Complete(t, r)
      /\ thread' = [thread EXCEPT ![w] = [t EXCEPT
            !.pc = "fill", !.flight = @ \ {r}, !.free = Append(@, r.buf),
            !.dst = CopiedOut(t, pool[w], r)]]
      /\ pool' = [pool EXCEPT ![w][r.buf] = Garbage]
      /\ UNCHANGED <<engine, size, nextId, cursor, file, entries, orphans>>

(* The call returns: what it leaves behind is its result.                  *)
Returned(t, ok) == [NoCall EXCEPT !.call = t.call, !.id = t.id, !.dst = t.dst, !.ok = ok]

(* The blocks planned so far are done.  pwrite goes on to its next stripe, *)
(* or the call returns true and do_drain_to_cold keeps the entry.          *)
Finish(w) ==
  LET t == thread[w]
  IN  /\ t.pc = "fill" /\ t.next = Len(t.plan) /\ t.flight = {}
      /\ thread' = [thread EXCEPT ![w] =
            IF t.todo # {} THEN [t EXCEPT !.pc = "reserve"]
                           ELSE Returned(t, TRUE)]
      /\ entries' = IF t.todo = {} /\ t.call = "write"
                    THEN [x \in DOMAIN entries \cup {t.id} |->
                            IF x = t.id THEN t.chunks ELSE entries[x]]
                    ELSE entries
      /\ UNCHANGED <<engine, size, nextId, cursor, file, pool, orphans>>

(* nvme_read_pwrite ends with "return true", whatever happened in its loop.*)
Unaware(t) == engine = "pwrite" /\ t.call = "read"
Failed(t) == Returned(t, Unaware(t))

(* open, io_uring_queue_init or io_uring_submit fails; or posix_memalign,  *)
(* before the first block, which every engine reports.                     *)
OpenFails(w) ==
  LET t == thread[w]
  IN  /\ <<engine, t.call>> \in Faults
      /\ t.pc \in {"reserve", "fill"} /\ t.flight = {}
      /\ \E ok \in {FALSE, Unaware(t)} :
           /\ ok = Unaware(t) \/ t.next = 0
           /\ thread' = [thread EXCEPT ![w] = Returned(t, ok)]
      /\ UNCHANGED <<engine, size, nextId, cursor, file, pool, entries, orphans>>

(* Request r ends with an error or with too few bytes.  io_uring closes    *)
(* the ring and frees the buffers while other requests may be in flight;   *)
(* pread's buffer is copied out as it is.                                  *)
IoFails(w, r) ==
  LET t == thread[w]
  IN  /\ <<engine, t.call>> \in Faults \/ (r.moved /\ ~Complete(t, r))
      /\ t.pc = "wait"
      /\ thread' = [thread EXCEPT ![w] = Failed(
            IF engine = "pwrite" THEN [t EXCEPT !.dst = CopiedOut(t, pool[w], r)] ELSE t)]
      /\ orphans' = orphans \cup
           {[id |-> t.id, stripe |-> t.plan[q.io].stripe, off |-> t.plan[q.io].off,
             len |-> t.plan[q.io].len] :
            q \in {q \in t.flight : engine = "io_uring" /\ t.call = "write" /\ ~q.moved}}
      /\ pool' = [pool EXCEPT ![w] = NewPool]
      /\ UNCHANGED <<engine, size, nextId, cursor, file, entries>>

(* A block whose buffer was freed under it reaches the disk.               *)
Land(o) ==
  /\ orphans' = orphans \ {o}
  /\ file' = [file EXCEPT ![o.stripe] = [k \in DOMAIN @ |->
        IF k \in o.off .. o.off + RoundUp(o.len) - 1 THEN Junk ELSE @[k]]]
  /\ UNCHANGED <<engine, size, nextId, cursor, thread, pool, entries>>
----------------------------------------------------------------------------
Step(w) ==
  \/ Reserve(w) \/ Fill(w) \/ Finish(w)
  \/ \E r \in thread[w].flight : Transfer(w, r) \/ Reap(w, r)

Next ==
  \/ \E w \in Thread :
       \/ StartWrite(w) \/ \E x \in Id : StartRead(w, x)
       \/ Step(w)
       \/ OpenFails(w) \/ \E r \in thread[w].flight : IoFails(w, r)
  \/ \E o \in orphans : Land(o)

Spec == Init /\ [][Next]_vars

(* The threads run, and the kernel ends what it was given.                 *)
FairSpec == Spec /\ \A w \in Thread : WF_vars(Step(w))
----------------------------------------------------------------------------
(* The cold tier keeps its promise: a read that succeeds, begun after the  *)
(* write that made the entry and beside any other call, finds the tensor's *)
(* bytes at their places (do_drain_to_cold, do_readback_from_cold).        *)
Answer(w) ==
  LET t == thread[w]
  IN  CASE t.call = "none" -> "none"
        [] t.pc # "idle" -> "running"
        [] t.pc = "idle" /\ t.call # "none" ->
             IF ~t.ok THEN "failed"
             ELSE IF t.call = "read" /\ t.dst # [k \in 0 .. size[t.id] - 1 |-> <<t.id, k>>]
                  THEN "wrong" ELSE "exact"

Tier == INSTANCE ColdTier
        WITH kept <- DOMAIN entries,
             call <- [w \in Thread |-> [op |-> thread[w].call, id |-> thread[w].id,
                                        ret |-> Answer(w)]]

(* The parts of the stripe files in use: by entries, by writes under way,  *)
(* and by blocks that may still land.                                      *)
Claimed(x, chunks) ==
  {[id |-> x, stripe |-> c.stripe, off |-> c.off, len |-> c.len] : c \in Range(chunks)}
Claims ==
  (UNION {Claimed(x, entries[x]) : x \in DOMAIN entries})
    \cup (UNION {Claimed(thread[w].id, thread[w].chunks) : w \in Thread})
    \cup orphans

(* No two tensors share a part of a stripe file, padding included: the     *)
(* fetch_add gives each segment a region of its own, and what a failed     *)
(* write left in flight lands in its own region (nvme_stripe_offsets_).    *)
RegionsDisjoint ==
  \A c, d \in Claims :
    c.id # d.id /\ c.stripe = d.stripe =>
      c.off + RoundUp(c.len) <= d.off \/ d.off + RoundUp(d.len) <= c.off

(* Every drain and every readback of the cold tier returns: the window of  *)
(* requests never runs out of buffers with blocks left to submit.          *)
TransfersEnd == \A w \in Thread : thread[w].pc # "idle" ~> thread[w].pc = "idle"
=============================================================================
