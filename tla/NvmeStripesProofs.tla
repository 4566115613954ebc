------------------------- MODULE NvmeStripesProofs --------------------------
(* The regions of two tensors never overlap in a stripe file, for any      *)
(* number of threads, stripes and buffers, any page, block and tensor      *)
(* size, either engine and whatever fails.                                 *)
EXTENDS NvmeStripes, SequenceTheorems, TLAPS

Fields == {"pc", "call", "id", "todo", "chunks", "plan", "next", "flight", "free", "ok", "dst"}
Chunk == [stripe : Stripe, off : Nat, len : Nat]

(* What the bookkeeping of a call looks like.                              *)
CallOK(t) ==
  /\ DOMAIN t = Fields
  /\ t.chunks \in Seq(Chunk)
  /\ t.pc = "reserve" => /\ t.call = "write" /\ t.id \in Id
                         /\ t.todo \subseteq Stripe /\ t.todo # {}
  /\ t.call # "write" => t.todo = {}

(* The padded block b lies in the region of chunk c.                       *)
Inside(b, c) ==
  /\ b.stripe = c.stripe /\ b.off \in Nat /\ b.len \in Nat
  /\ c.off <= b.off /\ b.off + RoundUp(b.len) <= c.off + RoundUp(c.len)

(* A write's blocks lie in the regions it reserved, and its requests are   *)
(* for such blocks.                                                        *)
WriteOK(t) ==
  t.call = "write" =>
    /\ t.plan \in Seq(Range(t.plan)) /\ t.next \in 0 .. Len(t.plan) /\ t.free \in Seq(Nat)
    /\ \A b \in Range(t.plan) : \E c \in Range(t.chunks) : Inside(b, c)
    /\ \A q \in t.flight : /\ DOMAIN q = {"io", "buf", "at", "span", "moved"}
                            /\ q.io \in 1 .. Len(t.plan) /\ q.buf \in Nat
    /\ t.id \in Id /\ t.todo \subseteq Stripe

Shape ==
  /\ cursor \in [Stripe -> Nat]
  /\ size \in [Id -> Nat] /\ nextId \in Nat \ {0}
  /\ thread = [w \in Thread |-> thread[w]]
  /\ \A w \in Thread : CallOK(thread[w]) /\ WriteOK(thread[w])
  /\ \A x \in DOMAIN entries : entries[x] \in Seq(Chunk)
  /\ \A o \in orphans : o.stripe \in Stripe /\ o.off \in Nat /\ o.len \in Nat

(* Everything claimed lies below the cursor: the next region is new.       *)
BelowCursor == \A c \in Claims : c.off + RoundUp(c.len) <= cursor[c.stripe]

(* The inductive invariant.                                                *)
RegionInv == Shape /\ BelowCursor /\ RegionsDisjoint

(* Rounding up to pages gives a length that is no shorter.                 *)
LEMMA RoundUpType == ASSUME NEW n \in Nat PROVE RoundUp(n) \in Nat /\ n <= RoundUp(n)
<1> DEFINE q == (n + Align - 1) \div Align
           r == (n + Align - 1) % Align
<1>1. /\ n + Align - 1 = Align * q + r
      /\ q \in Int /\ r \in 0 .. Align - 1
  BY StripeAssumption
<1>2. RoundUp(n) = q * Align  BY Zenon DEF RoundUp
<1> HIDE DEF q, r
<1>3. Align * q \in Int /\ q * Align = Align * q  BY <1>1, StripeAssumption
<1>4. n <= q * Align  BY <1>1, <1>3, StripeAssumption
<1> QED  BY <1>2, <1>3, <1>4

(* Whole pages in front do not change the padding.                         *)
LEMMA RoundUpShift ==
  ASSUME NEW n \in Nat, NEW m \in Nat
  PROVE  RoundUp(m * Align + n) = m * Align + RoundUp(n)
<1> DEFINE a == n + Align - 1
           q == a \div Align
           r == a % Align
           d == (m * Align + n + Align - 1) \div Align
           e == (m * Align + n + Align - 1) % Align
<1>1. a = Align * q + r /\ q \in Int /\ r \in 0 .. Align - 1  BY StripeAssumption
<1>2. m * Align + n + Align - 1 = Align * d + e /\ d \in Int /\ e \in 0 .. Align - 1
  <2>1. m * Align \in Nat  BY StripeAssumption
  <2> QED  BY <2>1, StripeAssumption
<1>3. RoundUp(n) = q * Align /\ RoundUp(m * Align + n) = d * Align  BY Zenon DEF RoundUp
<1>4. m * Align + n + Align - 1 = m * Align + a  BY StripeAssumption
<1> HIDE DEF a, q, r, d, e
<1>5. Align * (d - (m + q)) = r - e
  BY <1>1, <1>2, <1>4, StripeAssumption, m * Align = Align * m
<1>6. d = m + q
  <2>1. CASE d - (m + q) >= 1  BY <1>1, <1>2, <1>5, <2>1, StripeAssumption, SMTT(20)
  <2>2. CASE d - (m + q) <= -1  BY <1>1, <1>2, <1>5, <2>2, StripeAssumption, SMTT(20)
  <2> QED  BY <1>1, <1>2, <2>1, <2>2, SMTT(20)
<1> QED  BY <1>1, <1>3, <1>6, StripeAssumption, SMTT(20)

(* Rounding up keeps the order.                                            *)
LEMMA RoundUpMonotone ==
  ASSUME NEW n \in Nat, NEW m \in Nat, n <= m
  PROVE  RoundUp(n) <= RoundUp(m)
<1> DEFINE q == (n + Align - 1) \div Align
           r == (n + Align - 1) % Align
           d == (m + Align - 1) \div Align
           e == (m + Align - 1) % Align
<1>1. /\ n + Align - 1 = Align * q + r /\ q \in Int /\ r \in 0 .. Align - 1
      /\ m + Align - 1 = Align * d + e /\ d \in Int /\ e \in 0 .. Align - 1
  BY StripeAssumption
<1>2. RoundUp(n) = q * Align /\ RoundUp(m) = d * Align  BY Zenon DEF RoundUp
<1> HIDE DEF q, r, d, e
<1>3. q <= d
  <2> SUFFICES ASSUME q - d >= 1  PROVE FALSE  BY <1>1
  <2>1. Align * (q - d) >= Align  BY <1>1, StripeAssumption
  <2>2. Align * (q - d) = Align * q - Align * d  BY <1>1, StripeAssumption
  <2> QED  BY <1>1, <2>1, <2>2, StripeAssumption, SMTT(20)
<1> QED  BY <1>1, <1>2, <1>3, StripeAssumption, SMTT(20)

(* A segment has a length.                                                 *)
LEMMA SegmentType == ASSUME NEW n \in Nat, NEW i \in Stripe PROVE Segment(n, i) \in Nat
<1> DEFINE q == n \div Stripes
<1>1. n = Stripes * q + (n % Stripes) /\ q \in Nat /\ n % Stripes \in Nat  BY StripeAssumption
<1>2. Segment(n, i) = IF i = Stripes - 1 THEN n - (Stripes - 1) * q ELSE q  BY Zenon DEF Segment
<1> HIDE DEF q
<1>3. (Stripes - 1) * q = Stripes * q - q  BY <1>1, StripeAssumption
<1>4. Stripes * q \in Nat  BY <1>1, StripeAssumption
<1> QED  BY <1>1, <1>2, <1>3, <1>4, StripeAssumption, SMTT(20)

(* The blocks of a chunk, padded, stay in its region.                      *)
LEMMA BlocksInside ==
  ASSUME NEW c \in Chunk, NEW pos
  PROVE  /\ Blocks(c, pos) \in Seq(Range(Blocks(c, pos)))
         /\ \A b \in Range(Blocks(c, pos)) : Inside(b, c)
<1> DEFINE n == (c.len + Block - 1) \div Block
           B == Blocks(c, pos)
<1>1. c.stripe \in Stripe /\ c.off \in Nat /\ c.len \in Nat  BY Zenon DEF Chunk
<1>2. /\ n \in Nat
      /\ c.len + Block - 1 = Block * n + ((c.len + Block - 1) % Block)
      /\ (c.len + Block - 1) % Block \in 0 .. Block - 1
  BY <1>1, BlockAssumption
<1>3. DOMAIN B = 1 .. n /\ B = [k \in 1 .. n |-> B[k]]  BY Zenon DEF Blocks
<1>4. \A k \in 1 .. n :
        /\ B[k].stripe = c.stripe /\ B[k].off = c.off + (k - 1) * Block
        /\ B[k].len = IF k * Block <= c.len THEN Block ELSE c.len - (k - 1) * Block
  BY Zenon DEF Blocks
<1> HIDE DEF n, B
<1>5. B \in Seq(Range(B))
  <2>1. \A k \in 1 .. n : B[k] \in Range(B)  BY <1>3, Zenon DEF Range
  <2> QED  BY <1>2, <1>3, <2>1, SMTT(20)
<1>6. ASSUME NEW k \in 1 .. n  PROVE Inside(B[k], c)
  <2> DEFINE m == k - 1
             f == Block \div Align
  <2>1. m \in Nat /\ k * Block = m * Block + Block /\ m * Block \in Nat  BY <1>2, BlockAssumption
  <2>2. m * Block < c.len
    <3>1. k * Block <= n * Block
      <4>1. n - k \in Nat /\ Block \in Nat  BY <1>2, BlockAssumption
      <4>2. (n - k) * Block >= 0  BY <4>1
      <4>3. (n - k) * Block = n * Block - k * Block  BY <1>2, BlockAssumption
      <4>4. n * Block \in Int /\ k * Block \in Int  BY <1>2, BlockAssumption, SMTT(20)
      <4> QED  BY <4>2, <4>3, <4>4, SMTT(20)
    <3>2. n * Block = Block * n /\ n * Block \in Int  BY <1>2, BlockAssumption, SMTT(20)
    <3> HIDE DEF m
    <3> QED  BY <1>1, <1>2, <2>1, <3>1, <3>2, BlockAssumption, SMTT(20)
  <2>3. B[k].len \in Nat /\ m * Block + B[k].len <= c.len
    BY <1>1, <1>4, <2>1, <2>2, BlockAssumption, SMTT(20)
  <2>4. m * Block = (m * f) * Align /\ m * f \in Nat
    <3>1. Block = Align * f + (Block % Align) /\ f \in Nat  BY StripeAssumption, BlockAssumption
    <3>2. Block = f * Align  BY <3>1, StripeAssumption, BlockAssumption
    <3> HIDE DEF f, m
    <3> QED  BY <2>1, <3>1, <3>2, StripeAssumption, SMTT(20)
  <2> HIDE DEF m, f
  <2>5. RoundUp(m * Block + B[k].len) = m * Block + RoundUp(B[k].len)
    BY <2>3, <2>4, RoundUpShift, Zenon
  <2>6. RoundUp(m * Block + B[k].len) <= RoundUp(c.len)
    BY <1>1, <2>1, <2>3, RoundUpMonotone, SMTT(20)
  <2>7. RoundUp(B[k].len) \in Nat /\ RoundUp(c.len) \in Nat  BY <1>1, <2>3, RoundUpType, Zenon
  <2>8. B[k].off = c.off + m * Block /\ B[k].stripe = c.stripe  BY <1>4, Zenon DEF m
  <2> QED  BY <1>1, <2>1, <2>3, <2>5, <2>6, <2>7, <2>8, SMTT(20) DEF Inside
<1> QED  BY <1>3, <1>5, <1>6, ZenonT(30) DEF Range, B

(* If nothing new is claimed and no cursor moves, the regions stay apart.  *)
LEMMA ClaimsShrink ==
  ASSUME BelowCursor, RegionsDisjoint, Claims' \subseteq Claims, cursor' = cursor
  PROVE  BelowCursor' /\ RegionsDisjoint'
  BY Zenon DEF BelowCursor, RegionsDisjoint, RoundUp

(* Entries and writes that do not change claim the same regions.           *)
LEMMA SameClaims ==
  ASSUME entries' = entries, thread' = thread
  PROVE  /\ (UNION {Claimed(x, entries[x]) : x \in DOMAIN entries})'
              = UNION {Claimed(x, entries[x]) : x \in DOMAIN entries}
         /\ (UNION {Claimed(thread[w].id, thread[w].chunks) : w \in Thread})'
              = UNION {Claimed(thread[w].id, thread[w].chunks) : w \in Thread}
<1>1. (UNION {Claimed(x, entries[x]) : x \in DOMAIN entries})'
        = UNION {Claimed(x, entries[x]) : x \in DOMAIN entries}
  BY DEF Claimed
<1>2. (UNION {Claimed(thread[w].id, thread[w].chunks) : w \in Thread})'
        = UNION {Claimed(thread[w].id, thread[w].chunks) : w \in Thread}
  BY DEF Claimed
<1> QED  BY <1>1, <1>2, Zenon

(* The elements of two sequences joined.                                   *)
LEMMA ConcatRange ==
  ASSUME NEW p, NEW q, p \in Seq(Range(p)), q \in Seq(Range(q))
  PROVE  /\ (p \o q) \in Seq(Range(p \o q))
         /\ Range(p \o q) \subseteq Range(p) \cup Range(q)
         /\ Len(p \o q) = Len(p) + Len(q)
<1> DEFINE S == Range(p) \cup Range(q)
<1>1. p \in Seq(S) /\ q \in Seq(S)  BY SeqMonotonic, Zenon
<1>2. /\ (p \o q) \in Seq(S) /\ Len(p \o q) = Len(p) + Len(q)
      /\ DOMAIN (p \o q) = 1 .. Len(p \o q)
  BY <1>1, ConcatProperties, LenProperties, ZenonT(30)
<1>3. Range(p \o q) \subseteq S  BY <1>2 DEF Range
<1>4. (p \o q) \in Seq(Range(p \o q))
  <2> DEFINE r == p \o q
  <2>1. r \in Seq(S) /\ DOMAIN r = 1 .. Len(r)  BY <1>2, Zenon
  <2> HIDE DEF r
  <2>2. r \in Seq(Range(r))
    <3>1. r = [k \in 1 .. Len(r) |-> r[k]] /\ Len(r) \in Nat  BY <2>1
    <3>2. \A k \in 1 .. Len(r) : r[k] \in Range(r)  BY <2>1, Zenon DEF Range
    <3> QED  BY <3>1, <3>2
  <2> QED  BY <2>2, Zenon DEF r
<1> QED  BY <1>2, <1>3, <1>4, ZenonT(30)

(* The invariant holds at the start.                                       *)
LEMMA RegionInit == Init => RegionInv
<1> SUFFICES ASSUME Init PROVE RegionInv  BY Zenon
<1> USE DEF Init, NoCall
<1>1. CallOK(NoCall) /\ WriteOK(NoCall)  BY DEF CallOK, WriteOK, Fields
<1>2. \A w \in Thread : thread[w] = NoCall  BY Zenon
<1>3. Shape
  BY <1>1, <1>2, StripeAssumption, SMTT(20) DEF Shape, Id
<1>4. Claims = {}  BY <1>2 DEF Claims, Claimed, Range
<1> QED  BY <1>3, <1>4, Zenon DEF RegionInv, BelowCursor, RegionsDisjoint

(* A step of one thread that claims nothing new keeps the invariant.       *)
LEMMA LocalStep ==
  ASSUME RegionInv, NEW w \in Thread, NEW t,
         thread' = [thread EXCEPT ![w] = t], CallOK(t), WriteOK(t),
         Claimed(t.id, t.chunks) \subseteq Claims,
         \A x \in DOMAIN entries' : entries'[x] \in Seq(Chunk) /\ Claimed(x, entries'[x]) \subseteq Claims,
         UNCHANGED <<size, cursor, orphans>>, nextId' \in Nat \ {0}
  PROVE  RegionInv'
<1> USE DEF RegionInv
<1>1. \A v \in Thread : thread'[v] = IF v = w THEN t ELSE thread[v]  BY Zenon DEF Shape
<1>2. Shape'
  <2>1. thread' = [v \in Thread |-> thread'[v]]  BY Zenon DEF Shape
  <2>2. \A v \in Thread : CallOK(thread[v])' /\ WriteOK(thread[v])'
    BY <1>1, ZenonT(60) DEF Shape, CallOK, WriteOK, Inside, RoundUp
  <2> QED  BY <2>1, <2>2, Zenon DEF Shape
<1>3. Claims' \subseteq Claims
  <2>1. \A v \in Thread : Claimed(thread'[v].id, thread'[v].chunks) \subseteq Claims
    BY <1>1, Zenon DEF Claims
  <2>2. Claims' = (UNION {Claimed(x, entries'[x]) : x \in DOMAIN entries'})
           \cup (UNION {Claimed(thread'[v].id, thread'[v].chunks) : v \in Thread}) \cup orphans
    BY Zenon DEF Claims, Claimed
  <2> QED  BY <2>1, <2>2 DEF Claims
<1> QED  BY <1>2, <1>3, ClaimsShrink, ZenonT(30)

(* The claims of a thread and of an entry are claims.                      *)
LEMMA OwnClaims ==
  /\ \A w \in Thread : Claimed(thread[w].id, thread[w].chunks) \subseteq Claims
  /\ \A x \in DOMAIN entries : Claimed(x, entries[x]) \subseteq Claims
  BY Zenon DEF Claims

(* The same entries make the same claims.                                  *)
LEMMA EntriesKept ==
  ASSUME RegionInv, entries' = entries
  PROVE  \A x \in DOMAIN entries' : entries'[x] \in Seq(Chunk) /\ Claimed(x, entries'[x]) \subseteq Claims
  BY OwnClaims, Zenon DEF RegionInv, Shape

(* The start of a call.                                                    *)
LEMMA StartStep ==
  ASSUME RegionInv, NEW w \in Thread, StartWrite(w) \/ \E x \in Id : StartRead(w, x)
  PROVE  RegionInv'
<1>1. CASE StartWrite(w)
  <2> DEFINE t == [NoCall EXCEPT !.pc = "reserve", !.call = "write", !.id = nextId,
                     !.todo = Used(size[nextId]), !.free = FreeBuffers]
  <2>1. nextId \in Id  BY <1>1, StripeAssumption, SMTT(20) DEF StartWrite, RegionInv, Shape, Id
  <2>2. Used(size[nextId]) \subseteq Stripe /\ 0 \in Used(size[nextId])
    BY StripeAssumption DEF Used, Stripe
  <2>3. CallOK(t) /\ WriteOK(t)
    <3>1. FreeBuffers \in Seq(Nat)  BY BlockAssumption DEF FreeBuffers, Depth
    <3> QED  BY <2>1, <2>2, <3>1, SMTT(20) DEF NoCall, CallOK, WriteOK, Fields, Range
  <2>4. Claimed(t.id, t.chunks) = {}  BY DEF NoCall, Claimed, Range
  <2>5. nextId' \in Nat \ {0}  BY <1>1 DEF StartWrite, RegionInv, Shape
  <2> HIDE DEF t
  <2>6. thread' = [thread EXCEPT ![w] = t] /\ UNCHANGED <<size, cursor, entries, orphans>>
    BY <1>1, Zenon DEF StartWrite, t
  <2> QED  BY <2>3, <2>4, <2>5, <2>6, EntriesKept, LocalStep, ZenonT(30)
<1>2. ASSUME NEW x \in Id, StartRead(w, x)  PROVE RegionInv'
  <2> DEFINE t == [NoCall EXCEPT !.pc = "fill", !.call = "read", !.id = x, !.chunks = entries[x],
                     !.plan = ReadPlan(entries[x]), !.free = FreeBuffers,
                     !.dst = [k \in 0 .. size[x] - 1 |-> Junk]]
  <2>1. x \in DOMAIN entries  BY <1>2, Zenon DEF StartRead
  <2>2. CallOK(t) /\ WriteOK(t)
    BY <2>1, Zenon DEF NoCall, CallOK, WriteOK, Fields, RegionInv, Shape
  <2>3. t.id = x /\ t.chunks = entries[x]  BY Zenon DEF NoCall
  <2>4. Claimed(t.id, t.chunks) \subseteq Claims  BY <2>1, <2>3, OwnClaims, ZenonT(30)
  <2>5. nextId' \in Nat \ {0}  BY <1>2, Zenon DEF StartRead, RegionInv, Shape
  <2> HIDE DEF t
  <2>6. thread' = [thread EXCEPT ![w] = t] /\ UNCHANGED <<size, cursor, entries, orphans>>
    BY <1>2, Zenon DEF StartRead, t
  <2> QED  BY <2>2, <2>4, <2>5, <2>6, EntriesKept, LocalStep, ZenonT(30)
<1> QED  BY <1>1, <1>2, ZenonT(30)

(* Blocks are submitted, and completed, within the plan.                   *)
LEMMA FillStep ==
  ASSUME RegionInv, NEW w \in Thread, Fill(w)
  PROVE  RegionInv'
<1> DEFINE t == thread[w]
           n == Min({Len(t.free), Len(t.plan) - t.next})
           buf(j) == t.free[Len(t.free) + 1 - j]
           last(j) == CHOOSE m \in 1 .. n :
                        /\ buf(m) % IovSlots = buf(j) % IovSlots
                        /\ \A k \in m + 1 .. n : buf(k) % IovSlots # buf(j) % IovSlots
           new == {[io |-> t.next + j, buf |-> buf(j), at |-> buf(last(j)),
                    span |-> RoundUp(t.plan[t.next + last(j)].len), moved |-> FALSE] : j \in 1 .. n}
           u == [t EXCEPT !.pc = "wait", !.next = @ + n, !.flight = @ \cup new,
                          !.free = SubSeq(@, 1, Len(@) - n)]
<1>1. thread' = [thread EXCEPT ![w] = u] /\ UNCHANGED <<size, nextId, cursor, entries, orphans>>
  BY Zenon DEF Fill, FreeBuf
<1>2. CallOK(t) /\ WriteOK(t) /\ nextId \in Nat \ {0}  BY Zenon DEF RegionInv, Shape
<1>3. \A q \in new : \E j \in 1 .. n :
        /\ DOMAIN q = {"io", "buf", "at", "span", "moved"}
        /\ q.io = t.next + j /\ q.buf = buf(j)
  <2> HIDE DEF last, buf, n
  <2> TAKE q \in new
  <2>1. PICK j \in 1 .. n :
          q = [io |-> t.next + j, buf |-> buf(j), at |-> buf(last(j)),
               span |-> RoundUp(t.plan[t.next + last(j)].len), moved |-> FALSE]
    BY Zenon
  <2> QED  BY <2>1, ZenonT(30)
<1> HIDE DEF new
<1>4. DOMAIN t = Fields  BY <1>2, Zenon DEF CallOK
<1>5. /\ DOMAIN u = Fields /\ u.chunks = t.chunks /\ u.id = t.id /\ u.pc = "wait"
      /\ u.call = t.call /\ u.plan = t.plan /\ u.todo = t.todo /\ u.next = t.next + n
      /\ u.flight = t.flight \cup new /\ u.free = SubSeq(t.free, 1, Len(t.free) - n)
  BY <1>4, Zenon DEF Fields
<1> HIDE DEF u
<1>6. CallOK(u)  BY <1>2, <1>5, Zenon DEF CallOK
<1>7. WriteOK(u)
  <2> SUFFICES ASSUME t.call = "write"  PROVE WriteOK(u)  BY <1>5, Zenon DEF WriteOK
  <2>1. /\ Len(t.plan) \in Nat /\ t.next \in 0 .. Len(t.plan)
        /\ t.free \in Seq(Nat) /\ Len(t.free) \in Nat
    BY <1>2, LenProperties, ZenonT(30) DEF WriteOK
  <2>2. n \in Nat /\ n <= Len(t.free) /\ n <= Len(t.plan) - t.next
    <3> DEFINE S == {Len(t.free), Len(t.plan) - t.next}
    <3>1. \E x \in S : \A y \in S : x <= y
      <4>1. CASE Len(t.free) <= Len(t.plan) - t.next  BY <2>1, <4>1, SMTT(30)
      <4>2. CASE ~(Len(t.free) <= Len(t.plan) - t.next)  BY <2>1, <4>2, SMTT(30)
      <4> QED  BY <4>1, <4>2, ZenonT(30)
    <3>2. n \in S /\ \A y \in S : n <= y  BY <3>1, Zenon DEF Min
    <3> QED  BY <2>1, <3>2, SMTT(20)
  <2> HIDE DEF n
  <2>3. \A j \in 1 .. n : buf(j) \in Nat
    <3> TAKE j \in 1 .. n
    <3>1. Len(t.free) + 1 - j \in 1 .. Len(t.free)  BY <2>1, <2>2, SMTT(20)
    <3> QED  BY <2>1, <3>1, ElementOfSeq, ZenonT(30)
  <2> HIDE DEF buf
  <2>4. \A q \in u.flight : /\ DOMAIN q = {"io", "buf", "at", "span", "moved"}
                            /\ q.io \in 1 .. Len(t.plan) /\ q.buf \in Nat
    <3> TAKE q \in u.flight
    <3>1. CASE q \in t.flight  BY <1>2, <3>1, Zenon DEF WriteOK
    <3>2. CASE q \in new
      <4>1. PICK j \in 1 .. n : /\ DOMAIN q = {"io", "buf", "at", "span", "moved"}
                                /\ q.io = t.next + j /\ q.buf = buf(j)
        BY <1>3, <3>2, ZenonT(30)
      <4>2. t.next + j \in 1 .. Len(t.plan)
        <5> HIDE DEF t
        <5> QED  BY <2>1, <2>2, SMTT(20)
      <4>3. buf(j) \in Nat  BY <2>3, Zenon
      <4> HIDE DEF t
      <4> QED  BY <4>1, <4>2, <4>3, Zenon
    <3>3. q \in t.flight \cup new  BY <1>5, Zenon
    <3> QED  BY <3>1, <3>2, <3>3, ZenonT(30)
  <2>5. u.free \in Seq(Nat)
    <3>1. \A k \in 1 .. Len(t.free) - n : t.free[k] \in Nat
      <4> TAKE k \in 1 .. Len(t.free) - n
      <4>1. k \in 1 .. Len(t.free)  BY <2>1, <2>2, SMTT(20)
      <4> QED  BY <2>1, <4>1, ElementOfSeq, ZenonT(30)
    <3>2. SubSeq(t.free, 1, Len(t.free) - n) \in Seq(Nat)  BY <2>1, <2>2, <3>1, SubSeqProperties, SMTT(20)
    <3> QED  BY <1>5, <3>2, Zenon
  <2>6. u.next \in 0 .. Len(u.plan)  BY <1>5, <2>1, <2>2, SMTT(30)
  <2> QED  BY <1>2, <1>5, <2>4, <2>5, <2>6, ZenonT(30) DEF WriteOK
<1>8. Claimed(u.id, u.chunks) \subseteq Claims  BY <1>5, OwnClaims, Zenon
<1> HIDE DEF t
<1> QED  BY <1>1, <1>2, <1>6, <1>7, <1>8, EntriesKept, LocalStep, ZenonT(30)

(* A transfer of the kernel.                                               *)
LEMMA TransferStep ==
  ASSUME RegionInv, NEW w \in Thread, NEW r \in thread[w].flight, Transfer(w, r)
  PROVE  RegionInv'
<1> DEFINE t == thread[w]
           u == [t EXCEPT !.flight = (@ \ {r}) \cup {[r EXCEPT !.moved = TRUE]}]
<1>1. /\ CallOK(t) /\ WriteOK(t) /\ nextId \in Nat \ {0}
      /\ thread = [v \in Thread |-> thread[v]]
  BY Zenon DEF RegionInv, Shape
<1>2. thread' = [thread EXCEPT ![w] = u] /\ UNCHANGED <<size, nextId, cursor, entries, orphans>>
  BY <1>1, Zenon DEF Transfer
<1>3. DOMAIN t = Fields  BY <1>1, Zenon DEF CallOK
<1>4. /\ DOMAIN u = Fields /\ u.chunks = t.chunks /\ u.id = t.id /\ u.pc = t.pc
      /\ u.call = t.call /\ u.plan = t.plan /\ u.todo = t.todo /\ u.next = t.next
      /\ u.flight = (t.flight \ {r}) \cup {[r EXCEPT !.moved = TRUE]} /\ u.free = t.free
  BY <1>3, Zenon DEF Fields
<1> HIDE DEF u
<1>5. CallOK(u)  BY <1>1, <1>4, Zenon DEF CallOK
<1>6. WriteOK(u)
  <2> SUFFICES ASSUME t.call = "write"  PROVE WriteOK(u)  BY <1>4, Zenon DEF WriteOK
  <2>1. /\ DOMAIN r = {"io", "buf", "at", "span", "moved"}
        /\ r.io \in 1 .. Len(t.plan) /\ r.buf \in Nat
    BY <1>1, Zenon DEF WriteOK
  <2> DEFINE m == [r EXCEPT !.moved = TRUE]
  <2>2. DOMAIN m = {"io", "buf", "at", "span", "moved"} /\ m.io = r.io /\ m.buf = r.buf  BY <2>1, Zenon
  <2> HIDE DEF m
  <2> QED  BY <1>1, <1>4, <2>1, <2>2, ZenonT(30) DEF WriteOK, m
<1>7. Claimed(u.id, u.chunks) \subseteq Claims  BY <1>4, OwnClaims, ZenonT(30)
<1> HIDE DEF t
<1> QED  BY <1>1, <1>2, <1>5, <1>6, <1>7, EntriesKept, LocalStep, ZenonT(30)

(* The completion of a block.                                              *)
LEMMA ReapStep ==
  ASSUME RegionInv, NEW w \in Thread, NEW r \in thread[w].flight, Reap(w, r)
  PROVE  RegionInv'
<1> DEFINE t == thread[w]
           u == [t EXCEPT !.pc = "fill", !.flight = @ \ {r}, !.free = Append(@, r.buf),
                          !.dst = CopiedOut(t, pool[w], r)]
<1>1. /\ CallOK(t) /\ WriteOK(t) /\ nextId \in Nat \ {0}
      /\ thread = [v \in Thread |-> thread[v]]
  BY Zenon DEF RegionInv, Shape
<1>2. thread' = [thread EXCEPT ![w] = u] /\ UNCHANGED <<size, nextId, cursor, entries, orphans>>
  BY <1>1, Zenon DEF Reap
<1>3. DOMAIN t = Fields  BY <1>1, Zenon DEF CallOK
<1>4. /\ DOMAIN u = Fields /\ u.chunks = t.chunks /\ u.id = t.id /\ u.pc = "fill"
      /\ u.call = t.call /\ u.plan = t.plan /\ u.todo = t.todo /\ u.next = t.next
      /\ u.flight = t.flight \ {r} /\ u.free = Append(t.free, r.buf)
  BY <1>3, Zenon DEF Fields
<1> HIDE DEF u
<1>5. CallOK(u)  BY <1>1, <1>4, Zenon DEF CallOK
<1>6. WriteOK(u)
  <2> SUFFICES ASSUME t.call = "write"  PROVE WriteOK(u)  BY <1>4, Zenon DEF WriteOK
  <2>1. t.free \in Seq(Nat) /\ r.buf \in Nat  BY <1>1, Zenon DEF WriteOK
  <2>2. u.free \in Seq(Nat)  BY <1>4, <2>1
  <2> QED  BY <1>1, <1>4, <2>2, ZenonT(30) DEF WriteOK
<1>7. Claimed(u.id, u.chunks) \subseteq Claims  BY <1>4, OwnClaims, Zenon
<1> HIDE DEF t
<1> QED  BY <1>1, <1>2, <1>5, <1>6, <1>7, EntriesKept, LocalStep, ZenonT(30)

(* A call that has returned claims nothing itself.                         *)
LEMMA ReturnedOK ==
  ASSUME NEW t, WriteOK(t), NEW ok
  PROVE  /\ CallOK(Returned(t, ok)) /\ WriteOK(Returned(t, ok))
         /\ Claimed(Returned(t, ok).id, Returned(t, ok).chunks) = {}
  BY DEF Returned, NoCall, CallOK, WriteOK, Fields, Range, Claimed

(* The end of a stripe, and of a call that succeeds.                       *)
LEMMA FinishStep ==
  ASSUME RegionInv, NEW w \in Thread, Finish(w)
  PROVE  RegionInv'
<1> DEFINE t == thread[w]
<1>1. /\ CallOK(t) /\ WriteOK(t) /\ nextId \in Nat \ {0}
  BY Zenon DEF RegionInv, Shape
<1>2. UNCHANGED <<size, nextId, cursor, orphans>>  BY Zenon DEF Finish
<1>3. DOMAIN t = Fields  BY <1>1, Zenon DEF CallOK
<1>4. CASE t.todo # {}
  <2> DEFINE u == [t EXCEPT !.pc = "reserve"]
  <2>1. thread' = [thread EXCEPT ![w] = u] /\ entries' = entries  BY <1>4, Zenon DEF Finish
  <2>2. /\ DOMAIN u = Fields /\ u.chunks = t.chunks /\ u.id = t.id /\ u.pc = "reserve"
        /\ u.call = t.call /\ u.plan = t.plan /\ u.todo = t.todo /\ u.next = t.next
        /\ u.flight = t.flight /\ u.free = t.free
    BY <1>3, Zenon DEF Fields
  <2> HIDE DEF u
  <2>3. CallOK(u) /\ WriteOK(u)  BY <1>1, <1>4, <2>2, ZenonT(30) DEF CallOK, WriteOK
  <2>4. Claimed(u.id, u.chunks) \subseteq Claims  BY <2>2, OwnClaims, ZenonT(30)
  <2> HIDE DEF t
  <2> QED  BY <1>1, <1>2, <2>1, <2>3, <2>4, EntriesKept, LocalStep, ZenonT(30)
<1>5. CASE t.todo = {}
  <2> DEFINE u == Returned(t, TRUE)
  <2>1. thread' = [thread EXCEPT ![w] = u]  BY <1>5, Zenon DEF Finish
  <2>2. CallOK(u) /\ WriteOK(u) /\ Claimed(u.id, u.chunks) = {}  BY <1>1, ReturnedOK, ZenonT(30)
  <2>3. \A x \in DOMAIN entries' :
          entries'[x] \in Seq(Chunk) /\ Claimed(x, entries'[x]) \subseteq Claims
    <3>1. CASE t.call = "write"
      <4>1. entries' = [x \in DOMAIN entries \cup {t.id} |-> IF x = t.id THEN t.chunks ELSE entries[x]]
        BY <1>5, <3>1, ZenonT(30) DEF Finish
      <4>2. t.chunks \in Seq(Chunk) /\ Claimed(t.id, t.chunks) \subseteq Claims
        BY <1>1, OwnClaims, Zenon DEF CallOK
      <4>3. \A x \in DOMAIN entries : entries[x] \in Seq(Chunk) /\ Claimed(x, entries[x]) \subseteq Claims
        BY OwnClaims, Zenon DEF RegionInv, Shape
      <4> HIDE DEF t
      <4> QED  BY <4>1, <4>2, <4>3, ZenonT(30)
    <3>2. CASE t.call # "write"
      <4>1. entries' = entries  BY <3>2, Zenon DEF Finish
      <4> QED  BY <4>1, EntriesKept, ZenonT(30)
    <3> QED  BY <3>1, <3>2, ZenonT(30)
  <2> HIDE DEF u, t
  <2> QED  BY <1>1, <1>2, <2>1, <2>2, <2>3, LocalStep, ZenonT(30)
<1> QED  BY <1>4, <1>5, Zenon

(* A call that fails with nothing in flight.                               *)
LEMMA OpenFailsStep ==
  ASSUME RegionInv, NEW w \in Thread, OpenFails(w)
  PROVE  RegionInv'
<1>1. PICK ok \in BOOLEAN :
        /\ thread' = [thread EXCEPT ![w] = Returned(thread[w], ok)]
        /\ UNCHANGED <<size, nextId, cursor, entries, orphans>>
  BY Zenon DEF OpenFails, Unaware
<1> DEFINE u == Returned(thread[w], ok)
<1>2. WriteOK(thread[w]) /\ nextId \in Nat \ {0}  BY Zenon DEF RegionInv, Shape
<1>3. CallOK(u) /\ WriteOK(u) /\ Claimed(u.id, u.chunks) = {}  BY <1>2, ReturnedOK, ZenonT(30)
<1>4. thread' = [thread EXCEPT ![w] = u] /\ UNCHANGED <<size, nextId, cursor, entries, orphans>>
  BY <1>1, Zenon
<1> HIDE DEF u
<1> QED  BY <1>2, <1>3, <1>4, EntriesKept, LocalStep, ZenonT(30)

(* A block that was left in flight reaches the disk.                       *)
LEMMA LandStep ==
  ASSUME RegionInv, NEW o \in orphans, Land(o)
  PROVE  RegionInv'
<1>1. /\ UNCHANGED <<size, nextId, cursor, thread, entries>>
      /\ orphans' = orphans \ {o}
  BY Zenon DEF Land
<1>2. Shape'
  BY <1>1, Zenon DEF RegionInv, Shape, CallOK, WriteOK, Inside, RoundUp
<1>3. Claims' \subseteq Claims  BY <1>1, SameClaims, ZenonT(30) DEF Claims
<1> QED  BY <1>1, <1>2, <1>3, ClaimsShrink, ZenonT(30) DEF RegionInv

(* What a claim is made of.                                                *)
LEMMA ClaimType ==
  ASSUME RegionInv, NEW c \in Claims
  PROVE  c.stripe \in Stripe /\ c.off \in Nat /\ c.len \in Nat /\ RoundUp(c.len) \in Nat
<1>1. \A x, s : s \in Seq(Chunk) => \A d \in Claimed(x, s) :
                  d.stripe \in Stripe /\ d.off \in Nat /\ d.len \in Nat
  <2> SUFFICES ASSUME NEW x, NEW s, s \in Seq(Chunk), NEW d \in Claimed(x, s)
               PROVE  d.stripe \in Stripe /\ d.off \in Nat /\ d.len \in Nat
    BY Zenon
  <2>1. PICK e \in Range(s) : d = [id |-> x, stripe |-> e.stripe, off |-> e.off, len |-> e.len]
    BY Zenon DEF Claimed
  <2>2. PICK k \in DOMAIN s : e = s[k]  BY Zenon DEF Range
  <2>3. e \in Chunk  BY <2>2, LenProperties, ElementOfSeq, ZenonT(30)
  <2> QED  BY <2>1, <2>3, ZenonT(30) DEF Chunk
<1>2. c.stripe \in Stripe /\ c.off \in Nat /\ c.len \in Nat
  <2>1. CASE c \in orphans  BY <2>1, Zenon DEF RegionInv, Shape
  <2>2. ASSUME NEW x \in DOMAIN entries, c \in Claimed(x, entries[x])
        PROVE  c.stripe \in Stripe /\ c.off \in Nat /\ c.len \in Nat
    <3>1. entries[x] \in Seq(Chunk)  BY Zenon DEF RegionInv, Shape
    <3> QED  BY <1>1, <2>2, <3>1, ZenonT(30)
  <2>3. ASSUME NEW w \in Thread, c \in Claimed(thread[w].id, thread[w].chunks)
        PROVE  c.stripe \in Stripe /\ c.off \in Nat /\ c.len \in Nat
    <3>1. thread[w].chunks \in Seq(Chunk)  BY Zenon DEF RegionInv, Shape, CallOK
    <3> QED  BY <1>1, <2>3, <3>1, ZenonT(30)
  <2> QED  BY <2>1, <2>2, <2>3, ZenonT(30) DEF Claims
<1> QED  BY <1>2, RoundUpType, ZenonT(30)

(* A region at the cursor is apart from everything claimed before.         *)
LEMMA ReserveStep ==
  ASSUME RegionInv, NEW w \in Thread, Reserve(w)
  PROVE  RegionInv'
<1> DEFINE t == thread[w]
<1>1. /\ CallOK(t) /\ WriteOK(t) /\ cursor \in [Stripe -> Nat] /\ size \in [Id -> Nat]
      /\ thread = [v \in Thread |-> thread[v]] /\ nextId \in Nat \ {0}
  BY Zenon DEF RegionInv, Shape
<1>2. t.pc = "reserve" /\ UNCHANGED <<size, nextId, entries, orphans>>
  BY Zenon DEF Reserve, SegPadded
<1>3. t.call = "write" /\ t.id \in Id /\ t.todo \subseteq Stripe /\ DOMAIN t = Fields
  BY <1>1, <1>2, Zenon DEF CallOK
<1>4. PICK i \in t.todo :
        /\ cursor' = [cursor EXCEPT ![i] = @ + RoundUp(Segment(size[t.id], i))]
        /\ thread' = [thread EXCEPT ![w] = [t EXCEPT
              !.todo = @ \ {i},
              !.chunks = Append(@, [stripe |-> i, off |-> cursor[i], len |-> Segment(size[t.id], i)]),
              !.plan = @ \o Blocks([stripe |-> i, off |-> cursor[i], len |-> Segment(size[t.id], i)],
                                   Total(t.chunks)),
              !.pc = IF engine = "io_uring" /\ t.todo # {i} THEN "reserve" ELSE "fill"]]
  BY Zenon DEF Reserve, SegPadded
<1> DEFINE c == [stripe |-> i, off |-> cursor[i], len |-> Segment(size[t.id], i)]
           B == Blocks(c, Total(t.chunks))
           u == [t EXCEPT !.todo = @ \ {i}, !.chunks = Append(@, c), !.plan = @ \o B,
                   !.pc = IF engine = "io_uring" /\ t.todo # {i} THEN "reserve" ELSE "fill"]
           claim == [id |-> t.id, stripe |-> c.stripe, off |-> c.off, len |-> c.len]
<1>5. thread' = [thread EXCEPT ![w] = u]  BY <1>4, Zenon
<1>6. i \in Stripe /\ size[t.id] \in Nat /\ cursor[i] \in Nat  BY <1>1, <1>3, Zenon
<1>7. c \in Chunk /\ c.stripe = i /\ c.off = cursor[i] /\ RoundUp(c.len) \in Nat
  <2>1. Segment(size[t.id], i) \in Nat  BY <1>6, SegmentType, ZenonT(30)
  <2> QED  BY <1>6, <2>1, RoundUpType, ZenonT(30) DEF Chunk
<1>8. cursor' = [cursor EXCEPT ![i] = @ + RoundUp(c.len)]  BY <1>4, Zenon
<1>9. B \in Seq(Range(B)) /\ \A b \in Range(B) : Inside(b, c)  BY <1>7, BlocksInside, Zenon
<1> HIDE DEF c, B
<1>10. /\ DOMAIN u = Fields /\ u.chunks = Append(t.chunks, c) /\ u.id = t.id
       /\ u.pc = IF engine = "io_uring" /\ t.todo # {i} THEN "reserve" ELSE "fill"
       /\ u.call = t.call /\ u.plan = t.plan \o B /\ u.todo = t.todo \ {i} /\ u.next = t.next
       /\ u.flight = t.flight /\ u.free = t.free
  BY <1>3, Zenon DEF Fields
<1> HIDE DEF u
<1>11. /\ t.chunks \in Seq(Chunk) /\ u.chunks \in Seq(Chunk)
       /\ Range(u.chunks) = Range(t.chunks) \cup {c}
  <2>1. t.chunks \in Seq(Chunk)  BY <1>1, Zenon DEF CallOK
  <2> DEFINE s == t.chunks
  <2>2. s \in Seq(Chunk)  BY <2>1, Zenon
  <2> HIDE DEF s
  <2>3. Append(s, c) \in Seq(Chunk) /\ Range(Append(s, c)) = Range(s) \cup {c}
    <3>1. /\ Append(s, c) \in Seq(Chunk) /\ Len(Append(s, c)) = Len(s) + 1 /\ Len(s) \in Nat
          /\ DOMAIN Append(s, c) = 1 .. Len(s) + 1 /\ DOMAIN s = 1 .. Len(s)
          /\ \A k \in 1 .. Len(s) : Append(s, c)[k] = s[k]
          /\ Append(s, c)[Len(s) + 1] = c
      BY <1>7, <2>2, SMTT(20)
    <3> DEFINE a == Append(s, c)
    <3> HIDE DEF a
    <3>2. Range(a) = Range(s) \cup {c}  BY <3>1 DEF Range, a
    <3> QED  BY <3>1, <3>2, ZenonT(30) DEF a
  <2> QED  BY <1>10, <2>1, <2>3, ZenonT(30) DEF s
<1>12. CallOK(u)
  <2>1. u.pc = "reserve" => u.todo # {}  BY <1>10, Zenon
  <2> QED  BY <1>1, <1>3, <1>10, <1>11, <2>1, ZenonT(30) DEF CallOK
<1>13. WriteOK(u)
  <2>1. t.plan \in Seq(Range(t.plan)) /\ Len(t.plan) \in Nat  BY <1>1, <1>3, LenProperties, ZenonT(30) DEF WriteOK
  <2>2. /\ u.plan \in Seq(Range(u.plan)) /\ Range(u.plan) \subseteq Range(t.plan) \cup Range(B)
        /\ Len(u.plan) = Len(t.plan) + Len(B) /\ Len(B) \in Nat
    BY <1>9, <1>10, <2>1, ConcatRange, LenProperties, SMTT(20)
  <2>3. \A b \in Range(u.plan) : \E d \in Range(u.chunks) : Inside(b, d)
    BY <1>1, <1>3, <1>9, <1>11, <2>2, ZenonT(30) DEF WriteOK
  <2>4. 0 .. Len(t.plan) \subseteq 0 .. Len(u.plan) /\ 1 .. Len(t.plan) \subseteq 1 .. Len(u.plan)
    BY <2>1, <2>2, SMTT(20)
  <2>5. t.next \in 0 .. Len(t.plan) /\ t.free \in Seq(Nat)  BY <1>1, <1>3, ZenonT(30) DEF WriteOK
  <2>6. \A q \in u.flight : /\ DOMAIN q = {"io", "buf", "at", "span", "moved"}
                            /\ q.io \in 1 .. Len(u.plan) /\ q.buf \in Nat
    BY <1>1, <1>3, <1>10, <2>4, ZenonT(30) DEF WriteOK
  <2> QED  BY <1>1, <1>3, <1>10, <2>2, <2>3, <2>4, <2>5, <2>6, ZenonT(30) DEF WriteOK
<1> HIDE DEF t
<1>14. \A v \in Thread : thread'[v] = IF v = w THEN u ELSE thread[v]  BY <1>1, <1>5, ZenonT(30)
<1>15. Shape'
  <2>1. thread' = [v \in Thread |-> thread'[v]]  BY <1>1, <1>5, ZenonT(30)
  <2>2. \A v \in Thread : CallOK(thread[v])' /\ WriteOK(thread[v])'
    <3>1. \A v \in Thread : CallOK(thread[v]) /\ WriteOK(thread[v])  BY Zenon DEF RegionInv, Shape
    <3>2. \A v \in Thread : CallOK(thread'[v]) /\ WriteOK(thread'[v])
      BY <1>12, <1>13, <1>14, <3>1, ZenonT(30)
    <3> QED  BY <3>2, Zenon DEF CallOK, WriteOK, Inside, RoundUp
  <2>3. cursor' \in [Stripe -> Nat]  BY <1>1, <1>6, <1>7, <1>8, SMTT(20)
  <2> QED  BY <1>2, <2>1, <2>2, <2>3, ZenonT(30) DEF RegionInv, Shape
<1>16. Claims' \subseteq Claims \cup {claim}
  <2>1. Claimed(u.id, u.chunks) \subseteq Claims \cup {claim}
    <3>1. Claimed(u.id, u.chunks) \subseteq Claimed(t.id, t.chunks) \cup {claim}
      BY <1>10, <1>11, ZenonT(30) DEF Claimed
    <3>2. Claimed(t.id, t.chunks) \subseteq Claims  BY OwnClaims, Zenon DEF t
    <3> QED  BY <3>1, <3>2, ZenonT(30)
  <2>2. \A v \in Thread : Claimed(thread'[v].id, thread'[v].chunks) \subseteq Claims \cup {claim}
    BY <1>14, <2>1, OwnClaims, ZenonT(30)
  <2>3. Claims' = (UNION {Claimed(x, entries[x]) : x \in DOMAIN entries})
           \cup (UNION {Claimed(thread'[v].id, thread'[v].chunks) : v \in Thread}) \cup orphans
    BY <1>2 DEF Claims, Claimed
  <2>4. (UNION {Claimed(x, entries[x]) : x \in DOMAIN entries}) \cup orphans \subseteq Claims
    BY Zenon DEF Claims
  <2> HIDE DEF claim
  <2> QED  BY <2>2, <2>3, <2>4, ZenonT(30)
<1>17. claim.id = t.id /\ claim.stripe = i /\ claim.off = cursor[i] /\ claim.len = c.len
  BY <1>7, Zenon
<1> HIDE DEF claim
<1>18. \A d \in Claims : d.off + RoundUp(d.len) <= cursor[d.stripe]  BY Zenon DEF RegionInv, BelowCursor
<1>19. \A d \in Claims : d.stripe \in Stripe /\ d.off \in Nat /\ RoundUp(d.len) \in Nat  BY ClaimType, Zenon
<1>20. cursor'[i] = cursor[i] + RoundUp(c.len) /\ \A k \in Stripe \ {i} : cursor'[k] = cursor[k]
  BY <1>1, <1>6, <1>8, ZenonT(30)
<1>21. \A d \in Claims : d.off + RoundUp(d.len) <= cursor'[d.stripe]
  <2> TAKE d \in Claims
  <2>1. cursor[d.stripe] \in Nat /\ cursor[d.stripe] <= cursor'[d.stripe] /\ cursor'[d.stripe] \in Nat
    BY <1>1, <1>6, <1>7, <1>19, <1>20, SMTT(20)
  <2> QED  BY <1>18, <1>19, <2>1, SMTT(20)
<1>22. BelowCursor'
  <2>1. \A d \in Claims \cup {claim} : d.off + RoundUp(d.len) <= cursor'[d.stripe]
    BY <1>6, <1>7, <1>17, <1>20, <1>21, SMTT(20)
  <2> QED  BY <1>16, <2>1, ZenonT(30) DEF BelowCursor, RoundUp
<1>23. RegionsDisjoint'
  <2>1. \A d \in Claims : d.stripe = claim.stripe => d.off + RoundUp(d.len) <= claim.off
    BY <1>17, <1>18, ZenonT(30)
  <2>2. \A d, e \in Claims \cup {claim} :
          d.id # e.id /\ d.stripe = e.stripe =>
            d.off + RoundUp(d.len) <= e.off \/ e.off + RoundUp(e.len) <= d.off
    <3>1. \A d, e \in Claims :
            d.id # e.id /\ d.stripe = e.stripe =>
              d.off + RoundUp(d.len) <= e.off \/ e.off + RoundUp(e.len) <= d.off
      BY Zenon DEF RegionInv, RegionsDisjoint
    <3> TAKE d, e \in Claims \cup {claim}
    <3>2. CASE d \in Claims /\ e \in Claims  BY <3>1, <3>2, ZenonT(30)
    <3>3. CASE d \in Claims /\ e = claim  BY <2>1, <3>3, ZenonT(30)
    <3>4. CASE d = claim /\ e \in Claims  BY <2>1, <3>4, ZenonT(30)
    <3>5. CASE d = claim /\ e = claim  BY <3>5, Zenon
    <3> QED  BY <3>2, <3>3, <3>4, <3>5, ZenonT(30)
  <2> QED  BY <1>16, <2>2, ZenonT(30) DEF RegionsDisjoint, RoundUp
<1> QED  BY <1>15, <1>22, <1>23, ZenonT(30) DEF RegionInv

(* What a failed write leaves in flight lies in the regions it reserved.   *)
LEMMA IoFailsStep ==
  ASSUME RegionInv, NEW w \in Thread, NEW r \in thread[w].flight, IoFails(w, r)
  PROVE  RegionInv'
<1> DEFINE t == thread[w]
           left == {[id |-> t.id, stripe |-> t.plan[q.io].stripe, off |-> t.plan[q.io].off,
                     len |-> t.plan[q.io].len] :
                    q \in {q \in t.flight : engine = "io_uring" /\ t.call = "write" /\ ~q.moved}}
           x == IF engine = "pwrite" THEN [t EXCEPT !.dst = CopiedOut(t, pool[w], r)] ELSE t
           u == Failed(x)
<1>1. /\ CallOK(t) /\ WriteOK(t) /\ nextId \in Nat \ {0}
      /\ thread = [v \in Thread |-> thread[v]]
  BY Zenon DEF RegionInv, Shape
<1>2. /\ thread' = [thread EXCEPT ![w] = u] /\ UNCHANGED <<size, nextId, cursor, entries>>
      /\ orphans' = orphans \cup left
  BY Zenon DEF IoFails
<1>3. WriteOK(x)
  <2>1. DOMAIN t = Fields  BY <1>1, Zenon DEF CallOK
  <2> DEFINE y == [t EXCEPT !.dst = CopiedOut(t, pool[w], r)]
  <2>2. /\ y.call = t.call /\ y.plan = t.plan /\ y.next = t.next /\ y.free = t.free
        /\ y.chunks = t.chunks /\ y.flight = t.flight /\ y.id = t.id /\ y.todo = t.todo
    BY <2>1, Zenon DEF Fields
  <2> HIDE DEF y
  <2>3. WriteOK(y)  BY <1>1, <2>2, Zenon DEF WriteOK
  <2> QED  BY <1>1, <2>3, ZenonT(30) DEF y
<1> HIDE DEF x
<1>4. CallOK(u) /\ WriteOK(u) /\ Claimed(u.id, u.chunks) = {}  BY <1>3, ReturnedOK, ZenonT(30) DEF Failed
<1> HIDE DEF u
<1>5. \A o \in left : \E c \in Claims : c.id = o.id /\ Inside(o, c)
  <2> TAKE o \in left
  <2>1. PICK q \in t.flight :
          /\ t.call = "write"
          /\ o = [id |-> t.id, stripe |-> t.plan[q.io].stripe, off |-> t.plan[q.io].off,
                  len |-> t.plan[q.io].len]
    BY Zenon
  <2>2. t.plan \in Seq(Range(t.plan)) /\ q.io \in 1 .. Len(t.plan)  BY <1>1, <2>1, ZenonT(30) DEF WriteOK
  <2>3. t.plan[q.io] \in Range(t.plan)  BY <2>2, ElementOfSeq, ZenonT(30)
  <2>4. PICK c \in Range(t.chunks) : Inside(t.plan[q.io], c)  BY <1>1, <2>1, <2>3, ZenonT(30) DEF WriteOK
  <2> DEFINE d == [id |-> t.id, stripe |-> c.stripe, off |-> c.off, len |-> c.len]
  <2>5. d \in Claims  BY OwnClaims, Zenon DEF Claimed
  <2>6. d.id = o.id /\ Inside(o, d)  BY <2>1, <2>4, ZenonT(30) DEF Inside
  <2> QED  BY <2>5, <2>6, ZenonT(30)
<1> HIDE DEF left, t
<1>6. \A v \in Thread : thread'[v] = IF v = w THEN u ELSE thread[v]  BY <1>1, <1>2, ZenonT(30)
<1>7. Shape'
  <2>1. thread' = [v \in Thread |-> thread'[v]]  BY <1>1, <1>2, Zenon
  <2>2. \A v \in Thread : CallOK(thread[v])' /\ WriteOK(thread[v])'
    <3>1. \A v \in Thread : CallOK(thread[v]) /\ WriteOK(thread[v])  BY Zenon DEF RegionInv, Shape
    <3>2. \A v \in Thread : CallOK(thread'[v]) /\ WriteOK(thread'[v])  BY <1>4, <1>6, <3>1, ZenonT(30)
    <3> QED  BY <3>2, Zenon DEF CallOK, WriteOK, Inside, RoundUp
  <2>3. \A o \in left : o.stripe \in Stripe /\ o.off \in Nat /\ o.len \in Nat
    BY <1>5, ClaimType, ZenonT(30) DEF Inside
  <2> QED  BY <1>2, <2>1, <2>2, <2>3, ZenonT(30) DEF RegionInv, Shape
<1>8. Claims' \subseteq Claims \cup left
  <2>1. \A v \in Thread : Claimed(thread'[v].id, thread'[v].chunks) \subseteq Claims
    BY <1>4, <1>6, OwnClaims, ZenonT(30)
  <2>2. Claims' = (UNION {Claimed(k, entries[k]) : k \in DOMAIN entries})
           \cup (UNION {Claimed(thread'[v].id, thread'[v].chunks) : v \in Thread}) \cup orphans \cup left
    BY <1>2 DEF Claims, Claimed
  <2>3. (UNION {Claimed(k, entries[k]) : k \in DOMAIN entries}) \cup orphans \subseteq Claims
    BY Zenon DEF Claims
  <2> QED  BY <2>1, <2>2, <2>3, ZenonT(30)
<1>9. \A e \in Claims \cup left : \E c \in Claims : c.id = e.id /\ Inside(e, c)
  <2> TAKE e \in Claims \cup left
  <2>1. CASE e \in left  BY <1>5, <2>1, ZenonT(30)
  <2>2. CASE e \in Claims  BY <2>2, ClaimType, SMTT(20) DEF Inside
  <2> QED  BY <2>1, <2>2, Zenon
<1>10. \A c \in Claims : c.stripe \in Stripe /\ c.off \in Nat /\ RoundUp(c.len) \in Nat  BY ClaimType, Zenon
<1>11. \A e \in Claims \cup left : RoundUp(e.len) \in Nat /\ e.off \in Nat
  BY <1>9, RoundUpType, ZenonT(30) DEF Inside
<1>12. BelowCursor'
  <2>1. \A e \in Claims \cup left : e.off + RoundUp(e.len) <= cursor[e.stripe]
    <3> TAKE e \in Claims \cup left
    <3>1. PICK c \in Claims : Inside(e, c)  BY <1>9, Zenon
    <3>2. c.off + RoundUp(c.len) <= cursor[c.stripe]  BY Zenon DEF RegionInv, BelowCursor
    <3>3. cursor[c.stripe] \in Nat /\ c.off + RoundUp(c.len) \in Nat  BY <1>10 DEF RegionInv, Shape
    <3>4. e.off + RoundUp(e.len) <= c.off + RoundUp(c.len) /\ e.stripe = c.stripe
      BY <3>1, Zenon DEF Inside
    <3>5. e.off + RoundUp(e.len) \in Nat  BY <1>11
    <3> QED  BY <3>2, <3>3, <3>4, <3>5, SMTT(20)
  <2> QED  BY <1>2, <1>8, <2>1, ZenonT(30) DEF BelowCursor, RoundUp
<1>13. RegionsDisjoint'
  <2>1. \A d, e \in Claims \cup left :
          d.id # e.id /\ d.stripe = e.stripe =>
            d.off + RoundUp(d.len) <= e.off \/ e.off + RoundUp(e.len) <= d.off
    <3> SUFFICES ASSUME NEW d \in Claims \cup left, NEW e \in Claims \cup left,
                        d.id # e.id, d.stripe = e.stripe
                 PROVE  d.off + RoundUp(d.len) <= e.off \/ e.off + RoundUp(e.len) <= d.off
      BY Zenon
    <3>1. PICK a \in Claims : a.id = d.id /\ Inside(d, a)  BY <1>9, Zenon
    <3>2. PICK b \in Claims : b.id = e.id /\ Inside(e, b)  BY <1>9, Zenon
    <3>3. a.off + RoundUp(a.len) <= b.off \/ b.off + RoundUp(b.len) <= a.off
      BY <3>1, <3>2, ZenonT(30) DEF RegionInv, RegionsDisjoint, Inside
    <3>4. /\ a.off <= d.off /\ d.off + RoundUp(d.len) <= a.off + RoundUp(a.len)
          /\ b.off <= e.off /\ e.off + RoundUp(e.len) <= b.off + RoundUp(b.len)
      BY <3>1, <3>2, ZenonT(30) DEF Inside
    <3>5. /\ a.off \in Nat /\ b.off \in Nat /\ d.off \in Nat /\ e.off \in Nat
          /\ RoundUp(a.len) \in Nat /\ RoundUp(b.len) \in Nat
          /\ RoundUp(d.len) \in Nat /\ RoundUp(e.len) \in Nat
      BY <1>10, <1>11, ZenonT(30)
    <3> QED  BY <3>3, <3>4, <3>5, SMTT(20)
  <2> QED  BY <1>8, <2>1, ZenonT(30) DEF RegionsDisjoint, RoundUp
<1> QED  BY <1>7, <1>12, <1>13, ZenonT(30) DEF RegionInv

(* Every step keeps the invariant.                                         *)
LEMMA RegionNext == RegionInv /\ [Next]_vars => RegionInv'
<1> SUFFICES ASSUME RegionInv, [Next]_vars  PROVE RegionInv'  BY Zenon
<1>1. CASE UNCHANGED vars
  <2>1. UNCHANGED <<size, nextId, cursor, thread, entries, orphans>>  BY <1>1, ZenonT(30) DEF vars
  <2>2. Shape'  BY <2>1 DEF RegionInv, Shape, CallOK, WriteOK, Inside, RoundUp
  <2>3. Claims' \subseteq Claims  BY <2>1, SameClaims, ZenonT(30) DEF Claims
  <2> QED  BY <2>1, <2>2, <2>3, ClaimsShrink, ZenonT(30) DEF RegionInv
<1>2. CASE Next
  BY ZenonT(30), <1>2, StartStep, ReserveStep, FillStep, FinishStep, TransferStep, ReapStep, OpenFailsStep,
     IoFailsStep, LandStep
  DEF Next, Step
<1> QED  BY <1>1, <1>2, Zenon

(* The regions of two tensors never overlap, padding included, and what a  *)
(* failed write left in flight cannot hit another tensor: the fetch_add on *)
(* nvme_stripe_offsets_ is enough, whatever the threads and the kernel do. *)
THEOREM StripeRegionsDisjoint == Spec => []RegionsDisjoint
<1>1. RegionInv => RegionsDisjoint  BY Zenon DEF RegionInv
<1> QED  BY <1>1, RegionInit, RegionNext, PTL DEF Spec
=============================================================================
