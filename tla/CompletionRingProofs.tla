------------------------ MODULE CompletionRingProofs ------------------------
(* The completion ring implements a bounded queue, and a restore() that    *)
(* waited for the poller finds its completion applied, for every capacity, *)
(* every budget and any number of copies.                                  *)
EXTENDS CompletionRing, SequenceTheorems, TLAPS

(* The indices count what was published and popped, and the cells between  *)
(* head and tail hold what was published there.                            *)
RingPart ==
  /\ Len(sent) = tail /\ Len(taken) = head
  /\ head <= tail /\ tail - head <= Capacity
  /\ \A k \in head .. tail - 1 : entries[Cell(k)] = sent[k + 1]
  /\ \A k \in 1 .. head : taken[k] = sent[k]

(* What the progress thread knows: the ring still has the room it saw, and *)
(* the entry it published is at the index it records.                      *)
ProgPart ==
  /\ prog.pc # "push" => prog.item \in Item
  /\ prog.pc \in {"write", "publish"} => prog.seq = tail /\ tail - head < Capacity
  /\ prog.pc = "publish" => entries[Cell(tail)] = prog.item
  /\ prog.pc \in {"record", "finalize"} => prog.seq < tail /\ sent[prog.seq + 1] = prog.item
  /\ prog.pc = "finalize" => seqOf[prog.item] # NoSeq

(* What the poller knows: it holds mu_ for as long as a popped entry is    *)
(* not applied.                                                            *)
PollPart ==
  /\ mu = "none" <=> poll.pc = "idle"
  /\ poll.pc \in {"read", "advance"} => head < tail
  /\ poll.pc = "advance" => poll.item = sent[head + 1]
  /\ poll.pc = "apply" => poll.item \in Item
  /\ \A k \in 1 .. head : taken[k] \in applied \/ (poll.pc = "apply" /\ poll.item = taken[k])

(* What restore() relies on: the recorded index is that of the entry.      *)
UserPart ==
  /\ \A x \in Item : seqOf[x] # NoSeq => seqOf[x] < tail /\ sent[seqOf[x] + 1] = x
  /\ \A x \in offloaded : seqOf[x] # NoSeq \/ x \in applied
  /\ user.pc = "wait" => user.seq \in Nat /\ user.seq < tail /\ sent[user.seq + 1] = user.item
  /\ user.pc = "ask" =>
       \/ user.item \in applied
       \/ user.seq \in Nat /\ user.seq < head /\ sent[user.seq + 1] = user.item
  /\ user.pc = "told" => user.found

(* The inductive invariant.                                                *)
RingInv == TypeOK /\ RingPart /\ ProgPart /\ PollPart /\ UserPart

(* Two indices less than Capacity apart use different cells: an entry that *)
(* was not popped is not overwritten.                                      *)
LEMMA CellsDiffer ==
  ASSUME NEW a \in Nat, NEW b \in Nat, a < b, b - a < Capacity
  PROVE  Cell(a) # Cell(b)
<1> DEFINE p == a \div Capacity
           q == b \div Capacity
<1>1. /\ a = Capacity * p + (a % Capacity) /\ p \in Int
      /\ b = Capacity * q + (b % Capacity) /\ q \in Int
  BY RingAssumption
<1> HIDE DEF p, q
<1> SUFFICES ASSUME a % Capacity = b % Capacity  PROVE FALSE  BY Zenon DEF Cell
<1>2. b - a = Capacity * (q - p)  BY <1>1, RingAssumption
<1>3. q - p >= 1 \/ q - p <= 0  BY <1>1
<1>4. CASE q - p >= 1  BY <1>1, <1>2, <1>4, RingAssumption
<1>5. CASE q - p <= 0  BY <1>1, <1>2, <1>5, RingAssumption
<1> QED  BY <1>3, <1>4, <1>5, Zenon

(* Every index has a cell.                                                 *)
LEMMA CellType == ASSUME NEW k \in Nat PROVE Cell(k) \in 0 .. Capacity - 1
  BY RingAssumption DEF Cell

(* The invariant holds of the empty ring.                                  *)
LEMMA RingInit == Init => RingInv
<1> SUFFICES ASSUME Init PROVE RingInv  BY Zenon
<1> USE RingAssumption DEF Init, None, NoSeq, Item
<1>1. TypeOK  BY DEF TypeOK, Prog, Poll, User
<1>2. RingPart /\ ProgPart /\ PollPart /\ UserPart
  BY DEF RingPart, ProgPart, PollPart, UserPart
<1> QED  BY <1>1, <1>2, Zenon DEF RingInv

(* The steps of the progress thread that leave the ring alone.             *)
LEMMA ProgressLocalStep ==
  ASSUME RingInv, \/ \E n \in Item : Gather(n)
                  \/ PushLoad \/ PushRecord \/ Finalize \/ SendOverflow
  PROVE  RingInv'
<1> USE RingAssumption DEF RingInv, Item, NoSeq
<1>1. CASE \E n \in Item : Gather(n)
  <2>1. PICK n \in Item : Gather(n)  BY <1>1, Zenon
  <2>2. prog' \in Prog /\ prog'.pc = "push"
    <3>1. n \in 0 .. MaxCopies  OBVIOUS
    <3>2. prog.pc = "push" /\ prog' = [prog EXCEPT !.last = n]  BY <2>1, Zenon DEF Gather
    <3>3. prog \in Prog  BY Zenon DEF TypeOK
    <3> QED  BY ONLY <3>1, <3>2, <3>3 DEF Prog
  <2>3. TypeOK'  BY <2>1, <2>2, Zenon DEF Gather, ring, TypeOK
  <2>4. RingPart' /\ ProgPart' /\ PollPart' /\ UserPart'
    BY <2>1, <2>2, Zenon DEF Gather, ring, RingPart, ProgPart, PollPart, UserPart
  <2> QED  BY <2>3, <2>4, Zenon
<1>2. CASE PushLoad
  <2>1. TypeOK'
    <3>1. prog.item \in Item  BY <1>2 DEF PushLoad, TypeOK, Prog
    <3>2. [prog EXCEPT !.pc = "write", !.seq = tail] \in Prog  BY Zenon DEF TypeOK, Prog
    <3>3. [prog EXCEPT !.item = @ + 1, !.over = @ \cup {prog.item}] \in Prog
      <4>1. prog.over \cup {prog.item} \in SUBSET Item  BY <3>1, Zenon DEF TypeOK, Prog
      <4>2. prog.item + 1 \in 1 .. MaxCopies + 1  BY <3>1
      <4> QED  BY <4>1, <4>2, Zenon DEF TypeOK, Prog
    <3>4. prog' \in Prog  BY <1>2, <3>2, <3>3, Zenon DEF PushLoad
    <3> QED  BY <1>2, <3>4, Zenon DEF PushLoad, ring, TypeOK
  <2>2. RingPart' /\ PollPart' /\ UserPart'
    BY <1>2, Zenon DEF PushLoad, ring, RingPart, PollPart, UserPart
  <2>3. ProgPart'  BY <1>2, SMTT(20) DEF PushLoad, ring, TypeOK, Prog, RingPart, ProgPart
  <2> QED  BY <2>1, <2>2, <2>3, Zenon
<1>3. CASE PushRecord
  <2>1. TypeOK'  BY <1>3, Zenon DEF PushRecord, ring, TypeOK, Prog, ProgPart
  <2>2. RingPart' /\ PollPart' /\ ProgPart'
    BY <1>3 DEF PushRecord, ring, TypeOK, Prog, RingPart, PollPart, ProgPart
  <2>3. UserPart'
    <3>1. prog.item \in Item /\ prog.seq < tail /\ sent[prog.seq + 1] = prog.item
      BY <1>3, Zenon DEF PushRecord, ProgPart
    <3>2. \A x \in Item : seqOf'[x] = IF x = prog.item THEN prog.seq ELSE seqOf[x]
      BY <1>3, Zenon DEF PushRecord, TypeOK
    <3>3. prog.seq \in Nat  BY Zenon DEF TypeOK, Prog
    <3>4. \A x \in Item : seqOf'[x] # NoSeq => seqOf'[x] < tail /\ sent[seqOf'[x] + 1] = x
      <4> TAKE x \in Item
      <4>1. CASE x = prog.item  BY <3>1, <3>2, <4>1, Zenon
      <4>2. CASE x # prog.item
        <5>1. seqOf'[x] = seqOf[x]  BY <3>2, <4>2, Zenon
        <5> QED  BY <5>1, Zenon DEF UserPart
      <4> QED  BY <4>1, <4>2, Zenon
    <3>5. \A x \in offloaded : seqOf'[x] # NoSeq \/ x \in applied
      <4> TAKE x \in offloaded
      <4>1. x \in Item  BY Zenon DEF TypeOK
      <4>2. CASE x = prog.item  BY <3>2, <3>3, <4>1, <4>2
      <4>3. CASE x # prog.item
        <5>1. seqOf'[x] = seqOf[x]  BY <3>2, <4>1, <4>3, Zenon
        <5> QED  BY <5>1, Zenon DEF UserPart
      <4> QED  BY <4>2, <4>3, Zenon
    <3> QED  BY <1>3, <3>4, <3>5, Zenon DEF PushRecord, ring, UserPart
  <2> QED  BY <2>1, <2>2, <2>3, Zenon
<1>4. CASE Finalize
  <2>1. TypeOK'
    <3>1. prog.item \in Item /\ prog.item + 1 \in 1 .. MaxCopies + 1
      BY <1>4 DEF Finalize, ProgPart
    <3>2. prog' \in Prog  BY <1>4, <3>1, Zenon DEF Finalize, TypeOK, Prog
    <3> QED  BY <1>4, <3>1, <3>2, Zenon DEF Finalize, ring, TypeOK
  <2>2. RingPart' /\ PollPart' /\ ProgPart'
    BY <1>4, Zenon DEF Finalize, ring, TypeOK, Prog, RingPart, PollPart, ProgPart
  <2>3. UserPart'  BY <1>4, Zenon DEF Finalize, ring, UserPart, ProgPart
  <2> QED  BY <2>1, <2>2, <2>3, Zenon
<1>5. CASE SendOverflow
  <2>1. TypeOK'  BY <1>5, Zenon DEF SendOverflow, ring, TypeOK, Prog
  <2>2. RingPart' /\ PollPart' /\ ProgPart'
    BY <1>5, Zenon DEF SendOverflow, ring, TypeOK, Prog, RingPart, PollPart, ProgPart
  <2>3. UserPart'  BY <1>5, Zenon DEF SendOverflow, ring, UserPart
  <2> QED  BY <2>1, <2>2, <2>3, Zenon
<1> QED  BY <1>1, <1>2, <1>3, <1>4, <1>5, Zenon

(* Writing the entry touches no cell between head and tail.                *)
LEMMA PushWriteStep ==
  ASSUME RingInv, PushWrite
  PROVE  RingInv'
<1> USE RingAssumption DEF RingInv
<1>1. prog.seq = tail /\ tail - head < Capacity /\ tail \in Nat /\ head \in Nat
      /\ prog.item \in Item /\ head <= tail
  BY Zenon DEF PushWrite, ProgPart, TypeOK, RingPart
<1>2. entries' = [entries EXCEPT ![Cell(tail)] = prog.item]
  BY <1>1, Zenon DEF PushWrite
<1>3. Cell(tail) \in 0 .. Capacity - 1  BY <1>1, CellType, Zenon
<1>4. \A k \in head .. tail - 1 : entries'[Cell(k)] = entries[Cell(k)]
  <2> TAKE k \in head .. tail - 1
  <2>1. k \in Nat /\ k < tail /\ tail - k < Capacity  BY <1>1
  <2>2. Cell(k) # Cell(tail) /\ Cell(k) \in 0 .. Capacity - 1
    BY <1>1, <2>1, CellsDiffer, CellType, Zenon
  <2> QED  BY <1>2, <2>2, Zenon DEF TypeOK
<1>5. entries'[Cell(tail)] = prog.item  BY <1>2, <1>3, Zenon DEF TypeOK
<1>6. TypeOK'
  <2>1. entries' \in [0 .. Capacity - 1 -> 0 .. MaxCopies]
    <3>1. prog.item \in 0 .. MaxCopies  BY <1>1 DEF Item
    <3> QED  BY <1>2, <1>3, <3>1, Zenon DEF TypeOK
  <2>2. prog' \in Prog  BY Zenon DEF PushWrite, TypeOK, Prog
  <2> QED  BY <2>1, <2>2, Zenon DEF PushWrite, TypeOK
<1>7. RingPart'  BY <1>4, Zenon DEF PushWrite, RingPart
<1>8. ProgPart'
  <2>1. prog'.pc = "publish" /\ prog'.item = prog.item /\ prog'.seq = prog.seq
    BY Zenon DEF PushWrite, TypeOK, Prog
  <2> QED  BY <1>1, <1>5, <2>1, Zenon DEF PushWrite, ProgPart
<1>9. PollPart' /\ UserPart'  BY Zenon DEF PushWrite, PollPart, UserPart
<1> QED  BY <1>6, <1>7, <1>8, <1>9, Zenon

(* Publishing makes the entry that was written the last of the queue.      *)
LEMMA PushPublishStep ==
  ASSUME RingInv, PushPublish
  PROVE  RingInv'
<1> USE RingAssumption DEF RingInv
<1>1. /\ prog.seq = tail /\ tail - head < Capacity /\ tail \in Nat /\ head \in Nat
      /\ prog.item \in Item /\ head <= tail /\ entries[Cell(tail)] = prog.item
  BY Zenon DEF PushPublish, ProgPart, TypeOK, RingPart
<1>2. /\ tail' = tail + 1 /\ sent' = Append(sent, prog.item)
      /\ UNCHANGED <<head, entries, taken, poll, user, mu, seqOf, offloaded, applied>>
  BY <1>1, Zenon DEF PushPublish
<1>3. sent \in Seq(Item) /\ Len(sent) = tail  BY Zenon DEF TypeOK, RingPart
<1>4. /\ sent' \in Seq(Item) /\ Len(sent') = tail + 1 /\ sent'[tail + 1] = prog.item
      /\ \A k \in 1 .. tail : sent'[k] = sent[k]
  BY <1>1, <1>2, <1>3
<1>5. /\ prog' \in Prog /\ prog'.pc = "record" /\ prog'.item = prog.item
      /\ prog'.seq = prog.seq
  BY Zenon DEF PushPublish, TypeOK, Prog
<1>6. TypeOK'  BY <1>1, <1>2, <1>4, <1>5 DEF TypeOK
<1>7. RingPart'
  <2>1. \A k \in head .. tail : entries[Cell(k)] = sent'[k + 1]
    <3> TAKE k \in head .. tail
    <3>1. CASE k = tail  BY <1>1, <1>4, <3>1, Zenon
    <3>2. CASE k # tail
      <4>1. k \in head .. tail - 1 /\ k + 1 \in 1 .. tail  BY <1>1, <3>2
      <4> QED  BY <1>4, <4>1, Zenon DEF RingPart
    <3> QED  BY <3>1, <3>2, Zenon
  <2>2. head .. tail' - 1 = head .. tail  BY <1>1, <1>2
  <2>3. \A k \in 1 .. head : taken[k] = sent'[k]
    BY <1>1, <1>4 DEF RingPart
  <2> QED  BY <1>1, <1>2, <1>4, <2>1, <2>2, <2>3 DEF RingPart
<1>8. ProgPart'  BY <1>1, <1>2, <1>4, <1>5 DEF ProgPart
<1>9. PollPart'
  <2>1. poll.pc \in {"read", "advance"} => head < tail' /\ sent'[head + 1] = sent[head + 1]
    BY <1>1, <1>2, <1>4 DEF PollPart
  <2> QED  BY <1>2, <2>1, Zenon DEF PollPart
<1>10. UserPart'
  <2>1. ASSUME NEW q \in Nat, q < tail  PROVE q < tail' /\ sent'[q + 1] = sent[q + 1]
    BY <1>1, <1>2, <1>4, <2>1
  <2>2. \A x \in Item : seqOf[x] # NoSeq => seqOf[x] < tail' /\ sent'[seqOf[x] + 1] = x
    BY <2>1, Zenon DEF UserPart, TypeOK
  <2>3. user.pc = "wait" => user.seq \in Nat /\ user.seq < tail' /\ sent'[user.seq + 1] = user.item
    BY <2>1, Zenon DEF UserPart
  <2>4. user.seq \in Nat /\ user.seq < head => sent'[user.seq + 1] = sent[user.seq + 1]
    BY <1>1, <2>1
  <2> QED  BY <1>2, <2>2, <2>3, <2>4, Zenon DEF UserPart
<1> QED  BY <1>6, <1>7, <1>8, <1>9, <1>10, Zenon

(* The steps of the poller that leave the ring alone.                      *)
LEMMA PollerLocalStep ==
  ASSUME RingInv, Sweep \/ PopLoad \/ SweepEnd \/ PopRead \/ Apply
  PROVE  RingInv'
<1> USE RingAssumption DEF RingInv
<1>1. CASE Sweep
  <2>1. poll' \in Poll /\ poll'.pc = "load"
    <3>1. Budget \in 0 .. Budget  BY RingAssumption
    <3>2. poll \in Poll /\ poll' = [poll EXCEPT !.pc = "load", !.budget = Budget]
      BY <1>1, Zenon DEF Sweep, TypeOK
    <3> QED  BY ONLY <3>1, <3>2, Zenon DEF Poll
  <2>2. TypeOK'  BY <1>1, <2>1, Zenon DEF Sweep, ring, TypeOK
  <2>3. RingPart' /\ ProgPart' /\ UserPart'
    BY <1>1, Zenon DEF Sweep, ring, RingPart, ProgPart, UserPart
  <2>4. PollPart'  BY <1>1, <2>1, Zenon DEF Sweep, ring, PollPart
  <2> QED  BY <2>2, <2>3, <2>4, Zenon
<1>2. CASE PopLoad
  <2>1. poll' \in Poll /\ poll'.pc = "read"
    <3>1. poll.budget - 1 \in 0 .. Budget  BY <1>2 DEF PopLoad, TypeOK, Poll
    <3>2. poll \in Poll /\ poll' = [poll EXCEPT !.pc = "read", !.budget = poll.budget - 1]
      BY <1>2, Zenon DEF PopLoad, TypeOK
    <3> QED  BY ONLY <3>1, <3>2, Zenon DEF Poll
  <2>2. TypeOK'  BY <1>2, <2>1, Zenon DEF PopLoad, ring, TypeOK
  <2>3. RingPart' /\ ProgPart' /\ UserPart'
    BY <1>2, Zenon DEF PopLoad, ring, RingPart, ProgPart, UserPart
  <2>4. head < tail  BY <1>2 DEF PopLoad, RingPart, TypeOK
  <2>5. PollPart'  BY <1>2, <2>1, <2>4, Zenon DEF PopLoad, ring, PollPart
  <2> QED  BY <2>2, <2>3, <2>5, Zenon
<1>3. CASE SweepEnd
  <2>1. poll' \in Poll /\ poll'.pc = "idle"  BY <1>3, Zenon DEF SweepEnd, TypeOK, Poll
  <2>2. TypeOK'  BY <1>3, <2>1, Zenon DEF SweepEnd, ring, TypeOK
  <2>3. RingPart' /\ ProgPart' /\ UserPart'
    BY <1>3, Zenon DEF SweepEnd, ring, RingPart, ProgPart, UserPart
  <2>4. PollPart'  BY <1>3, <2>1, Zenon DEF SweepEnd, ring, PollPart
  <2> QED  BY <2>2, <2>3, <2>4, Zenon
<1>4. CASE PopRead
  <2>1. head \in Nat /\ tail \in Nat /\ head < tail /\ head \in head .. tail - 1
    BY <1>4 DEF PopRead, PollPart, TypeOK
  <2>2. Cell(head) \in 0 .. Capacity - 1  BY <2>1, CellType, Zenon
  <2>3. entries[Cell(head)] = sent[head + 1]  BY <2>1, Zenon DEF RingPart
  <2>4. poll' \in Poll /\ poll'.pc = "advance" /\ poll'.item = sent[head + 1]
    BY <1>4, <2>2, <2>3, Zenon DEF PopRead, TypeOK, Poll
  <2>5. TypeOK'  BY <1>4, <2>4, Zenon DEF PopRead, ring, TypeOK
  <2>6. RingPart' /\ ProgPart' /\ UserPart'
    BY <1>4, Zenon DEF PopRead, ring, RingPart, ProgPart, UserPart
  <2>7. PollPart'  BY <1>4, <2>1, <2>4, Zenon DEF PopRead, ring, PollPart
  <2> QED  BY <2>5, <2>6, <2>7, Zenon
<1>5. CASE Apply
  <2>1. poll' \in Poll /\ poll'.pc = "load"  BY <1>5, Zenon DEF Apply, TypeOK, Poll
  <2>2. TypeOK'  BY <1>5, <2>1, Zenon DEF Apply, ring, TypeOK, PollPart
  <2>3. RingPart' /\ ProgPart' /\ UserPart'
    BY <1>5, Zenon DEF Apply, ring, RingPart, ProgPart, UserPart
  <2>4. PollPart'  BY <1>5, <2>1, Zenon DEF Apply, ring, PollPart
  <2> QED  BY <2>2, <2>3, <2>4, Zenon
<1> QED  BY <1>1, <1>2, <1>3, <1>4, <1>5, Zenon

(* Popping moves the first entry of the queue to what was taken.           *)
LEMMA PopAdvanceStep ==
  ASSUME RingInv, PopAdvance
  PROVE  RingInv'
<1> USE RingAssumption DEF RingInv
<1>1. /\ head \in Nat /\ tail \in Nat /\ head < tail /\ tail - head <= Capacity
      /\ poll.item = sent[head + 1]
      /\ sent \in Seq(Item) /\ Len(sent) = tail /\ taken \in Seq(Item) /\ Len(taken) = head
  BY Zenon DEF PopAdvance, PollPart, TypeOK, RingPart
<1>2. poll.item \in Item  BY <1>1
<1>3. /\ head' = head + 1 /\ taken' = Append(taken, poll.item)
      /\ UNCHANGED <<tail, entries, sent, prog, user, mu, seqOf, offloaded, applied>>
  BY Zenon DEF PopAdvance
<1>4. /\ taken' \in Seq(Item) /\ Len(taken') = head + 1 /\ taken'[head + 1] = poll.item
      /\ \A k \in 1 .. head : taken'[k] = taken[k]
  BY <1>1, <1>2, <1>3
<1>5. poll' \in Poll /\ poll'.pc = "apply" /\ poll'.item = poll.item
  BY Zenon DEF PopAdvance, TypeOK, Poll
<1>6. TypeOK'  BY <1>1, <1>3, <1>4, <1>5 DEF TypeOK
<1>7. \A k \in 1 .. head + 1 : k = head + 1 \/ k \in 1 .. head  BY <1>1
<1>8. RingPart'
  <2>1. \A k \in 1 .. head + 1 : taken'[k] = sent[k]
    BY <1>1, <1>4, <1>7, Zenon DEF RingPart
  <2>2. \A k \in head + 1 .. tail - 1 : entries[Cell(k)] = sent[k + 1]
    BY <1>1 DEF RingPart
  <2>3. head + 1 <= tail /\ tail - (head + 1) <= Capacity  BY <1>1
  <2> QED  BY <1>1, <1>3, <1>4, <2>1, <2>2, <2>3, Zenon DEF RingPart
<1>9. ProgPart'
  <2>1. tail - head < Capacity => tail - (head + 1) < Capacity  BY <1>1
  <2> QED  BY <1>3, <2>1, Zenon DEF ProgPart
<1>10. PollPart'
  <2>1. poll.pc = "advance"  BY Zenon DEF PopAdvance
  <2>2. \A k \in 1 .. head + 1 : taken'[k] \in applied \/ poll'.item = taken'[k]
    BY <1>4, <1>5, <1>7, <2>1, Zenon DEF PollPart
  <2> QED  BY <1>2, <1>3, <1>5, <2>1, <2>2, Zenon DEF PollPart
<1>11. UserPart'
  <2>1. user.seq \in Nat /\ user.seq < head => user.seq < head + 1  BY <1>1
  <2> QED  BY <1>3, <2>1, Zenon DEF UserPart
<1> QED  BY <1>6, <1>8, <1>9, <1>10, <1>11, Zenon

(* The steps of restore(): the entry it waited for is popped, and mu_ free *)
(* means applied.                                                          *)
LEMMA UserStep ==
  ASSUME RingInv, (\E x \in Item : RestoreLookup(x)) \/ WaitRingConsumed \/ AskPrefetch
  PROVE  RingInv'
<1> USE RingAssumption DEF RingInv
<1>1. CASE \E x \in Item : RestoreLookup(x)
  <2>1. PICK x \in Item : RestoreLookup(x)  BY <1>1, Zenon
  <2>2. /\ user'.pc = (IF seqOf[x] = NoSeq THEN "ask" ELSE "wait")
        /\ user'.item = x /\ user'.seq = seqOf[x]
    BY <2>1, Zenon DEF RestoreLookup
  <2>3. user' \in User
    <3>1. x \in 0 .. MaxCopies /\ seqOf[x] \in Nat \cup {NoSeq}  BY DEF TypeOK, Item
    <3> QED  BY <2>1, <3>1, Zenon DEF RestoreLookup, User
  <2>4. UNCHANGED <<head, tail, entries, sent, taken, prog, poll, mu, seqOf, offloaded, applied>>
    BY <2>1, Zenon DEF RestoreLookup, ring
  <2>5. TypeOK' /\ RingPart' /\ ProgPart' /\ PollPart'
    BY <2>3, <2>4, Zenon DEF TypeOK, RingPart, ProgPart, PollPart
  <2>6. x \in offloaded  BY <2>1, Zenon DEF RestoreLookup
  <2>7. UserPart'  BY <2>2, <2>4, <2>6, Zenon DEF UserPart, TypeOK, NoSeq
  <2> QED  BY <2>5, <2>7, Zenon
<1>2. CASE WaitRingConsumed
  <2>1. user' \in User /\ user'.pc = "ask" /\ user'.seq = user.seq /\ user'.item = user.item
    BY <1>2, Zenon DEF WaitRingConsumed, TypeOK, User
  <2>2. user.seq < head  BY <1>2, Zenon DEF WaitRingConsumed, TypeOK, UserPart
  <2>3. UNCHANGED <<head, tail, entries, sent, taken, prog, poll, mu, seqOf, offloaded, applied>>
    BY <1>2, Zenon DEF WaitRingConsumed, ring
  <2>4. TypeOK' /\ RingPart' /\ ProgPart' /\ PollPart'
    BY <2>1, <2>3, Zenon DEF TypeOK, RingPart, ProgPart, PollPart
  <2>5. UserPart'  BY <1>2, <2>1, <2>2, <2>3, Zenon DEF WaitRingConsumed, UserPart
  <2> QED  BY <2>4, <2>5, Zenon
<1>3. CASE AskPrefetch
  <2>1. user.item \in applied
    <3>1. ASSUME user.seq \in Nat, user.seq < head, sent[user.seq + 1] = user.item
          PROVE  user.item \in applied
      <4>1. user.seq + 1 \in 1 .. head  BY <3>1, SMTT(20) DEF TypeOK
      <4>2. poll.pc # "apply"  BY <1>3, Zenon DEF AskPrefetch, PollPart
      <4> QED  BY <3>1, <4>1, <4>2, Zenon DEF RingPart, PollPart
    <3> QED  BY <1>3, <3>1, Zenon DEF AskPrefetch, UserPart
  <2>2. user' \in User /\ user'.pc = "told" /\ user'.found
    BY <1>3, <2>1, Zenon DEF AskPrefetch, TypeOK, User
  <2>3. UNCHANGED <<head, tail, entries, sent, taken, prog, poll, mu, seqOf, offloaded, applied>>
    BY <1>3, Zenon DEF AskPrefetch, ring
  <2>4. TypeOK' /\ RingPart' /\ ProgPart' /\ PollPart'
    BY <2>2, <2>3, ZenonT(30) DEF TypeOK, RingPart, ProgPart, PollPart
  <2>5. UserPart'  BY <2>2, <2>3, Zenon DEF UserPart
  <2> QED  BY <2>4, <2>5, Zenon
<1> QED  BY <1>1, <1>2, <1>3, Zenon

(* Every step of every thread preserves the invariant.                     *)
LEMMA RingNext == RingInv /\ [Next]_vars => RingInv'
<1> SUFFICES ASSUME RingInv, [Next]_vars  PROVE RingInv'  BY Zenon
<1>1. CASE UNCHANGED vars
  BY <1>1 DEF vars, RingInv, TypeOK, RingPart, ProgPart, PollPart, UserPart
<1>2. CASE Next
  BY Zenon, <1>2, ProgressLocalStep, PushWriteStep, PushPublishStep, PollerLocalStep, PopAdvanceStep,
     UserStep
  DEF Next, Progress, Poller
<1> QED  BY <1>1, <1>2, Zenon

(* The invariant holds in every state.                                     *)
LEMMA RingSpec == Spec => []RingInv
  BY RingInit, RingNext, PTL DEF Spec

(* The ring and its threads have their types.                              *)
THEOREM RingTypeCorrect == Spec => []TypeOK
<1>1. RingInv => TypeOK  BY Zenon DEF RingInv
<1> QED  BY <1>1, RingSpec, PTL

(* A restore() that waited in wait_ring_consumed finds its completion in   *)
(* the daemon's tables.                                                    *)
THEOREM WaitedRestoreFinds == Spec => []RestoreFindsCompletion
<1>1. RingInv => RestoreFindsCompletion  BY Zenon DEF RingInv, UserPart, RestoreFindsCompletion
<1> QED  BY <1>1, RingSpec, PTL

(* What was published and not taken.                                       *)
Suffix == [i \in 1 .. tail - head |-> sent[head + i]]

(* What is pending is what was published and not taken.                    *)
LEMMA PendingIsSuffix == RingInv => Pending = Suffix
<1> SUFFICES ASSUME RingInv, NEW i \in 1 .. tail - head
             PROVE  entries[Cell(head + i - 1)] = sent[head + i]
  BY Zenon DEF Pending, Suffix
<1>1. head \in Nat /\ tail \in Nat  BY Zenon DEF RingInv, TypeOK
<1>2. head + i - 1 \in head .. tail - 1  BY <1>1
<1>3. entries[Cell(head + i - 1)] = sent[(head + i - 1) + 1]  BY <1>2, Zenon DEF RingInv, RingPart
<1> QED  BY <1>1, <1>3

(* Every step of the ring is a step of the queue, or leaves it unchanged.  *)
LEMMA RingRefinesStep ==
  RingInv /\ [Next]_vars => [Queue!Next]_<<Pending, taken>>
<1> SUFFICES ASSUME RingInv, [Next]_vars  PROVE [Queue!Next]_<<Pending, taken>>  BY Zenon
<1> USE RingAssumption
<1>1. RingInv'  BY RingNext, Zenon
<1>2. /\ Pending = [i \in 1 .. tail - head |-> sent[head + i]]
      /\ Pending' = [i \in 1 .. tail' - head' |-> sent'[head' + i]]
  <2>1. (Pending = Suffix)'  BY <1>1, PendingIsSuffix, PTL
  <2> QED  BY <2>1, PendingIsSuffix, Zenon DEF Suffix
<1>3. head \in Nat /\ tail \in Nat /\ head <= tail /\ sent \in Seq(Item) /\ Len(sent) = tail
  BY Zenon DEF RingInv, TypeOK, RingPart
<1>4. Pending \in Seq(Item) /\ Len(Pending) = tail - head
  <2>1. \A i \in 1 .. tail - head : sent[head + i] \in Item  BY <1>3
  <2> QED  BY <1>2, <1>3, <2>1
<1>5. CASE PushPublish
  <2>1. prog.item \in Item /\ tail - head < Capacity /\ tail' = tail + 1 /\ head' = head
    BY <1>5, Zenon DEF PushPublish, RingInv, ProgPart
  <2>2. sent' = Append(sent, prog.item)  BY <1>5, Zenon DEF PushPublish
  <2>3. Pending' = Append(Pending, prog.item)
    <3>1. Pending' = [i \in 1 .. (tail - head) + 1 |-> sent'[head + i]]  BY <1>2, <1>3, <2>1
    <3>2. \A i \in 1 .. (tail - head) + 1 :
            sent'[head + i] = IF i = (tail - head) + 1 THEN prog.item ELSE sent[head + i]
      BY <1>3, <2>1, <2>2
    <3>3. Append(Pending, prog.item)
          = [i \in 1 .. (tail - head) + 1 |->
               IF i = (tail - head) + 1 THEN prog.item ELSE Pending[i]]
      BY <1>3, <1>4, <2>1
    <3>4. \A i \in 1 .. (tail - head) + 1 :
            sent'[head + i] = IF i = (tail - head) + 1 THEN prog.item ELSE Pending[i]
      BY <1>2, <1>3, <3>2
    <3> QED  BY ONLY <3>1, <3>3, <3>4, Zenon
  <2>4. Queue!Publish(prog.item)  BY <1>4, <1>5, <2>1, <2>3, Zenon DEF PushPublish, Queue!Publish
  <2> QED  BY <2>1, <2>4, Zenon DEF Queue!Next
<1>6. CASE PopAdvance
  <2>1. head < tail /\ poll.item = sent[head + 1] /\ head' = head + 1 /\ tail' = tail /\ sent' = sent
    BY <1>6, Zenon DEF PopAdvance, RingInv, PollPart
  <2>2. Pending # <<>> /\ Head(Pending) = poll.item
    BY <1>2, <1>3, <1>4, <2>1, SMTT(30)
  <2>3. Pending' = Tail(Pending)
    <3>1. Pending' = [i \in 1 .. (tail - head) - 1 |-> sent[head + 1 + i]]  BY <1>2, <1>3, <2>1
    <3>2. Pending' \in Seq(Item) /\ Len(Pending') = (tail - head) - 1
      <4>1. \A i \in 1 .. (tail - head) - 1 : sent[head + 1 + i] \in Item  BY <1>3
      <4> QED  BY <1>3, <2>1, <3>1, <4>1
    <3>3. /\ Tail(Pending) \in Seq(Item) /\ Len(Tail(Pending)) = (tail - head) - 1
          /\ \A i \in 1 .. (tail - head) - 1 : Tail(Pending)[i] = Pending[i + 1]
      BY <1>3, <1>4, <2>2, HeadTailProperties, Zenon
    <3>4. \A i \in 1 .. (tail - head) - 1 : Pending'[i] = Tail(Pending)[i]
      <4> SUFFICES ASSUME NEW i \in 1 .. (tail - head) - 1  PROVE Pending'[i] = Tail(Pending)[i]
        BY Zenon
      <4>1. Pending'[i] = sent[head + 1 + i]  BY <3>1, Zenon
      <4>2. i + 1 \in 1 .. tail - head /\ head + (i + 1) = head + 1 + i  BY <1>3
      <4>3. Pending[i + 1] = sent[head + (i + 1)]  BY <1>2, <4>2, Zenon
      <4> QED  BY <3>3, <4>1, <4>2, <4>3, Zenon
    <3> QED  BY <3>2, <3>3, <3>4, SeqEqual, Zenon
  <2>4. Queue!Take  BY <1>6, <2>2, <2>3, Zenon DEF PopAdvance, Queue!Take
  <2> QED  BY <2>4, Zenon DEF Queue!Next
<1>7. CASE UNCHANGED vars \/ (Next /\ ~PushPublish /\ ~PopAdvance)
  <2>1. UNCHANGED <<head, tail, sent, taken>>
    BY <1>7, Zenon
    DEF vars, Next, Progress, Poller, Gather, PushLoad, PushWrite, PushRecord, Finalize,
        SendOverflow, Sweep, PopLoad, SweepEnd, PopRead, Apply, RestoreLookup,
        WaitRingConsumed, AskPrefetch, ring
  <2> QED  BY <1>2, <2>1, Zenon
<1> QED  BY <1>5, <1>6, <1>7, Zenon

(* The completion ring implements the bounded queue CompletionQueue: an    *)
(* entry's write, its publication and the two steps of a pop appear as one *)
(* Publish and one Take.                                                   *)
THEOREM RingRefinesQueue == Spec => RingIsQueue
<1>1. Init => Queue!Init  BY RingAssumption DEF Init, Queue!Init, Pending
<1> QED  BY <1>1, RingSpec, RingRefinesStep, PTL DEF Spec, RingIsQueue, Queue!Spec
============================================================================
