----------------------------- MODULE SPSCQueue -----------------------------
(***************************************************************************)
(* runtime/dswp_queue.cpp: the lock-free single-producer single-consumer   *)
(* ring buffer, at the grain of its atomic accesses and under the C++      *)
(* memory model rather than under sequential consistency.                  *)
(*                                                                         *)
(* Each atomic is the LOG of the stores made to it (its modification       *)
(* order).  A load may return any entry from the last one the thread knows *)
(* of onwards, so a load may be stale but never goes backwards.  A release *)
(* store records what its thread had done before it; an acquire load that  *)
(* reads it learns that.  What a thread has learnt is its `Seen' record.   *)
(* The buffer slots are plain memory: each remembers the number of the     *)
(* last write and of the last read made to it, so that an access not       *)
(* ordered after the conflicting one is visible as a data race.            *)
(*                                                                         *)
(* head and tail are size_t values: they wrap modulo Modulus.  The ring    *)
(* has Capacity slots, and `index & mask' is index % Capacity because      *)
(* Capacity is a power of two, which is also why it divides Modulus.       *)
(***************************************************************************)
EXTENDS Integers, Sequences

CONSTANTS Values,       \* the uint64_t payloads
          Capacity,     \* q->capacity
          Modulus,      \* 2^w, the number of values of size_t
          MaxEnqueues   \* bound: how many enqueues the producer makes

ASSUME SizeAssumption ==
  /\ Capacity \in Nat \ {0}
  /\ Modulus \in Nat
  /\ Capacity < Modulus
  /\ \E k \in 1 .. Modulus : Modulus = k * Capacity

ASSUME MaxEnqueuesAssumption == MaxEnqueues \in Nat

VARIABLES
  headLog, tailLog, eofLog,   \* the stores made to q->head, q->tail, q->eof
  buffer,                     \* q->buffer
  ppc, ph, pval,              \* producer: place in dswp_enqueue, its h and value
  pSeen, written,             \* what the producer knows; slot writes it has made
  cpc, ct, out,               \* consumer: place in dswp_dequeue, its t and *out
  cSeen, copied,              \* what the consumer knows; slot reads it has made
  sent, rcvd, ended           \* history: items enqueued, items returned, "false" returned

producerVars == <<headLog, eofLog, ppc, ph, pval, pSeen, written, sent>>
consumerVars == <<tailLog, cpc, ct, out, cSeen, copied, rcvd, ended>>
vars == <<producerVars, consumerVars, buffer>>

Slots == 0 .. Capacity - 1
Words == 0 .. Modulus - 1
(* Mutant: counters that never wrap. *)
WordWithoutWrap(n) == n

Word(n) == n % Modulus            \* arithmetic on size_t
SlotOf(index) == index % Capacity \* index & mask

(* Mutants: a ring that accepts one item too many; a fullness test that    *)
(* forgets that head may have wrapped while tail has not.                  *)
FullOffByOne(h, t) == Word(h - t) > Capacity
FullSigned(h, t) == h - t >= Capacity

(* h - tail >= capacity, in size_t arithmetic. *)
Full(h, t) == Word(h - t) >= Capacity

Newest(log) == log[Len(log)]
Larger(m, n) == IF m >= n THEN m ELSE n

---------------------------------------------------------------------------
(* dswp_queue_create.  The buffer comes from aligned_alloc: it holds       *)
(* whatever was there before.  The pointer is handed to both threads       *)
(* before they start, so both know the initial stores.                     *)
Init ==
  /\ headLog = << [val |-> 0, writes |-> 0] >>
  /\ tailLog = << [val |-> 0, reads |-> 0] >>
  /\ eofLog = << [val |-> FALSE, head |-> 1, writes |-> 0] >>
  /\ buffer \in [Slots -> [val : Values, w : {0}, r : {0}]]
  /\ ppc = "idle" /\ ph = 0 /\ pval \in Values
  /\ pSeen = [tail |-> 1, reads |-> 0] /\ written = 0
  /\ cpc = "idle" /\ ct = 0 /\ out \in Values
  /\ cSeen = [head |-> 1, eof |-> 1, writes |-> 0] /\ copied = 0
  /\ sent = <<>> /\ rcvd = <<>> /\ ended = FALSE

---------------------------------------------------------------------------
(* The producer. *)

Closed == Len(eofLog) > 1

(* dswp_enqueue is called; h is the relaxed load of head, which only this  *)
(* thread stores to.  The client enqueues nothing after its EOF.           *)
EnqueueCall(v) ==
  /\ ppc = "idle" /\ ~Closed
  /\ Len(sent) < MaxEnqueues
  /\ ppc' = "wait"
  /\ ph' = Newest(headLog).val
  /\ pval' = v
  /\ UNCHANGED <<headLog, eofLog, pSeen, written, sent, buffer, consumerVars>>

(* What the acquire load of entry i of the tail log tells the producer. *)
LearnTail(i) ==
  [tail |-> i, reads |-> Larger(pSeen.reads, tailLog[i].reads)]

(* Mutant: tail is loaded once, before the waiting loop. *)
LoadTailHoisted(i) ==
  /\ ppc = "wait"
  /\ i = pSeen.tail
  /\ ppc' = IF Full(ph, tailLog[i].val) THEN "wait" ELSE "fill"
  /\ UNCHANGED <<headLog, eofLog, ph, pval, pSeen, written, sent, buffer, consumerVars>>

(* One evaluation of the waiting loop's condition: it yields and tries     *)
(* again while the queue looks full.                                       *)
LoadTail(i) ==
  /\ ppc = "wait"
  /\ i \in pSeen.tail .. Len(tailLog)
  /\ pSeen' = LearnTail(i)
  /\ ppc' = IF Full(ph, tailLog[i].val) THEN "wait" ELSE "fill"
  /\ UNCHANGED <<headLog, eofLog, ph, pval, written, sent, buffer, consumerVars>>

(* q->buffer[h & q->mask] = value, a plain store. *)
FillSlot ==
  /\ ppc = "fill"
  /\ buffer' = [buffer EXCEPT ![SlotOf(ph)] =
                  [val |-> pval, w |-> written + 1, r |-> @.r]]
  /\ written' = written + 1
  /\ ppc' = "publish"
  /\ UNCHANGED <<headLog, eofLog, ph, pval, pSeen, sent, consumerVars>>

(* head.store(h + 1, release), and the call returns. *)
PublishHead ==
  /\ ppc = "publish"
  /\ headLog' = Append(headLog, [val |-> Word(ph + 1), writes |-> written])
  /\ sent' = Append(sent, pval)
  /\ ppc' = "idle"
  /\ UNCHANGED <<eofLog, ph, pval, pSeen, written, buffer, consumerVars>>

(* dswp_send_eof: the release store carries the producer's own view of     *)
(* head, which is its newest store.                                        *)
SendEof ==
  /\ ppc = "idle" /\ ~Closed
  /\ eofLog' = Append(eofLog, [val |-> TRUE, head |-> Len(headLog), writes |-> written])
  /\ UNCHANGED <<headLog, ppc, ph, pval, pSeen, written, sent, buffer, consumerVars>>

---------------------------------------------------------------------------
(* The consumer. *)

(* dswp_dequeue is called, also again after it has returned false; t is    *)
(* the relaxed load of tail, which only this thread stores to.             *)
DequeueCall ==
  /\ cpc = "idle"
  /\ cpc' = "head"
  /\ ct' = Newest(tailLog).val
  /\ UNCHANGED <<tailLog, out, cSeen, copied, rcvd, ended, buffer, producerVars>>

(* What the acquire load of entry i of the head log tells the consumer. *)
LearnHead(i) ==
  [head   |-> i,
   eof    |-> cSeen.eof,
   writes |-> Larger(cSeen.writes, headLog[i].writes)]

(* Mutant: a relaxed load of eof. *)
LearnEofRelaxed(i) ==
  [head |-> cSeen.head, eof |-> i, writes |-> cSeen.writes]

(* What the acquire load of entry i of the eof log tells the consumer: it  *)
(* can no longer read a head older than the one the producer had stored.   *)
LearnEof(i) ==
  [head   |-> Larger(cSeen.head, eofLog[i].head),
   eof    |-> i,
   writes |-> Larger(cSeen.writes, eofLog[i].writes)]

LoadHead(i) ==
  /\ cpc = "head"
  /\ i \in cSeen.head .. Len(headLog)
  /\ cSeen' = LearnHead(i)
  /\ cpc' = IF headLog[i].val # ct THEN "copy" ELSE "eof"
  /\ UNCHANGED <<tailLog, ct, out, copied, rcvd, ended, buffer, producerVars>>

(* *out = q->buffer[t & q->mask], a plain load. *)
CopySlot ==
  /\ cpc = "copy"
  /\ out' = buffer[SlotOf(ct)].val
  /\ buffer' = [buffer EXCEPT ![SlotOf(ct)].r = copied + 1]
  /\ copied' = copied + 1
  /\ cpc' = "publish"
  /\ UNCHANGED <<tailLog, ct, cSeen, rcvd, ended, producerVars>>

(* tail.store(t + 1, release), and the call returns true. *)
PublishTail ==
  /\ cpc = "publish"
  /\ tailLog' = Append(tailLog, [val |-> Word(ct + 1), reads |-> copied])
  /\ rcvd' = Append(rcvd, out)
  /\ cpc' = "idle"
  /\ UNCHANGED <<ct, out, cSeen, copied, ended, buffer, producerVars>>

(* Mutant: eof is loaded once, before the loop. *)
LoadEofHoisted(i) ==
  /\ cpc = "eof"
  /\ i = cSeen.eof
  /\ cpc' = IF eofLog[i].val THEN "recheck" ELSE "head"
  /\ UNCHANGED <<tailLog, ct, out, cSeen, copied, rcvd, ended, buffer, producerVars>>

(* The queue appears empty: look at eof, and yield when it is not set. *)
LoadEof(i) ==
  /\ cpc = "eof"
  /\ i \in cSeen.eof .. Len(eofLog)
  /\ cSeen' = LearnEof(i)
  /\ cpc' = IF eofLog[i].val THEN "recheck" ELSE "head"
  /\ UNCHANGED <<tailLog, ct, out, copied, rcvd, ended, buffer, producerVars>>

(* Mutants: return false on EOF without the second look at head; on a      *)
(* straggler, look again for ever instead of going back to dequeue it.     *)
EndWithoutRecheck(i) ==
  /\ cpc = "recheck"
  /\ i \in cSeen.head .. Len(headLog)
  /\ cpc' = "idle" /\ ended' = TRUE
  /\ UNCHANGED <<tailLog, ct, out, cSeen, copied, rcvd, buffer, producerVars>>
RecheckForEver(i) ==
  /\ cpc = "recheck"
  /\ i \in cSeen.head .. Len(headLog)
  /\ cSeen' = LearnHead(i)
  /\ IF headLog[i].val = ct
       THEN cpc' = "idle" /\ ended' = TRUE
       ELSE UNCHANGED <<cpc, ended>>
  /\ UNCHANGED <<tailLog, ct, out, copied, rcvd, buffer, producerVars>>

(* h2: return false when head still equals t, else loop for the straggler. *)
RecheckHead(i) ==
  /\ cpc = "recheck"
  /\ i \in cSeen.head .. Len(headLog)
  /\ cSeen' = LearnHead(i)
  /\ IF headLog[i].val = ct
       THEN cpc' = "idle" /\ ended' = TRUE
       ELSE cpc' = "head" /\ UNCHANGED ended
  /\ UNCHANGED <<tailLog, ct, out, copied, rcvd, buffer, producerVars>>

---------------------------------------------------------------------------
ProducerNext ==
  \/ \E v \in Values : EnqueueCall(v)
  \/ \E i \in 1 .. Len(tailLog) : LoadTail(i)
  \/ FillSlot
  \/ PublishHead
  \/ SendEof

ConsumerNext ==
  \/ DequeueCall
  \/ \E i \in 1 .. Len(headLog) : LoadHead(i)
  \/ CopySlot
  \/ PublishTail
  \/ \E i \in 1 .. Len(eofLog) : LoadEof(i)
  \/ \E i \in 1 .. Len(headLog) : RecheckHead(i)

Next == ProducerNext \/ ConsumerNext

Spec == Init /\ [][Next]_vars

(* Both threads keep running, and the client keeps calling dequeue; what   *)
(* the producer sends, and whether it ever sends EOF, is up to it.  A load *)
(* in a waiting loop cannot return stale values for ever: the C++ standard *)
(* makes a store visible to other threads in finite time.  Each loop       *)
(* leaves and re-enters the state where its loads are enabled, hence       *)
(* strong fairness.                                                        *)
ProducerFairness ==
  /\ WF_vars(FillSlot)
  /\ WF_vars(PublishHead)
  /\ SF_vars(LoadTail(Len(tailLog)))

ConsumerFairness ==
  /\ WF_vars(DequeueCall)
  /\ WF_vars(CopySlot)
  /\ WF_vars(PublishTail)
  /\ SF_vars(LoadHead(Len(headLog)))
  /\ SF_vars(LoadEof(Len(eofLog)))
  /\ SF_vars(RecheckHead(Len(headLog)))

FairSpec == Spec /\ ProducerFairness /\ ConsumerFairness

---------------------------------------------------------------------------
(* Properties. *)

HeadStores == [val : Words, writes : Nat]
TailStores == [val : Words, reads : Nat]
EofStores  == [val : BOOLEAN, head : Nat, writes : Nat]
SlotStates == [val : Values, w : Nat, r : Nat]

(* Type invariant of the queue, of both threads and of the history.        *)
TypeOK ==
  /\ headLog \in Seq(HeadStores) /\ headLog # <<>>
  /\ tailLog \in Seq(TailStores) /\ tailLog # <<>>
  /\ eofLog \in Seq(EofStores) /\ Len(eofLog) \in {1, 2}
  /\ buffer \in [Slots -> SlotStates]
  /\ ppc \in {"idle", "wait", "fill", "publish"}
  /\ ph \in Words /\ pval \in Values
  /\ pSeen \in [tail : Nat, reads : Nat] /\ written \in Nat
  /\ cpc \in {"idle", "head", "copy", "publish", "eof", "recheck"}
  /\ ct \in Words /\ out \in Values
  /\ cSeen \in [head : Nat, eof : Nat, writes : Nat] /\ copied \in Nat
  /\ sent \in Seq(Values) /\ rcvd \in Seq(Values) /\ ended \in BOOLEAN

(* No data race on the plain uint64_t slots: the producer overwrites a     *)
(* slot only after it has synchronised with the last read of it, and the   *)
(* consumer reads a slot only after it has synchronised with its last      *)
(* write.  This is what the release/acquire pairs on head and tail, and    *)
(* the fullness and emptiness tests, are there for.                        *)
DataRaceFree ==
  /\ ppc = "fill" => buffer[SlotOf(ph)].r <= pSeen.reads
  /\ cpc = "copy" => buffer[SlotOf(ct)].w <= cSeen.writes

(* What dequeue has returned is a prefix of what enqueue was given, in     *)
(* order: nothing lost, duplicated, reordered or read from an unwritten    *)
(* slot, also after head and tail have wrapped around.                     *)
DeliveredInOrder ==
  /\ Len(rcvd) <= Len(sent)
  /\ \A k \in 1 .. Len(rcvd) : rcvd[k] = sent[k]

(* The contract of dswp_dequeue: once it has returned false the queue is   *)
(* permanently empty: EOF was sent and every item enqueued was drained.    *)
(* The re-check of head after the EOF load is what makes it so.            *)
FalseMeansDrained == ended => Closed /\ Len(rcvd) = Len(sent)

(* The ring buffer implements the bounded channel its clients program to:  *)
(* an item is sent when head is published, received when tail is.          *)
Channel == INSTANCE BoundedChannel WITH closed <- Closed

ImplementsChannel == Channel!Spec

(* Every item enqueued is eventually returned by some dequeue.             *)
EveryItemDelivered ==
  \A n \in 1 .. MaxEnqueues : Len(sent) >= n ~> Len(rcvd) >= n

(* A blocked enqueue returns: the consumer's progress always reaches it.   *)
EnqueueReturns == ppc # "idle" ~> ppc = "idle"

(* After dswp_send_eof the consumer is eventually told the stream ended.   *)
EofReachesConsumer == Closed ~> ended

---------------------------------------------------------------------------
(* The inductive invariant.  It ties the wrapped words and the logs to the *)
(* unbounded history: entry i of either index log is store number i - 1,   *)
(* and a thread that knows entry i knows exactly the i - 1 slot accesses   *)
(* made before it.                                                         *)
LogInv ==
  /\ Len(headLog) = Len(sent) + 1
  /\ \A i \in 1 .. Len(headLog) :
        headLog[i].val = Word(i - 1) /\ headLog[i].writes = i - 1
  /\ Len(tailLog) = Len(rcvd) + 1
  /\ \A i \in 1 .. Len(tailLog) :
        tailLog[i].val = Word(i - 1) /\ tailLog[i].reads = i - 1
  /\ eofLog[1] = [val |-> FALSE, head |-> 1, writes |-> 0]
  /\ Closed => eofLog[2] = [val |-> TRUE, head |-> Len(headLog), writes |-> Len(sent)]

ProducerInv ==
  /\ ppc # "idle" => ph = Word(Len(sent)) /\ ~Closed
  /\ written = IF ppc = "publish" THEN Len(sent) + 1 ELSE Len(sent)
  /\ pSeen.tail \in 1 .. Len(tailLog) /\ pSeen.reads = pSeen.tail - 1
  /\ Len(sent) - pSeen.reads <= Capacity
  /\ ppc \in {"fill", "publish"} => Len(sent) - pSeen.reads < Capacity

ConsumerInv ==
  /\ cpc # "idle" => ct = Word(Len(rcvd))
  /\ copied = IF cpc = "publish" THEN Len(rcvd) + 1 ELSE Len(rcvd)
  /\ cSeen.head \in 1 .. Len(headLog) /\ cSeen.writes = cSeen.head - 1
  /\ cSeen.eof \in 1 .. Len(eofLog)
  /\ Len(rcvd) <= cSeen.writes
  /\ cpc \in {"copy", "publish"} => Len(rcvd) < cSeen.writes
  /\ cpc = "recheck" => Closed /\ cSeen.head = Len(headLog)

(* The slots between tail and head hold exactly the items in flight.       *)
RingInv ==
  /\ Len(sent) - Len(rcvd) \in 0 .. Capacity
  /\ \A k \in Len(rcvd) + 1 .. Len(sent) :
        buffer[SlotOf(k - 1)].val = sent[k] /\ buffer[SlotOf(k - 1)].w = k
  /\ ppc = "publish" => buffer[SlotOf(Len(sent))].val = pval
                        /\ buffer[SlotOf(Len(sent))].w = Len(sent) + 1
  /\ cpc = "publish" => out = sent[Len(rcvd) + 1]
  /\ \A s \in Slots : buffer[s].r <= copied
                      /\ (buffer[s].r > 0 => SlotOf(buffer[s].r - 1) = s)

IndInv ==
  /\ TypeOK
  /\ LogInv
  /\ ProducerInv
  /\ ConsumerInv
  /\ RingInv
  /\ DeliveredInOrder
  /\ FalseMeansDrained
===========================================================================
