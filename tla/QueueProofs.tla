---------------------------- MODULE QueueProofs ----------------------------
(***************************************************************************)
(* TLAPS proofs about the queue of runtime/dswp_queue.cpp: about SPSCQueue *)
(* for every capacity, every word width, every payload set and every       *)
(* number of enqueues, and at the end about QueueCreate for every width of *)
(* size_t and every requested capacity.                                    *)
(***************************************************************************)
EXTENDS SPSCQueue, QueueCreate, Arithmetic, SequenceTheorems

(* The capacity and the word modulus are positive and the first
   divides the second. *)
LEMMA Sizes ==
  /\ Capacity \in Nat \ {0}
  /\ Modulus \in Nat \ {0}
  /\ Capacity < Modulus
  /\ \E k \in Nat \ {0} : Modulus = k * Capacity
<1>1. PICK k \in 1 .. Modulus : Modulus = k * Capacity
  BY SizeAssumption
<1>2. k \in Nat \ {0}
  BY <1>1, SizeAssumption
<1> QED  BY <1>1, <1>2, SizeAssumption

(* A counter converted to size_t, and its slot. *)
LEMMA WordFacts ==
  ASSUME NEW n \in Nat
  PROVE  /\ Word(n) \in Words
         /\ SlotOf(n) \in Slots
         /\ SlotOf(Word(n)) = SlotOf(n)
         /\ Word(Word(n) + 1) = Word(n + 1)
<1>1. Word(n) \in Words
  BY Sizes, DivisionDef DEF Word, Words
<1>2. SlotOf(n) \in Slots
  BY Sizes, DivisionDef DEF SlotOf, Slots
<1>3. SlotOf(Word(n)) = SlotOf(n)
  <2>1. PICK k \in Nat \ {0} : Modulus = k * Capacity
    BY Sizes
  <2>2. (n % (k * Capacity)) % Capacity = n % Capacity
    BY Sizes, WrapSlot
  <2> QED  BY <2>1, <2>2 DEF SlotOf, Word
<1>4. Word(Word(n) + 1) = Word(n + 1)
  BY Sizes, WrapSucc DEF Word
<1> QED  BY <1>1, <1>2, <1>3, <1>4

(* The fullness test compares the real distance, whatever the wrap-around. *)
LEMMA FullFact ==
  ASSUME NEW h \in Nat, NEW t \in Nat, h - t \in 0 .. Capacity
  PROVE  Full(Word(h), Word(t)) <=> h - t >= Capacity
<1>1. h - t \in 0 .. Modulus - 1
  BY Sizes
<1>2. Word(Word(h) - Word(t)) = h - t
  BY <1>1, Sizes, WrapDiff DEF Word
<1> QED  BY <1>2 DEF Full

(* The emptiness test: equal words are equal counters. *)
LEMMA SameWord ==
  ASSUME NEW h \in Nat, NEW t \in Nat, h - t \in 0 .. Capacity, Word(h) = Word(t)
  PROVE  h = t
<1>1. h - t \in 0 .. Modulus - 1
  BY Sizes
<1> QED  BY <1>1, Sizes, SameRemainder DEF Word

(* Two counters less than Capacity apart share a slot only if equal. *)
LEMMA SameSlot ==
  ASSUME NEW a \in Nat, NEW b \in Nat, a - b \in 0 .. Capacity - 1, SlotOf(a) = SlotOf(b)
  PROVE  a = b
BY Sizes, SameRemainder DEF SlotOf

---------------------------------------------------------------------------
(* The types and lengths the steps below keep using. *)
LEMMA Basics ==
  ASSUME IndInv
  PROVE  /\ sent \in Seq(Values) /\ Len(sent) \in Nat
         /\ rcvd \in Seq(Values) /\ Len(rcvd) \in Nat
         /\ headLog \in Seq(HeadStores) /\ Len(headLog) = Len(sent) + 1
         /\ tailLog \in Seq(TailStores) /\ Len(tailLog) = Len(rcvd) + 1
         /\ eofLog \in Seq(EofStores) /\ (Len(eofLog) = 1 \/ Len(eofLog) = 2)
         /\ Len(eofLog) >= 1
         /\ buffer \in [Slots -> SlotStates]
         /\ pSeen.tail \in Nat /\ pSeen.reads \in Nat
         /\ cSeen.head \in Nat /\ cSeen.eof \in Nat /\ cSeen.writes \in Nat
         /\ copied \in Nat
<1>1. TypeOK /\ LogInv
  BY DEF IndInv
<1>2. sent \in Seq(Values) /\ rcvd \in Seq(Values)
  BY <1>1 DEF TypeOK
<1>3. Len(sent) \in Nat /\ Len(rcvd) \in Nat
  BY <1>2
<1>4. /\ headLog \in Seq(HeadStores) /\ tailLog \in Seq(TailStores)
      /\ eofLog \in Seq(EofStores) /\ (Len(eofLog) = 1 \/ Len(eofLog) = 2)
  BY <1>1 DEF TypeOK
<1>5. Len(headLog) = Len(sent) + 1 /\ Len(tailLog) = Len(rcvd) + 1
  BY <1>1 DEF LogInv
<1>6. buffer \in [Slots -> SlotStates] /\ copied \in Nat
  BY <1>1 DEF TypeOK
<1>7. /\ pSeen \in [tail : Nat, reads : Nat]
      /\ cSeen \in [head : Nat, eof : Nat, writes : Nat]
  BY <1>1 DEF TypeOK
<1>8. /\ pSeen.tail \in Nat /\ pSeen.reads \in Nat
      /\ cSeen.head \in Nat /\ cSeen.eof \in Nat /\ cSeen.writes \in Nat
  BY <1>7
<1>9. Len(eofLog) >= 1
  <2> DEFINE n == Len(eofLog)
  <2>1. n = 1 \/ n = 2
    BY <1>4
  <2> HIDE DEF n
  <2>2. n >= 1
    BY <2>1
  <2> QED  BY <2>2 DEF n
<1> QED  BY <1>2, <1>3, <1>4, <1>5, <1>6, <1>8, <1>9

(* The queue as dswp_queue_create leaves it satisfies the invariant. *)
LEMMA InitInd == Init => IndInv
<1> SUFFICES ASSUME Init PROVE IndInv
  OBVIOUS
<1>1. Word(0) = 0 /\ 0 \in Words
  BY Sizes, SmallRemainder DEF Word, Words
<1>2. TypeOK
  <2>1. headLog \in Seq(HeadStores) /\ headLog # <<>>
    BY <1>1 DEF Init, HeadStores
  <2>2. tailLog \in Seq(TailStores) /\ tailLog # <<>>
    BY <1>1 DEF Init, TailStores
  <2>3. eofLog \in Seq(EofStores) /\ Len(eofLog) \in {1, 2}
    BY DEF Init, EofStores
  <2>4. buffer \in [Slots -> SlotStates]
    BY DEF Init, SlotStates
  <2>5. /\ pSeen \in [tail : Nat, reads : Nat]
        /\ cSeen \in [head : Nat, eof : Nat, writes : Nat]
    BY DEF Init
  <2>6. sent \in Seq(Values) /\ rcvd \in Seq(Values)
    BY DEF Init
  <2>7. ended \in BOOLEAN
    BY DEF Init
  <2> QED  BY <1>1, <2>1, <2>2, <2>3, <2>4, <2>5, <2>6, <2>7 DEF Init, TypeOK
<1>3. LogInv
  BY <1>1 DEF Init, LogInv, Closed
<1>4. ProducerInv /\ ConsumerInv
  BY Sizes DEF Init, ProducerInv, ConsumerInv, Closed
<1>5. RingInv
  BY Sizes DEF Init, RingInv
<1>6. DeliveredInOrder /\ FalseMeansDrained
  BY DEF Init, DeliveredInOrder, FalseMeansDrained
<1> QED  BY <1>2, <1>3, <1>4, <1>5, <1>6 DEF IndInv

(* Entering dswp_enqueue reads head, which no other thread writes. *)
LEMMA EnqueueCallInd ==
  ASSUME IndInv, NEW v \in Values, EnqueueCall(v)
  PROVE  IndInv'
<1> USE DEF IndInv
<1>1. ph' = Word(Len(sent)) /\ Word(Len(sent)) \in Words
  <2>1. Len(sent) \in Nat /\ Len(headLog) = Len(sent) + 1
    BY DEF TypeOK, LogInv
  <2>2. Newest(headLog).val = Word(Len(headLog) - 1)
    BY <2>1 DEF LogInv, Newest
  <2> QED  BY <2>1, <2>2, WordFacts DEF EnqueueCall
<1>2. TypeOK'
  BY <1>1 DEF EnqueueCall, TypeOK, consumerVars
<1>3. LogInv'
  BY DEF EnqueueCall, LogInv, consumerVars, Closed
<1>4. ProducerInv'
  BY <1>1 DEF EnqueueCall, ProducerInv, consumerVars, Closed
<1>5. ConsumerInv' /\ RingInv' /\ DeliveredInOrder' /\ FalseMeansDrained'
  BY DEF EnqueueCall, ConsumerInv, RingInv, DeliveredInOrder, FalseMeansDrained,
         consumerVars, Closed
<1> QED  BY <1>2, <1>3, <1>4, <1>5

(* Whatever tail the producer's acquire load returns, leaving the spin
   loop means that the slot to write has been read already. *)
LEMMA LoadTailInd ==
  ASSUME IndInv, NEW i \in 1 .. Len(tailLog), LoadTail(i)
  PROVE  IndInv'
<1> USE DEF IndInv
<1>1. /\ pSeen' = [tail |-> i, reads |-> i - 1]
      /\ tailLog[i].val = Word(i - 1)
      /\ pSeen.tail \in 1 .. i
  <2>1. tailLog[i].val = Word(i - 1) /\ tailLog[i].reads = i - 1
    BY DEF LogInv
  <2>2. pSeen.tail \in 1 .. i /\ pSeen.reads = pSeen.tail - 1 /\ i \in Nat
    BY DEF LoadTail, ProducerInv, TypeOK
  <2>3. Larger(pSeen.reads, i - 1) = i - 1
    BY <2>2 DEF Larger
  <2> QED  BY <2>1, <2>2, <2>3 DEF LoadTail, LearnTail
<1>2. Len(sent) - (i - 1) \in 0 .. Capacity
  <2>1. Len(sent) \in Nat /\ Len(rcvd) \in Nat
    BY DEF TypeOK
  <2>2. i - 1 <= Len(rcvd) /\ Len(rcvd) <= Len(sent)
    BY <2>1, Sizes DEF LogInv, RingInv
  <2>3. Len(sent) - (i - 1) <= Capacity
    BY <1>1, <2>1, Sizes DEF ProducerInv
  <2> QED  BY <2>1, <2>2, <2>3, Sizes
<1>3. ppc' \in {"wait", "fill"} /\ (ppc' = "fill" => Len(sent) - (i - 1) < Capacity)
  <2>1. ph = Word(Len(sent)) /\ Len(sent) \in Nat /\ i - 1 \in Nat
    BY DEF LoadTail, ProducerInv, TypeOK
  <2>2. Full(ph, tailLog[i].val) <=> Len(sent) - (i - 1) >= Capacity
    BY <1>1, <1>2, <2>1, FullFact
  <2> QED  BY <1>2, <2>2, Sizes DEF LoadTail
<1>4. TypeOK'
  BY <1>1, <1>3 DEF LoadTail, TypeOK, consumerVars
<1>5. LogInv'
  BY DEF LoadTail, LogInv, consumerVars, Closed
<1>6. ProducerInv'
  BY <1>1, <1>2, <1>3 DEF LoadTail, ProducerInv, consumerVars, Closed
<1>7. ConsumerInv' /\ RingInv' /\ DeliveredInOrder' /\ FalseMeansDrained'
  BY <1>3 DEF LoadTail, ConsumerInv, RingInv, DeliveredInOrder, FalseMeansDrained,
         consumerVars, Closed
<1> QED  BY <1>4, <1>5, <1>6, <1>7

(* Writing a slot leaves every value not yet dequeued where it is. *)
LEMMA FillSlotInd ==
  ASSUME IndInv, FillSlot
  PROVE  IndInv'
<1> USE DEF IndInv
<1>1. /\ Len(sent) \in Nat /\ Len(rcvd) \in Nat
      /\ ph = Word(Len(sent)) /\ written = Len(sent)
      /\ SlotOf(ph) = SlotOf(Len(sent)) /\ SlotOf(ph) \in Slots
  <2>1. Len(sent) \in Nat /\ Len(rcvd) \in Nat
    BY DEF TypeOK
  <2>2. ph = Word(Len(sent)) /\ written = Len(sent)
    BY DEF FillSlot, ProducerInv
  <2> QED  BY <2>1, <2>2, WordFacts
<1>2. /\ buffer' = [buffer EXCEPT ![SlotOf(Len(sent))] =
                      [val |-> pval, w |-> Len(sent) + 1, r |-> @.r]]
      /\ written' = Len(sent) + 1 /\ ppc' = "publish"
  BY <1>1 DEF FillSlot
<1>3. TypeOK'
  BY <1>1, <1>2 DEF FillSlot, TypeOK, consumerVars, SlotStates
<1>4. LogInv' /\ ProducerInv' /\ ConsumerInv' /\ DeliveredInOrder' /\ FalseMeansDrained'
  BY <1>1, <1>2 DEF FillSlot, LogInv, ProducerInv, ConsumerInv, DeliveredInOrder,
     FalseMeansDrained, consumerVars, Closed
<1>5. ASSUME NEW k \in Len(rcvd) + 1 .. Len(sent)
      PROVE  buffer'[SlotOf(k - 1)] = buffer[SlotOf(k - 1)]
  <2>1. k - 1 \in Nat /\ Len(sent) - (k - 1) \in 0 .. Capacity - 1 /\ k - 1 # Len(sent)
    <3>1. pSeen.reads <= Len(rcvd) /\ Len(sent) - pSeen.reads < Capacity
      BY <1>1 DEF FillSlot, ProducerInv, LogInv, TypeOK
    <3>2. pSeen.reads \in Nat
      BY DEF TypeOK
    <3> QED  BY <1>1, <3>1, <3>2, Sizes
  <2>2. SlotOf(Len(sent)) # SlotOf(k - 1)
    BY <1>1, <2>1, SameSlot
  <2>3. SlotOf(k - 1) \in Slots
    BY <2>1, WordFacts
  <2> QED  BY <1>2, <2>2, <2>3 DEF TypeOK
<1>6. /\ buffer'[SlotOf(Len(sent))].val = pval
      /\ buffer'[SlotOf(Len(sent))].w = Len(sent) + 1
      /\ \A s \in Slots : buffer'[s].r = buffer[s].r
  BY <1>1, <1>2 DEF TypeOK, SlotStates
<1>7. RingInv'
  BY <1>1, <1>2, <1>5, <1>6 DEF FillSlot, RingInv, consumerVars
<1> QED  BY <1>3, <1>4, <1>7

(* Storing head makes one more slot readable, the one just written. *)
LEMMA PublishHeadInd ==
  ASSUME IndInv, PublishHead
  PROVE  IndInv'
<1> USE DEF IndInv
<1>1. /\ Len(sent) \in Nat /\ Len(rcvd) \in Nat
      /\ Len(headLog) = Len(sent) + 1
      /\ ph = Word(Len(sent)) /\ written = Len(sent) + 1 /\ ~Closed
  <2>1. Len(sent) \in Nat /\ Len(rcvd) \in Nat /\ Len(headLog) = Len(sent) + 1
    BY Basics
  <2>2. ppc = "publish"
    BY DEF PublishHead
  <2>3. ph = Word(Len(sent)) /\ written = Len(sent) + 1 /\ ~Closed
    BY <2>2 DEF ProducerInv
  <2> QED  BY <2>1, <2>3
<1>2. headLog' = Append(headLog, [val |-> Word(Len(sent) + 1), writes |-> Len(sent) + 1])
  BY <1>1, WordFacts DEF PublishHead
<1>3. /\ sent' = Append(sent, pval) /\ Len(sent') = Len(sent) + 1
      /\ \A k \in 1 .. Len(sent) : sent'[k] = sent[k]
      /\ sent'[Len(sent) + 1] = pval
  BY DEF PublishHead, TypeOK
<1>4. TypeOK'
  <2>1. Word(Len(sent) + 1) \in Words
    BY <1>1, WordFacts
  <2>2. headLog' \in Seq(HeadStores) /\ headLog' # <<>>
    <3> DEFINE store == [val |-> Word(Len(sent) + 1), writes |-> Len(sent) + 1]
    <3>1. store \in HeadStores
      BY <1>1, <2>1 DEF HeadStores
    <3>2. headLog \in Seq(HeadStores)
      BY Basics
    <3>3. headLog' = Append(headLog, store)
      BY <1>2
    <3> HIDE DEF store
    <3> QED  BY <3>1, <3>2, <3>3, AppendProperties
  <2> QED  BY <1>1, <1>3, <2>2 DEF PublishHead, TypeOK, consumerVars
<1>5. LogInv'
  <2>1. /\ Len(headLog') = Len(headLog) + 1
        /\ \A i \in 1 .. Len(headLog) : headLog'[i] = headLog[i]
        /\ headLog'[Len(headLog) + 1] = [val |-> Word(Len(sent) + 1), writes |-> Len(sent) + 1]
    BY <1>2 DEF TypeOK
  <2>2. \A i \in 1 .. Len(headLog') :
           headLog'[i].val = Word(i - 1) /\ headLog'[i].writes = i - 1
    <3> SUFFICES ASSUME NEW i \in 1 .. Len(headLog) + 1
                 PROVE  headLog'[i].val = Word(i - 1) /\ headLog'[i].writes = i - 1
      BY <2>1
    <3>1. CASE i \in 1 .. Len(headLog)
      BY <2>1, <3>1 DEF LogInv
    <3>2. CASE i = Len(sent) + 2
      BY <1>1, <2>1, <3>2
    <3> QED  BY <1>1, <3>1, <3>2
  <2> QED  BY <1>1, <1>3, <2>1, <2>2 DEF PublishHead, LogInv, consumerVars, Closed
<1>6. ProducerInv'
  <2>1. /\ ppc' = "idle" /\ written' = written /\ pSeen' = pSeen
        /\ Len(tailLog') = Len(tailLog)
    BY DEF PublishHead, consumerVars
  <2>2. /\ pSeen.tail \in 1 .. Len(tailLog) /\ pSeen.reads = pSeen.tail - 1
        /\ Len(sent) - pSeen.reads < Capacity
    BY DEF PublishHead, ProducerInv
  <2>3. Len(sent') - pSeen'.reads <= Capacity
    <3>1. pSeen.reads \in Nat
      BY Basics
    <3>2. Capacity \in Nat
      BY Sizes
    <3>3. Len(sent') = Len(sent) + 1 /\ pSeen'.reads = pSeen.reads
      BY <1>3, <2>1
    <3> HIDE DEF IndInv
    <3> QED  BY <1>1, <2>2, <3>1, <3>2, <3>3
  <2> QED  BY <1>1, <1>3, <2>1, <2>2, <2>3 DEF ProducerInv
<1>7. ConsumerInv'
  BY <1>1, <1>2 DEF PublishHead, ConsumerInv, TypeOK, consumerVars, Closed
<1>8. RingInv'
  <2>1. Len(sent') - Len(rcvd') \in 0 .. Capacity
    <3>1. pSeen.reads \in Nat /\ pSeen.reads <= Len(rcvd) /\ Len(sent) - pSeen.reads < Capacity
      BY <1>1 DEF PublishHead, ProducerInv, LogInv, TypeOK
    <3> QED  BY <1>1, <1>3, <3>1, Sizes DEF PublishHead, RingInv, consumerVars
  <2>2. \A k \in Len(rcvd) + 1 .. Len(sent) + 1 :
           buffer[SlotOf(k - 1)].val = sent'[k] /\ buffer[SlotOf(k - 1)].w = k
    <3> SUFFICES ASSUME NEW k \in Len(rcvd) + 1 .. Len(sent) + 1
                 PROVE  buffer[SlotOf(k - 1)].val = sent'[k] /\ buffer[SlotOf(k - 1)].w = k
      OBVIOUS
    <3>1. CASE k \in Len(rcvd) + 1 .. Len(sent)
      BY <1>1, <1>3, <3>1 DEF RingInv
    <3>2. CASE k = Len(sent) + 1
      <4>1. k - 1 = Len(sent)
        BY <1>1, <3>2
      <4> QED  BY <1>1, <1>3, <3>2, <4>1 DEF PublishHead, RingInv
    <3> QED  BY <1>1, <3>1, <3>2
  <2>3. cpc = "publish" => out = sent'[Len(rcvd) + 1]
    BY <1>1, <1>3 DEF RingInv, ConsumerInv
  <2> QED  BY <1>1, <1>3, <2>1, <2>2, <2>3 DEF PublishHead, RingInv, consumerVars
<1>9. DeliveredInOrder' /\ FalseMeansDrained'
  BY <1>1, <1>3 DEF PublishHead, DeliveredInOrder, FalseMeansDrained, consumerVars, Closed
<1> QED  BY <1>4, <1>5, <1>6, <1>7, <1>8, <1>9

(* The EOF store comes after the last head store of the producer. *)
LEMMA SendEofInd ==
  ASSUME IndInv, SendEof
  PROVE  IndInv'
<1> USE DEF IndInv
<1> DEFINE e == [val |-> TRUE, head |-> Len(headLog), writes |-> Len(sent)]
<1>1. /\ Len(sent) \in Nat /\ Len(headLog) = Len(sent) + 1
      /\ Len(eofLog) = 1 /\ written = Len(sent)
  <2>1. Len(sent) \in Nat /\ Len(eofLog) \in {1, 2}
    BY DEF TypeOK
  <2>2. ppc = "idle" /\ ~(Len(eofLog) > 1)
    BY DEF SendEof, Closed
  <2>3. written = Len(sent)
    BY <2>2 DEF ProducerInv
  <2>4. Len(headLog) = Len(sent) + 1
    BY DEF LogInv
  <2> QED  BY <2>1, <2>2, <2>3, <2>4
<1>2. e \in EofStores
  BY <1>1 DEF EofStores
<1>3. eofLog' = Append(eofLog, e)
  BY <1>1 DEF SendEof
<1>4. /\ eofLog' \in Seq(EofStores)
      /\ Len(eofLog') = 2
      /\ eofLog'[1] = eofLog[1]
      /\ eofLog'[2] = e
  <2>1. eofLog \in Seq(EofStores)
    BY Basics
  <2> HIDE DEF e, IndInv
  <2>2. /\ Append(eofLog, e) \in Seq(EofStores)
        /\ Len(Append(eofLog, e)) = Len(eofLog) + 1
        /\ \A i \in 1 .. Len(eofLog) : Append(eofLog, e)[i] = eofLog[i]
        /\ Append(eofLog, e)[Len(eofLog) + 1] = e
    BY <1>2, <2>1, AppendProperties
  <2>3. 1 \in 1 .. Len(eofLog)
    BY <1>1
  <2> QED  BY <1>1, <1>3, <2>2, <2>3
<1>5. TypeOK'
  BY <1>4 DEF SendEof, TypeOK, consumerVars
<1>6. LogInv'
  <2>1. Closed'
    BY <1>4 DEF Closed
  <2> QED  BY <1>1, <1>4, <2>1 DEF SendEof, LogInv, consumerVars
<1>7. ProducerInv'
  <2>1. ppc' = "idle"
    BY DEF SendEof
  <2> QED  BY <2>1 DEF SendEof, ProducerInv, consumerVars
<1>8. ConsumerInv'
  <2>1. Closed'
    BY <1>4 DEF Closed
  <2> QED  BY <1>1, <1>4, <2>1 DEF SendEof, ConsumerInv, TypeOK, consumerVars
<1>9. RingInv' /\ DeliveredInOrder'
  BY DEF SendEof, RingInv, DeliveredInOrder, consumerVars
<1>10. FalseMeansDrained'
  BY <1>4 DEF SendEof, FalseMeansDrained, consumerVars, Closed
<1> QED  BY <1>5, <1>6, <1>7, <1>8, <1>9, <1>10

(* Entering dswp_dequeue reads tail, which no other thread writes. *)
LEMMA DequeueCallInd ==
  ASSUME IndInv, DequeueCall
  PROVE  IndInv'
<1> USE DEF IndInv
<1>1. ct' = Word(Len(rcvd)) /\ Word(Len(rcvd)) \in Words
  <2>1. Len(rcvd) \in Nat /\ Len(tailLog) = Len(rcvd) + 1
    BY DEF TypeOK, LogInv
  <2>2. Newest(tailLog).val = Word(Len(tailLog) - 1)
    BY <2>1 DEF LogInv, Newest
  <2> QED  BY <2>1, <2>2, WordFacts DEF DequeueCall
<1>2. TypeOK'
  BY <1>1 DEF DequeueCall, TypeOK, producerVars
<1>3. ConsumerInv'
  BY <1>1 DEF DequeueCall, ConsumerInv, producerVars, Closed
<1>4. LogInv' /\ ProducerInv'
  BY DEF DequeueCall, LogInv, ProducerInv, producerVars, Closed
<1>5. RingInv' /\ DeliveredInOrder' /\ FalseMeansDrained'
  BY DEF DequeueCall, RingInv, DeliveredInOrder, FalseMeansDrained, producerVars, Closed
<1> QED  BY <1>2, <1>3, <1>4, <1>5

(* What loading entry i of the head log tells the consumer. *)
LEMMA LearnHeadFact ==
  ASSUME IndInv, NEW i \in 1 .. Len(headLog), i >= cSeen.head
  PROVE  /\ LearnHead(i) \in [head : Nat, eof : Nat, writes : Nat]
         /\ LearnHead(i).head = i
         /\ LearnHead(i).eof = cSeen.eof
         /\ LearnHead(i).writes = i - 1
         /\ headLog[i].val = Word(i - 1)
         /\ i - 1 \in Nat
         /\ Len(rcvd) <= i - 1 /\ i - 1 <= Len(sent)
<1>1. headLog[i].val = Word(i - 1) /\ headLog[i].writes = i - 1
  BY DEF IndInv, LogInv
<1>2. Len(rcvd) \in Nat /\ Len(sent) \in Nat /\ Len(headLog) = Len(sent) + 1
  BY Basics
<1>3. /\ cSeen \in [head : Nat, eof : Nat, writes : Nat]
      /\ cSeen.writes = cSeen.head - 1 /\ cSeen.head >= 1
      /\ Len(rcvd) <= cSeen.writes
  BY DEF IndInv, TypeOK, ConsumerInv
<1>4. i \in Nat /\ i - 1 \in Nat /\ cSeen.writes <= i - 1
  BY <1>2, <1>3
<1>5. Larger(cSeen.writes, headLog[i].writes) = i - 1
  BY <1>1, <1>3, <1>4 DEF Larger
<1>6. LearnHead(i) = [head |-> i, eof |-> cSeen.eof, writes |-> i - 1]
  BY <1>3, <1>5 DEF LearnHead
<1>7. /\ LearnHead(i) \in [head : Nat, eof : Nat, writes : Nat]
      /\ LearnHead(i).head = i
      /\ LearnHead(i).eof = cSeen.eof
      /\ LearnHead(i).writes = i - 1
  BY <1>3, <1>4, <1>6
<1> QED  BY <1>1, <1>2, <1>3, <1>4, <1>7

(* Whatever head the consumer's acquire load returns, h # t means that
   the slot to read has been written and its write is visible. *)
LEMMA LoadHeadInd ==
  ASSUME IndInv, NEW i \in 1 .. Len(headLog), LoadHead(i)
  PROVE  IndInv'
<1>1. /\ cSeen' \in [head : Nat, eof : Nat, writes : Nat]
      /\ cSeen'.head = i /\ cSeen'.eof = cSeen.eof /\ cSeen'.writes = i - 1
      /\ headLog[i].val = Word(i - 1)
      /\ Len(rcvd) <= i - 1 /\ i - 1 <= Len(sent) /\ i - 1 \in Nat
  <2>1. i >= cSeen.head /\ cSeen' = LearnHead(i)
    BY DEF LoadHead, IndInv, TypeOK
  <2> QED  BY <2>1, LearnHeadFact
<1> USE DEF IndInv
<1>2. Len(rcvd) \in Nat /\ ct = Word(Len(rcvd))
  BY DEF LoadHead, ConsumerInv, TypeOK
<1>3. cpc' \in {"copy", "eof"} /\ (cpc' = "copy" => Len(rcvd) < i - 1)
  BY <1>1, <1>2 DEF LoadHead
<1>4. TypeOK'
  BY <1>1, <1>3 DEF LoadHead, TypeOK, producerVars
<1>5. ConsumerInv'
  BY <1>1, <1>2, <1>3 DEF LoadHead, ConsumerInv, producerVars, Closed
<1>6. LogInv' /\ ProducerInv'
  BY DEF LoadHead, LogInv, ProducerInv, producerVars, Closed
<1>7. RingInv' /\ DeliveredInOrder' /\ FalseMeansDrained'
  BY <1>3 DEF LoadHead, RingInv, DeliveredInOrder, FalseMeansDrained, producerVars, Closed
<1> QED  BY <1>4, <1>5, <1>6, <1>7

(* Copying a slot takes the oldest value not yet dequeued. *)
LEMMA CopySlotInd ==
  ASSUME IndInv, CopySlot
  PROVE  IndInv'
<1> USE DEF IndInv
<1>1. /\ Len(sent) \in Nat /\ Len(rcvd) \in Nat /\ Len(rcvd) < Len(sent)
      /\ ct = Word(Len(rcvd)) /\ copied = Len(rcvd)
      /\ SlotOf(ct) = SlotOf(Len(rcvd)) /\ SlotOf(Len(rcvd)) \in Slots
  <2>1. Len(sent) \in Nat /\ Len(rcvd) \in Nat
    BY DEF TypeOK
  <2>2. ct = Word(Len(rcvd)) /\ copied = Len(rcvd)
    BY DEF CopySlot, ConsumerInv
  <2>3. cSeen.writes \in Nat /\ Len(rcvd) < cSeen.writes
    BY DEF CopySlot, ConsumerInv, TypeOK
  <2>4. cSeen.writes = cSeen.head - 1 /\ cSeen.head <= Len(headLog)
    BY <2>1 DEF ConsumerInv, LogInv
  <2>5. cSeen.writes <= Len(sent)
    BY <2>1, <2>4 DEF LogInv, TypeOK
  <2>6. Len(rcvd) < Len(sent)
    BY <2>1, <2>3, <2>5
  <2> QED  BY <2>1, <2>2, <2>6, WordFacts
<1>2. /\ out' = buffer[SlotOf(Len(rcvd))].val
      /\ buffer' = [buffer EXCEPT ![SlotOf(Len(rcvd))].r = Len(rcvd) + 1]
      /\ copied' = Len(rcvd) + 1 /\ cpc' = "publish"
  BY <1>1 DEF CopySlot
<1>3. out' = sent[Len(rcvd) + 1]
  <2>1. Len(rcvd) + 1 \in Len(rcvd) + 1 .. Len(sent) /\ (Len(rcvd) + 1) - 1 = Len(rcvd)
    BY <1>1
  <2>2. buffer[SlotOf((Len(rcvd) + 1) - 1)].val = sent[Len(rcvd) + 1]
    BY <2>1 DEF RingInv
  <2> QED  BY <1>2, <2>1, <2>2
<1>4. TypeOK'
  <2>1. buffer' \in [Slots -> SlotStates] /\ out' \in Values
    <3>1. buffer \in [Slots -> SlotStates] /\ Len(rcvd) + 1 \in Nat
      BY <1>1 DEF TypeOK
    <3>2. [buffer[SlotOf(Len(rcvd))] EXCEPT !.r = Len(rcvd) + 1] \in SlotStates
      BY <1>1, <3>1 DEF SlotStates
    <3>3. buffer[SlotOf(Len(rcvd))].val \in Values
      BY <1>1, <3>1 DEF SlotStates
    <3> QED  BY <1>1, <1>2, <3>1, <3>2, <3>3
  <2> QED  BY <1>1, <1>2, <2>1 DEF CopySlot, TypeOK, producerVars
<1>5. LogInv' /\ ProducerInv'
  BY DEF CopySlot, LogInv, ProducerInv, producerVars, Closed
<1>6. ConsumerInv'
  BY <1>1, <1>2 DEF CopySlot, ConsumerInv, producerVars, Closed
<1>7. \A s \in Slots : /\ buffer'[s].val = buffer[s].val /\ buffer'[s].w = buffer[s].w
                       /\ buffer'[s].r = IF s = SlotOf(Len(rcvd)) THEN Len(rcvd) + 1
                                                                  ELSE buffer[s].r
  BY <1>1, <1>2 DEF TypeOK, SlotStates
<1>8. \A n \in Nat : SlotOf(n) \in Slots
  BY WordFacts
<1>9. RingInv'
  <2>1. \A k \in Len(rcvd) + 1 .. Len(sent) :
           buffer'[SlotOf(k - 1)].val = sent[k] /\ buffer'[SlotOf(k - 1)].w = k
    <3> SUFFICES ASSUME NEW k \in Len(rcvd) + 1 .. Len(sent)
                 PROVE  buffer'[SlotOf(k - 1)].val = sent[k] /\ buffer'[SlotOf(k - 1)].w = k
      OBVIOUS
    <3>1. k - 1 \in Nat
      BY <1>1
    <3>2. buffer[SlotOf(k - 1)].val = sent[k] /\ buffer[SlotOf(k - 1)].w = k
      BY DEF RingInv
    <3> QED  BY <1>7, <1>8, <3>1, <3>2
  <2>2. ppc = "publish" => buffer'[SlotOf(Len(sent))].val = pval
                         /\ buffer'[SlotOf(Len(sent))].w = Len(sent) + 1
    BY <1>1, <1>7, <1>8 DEF RingInv
  <2>3. ASSUME NEW s \in Slots
        PROVE  /\ buffer'[s].r <= Len(rcvd) + 1
               /\ buffer'[s].r > 0 => SlotOf(buffer'[s].r - 1) = s
    <3>1. buffer[s].r \in Nat /\ buffer[s].r <= Len(rcvd)
          /\ (buffer[s].r > 0 => SlotOf(buffer[s].r - 1) = s)
      BY <1>1 DEF TypeOK, RingInv, SlotStates
    <3>2. CASE s = SlotOf(Len(rcvd))
      <4>1. buffer'[s].r = Len(rcvd) + 1 /\ (Len(rcvd) + 1) - 1 = Len(rcvd)
        BY <1>1, <1>7, <3>2
      <4> QED  BY <1>1, <3>2, <4>1
    <3>3. CASE s # SlotOf(Len(rcvd))
      <4>1. buffer'[s].r = buffer[s].r
        BY <1>7, <3>3
      <4> QED  BY <1>1, <3>1, <4>1
    <3> QED  BY <3>2, <3>3
  <2> QED  BY <1>1, <1>2, <1>3, <2>1, <2>2, <2>3 DEF CopySlot, RingInv, producerVars
<1>10. DeliveredInOrder' /\ FalseMeansDrained'
  BY DEF CopySlot, DeliveredInOrder, FalseMeansDrained, producerVars, Closed
<1> QED  BY <1>4, <1>5, <1>6, <1>9, <1>10

(* Storing tail gives the slot back after it has been copied. *)
LEMMA PublishTailInd ==
  ASSUME IndInv, PublishTail
  PROVE  IndInv'
<1> USE DEF IndInv
<1>1. /\ Len(sent) \in Nat /\ Len(rcvd) \in Nat /\ Len(rcvd) < Len(sent)
      /\ Len(tailLog) = Len(rcvd) + 1
      /\ ct = Word(Len(rcvd)) /\ copied = Len(rcvd) + 1
  <2>1. Len(sent) \in Nat /\ Len(rcvd) \in Nat /\ Len(tailLog) = Len(rcvd) + 1
    BY DEF TypeOK, LogInv
  <2>2. ct = Word(Len(rcvd)) /\ copied = Len(rcvd) + 1
    BY DEF PublishTail, ConsumerInv
  <2>3. cSeen.writes \in Nat /\ Len(rcvd) < cSeen.writes
    BY DEF PublishTail, ConsumerInv, TypeOK
  <2>4. cSeen.writes = cSeen.head - 1 /\ cSeen.head <= Len(headLog)
    BY <2>1 DEF ConsumerInv, LogInv
  <2>5. cSeen.writes <= Len(sent)
    BY <2>1, <2>4 DEF LogInv, TypeOK
  <2>6. Len(rcvd) < Len(sent)
    BY <2>1, <2>3, <2>5
  <2> QED  BY <2>1, <2>2, <2>6
<1>2. tailLog' = Append(tailLog, [val |-> Word(Len(rcvd) + 1), reads |-> Len(rcvd) + 1])
  BY <1>1, WordFacts DEF PublishTail
<1>3. out = sent[Len(rcvd) + 1]
  BY DEF PublishTail, RingInv
<1>4. /\ rcvd' = Append(rcvd, out) /\ Len(rcvd') = Len(rcvd) + 1
      /\ \A k \in 1 .. Len(rcvd) : rcvd'[k] = rcvd[k]
      /\ rcvd'[Len(rcvd) + 1] = sent[Len(rcvd) + 1]
  BY <1>3 DEF PublishTail, TypeOK
<1>5. TypeOK'
  <2>1. Word(Len(rcvd) + 1) \in Words
    BY <1>1, WordFacts
  <2>2. tailLog' \in Seq(TailStores) /\ tailLog' # <<>>
    <3> DEFINE store == [val |-> Word(Len(rcvd) + 1), reads |-> Len(rcvd) + 1]
    <3>1. store \in TailStores
      BY <1>1, <2>1 DEF TailStores
    <3>2. tailLog \in Seq(TailStores)
      BY Basics
    <3>3. tailLog' = Append(tailLog, store)
      BY <1>2
    <3> HIDE DEF store
    <3> QED  BY <3>1, <3>2, <3>3, AppendProperties
  <2> QED  BY <1>1, <1>4, <2>2 DEF PublishTail, TypeOK, producerVars
<1>6. LogInv'
  <2>1. /\ Len(tailLog') = Len(tailLog) + 1
        /\ \A i \in 1 .. Len(tailLog) : tailLog'[i] = tailLog[i]
        /\ tailLog'[Len(tailLog) + 1] = [val |-> Word(Len(rcvd) + 1), reads |-> Len(rcvd) + 1]
    BY <1>2 DEF TypeOK
  <2>2. \A i \in 1 .. Len(tailLog') :
           tailLog'[i].val = Word(i - 1) /\ tailLog'[i].reads = i - 1
    <3> SUFFICES ASSUME NEW i \in 1 .. Len(tailLog) + 1
                 PROVE  tailLog'[i].val = Word(i - 1) /\ tailLog'[i].reads = i - 1
      BY <2>1
    <3>1. CASE i \in 1 .. Len(tailLog)
      BY <2>1, <3>1 DEF LogInv
    <3>2. CASE i = Len(rcvd) + 2
      BY <1>1, <2>1, <3>2
    <3> QED  BY <1>1, <3>1, <3>2
  <2> QED  BY <1>1, <1>4, <2>1, <2>2 DEF PublishTail, LogInv, producerVars, Closed
<1>7. ProducerInv'
  <2>1. Len(tailLog') = Len(tailLog) + 1
    BY <1>2, Basics
  <2>2. pSeen.tail \in 1 .. Len(tailLog')
    BY <1>1, <2>1 DEF ProducerInv
  <2> QED  BY <2>2 DEF PublishTail, ProducerInv, producerVars, Closed
<1>8. ConsumerInv'
  BY <1>1, <1>4 DEF PublishTail, ConsumerInv, TypeOK, producerVars, Closed
<1>9. RingInv'
  BY <1>1, <1>4, Sizes DEF PublishTail, RingInv, producerVars
<1>10. DeliveredInOrder'
  <2> SUFFICES ASSUME NEW k \in 1 .. Len(rcvd) + 1
               PROVE  rcvd'[k] = sent[k]
    BY <1>1, <1>4 DEF PublishTail, DeliveredInOrder, producerVars
  <2>1. CASE k \in 1 .. Len(rcvd)
    BY <1>4, <2>1 DEF DeliveredInOrder
  <2>2. CASE k = Len(rcvd) + 1
    BY <1>4, <2>2
  <2> QED  BY <1>1, <2>1, <2>2
<1>11. FalseMeansDrained'
  BY <1>1 DEF PublishTail, FalseMeansDrained, producerVars, Closed
<1> QED  BY <1>5, <1>6, <1>7, <1>8, <1>9, <1>10, <1>11

(* A load of eof that returns true shows the consumer the final head. *)
LEMMA LoadEofInd ==
  ASSUME IndInv, NEW i \in 1 .. Len(eofLog), LoadEof(i)
  PROVE  IndInv'
<1> USE DEF IndInv
<1>1. /\ Len(sent) \in Nat /\ Len(rcvd) \in Nat /\ Len(headLog) = Len(sent) + 1
      /\ cSeen \in [head : Nat, eof : Nat, writes : Nat]
      /\ cSeen.head \in 1 .. Len(headLog) /\ cSeen.writes = cSeen.head - 1
      /\ Len(rcvd) <= cSeen.writes
  <2>1. cSeen \in [head : Nat, eof : Nat, writes : Nat]
    BY DEF TypeOK
  <2> QED  BY <2>1, Basics DEF ConsumerInv
<1>2. i = 1 \/ (i = 2 /\ Closed)
  <2>1. Len(eofLog) = 1 \/ Len(eofLog) = 2
    BY DEF TypeOK
  <2>2. i = 1 \/ (i = 2 /\ Len(eofLog) = 2)
    <3>1. CASE Len(eofLog) = 1
      <4>1. i \in 1 .. 1
        BY <3>1
      <4> QED  BY <4>1
    <3>2. CASE Len(eofLog) = 2
      <4>1. i \in 1 .. 2
        BY <3>2
      <4> QED  BY <3>2, <4>1
    <3> QED  BY <2>1, <3>1, <3>2
  <2> QED  BY <2>2 DEF Closed
<1>3. cSeen' = [head   |-> Larger(cSeen.head, eofLog[i].head), eof |-> i,
                writes |-> Larger(cSeen.writes, eofLog[i].writes)]
  BY DEF LoadEof, LearnEof
<1>4. CASE i = 1
  <2>1. ~eofLog[1].val /\ eofLog[1].head = 1 /\ eofLog[1].writes = 0
    BY DEF LogInv
  <2>2. cSeen' = [head |-> cSeen.head, eof |-> 1, writes |-> cSeen.writes]
    BY <1>1, <1>3, <1>4, <2>1 DEF Larger
  <2>3. cpc' = "head" /\ cpc = "eof"
    BY <1>4, <2>1 DEF LoadEof
  <2>4. TypeOK'
    BY <1>1, <2>2, <2>3 DEF LoadEof, TypeOK, producerVars
  <2>5. ConsumerInv'
    BY <1>1, <1>4, <2>2, <2>3 DEF LoadEof, ConsumerInv, producerVars, Closed
  <2>6. LogInv' /\ ProducerInv' /\ RingInv' /\ DeliveredInOrder' /\ FalseMeansDrained'
    BY <2>3 DEF LoadEof, LogInv, ProducerInv, RingInv, DeliveredInOrder, FalseMeansDrained,
       producerVars, Closed
  <2> QED  BY <2>4, <2>5, <2>6
<1>5. CASE i = 2 /\ Closed
  <2>1. /\ eofLog[2].val /\ eofLog[2].head = Len(headLog)
        /\ eofLog[2].writes = Len(sent)
    BY <1>5 DEF LogInv
  <2>2. cSeen' = [head |-> Len(headLog), eof |-> 2, writes |-> Len(sent)]
    BY <1>1, <1>3, <1>5, <2>1 DEF Larger
  <2>3. cpc' = "recheck" /\ cpc = "eof"
    BY <1>5, <2>1 DEF LoadEof
  <2>4. TypeOK'
    BY <1>1, <2>2, <2>3 DEF LoadEof, TypeOK, producerVars
  <2>5. ConsumerInv'
    BY <1>1, <1>5, <2>2, <2>3 DEF LoadEof, ConsumerInv, producerVars, Closed
  <2>6. LogInv' /\ ProducerInv' /\ RingInv' /\ DeliveredInOrder' /\ FalseMeansDrained'
    BY <2>3 DEF LoadEof, LogInv, ProducerInv, RingInv, DeliveredInOrder, FalseMeansDrained,
       producerVars, Closed
  <2> QED  BY <2>4, <2>5, <2>6
<1> QED  BY <1>2, <1>4, <1>5

(* The second load of head after eof returns the final head, so a false
   result means that everything sent has been received. *)
LEMMA RecheckHeadInd ==
  ASSUME IndInv, NEW i \in 1 .. Len(headLog), RecheckHead(i)
  PROVE  IndInv'
<1>1. /\ cSeen' \in [head : Nat, eof : Nat, writes : Nat]
      /\ cSeen'.head = i /\ cSeen'.eof = cSeen.eof /\ cSeen'.writes = i - 1
      /\ headLog[i].val = Word(i - 1)
      /\ Len(rcvd) <= i - 1 /\ i - 1 <= Len(sent) /\ i - 1 \in Nat
  <2>1. i >= cSeen.head /\ cSeen' = LearnHead(i)
    BY DEF RecheckHead, IndInv, TypeOK
  <2> QED  BY <2>1, LearnHeadFact
<1> USE DEF IndInv
<1>2. /\ Len(rcvd) \in Nat /\ Len(sent) \in Nat /\ ct = Word(Len(rcvd))
      /\ Closed /\ i - 1 = Len(sent)
  <2>1. Len(rcvd) \in Nat /\ Len(sent) \in Nat /\ Len(headLog) = Len(sent) + 1
    BY Basics
  <2>2. ct = Word(Len(rcvd)) /\ Closed /\ cSeen.head = Len(headLog)
    BY DEF RecheckHead, ConsumerInv
  <2>3. i \in cSeen.head .. Len(headLog)
    BY DEF RecheckHead
  <2> QED  BY <2>1, <2>2, <2>3
<1>3. \/ cpc' = "idle" /\ ended' = TRUE /\ Len(rcvd) = Len(sent)
      \/ cpc' = "head" /\ ended' = ended
  <2>1. CASE headLog[i].val = ct
    <3>1. Word(Len(sent)) = Word(Len(rcvd))
      BY <1>1, <1>2, <2>1
    <3>2. Len(sent) - Len(rcvd) \in 0 .. Capacity
      BY DEF RingInv
    <3>3. Len(rcvd) = Len(sent)
      BY <1>2, <3>1, <3>2, SameWord
    <3> QED  BY <2>1, <3>3 DEF RecheckHead
  <2>2. CASE headLog[i].val # ct
    BY <2>2 DEF RecheckHead
  <2> QED  BY <2>1, <2>2
<1>4. TypeOK'
  BY <1>1, <1>3 DEF RecheckHead, TypeOK, producerVars
<1>5. ConsumerInv'
  BY <1>1, <1>2, <1>3 DEF RecheckHead, ConsumerInv, producerVars, Closed
<1>6. LogInv' /\ ProducerInv'
  BY DEF RecheckHead, LogInv, ProducerInv, producerVars, Closed
<1>7. RingInv' /\ DeliveredInOrder'
  BY <1>3 DEF RecheckHead, RingInv, DeliveredInOrder, producerVars
<1>8. FalseMeansDrained'
  BY <1>2, <1>3 DEF RecheckHead, FalseMeansDrained, producerVars, Closed
<1> QED  BY <1>4, <1>5, <1>6, <1>7, <1>8

---------------------------------------------------------------------------
(* Every step of either thread preserves the inductive invariant.          *)
LEMMA NextInd == IndInv /\ [Next]_vars => IndInv'
<1> SUFFICES ASSUME IndInv, [Next]_vars PROVE IndInv'
  OBVIOUS
<1>1. CASE UNCHANGED vars
  <2> USE <1>1 DEF vars, producerVars, consumerVars
  <2>1. TypeOK'
    BY DEF IndInv, TypeOK
  <2>2. LogInv' /\ ProducerInv' /\ ConsumerInv'
    BY DEF IndInv, LogInv, ProducerInv, ConsumerInv, Closed
  <2>3. RingInv' /\ DeliveredInOrder' /\ FalseMeansDrained'
    BY DEF IndInv, RingInv, DeliveredInOrder, FalseMeansDrained, Closed
  <2> QED  BY <2>1, <2>2, <2>3 DEF IndInv
<1>2. CASE ProducerNext
  BY <1>2, EnqueueCallInd, LoadTailInd, FillSlotInd, PublishHeadInd, SendEofInd
     DEF ProducerNext
<1>3. CASE ConsumerNext
  BY <1>3, DequeueCallInd, LoadHeadInd, CopySlotInd, PublishTailInd, LoadEofInd,
     RecheckHeadInd DEF ConsumerNext
<1> QED  BY <1>1, <1>2, <1>3 DEF Next

(* The inductive invariant holds in every state of every behaviour. *)
THEOREM Invariance == Spec => []IndInv
<1> QED  BY InitInd, NextInd, PTL DEF Spec

(* The queue's state, its threads' places and views, and the history keep  *)
(* their types, in particular head, tail, h and t stay size_t words.       *)
THEOREM TypeCorrect == Spec => []TypeOK
<1>1. IndInv => TypeOK
  BY DEF IndInv
<1> QED  BY <1>1, Invariance, PTL

(* No step of dswp_enqueue overwrites, and no step of dswp_dequeue reads,  *)
(* a slot whose last conflicting access it has not synchronised with.      *)
THEOREM NoDataRace == Spec => []DataRaceFree
<1>1. IndInv => DataRaceFree
  <2> SUFFICES ASSUME IndInv PROVE DataRaceFree
    OBVIOUS
  <2>1. Len(sent) \in Nat /\ Len(rcvd) \in Nat
    BY DEF IndInv, TypeOK
  <2>2. ASSUME ppc = "fill"  PROVE buffer[SlotOf(ph)].r <= pSeen.reads
    <3> DEFINE last == buffer[SlotOf(ph)].r
    <3>1. SlotOf(ph) = SlotOf(Len(sent)) /\ SlotOf(ph) \in Slots
      BY <2>1, <2>2, WordFacts DEF IndInv, ProducerInv
    <3>2. last \in Nat /\ pSeen.reads \in Nat
      BY <3>1 DEF IndInv, TypeOK, SlotStates
    <3>3. last <= copied /\ (last > 0 => SlotOf(last - 1) = SlotOf(Len(sent)))
      BY <3>1 DEF IndInv, RingInv
    <3>4. Len(sent) - pSeen.reads < Capacity
      BY <2>2 DEF IndInv, ProducerInv
    <3>5. copied <= Len(sent)
      <4>1. cSeen.writes <= Len(sent) /\ Len(rcvd) <= cSeen.writes
        BY <2>1 DEF IndInv, TypeOK, LogInv, ConsumerInv
      <4>2. cpc = "publish" => Len(rcvd) + 1 <= Len(sent)
        BY <2>1, <4>1 DEF IndInv, TypeOK, ConsumerInv
      <4> QED  BY <2>1, <4>1, <4>2 DEF IndInv, TypeOK, ConsumerInv
    <3> HIDE DEF last
    <3>6. SUFFICES ASSUME last > pSeen.reads  PROVE FALSE
      BY <3>2 DEF last
    <3>7. last - 1 \in Nat /\ Len(sent) - (last - 1) \in 0 .. Capacity - 1
      BY <2>1, <3>2, <3>3, <3>4, <3>5, <3>6, Sizes DEF IndInv, TypeOK
    <3>8. Len(sent) = last - 1
      BY <2>1, <3>2, <3>3, <3>6, <3>7, SameSlot
    <3> QED  BY <2>1, <3>2, <3>3, <3>5, <3>8 DEF IndInv, TypeOK
  <2>3. ASSUME cpc = "copy"  PROVE buffer[SlotOf(ct)].w <= cSeen.writes
    <3>1. SlotOf(ct) = SlotOf(Len(rcvd))
      BY <2>1, <2>3, WordFacts DEF IndInv, ConsumerInv
    <3>2. cSeen.writes \in Nat /\ Len(rcvd) < cSeen.writes /\ cSeen.writes <= Len(sent)
      <4>1. cSeen.writes = cSeen.head - 1 /\ cSeen.head <= Len(headLog)
        BY DEF IndInv, ConsumerInv, LogInv, TypeOK
      <4> QED  BY <2>1, <2>3, <4>1 DEF IndInv, TypeOK, LogInv, ConsumerInv
    <3>3. Len(rcvd) + 1 \in Len(rcvd) + 1 .. Len(sent) /\ (Len(rcvd) + 1) - 1 = Len(rcvd)
      BY <2>1, <3>2
    <3>4. buffer[SlotOf((Len(rcvd) + 1) - 1)].w = Len(rcvd) + 1
      BY <3>3 DEF IndInv, RingInv
    <3> QED  BY <2>1, <3>1, <3>2, <3>3, <3>4
  <2> QED  BY <2>2, <2>3 DEF DataRaceFree
<1> QED  BY <1>1, Invariance, PTL

(* The values returned by dswp_dequeue are the values given to             *)
(* dswp_enqueue, in order and each once.                                   *)
THEOREM Delivery == Spec => []DeliveredInOrder
<1>1. IndInv => DeliveredInOrder
  BY DEF IndInv
<1> QED  BY <1>1, Invariance, PTL

(* dswp_dequeue returns false only when EOF was sent and nothing is left.  *)
THEOREM EndOfStream == Spec => []FalseMeansDrained
<1>1. IndInv => FalseMeansDrained
  BY DEF IndInv
<1> QED  BY <1>1, Invariance, PTL

---------------------------------------------------------------------------
(* Every step of the ring buffer is a step of the channel or leaves it     *)
(* alone: publishing head sends, publishing tail receives, the EOF store   *)
(* closes, and returning false ends the stream.                            *)
(* Storing head is the channel's Send. *)
LEMMA PublishHeadSends ==
  ASSUME IndInv, IndInv', PublishHead
  PROVE  Channel!Send(pval)
<1>1. /\ Len(sent) \in Nat /\ Len(rcvd) \in Nat /\ ~Closed
      /\ pSeen.reads \in Nat /\ pSeen.reads <= Len(rcvd)
      /\ Len(sent) - pSeen.reads < Capacity
  <2>1. Len(sent) \in Nat /\ Len(rcvd) \in Nat /\ pSeen.reads \in Nat
    BY Basics
  <2>2. /\ Len(tailLog) = Len(rcvd) + 1 /\ pSeen.tail \in 1 .. Len(tailLog)
        /\ pSeen.reads = pSeen.tail - 1
    BY DEF IndInv, LogInv, ProducerInv
  <2>3. ~Closed /\ Len(sent) - pSeen.reads < Capacity
    BY DEF PublishHead, IndInv, ProducerInv
  <2> QED  BY <2>1, <2>2, <2>3
<1>2. Len(sent) - Len(rcvd) < Capacity
  BY <1>1, Sizes
<1>3. Closed' = Closed
  BY DEF PublishHead, Closed
<1> QED  BY <1>1, <1>2, <1>3 DEF PublishHead, consumerVars, Channel!Send

(* Storing tail is the channel's Receive. *)
LEMMA PublishTailReceives ==
  ASSUME IndInv, IndInv', PublishTail
  PROVE  Channel!Receive
<1>1. Len(sent) \in Nat /\ Len(rcvd) \in Nat /\ out = sent[Len(rcvd) + 1]
  BY Basics DEF PublishTail, IndInv, RingInv
<1>2. Len(rcvd) < Len(sent)
  <2>1. sent' = sent /\ rcvd' = Append(rcvd, out)
    BY DEF PublishTail, producerVars
  <2>2. Len(rcvd') = Len(rcvd) + 1 /\ Len(rcvd') <= Len(sent')
    BY <2>1 DEF IndInv, TypeOK, DeliveredInOrder
  <2> QED  BY <1>1, <2>1, <2>2
<1> QED  BY <1>1, <1>2 DEF PublishTail, producerVars, Closed, Channel!Receive

(* Returning false is the channel's ReceiveEnd; the other outcomes of the second
   load of head leave the channel as it is. *)
LEMMA RecheckHeadEnds ==
  ASSUME IndInv, IndInv', NEW i \in 1 .. Len(headLog), RecheckHead(i)
  PROVE  Channel!ReceiveEnd \/ UNCHANGED Channel!chanVars
<1>1. sent' = sent /\ rcvd' = rcvd /\ Closed' = Closed
  BY DEF RecheckHead, producerVars, Closed
<1>2. ended' = TRUE \/ ended' = ended
  BY DEF RecheckHead
<1>3. CASE ended' = TRUE
  <2>1. Closed' /\ Len(rcvd') = Len(sent')
    BY <1>3 DEF IndInv, FalseMeansDrained
  <2> QED  BY <1>1, <1>3, <2>1 DEF Channel!ReceiveEnd
<1>4. CASE ended' = ended
  BY <1>1, <1>4 DEF Channel!chanVars
<1> QED  BY <1>2, <1>3, <1>4

(* Every step of the queue is a step of the channel or a stutter. *)
LEMMA StepSimulation ==
  ASSUME IndInv, IndInv', [Next]_vars
  PROVE  [Channel!Next]_(Channel!chanVars)
<1>1. CASE UNCHANGED vars
  BY <1>1 DEF vars, producerVars, consumerVars, Closed, Channel!chanVars
<1>2. CASE ProducerNext
  <2>1. ASSUME NEW v \in Values, EnqueueCall(v)  PROVE UNCHANGED Channel!chanVars
    BY <2>1 DEF EnqueueCall, consumerVars, Closed, Channel!chanVars
  <2>2. ASSUME NEW i \in 1 .. Len(tailLog), LoadTail(i)  PROVE UNCHANGED Channel!chanVars
    BY <2>2 DEF LoadTail, consumerVars, Closed, Channel!chanVars
  <2>3. CASE FillSlot
    BY <2>3 DEF FillSlot, consumerVars, Closed, Channel!chanVars
  <2>4. CASE PublishHead
    <3>1. pval \in Values
      BY DEF IndInv, TypeOK
    <3> QED  BY <2>4, <3>1, PublishHeadSends DEF Channel!Next
  <2>5. CASE SendEof
    <3> DEFINE e == [val |-> TRUE, head |-> Len(headLog), writes |-> written]
    <3>1. Closed' = TRUE
      <4>1. eofLog \in Seq(EofStores) /\ Len(eofLog) >= 1
        BY Basics
      <4>2. eofLog' = Append(eofLog, e)
        BY <2>5 DEF SendEof
      <4> HIDE DEF e
      <4>3. Len(eofLog') = Len(eofLog) + 1
        BY <4>1, <4>2
      <4>4. Len(eofLog') > 1
        BY <4>1, <4>3
      <4> QED  BY <4>4 DEF Closed
    <3> QED  BY <2>5, <3>1 DEF SendEof, consumerVars, Channel!Close, Channel!Next
  <2> QED  BY <1>2, <2>1, <2>2, <2>3, <2>4, <2>5 DEF ProducerNext
<1>3. CASE ConsumerNext
  <2>1. CASE DequeueCall
    BY <2>1 DEF DequeueCall, producerVars, Closed, Channel!chanVars
  <2>2. ASSUME NEW i \in 1 .. Len(headLog), LoadHead(i)  PROVE UNCHANGED Channel!chanVars
    BY <2>2 DEF LoadHead, producerVars, Closed, Channel!chanVars
  <2>3. CASE CopySlot
    BY <2>3 DEF CopySlot, producerVars, Closed, Channel!chanVars
  <2>4. CASE PublishTail
    BY <2>4, PublishTailReceives DEF Channel!Next
  <2>5. ASSUME NEW i \in 1 .. Len(eofLog), LoadEof(i)  PROVE UNCHANGED Channel!chanVars
    BY <2>5 DEF LoadEof, producerVars, Closed, Channel!chanVars
  <2>6. ASSUME NEW i \in 1 .. Len(headLog), RecheckHead(i)
        PROVE  Channel!ReceiveEnd \/ UNCHANGED Channel!chanVars
    BY <2>6, RecheckHeadEnds
  <2> QED  BY <1>3, <2>1, <2>2, <2>3, <2>4, <2>5, <2>6 DEF ConsumerNext, Channel!Next
<1> QED  BY <1>1, <1>2, <1>3 DEF Next

(* The queue implements the bounded channel, for every capacity and word   *)
(* width: its clients may be reasoned about with BoundedChannel alone.     *)
THEOREM Refinement == Spec => ImplementsChannel
<1>1. Init => Channel!Init
  BY DEF Init, Closed, Channel!Init
<1>2. IndInv /\ IndInv' /\ [Next]_vars => [Channel!Next]_(Channel!chanVars)
  BY StepSimulation
<1> QED  BY <1>1, <1>2, Invariance, PTL DEF Spec, ImplementsChannel, Channel!Spec

---------------------------------------------------------------------------
(* The creation of a queue: powers of two and size_t. *)

(* size_t is wide enough for a cache line's size. *)
LEMMA Width == W \in Nat /\ W >= 7 /\ 2 ^ W \in Nat \ {0}
<1>1. W \in Nat /\ 2 ^ 6 < 2 ^ W
  BY WidthAssumption DEF CacheLine
<1>2. 6 < W
  BY <1>1, Exponents
<1>3. 2 ^ W \in Nat \ {0}
  BY <1>1, PowersOfTwoStep
<1> QED  BY <1>1, <1>2, <1>3

LEMMA WordOfSmall == \A x \in SizeT : SizeWord(x) = x
  BY Width, SmallRemainder DEF SizeT, SizeWord

LEMMA WordIsSizeT == \A x \in Int : SizeWord(x) \in SizeT
  BY Width, DivisionDef DEF SizeT, SizeWord

---------------------------------------------------------------------------
(* The inductive invariant. *)

(* The accumulator is a power of two that the request asks for; or the     *)
(* shift has pushed its bit out, and the loop does not end.                *)
RoundingInv ==
  \/ p = 0 /\ request > 0 /\ pc = "round"
  \/ \E k \in 3 .. W - 1 :
       /\ p = 2 ^ k
       /\ k = 3 \/ 2 ^ (k - 1) < request
       /\ pc # "round" => request <= p

HeapInv ==
  heap = CASE pc = "buffer" -> {"struct"}
           [] pc = "ready" -> {"struct", "buffer"}
           [] OTHER -> {}

CreateInv ==
  /\ CreateTypeOK /\ RoundingInv /\ HeapInv
  /\ pc = "ready" => bytes = RoundUp(SizeWord(SlotBytes * p), CacheLine)

(* The size of the buffer is a whole number of cache lines. *)
LEMMA RoundUpType ==
  ASSUME NEW v \in Int
  PROVE  RoundUp(v, CacheLine) \in SizeT
<1> DEFINE u == SizeWord(v + CacheLine - 1)
<1>1. u \in SizeT
  BY WordIsSizeT DEF CacheLine
<1> HIDE DEF u
<1>2. u \in Nat /\ u < 2 ^ W
  BY <1>1, Width DEF SizeT
<1>3. u % CacheLine \in 0 .. 63
  BY <1>2 DEF CacheLine
<1>4. u % CacheLine <= u
  BY <1>2 DEF CacheLine
<1>5. u - (u % CacheLine) \in 0 .. 2 ^ W - 1
  <2> DEFINE r == u % CacheLine
             m == 2 ^ W
  <2>1. r \in 0 .. 63 /\ r <= u /\ m \in Nat /\ u < m
    BY <1>2, <1>3, <1>4, Width
  <2> HIDE DEF r, m
  <2>2. u - r \in 0 .. m - 1
    BY <1>2, <2>1
  <2> QED  BY <2>2 DEF r, m
<1> QED  BY <1>5 DEF RoundUp, SizeT, u

LEMMA CreateInit == InitCreate => CreateInv
<1> SUFFICES ASSUME InitCreate PROVE CreateInv
  OBVIOUS
<1>1. /\ pc = "round" /\ request \in SizeT /\ p = 8 /\ bytes = 0 /\ heap = {}
  BY DEF InitCreate, MinCapacity
<1>2. p \in SizeT /\ bytes \in SizeT /\ request \in SizeT
  <2>1. 64 < 2 ^ W
    BY WidthAssumption DEF CacheLine
  <2> DEFINE m == 2 ^ W
  <2>2. m \in Nat /\ 64 < m
    BY <2>1, Width
  <2> HIDE DEF m
  <2>3. 8 \in 0 .. m - 1 /\ 0 \in 0 .. m - 1
    BY <1>1, <2>2
  <2> QED  BY <1>1, <2>3 DEF SizeT, m
<1>3. CreateTypeOK
  BY <1>1, <1>2 DEF CreateTypeOK
<1>4. RoundingInv
  <2>1. 3 \in 3 .. W - 1 /\ 8 = 2 ^ 3
    BY Width
  <2> QED  BY <1>1, <2>1 DEF RoundingInv
<1> QED  BY <1>1, <1>3, <1>4 DEF CreateInv, HeapInv

LEMMA DoubleStep == CreateInv /\ Double => CreateInv'
<1> SUFFICES ASSUME CreateInv, Double PROVE CreateInv'
  OBVIOUS
<1>1. /\ pc = "round" /\ p < request /\ p' = SizeWord(2 * p) /\ UNCHANGED <<pc, request, bytes, heap>>
      /\ p \in SizeT /\ request \in SizeT
  BY DEF Double, Continues, CreateInv, CreateTypeOK
<1>2. p \in Nat /\ request \in Nat /\ request > 0
  BY <1>1, Width DEF SizeT
<1>3. p' \in SizeT
  BY <1>1, <1>2, WordIsSizeT
<1>4. RoundingInv'
  <2>1. CASE p = 0
    <3>1. SizeWord(2 * p) = 0
      <4>1. 2 * p = 0 /\ 0 \in SizeT
        BY <2>1, Width DEF SizeT
      <4> QED  BY <4>1, WordOfSmall
    <3> QED  BY <1>1, <1>2, <3>1 DEF RoundingInv
  <2>2. CASE p # 0
    <3>1. PICK k \in 3 .. W - 1 : p = 2 ^ k
      BY <2>2 DEF CreateInv, RoundingInv
    <3>2. k \in Nat /\ k + 1 \in Nat /\ k + 1 <= W /\ 2 ^ (k + 1) = 2 * p
      <4>1. k \in Nat /\ k + 1 \in Nat /\ k + 1 <= W
        BY Width
      <4> QED  BY <3>1, <4>1, PowersOfTwoStep
    <3>3. CASE k + 1 = W
      <4>1. 2 * p = 2 ^ W
        BY <3>2, <3>3
      <4>2. p' = 0
        <5> DEFINE m == 2 ^ W
        <5>1. m \in Nat \ {0} /\ p' = m % m
          BY <1>1, <4>1, Width DEF SizeWord
        <5> HIDE DEF m
        <5>2. (1 * m + 0) % m = 0 /\ 1 * m + 0 = m
          BY <5>1, DivisionUnique
        <5> QED  BY <5>1, <5>2
      <4> QED  BY <1>1, <1>2, <4>2 DEF RoundingInv
    <3>4. CASE k + 1 < W
      <4>1. 2 ^ (k + 1) < 2 ^ W
        <5>1. 2 ^ (k + 2) <= 2 ^ W
          BY <3>2, <3>4, Width, PowersGrow
        <5> DEFINE a == 2 ^ (k + 1)
                   b == 2 ^ (k + 1 + 1)
                   m == 2 ^ W
        <5>2. k + 1 + 1 = k + 2
          BY <3>2
        <5>3. a \in Nat \ {0} /\ b = 2 * a /\ b <= m /\ m \in Nat
          BY <3>2, <5>1, <5>2, PowersOfTwoStep, Width
        <5> HIDE DEF a, b, m
        <5>4. a < m
          BY <5>3
        <5> QED  BY <5>4 DEF a, m
      <4>2. p' = 2 ^ (k + 1)
        <5> DEFINE a == 2 ^ (k + 1)
                   m == 2 ^ W
        <5>1. a \in Nat /\ a < m /\ m \in Nat
          BY <3>2, <4>1, PowersOfTwoStep, Width
        <5> HIDE DEF a, m
        <5>2. a \in 0 .. m - 1
          BY <5>1
        <5>3. SizeWord(a) = a
          BY <5>2, WordOfSmall DEF SizeT, m
        <5> QED  BY <1>1, <3>2, <5>3 DEF a
      <4>3. k + 1 \in 3 .. W - 1 /\ k + 1 - 1 = k
        BY <3>2, <3>4, Width
      <4>4. 2 ^ (k + 1 - 1) < request
        BY <1>1, <3>1, <4>3
      <4> QED  BY <1>1, <4>2, <4>3, <4>4 DEF RoundingInv
    <3> QED  BY <3>2, <3>3, <3>4, Width
  <2> QED  BY <2>1, <2>2
<1> QED  BY <1>1, <1>3, <1>4 DEF CreateInv, CreateTypeOK, HeapInv

LEMMA OtherSteps ==
  CreateInv /\ (Rounded \/ AllocStruct \/ AllocBuffer \/ Destroy \/ UNCHANGED createVars) => CreateInv'
<1> SUFFICES ASSUME CreateInv, Rounded \/ AllocStruct \/ AllocBuffer \/ Destroy \/ UNCHANGED createVars
             PROVE  CreateInv'
  OBVIOUS
<1>1. UNCHANGED <<request, p>>
  BY DEF Rounded, AllocStruct, AllocBuffer, Destroy, createVars
<1>2. pc' # "round" => request <= p
  <2>1. CASE pc = "round"
    <3>1. pc' = "round" \/ ~(p < request)
      BY <2>1 DEF Rounded, Continues, AllocStruct, AllocBuffer, Destroy, createVars
    <3>2. p \in Int /\ request \in Int
      BY Width DEF CreateInv, CreateTypeOK, SizeT
    <3> QED  BY <3>1, <3>2
  <2>2. CASE pc # "round"
    BY <2>2 DEF CreateInv, RoundingInv
  <2> QED  BY <2>1, <2>2
<1>3. RoundingInv'
  <2>1. CASE p = 0 /\ request > 0 /\ pc = "round"
    <3>1. pc' = "round"
      <4>1. p \in Int /\ request \in Int
        BY Width DEF CreateInv, CreateTypeOK, SizeT
      <4>2. ~(request <= p)
        BY <2>1, <4>1
      <4> QED  BY <1>2, <4>2
    <3> QED  BY <1>1, <2>1, <3>1 DEF RoundingInv
  <2>2. CASE \E k \in 3 .. W - 1 : p = 2 ^ k /\ (k = 3 \/ 2 ^ (k - 1) < request)
    <3>1. PICK k \in 3 .. W - 1 : p = 2 ^ k /\ (k = 3 \/ 2 ^ (k - 1) < request)
      BY <2>2
    <3> QED  BY <1>1, <1>2, <3>1 DEF RoundingInv
  <2> QED  BY <2>1, <2>2 DEF CreateInv, RoundingInv
<1>4. bytes' \in SizeT /\ (pc' = "ready" => bytes' = RoundUp(SizeWord(SlotBytes * p), CacheLine))
  <2>1. CASE AllocBuffer
    <3>1. bytes' = RoundUp(SizeWord(SlotBytes * p), CacheLine)
      BY <2>1 DEF AllocBuffer
    <3>2. SlotBytes * p \in Int
      BY Width DEF SlotBytes, CreateInv, CreateTypeOK, SizeT
    <3>3. SizeWord(SlotBytes * p) \in Int
      BY <3>2, Width, WordIsSizeT DEF SizeT
    <3> QED  BY <3>1, <3>3, RoundUpType
  <2>2. CASE ~AllocBuffer
    <3>1. bytes' = bytes /\ (pc' = "ready" => pc = "ready")
      BY <2>2 DEF Rounded, AllocStruct, Destroy, createVars
    <3> QED  BY <3>1 DEF CreateInv, CreateTypeOK
  <2> QED  BY <2>1, <2>2
<1>5. HeapInv' /\ pc' \in {"round", "struct", "buffer", "null", "ready", "freed"}
  <2>1. /\ pc \in {"round", "struct", "buffer", "null", "ready", "freed"}
        /\ pc = "buffer" => heap = {"struct"}
        /\ pc = "ready" => heap = {"struct", "buffer"}
        /\ pc \notin {"buffer", "ready"} => heap = {}
    BY DEF CreateInv, CreateTypeOK, HeapInv
  <2>2. CASE Rounded \/ UNCHANGED createVars
    BY <2>1, <2>2 DEF Rounded, createVars, HeapInv
  <2>3. CASE AllocStruct
    BY <2>1, <2>3 DEF AllocStruct, HeapInv
  <2>4. CASE AllocBuffer
    BY <2>1, <2>4 DEF AllocBuffer, HeapInv
  <2>5. CASE Destroy
    BY <2>1, <2>5 DEF Destroy, HeapInv
  <2> QED  BY <2>2, <2>3, <2>4, <2>5
<1>6. heap' \subseteq {"struct", "buffer"}
  BY <1>5 DEF HeapInv
<1> QED  BY <1>1, <1>3, <1>4, <1>5, <1>6 DEF CreateInv, CreateTypeOK

LEMMA CreateInvariance == SpecCreate => []CreateInv
<1>1. CreateInv /\ [NextCreate]_createVars => CreateInv'
  BY DoubleStep, OtherSteps DEF NextCreate, Freed
<1> QED  BY <1>1, CreateInit, PTL DEF SpecCreate

---------------------------------------------------------------------------
(* The theorems. *)

(* The blocks of the queue are there when it is, and gone when it is       *)
(* destroyed or could not be made.                                         *)
THEOREM BlocksAreFreed == SpecCreate => []NothingLeaks
<1>1. CreateInv => NothingLeaks
  BY DEF CreateInv, HeapInv, NothingLeaks
<1> QED  BY <1>1, CreateInvariance, PTL

(* A queue that is made has the least capacity that is a power of two, at  *)
(* least 8 and at least the one requested, whatever that is.               *)
THEOREM CapacityIsLeast == SpecCreate => []CapacityIsNextPowerOfTwo
<1>1. CreateInv => CapacityIsNextPowerOfTwo
  <2> SUFFICES ASSUME CreateInv, pc = "ready" PROVE CapacityIsNextPowerOfTwo
    BY DEF CapacityIsNextPowerOfTwo
  <2>1. PICK k \in 3 .. W - 1 : p = 2 ^ k /\ (k = 3 \/ 2 ^ (k - 1) < request) /\ request <= p
    BY DEF CreateInv, RoundingInv
  <2>2. p \in Int /\ request \in Int
    BY Width DEF CreateInv, CreateTypeOK, SizeT
  <2>3. p \in PowersOfTwo
    <3>1. k \in 0 .. W - 1
      BY Width
    <3> QED  BY <2>1, <3>1 DEF PowersOfTwo
  <2>4. ASSUME NEW q \in PowersOfTwo, q >= MinCapacity, q >= request PROVE p <= q
    <3>1. PICK j \in 0 .. W - 1 : q = 2 ^ j
      BY DEF PowersOfTwo
    <3>2. j \in Nat /\ k \in Nat /\ k - 1 \in Nat
      BY Width
    <3>3. q \in Int /\ 2 ^ (k - 1) \in Int
      BY <3>1, <3>2, PowersOfTwoStep
    <3>4. CASE k = 3
      <4>1. p = 8
        BY <2>1, <3>4
      <4> QED  BY <2>4, <3>3, <4>1 DEF MinCapacity
    <3>5. CASE 2 ^ (k - 1) < request
      <4>1. 2 ^ (k - 1) < q
        <5> DEFINE a == 2 ^ (k - 1)
        <5>1. a \in Int /\ a < request
          BY <3>3, <3>5
        <5> HIDE DEF a
        <5>2. a < q
          BY <2>2, <2>4, <3>3, <5>1
        <5> QED  BY <5>2 DEF a
      <4>2. k - 1 < j
        BY <3>1, <3>2, <4>1, Exponents
      <4>3. k <= j
        BY <3>2, <4>2
      <4> QED  BY <2>1, <3>1, <3>2, <4>3, PowersGrow
    <3> QED  BY <2>1, <3>4, <3>5
  <2>5. p >= MinCapacity
    <3>1. 3 \in Nat /\ k \in Nat /\ 3 <= k
      BY Width
    <3>2. 2 ^ 3 <= 2 ^ k
      BY <3>1, PowersGrow
    <3>3. 8 <= p
      BY <2>1, <3>2
    <3> QED  BY <2>2, <3>3 DEF MinCapacity
  <2>6. p >= request
    BY <2>1, <2>2
  <2> QED  BY <2>3, <2>4, <2>5, <2>6 DEF CapacityIsNextPowerOfTwo
<1> QED  BY <1>1, CreateInvariance, PTL

(* Up to requests of a sixteenth of the address space the computation of  *)
(* the buffer's size does not overflow.                                    *)
LEMMA SmallRingsFit ==
  ASSUME CreateInv, pc = "ready", request <= 2 ^ (W - 4)
  PROVE  bytes >= SlotBytes * p
<1>1. PICK k \in 3 .. W - 1 : p = 2 ^ k /\ (k = 3 \/ 2 ^ (k - 1) < request)
  BY DEF CreateInv, RoundingInv
<1>2. k \in Nat /\ k - 1 \in Nat /\ W - 4 \in Nat /\ W - 1 \in Nat
  BY Width
<1>3. k <= W - 4
  <2>1. CASE k = 3
    BY <2>1, Width
  <2>2. CASE 2 ^ (k - 1) < request
    <3>1. 2 ^ (k - 1) < 2 ^ (W - 4)
      <4> DEFINE a == 2 ^ (k - 1)
                 b == 2 ^ (W - 4)
                 m == 2 ^ W
      <4>1. a \in Nat /\ b \in Nat /\ a < request /\ request <= b /\ m \in Nat
            /\ request \in 0 .. m - 1
        BY <1>2, <2>2, PowersOfTwoStep, Width DEF CreateInv, CreateTypeOK, SizeT
      <4> HIDE DEF a, b, m
      <4>2. a < b
        BY <4>1
      <4> QED  BY <4>2 DEF a, b
    <3>2. k - 1 < W - 4
      BY <1>2, <3>1, Exponents
    <3> QED  BY <1>2, <3>2
  <2> QED  BY <1>1, <2>1, <2>2
<1> DEFINE m == 2 ^ W
           h == 2 ^ (W - 1)
<1>4. m = 2 * h /\ h \in Nat /\ m \in Nat /\ 64 <= h
  <2>1. W - 1 + 1 = W
    BY Width
  <2>2. 64 <= 2 ^ (W - 1)
    <3>1. 6 \in Nat /\ W - 1 \in Nat /\ 6 <= W - 1
      BY Width
    <3>2. 2 ^ 6 <= 2 ^ (W - 1)
      BY <3>1, PowersGrow
    <3> QED  BY <3>2
  <2>3. 2 ^ (W - 1) \in Nat /\ 2 ^ (W - 1 + 1) = 2 * 2 ^ (W - 1)
    BY <1>2, PowersOfTwoStep
  <2> QED  BY <2>1, <2>2, <2>3, Width
<1>5. p \in Nat /\ 8 * p <= h
  <2>1. 2 ^ k \in Nat /\ 2 ^ (k + 1) = 2 * 2 ^ k
    BY <1>2, PowersOfTwoStep
  <2>2. 2 ^ (k + 1 + 1) = 2 * 2 ^ (k + 1)
    BY <1>2, PowersOfTwoStep
  <2>3. 2 ^ (k + 2 + 1) = 2 * 2 ^ (k + 2)
    BY <1>2, PowersOfTwoStep
  <2>4. k + 1 + 1 = k + 2 /\ k + 2 + 1 = k + 3 /\ k + 3 \in Nat /\ k + 3 <= W - 1
    BY <1>2, <1>3, Width
  <2>5. 2 ^ (k + 3) <= h
    BY <1>2, <2>4, PowersGrow
  <2> DEFINE a == 2 ^ k
             b == 2 ^ (k + 1)
             c == 2 ^ (k + 2)
             d == 2 ^ (k + 3)
  <2>6. a \in Nat /\ b = 2 * a /\ c = 2 * b /\ d = 2 * c /\ d <= h /\ p = a
    BY <1>1, <2>1, <2>2, <2>3, <2>4, <2>5
  <2> HIDE DEF a, b, c, d, h
  <2> QED  BY <2>6
<1>6. \A x \in 0 .. m - 1 : SizeWord(x) = x
  BY WordOfSmall DEF SizeT
<1> HIDE DEF m, h
<1>7. SizeWord(SlotBytes * p) = 8 * p
  <2>1. 8 * p \in 0 .. m - 1
    BY <1>4, <1>5
  <2> QED  BY <1>6, <2>1 DEF SlotBytes
<1> DEFINE u == 8 * p + 64 - 1
<1>8. u \in 0 .. m - 1 /\ u \in Nat
  BY <1>4, <1>5
<1>9. SizeWord(u) = u
  BY <1>6, <1>8
<1>10. bytes = u - (u % 64)
  BY <1>7, <1>9 DEF CreateInv, RoundUp, CacheLine
<1>11. u % 64 \in 0 .. 63
  <2> HIDE DEF u
  <2> QED  BY <1>8
<1>12. u - (u % 64) >= 8 * p
  <2> DEFINE r == u % 64
  <2>1. r \in 0 .. 63
    BY <1>11
  <2> HIDE DEF r
  <2>2. u - r >= 8 * p
    BY <1>5, <2>1
  <2> QED  BY <2>2 DEF r
<1> QED  BY <1>10, <1>12 DEF SlotBytes

(* Above, the capacity's eightfold is a multiple of 2^W: nothing is left of *)
(* the size.                                                               *)
LEMMA LargeRingsWrap ==
  ASSUME CreateInv, pc = "ready", ~(request <= 2 ^ (W - 4))
  PROVE  ~(bytes >= SlotBytes * p)
<1>1. PICK k \in 3 .. W - 1 : p = 2 ^ k /\ request <= p
  BY DEF CreateInv, RoundingInv
<1>2. k \in Nat /\ W - 4 \in Nat /\ W \in Nat
  BY Width
<1>3. W - 4 < k
  <2>1. 2 ^ (W - 4) < 2 ^ k
    <3> DEFINE a == 2 ^ k
               b == 2 ^ (W - 4)
               m == 2 ^ W
    <3>1. a \in Nat /\ b \in Nat /\ request <= a /\ ~(request <= b) /\ m \in Nat /\ request \in 0 .. m - 1
      BY <1>1, <1>2, PowersOfTwoStep, Width DEF CreateInv, CreateTypeOK, SizeT
    <3> HIDE DEF a, b, m
    <3>2. b < a
      BY <3>1
    <3> QED  BY <3>2 DEF a, b
  <2> QED  BY <1>2, <2>1, Exponents
<1>4. k + 3 = W \/ k + 3 = W + 1 \/ k + 3 = W + 2
  BY <1>2, <1>3
<1> DEFINE m == 2 ^ W
<1>5. m \in Nat \ {0} /\ 2 ^ (W + 1) = 2 * m /\ 2 ^ (W + 2) = 4 * m
  <2>1. 2 ^ (W + 1) = 2 * 2 ^ W
    BY <1>2, PowersOfTwoStep
  <2>2. W + 1 \in Nat /\ W + 1 + 1 = W + 2
    BY <1>2
  <2>3. 2 ^ (W + 2) = 2 * 2 ^ (W + 1)
    BY <2>2, PowersOfTwoStep
  <2>4. 2 ^ W \in Nat \ {0}
    BY Width
  <2> DEFINE b == 2 ^ (W + 1)
             c == 2 ^ (W + 2)
  <2> HIDE DEF m, b, c
  <2>5. m \in Nat \ {0} /\ b = 2 * m /\ c = 2 * b
    BY <2>1, <2>3, <2>4 DEF m, b, c
  <2>6. b = 2 * m /\ c = 4 * m
    BY <2>5
  <2> QED  BY <2>5, <2>6 DEF b, c
<1>6. p \in Nat \ {0} /\ 8 * p = 2 ^ (k + 3)
  <2>1. 2 ^ k \in Nat \ {0} /\ 2 ^ (k + 1) = 2 * 2 ^ k
    BY <1>2, PowersOfTwoStep
  <2>2. 2 ^ (k + 1 + 1) = 2 * 2 ^ (k + 1)
    BY <1>2, PowersOfTwoStep
  <2>3. 2 ^ (k + 2 + 1) = 2 * 2 ^ (k + 2)
    BY <1>2, PowersOfTwoStep
  <2>4. k + 1 + 1 = k + 2 /\ k + 2 + 1 = k + 3
    BY <1>2
  <2> DEFINE a == 2 ^ k
             b == 2 ^ (k + 1)
             c == 2 ^ (k + 2)
             d == 2 ^ (k + 3)
  <2>5. a \in Nat \ {0} /\ b = 2 * a /\ c = 2 * b /\ d = 2 * c /\ p = a
    BY <1>1, <2>1, <2>2, <2>3, <2>4
  <2> HIDE DEF a, b, c, d
  <2>6. p \in Nat \ {0} /\ 8 * p = d
    BY <2>5
  <2> QED  BY <2>6 DEF d
<1>7. PICK t \in {1, 2, 4} : 8 * p = t * m
  <2> DEFINE d == 2 ^ (k + 3)
  <2>1. d = 2 ^ W \/ d = 2 ^ (W + 1) \/ d = 2 ^ (W + 2)
    BY <1>4
  <2>2. d = m \/ d = 2 * m \/ d = 4 * m
    BY <1>5, <2>1
  <2>3. 8 * p = d
    BY <1>6
  <2> HIDE DEF d, m
  <2> QED  BY <1>5, <2>2, <2>3
<1>8. SizeWord(SlotBytes * p) = 0
  <2> HIDE DEF m
  <2>1. t * m + 0 = t * m /\ t \in Int /\ 0 \in 0 .. m - 1
    BY <1>5
  <2>2. (t * m + 0) % m = 0
    BY <1>5, <2>1, DivisionUnique
  <2> QED  BY <1>7, <2>1, <2>2 DEF SizeWord, SlotBytes, m
<1>9. bytes = 0
  <2>1. 63 \in SizeT
    <3>1. 64 < 2 ^ W
      BY WidthAssumption DEF CacheLine
    <3> HIDE DEF m
    <3>2. m \in Nat /\ 64 < m
      BY <1>5, <3>1 DEF m
    <3>3. 63 \in 0 .. m - 1
      BY <3>2
    <3> QED  BY <3>3 DEF SizeT, m
  <2>2. SizeWord(0 + 64 - 1) = 63
    BY <2>1, WordOfSmall
  <2>3. bytes = 63 - (63 % 64)
    BY <1>8, <2>2 DEF CreateInv, RoundUp, CacheLine
  <2> QED  BY <2>3
<1> QED  BY <1>6, <1>9 DEF SlotBytes

(* The buffer has a slot for each index exactly up to requests of a        *)
(* sixteenth of the address space, for every width of size_t.              *)
THEOREM BufferIsLargeEnough == SpecCreate => []BufferHoldsRing
<1>1. CreateInv => BufferHoldsRing
  BY SmallRingsFit, LargeRingsWrap DEF BufferHoldsRing
<1> QED  BY <1>1, CreateInvariance, PTL
==============================================================================
