--------------------------- MODULE PipelineProofs ---------------------------
(***************************************************************************)
(* TLAPS proofs about Pipeline, for every number of stages, every set of   *)
(* cross edges between different stages, every capacity, every path and    *)
(* every pattern of failing creations.                                     *)
(***************************************************************************)
EXTENDS Pipeline, Arithmetic

---------------------------------------------------------------------------
(* The inductive invariant. *)

(* The driver's phases: queues exist before stages do, and are destroyed   *)
(* after the last one is done.                                             *)
DriverInv ==
  /\ dpc = "create" =>
       /\ \A s \in Stages : status[s] = "unborn"
       /\ \A e \in EdgeIds : IF e <= dnext THEN queue[e] \in {"open", "null"}
                                           ELSE queue[e] = "none"
  /\ dpc \in {"spawn", "join", "crashed"} => \A e \in EdgeIds : queue[e] \in {"open", "null"}
  /\ dpc = "spawn" => \A s \in Stages : status[s] = "unborn" <=> s >= dnext
  /\ dpc = "join" => \A s \in Stages : /\ status[s] # "unborn"
                                       /\ s < dnext => status[s] # "running"
  /\ dpc \in {"destroy", "returned"} => \A s \in Stages : status[s] \in {"done", "failed"}

(* A stage only runs while its queues are there.                           *)
HandleInv ==
  \A s \in Stages : status[s] = "running" =>
    \A e \in EdgeIds : s \in {Producer(e), Consumer(e)} => queue[e] \in {"open", "null"}

(* A stage that has not started has done nothing; one that is done has     *)
(* closed its queues and stored the live-out.                              *)
StageInv ==
  \A s \in Stages :
    /\ status[s] \in {"unborn", "failed"} => pos[s] = 1 /\ served[s] = 0
    /\ pos[s] > Len(path) =>
         \A e \in EdgeIds : e <= served[s] /\ Producer(e) = s => closed[e]
    /\ status[s] = "done" => /\ pos[s] > Len(path)
                             /\ \A e \in EdgeIds : Producer(e) = s => closed[e]
                             /\ s \in RetStages => ret = "value"

(* The stage s has made its call on e at the position p of the path.       *)
Passed(s, e, p) == p < pos[s] \/ (p = pos[s] /\ e <= served[s])

(* Only a producer that has left the loop closes its queue, and no null    *)
(* one.                                                                    *)
CloseInv ==
  \A e \in EdgeIds :
    closed[e] => pos[Producer(e)] > Len(path) /\ queue[e] \in {"open", "destroyed"}

(* The consumer has the first of the producer's values, which are in the   *)
(* order of the path.                                                      *)
OrderInv(e) ==
  /\ Len(rcvd[e]) <= Len(sent[e]) /\ Len(sent[e]) - Len(rcvd[e]) <= Capacity
  /\ \A k \in 1 .. Len(rcvd[e]) : rcvd[e][k] = sent[e][k]
  /\ \A j, k \in 1 .. Len(sent[e]) : j < k => sent[e][j] < sent[e][k]

Has(q, p) == \E k \in 1 .. Len(q) : q[k] = p

(* Both ends of an edge have the positions they passed at which its value  *)
(* is computed.                                                            *)
SentInv(e) ==
  \A p \in 1 .. Len(path) :
    Has(sent[e], p) <=> path[p] = Edges[e].prod /\ Passed(Producer(e), e, p)
RcvdInv(e) ==
  \A p \in 1 .. Len(path) :
    Has(rcvd[e], p) <=> path[p] = Edges[e].prod /\ Passed(Consumer(e), e, p)

(* While the consumer stands at such a position, its slot holds the value. *)
SlotInv(e) ==
  LET p == pos[Consumer(e)] IN
    p <= Len(path) /\ path[p] = Edges[e].prod /\ e <= served[Consumer(e)] => slot[e] = p

EdgeInv(e) == OrderInv(e) /\ SentInv(e) /\ RcvdInv(e) /\ SlotInv(e) /\ ~ended[e]

IInv == TypeOK /\ DriverInv /\ HandleInv /\ StageInv /\ CloseInv
        /\ \A e \in EdgeIds : EdgeInv(e)

---------------------------------------------------------------------------
(* Types. *)

LEMMA SeqElement ==
  ASSUME NEW S, NEW q \in Seq(S), NEW k \in 1 .. Len(q)
  PROVE  q[k] \in S
  OBVIOUS

LEMMA SameSequence ==
  ASSUME NEW S, NEW q \in Seq(S), NEW r \in Seq(S), Len(q) = Len(r),
         \A k \in 1 .. Len(q) : q[k] = r[k]
  PROVE  q = r
  OBVIOUS

LEMMA SeqInto ==
  ASSUME NEW S, NEW q \in Seq(S), NEW T, \A k \in 1 .. Len(q) : q[k] \in T
  PROVE  q \in [1 .. Len(q) -> T]
  OBVIOUS

LEMMA InitialSegment ==
  ASSUME NEW n \in Nat
  PROVE  IsFiniteSet(1 .. n) /\ Cardinality(1 .. n) = n
<1>1. IsFiniteSet(1 .. n) /\ Cardinality(1 .. n) = IF 1 > n THEN 0 ELSE n - 1 + 1
  BY FS_Interval
<1> QED  BY <1>1

LEMMA ConstantTypes ==
  /\ Len(Edges) \in Nat /\ NumStages \in Nat /\ Capacity \in Nat
  /\ \A e \in EdgeIds : /\ Edges[e].prod \in Instrs
                        /\ Producer(e) \in Stages /\ Consumer(e) \in Stages
                        /\ Producer(e) # Consumer(e)
<1>1. Len(Edges) \in Nat /\ NumStages \in Nat /\ Capacity \in Nat
  BY PipelineAssumption
<1>2. ASSUME NEW e \in EdgeIds
      PROVE  Edges[e] \in [prod : Instrs, to : Stages]
  BY PipelineAssumption, SeqElement DEF EdgeIds
<1>3. ASSUME NEW e \in EdgeIds
      PROVE  Edges[e].to # StageOf[Edges[e].prod]
  BY PipelineAssumption
<1>4. StageOf \in [Instrs -> Stages]
  BY PipelineAssumption
<1> QED  BY <1>1, <1>2, <1>3, <1>4 DEF Producer, Consumer

LEMMA PathType == path \in Paths => Len(path) \in Nat
  BY DEF Paths

LEMMA InitCorrect == Init => IInv
<1> SUFFICES ASSUME Init PROVE IInv
  OBVIOUS
<1> USE ConstantTypes, PathType
<1>1. TypeOK
  BY DEF Init, TypeOK
<1>2. DriverInv /\ HandleInv /\ StageInv /\ CloseInv
  BY DEF Init, DriverInv, HandleInv, StageInv, CloseInv, EdgeIds, Stages
<1>3. ASSUME NEW e \in EdgeIds PROVE EdgeInv(e)
  <2>1. /\ sent[e] = <<>> /\ rcvd[e] = <<>> /\ closed[e] = FALSE /\ ended[e] = FALSE
        /\ pos[Producer(e)] = 1 /\ served[Producer(e)] = 0
        /\ pos[Consumer(e)] = 1 /\ served[Consumer(e)] = 0
    BY DEF Init
  <2>2. e >= 1
    BY DEF EdgeIds
  <2> QED
    BY <2>1, <2>2 DEF EdgeInv, OrderInv, SentInv, RcvdInv, SlotInv, Has, Passed, Init, EdgeIds
<1> QED  BY <1>1, <1>2, <1>3 DEF IInv

(* The type invariant is kept. *)
LEMMA DriverTypes == TypeOK /\ DriverNext => TypeOK'
<1> SUFFICES ASSUME TypeOK, DriverNext PROVE TypeOK'
  OBVIOUS
<1> USE DEF chanVars, stageVars
<1>1. /\ dnext' \in Nat
      /\ dpc' \in {"create", "spawn", "join", "destroy", "returned", "crashed"}
  BY DEF TypeOK, DriverNext, CreateQueue, SpawnStage, JoinStage, JoinGarbage,
         DestroyQueue, NextPhase
<1>2. queue' \in [EdgeIds -> {"none", "open", "destroyed", "null"}]
  <2>1. UNCHANGED queue \/ \E q \in {"open", "destroyed", "null", queue[dnext + 1]} :
          queue' = [queue EXCEPT ![dnext + 1] = q]
    BY DEF DriverNext, CreateQueue, SpawnStage, JoinStage, JoinGarbage, DestroyQueue,
           NextPhase
  <2> QED  BY <2>1 DEF TypeOK
<1>3. status' \in [Stages -> {"unborn", "running", "done", "failed"}]
  <2>1. UNCHANGED status \/ \E x \in {"running", "failed"} :
          status' = [status EXCEPT ![dnext] = x]
    BY DEF DriverNext, CreateQueue, SpawnStage, JoinStage, JoinGarbage, DestroyQueue,
           NextPhase
  <2> QED  BY <2>1 DEF TypeOK
<1>4. UNCHANGED <<path, chanVars, stageVars>>
  BY DEF DriverNext, CreateQueue, SpawnStage, JoinStage, JoinGarbage, DestroyQueue,
         NextPhase
<1> QED  BY <1>1, <1>2, <1>3, <1>4 DEF TypeOK

LEMMA StageTypes ==
  ASSUME TypeOK, NEW s \in Stages, StageNext(s)
  PROVE  TypeOK'
<1> USE ConstantTypes, PathType
<1>1. ASSUME NEW e \in EdgeIds, Enqueue(s, e) PROVE TypeOK'
  <2>a. Len(path) \in Nat /\ pos[s] \in 1 .. Len(path) + 1 /\ pos[s] <= Len(path)
    BY <1>1 DEF Enqueue, InLoop, TypeOK
  <2>b. e \in 0 .. Len(Edges)
    BY DEF EdgeIds
  <2>1. pos[s] \in 1 .. Len(path) /\ sent[e] \in Seq(1 .. Len(path)) /\ e \in 0 .. Len(Edges)
    BY <2>a, <2>b DEF TypeOK
  <2>2. sent' \in [EdgeIds -> Seq(1 .. Len(path))] /\ served' \in [Stages -> 0 .. Len(Edges)]
    BY <1>1, <2>1 DEF Enqueue, TypeOK
  <2> QED  BY <1>1, <2>2 DEF Enqueue, TypeOK, driverVars
<1>2. ASSUME NEW e \in EdgeIds, Dequeue(s, e) PROVE TypeOK'
  <2>1. e \in 0 .. Len(Edges)
    BY DEF EdgeIds
  <2>2. served' \in [Stages -> 0 .. Len(Edges)]
    BY <1>2, <2>1 DEF Dequeue, TypeOK
  <2>3. CASE Len(rcvd[e]) < Len(sent[e])
    <3>1. sent[e][Len(rcvd[e]) + 1] \in 1 .. Len(path)
      BY <2>3 DEF TypeOK
    <3>a. sent[e][Len(rcvd[e]) + 1] \in 0 .. Len(path)
      BY <3>1, Len(path) \in Nat DEF TypeOK
    <3>b. /\ rcvd' = [rcvd EXCEPT ![e] = Append(@, sent[e][Len(rcvd[e]) + 1])]
          /\ slot' = [slot EXCEPT ![e] = sent[e][Len(rcvd[e]) + 1]]
      BY <1>2, <2>3 DEF Dequeue
    <3>2. rcvd' \in [EdgeIds -> Seq(1 .. Len(path))] /\ slot' \in [EdgeIds -> 0 .. Len(path)]
      BY <3>1, <3>a, <3>b DEF TypeOK
    <3> QED  BY <1>2, <2>2, <2>3, <3>2 DEF Dequeue, TypeOK, driverVars
  <2>4. CASE ~(Len(rcvd[e]) < Len(sent[e]))
    BY <1>2, <2>2, <2>4 DEF Dequeue, TypeOK, driverVars
  <2> QED  BY <2>3, <2>4
<1>3. ASSUME NEW e \in EdgeIds, SendEof(s, e) PROVE TypeOK'
  <2>1. e \in 0 .. Len(Edges)
    BY DEF EdgeIds
  <2>2. served' \in [Stages -> 0 .. Len(Edges)] /\ closed' \in [EdgeIds -> BOOLEAN]
    BY <1>3, <2>1 DEF SendEof, TypeOK
  <2> QED  BY <1>3, <2>2 DEF SendEof, TypeOK, driverVars
<1>4. ASSUME NEW e \in EdgeIds, CallOnNull(s, e) PROVE TypeOK'
  BY <1>4 DEF CallOnNull, TypeOK, chanVars, stageVars
<1>5. CASE Advance(s)
  <2>1. pos[s] + 1 \in 1 .. Len(path) + 1
    BY <1>5 DEF Advance, InLoop, TypeOK
  <2>2. pos' \in [Stages -> 1 .. Len(path) + 1] /\ served' \in [Stages -> 0 .. Len(Edges)]
    BY <1>5, <2>1 DEF Advance, TypeOK
  <2> QED  BY <1>5, <2>2 DEF Advance, TypeOK, driverVars, chanVars
<1>6. CASE Finish(s)
  <2>1. /\ status' \in [Stages -> {"unborn", "running", "done", "failed"}]
        /\ ret' \in {"null", "value"}
    BY <1>6 DEF Finish, TypeOK
  <2> QED  BY <1>6, <2>1 DEF Finish, TypeOK, driverVars, chanVars
<1> QED  BY <1>1, <1>2, <1>3, <1>4, <1>5, <1>6 DEF StageNext

---------------------------------------------------------------------------
(* The driver's steps keep the invariant. *)

(* What the stages and the channels hold does not depend on the driver,    *)
(* as long as the closed queues are open or destroyed.                     *)
LEMMA EdgesOutsideDriver ==
  ASSUME IInv, UNCHANGED <<path, chanVars, stageVars>>,
         \A e \in EdgeIds : closed[e] => queue'[e] \in {"open", "destroyed"}
  PROVE  CloseInv' /\ \A e \in EdgeIds : EdgeInv(e)'
<1>1. UNCHANGED <<path, sent, rcvd, closed, ended, pos, served, slot>>
  BY DEF chanVars, stageVars
<1>2. CloseInv'
  BY <1>1 DEF IInv, CloseInv, Producer
<1>3. ASSUME NEW e \in EdgeIds PROVE EdgeInv(e)'
  <2>1. EdgeInv(e)
    BY DEF IInv
  <2>2. OrderInv(e)' /\ ~ended'[e]
    BY <1>1, <2>1 DEF EdgeInv, OrderInv
  <2>3. SentInv(e)'
    BY <1>1, <2>1 DEF EdgeInv, SentInv, Has, Passed, Producer
  <2>4. RcvdInv(e)'
    BY <1>1, <2>1 DEF EdgeInv, RcvdInv, Has, Passed, Consumer
  <2>5. SlotInv(e)'
    BY <1>1, <2>1 DEF EdgeInv, SlotInv, Consumer
  <2> QED  BY <2>2, <2>3, <2>4, <2>5 DEF EdgeInv
<1> QED  BY <1>2, <1>3

LEMMA ClosedQueues ==
  ASSUME IInv
  PROVE  \A e \in EdgeIds : closed[e] => queue[e] \in {"open", "destroyed"}
  BY DEF IInv, CloseInv

LEMMA CreateQueueStep == IInv /\ CreateQueue => IInv'
<1> SUFFICES ASSUME IInv, CreateQueue PROVE IInv'
  OBVIOUS
<1>1. TypeOK' /\ UNCHANGED <<path, dpc, chanVars, status, stageVars>> /\ dpc = "create"
  BY DriverTypes DEF IInv, DriverNext, CreateQueue
<1>2. PICK q \in {"open", "null"} : queue' = [queue EXCEPT ![dnext + 1] = q]
  BY DEF CreateQueue
<1>3. dnext' = dnext + 1 /\ dnext \in Nat /\ queue \in [EdgeIds -> {"none", "open", "destroyed", "null"}]
  BY DEF CreateQueue, IInv, TypeOK
<1>4. \A e \in EdgeIds : e \in Nat /\ queue'[e] = IF e = dnext + 1 THEN q ELSE queue[e]
  BY <1>2, <1>3 DEF EdgeIds
<1>5. DriverInv'
  BY <1>1, <1>3, <1>4 DEF IInv, DriverInv
<1>6. HandleInv' /\ StageInv'
  <2>1. \A s \in Stages : status[s] = "unborn"
    BY <1>1 DEF IInv, DriverInv
  <2> QED  BY <1>1, <2>1 DEF IInv, HandleInv, StageInv, stageVars, chanVars
<1>7. \A e \in EdgeIds : closed[e] => queue'[e] \in {"open", "destroyed"}
  BY <1>1, <1>3, <1>4, ClosedQueues DEF IInv, DriverInv
<1> QED  BY <1>1, <1>5, <1>6, <1>7, EdgesOutsideDriver DEF IInv

LEMMA SpawnStageStep == IInv /\ SpawnStage => IInv'
<1> SUFFICES ASSUME IInv, SpawnStage PROVE IInv'
  OBVIOUS
<1>1. /\ TypeOK' /\ UNCHANGED <<path, dpc, queue, chanVars, stageVars>> /\ dpc = "spawn"
      /\ dnext < NumStages
  BY DriverTypes DEF IInv, DriverNext, SpawnStage
<1>2. PICK x \in {"running", "failed"} : status' = [status EXCEPT ![dnext] = x]
  BY DEF SpawnStage
<1>3. dnext' = dnext + 1 /\ dnext \in Nat
  BY DEF SpawnStage, IInv, TypeOK
<1>4. \A s \in Stages : s \in Nat /\ status'[s] = IF s = dnext THEN x ELSE status[s]
  BY <1>2, ConstantTypes DEF IInv, TypeOK, Stages
<1>5. dnext \in Stages /\ status[dnext] = "unborn"
  BY <1>1, <1>3, ConstantTypes DEF IInv, DriverInv, Stages
<1>6. DriverInv'
  BY <1>1, <1>3, <1>4 DEF IInv, DriverInv
<1>7. HandleInv'
  BY <1>1, <1>4 DEF IInv, DriverInv, HandleInv, Producer, Consumer
<1>8. StageInv'
  BY <1>1, <1>4, <1>5 DEF IInv, StageInv, stageVars, chanVars, Producer
<1> QED  BY <1>1, <1>6, <1>7, <1>8, ClosedQueues, EdgesOutsideDriver DEF IInv

LEMMA JoinStep == IInv /\ (JoinStage \/ JoinGarbage) => IInv'
<1> SUFFICES ASSUME IInv, JoinStage \/ JoinGarbage PROVE IInv'
  OBVIOUS
<1>1. /\ TypeOK' /\ UNCHANGED <<path, queue, chanVars, status, stageVars>> /\ dpc = "join"
      /\ dnext < NumStages /\ status[dnext] \in {"done", "failed"}
  BY DriverTypes DEF IInv, DriverNext, JoinStage, JoinGarbage
<1>2. dpc' = "crashed" \/ (dpc' = "join" /\ dnext' = dnext + 1)
  BY <1>1 DEF JoinStage, JoinGarbage
<1>3. \A s \in Stages : s < dnext + 1 => s < dnext \/ s = dnext
  BY ConstantTypes DEF Stages, IInv, TypeOK
<1>4. DriverInv'
  BY <1>1, <1>2, <1>3 DEF IInv, DriverInv
<1>5. HandleInv' /\ StageInv'
  BY <1>1 DEF IInv, HandleInv, StageInv, stageVars, chanVars, Producer, Consumer
<1> QED  BY <1>1, <1>4, <1>5, ClosedQueues, EdgesOutsideDriver DEF IInv

LEMMA DestroyQueueStep == IInv /\ DestroyQueue => IInv'
<1> SUFFICES ASSUME IInv, DestroyQueue PROVE IInv'
  OBVIOUS
<1>1. /\ TypeOK' /\ UNCHANGED <<path, dpc, chanVars, status, stageVars>> /\ dpc = "destroy"
      /\ dnext + 1 \in EdgeIds
  <2>1. dnext \in Nat /\ dnext < Len(Edges)
    BY DEF DestroyQueue, IInv, TypeOK
  <2>2. dnext + 1 \in EdgeIds
    BY <2>1, ConstantTypes DEF EdgeIds
  <2> QED  BY <2>2, DriverTypes DEF IInv, DriverNext, DestroyQueue
<1>2. \A e \in EdgeIds : queue'[e] \in {queue[e], "destroyed"}
  BY DEF DestroyQueue, IInv, TypeOK
<1>3. \A s \in Stages : status[s] \in {"done", "failed"}
  BY <1>1 DEF IInv, DriverInv
<1>4. DriverInv'
  BY <1>1, <1>3 DEF IInv, DriverInv
<1>5. HandleInv' /\ StageInv'
  BY <1>1, <1>3 DEF IInv, HandleInv, StageInv, stageVars, chanVars, Producer
<1>6. \A e \in EdgeIds : closed[e] => queue'[e] \in {"open", "destroyed"}
  BY <1>2, ClosedQueues
<1> QED  BY <1>1, <1>4, <1>5, <1>6, EdgesOutsideDriver DEF IInv

LEMMA NextPhaseStep == IInv /\ NextPhase => IInv'
<1> SUFFICES ASSUME IInv, NextPhase PROVE IInv'
  OBVIOUS
<1>1. TypeOK' /\ dnext' = 0 /\ UNCHANGED <<path, queue, chanVars, status, stageVars>>
  BY DriverTypes DEF IInv, DriverNext, NextPhase
<1>2. HandleInv' /\ StageInv'
  BY <1>1 DEF IInv, HandleInv, StageInv, stageVars, chanVars, Producer, Consumer
<1>3. DriverInv'
  <2>1. CASE dpc = "create" /\ dnext = Len(Edges) /\ dpc' = "spawn"
    <3>1. \A e \in EdgeIds : queue[e] \in {"open", "null"}
      BY <2>1, ConstantTypes DEF IInv, DriverInv, EdgeIds
    <3>2. \A s \in Stages : status[s] = "unborn" /\ s >= 0
      BY <2>1, ConstantTypes DEF IInv, DriverInv, Stages
    <3> QED  BY <1>1, <2>1, <3>1, <3>2 DEF DriverInv
  <2>2. CASE dpc = "spawn" /\ dnext = NumStages /\ dpc' = "join"
    <3>1. \A s \in Stages : status[s] # "unborn" /\ ~(s < 0)
      BY <2>2, ConstantTypes DEF IInv, DriverInv, Stages
    <3> QED  BY <1>1, <2>2, <3>1 DEF IInv, DriverInv
  <2>3. CASE dpc = "join" /\ dnext = NumStages /\ dpc' = "destroy"
    <3>1. \A s \in Stages : status[s] \in {"done", "failed"}
      BY <2>3, ConstantTypes DEF IInv, TypeOK, DriverInv, Stages
    <3> QED  BY <1>1, <2>3, <3>1 DEF DriverInv
  <2>4. CASE dpc = "destroy" /\ dpc' = "returned"
    BY <1>1, <2>4 DEF IInv, DriverInv
  <2> QED  BY <2>1, <2>2, <2>3, <2>4 DEF NextPhase
<1> QED  BY <1>1, <1>2, <1>3, ClosedQueues, EdgesOutsideDriver DEF IInv

---------------------------------------------------------------------------
(* The stages' steps keep the invariant. *)

(* What a running stage's step leaves of the driver's invariant.           *)
LEMMA RunningStage ==
  ASSUME IInv, NEW s \in Stages, Alive(s)
  PROVE  /\ status[s] = "running" /\ dpc \in {"spawn", "join"}
         /\ pos[s] \in 1 .. Len(path) + 1 /\ Len(path) \in Nat
         /\ served[s] \in 0 .. Len(Edges)
<1>1. TypeOK /\ status[s] = "running" /\ dpc # "crashed"
  BY DEF IInv, Alive
<1>2. dpc \notin {"create", "destroy", "returned"}
  BY <1>1 DEF IInv, DriverInv
<1> QED  BY <1>1, <1>2, PathType DEF TypeOK

(* A call in the loop makes no difference to the other edges: those passed *)
(* over are not called here.                                               *)
LEMMA OtherEdges ==
  ASSUME IInv, NEW s \in Stages, NEW e \in EdgeIds, InLoop(s), IsNextCall(s, e),
         served' = [served EXCEPT ![s] = e], UNCHANGED <<path, pos>>,
         NEW d \in EdgeIds, d # e,
         sent'[d] = sent[d], rcvd'[d] = rcvd[d], ended'[d] = ended[d], slot'[d] = slot[d]
  PROVE  EdgeInv(d)'
<1>1. EdgeInv(d) /\ e \in Nat /\ d \in Nat /\ served[s] \in Nat
  BY RunningStage DEF IInv, InLoop, EdgeIds
<1>2. \A t \in Stages : served'[t] = IF t = s THEN e ELSE served[t]
  BY DEF IInv, TypeOK
<1>3. s \in {Producer(d), Consumer(d)} /\ path[pos[s]] = Edges[d].prod =>
        (d <= served[s] <=> d <= e)
  <2> SUFFICES ASSUME s \in {Producer(d), Consumer(d)}, path[pos[s]] = Edges[d].prod,
                      served[s] < d, d < e
               PROVE  FALSE
    BY <1>1 DEF IsNextCall
  <2>1. d \in served[s] + 1 .. e - 1
    BY <1>1
  <2>2. IsCall(s, d)
    BY DEF IsCall
  <2> QED  BY <2>1, <2>2 DEF IsNextCall
<1>4. OrderInv(d)' /\ ~ended'[d]
  BY <1>1 DEF EdgeInv, OrderInv
<1>5. SentInv(d)'
  <2>1. \A p \in 1 .. Len(path) : path[p] = Edges[d].prod =>
          (Passed(Producer(d), d, p)' <=> Passed(Producer(d), d, p))
    BY <1>2, <1>3, ConstantTypes DEF Passed, Producer
  <2> QED  BY <1>1, <2>1 DEF EdgeInv, SentInv, Has
<1>6. RcvdInv(d)'
  <2>1. \A p \in 1 .. Len(path) : path[p] = Edges[d].prod =>
          (Passed(Consumer(d), d, p)' <=> Passed(Consumer(d), d, p))
    BY <1>2, <1>3, ConstantTypes DEF Passed, Consumer
  <2> QED  BY <1>1, <2>1 DEF EdgeInv, RcvdInv, Has
<1>7. SlotInv(d)'
  BY <1>1, <1>2, <1>3, ConstantTypes DEF EdgeInv, SlotInv, Consumer
<1> QED  BY <1>4, <1>5, <1>6, <1>7 DEF EdgeInv

(* The driver's and the stages' own parts do not depend on what has been   *)
(* sent.                                                                   *)
LEMMA CallInLoop ==
  ASSUME IInv, NEW s \in Stages, NEW e \in EdgeIds, InLoop(s),
         served' = [served EXCEPT ![s] = e],
         UNCHANGED <<path, driverVars, closed, status, pos, ret>>
  PROVE  DriverInv' /\ HandleInv' /\ StageInv' /\ CloseInv'
<1>1. UNCHANGED <<dpc, dnext, queue>>
  BY DEF driverVars
<1>2. DriverInv' /\ HandleInv' /\ CloseInv'
  BY <1>1 DEF IInv, DriverInv, HandleInv, CloseInv, Producer, Consumer
<1>3. status[s] = "running" /\ ~(pos[s] > Len(path))
  BY RunningStage DEF InLoop
<1>4. \A t \in Stages : t # s => served'[t] = served[t]
  BY DEF IInv, TypeOK
<1>5. ASSUME NEW t \in Stages
      PROVE  /\ status[t] \in {"unborn", "failed"} => pos[t] = 1 /\ served'[t] = 0
             /\ pos[t] > Len(path) =>
                  \A d \in EdgeIds : d <= served'[t] /\ Producer(d) = t => closed[d]
  BY <1>3, <1>4 DEF IInv, StageInv
<1>6. StageInv'
  BY <1>5 DEF IInv, StageInv, Producer
<1> QED  BY <1>2, <1>6

LEMMA OneMore ==
  ASSUME NEW m \in Nat, NEW n \in Nat, NEW c \in Nat, m <= n, n - m < c, NEW k, k = n + 1
  PROVE  m <= k /\ k - m <= c
  OBVIOUS

LEMMA OneFewer ==
  ASSUME NEW m \in Nat, NEW n \in Nat, NEW c \in Nat, m < n, n - m <= c
  PROVE  m + 1 <= n /\ n - (m + 1) <= c
  OBVIOUS

(* Appending a larger value. *)
LEMMA AppendLarger ==
  ASSUME NEW q \in Seq(Nat), NEW p \in Nat, \A k \in 1 .. Len(q) : q[k] < p,
         \A j, k \in 1 .. Len(q) : j < k => q[j] < q[k]
  PROVE  \A j, k \in 1 .. Len(Append(q, p)) : j < k => Append(q, p)[j] < Append(q, p)[k]
<1> DEFINE r == Append(q, p)
<1>1. /\ Len(q) \in Nat /\ Len(r) = Len(q) + 1 /\ r[Len(q) + 1] = p
      /\ \A k \in 1 .. Len(q) : r[k] = q[k]
  OBVIOUS
<1> HIDE DEF r
<1> SUFFICES ASSUME NEW j \in 1 .. Len(r), NEW k \in 1 .. Len(r), j < k
             PROVE  r[j] < r[k]
  BY DEF r
<1>2. j \in 1 .. Len(q)
  BY <1>1
<1>3. CASE k = Len(q) + 1
  BY <1>1, <1>2, <1>3
<1>4. CASE k \in 1 .. Len(q)
  BY <1>1, <1>2, <1>4
<1> QED  BY <1>1, <1>3, <1>4

LEMMA HasAppend ==
  ASSUME NEW S, NEW q \in Seq(S), NEW p \in S, NEW v
  PROVE  Has(Append(q, p), v) <=> Has(q, v) \/ v = p
<1> DEFINE r == Append(q, p)
<1>1. /\ Len(q) \in Nat /\ Len(r) = Len(q) + 1 /\ r[Len(q) + 1] = p
      /\ \A k \in 1 .. Len(q) : r[k] = q[k]
  OBVIOUS
<1> HIDE DEF r
<1>2. \A k \in 1 .. Len(r) : k \in 1 .. Len(q) \/ k = Len(q) + 1
  BY <1>1
<1>3. Len(q) + 1 \in 1 .. Len(r) /\ \A k \in 1 .. Len(q) : k \in 1 .. Len(r)
  BY <1>1
<1>4. Has(r, v) <=> Has(q, v) \/ v = p
  BY <1>1, <1>2, <1>3 DEF Has
<1> QED  BY <1>4 DEF r

LEMMA EnqueueStep ==
  ASSUME IInv, NEW s \in Stages, NEW e \in EdgeIds, Enqueue(s, e)
  PROVE  IInv'
<1> DEFINE p == pos[s]
<1>1. /\ InLoop(s) /\ IsNextCall(s, e) /\ Producer(e) = s
      /\ Len(sent[e]) - Len(rcvd[e]) < Capacity
      /\ sent' = [sent EXCEPT ![e] = Append(@, p)]
      /\ served' = [served EXCEPT ![s] = e]
      /\ UNCHANGED <<path, driverVars, rcvd, closed, ended, status, pos, slot, ret>>
  BY DEF Enqueue
<1>2. /\ p \in 1 .. Len(path) /\ Len(path) \in Nat /\ path[p] = Edges[e].prod
      /\ served[s] \in Nat /\ e \in Nat /\ served[s] < e
  BY <1>1, RunningStage DEF InLoop, IsNextCall, IsCall, EdgeIds
<1>3. TypeOK'
  BY StageTypes DEF IInv, StageNext
<1>4. DriverInv' /\ HandleInv' /\ StageInv' /\ CloseInv'
  BY <1>1, CallInLoop
<1>5. ASSUME NEW d \in EdgeIds, d # e PROVE EdgeInv(d)'
  <2>1. sent'[d] = sent[d] /\ rcvd'[d] = rcvd[d] /\ ended'[d] = ended[d] /\ slot'[d] = slot[d]
    BY <1>1, <1>5 DEF IInv, TypeOK
  <2> QED  BY <1>1, <1>5, <2>1, OtherEdges
<1>6. EdgeInv(e)'
  <2>1. /\ EdgeInv(e) /\ sent[e] \in Seq(1 .. Len(path)) /\ rcvd[e] \in Seq(1 .. Len(path))
        /\ sent'[e] = Append(sent[e], p) /\ served'[s] = e
        /\ \A t \in Stages : t # s => served'[t] = served[t]
        /\ Consumer(e) # s /\ Consumer(e) \in Stages
    BY <1>1, ConstantTypes DEF IInv, TypeOK
  <2>2. /\ Len(sent'[e]) = Len(sent[e]) + 1 /\ Len(sent[e]) \in Nat
        /\ sent'[e][Len(sent[e]) + 1] = p
        /\ \A k \in 1 .. Len(sent[e]) : sent'[e][k] = sent[e][k]
    BY <1>2, <2>1
  <2>3. \A k \in 1 .. Len(sent[e]) : sent[e][k] \in Nat /\ sent[e][k] < p
    <3> SUFFICES ASSUME NEW k \in 1 .. Len(sent[e])
                 PROVE  sent[e][k] \in Nat /\ sent[e][k] < p
      OBVIOUS
    <3>1. sent[e][k] \in 1 .. Len(path)
      BY <2>1
    <3>2. Passed(s, e, sent[e][k])
      BY <1>1, <2>1, <3>1 DEF EdgeInv, SentInv, Has
    <3> QED  BY <1>2, <3>1, <3>2 DEF Passed
  <2>4. OrderInv(e)'
    <3>1. Len(rcvd[e]) \in Nat /\ Len(rcvd[e]) <= Len(sent[e]) /\ Capacity \in Nat
      BY <2>1, ConstantTypes DEF EdgeInv, OrderInv
    <3>2. Len(rcvd'[e]) <= Len(sent'[e]) /\ Len(sent'[e]) - Len(rcvd'[e]) <= Capacity
      <4>1. rcvd'[e] = rcvd[e] /\ Len(sent[e]) - Len(rcvd[e]) < Capacity
        BY <1>1
      <4>2. Len(sent'[e]) = Len(sent[e]) + 1 /\ Len(sent[e]) \in Nat
        BY <2>2
      <4>3. Len(rcvd[e]) <= Len(sent'[e]) /\ Len(sent'[e]) - Len(rcvd[e]) <= Capacity
        BY <3>1, <4>1, <4>2, OneMore
      <4> QED  BY <4>1, <4>3
    <3>3. \A k \in 1 .. Len(rcvd[e]) : rcvd[e][k] = sent'[e][k]
      BY <2>1, <2>2, <3>1 DEF EdgeInv, OrderInv
    <3>4. \A j, k \in 1 .. Len(sent'[e]) : j < k => sent'[e][j] < sent'[e][k]
      <4>1. sent[e] \in Seq(Nat) /\ p \in Nat
        BY <1>2, <2>1
      <4>2. \A j, k \in 1 .. Len(sent[e]) : j < k => sent[e][j] < sent[e][k]
        BY <2>1 DEF EdgeInv, OrderInv
      <4>3. \A k \in 1 .. Len(sent[e]) : sent[e][k] < p
        BY <2>3
      <4>4. \A j, k \in 1 .. Len(Append(sent[e], p)) :
              j < k => Append(sent[e], p)[j] < Append(sent[e], p)[k]
        BY <4>1, <4>2, <4>3, AppendLarger
      <4> QED  BY <2>1, <4>4
    <3> QED  BY <1>1, <3>2, <3>3, <3>4 DEF OrderInv
  <2>5. SentInv(e)'
    <3> SUFFICES ASSUME NEW q \in 1 .. Len(path)
                 PROVE  Has(sent'[e], q) <=>
                          path[q] = Edges[e].prod /\ Passed(Producer(e), e, q)'
      BY <1>1 DEF SentInv, Has
    <3>1. Has(sent'[e], q) <=> Has(sent[e], q) \/ q = p
      BY <1>2, <2>1, HasAppend
    <3>2. Passed(Producer(e), e, q)' <=> Passed(Producer(e), e, q) \/ q = p
      BY <1>1, <1>2, <2>1 DEF Passed, Producer
    <3>3. Has(sent[e], q) <=> path[q] = Edges[e].prod /\ Passed(Producer(e), e, q)
      BY <2>1 DEF EdgeInv, SentInv
    <3> QED  BY <1>2, <3>1, <3>2, <3>3
  <2>6. RcvdInv(e)' /\ SlotInv(e)' /\ ~ended'[e]
    BY <1>1, <2>1 DEF EdgeInv, RcvdInv, SlotInv, Has, Passed, Consumer
  <2> QED  BY <2>4, <2>5, <2>6 DEF EdgeInv
<1> QED  BY <1>3, <1>4, <1>5, <1>6 DEF IInv

(* The heart of the matter: where the consumer stands, the next value of   *)
(* the queue is the one computed at this very position.                    *)
LEMMA NextValue ==
  ASSUME IInv, NEW s \in Stages, NEW e \in EdgeIds, InLoop(s), IsNextCall(s, e),
         Consumer(e) = s, Len(rcvd[e]) < Len(sent[e]) \/ closed[e]
  PROVE  /\ Len(rcvd[e]) < Len(sent[e])
         /\ sent[e][Len(rcvd[e]) + 1] = pos[s]
<1> DEFINE p == pos[s]
           n == Len(rcvd[e])
           v == sent[e][n + 1]
<1>1. /\ p \in 1 .. Len(path) /\ Len(path) \in Nat /\ path[p] = Edges[e].prod
      /\ served[s] \in Nat /\ e \in Nat /\ served[s] < e
  BY RunningStage DEF InLoop, IsNextCall, IsCall, EdgeIds
<1>2. /\ EdgeInv(e) /\ sent[e] \in Seq(1 .. Len(path)) /\ rcvd[e] \in Seq(1 .. Len(path))
      /\ n \in Nat /\ Len(sent[e]) \in Nat /\ n <= Len(sent[e])
  BY DEF IInv, TypeOK, EdgeInv, OrderInv
<1>3. ~Has(rcvd[e], p)
  BY <1>1, <1>2 DEF EdgeInv, RcvdInv, Passed
<1>4. \A k \in 1 .. Len(sent[e]) : sent[e][k] = p => k > n
  BY <1>2, <1>3 DEF EdgeInv, OrderInv, Has
<1>5. n < Len(sent[e])
  <2>1. CASE closed[e]
    <3>1. pos[Producer(e)] > Len(path)
      BY <2>1 DEF IInv, CloseInv
    <3>2. Passed(Producer(e), e, p)
      <4>1. pos[Producer(e)] \in Nat
        BY ConstantTypes, PathType DEF IInv, TypeOK
      <4> QED  BY <1>1, <3>1, <4>1 DEF Passed
    <3>3. Has(sent[e], p)
      BY <1>1, <1>2, <3>2 DEF EdgeInv, SentInv
    <3> QED  BY <1>2, <1>4, <3>3 DEF Has
  <2> QED  BY <2>1
<1>6. n + 1 \in 1 .. Len(sent[e]) /\ v \in 1 .. Len(path)
  BY <1>2, <1>5
<1>7. ~(v < p)
  <2> SUFFICES ASSUME v < p PROVE FALSE
    OBVIOUS
  <2>1. Has(sent[e], v) /\ path[v] = Edges[e].prod
    BY <1>2, <1>6 DEF Has, EdgeInv, SentInv
  <2>2. Passed(Consumer(e), e, v)
    BY DEF Passed
  <2>3. Has(rcvd[e], v)
    BY <1>2, <1>6, <2>1, <2>2 DEF EdgeInv, RcvdInv
  <2>4. PICK k \in 1 .. n : sent[e][k] = v
    BY <1>2, <2>3 DEF Has, EdgeInv, OrderInv
  <2>5. k \in 1 .. Len(sent[e]) /\ k < n + 1
    BY <1>2
  <2>6. sent[e][k] < v
    BY <1>2, <1>6, <2>5 DEF EdgeInv, OrderInv
  <2> QED  BY <1>6, <2>4, <2>6
<1>8. ~(v > p)
  <2> SUFFICES ASSUME v > p PROVE FALSE
    OBVIOUS
  <2>1. Passed(Producer(e), e, v)
    BY <1>2, <1>6 DEF Has, EdgeInv, SentInv
  <2>2. Passed(Producer(e), e, p)
    <3>1. pos[Producer(e)] \in Nat
      BY ConstantTypes, PathType DEF IInv, TypeOK
    <3> QED  BY <1>1, <1>6, <2>1, <3>1 DEF Passed
  <2>3. PICK k \in 1 .. Len(sent[e]) : sent[e][k] = p
    BY <1>1, <1>2, <2>2 DEF Has, EdgeInv, SentInv
  <2>4. CASE k = n + 1
    BY <1>1, <2>3, <2>4
  <2>5. CASE k > n + 1
    <3>1. v < sent[e][k]
      BY <1>2, <1>6, <2>5 DEF EdgeInv, OrderInv
    <3> QED  BY <1>1, <1>6, <2>3, <3>1
  <2>6. k > n
    BY <1>4, <2>3
  <2>7. k \in Nat
    BY <1>2, <2>3
  <2> HIDE DEF n
  <2>8. n \in Nat
    BY <1>2
  <2>9. k = n + 1 \/ k > n + 1
    BY <2>6, <2>7, <2>8
  <2> QED  BY <2>4, <2>5, <2>9
<1> QED  BY <1>1, <1>5, <1>6, <1>7, <1>8

LEMMA DequeueStep ==
  ASSUME IInv, NEW s \in Stages, NEW e \in EdgeIds, Dequeue(s, e)
  PROVE  IInv'
<1> DEFINE p == pos[s]
<1>1. /\ InLoop(s) /\ IsNextCall(s, e) /\ Consumer(e) = s
      /\ Len(rcvd[e]) < Len(sent[e]) \/ closed[e]
      /\ served' = [served EXCEPT ![s] = e]
      /\ UNCHANGED <<path, driverVars, sent, closed, status, pos, ret>>
  BY DEF Dequeue
<1>2. Len(rcvd[e]) < Len(sent[e]) /\ sent[e][Len(rcvd[e]) + 1] = p
  BY <1>1, NextValue
<1>3. /\ rcvd' = [rcvd EXCEPT ![e] = Append(@, p)]
      /\ slot' = [slot EXCEPT ![e] = p] /\ UNCHANGED ended
  BY <1>2 DEF Dequeue
<1>4. /\ p \in 1 .. Len(path) /\ Len(path) \in Nat /\ path[p] = Edges[e].prod
      /\ served[s] \in Nat /\ e \in Nat /\ served[s] < e
  BY <1>1, RunningStage DEF InLoop, IsNextCall, IsCall, EdgeIds
<1>5. TypeOK'
  BY StageTypes DEF IInv, StageNext
<1>6. DriverInv' /\ HandleInv' /\ StageInv' /\ CloseInv'
  BY <1>1, CallInLoop
<1>7. ASSUME NEW d \in EdgeIds, d # e PROVE EdgeInv(d)'
  <2>1. sent'[d] = sent[d] /\ rcvd'[d] = rcvd[d] /\ ended'[d] = ended[d] /\ slot'[d] = slot[d]
    BY <1>1, <1>3, <1>7 DEF IInv, TypeOK
  <2> QED  BY <1>1, <1>7, <2>1, OtherEdges
<1>8. EdgeInv(e)'
  <2>1. /\ EdgeInv(e) /\ sent[e] \in Seq(1 .. Len(path)) /\ rcvd[e] \in Seq(1 .. Len(path))
        /\ rcvd'[e] = Append(rcvd[e], p) /\ slot'[e] = p /\ served'[s] = e
        /\ \A t \in Stages : t # s => served'[t] = served[t]
        /\ Producer(e) # s /\ Producer(e) \in Stages
    BY <1>1, <1>3, ConstantTypes DEF IInv, TypeOK
  <2>2. /\ Len(rcvd'[e]) = Len(rcvd[e]) + 1 /\ Len(rcvd[e]) \in Nat /\ Len(sent[e]) \in Nat
        /\ rcvd'[e][Len(rcvd[e]) + 1] = p
        /\ \A k \in 1 .. Len(rcvd[e]) : rcvd'[e][k] = rcvd[e][k]
    BY <1>4, <2>1
  <2>3. OrderInv(e)'
    <3>1. /\ Len(rcvd[e]) + 1 <= Len(sent[e])
          /\ Len(sent[e]) - (Len(rcvd[e]) + 1) <= Capacity
      <4>1. Len(rcvd[e]) < Len(sent[e]) /\ Capacity \in Nat
        BY <1>2, ConstantTypes
      <4>2. Len(sent[e]) - Len(rcvd[e]) <= Capacity
        BY <2>1 DEF EdgeInv, OrderInv
      <4> QED  BY <2>2, <4>1, <4>2, OneFewer
    <3>2. \A k \in 1 .. Len(rcvd[e]) + 1 : rcvd'[e][k] = sent[e][k]
      <4>1. \A k \in 1 .. Len(rcvd[e]) + 1 : k \in 1 .. Len(rcvd[e]) \/ k = Len(rcvd[e]) + 1
        BY <2>2
      <4> QED  BY <1>2, <2>1, <2>2, <4>1 DEF EdgeInv, OrderInv
    <3> QED  BY <1>1, <2>1, <2>2, <3>1, <3>2 DEF EdgeInv, OrderInv
  <2>4. RcvdInv(e)'
    <3> SUFFICES ASSUME NEW q \in 1 .. Len(path)
                 PROVE  Has(rcvd'[e], q) <=>
                          path[q] = Edges[e].prod /\ Passed(Consumer(e), e, q)'
      BY <1>1 DEF RcvdInv, Has
    <3>1. Has(rcvd'[e], q) <=> Has(rcvd[e], q) \/ q = p
      BY <1>4, <2>1, HasAppend
    <3>2. Passed(Consumer(e), e, q)' <=> Passed(Consumer(e), e, q) \/ q = p
      BY <1>1, <1>4, <2>1 DEF Passed, Consumer
    <3>3. Has(rcvd[e], q) <=> path[q] = Edges[e].prod /\ Passed(Consumer(e), e, q)
      BY <2>1 DEF EdgeInv, RcvdInv
    <3> QED  BY <1>4, <3>1, <3>2, <3>3
  <2>5. SentInv(e)' /\ SlotInv(e)' /\ ~ended'[e]
    BY <1>1, <1>3, <2>1 DEF EdgeInv, SentInv, SlotInv, Has, Passed, Producer, Consumer
  <2> QED  BY <2>3, <2>4, <2>5 DEF EdgeInv
<1> QED  BY <1>5, <1>6, <1>7, <1>8 DEF IInv

LEMMA CallOnNullStep ==
  ASSUME IInv, NEW s \in Stages, NEW e \in EdgeIds, CallOnNull(s, e)
  PROVE  IInv'
<1>1. /\ dpc' = "crashed"
      /\ UNCHANGED <<path, dnext, queue, chanVars, status, stageVars>>
  BY DEF CallOnNull
<1>2. TypeOK'
  BY StageTypes DEF IInv, StageNext
<1>a. dpc \in {"spawn", "join"}
  BY RunningStage DEF CallOnNull
<1>3. DriverInv'
  BY <1>1, <1>a DEF IInv, DriverInv
<1>4. HandleInv' /\ StageInv'
  BY <1>1 DEF IInv, HandleInv, StageInv, stageVars, chanVars, Producer, Consumer
<1> QED  BY <1>1, <1>2, <1>3, <1>4, ClosedQueues, EdgesOutsideDriver DEF IInv

(* A step of a stage that is not a call on an edge it is part of, or that  *)
(* passes the places of these edges, leaves them alone.                    *)
LEMMA SamePlaces ==
  ASSUME IInv, UNCHANGED <<path, sent, rcvd, ended, slot>>, NEW d \in EdgeIds,
         \A t \in {Producer(d), Consumer(d)} : \A q \in 1 .. Len(path) :
           path[q] = Edges[d].prod => (Passed(t, d, q)' <=> Passed(t, d, q)),
         SlotInv(d)'
  PROVE  EdgeInv(d)'
<1>1. EdgeInv(d)
  BY DEF IInv
<1>2. OrderInv(d)' /\ ~ended'[d]
  BY <1>1 DEF EdgeInv, OrderInv
<1>3. SentInv(d)'
  BY <1>1 DEF EdgeInv, SentInv, Has
<1>4. RcvdInv(d)'
  BY <1>1 DEF EdgeInv, RcvdInv, Has
<1> QED  BY <1>2, <1>3, <1>4 DEF EdgeInv

(* Sending EOF and finishing only happen past the end of the path. *)
LEMMA SendEofStep ==
  ASSUME IInv, NEW s \in Stages, NEW e \in EdgeIds, SendEof(s, e)
  PROVE  IInv'
<1>1. /\ Alive(s) /\ pos[s] > Len(path) /\ IsNextCall(s, e) /\ queue[e] # "null"
      /\ closed' = [closed EXCEPT ![e] = TRUE]
      /\ served' = [served EXCEPT ![s] = e]
      /\ UNCHANGED <<path, driverVars, sent, rcvd, ended, status, pos, slot, ret>>
  BY DEF SendEof, AtExit
<1>2. /\ status[s] = "running" /\ ~InLoop(s) /\ served[s] < e /\ Producer(e) = s
      /\ served[s] \in Nat /\ e \in Nat /\ UNCHANGED <<dpc, dnext, queue>>
      /\ Len(path) \in Nat /\ pos[s] \in Nat
  <2>1. Len(path) \in Nat
    BY PathType DEF IInv, TypeOK
  <2>2. pos[s] \in Nat /\ served[s] \in Nat
    BY <2>1, ConstantTypes DEF IInv, TypeOK
  <2>3. ~InLoop(s)
    BY <1>1, <2>1, <2>2 DEF InLoop
  <2> QED  BY <1>1, <2>1, <2>2, <2>3 DEF Alive, IsNextCall, IsCall, EdgeIds, driverVars
<1>3. TypeOK'
  BY StageTypes DEF IInv, StageNext
<1>4. DriverInv' /\ HandleInv'
  BY <1>1, <1>2 DEF IInv, DriverInv, HandleInv, Producer, Consumer
<1>5. \A d \in EdgeIds : closed'[d] = IF d = e THEN TRUE ELSE closed[d]
  BY <1>1 DEF IInv, TypeOK
<1>6. \A t \in Stages : served'[t] = IF t = s THEN e ELSE served[t]
  BY <1>1 DEF IInv, TypeOK
<1>7. CloseInv'
  <2>1. queue[e] \in {"open", "destroyed"}
    BY <1>1, <1>2 DEF IInv, HandleInv
  <2> QED  BY <1>1, <1>2, <1>5, <2>1 DEF IInv, CloseInv, Producer
<1>8. \A d \in EdgeIds : d <= e /\ Producer(d) = s => closed'[d]
  <2> SUFFICES ASSUME NEW d \in EdgeIds, d <= e, Producer(d) = s, d # e
               PROVE  closed[d]
    BY <1>5
  <2>1. IsCall(s, d)
    BY <1>2 DEF IsCall
  <2>2. d \notin served[s] + 1 .. e - 1
    BY <1>1, <2>1 DEF IsNextCall
  <2>3. d <= served[s]
    BY <1>2, <2>2 DEF EdgeIds
  <2> QED  BY <1>1, <2>3 DEF IInv, StageInv
<1>9. StageInv'
  <2> SUFFICES ASSUME NEW t \in Stages
               PROVE  /\ status[t] \in {"unborn", "failed"} => pos[t] = 1 /\ served'[t] = 0
                      /\ pos[t] > Len(path) =>
                           \A d \in EdgeIds : d <= served'[t] /\ Producer(d) = t => closed'[d]
                      /\ status[t] = "done" =>
                           /\ pos[t] > Len(path)
                           /\ \A d \in EdgeIds : Producer(d) = t => closed'[d]
                           /\ t \in RetStages => ret = "value"
    BY <1>1 DEF StageInv, Producer
  <2>1. CASE t = s
    BY <1>2, <1>6, <1>8, <2>1
  <2>2. CASE t # s
    BY <1>5, <1>6, <2>2 DEF IInv, StageInv
  <2> QED  BY <2>1, <2>2
<1>10. ASSUME NEW d \in EdgeIds PROVE EdgeInv(d)'
  <2>1. ASSUME NEW t \in {Producer(d), Consumer(d)}, NEW q \in 1 .. Len(path)
        PROVE  Passed(t, d, q)' <=> Passed(t, d, q)
    <3>1. t \in Stages
      BY <2>1, ConstantTypes
    <3> QED  BY <1>1, <1>2, <1>6, <3>1 DEF Passed
  <2>2. SlotInv(d)'
    <3>1. CASE Consumer(d) = s
      BY <1>1, <1>2, <3>1 DEF SlotInv, Consumer
    <3>2. CASE Consumer(d) # s
      BY <1>1, <1>6, <3>2, ConstantTypes DEF IInv, EdgeInv, SlotInv, Consumer
    <3> QED  BY <3>1, <3>2
  <2> QED  BY <1>1, <2>1, <2>2, SamePlaces
<1> QED  BY <1>3, <1>4, <1>7, <1>9, <1>10 DEF IInv

(* Going on from a place where every call has been made passes it. *)
LEMMA AdvanceStep ==
  ASSUME IInv, NEW s \in Stages, Advance(s)
  PROVE  IInv'
<1>1. /\ InLoop(s) /\ AllServed(s)
      /\ pos' = [pos EXCEPT ![s] = @ + 1] /\ served' = [served EXCEPT ![s] = 0]
      /\ UNCHANGED <<path, driverVars, chanVars, status, slot, ret>>
  BY DEF Advance
<1>2. /\ status[s] = "running" /\ pos[s] \in 1 .. Len(path) /\ Len(path) \in Nat
      /\ served[s] \in Nat
  BY <1>1, RunningStage DEF InLoop
<1>3. /\ \A t \in Stages : pos'[t] = (IF t = s THEN pos[s] + 1 ELSE pos[t])
      /\ \A t \in Stages : served'[t] = IF t = s THEN 0 ELSE served[t]
  BY <1>1 DEF IInv, TypeOK
<1>4. UNCHANGED <<dpc, dnext, queue, sent, rcvd, closed, ended>>
  BY <1>1 DEF driverVars, chanVars
<1>5. TypeOK'
  BY StageTypes DEF IInv, StageNext
<1>6. DriverInv' /\ HandleInv'
  BY <1>1, <1>4 DEF IInv, DriverInv, HandleInv, Producer, Consumer
<1>7. CloseInv'
  <2> SUFFICES ASSUME NEW d \in EdgeIds, closed[d]
               PROVE  pos'[Producer(d)] > Len(path) /\ queue[d] \in {"open", "destroyed"}
    BY <1>1, <1>4 DEF CloseInv, Producer
  <2>1. pos[Producer(d)] > Len(path) /\ queue[d] \in {"open", "destroyed"}
    BY DEF IInv, CloseInv
  <2>2. Producer(d) # s
    BY <1>2, <2>1
  <2> QED  BY <1>3, <2>1, <2>2, ConstantTypes
<1>8. StageInv'
  <2> SUFFICES ASSUME NEW t \in Stages
               PROVE  /\ status[t] \in {"unborn", "failed"} => pos'[t] = 1 /\ served'[t] = 0
                      /\ pos'[t] > Len(path) =>
                           \A d \in EdgeIds : d <= served'[t] /\ Producer(d) = t => closed[d]
                      /\ status[t] = "done" =>
                           /\ pos'[t] > Len(path)
                           /\ \A d \in EdgeIds : Producer(d) = t => closed[d]
                           /\ t \in RetStages => ret = "value"
    BY <1>1, <1>4 DEF StageInv, Producer
  <2>1. CASE t = s
    <3>1. \A d \in EdgeIds : ~(d <= served'[t])
      BY <1>3, <2>1 DEF EdgeIds
    <3> QED  BY <1>2, <2>1, <3>1
  <2>2. CASE t # s
    BY <1>3, <2>2 DEF IInv, StageInv
  <2> QED  BY <2>1, <2>2
<1>9. ASSUME NEW d \in EdgeIds PROVE EdgeInv(d)'
  <2>a. d \in Nat /\ d >= 1 /\ Producer(d) \in Stages /\ Consumer(d) \in Stages
    BY ConstantTypes DEF EdgeIds
  <2>1. ASSUME NEW t \in {Producer(d), Consumer(d)}, NEW q \in 1 .. Len(path),
               path[q] = Edges[d].prod
        PROVE  Passed(t, d, q)' <=> Passed(t, d, q)
    <3>1. CASE t = s
      <4>1. q = pos[s] => d <= served[s]
        <5> SUFFICES ASSUME q = pos[s], ~(d <= served[s]) PROVE FALSE
          OBVIOUS
        <5>1. IsCall(s, d)
          BY <1>1, <2>1, <3>1 DEF IsCall
        <5>2. d \in served[s] + 1 .. Len(Edges)
          BY <1>2, <2>a DEF EdgeIds
        <5> QED  BY <1>1, <5>1, <5>2 DEF AllServed
      <4>2. pos'[s] = pos[s] + 1 /\ served'[s] = 0
        BY <1>3
      <4> QED  BY <1>2, <2>a, <3>1, <4>1, <4>2 DEF Passed
    <3>2. CASE t # s
      BY <1>3, <2>a, <3>2 DEF Passed
    <3> QED  BY <3>1, <3>2
  <2>2. SlotInv(d)'
    <3>1. CASE Consumer(d) = s
      <4>1. served'[s] = 0
        BY <1>3
      <4> QED  BY <2>a, <3>1, <4>1 DEF SlotInv, Consumer
    <3>2. CASE Consumer(d) # s
      <4>1. SlotInv(d)
        BY DEF IInv, EdgeInv
      <4> QED  BY <1>1, <1>3, <2>a, <3>2, <4>1 DEF SlotInv, Consumer
    <3> QED  BY <3>1, <3>2
  <2> QED  BY <1>1, <1>4, <2>1, <2>2, SamePlaces
<1> QED  BY <1>5, <1>6, <1>7, <1>8, <1>9 DEF IInv

LEMMA FinishStep ==
  ASSUME IInv, NEW s \in Stages, Finish(s)
  PROVE  IInv'
<1>1. /\ Alive(s) /\ pos[s] > Len(path) /\ AllServed(s)
      /\ ret' = IF s \in RetStages THEN "value" ELSE ret
      /\ status' = [status EXCEPT ![s] = "done"]
      /\ UNCHANGED <<path, driverVars, chanVars, pos, served, slot>>
  BY DEF Finish, AtExit
<1>2. /\ status[s] = "running" /\ ~InLoop(s) /\ Len(path) \in Nat /\ served[s] \in Nat
      /\ UNCHANGED <<dpc, dnext, queue, sent, rcvd, closed, ended>>
  <2>1. Len(path) \in Nat
    BY PathType DEF IInv, TypeOK
  <2>2. pos[s] \in Nat /\ served[s] \in Nat
    BY <2>1, ConstantTypes DEF IInv, TypeOK
  <2> QED  BY <1>1, <2>1, <2>2 DEF Alive, InLoop, driverVars, chanVars
<1>3. TypeOK'
  BY StageTypes DEF IInv, StageNext
<1>4. \A t \in Stages : status'[t] = IF t = s THEN "done" ELSE status[t]
  BY <1>1 DEF IInv, TypeOK
<1>5. DriverInv'
  BY <1>2, <1>4 DEF IInv, DriverInv
<1>6. HandleInv' /\ CloseInv'
  BY <1>1, <1>2, <1>4 DEF IInv, HandleInv, CloseInv, Producer, Consumer
<1>7. \A d \in EdgeIds : Producer(d) = s => closed[d]
  <2> SUFFICES ASSUME NEW d \in EdgeIds, Producer(d) = s PROVE closed[d]
    OBVIOUS
  <2>1. IsCall(s, d)
    BY <1>2 DEF IsCall
  <2>2. d \notin served[s] + 1 .. Len(Edges)
    BY <1>1, <2>1 DEF AllServed
  <2>3. d <= served[s]
    BY <1>2, <2>2, ConstantTypes DEF EdgeIds
  <2> QED  BY <1>1, <2>3 DEF IInv, StageInv
<1>8. StageInv'
  <2> SUFFICES ASSUME NEW t \in Stages
               PROVE  /\ status'[t] \in {"unborn", "failed"} => pos[t] = 1 /\ served[t] = 0
                      /\ pos[t] > Len(path) =>
                           \A d \in EdgeIds : d <= served[t] /\ Producer(d) = t => closed[d]
                      /\ status'[t] = "done" =>
                           /\ pos[t] > Len(path)
                           /\ \A d \in EdgeIds : Producer(d) = t => closed[d]
                           /\ t \in RetStages => ret' = "value"
    BY <1>1, <1>2 DEF StageInv, Producer
  <2>1. CASE t = s
    BY <1>1, <1>4, <1>7, <2>1
  <2>2. CASE t # s
    BY <1>1, <1>4, <2>2 DEF IInv, StageInv
  <2> QED  BY <2>1, <2>2
<1>9. ASSUME NEW d \in EdgeIds PROVE EdgeInv(d)'
  <2>1. \A t, q : Passed(t, d, q)' <=> Passed(t, d, q)
    BY <1>1 DEF Passed
  <2>2. SlotInv(d)'
    BY <1>1 DEF IInv, EdgeInv, SlotInv, Consumer
  <2> QED  BY <1>1, <1>2, <2>1, <2>2, SamePlaces
<1> QED  BY <1>3, <1>5, <1>6, <1>8, <1>9 DEF IInv

---------------------------------------------------------------------------
(* The invariant holds. *)

LEMMA StutterStep == IInv /\ UNCHANGED vars => IInv'
<1> SUFFICES ASSUME IInv, UNCHANGED vars PROVE IInv'
  OBVIOUS
<1>1. UNCHANGED <<path, dpc, dnext, queue, chanVars, status, stageVars>>
  BY DEF vars, driverVars
<1>2. TypeOK' /\ DriverInv'
  BY <1>1 DEF IInv, TypeOK, DriverInv, chanVars, stageVars
<1>3. HandleInv' /\ StageInv'
  BY <1>1 DEF IInv, HandleInv, StageInv, chanVars, stageVars, Producer, Consumer
<1> QED  BY <1>1, <1>2, <1>3, ClosedQueues, EdgesOutsideDriver DEF IInv

LEMMA StageStep ==
  ASSUME IInv, NEW s \in Stages, StageNext(s)
  PROVE  IInv'
  BY EnqueueStep, DequeueStep, SendEofStep, CallOnNullStep, AdvanceStep, FinishStep
     DEF StageNext

LEMMA StepCorrect == IInv /\ [Next]_vars => IInv'
<1> SUFFICES ASSUME IInv, [Next]_vars PROVE IInv'
  OBVIOUS
<1>1. CASE DriverNext
  BY <1>1, CreateQueueStep, SpawnStageStep, JoinStep, DestroyQueueStep, NextPhaseStep
     DEF DriverNext
<1>2. CASE \E s \in Stages : StageNext(s)
  BY <1>2, StageStep
<1>3. CASE Terminated \/ UNCHANGED vars
  BY <1>3, StutterStep DEF Terminated
<1> QED  BY <1>1, <1>2, <1>3 DEF Next

LEMMA Invariance == Spec => []IInv
  BY InitCorrect, StepCorrect, PTL DEF Spec

---------------------------------------------------------------------------
(* The theorems. *)

(* Every variable keeps its type. *)
THEOREM TypeCorrect == Spec => []TypeOK
<1>1. IInv => TypeOK
  BY DEF IInv
<1> QED  BY <1>1, Invariance, PTL

(* A stage that uses a value of another stage has the one of its own       *)
(* iteration and place, however far the two have drifted apart.            *)
THEOREM SameIteration == Spec => []ValuesMatchIteration
<1>1. IInv => ValuesMatchIteration
  <2> SUFFICES ASSUME IInv, NEW s \in Stages, InLoop(s), NEW e \in 1 .. served[s],
                      IsCall(s, e), Consumer(e) = s
               PROVE  slot[e] = pos[s]
    BY DEF ValuesMatchIteration
  <2>1. served[s] \in 0 .. Len(Edges) /\ Len(Edges) \in Nat
    BY ConstantTypes DEF IInv, TypeOK
  <2>2. e \in EdgeIds /\ e <= served[s]
    BY <2>1 DEF EdgeIds
  <2> QED  BY <2>2 DEF IInv, EdgeInv, SlotInv, IsCall, InLoop
<1> QED  BY <1>1, Invariance, PTL

(* No dequeue of a stage ever reports the end of its queue. *)
THEOREM NoEarlyEnd == Spec => []DequeueNeverFails
<1>1. IInv => DequeueNeverFails
  BY DEF IInv, EdgeInv, DequeueNeverFails
<1> QED  BY <1>1, Invariance, PTL

LEMMA NothingFailed ==
  ASSUME Faults = 0, TypeOK
  PROVE  /\ \A e \in EdgeIds : queue[e] # "null"
         /\ \A s \in Stages : status[s] # "failed"
<1> DEFINE Q == {e \in EdgeIds : queue[e] = "null"}
           S == {s \in Stages : status[s] = "failed"}
<1>1. IsFiniteSet(EdgeIds) /\ IsFiniteSet(Stages)
  BY ConstantTypes, FS_Interval DEF EdgeIds, Stages
<1>2. IsFiniteSet(Q) /\ IsFiniteSet(S)
  BY <1>1, FS_Subset
<1>3. Cardinality(Q) \in Nat /\ Cardinality(S) \in Nat
  BY <1>2, FS_CardinalityType
<1>4. Cardinality(Q) = 0 /\ Cardinality(S) = 0
  BY <1>3 DEF Faults
<1>5. Q = {} /\ S = {}
  BY <1>2, <1>4, FS_EmptySet
<1> QED  BY <1>5

(* What a stage that is done, or never started, leaves on its edges. *)
LEMMA PassedByDone ==
  ASSUME IInv, NEW s \in Stages, NEW e \in EdgeIds, NEW p \in 1 .. Len(path)
  PROVE  /\ status[s] = "done" => Passed(s, e, p)
         /\ status[s] = "failed" => ~Passed(s, e, p)
<1>1. Len(path) \in Nat /\ e >= 1 /\ e \in Nat
  BY PathType, ConstantTypes DEF IInv, TypeOK, EdgeIds
<1>2. pos[s] \in Nat
  BY <1>1 DEF IInv, TypeOK
<1>3. ASSUME status[s] = "done" PROVE Passed(s, e, p)
  <2>1. pos[s] > Len(path)
    BY <1>3 DEF IInv, StageInv
  <2> QED  BY <1>1, <1>2, <2>1 DEF Passed
<1>4. ASSUME status[s] = "failed" PROVE ~Passed(s, e, p)
  <2>1. pos[s] = 1 /\ served[s] = 0
    BY <1>4 DEF IInv, StageInv
  <2> QED  BY <1>1, <2>1 DEF Passed
<1> QED  BY <1>3, <1>4

LEMMA EdgeTypes ==
  ASSUME IInv, NEW e \in EdgeIds
  PROVE  /\ EdgeInv(e) /\ sent[e] \in Seq(1 .. Len(path)) /\ rcvd[e] \in Seq(1 .. Len(path))
         /\ Len(sent[e]) \in Nat /\ Len(rcvd[e]) \in Nat
         /\ Len(path) \in Nat /\ path \in Paths
         /\ \A p : Has(sent[e], p) \/ Has(rcvd[e], p) => p \in 1 .. Len(path)
<1>1. /\ EdgeInv(e) /\ sent[e] \in Seq(1 .. Len(path)) /\ rcvd[e] \in Seq(1 .. Len(path))
      /\ Len(path) \in Nat /\ path \in Paths
  BY PathType DEF IInv, TypeOK
<1>2. ASSUME NEW q \in Seq(1 .. Len(path)), NEW p, Has(q, p) PROVE p \in 1 .. Len(path)
  BY <1>2, SeqElement DEF Has
<1> QED  BY <1>1, <1>2

LEMMA TakenByDone ==
  ASSUME IInv, NEW e \in EdgeIds, status[Consumer(e)] = "done"
  PROVE  rcvd[e] = sent[e]
<1> DEFINE n == Len(rcvd[e])
<1>1. n \in Nat /\ Len(sent[e]) \in Nat /\ n <= Len(sent[e])
  BY EdgeTypes DEF EdgeInv, OrderInv
<1>2. ~(n < Len(sent[e]))
  <2> SUFFICES ASSUME n < Len(sent[e]) PROVE FALSE
    OBVIOUS
  <2>1. n + 1 \in 1 .. Len(sent[e])
    BY <1>1
  <2>2. Has(sent[e], sent[e][n + 1]) /\ sent[e][n + 1] \in 1 .. Len(path)
    BY <2>1, EdgeTypes DEF Has
  <2>3. path[sent[e][n + 1]] = Edges[e].prod
    BY <2>2, EdgeTypes DEF EdgeInv, SentInv
  <2>4. Has(rcvd[e], sent[e][n + 1])
    BY <2>2, <2>3, EdgeTypes, PassedByDone, ConstantTypes DEF EdgeInv, RcvdInv
  <2>5. PICK k \in 1 .. n : rcvd[e][k] = sent[e][n + 1]
    BY <2>4 DEF Has
  <2>6. k \in 1 .. Len(sent[e]) /\ k < n + 1
    BY <1>1
  <2>7. sent[e][k] < sent[e][n + 1]
    BY <2>1, <2>6, EdgeTypes DEF EdgeInv, OrderInv
  <2>8. sent[e][k] = sent[e][n + 1]
    BY <2>5, EdgeTypes DEF EdgeInv, OrderInv
  <2>9. sent[e][n + 1] \in Nat
    BY <2>2, EdgeTypes
  <2> QED  BY <2>7, <2>8, <2>9
<1>3. n = Len(sent[e])
  BY <1>1, <1>2
<1>4. \A k \in 1 .. n : rcvd[e][k] = sent[e][k]
  BY EdgeTypes DEF EdgeInv, OrderInv
<1> QED  BY <1>3, <1>4, EdgeTypes, SameSequence

(* The driver's frees come after the last use of a queue, and if nothing   *)
(* failed each queue is closed and drained by then.                        *)
THEOREM FreeIsLast == Spec => []QueuesOutliveStages
<1>1. IInv => QueuesOutliveStages
  <2> SUFFICES ASSUME IInv PROVE QueuesOutliveStages
    OBVIOUS
  <2>1. ASSUME NEW e \in EdgeIds, queue[e] = "destroyed", Faults = 0
        PROVE  closed[e] /\ rcvd[e] = sent[e]
    <3>1. dpc \in {"destroy", "returned"}
      BY <2>1 DEF IInv, TypeOK, DriverInv
    <3>2. \A s \in Stages : status[s] = "done"
      BY <2>1, <3>1, NothingFailed DEF IInv, DriverInv
    <3>3. closed[e]
      BY <3>2, ConstantTypes DEF IInv, StageInv
    <3>4. rcvd[e] = sent[e]
      BY <3>2, ConstantTypes, TakenByDone
    <3> QED  BY <3>3, <3>4
  <2> QED  BY <2>1 DEF IInv, HandleInv, QueuesOutliveStages
<1> QED  BY <1>1, Invariance, PTL

(* If nothing failed to be created, the driver reads the live-out after    *)
(* the stage that has it stored it.                                        *)
THEOREM LiveOutIsStored == Spec => []LiveOutReady
<1>1. IInv => LiveOutReady
  <2> SUFFICES ASSUME IInv, dpc \in {"destroy", "returned"}, RetStages # {}, Faults = 0
               PROVE  ret = "value"
    BY DEF LiveOutReady, IInv
  <2>1. PICK s \in RetStages : s \in Stages
    BY PipelineAssumption
  <2>2. status[s] = "done"
    BY <2>1, NothingFailed DEF IInv, DriverInv
  <2> QED  BY <2>1, <2>2 DEF IInv, StageInv
<1> QED  BY <1>1, Invariance, PTL

(* The oldest value that an edge's consumer has not taken yet is computed  *)
(* at a position of the path that the producer has passed and the consumer *)
(* has not.                                                                *)
LEMMA Oldest ==
  ASSUME IInv, NEW e \in EdgeIds, Len(rcvd[e]) < Len(sent[e])
  PROVE  \E p \in 1 .. Len(path) : /\ path[p] = Edges[e].prod
                                   /\ Passed(Producer(e), e, p) /\ ~Passed(Consumer(e), e, p)
<1> DEFINE n == Len(rcvd[e])
           p == sent[e][n + 1]
<1>1. n \in Nat /\ Len(sent[e]) \in Nat /\ n + 1 \in 1 .. Len(sent[e])
  BY EdgeTypes
<1>2. Has(sent[e], p) /\ p \in 1 .. Len(path)
  BY <1>1, EdgeTypes DEF Has
<1>3. path[p] = Edges[e].prod /\ Passed(Producer(e), e, p)
  BY <1>2, EdgeTypes DEF EdgeInv, SentInv
<1>4. ~Has(rcvd[e], p)
  <2> SUFFICES ASSUME Has(rcvd[e], p) PROVE FALSE
    OBVIOUS
  <2>1. PICK k \in 1 .. n : rcvd[e][k] = p
    BY DEF Has
  <2>2. k \in 1 .. Len(sent[e]) /\ k < n + 1
    BY <1>1
  <2>3. sent[e][k] < p
    BY <1>1, <2>2, EdgeTypes DEF EdgeInv, OrderInv
  <2>4. sent[e][k] = p
    BY <2>1, EdgeTypes DEF EdgeInv, OrderInv
  <2>5. p \in Nat
    BY <1>2, EdgeTypes
  <2> QED  BY <2>3, <2>4, <2>5
<1>5. ~Passed(Consumer(e), e, p)
  BY <1>2, <1>3, <1>4, EdgeTypes DEF EdgeInv, RcvdInv
<1> QED  BY <1>2, <1>3, <1>5

LEMMA FurthestBehind ==
  ASSUME TypeOK
  PROVE  \E s \in Stages : \A t \in Stages : pos[s] <= pos[t]
<1> DEFINE P == {pos[s] : s \in Stages}
<1>1. P \in SUBSET Nat /\ P # {}
  <2>1. \A s \in Stages : pos[s] \in Nat
    BY PathType DEF TypeOK
  <2>2. 0 \in Stages
    BY PipelineAssumption DEF Stages
  <2> QED  BY <2>1, <2>2
<1>2. PICK m \in P : \A k \in P : m <= k
  <2> HIDE DEF P
  <2> QED  BY <1>1, Smallest
<1> QED  BY <1>2

(* Room in a queue, with its two counters as plain numbers.                *)
LEMMA Room ==
  ASSUME NEW a \in Nat, NEW b \in Nat, NEW c \in Nat \ {0}
  PROVE  /\ a - b >= c => ~(a - b < c)
         /\ ~(a - b < c) => b < a
  OBVIOUS

(* A stage that is furthest behind waits for no room: what fills a queue   *)
(* of its own is passed by the stage itself and not by the consumer.       *)
LEMMA RoomForTheLast ==
  ASSUME IInv, NEW s \in Stages, \A t \in Stages : pos[s] <= pos[t],
         NEW e \in EdgeIds, Producer(e) = s, served[s] < e,
         pos[s] <= Len(path) => path[pos[s]] = Edges[e].prod
  PROVE  Len(sent[e]) - Len(rcvd[e]) < Capacity
<1> SUFFICES ASSUME ~(Len(sent[e]) - Len(rcvd[e]) < Capacity) PROVE FALSE
  OBVIOUS
<1>1. Len(rcvd[e]) < Len(sent[e])
  <2>1. Len(sent[e]) \in Nat /\ Len(rcvd[e]) \in Nat /\ Capacity \in Nat \ {0}
    BY EdgeTypes, PipelineAssumption
  <2> QED  BY <2>1, Room
<1>2. PICK p \in 1 .. Len(path) : Passed(s, e, p) /\ ~Passed(Consumer(e), e, p)
  BY <1>1, Oldest
<1>3. /\ Consumer(e) \in Stages /\ pos[s] \in Nat /\ pos[Consumer(e)] \in Nat
      /\ served[s] \in Nat /\ e \in Nat /\ Len(path) \in Nat
  BY PathType, ConstantTypes DEF IInv, TypeOK, EdgeIds
<1>4. p < pos[s]
  BY <1>2, <1>3 DEF Passed
<1>5. p < pos[Consumer(e)]
  <2>1. pos[s] <= pos[Consumer(e)]
    BY <1>3
  <2> QED  BY <1>3, <1>4, <2>1
<1> QED  BY <1>2, <1>5 DEF Passed

(* A value that is computed at the place of a stage is in the queue, or    *)
(* was dequeued, as soon as its producer is further.                       *)
LEMMA ValueFromAhead ==
  ASSUME IInv, NEW e \in EdgeIds, NEW s \in Stages, Consumer(e) = s,
         pos[s] < pos[Producer(e)], served[s] < e,
         pos[s] \in 1 .. Len(path), path[pos[s]] = Edges[e].prod
  PROVE  Len(rcvd[e]) # Len(sent[e])
<1> SUFFICES ASSUME Len(rcvd[e]) = Len(sent[e]) PROVE FALSE
  OBVIOUS
<1>1. /\ pos[s] \in Nat /\ served[s] \in Nat /\ e \in Nat /\ pos[s] \in 1 .. Len(path)
      /\ ~Passed(s, e, pos[s])
  <2>1. pos[s] \in Nat /\ served[s] \in Nat /\ e \in Nat
    BY PathType, ConstantTypes DEF IInv, TypeOK, EdgeIds
  <2> QED  BY <2>1 DEF Passed
<1>2. Has(sent[e], pos[s])
  BY <1>1, EdgeTypes DEF EdgeInv, SentInv, Passed
<1>3. Has(rcvd[e], pos[s])
  <2>1. PICK k \in 1 .. Len(sent[e]) : sent[e][k] = pos[s]
    BY <1>2 DEF Has
  <2> QED  BY <2>1, EdgeTypes DEF EdgeInv, OrderInv, Has
<1>4. Passed(s, e, pos[s])
  BY <1>1, <1>3, EdgeTypes DEF EdgeInv, RcvdInv
<1> QED  BY <1>1, <1>4

(* If the stage that computes the instruction at the place of the furthest *)
(* behind is one of these, it can go on: it only sends there, and the      *)
(* others have taken all before.  If it is further, any of them can: what  *)
(* they wait for was sent.  No matter where the queues lead.               *)
THEOREM NoDeadlock == Spec => []NoCircularWait
<1>1. IInv => NoCircularWait
  <2> SUFFICES ASSUME IInv,
                      \A s \in Stages : status[s] \notin {"failed", "unborn"},
                      \E s \in Stages : status[s] # "done"
               PROVE  \E s \in Stages : status[s] = "running" /\ ~Blocked(s)
    BY DEF NoCircularWait
  <2>1. \A s \in Stages : status[s] \in {"running", "done"}
    BY DEF IInv, TypeOK
  <2>2. PICK s \in Stages : \A t \in Stages : pos[s] <= pos[t]
    BY FurthestBehind DEF IInv
  <2>3. Len(path) \in Nat
        /\ \A t \in Stages : pos[t] \in Nat /\ pos[t] \in 1 .. Len(path) + 1
    BY PathType DEF IInv, TypeOK
  <2>4. CASE pos[s] > Len(path)
    <3>1. PICK t \in Stages : status[t] = "running"
      BY <2>1
    <3>2. ~(pos[t] <= Len(path))
      BY <2>2, <2>3, <2>4
    <3>3. ~Blocked(t)
      BY <3>2 DEF Blocked, InLoop
    <3> QED  BY <3>1, <3>3
  <2>5. CASE pos[s] <= Len(path)
    <3> DEFINE i == path[pos[s]]
               t == StageOf[i]
    <3>1. pos[s] \in 1 .. Len(path) /\ i \in Instrs /\ t \in Stages
      <4>1. pos[s] \in 1 .. Len(path)
        BY <2>3, <2>5
      <4>2. i \in Instrs
        BY <4>1 DEF IInv, TypeOK, Paths
      <4> QED  BY <4>1, <4>2, PipelineAssumption
    <3>2. \A r \in Stages : pos[r] = pos[s] => status[r] = "running"
      <4>1. \A r \in Stages : status[r] = "done" => pos[r] > Len(path)
        BY DEF IInv, StageInv
      <4> QED  BY <2>1, <2>3, <2>5, <4>1
    <3>3. \A r \in Stages : Blocked(r) /\ pos[r] = pos[s] =>
            \E e \in EdgeIds : /\ served[r] < e /\ i = Edges[e].prod /\ Producer(e) = t
                              /\ r \in {t, Consumer(e)}
                              /\ IF t = r THEN ~(Len(sent[e]) - Len(rcvd[e]) < Capacity)
                                          ELSE Len(rcvd[e]) = Len(sent[e])
      <4>1. ASSUME NEW e \in EdgeIds
            PROVE  Len(sent[e]) - Len(rcvd[e]) >= Capacity =>
                     ~(Len(sent[e]) - Len(rcvd[e]) < Capacity)
        <5>1. Len(sent[e]) \in Nat /\ Len(rcvd[e]) \in Nat /\ Capacity \in Nat \ {0}
          BY EdgeTypes, PipelineAssumption
        <5> QED  BY <5>1, Room
      <4> QED  BY <4>1 DEF Blocked, IsNextCall, IsCall, Producer
    <3>4. CASE pos[t] = pos[s]
      <4>1. ~Blocked(t)
        <5> SUFFICES ASSUME Blocked(t) PROVE FALSE
          OBVIOUS
        <5>1. PICK e \in EdgeIds : /\ served[t] < e /\ i = Edges[e].prod /\ Producer(e) = t
                                  /\ ~(Len(sent[e]) - Len(rcvd[e]) < Capacity)
          BY <3>1, <3>3, <3>4
        <5>2. Len(sent[e]) - Len(rcvd[e]) < Capacity
          <6>1. \A r \in Stages : pos[t] <= pos[r]
            BY <2>2, <3>4
          <6>2. path[pos[t]] = Edges[e].prod
            BY <3>4, <5>1
          <6> HIDE DEF t, i
          <6> QED  BY <3>1, <5>1, <6>1, <6>2, RoomForTheLast
        <5> QED  BY <5>1, <5>2
      <4> QED  BY <3>1, <3>2, <3>4, <4>1
    <3>5. CASE pos[t] # pos[s]
      <4>1. pos[s] < pos[t]
        <5>1. pos[s] <= pos[t]
          BY <2>2, <3>1
        <5> HIDE DEF t
        <5> QED  BY <2>3, <3>1, <3>5, <5>1
      <4>2. ~Blocked(s)
        <5> SUFFICES ASSUME Blocked(s) PROVE FALSE
          OBVIOUS
        <5>1. PICK e \in EdgeIds : /\ served[s] < e /\ i = Edges[e].prod /\ Producer(e) = t
                                  /\ s = Consumer(e) /\ Len(rcvd[e]) = Len(sent[e])
          BY <3>3, <3>5
        <5> HIDE DEF t
        <5> QED  BY <3>1, <4>1, <5>1, ValueFromAhead
      <4> QED  BY <3>2, <4>2
    <3> QED  BY <3>4, <3>5
  <2> QED  BY <2>3, <2>4, <2>5
<1> QED  BY <1>1, Invariance, PTL

(* The function never returns past a queue that could not be created, and  *)
(* past a stage that did not start only if no value was waited for.        *)
THEOREM FailuresAreNotSilent == Spec => []FailuresShow
<1>1. IInv => FailuresShow
  <2> SUFFICES ASSUME IInv, dpc = "returned", NEW e \in EdgeIds
               PROVE  LET sends == status[Producer(e)] = "done"
                          takes == status[Consumer(e)] = "done"
                      IN /\ queue[e] = "null" => ~sends
                         /\ takes /\ ~sends => Uses(Edges[e].prod) = 0
                         /\ sends /\ ~takes => Uses(Edges[e].prod) <= Capacity
    BY DEF FailuresShow
  <2> DEFINE U == {p \in 1 .. Len(path) : path[p] = Edges[e].prod}
  <2>1. \A s \in Stages : status[s] # "done" => status[s] = "failed"
    BY DEF IInv, DriverInv
  <2>2. ASSUME queue[e] = "null", status[Producer(e)] = "done" PROVE FALSE
    BY <2>2, ConstantTypes DEF IInv, StageInv, CloseInv
  <2>3. ASSUME status[Consumer(e)] = "done", status[Producer(e)] # "done"
        PROVE  Uses(Edges[e].prod) = 0
    <3>1. status[Producer(e)] = "failed"
      BY <2>1, <2>3, ConstantTypes
    <3>2. ASSUME NEW p \in U PROVE FALSE
      <4>1. ~Has(sent[e], p)
        BY <3>1, EdgeTypes, PassedByDone, ConstantTypes DEF EdgeInv, SentInv
      <4>2. Has(rcvd[e], p)
        BY <2>3, EdgeTypes, PassedByDone, ConstantTypes DEF EdgeInv, RcvdInv
      <4> QED  BY <2>3, <4>1, <4>2, TakenByDone
    <3>3. U = {}
      BY <3>2
    <3> QED  BY <3>3, FS_EmptySet DEF Uses
  <2>4. ASSUME status[Producer(e)] = "done", status[Consumer(e)] # "done"
        PROVE  Uses(Edges[e].prod) <= Capacity
    <3>1. status[Consumer(e)] = "failed"
      BY <2>1, <2>4, ConstantTypes
    <3>2. Len(rcvd[e]) = 0
      <4> SUFFICES ASSUME Len(rcvd[e]) # 0 PROVE FALSE
        OBVIOUS
      <4>1. 1 \in 1 .. Len(rcvd[e])
        BY EdgeTypes
      <4>2. Has(rcvd[e], rcvd[e][1]) /\ rcvd[e][1] \in 1 .. Len(path)
        BY <4>1, EdgeTypes DEF Has
      <4> QED
        BY <3>1, <4>2, EdgeTypes, PassedByDone, ConstantTypes DEF EdgeInv, RcvdInv
    <3>3. Len(sent[e]) <= Capacity
      BY <3>2, EdgeTypes, ConstantTypes DEF EdgeInv, OrderInv
    <3>4. \A p : p \in U <=> Has(sent[e], p)
      BY <2>4, EdgeTypes, PassedByDone, ConstantTypes DEF EdgeInv, SentInv
    <3>5. sent[e] \in Surjection(1 .. Len(sent[e]), U)
      <4>1. sent[e] \in [1 .. Len(sent[e]) -> U]
        <5>1. \A k \in 1 .. Len(sent[e]) : sent[e][k] \in U
          BY <3>4 DEF Has
        <5> HIDE DEF U
        <5> QED  BY <5>1, EdgeTypes, SeqInto
      <4> QED  BY <3>4, <4>1 DEF Surjection, Has
    <3>6. IsFiniteSet(1 .. Len(sent[e])) /\ Cardinality(1 .. Len(sent[e])) = Len(sent[e])
      BY EdgeTypes, InitialSegment
    <3>7. Cardinality(U) <= Len(sent[e]) /\ Cardinality(U) \in Nat
      BY <3>5, <3>6, FS_Surjection, FS_CardinalityType
    <3> HIDE DEF U
    <3>8. Cardinality(U) <= Capacity
      BY <3>3, <3>7, EdgeTypes, ConstantTypes
    <3> QED  BY <3>8 DEF Uses, U
  <2> QED  BY <2>2, <2>3, <2>4
<1> QED  BY <1>1, Invariance, PTL

(* The two stages of an edge use its queue as a bounded channel: one       *)
(* enqueue at a time that fits, no enqueue after EOF, every dequeue the    *)
(* next value.                                                             *)
LEMMA EdgeStep ==
  ASSUME IInv, [Next]_vars, NEW e \in EdgeIds
  PROVE  Channel(e)!Next \/ UNCHANGED Channel(e)!chanVars
<1> USE DEF Channel!Next, Channel!Send, Channel!Close, Channel!Receive, Channel!chanVars
<1>1. CASE DriverNext \/ Terminated \/ UNCHANGED vars
  BY <1>1 DEF DriverNext, CreateQueue, SpawnStage, JoinStage, JoinGarbage, DestroyQueue,
              NextPhase, Terminated, vars, chanVars
<1>2. ASSUME NEW s \in Stages, StageNext(s)
      PROVE  Channel(e)!Next \/ UNCHANGED Channel(e)!chanVars
  <2>a. /\ sent \in [EdgeIds -> Seq(1 .. Len(path))] /\ rcvd \in [EdgeIds -> Seq(1 .. Len(path))]
        /\ closed \in [EdgeIds -> BOOLEAN]
    BY DEF IInv, TypeOK
  <2>1. ASSUME NEW d \in EdgeIds, Enqueue(s, d)
        PROVE  Channel(e)!Next \/ UNCHANGED Channel(e)!chanVars
    <3>1. /\ sent' = [sent EXCEPT ![d] = Append(@, pos[s])]
          /\ UNCHANGED <<rcvd, closed, ended>>
          /\ Len(sent[d]) - Len(rcvd[d]) < Capacity
      BY <2>1 DEF Enqueue
    <3>2. ~closed[d]
      <4>1. Alive(s) /\ pos[s] <= Len(path) /\ Producer(d) = s
        BY <2>1 DEF Enqueue, InLoop
      <4>2. pos[s] \in Nat /\ Len(path) \in Nat
        BY <4>1, RunningStage
      <4> QED  BY <4>1, <4>2 DEF IInv, CloseInv
    <3>3. pos[s] \in 1 .. MaxPath
      <4>1. pos[s] <= Len(path) /\ pos[s] \in 1 .. Len(path) + 1
        BY <2>1, RunningStage DEF Enqueue, InLoop
      <4>2. Len(path) \in 0 .. MaxPath
        BY PipelineAssumption DEF IInv, TypeOK, Paths
      <4> QED  BY <4>1, <4>2, PipelineAssumption
    <3>4. CASE d = e
      BY <2>a, <3>1, <3>2, <3>3, <3>4
    <3>5. CASE d # e
      BY <2>a, <3>1, <3>5
    <3> QED  BY <3>4, <3>5
  <2>2. ASSUME NEW d \in EdgeIds, Dequeue(s, d)
        PROVE  Channel(e)!Next \/ UNCHANGED Channel(e)!chanVars
    <3>1. Len(rcvd[d]) < Len(sent[d])
      BY <2>2, NextValue DEF Dequeue
    <3>2. /\ rcvd' = [rcvd EXCEPT ![d] = Append(@, sent[d][Len(rcvd[d]) + 1])]
          /\ UNCHANGED <<sent, closed, ended>>
      BY <2>2, <3>1 DEF Dequeue
    <3>3. CASE d = e
      BY <2>a, <3>1, <3>2, <3>3
    <3>4. CASE d # e
      BY <2>a, <3>2, <3>4
    <3> QED  BY <3>3, <3>4
  <2>3. ASSUME NEW d \in EdgeIds, SendEof(s, d)
        PROVE  Channel(e)!Next \/ UNCHANGED Channel(e)!chanVars
    BY <2>a, <2>3 DEF SendEof
  <2>4. CASE (\E d \in EdgeIds : CallOnNull(s, d)) \/ Advance(s) \/ Finish(s)
    BY <2>4 DEF CallOnNull, Advance, Finish, chanVars
  <2> QED  BY <1>2, <2>1, <2>2, <2>3, <2>4 DEF StageNext
<1> QED  BY <1>1, <1>2 DEF Next

THEOREM ChannelsAreUsedWell == Spec => EdgesAreChannels
<1>1. Init => \A e \in EdgeIds : Channel(e)!Init
  BY DEF Init, Channel!Init
<1>2. IInv /\ [Next]_vars =>
        [\A e \in EdgeIds : Channel(e)!Next \/ UNCHANGED Channel(e)!chanVars]_chanVars
  BY EdgeStep
<1> QED  BY <1>1, <1>2, Invariance, PTL DEF Spec, EdgesAreChannels
=============================================================================
