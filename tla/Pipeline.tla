------------------------------ MODULE Pipeline ------------------------------
(***************************************************************************)
(* The code the transform emits (pass/DSWPTransform.cpp, namespace         *)
(* cloned): the driver that replaces the function's body, and one thread   *)
(* per stage, joined by one bounded channel per cross-stage edge.          *)
(*                                                                         *)
(* Every stage runs a clone of the whole loop, with its control flow       *)
(* replicated, so all stages execute the same PATH: the sequence of the    *)
(* non-replicated instructions whose value crosses stages, in execution    *)
(* order, over all iterations and conditionals.  At an                     *)
(* instruction of its own a stage enqueues the value on each outgoing      *)
(* edge; in the place of another stage's instruction it dequeues, if it    *)
(* uses that value at all.  A value is represented by the position of the  *)
(* path that computed it.                                                  *)
(*                                                                         *)
(* Channels behave as BoundedChannel says, which QueueProofs proves of the *)
(* ring buffer.                                                            *)
(*                                                                         *)
(* The emitted code looks at no result: dswp_queue_create may have         *)
(* returned null, and pthread_create may have started nothing.             *)
(***************************************************************************)
EXTENDS Integers, Sequences, FiniteSets

CONSTANTS
  NumStages,    \* number of stage functions
  Instrs,       \* the loop's instructions whose value crosses stages
  StageOf,      \* the stage that computes each of them
  Edges,        \* the cross edges in the order findCrossEdges lists them
  RetStages,    \* the stages whose exit block stores the live-out
  Capacity,     \* slots of a queue
  MaxPath,      \* bound: length of the executed path
  MaxFaults     \* bound: creations of queues and threads that fail

Stages == 0 .. NumStages - 1
EdgeIds == 1 .. Len(Edges)

ASSUME PipelineAssumption ==
  /\ NumStages \in Nat \ {0} /\ Capacity \in Nat \ {0} /\ MaxPath \in Nat
  /\ MaxFaults \in Nat
  /\ StageOf \in [Instrs -> Stages]
  /\ Edges \in Seq([prod : Instrs, to : Stages])
  /\ \A e \in EdgeIds : Edges[e].to # StageOf[Edges[e].prod]
  /\ \A d, e \in EdgeIds : Edges[d] = Edges[e] => d = e
  /\ RetStages \subseteq Stages

VARIABLES
  path,           \* the instructions the loop executes, fixed by the input data
  dpc, dnext,     \* driver: phase, and how many queues or stages it has handled
  queue,          \* "none", "open", "destroyed" or "null", per edge
  sent, rcvd,     \* per edge: values enqueued and values dequeued so far
  closed,         \* per edge: EOF sent
  ended,          \* per edge: a dequeue has returned false
  status,         \* per stage: "unborn", "running", "done" or "failed"
  pos, served,    \* per stage: place in the path, last edge served there
  slot,           \* per edge: the value in the consumer's stack slot
  ret             \* the live-out field of the argument struct

chanVars == <<sent, rcvd, closed, ended>>
driverVars == <<dpc, dnext, queue>>
stageVars == <<pos, served, slot, ret>>
vars == <<path, driverVars, chanVars, status, stageVars>>

Producer(e) == StageOf[Edges[e].prod]
Consumer(e) == Edges[e].to
Faults ==
  Cardinality({e \in EdgeIds : queue[e] = "null"}) +
  Cardinality({s \in Stages : status[s] = "failed"})
Paths == UNION {[1 .. n -> Instrs] : n \in 0 .. MaxPath}

Init ==
  /\ path \in Paths
  /\ dpc = "create" /\ dnext = 0
  /\ queue = [e \in EdgeIds |-> "none"]
  /\ sent = [e \in EdgeIds |-> <<>>]
  /\ rcvd = [e \in EdgeIds |-> <<>>]
  /\ closed = [e \in EdgeIds |-> FALSE]
  /\ ended = [e \in EdgeIds |-> FALSE]
  /\ status = [s \in Stages |-> "unborn"]
  /\ pos = [s \in Stages |-> 1]
  /\ served = [s \in Stages |-> 0]
  /\ slot = [e \in EdgeIds |-> 0]
  /\ ret = "null"

---------------------------------------------------------------------------
(* The driver: create every queue, start every stage, join every stage in  *)
(* the order it started them, destroy every queue, return the live-out.    *)

CreateQueue ==
  /\ dpc = "create" /\ dnext < Len(Edges)
  /\ \/ queue' = [queue EXCEPT ![dnext + 1] = "open"]
     \/ queue' = [queue EXCEPT ![dnext + 1] = "null"] /\ Faults < MaxFaults
  /\ dnext' = dnext + 1
  /\ UNCHANGED <<path, dpc, chanVars, status, stageVars>>

(* pthread_create: the stage may run at once, before later ones exist. *)
SpawnStage ==
  /\ dpc = "spawn" /\ dnext < NumStages
  /\ \/ status' = [status EXCEPT ![dnext] = "running"]
     \/ status' = [status EXCEPT ![dnext] = "failed"] /\ Faults < MaxFaults
  /\ dnext' = dnext + 1
  /\ UNCHANGED <<path, dpc, queue, chanVars, stageVars>>

(* Mutant: the driver does not wait. *)
DetachStage ==
  /\ dpc = "join" /\ dnext < NumStages
  /\ dnext' = dnext + 1
  /\ UNCHANGED <<path, dpc, queue, chanVars, status, stageVars>>

(* pthread_join blocks until that stage has returned. *)
JoinStage ==
  /\ dpc = "join" /\ dnext < NumStages
  /\ status[dnext] = "done"
  /\ dnext' = dnext + 1
  /\ UNCHANGED <<path, dpc, queue, chanVars, status, stageVars>>

(* The handle of a stage that did not start is uninitialised memory: the   *)
(* join returns at once, crashes, or (no step) never returns.              *)
JoinGarbage ==
  /\ dpc = "join" /\ dnext < NumStages
  /\ status[dnext] = "failed"
  /\ \/ dnext' = dnext + 1 /\ UNCHANGED dpc
     \/ dpc' = "crashed" /\ UNCHANGED dnext
  /\ UNCHANGED <<path, queue, chanVars, status, stageVars>>

(* dswp_queue_destroy does nothing for null. *)
DestroyQueue ==
  /\ dpc = "destroy" /\ dnext < Len(Edges)
  /\ queue' = [queue EXCEPT ![dnext + 1] = IF @ = "null" THEN @ ELSE "destroyed"]
  /\ dnext' = dnext + 1
  /\ UNCHANGED <<path, dpc, chanVars, status, stageVars>>

(* The driver's straight-line code goes from one phase to the next. *)
NextPhase ==
  /\ \/ dpc = "create"  /\ dnext = Len(Edges) /\ dpc' = "spawn"
     \/ dpc = "spawn"   /\ dnext = NumStages  /\ dpc' = "join"
     \/ dpc = "join"    /\ dnext = NumStages  /\ dpc' = "destroy"
     \/ dpc = "destroy" /\ dnext = Len(Edges) /\ dpc' = "returned"
  /\ dnext' = 0
  /\ UNCHANGED <<path, queue, chanVars, status, stageVars>>

---------------------------------------------------------------------------
(* A stage. *)

Alive(s) == status[s] = "running" /\ dpc # "crashed"
InLoop(s) == Alive(s) /\ pos[s] <= Len(path)
AtExit(s) == Alive(s) /\ pos[s] > Len(path)

(* Mutant: a value is taken by the next stage only. *)
IsCallOfNeighbour(s, e) ==
  IF InLoop(s) THEN Edges[e].prod = path[pos[s]] /\ s \in {Producer(e), Consumer(e)}
                    /\ (s = Consumer(e) => s = Producer(e) + 1)
               ELSE Producer(e) = s

(* The queue calls a stage makes where it stands: enqueues after its own   *)
(* instruction, a dequeue in the place of a used foreign one, and in the   *)
(* exit block an EOF per outgoing edge; in the order of the edges.         *)
IsCall(s, e) ==
  IF InLoop(s) THEN Edges[e].prod = path[pos[s]] /\ s \in {Producer(e), Consumer(e)}
               ELSE Producer(e) = s
AllServed(s) == \A e \in served[s] + 1 .. Len(Edges) : ~IsCall(s, e)
IsNextCall(s, e) ==
  /\ served[s] < e /\ IsCall(s, e)
  /\ \A d \in served[s] + 1 .. e - 1 : ~IsCall(s, d)

(* Mutant: the queue does not hold the producer back. *)
EnqueueUnbounded(s, e) ==
  /\ InLoop(s) /\ IsNextCall(s, e) /\ Producer(e) = s
  /\ sent' = [sent EXCEPT ![e] = Append(@, pos[s])]
  /\ served' = [served EXCEPT ![s] = e]
  /\ UNCHANGED <<path, driverVars, rcvd, closed, ended, status, pos, slot, ret>>

(* Every queue call dereferences the handle: a null one ends the process.  *)
CallOnNull(s, e) ==
  /\ Alive(s) /\ IsNextCall(s, e) /\ queue[e] = "null"
  /\ dpc' = "crashed"
  /\ UNCHANGED <<path, dnext, queue, chanVars, status, stageVars>>

(* dswp_enqueue of the value just computed; blocks while the queue is full. *)
Enqueue(s, e) ==
  /\ InLoop(s) /\ IsNextCall(s, e) /\ Producer(e) = s /\ queue[e] # "null"
  /\ Len(sent[e]) - Len(rcvd[e]) < Capacity
  /\ sent' = [sent EXCEPT ![e] = Append(@, pos[s])]
  /\ served' = [served EXCEPT ![s] = e]
  /\ UNCHANGED <<path, driverVars, rcvd, closed, ended, status, pos, slot, ret>>

(* Mutant: the slot is read before the call that fills it. *)
DequeueTooLate(s, e) ==
  /\ InLoop(s) /\ IsNextCall(s, e) /\ Consumer(e) = s
  /\ Len(rcvd[e]) < Len(sent[e])
  /\ rcvd' = [rcvd EXCEPT ![e] = Append(@, sent[e][Len(@) + 1])]
  /\ served' = [served EXCEPT ![s] = e]
  /\ UNCHANGED <<path, driverVars, sent, closed, ended, status, pos, slot, ret>>

(* dswp_dequeue into the stack slot; blocks while the queue is empty and   *)
(* open.  The emitted code ignores the result: when it is false, the stage *)
(* goes on with whatever the slot holds.                                   *)
Dequeue(s, e) ==
  /\ InLoop(s) /\ IsNextCall(s, e) /\ Consumer(e) = s /\ queue[e] # "null"
  /\ Len(rcvd[e]) < Len(sent[e]) \/ closed[e]
  /\ IF Len(rcvd[e]) < Len(sent[e])
       THEN LET v == sent[e][Len(rcvd[e]) + 1] IN
              /\ rcvd' = [rcvd EXCEPT ![e] = Append(@, v)]
              /\ slot' = [slot EXCEPT ![e] = v]
              /\ UNCHANGED ended
       ELSE /\ ended' = [ended EXCEPT ![e] = TRUE]
            /\ UNCHANGED <<rcvd, slot>>
  /\ served' = [served EXCEPT ![s] = e]
  /\ UNCHANGED <<path, driverVars, sent, closed, status, pos, ret>>

(* The rest of the instruction's work, up to the next one of the path or   *)
(* out of the loop.                                                        *)
Advance(s) ==
  /\ InLoop(s) /\ AllServed(s)
  /\ pos' = [pos EXCEPT ![s] = @ + 1]
  /\ served' = [served EXCEPT ![s] = 0]
  /\ UNCHANGED <<path, driverVars, chanVars, status, slot, ret>>

(* Mutant: EOF sent from inside the loop. *)
SendEofInLoop(s, e) ==
  /\ status[s] = "running" /\ Producer(e) = s /\ ~closed[e]
  /\ closed' = [closed EXCEPT ![e] = TRUE]
  /\ UNCHANGED <<path, driverVars, sent, rcvd, ended, status, pos, served, slot, ret>>

(* stage.exit: dswp_send_eof on every outgoing queue ... *)
SendEof(s, e) ==
  /\ AtExit(s) /\ IsNextCall(s, e) /\ queue[e] # "null"
  /\ closed' = [closed EXCEPT ![e] = TRUE]
  /\ served' = [served EXCEPT ![s] = e]
  /\ UNCHANGED <<path, driverVars, sent, rcvd, ended, status, pos, slot, ret>>

(* Mutant: only stage 0 stores the live-out, whichever stage computes it.  *)
FinishStageZeroStores(s) ==
  /\ AtExit(s) /\ AllServed(s)
  /\ ret' = IF s = 0 /\ s \in RetStages THEN "value" ELSE ret
  /\ status' = [status EXCEPT ![s] = "done"]
  /\ UNCHANGED <<path, driverVars, chanVars, pos, served, slot>>

(* ... then store the live-out, if this stage has it, and return. *)
Finish(s) ==
  /\ AtExit(s) /\ AllServed(s)
  /\ ret' = IF s \in RetStages THEN "value" ELSE ret
  /\ status' = [status EXCEPT ![s] = "done"]
  /\ UNCHANGED <<path, driverVars, chanVars, pos, served, slot>>

---------------------------------------------------------------------------
DriverNext ==
  CreateQueue \/ SpawnStage \/ JoinStage \/ JoinGarbage \/ DestroyQueue \/ NextPhase

StageNext(s) ==
  \/ \E e \in EdgeIds : \/ Enqueue(s, e)
                        \/ Dequeue(s, e)
                        \/ SendEof(s, e)
                        \/ CallOnNull(s, e)
  \/ Advance(s)
  \/ Finish(s)

(* The function has returned to its caller, or the process has crashed. *)
Terminated == dpc \in {"returned", "crashed"} /\ UNCHANGED vars

Next == DriverNext \/ (\E s \in Stages : StageNext(s)) \/ Terminated

Spec == Init /\ [][Next]_vars

(* The threads are preemptively scheduled, and a blocked queue call        *)
(* returns once its condition stays true (SPSCQueue's liveness).           *)
FairSpec == Spec /\ WF_vars(DriverNext) /\ \A s \in Stages : WF_vars(StageNext(s))

---------------------------------------------------------------------------
(* Properties. *)

(* Type invariant, checked as a part of LiveOutReady.                      *)
TypeOK ==
  /\ path \in Paths
  /\ dpc \in {"create", "spawn", "join", "destroy", "returned", "crashed"} /\ dnext \in Nat
  /\ queue \in [EdgeIds -> {"none", "open", "destroyed", "null"}]
  /\ sent \in [EdgeIds -> Seq(1 .. Len(path))]
  /\ rcvd \in [EdgeIds -> Seq(1 .. Len(path))]
  /\ closed \in [EdgeIds -> BOOLEAN] /\ ended \in [EdgeIds -> BOOLEAN]
  /\ status \in [Stages -> {"unborn", "running", "done", "failed"}]
  /\ pos \in [Stages -> 1 .. Len(path) + 1]
  /\ served \in [Stages -> 0 .. Len(Edges)]
  /\ slot \in [EdgeIds -> 0 .. Len(path)]
  /\ ret \in {"null", "value"}

(* A stage that leaves the place of a foreign instruction holds the value  *)
(* of that very execution of it: the k-th dequeue meets the k-th enqueue,  *)
(* however far the stages have drifted apart, because all of them walk the *)
(* same path.                                                              *)
ValuesMatchIteration ==
  \A s \in Stages : InLoop(s) =>
    \A e \in 1 .. served[s] :
      IsCall(s, e) /\ Consumer(e) = s => slot[e] = pos[s]

(* dswp_dequeue never returns false in a stage, so that ignoring its       *)
(* result never makes the stage compute with a stale slot.                 *)
DequeueNeverFails == \A e \in EdgeIds : ~ended[e]

(* The driver's frees come after the last use, even if a stage did not     *)
(* start: no stage ever runs with a queue of its own destroyed, and if all *)
(* started, each queue was closed and drained.                             *)
QueuesOutliveStages ==
  /\ \A s \in Stages, e \in EdgeIds :
       status[s] = "running" /\ s \in {Producer(e), Consumer(e)} =>
         queue[e] \in {"open", "null"}
  /\ \A e \in EdgeIds : queue[e] = "destroyed" /\ Faults = 0 =>
       closed[e] /\ rcvd[e] = sent[e]

(* If every queue and every stage was created, the argument struct holds   *)
(* the live-out before the driver reads it.                                *)
LiveOutReady ==
  /\ TypeOK
  /\ dpc \in {"destroy", "returned"} /\ RetStages # {} /\ Faults = 0 => ret = "value"

Uses(i) == Cardinality({p \in 1 .. Len(path) : path[p] = i})

(* A failure the emitted code ignores shows all the same, or could not     *)
(* have: the function never returns past a queue that could not be         *)
(* created, since every producer at least closes it; and past a stage that *)
(* did not start only if nobody waited for that stage, because no value of *)
(* its own was needed and those for it fit their queues.                   *)
FailuresShow ==
  dpc = "returned" =>
    \A e \in EdgeIds :
      LET sends == status[Producer(e)] = "done"
          takes == status[Consumer(e)] = "done"
      IN /\ queue[e] = "null" => ~sends
         /\ takes /\ ~sends => Uses(Edges[e].prod) = 0
         /\ sends /\ ~takes => Uses(Edges[e].prod) <= Capacity

(* On every edge the two stages use the queue as its contract asks: one    *)
(* producer, at most Capacity values in flight, no enqueue after EOF.      *)
Channel(e) == INSTANCE BoundedChannel WITH
  Values <- 1 .. MaxPath, sent <- sent[e], rcvd <- rcvd[e],
  closed <- closed[e], ended <- ended[e]
EdgesAreChannels ==
  /\ \A e \in EdgeIds : Channel(e)!Init
  /\ [][\A e \in EdgeIds : Channel(e)!Next \/ UNCHANGED Channel(e)!chanVars]_chanVars

(* The stages never wait for each other in a circle of full and empty      *)
(* queues, although they have several routes between them and make their   *)
(* calls in a fixed order: as long as no stage failed to start and one has *)
(* work left, one of them can go on or is yet to be started.               *)
Blocked(s) ==
  /\ InLoop(s)
  /\ \E e \in EdgeIds :
       /\ IsNextCall(s, e) /\ queue[e] # "null"
       /\ IF Producer(e) = s THEN Len(sent[e]) - Len(rcvd[e]) >= Capacity
                             ELSE Len(rcvd[e]) = Len(sent[e]) /\ ~closed[e]
NoCircularWait ==
  /\ \A s \in Stages : status[s] # "failed"
  /\ \E s \in Stages : status[s] # "done"
  => \E s \in Stages : \/ status[s] = "unborn"
                       \/ status[s] = "running" /\ ~Blocked(s)

(* If nothing failed to be created, the transformed function returns: no   *)
(* cycle of full and empty queues ever blocks the stages, whatever the     *)
(* path and the capacity.                                                  *)
DriverReturns == <>(dpc = "returned" \/ Faults # 0)
===========================================================================
