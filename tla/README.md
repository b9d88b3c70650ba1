# A verification of the DSWP transform and its runtime

The repository implements decoupled software pipelining (DSWP): an LLVM pass that
takes a sequential loop, finds its dependence graph, cuts the graph of its
strongly connected components into stages, and rewrites the function so that each
stage runs in a thread of its own, connected by lock-free queues. This directory
holds TLA+ models of the parts that carry the correctness of that rewriting, the
configurations that check them with TLC, and proofs checked with TLAPS.

## The system

| Component | Where | State | Operations | Interacts with |
|---|---|---|---|---|
| Ring buffer | `src/runtime/dswp_queue.cpp` | atomics `head`, `tail`, `eof`; plain `buffer`; `capacity`, `mask` | create, enqueue, send_eof, dequeue, destroy | one producer and one consumer thread, through acquire/release |
| Emitted driver | `DSWPTransform.cpp`, `cloned::emitDriver` | argument struct, queue handles, thread handles | create queues, start stages, join, destroy, return | stages, through the struct and pthreads |
| Emitted stages | `DSWPTransform.cpp`, `cloned::generateStage` | a clone of the loop, one stack slot per edge | enqueue after an own instruction, dequeue in the place of a foreign one, EOF and live-out at exit | each other, through the queues |
| Stage planning | `DSWPTransform.cpp`, `findReplicatedSCCs`, `findCrossEdges`, `transformGenericCloned` | set of replicated SCCs, cross edges | closure, scan of users, bail-outs | partition and SCCs in, stages out |
| Partitioner | `Partition.cpp` | SCC-DAG, order, stage of each SCC, stage costs | buildSCCDAG, topoSort, partitionNStage | PDG in, stage planning out |
| Dependence graph | `PDG.cpp` | nodes, register, memory and control edges, SCCs | build, computeSCCs (Tarjan) | LLVM analyses in, partitioner out |
| Analyzer | `DSWPAnalyzer.cpp` | none of its own | reports in DOT, JSON and text | reads the three above |
| sum_list stages | `runtime/dswp_stages_sum_list.c` | argument struct | two hand-written stages | the queue |
| Benchmarks, scripts, reports | `benchmarks/`, `scripts/`, `reports/`, `results/` | | inputs, comparison with the sequential run, plots | |

What makes each part hard, and what makes it correct:

* **Ring buffer.** Two threads, no lock. Loads may be stale, indices wrap, the slots
  are ordinary memory. Correct when slot accesses never race, values come out once
  and in order, `false` means the stream has really ended, and neither waiting loop
  can miss the other side's progress.
* **Driver and stages.** N threads and one bounded queue per edge, with values that
  carry no tag, conditionals that skip enqueues, and a `dequeue` result nobody looks
  at. Correct when the k-th dequeue meets the k-th enqueue, no dequeue fails, nothing
  blocks for ever, and the queues outlive their users.
* **Partitioner.** Greedy and order-dependent, with truncating thresholds and zero-cost
  nodes. Correct when no dependence flows backwards; useful when stages are balanced.
* **Stage planning and PDG.** Correct when each stage has every value it uses, side
  effects happen once, memory dependences stay within a stage, and the live-out is
  the sequential one.

The full list of hazards, each at its source line with the properties that cover it,
is in `PROJECT.json`.

## Modules

| Module | Models | State and actions against the code |
|---|---|---|
| `BoundedChannel` | what a queue promises | histories `sent` and `rcvd`, flags `closed` and `ended`; `Send`, `Close`, `Receive`, `ReceiveEnd` |
| `SPSCQueue` | `dswp_queue.cpp`, enqueue, send_eof, dequeue | one action per atomic or plain access; see below |
| `QueueCreate` | create, roundUpPow2, roundUp, destroy | W-bit sizes, both allocations may fail |
| `Pipeline` | the emitted driver and stages, and creations that fail | one action per queue call, `CreateQueue`, `SpawnStage`, `JoinStage`, `DestroyQueue`; `JoinGarbage` and `CallOnNull` after a failure |
| `Partition` | topoSort and partitionNStage | `Visit` is one turn of the worklist, `PlaceNext` one turn of the greedy loop |
| `StagePlan` | findReplicatedSCCs, findCrossEdges, transformGenericCloned, what generateStage keeps; addRegisterDataEdges, addMemoryEdges | one action per decision, one per turn of the closure's worklist, one per generated stage |
| `EndToEnd` | a planned loop, run: `StagePlan` composed with its stages and compared with the sequential loop | `Plan` is a step of the planner, `Launch` and `Join` the driver; `Compute`, `Receive`, `Branch` one instruction of a stage's clone |
| `FrontEnd` | transformGenericCloned up to the cut: computeSCCs' result given to partitionNStage, its stages to the planner | composes `Partition` and `StagePlan`; `RunPartitioner` is a step of the former, `TakeCut` hands its stages over |
| `SCCDag` | buildSCCDAG, its edges | `LookAt` is one PDG edge of the inner loop, in any order |
| `Tarjan` | computeSCCs | the recursion is a sequence of frames; `Descend`, `LookAt`, `ReturnInner`, `ReturnRoot` |
| `ControlDeps` | addControlEdges | one action per block of the outer loop |
| `SumList` | the hand-written stages and the file-level emitDriver, and creations that fail | one action per queue call or driver call; `JoinGarbage` and `CallOnNull` after a failure, as in `Pipeline` |
| `MCPDG` | PDGBuilder::build and computeSCCs, one after the other | `Tarjan` and `ControlDeps` in the order of the code, for TLC. They share nothing here, so each loop meets one graph and each graph one loop |
| `MCSPSCQueue`, `MCPipeline`, `MCSumList` | | constants of the TLC instances |
| `Arithmetic` | | lemmas on remainders, least elements, induction over the naturals, powers of two and finite sums |
| `QueueProofs` | | proofs about `SPSCQueue` and `QueueCreate` |
| `PDGProofs` | | proofs about `Tarjan` and `ControlDeps` |
| `EndToEndProofs` | | proofs about `StagePlan`, `FrontEnd` and `EndToEnd` |
| `PipelineProofs`, `PartitionProofs`, `SCCDagProofs`, `SumListProofs` | | proofs about the modules they are named for |

`SPSCQueue` does not assume sequential consistency. Each atomic is the sequence of the
stores made to it, an acquire load picks any entry the thread is not yet past, and a
release store carries what its thread had done. `pSeen` and `cSeen` are what each thread
has learnt. Each slot remembers the number of its last write and of its last read; an
access to a slot whose conflicting access the thread has not learnt of is a data race.
`ppc`/`ph`/`pval` are the program point and locals of `dswp_enqueue`, `cpc`/`ct`/`out`
those of `dswp_dequeue`. The buffer is uninitialised memory: any contents.
The one precondition taken from the clients is that the producer enqueues nothing after
its EOF (`dswp_queue.h`: "after its final enqueue"); `Pipeline` checks that the emitted
stages keep it. A consumer may go on calling after `false`.

`Pipeline` represents an execution by its *path*: the sequence of instructions whose
value crosses stages, in the order the loop executes them. All stages clone the loop with
its control flow, so the path is the same for all of them; that each stage keeps
all branches and what they depend on is what `StagePlan` checks (`StagesAreComplete`), and that repeating
them computes the same values everywhere is what `EndToEnd` checks. A value is represented by the position of the path that
computed it, which is enough to tell whether a stage got the right one. Queue calls are those of
`BoundedChannel`; `EdgesAreChannels` checks that each edge is used as such and
`QueueProofs!Refinement` is why this is sound.

The emitted driver looks at no result, so up to `MaxFaults` queues may be null and stages not started. A call on a null
queue ends the process (`crashed`). The handle of a stage that did not start is uninitialised: joining it returns, crashes,
or never returns. A stage whose partner is missing waits for ever, so the run does not ask for
the absence of deadlock; `DriverReturns` asks for it when nothing failed, and `FailuresShow` says what is possible when something did:
the function never returns with a missing queue, and with a missing stage only if no one needed a value from that stage and
what was sent to it fitted in its queues. With queues of 1024 slots a short loop may thus
return without its last stage's work.

`EndToEnd` gives `StagePlan`'s plan a meaning. The sequential loop runs its instructions in order, over and over, and leaves at
some branch; an execution of an instruction is its position in that sequence, and a value is the position that computes it. A stage
runs its clone: it computes, dequeues, or skips what is erased. A value is right if the operands are those the sequential loop
uses there and the writes made before it that conflict with it are those the loop has made. The first
wrong value sets `diverged` and ends the run, since what a stage does after it is unknown. `returned` is the value that
the driver's result is compared with. All instructions of an iteration are executed, as instructions skipped by conditionals are
in `Pipeline`; and the model has no code around the loop.

`Partition` takes the SCC-DAG as input. `computeSCCs` numbers SCCs sinks first, so real
graphs have edges from higher to lower ids; graphs of up to `MaxCyclic` nodes may have any edges,
to check what the sort does with a cycle. Out-edges are listed in the iteration order of a `DenseMap`, so `Visit` releases successors in any order.

`StagePlan` takes a loop as the kinds of its instructions, its def-use pairs and the pairs of
memory accesses for which dependence analysis reports something; it builds the PDG's register and
memory edges from these. Components are those of mutual reachability (`Tarjan` checks that
computeSCCs finds them), and the cut is any that keeps what `Partition` and `SCCDag` promise: components stay
together, dependences go forward, no stage is without cost. Decisions that depend on what is not
modelled (value types, the shape of the loop nest, the verifier) are free choices between going on
and giving up, so the properties hold whichever way they go. The layers are joined by such promises, all of them proved:
`Tarjan` (`SinksFirst`, `SCCsAreExact`) gives `SCCDag` its numbering, `SCCDag` (`IsAcyclic`) gives
`Partition` its graphs, and `StagePlan` (`QueuesArePointToPoint`) gives `Pipeline` its edges.

`FrontEnd` is the place where the promises about cuts are kept: it numbers the components in any way that computeSCCs
may, gives them any costs (nothing for phis, something for the rest), runs `Partition` on the dependences between them, and hands the stages to the planner as
`transformGenericCloned` does. `ImplementsStagePlan` says that this is a behaviour of `StagePlan`, so what is shown of
all cuts holds of those that the greedy fill makes.

`SCCDag` sums up the edges of a PDG; two uses of one value by an instruction are two edges, told apart by their `operand`. The costs that
buildSCCDAG adds up as well are left to `Partition`, where they are any numbers.

In `ControlDeps` a block has any number of successors, as after a switch. The module replaces LLVM's post-dominator tree by the definition of post-dominance: every way out of the loop meets the
block. That there is a way is said without paths: the end is in every set of blocks that holds the start and that no
edge leaves (`Leads`), which TLC can evaluate and TLAPS can reason about.
Its property is stated without post-dominance: a branch decides on a block if one of its outcomes makes the
block run before the loop is left and another may leave the loop without it.

Operators introduced as "Mutant" next to a definition are plausible bugs of that
definition. Nothing refers to them; each shows, put in the place of the definition, that
a property can fail.

## Runs

| Run | Instance | Question |
|---|---|---|
| `queue` | 2 slots, indices modulo 4, 6 enqueues of 2 payloads, then or earlier EOF | is the queue race-free, FIFO, honest about the end, and a bounded channel; do both waiting loops end? |
| `queue_create` | 12-bit sizes, every request | does the rounding end in the lower half of the range, is the ring the promised size, is the buffer large enough exactly up to 2^8 slots, nothing leaked? |
| `queue_create_overflow` | 12-bit sizes, every request | **violated**: requests above half the range loop for ever |
| `pipeline` | 3 stages, 4 edges, 1-slot queues, every path of up to 4 instructions, at most one failed creation | do values meet their execution, are queues used and freed in order, do stages never wait in a circle, does the driver return, and does a failure show? |
| `partition` | every DAG of up to 4 SCCs and every graph of up to 3, costs 0, 1, 3; 2 or 3 stages | topological order, failure exactly on cycles, forward edges, balance |
| `dependence_graph` | every innermost loop of 5 blocks, branches and switches; every graph of 4 nodes, self and control edges in graphs of few edges | are the control edges exactly the decisions? exact components, numbered sinks first, exact cyclic flags, stack discipline |
| `scc_dag` | 3 instructions, up to 3 PDG edges of any kind, parallel ones included | are dependences summed up and counted exactly, and is the graph acyclic? |
| `front_end` | every loop of 4 instructions (phi, write, branch), costs 0, 1, 3, 2 or 3 stages | are the cuts of partitionNStage among those the planner may work with? |
| `end_to_end` | every loop of 4 instructions, 2 or 3 stages, 1-slot queues, up to 8 executed instructions | is the plan right, whatever the cut, and do its stages compute what the sequential loop does, in every interleaving, without blocking? |
| `end_to_end_effects` | loops of 3 pure, writing or branching instructions and a final branch, 2 stages | **violated**: "so each thread can iterate independently" |
| `stage_plan_liveout` | 3 instructions | **violated**: "stores any live-out" |
| `sum_list` | lists of up to 3 of the values -2, 1, 2; 4-bit words; 2 slots; any creation may fail | is the sum exact, does the driver return, and what is returned after a failed creation? |

Why the bounds are enough. Six enqueues with two slots and four words fill the ring,
wrap the slots three times and both indices once; the proofs remove these bounds. Twelve-bit
sizes leave every relation between request, byte size and overflow in place: 2^8 is the
largest request whose buffer is large enough, as 2^60 is for 64 bits, and 2^11 the largest that is rounded, as 2^63 is. In the pipeline a path of four
with one-slot queues lets the first stage run ahead until it blocks, on each route, and
makes instructions repeat and be skipped. Four SCCs have every relation of order, cost
and thresholds that three stages can tell apart: empty, overfull and single-SCC stages. Three nodes
give Tarjan a tree edge, a back edge and an edge into a finished component, four also a cross edge between two
components under one root. Four instructions give `EndToEnd` a branch, a chain into it and
two more instructions that can be split, use each other or share memory; a limit of three stages and a request of four stand for
32 and more. Plans of loops of five instructions were checked once, with fewer kinds, and are too slow to repeat. Eight executed instructions are
two iterations, so that every value carried around the loop is used once and a stage can be an iteration ahead over a full queue; twelve were
checked once. `end_to_end` runs functions that return a value of the loop or a constant, as a run of another differs in nothing but the result, which is lost.
`front_end` leaves out pure and reading instructions, which are to the cut what a writing one is: components, dependences and costs are the same, and
shared memory only adds dependences. One failure at a time leaves every stage without each of its
partners; two, on paths of three, were checked once.
Five blocks give two nested conditionals with early exits.

Fairness. In `SPSCQueue` both threads are scheduled, the consumer's client keeps calling
dequeue, and a waiting loop does not read stale values for ever (C++ asks that stores
become visible in finite time); the last is strong fairness because the loop keeps leaving
and re-entering the load. Nothing makes the producer enqueue or send EOF. In `Pipeline` each
thread is weakly fair: a blocked call whose condition has become true stays possible,
because only the caller can undo it. In `SumList` each thread is weakly fair for
the same reason; its `DriverReturns` asks for the return only if no creation failed, and as after a failure a stage may wait for ever, deadlock is not checked there. `QueueCreate` is sequential: its only assumption is that the
program keeps running. The other modules state no liveness and assume no fairness; that the stages of
`EndToEnd` never block is an invariant (`StagesNeverBlock`) and the absence of deadlock, and as every step of a stage takes it further down a finite run, they end.

## What is proved

TLAPS proves every invariant and every action property of the passing runs, for all values of the constants. Only liveness stays with TLC.

**The queue.** `QueueProofs` proves, for every payload set, every number of enqueues, every capacity
and every word range that is a larger multiple of the capacity:

* `TypeCorrect`, `NoDataRace`, `Delivery`, `EndOfStream`: the invariants that
  `queue` checks;
* `Refinement`: the queue implements `BoundedChannel`.

The assumption is `SizeAssumption` (capacity positive, smaller than the word range and
dividing it), which powers of two satisfy. None of the properties is inductive, because they
speak of neither stale entries nor wrapped words. `IndInv` adds: entry i of an index log is
the word of i - 1 and was stored after i - 1 slot accesses (`LogInv`); a thread that knows
entry i knows exactly those accesses, and the producer never is more than Capacity ahead of what
it *knows* of the consumer (`ProducerInv`, `ConsumerInv`); the slots between tail and head hold
the items in flight, and a slot's last read is congruent to it (`RingInv`). There is one lemma per
action. Wrap-around is confined to three facts from `Arithmetic`: the wrapped difference is
the real one, equal words within Capacity are equal counters, and two counters less than Capacity
apart have different slots.

Its creation, for every width W of a word above six bits: `CapacityIsLeast`, `BlocksAreFreed`, and `BufferIsLargeEnough`: the buffer holds its ring exactly for requests of up to
2^(W-4) slots, 2^60 in 64 bits, since the byte size of a larger ring wraps. The accumulator is a power of
two whose half, if it is not the initial 8, is too small for the request, or its only bit has been shifted out and the loop never ends
(`RoundingInv`). TLAPS has no facts about 2^k; `Arithmetic` gets them from the number of subsets of a set of k elements.

**The emitted code.** `PipelineProofs` proves all safety properties of `pipeline`, for every number of stages, every
list of different edges between different stages, every capacity, every path and any pattern of failing creations: `TypeCorrect`,
`SameIteration`, `NoEarlyEnd`, `FreeIsLast`, `LiveOutIsStored`, `FailuresAreNotSilent`, `NoDeadlock`, and `ChannelsAreUsedWell`, by which each
edge keeps `BoundedChannel`'s contract. The assumption is `PipelineAssumption`; in particular the edges
need not go forward. That the k-th dequeue meets the k-th enqueue says nothing of where the two
stages stand, so it is not inductive. The invariant does without counting: each end of an edge
has exactly the positions of the path that its stage has passed and at which the edge's value is computed (`SentInv`, `RcvdInv`), in the
order of the path, and what was received is a prefix of what was sent (`OrderInv`). Where the consumer stands at such a position, the next
value in the queue can be neither an earlier one, which it would have, nor a later one, as the producer
would have sent this one first (`NextValue`). A closed queue means that the producer has passed the
whole path (`CloseInv`), hence no dequeue fails. `DriverInv`, `HandleInv` and `StageInv` tie the phases of the driver to the
life of the stages.

`NoDeadlock` follows from the same invariant. Take the stages that are furthest behind, and the instruction they stand at. If
the stage that computes it is among them, it only sends there, and a queue of its own that were full would hold a value that its
consumer has yet to pass (`RoomForTheLast`), so that the consumer would be further behind. If that stage is further, the others only receive there, and
what they need was sent (`ValueFromAhead`). This uses that an instruction is computed by one stage and not that queues lead
forward: a backward queue would cost parallelism, not termination.

**The plan.** `EndToEndProofs` proves `StagesComplete`, `OneProducerOneConsumer`, `WorkSplit` (who runs an instruction, exactly) and
`RewriteIsAtomic` for every loop, dependence graph, number of stages and cut, from `StagePlanAssumption`. Completeness is about the
end of a worklist algorithm; what holds all along is that whatever a replicated component depends on is
replicated too, or the component still waits in the worklist (`ReplInv`). With an empty worklist the replicated
part is closed, and each operand of a kept instruction is replicated, in the same stage, or on a cross edge (`EdgesInv`).
That cuts go forward, keep components together and leave no stage without cost is in `Cuts`, an assumption on the partitioner's answer, and
`FrontEndIsAPlanner` discharges it: the front half of the transform, partitionNStage included, implements `StagePlan`, for every loop, numbering and cost. Its steps are steps of
`Partition` on the summed-up graph, so the partitioner's invariants hold (`Cutter`, an instance of `PartitionProofs`), and `CutsAreUsable` turns them into the three promises about the stages of
instructions; instructions of one component share a number, hence a stage.

**What the stages compute.** This is what the transform promises: `StagesComputeSequentially` and `FunctionIsSequential` say that for
every loop, every cut, every plan that repeats no write, every queue capacity and every interleaving, each value that a stage
computes, receives or branches on is the sequential loop's, and so are the writes made, each once, and the result if it is a value of the loop or a constant
(others are lost, see the findings); `StagesMakeProgress` says that the stages never
wait for each other. First, a run of the planned stages is a behaviour of
`StagePlan` that stutters once the plan is made (`RunsThePlan`), so what is proved of plans holds of running pipelines
(`RunningStagesAreComplete`). The run's invariant then ties everything to the positions of the stages:

* a stage stands at an instruction of its clone (`PosInv`), and its register of a kept instruction holds the latest execution
  before that position (`RegInv`). This is where completeness of the stages enters: it makes the operands right;
* a queue holds, in order, the executions that its producer has passed and its consumer has not, and the consumer passes
  nothing that the producer has not (`QueueInv`);
* the writes made are those that the stage they belong to has passed (`LogInv`). Accesses that conflict are in one
  component, hence in one stage or in all (`TheConflicts`), so that a stage finds the memory as the loop would.

**The analysis below the plan.** The promises that the plan rests on are proved where they are made, for graphs of any size and every order of their edges.

* `PDGProofs!NumberedSinksFirst`: when a component gets its number, all that its nodes depend on has one that is not larger.
  The step that can go wrong is the pop, where no edge may lead to a node below the root on the stack. Tarjan's usual
  argument speaks of paths; the invariant here speaks of single edges and of the recursion. An edge that has been looked at and leads from
  above the node of an active call to below it on the stack is reflected in the low link of that call or of a later one, which hands it down
  when it returns (`LowInv`). A root's low link is its own index, so there is no such edge. `CallsInv` and `StackInv` say
  that calls and stack are sorted by index and that the stack is the visited nodes without a component, `LookedInv` that
  an edge looked at leads to a visited node.
* `PDGProofs!LowLinksStay`, `ComponentsAreExact`: the above would hold even if components were too large. That they are not is the other half, an
  invariant about reachability: a low link is the index of a node on the stack that its node reaches (`LinkInv`), an active call's node reaches all that is above it on the stack
  (`TreeInv`), and the nodes of a component reach each other (`ComponentInv`). A node that has returned has a low link below it, so going down from
  low link to low link ends at the root: what is popped with the root also reaches it. Conversely, two nodes that reach each
  other cannot have different numbers, by `SinksFirst`. Here, too, a node reaches another if that is in every set that has the first and that no edge
  leaves.
* `PDGProofs!ControlEdgesAreExact`: on every innermost loop of the form that the pass accepts, the post-dominance test finds exactly the decisions (`DecidedIsExact`).
* `SCCDagProofs!DagIsAcyclic`, `EdgesAreSums`: with such a numbering the edges between components only go down, as all that is
  collected for a component leads below it (`CollectInv`); and what is collected sums up the edges looked at so far, in any order, while
  the components before have the sums of all theirs (`SumInv`).
* `PartitionProofs!SourcesBeforeSinks`, `NoBackwardDependence`: an in-degree counts exactly the predecessors that are not in the
  order yet, and an SCC is in the order or in the worklist exactly if the count is zero (`SortInv`); along the order stages do not decrease
  (`FillInv`). As n different entries list every SCC, every dependence has both its ends placed.
* `PartitionProofs!OnlyCyclesDefeatTheSort`: the sort is incomplete exactly on cyclic graphs. The SCCs that an exhausted sort has missed all
  have a missing predecessor, and a complete order leaves no cycle. `SortIsComplete` is the special case of edges that lead to lower ids.
* `PartitionProofs!TypeCorrect`, `LoadsAreBalanced`: an SCC is placed where the load of those before it is within the bounds of its
  stage (`LoadInv`); costs are sums over sets, whose facts `Arithmetic` proves.

**The sum_list stages.** `SumListProofs!SumIsCorrect`: for every list, word width, capacity and pattern of failing creations the result is the list's sum if the reducer was started, and 0 if
it was not and the function returns all the same, which takes a list that fits the queue or a walker that is missing too; and the queue outlives its users. What is
received is a prefix of the list (`StreamInv`). `SumListAssumption` bounds what a list of the greatest length could sum up to; that sums on the way
fit into a long as well follows from a bound on their average (`SumInv`).

That `SCCDag` starts from what `Tarjan` ends with, and `FrontEnd` from what both end with, is by the form of their
`Init` and not itself a theorem.

Only model-checked: liveness, that is `EveryItemDelivered`, `EnqueueReturns`, `EofReachesConsumer`, `RoundingEndsInRange` and both `DriverReturns`, as fairness and ENABLED
are outside the prover's reach. `NoDeadlock` and `StagesMakeProgress` are the safety part of it: a step is always possible.

## Findings

* `roundUpPow2` does not return for requests above half the range of `size_t`
  (`queue_create_overflow`). No caller in the repository asks for that much. For the same reason of
  overflow the buffer of a ring of 2^61 slots or more is too small (`BufferHoldsRing` says from which request on).
* A live-out that is an argument, a merge of several values or a value computed after the loop is never
  stored, and the rewritten function returns null or zero (`stage_plan_liveout`).
* A store, or a call with side effects, that a branch depends on is repeated in every stage, so it is executed once per stage and the
  later executions find another memory than the sequential loop's (`end_to_end_effects`). `ValuesAreSequential` and
  `ResultIsSequential` therefore speak of plans that repeat no write, and hold of all of those. A repeated store of
  the same value to the same address may go unseen; a repeated call that takes an item from a stream does not.

Met while reading, minor, and visible in the modules without a run of their own:

* `buildSCCDAG` drops control edges and nothing sets `HasControl` (`Dropped` and `Merge` of `SCCDag`), although `Partition.h:45` says "Control edges in the
  PDG are included in the DAG so downstream consumers can see them", `Partition.h:27` calls the flag "any underlying edge was a control dep", and
  `Partition.cpp:65` says that edges are tagged with it. Only the analyzer's picture reads the flag. `EdgesSumUp` states what the code does.
* What a function computes, stores or calls before or after the loop, other loops included, is erased with the body
  (`DSWPTransform.cpp:475`), and nothing tests that there is none. `stage_plan_liveout` shows it where the return value is concerned.
* The 32-bit values stored in 64-bit slots leave the upper half uninitialised, which is harmless: only 32 bits are read back.
* `Partition.h:51` promises an empty assignment on failure; the code returns all zeros (`Init` and `OneStage` of
  `Partition`). Callers look at `SingleStage`.
* `DSWPTransform.cpp:9` says the stage count is capped at 32; a larger request falls back to 2
  (`StagesFor` of `StagePlan`).
* The definition in the comment at `PDG.cpp:153` lets a block be control dependent on itself; the code skips that
  pair (`Decided` of `ControlDeps`). It would change nothing, as control edges are left out of the SCCs.
* The "scaffolded 2-stage transform" that `DSWPTransform.cpp:10` names as a fallback does not exist, and the
  file-level `emitDriver` has no caller; "2 stages only" (`:198`) is out of date.
* The `README.md` of the repository describes a `transformProcessPipeline` that does not exist either.
* The recorded report of `fib_iter` contradicts the README's table.

## Plan

Every invariant and action property of the passing runs is proved. What could be added:

* `FrontEnd` extended downwards, by Tarjan's algorithm and buildSCCDAG in place of their results;
* a refinement of `EndToEnd`'s queues to `BoundedChannel`, as `Pipeline`'s are.

## Not modelled

The analyzer's writers, benchmarks, scripts and reports hold no logic the parts above do not. LLVM's
analyses (alias analysis, MemorySSA, dependence, post-dominators) and pthreads are external. The cloning of blocks
and the rewiring of their edges (`generateStage`, lines 287-350) is represented only by its result, a copy of the loop's
control flow. The search for a loop (`transformGenericCloned`, lines 532-545) and the code around it are not in the model: the planner starts with a
loop or gives up. After a failed `pthread_create` the uninitialised handle is explored as far as pthread_join
returning, crashing or hanging; that it might be a valid handle of another thread is not.
