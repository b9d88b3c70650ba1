----------------------------- MODULE Partition -----------------------------
(***************************************************************************)
(* pass/Partition.cpp: partitionNStage, which cuts the SCC-DAG of a loop   *)
(* into pipeline stages, with the topological sort it relies on.           *)
(*                                                                         *)
(* SCCs are numbered by computeSCCs, sinks first.  The order in which a    *)
(* node's out-edges are listed comes from the iteration order of a         *)
(* DenseMap, so the sort may meet them in any order.                       *)
(***************************************************************************)
EXTENDS Integers, Sequences, FiniteSets, SequencesExt

CONSTANTS MaxSCCs,        \* bound: how many SCCs a loop has
          Costs,          \* the values of an SCC's cost
          StageCounts,    \* the requested numbers of stages
          MaxCyclic       \* bound: how many SCCs a graph with edges both ways has;
                          \* larger ones go to lower ids, as computeSCCs numbers them

ASSUME PartitionAssumption ==
  /\ MaxSCCs \in Nat /\ Costs \subseteq Nat
  /\ StageCounts \subseteq Nat \ {0}
  /\ MaxCyclic \in Nat

VARIABLES
  n, edges, cost, numStages,      \* the SCCDAG and the request
  pc,
  inDeg, ready, order,            \* topoSort: InDeg, Q and Order
  filled, curStage, acc, stage,   \* greedy fill: SCCs placed, curStage, Acc and P.Stage
  stageCosts, crossStageEdges,    \* P.StageCosts, P.CrossStageEdges
  singleStage                     \* P.SingleStage

inputVars == <<n, edges, cost, numStages>>
sortVars == <<inDeg, ready, order>>
fillVars == <<filled, curStage, acc, stage>>
resultVars == <<stageCosts, crossStageEdges, singleStage>>
vars == <<inputVars, pc, sortVars, fillVars, resultVars>>

SCCs == 0 .. n - 1
StageIds == 0 .. numStages - 1
Succs(u) == {v \in SCCs : <<u, v>> \in edges}
Preds(v) == {u \in SCCs : <<u, v>> \in edges}

CostOf(S) == FoldSet(LAMBDA s, sum : cost[s] + sum, 0, S)
Total == CostOf(SCCs)

(* Out has one edge per ordered pair and none from an SCC to itself. *)
Graphs(m) ==
  SUBSET {e \in (0 .. m - 1) \X (0 .. m - 1) :
            e[1] > e[2] \/ (m <= MaxCyclic /\ e[1] # e[2])}

Init ==
  /\ n \in 0 .. MaxSCCs
  /\ edges \in Graphs(n)
  /\ cost \in [0 .. n - 1 -> Costs]
  /\ numStages \in StageCounts
  /\ pc = "guard"
  /\ inDeg = [s \in SCCs |-> 0] /\ ready = <<>> /\ order = <<>>
  /\ filled = 0 /\ curStage = 0 /\ acc = 0 /\ stage = [s \in SCCs |-> 0]
  /\ stageCosts = [k \in StageIds |-> 0] /\ crossStageEdges = 0
  /\ singleStage = FALSE

(* The loop is not worth cutting, or the sort found a cycle: everything is *)
(* charged to stage 0.                                                     *)
OneStage ==
  /\ pc' = "done"
  /\ singleStage' = TRUE
  /\ stageCosts' = [stageCosts EXCEPT ![0] = Total]
  /\ UNCHANGED crossStageEdges

Trivial == numStages < 2 \/ n <= 1 \/ Total = 0

BailTrivial ==
  /\ pc = "guard" /\ Trivial
  /\ OneStage
  /\ UNCHANGED <<inputVars, sortVars, fillVars>>

InIdOrder(q) == \A i, j \in DOMAIN q : i < j => q[i] < q[j]

(* Mutant: the search for sources stops at the first one. *)
CountInDegreesOneSource ==
  /\ pc = "guard" /\ ~Trivial
  /\ inDeg' = [v \in SCCs |-> Cardinality(Preds(v))]
  /\ \E sources \in SetToSeqs({v \in SCCs : Preds(v) = {}}) :
       InIdOrder(sources) /\ ready' = IF sources = <<>> THEN <<>> ELSE <<Head(sources)>>
  /\ pc' = "sort"
  /\ UNCHANGED <<inputVars, order, fillVars, resultVars>>

(* topoSort counts the in-degrees and queues the sources by id. *)
CountInDegrees ==
  /\ pc = "guard" /\ ~Trivial
  /\ inDeg' = [v \in SCCs |-> Cardinality(Preds(v))]
  /\ \E sources \in SetToSeqs({v \in SCCs : Preds(v) = {}}) :
       InIdOrder(sources) /\ ready' = sources
  /\ pc' = "sort"
  /\ UNCHANGED <<inputVars, order, fillVars, resultVars>>

(* Mutant: queue a successor as soon as one predecessor is done.           *)
VisitEagerly ==
  /\ pc = "sort" /\ ready # <<>>
  /\ LET u == Head(ready) IN
       /\ order' = Append(order, u)
       /\ inDeg' = [v \in SCCs |-> IF v \in Succs(u) THEN 0 ELSE inDeg[v]]
       /\ \E released \in SetToSeqs({v \in Succs(u) : inDeg[v] > 0}) :
            ready' = Tail(ready) \o released
  /\ UNCHANGED <<inputVars, pc, fillVars, resultVars>>

(* One turn of the worklist: pop u, and queue, in the order of u's edges,  *)
(* each successor whose last predecessor it was.                           *)
Visit ==
  /\ pc = "sort" /\ ready # <<>>
  /\ LET u == Head(ready) IN
       /\ order' = Append(order, u)
       /\ inDeg' = [v \in SCCs |-> IF v \in Succs(u) THEN inDeg[v] - 1 ELSE inDeg[v]]
       /\ \E released \in SetToSeqs({v \in Succs(u) : inDeg'[v] = 0}) :
            ready' = Tail(ready) \o released
  /\ UNCHANGED <<inputVars, pc, fillVars, resultVars>>

BailCyclic ==
  /\ pc = "sort" /\ ready = <<>> /\ Len(order) # n
  /\ OneStage
  /\ UNCHANGED <<inputVars, sortVars, fillVars>>

StartFill ==
  /\ pc = "sort" /\ ready = <<>> /\ Len(order) = n
  /\ pc' = "fill"
  /\ UNCHANGED <<inputVars, sortVars, fillVars, resultVars>>

(* Mutant: boundaries for one stage more than there are. *)
ThresholdOfMoreStages(k) == (k * Total) \div (numStages + 1)

(* k * Total / NumStages, the load that closes the first k stages. *)
Threshold(k) == (k * Total) \div numStages

(* Mutant: place the SCCs by id, not by the order. *)
PlaceById ==
  /\ pc = "fill" /\ filled < n
  /\ curStage' = IF curStage + 1 < numStages /\ acc >= Threshold(curStage + 1)
                   THEN curStage + 1 ELSE curStage
  /\ stage' = [stage EXCEPT ![filled] = curStage']
  /\ acc' = acc + cost[filled]
  /\ filled' = filled + 1
  /\ UNCHANGED <<inputVars, pc, sortVars, resultVars>>

(* One turn of the greedy loop: advance at most one stage, never past the  *)
(* last, then place the next SCC of the order.                             *)
PlaceNext ==
  /\ pc = "fill" /\ filled < n
  /\ LET scc == order[filled + 1] IN
       /\ curStage' = IF curStage + 1 < numStages /\ acc >= Threshold(curStage + 1)
                        THEN curStage + 1 ELSE curStage
       /\ stage' = [stage EXCEPT ![scc] = curStage']
       /\ acc' = acc + cost[scc]
  /\ filled' = filled + 1
  /\ UNCHANGED <<inputVars, pc, sortVars, resultVars>>

(* Sum up the stages; one that got no cost makes the partition useless. *)
Tally ==
  /\ pc = "fill" /\ filled = n
  /\ stageCosts' = [k \in StageIds |-> CostOf({s \in SCCs : stage[s] = k})]
  /\ crossStageEdges' = Cardinality({e \in edges : stage[e[1]] # stage[e[2]]})
  /\ singleStage' = \E k \in StageIds : stageCosts'[k] = 0
  /\ pc' = "done"
  /\ UNCHANGED <<inputVars, sortVars, fillVars>>

Finished == pc = "done" /\ UNCHANGED vars

Next ==
  \/ BailTrivial
  \/ CountInDegrees
  \/ Visit
  \/ BailCyclic
  \/ StartFill
  \/ PlaceNext
  \/ Tally
  \/ Finished

Spec == Init /\ [][Next]_vars

---------------------------------------------------------------------------
(* Properties. *)

(* Type invariant, checked as a part of StagesAreBalanced.                 *)
TypeOK ==
  /\ n \in 0 .. MaxSCCs /\ edges \subseteq SCCs \X SCCs
  /\ cost \in [SCCs -> Nat] /\ numStages \in Nat \ {0}
  /\ pc \in {"guard", "sort", "fill", "done"}
  /\ inDeg \in [SCCs -> Nat] /\ ready \in Seq(SCCs) /\ order \in Seq(SCCs)
  /\ filled \in 0 .. n /\ curStage \in StageIds /\ acc \in Nat
  /\ stage \in [SCCs -> StageIds]
  /\ stageCosts \in [StageIds -> Nat] /\ crossStageEdges \in Nat
  /\ singleStage \in BOOLEAN

(* "Sources before sinks": the sort lists each SCC at most once and never  *)
(* before one of its predecessors.                                         *)
OrderIsTopological ==
  \A j \in 1 .. Len(order) :
    /\ \A i \in 1 .. j - 1 : order[i] # order[j]
    /\ \A u \in Preds(order[j]) : \E i \in 1 .. j - 1 : order[i] = u

(* The sort misses SCCs exactly when the graph has a cycle, so that the    *)
(* partitioner gives a loop up only then.  An SCC is on a cycle if every   *)
(* set that edges do not leave and that has its successors has it too.     *)
Closed(S) == \A x \in S : Succs(x) \subseteq S
OnCycle(u) == \A S \in SUBSET SCCs : Succs(u) \subseteq S /\ Closed(S) => u \in S
SortFailsOnlyOnCycles ==
  pc = "sort" /\ ready = <<>> =>
    (Len(order) = n <=> \A u \in SCCs : ~OnCycle(u))

(* What the pipeline needs of the cut: no dependence goes from a later     *)
(* stage to an earlier one.                                                *)
EdgesGoForward ==
  pc = "done" /\ ~singleStage => \A e \in edges : stage[e[1]] <= stage[e[2]]

(* The balance greedy filling achieves: without the SCC placed last in it, *)
(* no stage costs more than its fair share of the total (but for the       *)
(* rounding of the thresholds).                                            *)
LastIn(k) == order[CHOOSE i \in 1 .. n :
                     /\ stage[order[i]] = k
                     /\ \A j \in i + 1 .. n : stage[order[j]] # k]
StagesAreBalanced ==
  /\ TypeOK
  /\ pc = "done" /\ ~singleStage =>
       \A k \in StageIds :
         numStages * (stageCosts[k] - cost[LastIn(k)]) < Total + numStages
===========================================================================
