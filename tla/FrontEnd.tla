------------------------------ MODULE FrontEnd ------------------------------
(***************************************************************************)
(* pass/DSWPTransform.cpp, the front half of transformGenericCloned: the   *)
(* loop's components go to partitionNStage, and the stages it places them  *)
(* in are those that StagePlan goes on with.  There the cut is any that    *)
(* keeps promises about stages; here it is the one that Partition makes.   *)
(***************************************************************************)
EXTENDS StagePlan

CONSTANT Costs            \* the values of a component's cost

ASSUME FrontEndAssumption == Costs \subseteq Nat

VARIABLES
  number,                 \* SCCResult::InstToSCC, by computeSCCs' numbering
  cost,                   \* SCCDAG::Cost
  partPc, inDeg, ready, order, filled, curStage, acc, sccStage,   \* partitionNStage
  stageCosts, crossStageEdges, singleStage

partVars == <<partPc, inDeg, ready, order, filled, curStage, acc, sccStage,
              stageCosts, crossStageEdges, singleStage>>
frontVars == <<number, cost, partVars>>

NumSCCs == Cardinality({number[i] : i \in Instrs})

(* SCCDAG::Out: dependences, between different components.                 *)
DagEdges ==
  {<<number[e[1]], number[e[2]]>> : e \in {d \in Deps : number[d[1]] # number[d[2]]}}

Partitioner == INSTANCE Partition WITH
  MaxSCCs <- NumInstrs, MaxCyclic <- 0, StageCounts <- {StagesFor(r) : r \in Requests},
  n <- NumSCCs, edges <- DagEdges, numStages <- StagesFor(request),
  pc <- partPc, stage <- sccStage

(* Tarjan's numbering: components, from 0 on, sinks first.                 *)
Numberings ==
  LET comp == Components IN
    {f \in [Instrs -> 0 .. NumInstrs - 1] :
       LET ids == {f[i] : i \in Instrs} IN
         /\ \A e \in Deps : f[e[1]] >= f[e[2]]
         /\ ids = 0 .. Cardinality(ids) - 1
         /\ \A i \in Instrs : comp[i] = {j \in Instrs : f[j] = f[i]}}

(* Phis cost nothing, everything else something.                           *)
CostsOf ==
  {f \in [Partitioner!SCCs -> Costs] :
     \A c \in Partitioner!SCCs :
       f[c] = 0 <=> \A i \in Instrs : number[i] = c => kind[i] = "phi"}

InitFront ==
  /\ Init
  /\ number \in Numberings
  /\ cost \in CostsOf
  /\ Partitioner!Init

(* partitionNStage runs to its end ...                                     *)
RunPartitioner ==
  /\ pc = "start" /\ partPc # "done"
  /\ UNCHANGED <<vars, number, cost>>
  /\ Partitioner!Next

(* ... and the function is left as it is if the result is one stage,       *)
BailSingleStage ==
  /\ partPc = "done" /\ singleStage
  /\ BailNoCut
  /\ UNCHANGED frontVars

(* or each instruction gets the stage of its component.                    *)
TakeCut ==
  /\ pc = "start" /\ partPc = "done" /\ ~singleStage
  /\ numStages' = StagesFor(request)
  /\ scc' = Components
  /\ stage' = [i \in Instrs |-> sccStage[number[i]]]
  /\ pc' = "seed"
  /\ UNCHANGED <<loopVars, outcome, replVars, edges, codeVars, frontVars>>

PlanOn == pc # "start" /\ (PlanStep \/ Finished) /\ UNCHANGED frontVars

NextFront == RunPartitioner \/ BailSingleStage \/ TakeCut \/ PlanOn

SpecFront == InitFront /\ [][NextFront]_<<vars, frontVars>>

---------------------------------------------------------------------------
(* Properties. *)

(* The planner with the partitioner of the code is one of those StagePlan  *)
(* allows: what is shown of all cuts that keep the promises holds of the   *)
(* cuts the greedy fill makes, for every numbering of the components, cost *)
(* of the instructions and order of the edges.                             *)
ImplementsStagePlan == Spec
=============================================================================
