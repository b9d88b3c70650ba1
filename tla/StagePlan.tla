----------------------------- MODULE StagePlan -----------------------------
(***************************************************************************)
(* pass/DSWPTransform.cpp: transformGenericCloned, which decides whether   *)
(* and how a loop is split: which instructions every stage repeats, which  *)
(* one stage runs, and which values travel through queues; with the        *)
(* dependence graph of pass/PDG.cpp it decides on.                         *)
(*                                                                         *)
(* A loop is its instructions in block order and how they depend on each   *)
(* other.  The components are those Tarjan computes, and the partitioner   *)
(* may choose any cut that keeps the promises of Cuts, or give up;         *)
(* FrontEnd shows that the one of the code does.                           *)
(***************************************************************************)
EXTENDS Integers, Sequences, FiniteSets

CONSTANTS NumInstrs,    \* bound: instructions of the loop, the last a branch
          Kinds,        \* kinds of instruction a loop may have
          Returns,      \* what the function may return: "loop" is a value of the loop
          MaxStages,    \* the largest number of stages accepted (32 in the code)
          Requests      \* values of DSWP_NUM_STAGES; 0 stands for unset or no number

ASSUME StagePlanAssumption ==
  /\ NumInstrs \in Nat \ {0}
  /\ Kinds \subseteq {"phi", "pure", "read", "write", "br"}
  /\ Returns \subseteq {"void", "loop", "const", "arg", "outside"}
  /\ MaxStages \in Nat /\ MaxStages >= 2
  /\ Requests \subseteq Nat

Instrs == 1 .. NumInstrs
Digraph == INSTANCE Graphs

VARIABLES
  kind, uses, conflicts,   \* the loop: kinds, def-use pairs, pairs of memory accesses
  returned,                \* the function's return value
  request,                 \* DSWP_NUM_STAGES
  pc, outcome,             \* outcome: "none", "unchanged" or "rewritten"
  numStages, scc, stage,   \* NumStages, InstToSCC, P.Stage (by instruction)
  repl, worklist,          \* Repl (of components) and its Worklist
  edges,                   \* the cross edges
  clones,                  \* per generated stage: what became of each instruction
  stores,                  \* the generated stages that store the live-out
  body                     \* the function's body: "original" or "driver"

loopVars == <<kind, uses, conflicts, returned, request>>
cutVars == <<numStages, scc, stage>>
replVars == <<repl, worklist>>
codeVars == <<clones, stores, body>>
vars == <<loopVars, pc, outcome, cutVars, replVars, edges, codeVars>>

Memory(i) == kind[i] \in {"read", "write"}
Writes(i) == kind[i] = "write"

ReturnValues ==
  {r \in [what : Returns, def : Instrs] : r.what # "loop" => r.def = 1}

(* Loops in SSA form: phis start a block, a value is used after its        *)
(* definition or, over the back edge, by a phi of the header.              *)
WellFormed(k) ==
  /\ k[NumInstrs] = "br"
  /\ \A i \in Instrs : k[i] = "phi" => i = 1 \/ k[i - 1] \in {"phi", "br"}
MayUse(k, d, u) ==
  /\ k[d] # "br"
  /\ \/ d < u
     \/ d > u /\ k[u] = "phi" /\ \A i \in 1 .. u : k[i] # "br"

Init ==
  /\ kind \in {k \in [Instrs -> Kinds] : WellFormed(k)}
  /\ uses \in SUBSET {e \in Instrs \X Instrs : MayUse(kind, e[1], e[2])}
  /\ conflicts \in SUBSET {p \in Instrs \X Instrs :
                             /\ p[1] < p[2] /\ Memory(p[1]) /\ Memory(p[2])
                             /\ (Writes(p[1]) \/ Writes(p[2]))}
  /\ returned \in {r \in ReturnValues : r.what = "loop" => kind[r.def] # "br"}
  /\ request \in Requests
  /\ pc = "start" /\ outcome = "none"
  /\ numStages = 0 /\ scc = [i \in Instrs |-> {i}] /\ stage = [i \in Instrs |-> 0]
  /\ repl = {} /\ worklist = {} /\ edges = {}
  /\ clones = <<>> /\ stores = {} /\ body = "original"

---------------------------------------------------------------------------
(* The dependence graph. *)

(* addRegisterDataEdges: definition to user. *)
RegisterEdges == uses

(* Mutant: only pairs in the order of the iteration are asked about. *)
MemoryEdgesInIteration == conflicts

(* addMemoryEdges asks the dependence analysis about each ordered pair of  *)
(* accesses; its answer does not depend on the order.                      *)
MemoryEdges == conflicts \cup {<<p[2], p[1]>> : p \in conflicts}

Deps == RegisterEdges \cup MemoryEdges

(* Each instruction's component. *)
Components ==
  LET reaches == Digraph!ConnectionsIn([node |-> Instrs, edge |-> Deps]) IN
    [i \in Instrs |-> {j \in Instrs : reaches[i, j] /\ reaches[j, i]}]

(* What the partitioner may answer: components stay together, dependences  *)
(* go forward, every stage has some cost, and phis cost nothing.           *)
Cuts(n, comp) ==
  {st \in [Instrs -> 0 .. n - 1] :
     /\ \A i, j \in Instrs : comp[i] = comp[j] => st[i] = st[j]
     /\ \A e \in Deps : st[e[1]] <= st[e[2]]
     /\ \A s \in 0 .. n - 1 : \E i \in Instrs : st[i] = s /\ kind[i] # "phi"}

---------------------------------------------------------------------------
(* The decision. *)

(* "In that case the function is left unchanged". *)
Bail ==
  /\ pc' = "done"
  /\ outcome' = "unchanged"

(* No innermost loop in simplified form with one exit, or no useful cut.   *)
BailNoCut ==
  /\ pc = "start" /\ Bail
  /\ UNCHANGED <<loopVars, cutVars, replVars, edges, codeVars>>

(* Mutant: no upper limit. *)
StagesForAny(r) == IF r >= 2 THEN r ELSE 2

(* DSWP_NUM_STAGES, if it is a number of stages allowed, else 2. *)
StagesFor(r) == IF r \in 2 .. MaxStages THEN r ELSE 2

Cut ==
  /\ pc = "start"
  /\ numStages' = StagesFor(request)
  /\ scc' = Components
  /\ stage' \in Cuts(numStages', scc')
  /\ pc' = "seed"
  /\ UNCHANGED <<loopVars, outcome, replVars, edges, codeVars>>

Branches == {scc[i] : i \in {j \in Instrs : kind[j] = "br"}}

(* findReplicatedSCCs starts with the components of all terminators ... *)
SeedReplication ==
  /\ pc = "seed"
  /\ repl' = Branches /\ worklist' = Branches
  /\ pc' = "close"
  /\ UNCHANGED <<loopVars, outcome, cutVars, edges, codeVars>>

PredsOf(x) == {scc[e[1]] : e \in {d \in Deps : scc[d[2]] = x}} \ {x}

(* Mutant: what a new member depends on is not looked at. *)
CloseOneLevel(x) ==
  /\ pc = "close" /\ x \in worklist
  /\ repl' = repl \cup PredsOf(x)
  /\ worklist' = worklist \ {x}
  /\ UNCHANGED <<loopVars, pc, outcome, cutVars, edges, codeVars>>

(* ... and adds what they depend on, until nothing is new. *)
CloseReplication(x) ==
  /\ pc = "close" /\ x \in worklist
  /\ repl' = repl \cup PredsOf(x)
  /\ worklist' = (worklist \ {x}) \cup (PredsOf(x) \ repl)
  /\ UNCHANGED <<loopVars, pc, outcome, cutVars, edges, codeVars>>

Replicated(i) == scc[i] \in repl
Occupied == {stage[i] : i \in {j \in Instrs : ~Replicated(j)}}

BailStageEmpty ==
  /\ pc = "close" /\ worklist = {} /\ Cardinality(Occupied) < numStages
  /\ Bail
  /\ UNCHANGED <<loopVars, cutVars, replVars, edges, codeVars>>

(* Mutant: queues for users that every stage repeats, and for values that  *)
(* every stage computes.                                                   *)
CrossEdgesOfAllDefs ==
  {[prod |-> e[1], from |-> stage[e[1]], to |-> stage[e[2]]] :
     e \in {u \in uses : ~Replicated(u[2]) /\ stage[u[1]] # stage[u[2]]}}

(* findCrossEdges: one queue per value and stage that uses it, between     *)
(* instructions that are not repeated.                                     *)
CrossEdges ==
  {[prod |-> e[1], from |-> stage[e[1]], to |-> stage[e[2]]] :
     e \in {u \in uses : /\ ~Replicated(u[1]) /\ ~Replicated(u[2])
                         /\ stage[u[1]] # stage[u[2]]}}

(* Mutant: the second occupancy test is missing. *)
FindCrossEdgesAnyway ==
  /\ pc = "close" /\ worklist = {} /\ Cardinality(Occupied) >= 2
  /\ edges' = CrossEdges
  /\ pc' = "check"
  /\ UNCHANGED <<loopVars, outcome, cutVars, replVars, codeVars>>

FindCrossEdges ==
  /\ pc = "close" /\ worklist = {} /\ Cardinality(Occupied) = numStages
  /\ edges' = CrossEdges
  /\ pc' = "check"
  /\ UNCHANGED <<loopVars, outcome, cutVars, replVars, codeVars>>

(* No edge, an edge whose value does not fit a slot (types are not         *)
(* modelled: any edge may have one), or one that starts at a phi.          *)
BailEdges ==
  /\ pc = "check" /\ Bail
  /\ UNCHANGED <<loopVars, cutVars, replVars, edges, codeVars>>

AcceptEdges ==
  /\ pc = "check" /\ edges # {} /\ \A e \in edges : kind[e.prod] # "phi"
  /\ pc' = "generate"
  /\ UNCHANGED <<loopVars, outcome, cutVars, replVars, edges, codeVars>>

---------------------------------------------------------------------------
(* Generating the stages. *)

(* generateStage keeps its own and the repeated instructions, dequeues in  *)
(* the place of a value it uses, and erases the rest.                      *)
Clone(s) ==
  [i \in Instrs |->
     IF Replicated(i) \/ stage[i] = s THEN "run"
     ELSE IF \E e \in edges : e.prod = i /\ e.to = s THEN "dequeue"
     ELSE "erased"]

(* Mutant: every stage stores what it holds of it. *)
StoresLiveOutAlways(s) == returned.what = "loop"

(* The exit block stores a live-out defined in the loop where it is run,   *)
(* and a constant in stage 0.                                              *)
StoresLiveOut(s) ==
  \/ /\ returned.what = "loop"
     /\ Replicated(returned.def) \/ stage[returned.def] = s
  \/ returned.what = "const" /\ s = 0

GenerateStage ==
  /\ pc = "generate" /\ Len(clones) < numStages
  /\ LET s == Len(clones) IN
       /\ clones' = Append(clones, Clone(s))
       /\ stores' = IF StoresLiveOut(s) THEN stores \cup {s} ELSE stores
  /\ UNCHANGED <<loopVars, pc, outcome, cutVars, replVars, edges, body>>

(* Mutant: the stages generated before are kept. *)
KeepStages ==
  /\ pc = "generate" /\ Len(clones) < numStages
  /\ Bail
  /\ UNCHANGED <<loopVars, cutVars, replVars, edges, codeVars>>

(* The verifier rejects a stage (it uses a value computed before the loop, *)
(* say): the stages generated so far are erased.                           *)
RejectStage ==
  /\ pc = "generate" /\ Len(clones) < numStages
  /\ Bail
  /\ clones' = <<>> /\ stores' = {}
  /\ UNCHANGED <<loopVars, cutVars, replVars, edges, body>>

(* emitDriver replaces the whole body. *)
EmitDriver ==
  /\ pc = "generate" /\ Len(clones) = numStages
  /\ body' = "driver"
  /\ pc' = "done" /\ outcome' = "rewritten"
  /\ UNCHANGED <<loopVars, cutVars, replVars, edges, clones, stores>>

Finished == pc = "done" /\ UNCHANGED vars

PlanStep ==
  \/ BailNoCut
  \/ Cut
  \/ SeedReplication
  \/ \E x \in worklist : CloseReplication(x)
  \/ BailStageEmpty
  \/ FindCrossEdges
  \/ BailEdges
  \/ AcceptEdges
  \/ GenerateStage
  \/ RejectStage
  \/ EmitDriver

Next == PlanStep \/ Finished

Spec == Init /\ [][Next]_vars

---------------------------------------------------------------------------
(* Properties. *)

StageIds == 0 .. numStages - 1

(* Type invariant, checked as a part of the next one.                      *)
TypeOK ==
  /\ kind \in [Instrs -> Kinds] /\ uses \subseteq Instrs \X Instrs
  /\ conflicts \subseteq Instrs \X Instrs
  /\ returned \in ReturnValues /\ request \in Requests
  /\ pc \in {"start", "seed", "close", "check", "generate", "done"}
  /\ outcome \in {"none", "unchanged", "rewritten"}
  /\ numStages \in 0 .. MaxStages
  /\ scc \in [Instrs -> SUBSET Instrs] /\ stage \in [Instrs -> 0 .. MaxStages - 1]
  /\ repl \subseteq SUBSET Instrs /\ worklist \subseteq repl
  /\ edges \subseteq [prod : Instrs, from : StageIds, to : StageIds]
  /\ clones \in Seq([Instrs -> {"run", "dequeue", "erased"}]) /\ Len(clones) <= numStages
  /\ stores \subseteq StageIds /\ body \in {"original", "driver"}

Runs(s, i) == clones[s + 1][i] = "run"

(* A stage can run by itself: it keeps every branch, so that all stages    *)
(* walk the same path through the loop and meet every queue call of the    *)
(* others, and each instruction it runs finds its operands there, computed *)
(* by the stage or taken from a queue in their place.                      *)
StagesAreComplete ==
  /\ TypeOK
  /\ \A s \in 0 .. Len(clones) - 1 :
       /\ \A i \in Instrs : kind[i] = "br" => Runs(s, i)
       /\ \A e \in uses : Runs(s, e[2]) => clones[s + 1][e[1]] # "erased"

(* A queue has one producer and one consumer: its value is run by its      *)
(* `from' stage alone and dequeued in its `to' stage.                      *)
QueuesArePointToPoint ==
  pc = "done" /\ outcome = "rewritten" =>
    \A e \in edges : /\ {s \in StageIds : Runs(s, e.prod)} = {e.from}
                     /\ clones[e.to + 1][e.prod] = "dequeue"

(* Nothing is lost and the work is split: an instruction is run by every   *)
(* stage if it is repeated and otherwise by its own stage and no other,    *)
(* and each stage runs something that the others do not.                   *)
WorkIsSplit ==
  outcome = "rewritten" =>
    /\ \A i \in Instrs : {s \in StageIds : Runs(s, i)} =
                           IF Replicated(i) THEN StageIds ELSE {stage[i]}
    /\ \A s \in StageIds : \E i \in Instrs : {t \in StageIds : Runs(t, i)} = {s}

(* The function is rewritten with all its stages or left as it was with    *)
(* none, and the body goes only when all stages exist.                     *)
AllOrNothing ==
  /\ body = "driver" <=> outcome = "rewritten"
  /\ outcome = "rewritten" => Len(clones) = numStages
  /\ outcome = "unchanged" => clones = <<>>

(* DSWPTransform.cpp:188 says that the exit block "stores any live-out     *)
(* into the args struct".                                                  *)
LiveOutIsStored == outcome = "rewritten" /\ returned.what # "void" => stores # {}
=============================================================================
