--------------------------- MODULE EndToEndProofs ---------------------------
(***************************************************************************)
(* TLAPS proofs about StagePlan, EndToEnd and FrontEnd, for loops of every *)
(* length and shape, every cut the partitioner may choose and every number *)
(* of stages: what holds of every plan; that running the stages leaves the *)
(* plan alone, so that it holds while they run; that the stages compute    *)
(* what the sequential loop does; and that the cuts of Partition are among *)
(* those planned with.                                                     *)
(***************************************************************************)
EXTENDS EndToEnd, FrontEnd, Arithmetic

---------------------------------------------------------------------------
(* The plan: its inductive invariant. *)

(* The plan is complete: replication is closed, the edges are found.       *)
Planned == pc \in {"check", "generate"} \/ outcome = "rewritten"

PhaseInv ==
  /\ pc = "done" <=> outcome # "none"
  /\ body = "driver" <=> outcome = "rewritten"
  /\ clones # <<>> => pc = "generate" \/ outcome = "rewritten"
  /\ outcome = "rewritten" => Len(clones) = numStages

CutInv ==
  /\ pc = "start" => numStages = 0
  /\ pc \in {"seed", "close"} \/ Planned => numStages # 0
  /\ numStages # 0 => numStages \in 2 .. MaxStages /\ stage \in Cuts(numStages, scc)

(* What a member of the closure depends on is a member, or the member is   *)
(* still to be looked at.                                                  *)
ReplInv ==
  /\ pc \in {"start", "seed"} => repl = {}
  /\ \A e \in Deps : scc[e[2]] \in repl \ worklist => scc[e[1]] \in repl
  /\ pc = "close" \/ Planned => Branches \subseteq repl
  /\ Planned => worklist = {}

EdgesInv ==
  /\ pc \in {"start", "seed", "close"} => edges = {}
  /\ edges # {} => edges = CrossEdges /\ numStages # 0
  /\ Planned => edges = CrossEdges /\ Cardinality(Occupied) = numStages

ClonesInv == \A n \in 1 .. Len(clones) : clones[n] = Clone(n - 1)

IInv == TypeOK /\ PhaseInv /\ CutInv /\ ReplInv /\ EdgesInv /\ ClonesInv

---------------------------------------------------------------------------
(* The operators of the plan. *)

(* A number of stages that was read from the environment is in range.      *)
LEMMA StagesForRange ==
  ASSUME NEW r \in Nat
  PROVE  StagesFor(r) \in 2 .. MaxStages
  BY StagePlanAssumption DEF StagesFor

LEMMA StageRange ==
  ASSUME NEW n \in 2 .. MaxStages
  PROVE  0 .. n - 1 \subseteq 0 .. MaxStages - 1
  BY StagePlanAssumption

LEMMA DepsType == TypeOK => Deps \subseteq Instrs \X Instrs
  BY DEF TypeOK, Deps, RegisterEdges, MemoryEdges

LEMMA ComponentsType == Components \in [Instrs -> SUBSET Instrs]
  BY DEF Components

(* The loop's part of the type invariant holds initially.                  *)
LEMMA InitCorrect == Init => IInv
<1> SUFFICES ASSUME Init PROVE IInv
  OBVIOUS
<1>1. TypeOK
  BY StagePlanAssumption DEF Init, TypeOK, StageIds
<1>2. PhaseInv /\ CutInv /\ EdgesInv /\ ClonesInv
  BY DEF Init, PhaseInv, CutInv, EdgesInv, ClonesInv, Planned
<1>3. ReplInv
  BY DEF Init, ReplInv, Planned
<1> QED  BY <1>1, <1>2, <1>3 DEF IInv

(* What is read of the loop and of the cut does not change with them.      *)
LEMMA SameLoop ==
  ASSUME UNCHANGED loopVars
  PROVE  Deps' = Deps
  BY DEF loopVars, Deps, RegisterEdges, MemoryEdges

LEMMA SameCut ==
  ASSUME UNCHANGED <<loopVars, cutVars>>
  PROVE  /\ Deps' = Deps /\ Branches' = Branches /\ StageIds' = StageIds
         /\ Cuts(numStages, scc)' = Cuts(numStages, scc)
  BY SameLoop DEF loopVars, cutVars, Branches, StageIds, Cuts

LEMMA SamePlan ==
  ASSUME UNCHANGED <<loopVars, cutVars, repl>>
  PROVE  /\ Occupied' = Occupied /\ CrossEdges' = CrossEdges
         /\ UNCHANGED edges => \A s : Clone(s)' = Clone(s)
  BY DEF loopVars, cutVars, Occupied, CrossEdges, Clone, Replicated

---------------------------------------------------------------------------
(* Each step of the planner keeps the invariant. *)

(* Giving up before anything is generated.                                 *)
LEMMA BailStep ==
  ASSUME IInv, Bail, UNCHANGED <<loopVars, cutVars, replVars, edges, body>>,
         outcome = "none", clones' = <<>>, stores' \subseteq stores
  PROVE  IInv'
<1> USE DEF IInv
<1>1. TypeOK'
  BY SameCut DEF TypeOK, Bail, loopVars, cutVars, replVars, ReturnValues
<1>2. PhaseInv'
  BY DEF PhaseInv, Bail
<1>3. CutInv'
  BY SameCut DEF CutInv, Bail, cutVars, Planned
<1>4. ReplInv'
  BY SameCut DEF ReplInv, Bail, replVars, cutVars, Planned
<1>5. EdgesInv'
  BY SamePlan DEF EdgesInv, Bail, replVars, cutVars, Planned
<1>6. ClonesInv'
  BY DEF ClonesInv
<1> QED  BY <1>1, <1>2, <1>3, <1>4, <1>5, <1>6

(* Choosing a cut.                                                         *)
LEMMA CutStep == IInv /\ Cut => IInv'
<1> SUFFICES ASSUME IInv, Cut PROVE IInv'
  OBVIOUS
<1> USE DEF IInv
<1>1. /\ numStages = 0 /\ edges = {} /\ clones = <<>> /\ stores = {}
      /\ pc = "start" /\ outcome = "none" /\ repl = {} /\ worklist = {}
      /\ body = "original"
  BY DEF Cut, TypeOK, PhaseInv, CutInv, EdgesInv, ReplInv, StageIds
<1>2. numStages' \in 2 .. MaxStages
  BY StagesForRange, StagePlanAssumption DEF Cut, TypeOK
<1>3. /\ pc' = "seed" /\ outcome' = "none" /\ edges' = {} /\ clones' = <<>> /\ stores' = {}
      /\ repl' = {} /\ worklist' = {} /\ body' = "original"
      /\ UNCHANGED loopVars
  BY <1>1 DEF Cut, replVars, codeVars
<1>4. scc' \in [Instrs -> SUBSET Instrs]
  BY ComponentsType DEF Cut
<1>5. stage' \in Cuts(numStages, scc)'
  BY <1>3, SameLoop DEF Cut, Cuts, loopVars
<1>6. stage' \in [Instrs -> 0 .. MaxStages - 1]
  <2>1. stage' \in [Instrs -> 0 .. numStages' - 1]
    BY DEF Cut, Cuts
  <2>2. 0 .. numStages' - 1 \subseteq 0 .. MaxStages - 1
    BY <1>2, StageRange
  <2> QED  BY <2>1, <2>2
<1>7. TypeOK'
  BY <1>2, <1>3, <1>4, <1>6, StagePlanAssumption DEF TypeOK, loopVars, ReturnValues
<1>8. PhaseInv' /\ EdgesInv' /\ ClonesInv'
  BY <1>3 DEF PhaseInv, EdgesInv, ClonesInv, Planned
<1>9. CutInv'
  BY <1>2, <1>3, <1>5 DEF CutInv
<1>10. ReplInv'
  BY <1>3 DEF ReplInv, Planned
<1> QED  BY <1>7, <1>8, <1>9, <1>10

(* The closure starts from the components of the branches.                 *)
LEMMA SeedStep == IInv /\ SeedReplication => IInv'
<1> SUFFICES ASSUME IInv, SeedReplication PROVE IInv'
  OBVIOUS
<1> USE DEF IInv
<1>1. /\ pc = "seed" /\ pc' = "close" /\ outcome = "none" /\ outcome' = "none"
      /\ edges = {} /\ clones = <<>> /\ body = "original"
      /\ UNCHANGED <<loopVars, cutVars, edges, clones, stores, body>>
  BY DEF SeedReplication, TypeOK, PhaseInv, EdgesInv, codeVars
<1>2. Branches \subseteq SUBSET Instrs
  BY DEF Branches, TypeOK
<1>3. TypeOK'
  BY <1>1, <1>2, SameCut DEF SeedReplication, TypeOK, loopVars, cutVars, ReturnValues
<1>4. PhaseInv' /\ EdgesInv' /\ ClonesInv'
  BY <1>1 DEF PhaseInv, EdgesInv, ClonesInv, Planned
<1>5. CutInv'
  BY <1>1, SameCut DEF CutInv, cutVars, Planned
<1>6. ReplInv'
  BY <1>1, SameCut DEF SeedReplication, ReplInv, Planned
<1> QED  BY <1>3, <1>4, <1>5, <1>6

(* One turn of the worklist: what x depends on is added.                   *)
LEMMA CloseStep == ASSUME NEW x, IInv, CloseReplication(x) PROVE IInv'
<1> USE DEF IInv
<1>1. /\ pc = "close" /\ pc' = "close" /\ outcome = "none" /\ outcome' = "none"
      /\ edges = {} /\ clones = <<>> /\ body = "original"
      /\ UNCHANGED <<loopVars, cutVars, edges, clones, stores, body>>
  BY DEF CloseReplication, TypeOK, PhaseInv, EdgesInv, codeVars
<1>2. PredsOf(x) \subseteq SUBSET Instrs
  BY DepsType DEF PredsOf, TypeOK
<1>3. TypeOK'
  BY <1>1, <1>2, SameCut DEF CloseReplication, TypeOK, loopVars, cutVars, ReturnValues
<1>4. PhaseInv' /\ EdgesInv' /\ ClonesInv'
  BY <1>1 DEF PhaseInv, EdgesInv, ClonesInv, Planned
<1>5. CutInv'
  BY <1>1, SameCut DEF CutInv, cutVars, Planned
<1>6. ReplInv'
  <2>1. \A e \in Deps : scc[e[2]] \in repl' \ worklist' => scc[e[1]] \in repl'
    <3> SUFFICES ASSUME NEW e \in Deps, scc[e[2]] \in repl' \ worklist'
                 PROVE  scc[e[1]] \in repl'
      OBVIOUS
    <3>1. CASE scc[e[2]] = x
      BY <3>1 DEF CloseReplication, PredsOf, TypeOK
    <3>2. CASE scc[e[2]] # x
      <4>1. scc[e[2]] \in repl \ worklist
        BY <3>2 DEF CloseReplication
      <4> QED  BY <4>1 DEF ReplInv, CloseReplication
    <3> QED  BY <3>1, <3>2
  <2>2. Branches \subseteq repl'
    BY <1>1 DEF ReplInv, CloseReplication
  <2> QED  BY <1>1, <2>1, <2>2, SameCut DEF ReplInv, Planned, cutVars
<1> QED  BY <1>3, <1>4, <1>5, <1>6

(* The cross edges join two stages of the plan.                            *)
LEMMA CrossEdgesType ==
  ASSUME IInv, numStages # 0
  PROVE  CrossEdges \subseteq [prod : Instrs, from : StageIds, to : StageIds]
<1>1. stage \in [Instrs -> StageIds] /\ uses \subseteq Instrs \X Instrs
  BY DEF IInv, CutInv, Cuts, StageIds, TypeOK
<1> QED  BY <1>1 DEF CrossEdges

LEMMA FindStep == IInv /\ FindCrossEdges => IInv'
<1> SUFFICES ASSUME IInv, FindCrossEdges PROVE IInv'
  OBVIOUS
<1> USE DEF IInv
<1>1. /\ pc = "close" /\ pc' = "check" /\ outcome = "none" /\ outcome' = "none"
      /\ worklist = {} /\ clones = <<>> /\ body = "original" /\ numStages # 0
      /\ edges' = CrossEdges /\ Cardinality(Occupied) = numStages
      /\ UNCHANGED <<loopVars, cutVars, replVars, clones, stores, body>>
  BY DEF FindCrossEdges, TypeOK, PhaseInv, CutInv, codeVars
<1>2. UNCHANGED repl
  BY <1>1 DEF replVars
<1>3. TypeOK'
  BY <1>1, CrossEdgesType, SameCut DEF TypeOK, loopVars, cutVars, replVars, ReturnValues
<1>4. PhaseInv' /\ ClonesInv'
  BY <1>1 DEF PhaseInv, ClonesInv
<1>5. CutInv'
  BY <1>1, SameCut DEF CutInv, cutVars, Planned
<1>6. ReplInv'
  BY <1>1, SameCut DEF ReplInv, Planned, cutVars, replVars
<1>7. EdgesInv'
  BY <1>1, <1>2, SamePlan DEF EdgesInv, cutVars
<1> QED  BY <1>3, <1>4, <1>5, <1>6, <1>7

LEMMA AcceptStep == IInv /\ AcceptEdges => IInv'
<1> SUFFICES ASSUME IInv, AcceptEdges PROVE IInv'
  OBVIOUS
<1> USE DEF IInv
<1>1. /\ pc = "check" /\ pc' = "generate" /\ outcome = "none" /\ outcome' = "none"
      /\ clones = <<>> /\ body = "original"
      /\ UNCHANGED <<loopVars, cutVars, replVars, edges, clones, stores, body>>
  BY DEF AcceptEdges, TypeOK, PhaseInv, codeVars
<1>2. UNCHANGED repl
  BY <1>1 DEF replVars
<1>3. TypeOK'
  BY <1>1, SameCut DEF TypeOK, loopVars, cutVars, replVars, ReturnValues
<1>4. PhaseInv' /\ ClonesInv'
  BY <1>1 DEF PhaseInv, ClonesInv
<1>5. CutInv'
  BY <1>1, SameCut DEF CutInv, cutVars, Planned
<1>6. ReplInv'
  BY <1>1, SameCut DEF ReplInv, Planned, cutVars, replVars
<1>7. EdgesInv'
  BY <1>1, <1>2, SamePlan DEF EdgesInv, cutVars, Planned
<1> QED  BY <1>3, <1>4, <1>5, <1>6, <1>7

(* One more stage, as Clone says.                                          *)
LEMMA GenerateStep == IInv /\ GenerateStage => IInv'
<1> SUFFICES ASSUME IInv, GenerateStage PROVE IInv'
  OBVIOUS
<1> USE DEF IInv
<1>1. /\ pc = "generate" /\ pc' = "generate" /\ outcome = "none" /\ outcome' = "none"
      /\ body = "original" /\ Len(clones) < numStages
      /\ clones' = Append(clones, Clone(Len(clones)))
      /\ UNCHANGED <<loopVars, cutVars, replVars, edges, body>>
  BY DEF GenerateStage, TypeOK, PhaseInv
<1>2. UNCHANGED repl
  BY <1>1 DEF replVars
<1>3. Clone(Len(clones)) \in [Instrs -> {"run", "dequeue", "erased"}]
  BY DEF Clone
<1>4. /\ Len(clones) \in Nat /\ Len(clones') = Len(clones) + 1
      /\ clones' \in Seq([Instrs -> {"run", "dequeue", "erased"}])
      /\ \A n \in 1 .. Len(clones) : clones'[n] = clones[n]
      /\ clones'[Len(clones) + 1] = Clone(Len(clones))
  BY <1>1, <1>3 DEF TypeOK
<1>5. stores' \subseteq StageIds
  <2>1. Len(clones) \in StageIds
    BY <1>1, <1>4 DEF StageIds, TypeOK
  <2> QED  BY <2>1 DEF GenerateStage, TypeOK
<1>6. TypeOK'
  BY <1>1, <1>4, <1>5, SameCut DEF TypeOK, loopVars, cutVars, replVars, ReturnValues
<1>7. PhaseInv'
  BY <1>1 DEF PhaseInv
<1>8. CutInv'
  BY <1>1, SameCut DEF CutInv, cutVars, Planned
<1>9. ReplInv'
  BY <1>1, SameCut DEF ReplInv, Planned, cutVars, replVars
<1>10. EdgesInv'
  BY <1>1, <1>2, SamePlan DEF EdgesInv, cutVars, Planned
<1>11. ClonesInv'
  BY <1>1, <1>2, <1>4, SamePlan DEF ClonesInv
<1> QED  BY <1>6, <1>7, <1>8, <1>9, <1>10, <1>11

LEMMA EmitStep == IInv /\ EmitDriver => IInv'
<1> SUFFICES ASSUME IInv, EmitDriver PROVE IInv'
  OBVIOUS
<1> USE DEF IInv
<1>1. /\ pc = "generate" /\ pc' = "done" /\ outcome = "none" /\ outcome' = "rewritten"
      /\ body' = "driver" /\ Len(clones) = numStages
      /\ UNCHANGED <<loopVars, cutVars, replVars, edges, clones, stores>>
  BY DEF EmitDriver, PhaseInv
<1>2. UNCHANGED repl
  BY <1>1 DEF replVars
<1>3. TypeOK'
  BY <1>1, SameCut DEF TypeOK, loopVars, cutVars, replVars, ReturnValues
<1>4. PhaseInv'
  BY <1>1 DEF PhaseInv, cutVars
<1>5. CutInv'
  BY <1>1, SameCut DEF CutInv, cutVars, Planned
<1>6. ReplInv'
  BY <1>1, SameCut DEF ReplInv, Planned, cutVars, replVars
<1>7. EdgesInv'
  BY <1>1, <1>2, SamePlan DEF EdgesInv, cutVars, Planned
<1>8. ClonesInv'
  BY <1>1, <1>2, SamePlan DEF ClonesInv
<1> QED  BY <1>3, <1>4, <1>5, <1>6, <1>7, <1>8

(* The invariant is kept by every step, and by steps of others.            *)
LEMMA StepCorrect == IInv /\ [Next]_vars => IInv'
<1> SUFFICES ASSUME IInv, [Next]_vars PROVE IInv'
  OBVIOUS
<1>1. CASE BailNoCut \/ BailStageEmpty \/ BailEdges
  <2>1. pc # "done" /\ clones = <<>>
    BY <1>1 DEF BailNoCut, BailStageEmpty, BailEdges, IInv, PhaseInv
  <2>2. /\ outcome = "none" /\ Bail /\ clones' = <<>> /\ stores' \subseteq stores
        /\ UNCHANGED <<loopVars, cutVars, replVars, edges, body>>
    BY <1>1, <2>1 DEF BailNoCut, BailStageEmpty, BailEdges, IInv, PhaseInv, codeVars
  <2> QED  BY <2>2, BailStep
<1>2. CASE RejectStage
  <2>1. /\ outcome = "none" /\ Bail /\ clones' = <<>> /\ stores' \subseteq stores
        /\ UNCHANGED <<loopVars, cutVars, replVars, edges, body>>
    BY <1>2 DEF RejectStage, IInv, PhaseInv
  <2> QED  BY <2>1, BailStep
<1>3. CASE Cut
  BY <1>3, CutStep
<1>4. CASE SeedReplication
  BY <1>4, SeedStep
<1>5. CASE \E x \in worklist : CloseReplication(x)
  BY <1>5, CloseStep
<1>6. CASE FindCrossEdges
  BY <1>6, FindStep
<1>7. CASE AcceptEdges
  BY <1>7, AcceptStep
<1>8. CASE GenerateStage
  BY <1>8, GenerateStep
<1>9. CASE EmitDriver
  BY <1>9, EmitStep
<1>10. CASE UNCHANGED vars
  <2>1. /\ UNCHANGED <<loopVars, cutVars, repl, edges>>
        /\ UNCHANGED <<pc, outcome, worklist, clones, stores, body>>
    BY <1>10 DEF vars, replVars, codeVars
  <2>2. TypeOK'
    BY <2>1, SameCut DEF IInv, TypeOK, loopVars, cutVars, ReturnValues
  <2>3. PhaseInv' /\ CutInv' /\ ReplInv'
    BY <2>1, SameCut DEF IInv, PhaseInv, CutInv, ReplInv, cutVars, Planned
  <2>4. EdgesInv' /\ ClonesInv'
    BY <2>1, SamePlan DEF IInv, EdgesInv, ClonesInv, cutVars, Planned
  <2> QED  BY <2>2, <2>3, <2>4 DEF IInv
<1> QED
  BY <1>1, <1>2, <1>3, <1>4, <1>5, <1>6, <1>7, <1>8, <1>9, <1>10
     DEF Next, PlanStep, Finished

LEMMA Invariance == Spec => []IInv
  BY InitCorrect, StepCorrect, PTL DEF Spec

---------------------------------------------------------------------------
(* What follows from the invariant. *)

(* A generated stage is the clone that the plan asks for.                  *)
LEMMA CloneOf ==
  ASSUME IInv, NEW s \in 0 .. Len(clones) - 1
  PROVE  /\ clones[s + 1] = Clone(s)
         /\ \A i \in Instrs : Runs(s, i) <=> Replicated(i) \/ stage[i] = s
<1>1. s + 1 \in 1 .. Len(clones) /\ (s + 1) - 1 = s
  BY DEF IInv, TypeOK
<1>2. clones[s + 1] = Clone(s)
  BY <1>1 DEF IInv, ClonesInv
<1> QED  BY <1>2 DEF Runs, Clone

(* While there are clones the plan is complete.                            *)
LEMMA ClonesPlanned ==
  ASSUME IInv, clones # <<>>
  PROVE  Planned /\ edges = CrossEdges /\ worklist = {} /\ Branches \subseteq repl
  BY DEF IInv, PhaseInv, EdgesInv, ReplInv, Planned

LEMMA Complete == IInv => StagesAreComplete
<1> SUFFICES ASSUME IInv, NEW s \in 0 .. Len(clones) - 1
             PROVE  /\ \A i \in Instrs : kind[i] = "br" => Runs(s, i)
                    /\ \A e \in uses : Runs(s, e[2]) => clones[s + 1][e[1]] # "erased"
  BY DEF StagesAreComplete, IInv
<1>1. Planned /\ edges = CrossEdges /\ worklist = {} /\ Branches \subseteq repl
  <2>1. clones # <<>>
    BY DEF IInv, TypeOK
  <2> QED  BY <2>1, ClonesPlanned
<1>2. \A i \in Instrs : kind[i] = "br" => Runs(s, i)
  BY <1>1, CloneOf DEF Branches, Replicated
<1>3. ASSUME NEW e \in uses, Runs(s, e[2])
      PROVE  clones[s + 1][e[1]] # "erased"
  <2>1. e \in Deps /\ e[1] \in Instrs /\ e[2] \in Instrs
    BY DEF Deps, RegisterEdges, IInv, TypeOK
  <2>2. CASE Replicated(e[2])
    <3>1. Replicated(e[1])
      BY <1>1, <2>1, <2>2 DEF Replicated, IInv, ReplInv
    <3> QED  BY <2>1, <3>1, CloneOf DEF Clone
  <2>3. CASE ~Replicated(e[2]) /\ (Replicated(e[1]) \/ stage[e[1]] = s)
    <3>1. Clone(s)[e[1]] = "run"
      BY <2>1, <2>3 DEF Clone
    <3> QED  BY <3>1, CloneOf
  <2>4. CASE ~Replicated(e[2]) /\ ~Replicated(e[1]) /\ stage[e[1]] # s
    <3>1. stage[e[2]] = s
      BY <1>3, <2>1, <2>4, CloneOf
    <3> DEFINE c == [prod |-> e[1], from |-> stage[e[1]], to |-> s]
    <3>2. c \in edges
      BY <1>1, <2>4, <3>1 DEF CrossEdges
    <3>3. c.prod = e[1] /\ c.to = s
      OBVIOUS
    <3>4. Clone(s)[e[1]] = "dequeue"
      BY <2>1, <2>4, <3>2, <3>3 DEF Clone
    <3> QED  BY <3>4, CloneOf
  <2> QED  BY <2>2, <2>3, <2>4
<1> QED  BY <1>2, <1>3

(* A cross edge leaves the only stage that runs its producer, for a later  *)
(* one.                                                                    *)
LEMMA CrossEdgeFacts ==
  ASSUME IInv, NEW e \in edges
  PROVE  /\ e.prod \in Instrs /\ ~Replicated(e.prod) /\ e.from = stage[e.prod]
         /\ e.from \in StageIds /\ e.to \in StageIds /\ e.from < e.to
<1>1. edges = CrossEdges /\ numStages # 0
  BY DEF IInv, EdgesInv
<1>2. PICK u \in uses : /\ ~Replicated(u[1]) /\ ~Replicated(u[2]) /\ stage[u[1]] # stage[u[2]]
                        /\ e = [prod |-> u[1], from |-> stage[u[1]], to |-> stage[u[2]]]
  BY <1>1 DEF CrossEdges
<1>3. u[1] \in Instrs /\ u[2] \in Instrs /\ u \in Deps
  BY DEF IInv, TypeOK, Deps, RegisterEdges
<1>4. stage \in [Instrs -> 0 .. numStages - 1] /\ stage[u[1]] <= stage[u[2]]
  BY <1>1, <1>3 DEF IInv, CutInv, Cuts
<1>5. numStages \in Nat /\ stage[u[1]] \in 0 .. numStages - 1 /\ stage[u[2]] \in 0 .. numStages - 1
  BY <1>3, <1>4 DEF IInv, TypeOK
<1> QED  BY <1>2, <1>3, <1>4, <1>5 DEF StageIds

LEMMA PointToPoint == IInv => QueuesArePointToPoint
<1> SUFFICES ASSUME IInv, outcome = "rewritten", NEW e \in edges
             PROVE  /\ {s \in StageIds : Runs(s, e.prod)} = {e.from}
                    /\ clones[e.to + 1][e.prod] = "dequeue"
  BY DEF QueuesArePointToPoint
<1>1. StageIds = 0 .. Len(clones) - 1
  BY DEF IInv, PhaseInv, StageIds
<1>2. \A s \in StageIds : Runs(s, e.prod) <=> s = e.from
  BY <1>1, CloneOf, CrossEdgeFacts
<1>3. clones[e.to + 1] = Clone(e.to)
  BY <1>1, CloneOf, CrossEdgeFacts
<1>4. stage[e.prod] # e.to
  BY CrossEdgeFacts DEF StageIds
<1>5. Clone(e.to)[e.prod] = "dequeue"
  BY <1>4, CrossEdgeFacts DEF Clone
<1> QED  BY <1>2, <1>3, <1>5, CrossEdgeFacts

(* As many occupied stages as there are stages are all of them.            *)
LEMMA AllOccupied ==
  ASSUME IInv, Planned
  PROVE  Occupied = StageIds
<1>1. numStages \in Nat /\ numStages # 0 /\ Cardinality(Occupied) = numStages
  BY DEF IInv, TypeOK, CutInv, EdgesInv
<1>2. stage \in [Instrs -> 0 .. numStages - 1]
  BY <1>1 DEF IInv, CutInv, Cuts
<1>3. Occupied \subseteq 0 .. numStages - 1
  BY <1>2 DEF Occupied
<1>4. IsFiniteSet(0 .. numStages - 1) /\ Cardinality(0 .. numStages - 1) = numStages
  <2>1. /\ IsFiniteSet(0 .. numStages - 1)
        /\ Cardinality(0 .. numStages - 1) =
             IF 0 > numStages - 1 THEN 0 ELSE (numStages - 1) - 0 + 1
    BY <1>1, FS_Interval
  <2> QED  BY <1>1, <2>1
<1> QED  BY <1>1, <1>3, <1>4, FS_Subset DEF StageIds

LEMMA Split == IInv => WorkIsSplit
<1> SUFFICES ASSUME IInv, outcome = "rewritten"
             PROVE  /\ \A i \in Instrs : {s \in StageIds : Runs(s, i)} =
                                           IF Replicated(i) THEN StageIds ELSE {stage[i]}
                    /\ \A s \in StageIds : \E i \in Instrs :
                         {t \in StageIds : Runs(t, i)} = {s}
  BY DEF WorkIsSplit
<1>1. /\ StageIds = 0 .. Len(clones) - 1 /\ Planned /\ numStages # 0
      /\ Occupied = StageIds
  BY AllOccupied DEF IInv, PhaseInv, CutInv, StageIds, Planned
<1>2. stage \in [Instrs -> StageIds]
  BY <1>1 DEF IInv, CutInv, Cuts, StageIds
<1>3. \A s \in StageIds : \A i \in Instrs : Runs(s, i) <=> Replicated(i) \/ stage[i] = s
  BY <1>1, CloneOf
<1>4. ASSUME NEW i \in Instrs
      PROVE  {s \in StageIds : Runs(s, i)} = IF Replicated(i) THEN StageIds ELSE {stage[i]}
  BY <1>2, <1>3
<1>5. ASSUME NEW s \in StageIds
      PROVE  \E i \in Instrs : {t \in StageIds : Runs(t, i)} = {s}
  <2>1. PICK i \in Instrs : ~Replicated(i) /\ stage[i] = s
    BY <1>1 DEF Occupied
  <2> QED  BY <1>4, <2>1
<1> QED  BY <1>4, <1>5

LEMMA Atomic == IInv => AllOrNothing
  BY DEF IInv, PhaseInv, AllOrNothing

---------------------------------------------------------------------------
(* The theorems about the plan. *)

(* Every stage keeps all branches and finds the operands of all it runs,   *)
(* whatever the loop, the cut and the order of the closure's worklist.     *)
THEOREM StagesComplete == Spec => []StagesAreComplete
  BY Invariance, Complete, PTL

(* Every queue has one producing and one consuming stage.                  *)
THEOREM OneProducerOneConsumer == Spec => []QueuesArePointToPoint
  BY Invariance, PointToPoint, PTL

(* In a function that is rewritten, an instruction that is not repeated is *)
(* run by the stage it was given and no other, one that is by all; and     *)
(* each stage has work that no other does, because as many stages are      *)
(* occupied as were asked for.                                             *)
THEOREM WorkSplit == Spec => []WorkIsSplit
  BY Invariance, Split, PTL

(* The body is replaced only when all stages exist; otherwise none does.   *)
THEOREM RewriteIsAtomic == Spec => []AllOrNothing
  BY Invariance, Atomic, PTL

---------------------------------------------------------------------------
(* The run is a behaviour of the planner. *)

LEMMA RunStep == [NextRun]_allVars => [Next]_vars
<1> SUFFICES ASSUME [NextRun]_allVars PROVE [Next]_vars
  OBVIOUS
<1>1. CASE Plan
  BY <1>1 DEF Plan, Next
<1>2. CASE Launch \/ Join \/ Ended \/ UNCHANGED allVars
  BY <1>2 DEF Launch, Join, Ended, allVars
<1>3. CASE \E s \in DOMAIN pos : Compute(s) \/ Receive(s) \/ Branch(s)
  BY <1>3 DEF Compute, Receive, Branch
<1> QED  BY <1>1, <1>2, <1>3 DEF NextRun

(* Every behaviour of a planned and running loop is one of the planner:    *)
(* the stages change nothing of the plan they were generated from.         *)
THEOREM RunsThePlan == SpecRun => Spec
<1>1. InitRun => Init
  BY DEF InitRun
<1> QED  BY <1>1, RunStep, PTL DEF SpecRun, Spec

(* Every stage that runs keeps all branches of the loop and finds, or is   *)
(* sent, the operands of all it executes.                                  *)
THEOREM RunningStagesAreComplete == SpecRun => []StagesAreComplete
  BY RunsThePlan, StagesComplete

---------------------------------------------------------------------------
(* Positions. *)

LEMMA AtRange == ASSUME NEW p \in Int PROVE At(p) \in Instrs
<1>1. NumInstrs \in Nat \ {0}
  BY StagePlanAssumption
<1>2. (p - 1) % NumInstrs \in 0 .. NumInstrs - 1
  BY <1>1, DivisionDef
<1> QED  BY <1>1, <1>2 DEF At, Instrs

(* The positions of an instruction are a whole number of rounds apart.     *)
LEMMA AtDef ==
  ASSUME NEW p \in Int, NEW i \in Instrs
  PROVE  At(p) = i <=> \E k \in Int : p = k * NumInstrs + i
<1>1. NumInstrs \in Nat \ {0} /\ i \in Int /\ i - 1 \in 0 .. NumInstrs - 1
  BY StagePlanAssumption DEF Instrs
<1>2. ASSUME At(p) = i PROVE \E k \in Int : p = k * NumInstrs + i
  <2> DEFINE k == (p - 1) \div NumInstrs
             r == (p - 1) % NumInstrs
  <2>1. k \in Int /\ r \in 0 .. NumInstrs - 1 /\ p - 1 = k * NumInstrs + r
    BY <1>1, DivisionDef
  <2>2. r = i - 1
    BY <1>1, <1>2, <2>1 DEF At
  <2> HIDE DEF k, r
  <2>3. k * NumInstrs \in Int
    BY <1>1, <2>1
  <2> QED  BY <1>1, <2>1, <2>2, <2>3
<1>3. ASSUME NEW k \in Int, p = k * NumInstrs + i PROVE At(p) = i
  <2>1. (k * NumInstrs + (i - 1)) % NumInstrs = i - 1
    BY <1>1, DivisionUnique
  <2>2. k * NumInstrs \in Int
    BY <1>1
  <2>3. p - 1 = k * NumInstrs + (i - 1)
    BY <1>1, <1>3, <2>2
  <2> QED  BY <1>1, <2>1, <2>3 DEF At
<1> QED  BY <1>2, <1>3

(* An instruction runs only once in a round.                               *)
LEMMA OncePerRound ==
  ASSUME NEW p \in Int, NEW q \in Int, At(p) = At(q), q - p \in 0 .. NumInstrs - 1
  PROVE  p = q
<1>1. NumInstrs \in Nat \ {0}
  BY StagePlanAssumption
<1> DEFINE i == At(p)
<1>2. i \in Instrs /\ i \in Int
  BY AtRange DEF Instrs
<1>3. PICK j \in Int : p = j * NumInstrs + i
  BY <1>2, AtDef
<1>4. PICK k \in Int : q = k * NumInstrs + i
  BY <1>2, AtDef
<1> HIDE DEF i
<1>5. q - p = (k - j) * NumInstrs + 0
  BY <1>1, <1>2, <1>3, <1>4
<1>6. ((k - j) * NumInstrs + 0) % NumInstrs = 0
  BY <1>1, DivisionUnique
<1>7. (q - p) % NumInstrs = q - p
  BY <1>1, SmallRemainder
<1> QED  BY <1>5, <1>6, <1>7

(* Latest is what it is called: an earlier position of i, or 0, and none   *)
(* of i is between.                                                        *)
LEMMA LatestFacts ==
  ASSUME NEW i \in Instrs, NEW p \in Nat \ {0}
  PROVE  /\ Latest(i, p) \in 0 .. p - 1
         /\ Latest(i, p) # 0 => At(Latest(i, p)) = i
         /\ \A q \in 1 .. p - 1 : At(q) = i => q <= Latest(i, p)
<1>1. NumInstrs \in Nat \ {0} /\ i \in Int
  BY StagePlanAssumption DEF Instrs
<1> DEFINE k == (p - 1 - i) \div NumInstrs
           r == (p - 1 - i) % NumInstrs
           l == p - 1 - r
<1>2. k \in Int /\ r \in 0 .. NumInstrs - 1 /\ p - 1 - i = k * NumInstrs + r
  <2>1. p - 1 - i \in Int
    BY <1>1
  <2> QED  BY <1>1, <2>1, DivisionDef
<1>3. Latest(i, p) = IF l < 1 THEN 0 ELSE l
  BY DEF Latest
<1> HIDE DEF k, r
<1>4. k * NumInstrs \in Int
  BY <1>1, <1>2
<1>5. l \in Int /\ l = k * NumInstrs + i /\ l <= p - 1
  BY <1>1, <1>2, <1>4
<1>6. At(l) = i
  BY <1>2, <1>5, AtDef
<1>7. ASSUME NEW q \in 1 .. p - 1, At(q) = i PROVE q <= l
  <2> SUFFICES ASSUME q > l PROVE FALSE
    BY <1>5
  <2>1. q - l \in 0 .. NumInstrs - 1
    BY <1>1, <1>2, <1>5
  <2> QED  BY <1>5, <1>6, <1>7, <2>1, OncePerRound
<1> HIDE DEF l
<1> QED  BY <1>3, <1>5, <1>6, <1>7

LEMMA LatestUnique ==
  ASSUME NEW i \in Instrs, NEW p \in Nat \ {0}, NEW v \in 0 .. p - 1,
         v # 0 => At(v) = i,
         \A q \in 1 .. p - 1 : At(q) = i => q <= v
  PROVE  v = Latest(i, p)
<1>1. Latest(i, p) \in 0 .. p - 1
  BY LatestFacts
<1>2. v <= Latest(i, p)
  BY <1>1, LatestFacts
<1>3. Latest(i, p) <= v
  BY <1>1, LatestFacts
<1> QED  BY <1>1, <1>2, <1>3

(* A stage that keeps the last branch finds an instruction in every round, *)
(* and steps over erased ones only.                                        *)
Keeps(s, i) == clones[s + 1][i] # "erased"

LEMMA NextAtFacts ==
  ASSUME NEW s, NEW p \in Nat, Keeps(s, NumInstrs)
  PROVE  /\ NextAt(s, p) \in Nat /\ NextAt(s, p) > p
         /\ Keeps(s, At(NextAt(s, p)))
         /\ \A q \in p + 1 .. NextAt(s, p) - 1 : ~Keeps(s, At(q))
<1> DEFINE S == {q \in p + 1 .. p + NumInstrs : clones[s + 1][At(q)] # "erased"}
           n == NextAt(s, p)
<1>1. NumInstrs \in Nat \ {0} /\ NumInstrs \in Instrs
  BY StagePlanAssumption DEF Instrs
<1>2. S # {}
  <2> DEFINE k == p \div NumInstrs
             r == p % NumInstrs
             q == (k * NumInstrs) + NumInstrs
  <2>1. k \in Int /\ r \in 0 .. NumInstrs - 1 /\ p = k * NumInstrs + r
    BY <1>1, DivisionDef
  <2>2. k * NumInstrs \in Int
    BY <1>1, <2>1
  <2> HIDE DEF k, r
  <2>3. q \in p + 1 .. p + NumInstrs
    BY <1>1, <2>1, <2>2
  <2>4. q \in Int
    BY <1>1, <2>2
  <2>5. At(q) = NumInstrs
    BY <1>1, <2>1, <2>4, AtDef
  <2> HIDE DEF q
  <2> QED  BY <2>3, <2>5 DEF Keeps
<1>3. S \in SUBSET Nat
  BY <1>1
<1>4. n = CHOOSE x \in S : \A y \in S : x =< y
  BY DEF NextAt, Min
<1> HIDE DEF n
<1>5. n \in S /\ \A y \in S : n <= y
  <2> HIDE DEF S
  <2> QED  BY <1>2, <1>3, <1>4, Smallest
<1>6. ASSUME NEW q \in p + 1 .. n - 1 PROVE ~Keeps(s, At(q))
  <2>1. q \in p + 1 .. p + NumInstrs
    BY <1>1, <1>5
  <2>2. ~(n <= q)
    BY <1>1, <1>5
  <2> QED  BY <1>5, <2>1, <2>2 DEF Keeps
<1> QED  BY <1>1, <1>5, <1>6 DEF n, Keeps

---------------------------------------------------------------------------
(* The plan that is run. *)

(* What the loop is; no step changes it.                                   *)
LoopInv ==
  /\ kind[NumInstrs] = "br"
  /\ \A e \in uses : kind[e[1]] # "br"
  /\ \A p \in conflicts : Memory(p[1]) /\ Memory(p[2])
  /\ returned.what = "loop" => kind[returned.def] # "br"

StoresInv == stores = {s \in 0 .. Len(clones) - 1 : StoresLiveOut(s)}

PlanInv == IInv /\ LoopInv /\ StoresInv

LEMMA LoopInitially == Init => LoopInv
<1> SUFFICES ASSUME Init PROVE LoopInv
  OBVIOUS
<1>1. kind[NumInstrs] = "br"
  BY DEF Init, WellFormed
<1>2. \A e \in uses : kind[e[1]] # "br"
  BY DEF Init, MayUse
<1>3. \A p \in conflicts : Memory(p[1]) /\ Memory(p[2])
  BY DEF Init
<1>4. returned.what = "loop" => kind[returned.def] # "br"
  BY DEF Init
<1> QED  BY <1>1, <1>2, <1>3, <1>4 DEF LoopInv

LEMMA NextKeepsLoop == [Next]_vars => UNCHANGED loopVars
  BY DEF Next, PlanStep, Finished, vars, BailNoCut, Cut, SeedReplication, CloseReplication,
         BailStageEmpty, FindCrossEdges, BailEdges, AcceptEdges, GenerateStage, RejectStage,
         EmitDriver

LEMMA StoresStep == IInv /\ StoresInv /\ [Next]_vars => StoresInv'
<1> SUFFICES ASSUME IInv, StoresInv, [Next]_vars PROVE StoresInv'
  OBVIOUS
<1>1. Len(clones) \in Nat
  BY DEF IInv, TypeOK
<1>2. ASSUME clones' = <<>>, stores' = {} PROVE StoresInv'
  BY <1>2 DEF StoresInv
<1>3. ASSUME clones = <<>> PROVE stores = {}
  BY <1>3 DEF StoresInv
<1>4. ASSUME UNCHANGED <<loopVars, cutVars, repl>>
      PROVE  \A s : StoresLiveOut(s)' = StoresLiveOut(s)
  BY <1>4 DEF StoresLiveOut, Replicated, loopVars, cutVars
<1>5. CASE GenerateStage
  <2>1. /\ clones' = Append(clones, Clone(Len(clones)))
        /\ stores' = IF StoresLiveOut(Len(clones)) THEN stores \cup {Len(clones)} ELSE stores
        /\ UNCHANGED <<loopVars, cutVars, repl>>
    BY <1>5 DEF GenerateStage, replVars
  <2>2. Len(clones') = Len(clones) + 1
    BY <2>1 DEF IInv, TypeOK
  <2>3. \A s : s \in 0 .. Len(clones') - 1 <=> s \in 0 .. Len(clones) - 1 \/ s = Len(clones)
    BY <1>1, <2>2
  <2>4. Len(clones) \notin 0 .. Len(clones) - 1
    BY <1>1
  <2>5. \A s : StoresLiveOut(s)' = StoresLiveOut(s)
    BY <1>4, <2>1
  <2> QED  BY <2>1, <2>3, <2>4, <2>5 DEF StoresInv
<1>6. CASE EmitDriver \/ Finished \/ UNCHANGED vars
  <2>1. UNCHANGED <<clones, stores, loopVars, cutVars, repl>>
    BY <1>6 DEF EmitDriver, Finished, vars, replVars, codeVars
  <2> QED  BY <1>4, <2>1 DEF StoresInv
<1>7. CASE RejectStage
  BY <1>2, <1>7 DEF RejectStage
<1>8. CASE BailNoCut \/ Cut \/ SeedReplication \/ (\E x \in worklist : CloseReplication(x))
  <2>1. pc \in {"start", "seed", "close"} /\ UNCHANGED <<clones, stores>>
    BY <1>8 DEF BailNoCut, Cut, SeedReplication, CloseReplication, codeVars
  <2>2. clones = <<>>
    BY <2>1 DEF IInv, PhaseInv
  <2> QED  BY <1>2, <1>3, <2>1, <2>2
<1>9. CASE BailStageEmpty \/ FindCrossEdges \/ BailEdges \/ AcceptEdges
  <2>1. pc \in {"close", "check"} /\ UNCHANGED <<clones, stores>>
    BY <1>9 DEF BailStageEmpty, FindCrossEdges, BailEdges, AcceptEdges, codeVars
  <2>2. clones = <<>>
    BY <2>1 DEF IInv, PhaseInv
  <2> QED  BY <1>2, <1>3, <2>1, <2>2
<1> QED  BY <1>5, <1>6, <1>7, <1>8, <1>9 DEF Next, PlanStep

LEMMA PlanInvariance == SpecRun => []PlanInv
<1>1. Init => PlanInv
  <2> SUFFICES ASSUME Init PROVE StoresInv
    BY InitCorrect, LoopInitially DEF PlanInv
  <2> QED  BY DEF Init, StoresInv
<1>2. PlanInv /\ [Next]_vars => PlanInv'
  <2> SUFFICES ASSUME PlanInv, [Next]_vars PROVE LoopInv'
    BY StepCorrect, StoresStep DEF PlanInv
  <2> QED  BY NextKeepsLoop DEF PlanInv, LoopInv, loopVars, Memory
<1>3. Spec => []PlanInv
  BY <1>1, <1>2, PTL DEF Spec
<1> QED  BY <1>3, RunsThePlan, PTL

(* A plan that is run, summed up.                                          *)
LEMMA ThePlan ==
  ASSUME PlanInv, body = "driver"
  PROVE  /\ numStages \in Nat /\ Len(clones) = numStages /\ stage \in [Instrs -> StageIds]
         /\ kind \in [Instrs -> Kinds] /\ uses \subseteq Instrs \X Instrs
         /\ \A s \in StageIds, i \in Instrs :
              /\ Runs(s, i) <=> Replicated(i) \/ stage[i] = s
              /\ Keeps(s, i) <=> Runs(s, i) \/ clones[s + 1][i] = "dequeue"
              /\ kind[i] = "br" => Runs(s, i)
         /\ \A s \in StageIds : Keeps(s, NumInstrs)
         /\ \A s \in StageIds, e \in uses :
              Runs(s, e[2]) => Keeps(s, e[1]) /\ kind[e[1]] # "br"
<1>1. outcome = "rewritten" /\ Len(clones) = numStages /\ numStages \in Nat
  BY DEF PlanInv, IInv, PhaseInv, TypeOK
<1>2. StageIds = 0 .. Len(clones) - 1
  BY <1>1 DEF StageIds
<1>3. StagesAreComplete
  BY Complete DEF PlanInv
<1>4. stage \in [Instrs -> StageIds] /\ kind \in [Instrs -> Kinds] /\ uses \subseteq Instrs \X Instrs
  BY <1>1 DEF PlanInv, IInv, TypeOK, CutInv, Cuts, Planned, StageIds
<1>5. ASSUME NEW s \in StageIds, NEW i \in Instrs
      PROVE  /\ Runs(s, i) <=> Replicated(i) \/ stage[i] = s
             /\ Keeps(s, i) <=> Runs(s, i) \/ clones[s + 1][i] = "dequeue"
             /\ kind[i] = "br" => Runs(s, i)
  <2>1. clones[s + 1] = Clone(s) /\ (Runs(s, i) <=> Replicated(i) \/ stage[i] = s)
    BY <1>2, CloneOf DEF PlanInv
  <2>2. Clone(s)[i] \in {"run", "dequeue", "erased"}
    BY DEF Clone
  <2>3. kind[i] = "br" => Runs(s, i)
    BY <1>2, <1>3 DEF StagesAreComplete
  <2> QED  BY <2>1, <2>2, <2>3 DEF Keeps, Runs
<1>6. NumInstrs \in Instrs /\ kind[NumInstrs] = "br"
  BY StagePlanAssumption DEF Instrs, PlanInv, LoopInv
<1>7. ASSUME NEW s \in StageIds, NEW e \in uses, Runs(s, e[2])
      PROVE  Keeps(s, e[1]) /\ kind[e[1]] # "br"
  BY <1>2, <1>3, <1>7 DEF StagesAreComplete, Keeps, PlanInv, LoopInv
<1> QED  BY <1>1, <1>4, <1>5, <1>6, <1>7

(* A cross edge, seen from its ends.                                       *)
LEMMA TheEdges ==
  ASSUME PlanInv, body = "driver", NEW e \in edges
  PROVE  /\ e.prod \in Instrs /\ e.from \in StageIds /\ e.to \in StageIds /\ e.from # e.to
         /\ kind[e.prod] # "br"
         /\ \A s \in StageIds : Runs(s, e.prod) <=> s = e.from
         /\ ~Runs(e.to, e.prod) /\ Keeps(e.to, e.prod)
         /\ \A d \in edges : d.prod = e.prod /\ d.to = e.to => d = e
<1>1. /\ e.prod \in Instrs /\ ~Replicated(e.prod) /\ e.from = stage[e.prod]
      /\ e.from \in StageIds /\ e.to \in StageIds /\ e.from < e.to
  BY CrossEdgeFacts DEF PlanInv
<1>2. outcome = "rewritten" /\ QueuesArePointToPoint /\ pc = "done"
  BY PointToPoint DEF PlanInv, IInv, PhaseInv
<1>3. \A s \in StageIds : Runs(s, e.prod) <=> s = e.from
  BY <1>1, ThePlan
<1>4. e.from # e.to
  BY <1>1, ThePlan DEF StageIds
<1>5. clones[e.to + 1][e.prod] = "dequeue"
  BY <1>2 DEF QueuesArePointToPoint
<1>6. kind[e.prod] # "br"
  BY <1>1, <1>3, <1>4, ThePlan
<1>7. ASSUME NEW d \in edges, d.prod = e.prod, d.to = e.to PROVE d = e
  <2>1. d.from = stage[d.prod]
    BY CrossEdgeFacts DEF PlanInv
  <2>2. edges \subseteq [prod : Instrs, from : StageIds, to : StageIds]
    BY DEF PlanInv, IInv, TypeOK
  <2> QED  BY <1>1, <1>7, <2>1, <2>2
<1> QED  BY <1>1, <1>3, <1>4, <1>5, <1>6, <1>7 DEF Keeps, Runs

(* Accesses that conflict are in the same stage, or both in all.           *)
LEMMA TheConflicts ==
  ASSUME PlanInv, body = "driver", NEW i \in Instrs, NEW j \in Instrs, Conflict(i, j)
  PROVE  stage[i] = stage[j] /\ (Replicated(i) <=> Replicated(j))
<1>1. /\ stage \in Cuts(numStages, scc) /\ worklist = {} /\ numStages \in Nat
      /\ \A e \in Deps : scc[e[2]] \in repl \ worklist => scc[e[1]] \in repl
  BY DEF PlanInv, IInv, PhaseInv, CutInv, ReplInv, Planned, TypeOK
<1>2. CASE i # j
  <2>1. <<i, j>> \in Deps /\ <<j, i>> \in Deps
    <3>1. CASE <<i, j>> \in conflicts
      BY <3>1 DEF Deps, MemoryEdges
    <3>2. CASE <<j, i>> \in conflicts
      BY <3>2 DEF Deps, MemoryEdges
    <3> QED  BY <1>2, <3>1, <3>2 DEF Conflict
  <2>2. stage[i] <= stage[j] /\ stage[j] <= stage[i]
    BY <1>1, <2>1 DEF Cuts
  <2>3. stage[i] \in Int /\ stage[j] \in Int
    BY ThePlan DEF StageIds
  <2>4. Replicated(i) <=> Replicated(j)
    BY <1>1, <2>1 DEF Replicated
  <2> QED  BY <2>2, <2>3, <2>4
<1> QED  BY <1>2

---------------------------------------------------------------------------
(* The run's inductive invariant.  Before the launch nothing runs; then it *)
(* ties the registers, queues and writes to the positions of the stages.   *)

IdleInv == last = 0 => pos = <<>> /\ log = {} /\ ~diverged /\ ~joined

RunTypes ==
  /\ body = "driver" /\ last \in 1 .. MaxSteps /\ kind[At(last)] = "br"
  /\ pos \in [StageIds -> (1 .. last) \cup {MaxSteps + 1}]
  /\ reg \in [StageIds -> [Instrs -> Nat]]
  /\ queue \in [edges -> Seq(Nat)]

PosInv == \A s \in StageIds : pos[s] <= last => Keeps(s, At(pos[s]))

(* A register holds the latest execution before the stage's position.      *)
RegInv ==
  \A s \in StageIds : \A i \in Instrs :
    Keeps(s, i) /\ kind[i] # "br" /\ pos[s] <= last => reg[s][i] = Latest(i, pos[s])

(* A queue holds, in order, what its producer has passed and its consumer  *)
(* has not; and the consumer has passed nothing that the producer has not. *)
InFlight(e) == {q \in 1 .. last : At(q) = e.prod /\ pos[e.to] <= q /\ q < pos[e.from]}
Holds(q, S) ==
  /\ {q[k] : k \in 1 .. Len(q)} = S
  /\ \A j, k \in 1 .. Len(q) : j < k => q[j] < q[k]
Ahead(e) == \A q \in 1 .. last : At(q) = e.prod /\ q < pos[e.to] => q < pos[e.from]
QueueInv == \A e \in edges : Holds(queue[e], InFlight(e)) /\ Ahead(e)

(* If no write is repeated, those made are those that the stages they      *)
(* belong to have passed.                                                  *)
Made == {q \in 1 .. last : Writes(At(q)) /\ q < pos[stage[At(q)]]}
LogInv ==
  RepeatsNoWrite => ~diverged /\ log = {[at |-> q, by |-> stage[At(q)]] : q \in Made}

(* The loop's result, as far as a stage that has left the loop stores it.  *)
Expected == IF returned.what = "loop" THEN Latest(returned.def, last) ELSE 0
ResultInv ==
  /\ \A s \in stores : pos[s] > last => result = Expected
  /\ joined => \A s \in StageIds : pos[s] > last

RunInv ==
  /\ IdleInv
  /\ last # 0 => RunTypes /\ PosInv /\ RegInv /\ QueueInv /\ LogInv /\ ResultInv

---------------------------------------------------------------------------
(* A stage that goes on. *)

(* The stage s goes from p to n and steps over erased instructions only.   *)
Advance(s, p, n) ==
  /\ p = pos[s] /\ p \in 1 .. last
  /\ n \in (1 .. last) \cup {MaxSteps + 1} /\ p < n
  /\ n <= last => Keeps(s, At(n))
  /\ \A q \in 1 .. last : Keeps(s, At(q)) => (q < n <=> q <= p)
  /\ pos' = [pos EXCEPT ![s] = n]

LEMMA MovesOn ==
  ASSUME PlanInv, RunInv, last # 0, NEW s \in StageIds, pos[s] < last, MoveOn(s)
  PROVE  \E n \in 1 .. last : Advance(s, pos[s], n)
<1> DEFINE p == pos[s]
           n == NextAt(s, p)
<1>1. /\ RunTypes /\ last \in 1 .. MaxSteps /\ MaxSteps \in Nat
      /\ p \in 1 .. last /\ p \in Nat
  BY EndToEndAssumption DEF RunInv, RunTypes
<1>2. Keeps(s, NumInstrs) /\ Keeps(s, At(last))
  <2>1. Keeps(s, NumInstrs)
    BY <1>1, ThePlan DEF RunTypes
  <2>2. At(last) \in Instrs /\ kind[At(last)] = "br"
    BY <1>1, AtRange DEF RunTypes
  <2> QED  BY <1>1, <2>1, <2>2, ThePlan DEF RunTypes
<1>3. /\ n \in Nat /\ n > p /\ Keeps(s, At(n))
      /\ \A q \in p + 1 .. n - 1 : ~Keeps(s, At(q))
  BY <1>1, <1>2, NextAtFacts
<1>4. pos' = [pos EXCEPT ![s] = n]
  BY DEF MoveOn
<1> HIDE DEF n
<1>5. n <= last
  <2> SUFFICES ASSUME n > last PROVE FALSE
    BY <1>1, <1>3
  <2>1. last \in p + 1 .. n - 1
    BY <1>1, <1>3
  <2> QED  BY <1>2, <1>3, <2>1
<1>6. n \in 1 .. last
  BY <1>1, <1>3, <1>5
<1>7. ASSUME NEW q \in 1 .. last, Keeps(s, At(q)) PROVE q < n <=> q <= p
  <2>1. ~(q \in p + 1 .. n - 1)
    BY <1>3, <1>7
  <2> HIDE DEF p
  <2> QED  BY <1>1, <1>3, <2>1
<1> QED  BY <1>1, <1>3, <1>4, <1>6, <1>7 DEF Advance

(* At the position that leaves the loop every stage has a branch.          *)
LEMMA NotLast ==
  ASSUME RunInv, last # 0, NEW s \in StageIds, pos[s] <= last, kind[At(pos[s])] # "br"
  PROVE  pos[s] < last
<1>1. RunTypes /\ pos[s] \in Int /\ last \in Int
  BY EndToEndAssumption DEF RunInv, RunTypes
<1> QED  BY <1>1 DEF RunTypes

(* What the latest execution of an instruction is then.                    *)
LEMMA LatestMoves ==
  ASSUME NEW s, NEW p, NEW n, Advance(s, p, n), last \in Nat, MaxSteps \in Nat, last <= MaxSteps,
         n <= last, NEW i \in Instrs, Keeps(s, i)
  PROVE  Latest(i, n) = IF i = At(p) THEN p ELSE Latest(i, p)
<1>1. /\ p \in Nat \ {0} /\ n \in Nat \ {0} /\ p < n /\ n \in 1 .. last
      /\ \A q \in 1 .. last : Keeps(s, At(q)) => (q < n <=> q <= p)
  BY DEF Advance
<1>2. \A q \in 1 .. n - 1 : At(q) = i => q <= p /\ q \in 1 .. p
  <2> SUFFICES ASSUME NEW q \in 1 .. n - 1, At(q) = i PROVE q <= p
    BY <1>1
  <2>1. q \in 1 .. last /\ q < n
    BY <1>1
  <2> QED  BY <1>1, <2>1
<1>3. CASE i = At(p)
  <2>1. p \in 0 .. n - 1
    BY <1>1
  <2> QED  BY <1>1, <1>2, <1>3, <2>1, LatestUnique
<1>4. CASE i # At(p)
  <2> DEFINE l == Latest(i, p)
  <2>1. /\ l \in 0 .. p - 1 /\ (l # 0 => At(l) = i)
        /\ \A q \in 1 .. p - 1 : At(q) = i => q <= l
    BY <1>1, LatestFacts
  <2> HIDE DEF l
  <2>2. \A q \in 1 .. n - 1 : At(q) = i => q <= l
    <3> SUFFICES ASSUME NEW q \in 1 .. n - 1, At(q) = i PROVE q <= l
      OBVIOUS
    <3>1. q \in 1 .. p /\ q # p
      BY <1>2, <1>4
    <3> QED  BY <1>1, <2>1, <3>1
  <2>3. l \in 0 .. n - 1
    BY <1>1, <2>1
  <2>4. l = Latest(i, n)
    BY <1>1, <2>1, <2>2, <2>3, LatestUnique
  <2> QED  BY <1>4, <2>4 DEF l
<1> QED  BY <1>3, <1>4

(* The parts of the invariant that only a position changes.                *)
LEMMA PositionsStep ==
  ASSUME PlanInv, RunInv, last # 0, NEW s \in StageIds, NEW p, NEW n, Advance(s, p, n),
         UNCHANGED <<vars, last>>
  PROVE  /\ pos' \in [StageIds -> (1 .. last) \cup {MaxSteps + 1}]
         /\ PosInv'
         /\ \A t \in StageIds : pos'[t] = IF t = s THEN n ELSE pos[t]
         /\ \A q : q \in Made' <=> q \in Made \/ (q = p /\ Writes(At(p)) /\ stage[At(p)] = s)
<1>1. /\ RunTypes /\ PosInv /\ MaxSteps \in Nat /\ last \in 1 .. MaxSteps /\ last' = last
      /\ pos \in [StageIds -> (1 .. last) \cup {MaxSteps + 1}]
      /\ UNCHANGED <<kind, stage, clones, numStages>>
  BY EndToEndAssumption DEF RunInv, RunTypes, vars, loopVars, cutVars, codeVars
<1>2. /\ p = pos[s] /\ p \in 1 .. last /\ n \in (1 .. last) \cup {MaxSteps + 1} /\ p < n
      /\ n <= last => Keeps(s, At(n))
      /\ \A q \in 1 .. last : Keeps(s, At(q)) => (q < n <=> q <= p)
      /\ pos' = [pos EXCEPT ![s] = n]
  BY DEF Advance
<1>3. /\ pos' \in [StageIds -> (1 .. last) \cup {MaxSteps + 1}]
      /\ \A t \in StageIds : pos'[t] = IF t = s THEN n ELSE pos[t]
  BY <1>1, <1>2
<1>4. PosInv'
  <2>1. \A t \in StageIds : pos'[t] <= last => Keeps(t, At(pos'[t]))
    BY <1>1, <1>2, <1>3 DEF PosInv
  <2> QED  BY <1>1, <2>1 DEF PosInv, Keeps, StageIds, At
<1>5. ASSUME NEW q \in 1 .. last, Writes(At(q))
      PROVE  q < pos'[stage[At(q)]] <=>
               q < pos[stage[At(q)]] \/ (q = p /\ stage[At(p)] = s)
  <2>1. At(q) \in Instrs /\ stage[At(q)] \in StageIds
    BY <1>1, AtRange, ThePlan DEF RunTypes
  <2>2. CASE stage[At(q)] # s
    BY <1>3, <2>1, <2>2
  <2>3. CASE stage[At(q)] = s
    <3>1. Keeps(s, At(q))
      BY <1>1, <2>1, <2>3, ThePlan DEF RunTypes
    <3>2. q < n <=> q <= p
      BY <1>2, <3>1
    <3>3. pos'[stage[At(q)]] = n /\ pos[stage[At(q)]] = p
      BY <1>2, <1>3, <2>3
    <3> QED  BY <1>1, <1>2, <2>3, <3>2, <3>3
  <2> QED  BY <2>2, <2>3
<1>6. ASSUME NEW q
      PROVE  q \in Made' <=> q \in Made \/ (q = p /\ Writes(At(p)) /\ stage[At(p)] = s)
  <2>1. q \in Made' <=> q \in 1 .. last /\ Writes(At(q)) /\ q < pos'[stage[At(q)]]
    BY <1>1 DEF Made, Writes, At
  <2>2. q \in Made <=> q \in 1 .. last /\ Writes(At(q)) /\ q < pos[stage[At(q)]]
    BY DEF Made
  <2> QED  BY <1>2, <1>5, <2>1, <2>2
<1> QED  BY <1>3, <1>4, <1>6

(* What is in flight, and who is ahead, when the stage of one end goes on. *)
LEMMA InFlightStep ==
  ASSUME PlanInv, RunInv, last # 0, NEW s \in StageIds, NEW p, NEW n, Advance(s, p, n),
         UNCHANGED <<vars, last>>, NEW e \in edges,
         At(p) = e.prod /\ e.to = s => p < pos[e.from]
  PROVE  /\ \A q : q \in InFlight(e)' <=>
              \/ q \in InFlight(e) /\ ~(q = p /\ e.to = s)
              \/ q = p /\ At(p) = e.prod /\ e.from = s
         /\ Ahead(e)'
<1>1. /\ RunTypes /\ MaxSteps \in Nat /\ last \in 1 .. MaxSteps /\ last' = last
      /\ pos \in [StageIds -> (1 .. last) \cup {MaxSteps + 1}] /\ Ahead(e)
  BY EndToEndAssumption DEF RunInv, RunTypes, QueueInv, Ahead
<1>2. /\ p = pos[s] /\ p \in 1 .. last /\ n \in (1 .. last) \cup {MaxSteps + 1} /\ p < n
      /\ \A q \in 1 .. last : Keeps(s, At(q)) => (q < n <=> q <= p)
  BY DEF Advance
<1>3. \A t \in StageIds : pos'[t] = IF t = s THEN n ELSE pos[t]
  BY PositionsStep
<1>4. /\ e.from \in StageIds /\ e.to \in StageIds /\ e.from # e.to /\ e.prod \in Instrs
      /\ Keeps(e.from, e.prod) /\ Keeps(e.to, e.prod)
  BY <1>1, TheEdges, ThePlan DEF RunTypes
<1>5. \A q : At(q)' = At(q)
  BY DEF At
<1>6. ASSUME NEW q \in 1 .. last, At(q) = e.prod
      PROVE  /\ e.from = s => (q < n <=> q <= p)
             /\ e.to = s => (q < n <=> q <= p)
  BY <1>2, <1>4, <1>6
<1>7. ASSUME NEW q
      PROVE  q \in InFlight(e)' <=>
               \/ q \in InFlight(e) /\ ~(q = p /\ e.to = s)
               \/ q = p /\ At(p) = e.prod /\ e.from = s
  <2>1. q \in InFlight(e)' <=>
          q \in 1 .. last /\ At(q) = e.prod /\ pos'[e.to] <= q /\ q < pos'[e.from]
    BY <1>1, <1>5 DEF InFlight
  <2>2. q \in InFlight(e) <=>
          q \in 1 .. last /\ At(q) = e.prod /\ pos[e.to] <= q /\ q < pos[e.from]
    BY DEF InFlight
  <2>3. pos[e.from] \in Int /\ pos[e.to] \in Int /\ n \in Int /\ p \in Int
    BY <1>1, <1>2, <1>4
  <2>4. CASE ~(q \in 1 .. last /\ At(q) = e.prod)
    BY <1>2, <2>1, <2>2, <2>4
  <2>5. CASE q \in 1 .. last /\ At(q) = e.prod /\ e.from = s
    <3>1. pos'[e.from] = n /\ pos[e.from] = p /\ pos'[e.to] = pos[e.to]
      BY <1>2, <1>3, <1>4, <2>5
    <3>2. pos[e.to] <= q \/ q # p
      BY <1>1, <2>3, <2>5, <3>1 DEF Ahead
    <3> QED  BY <1>4, <1>6, <2>1, <2>2, <2>3, <2>5, <3>1, <3>2
  <2>6. CASE q \in 1 .. last /\ At(q) = e.prod /\ e.to = s
    <3>1. pos'[e.to] = n /\ pos[e.to] = p /\ pos'[e.from] = pos[e.from]
      BY <1>2, <1>3, <1>4, <2>6
    <3> QED  BY <1>4, <1>6, <2>1, <2>2, <2>3, <2>6, <3>1
  <2>7. CASE q \in 1 .. last /\ At(q) = e.prod /\ e.from # s /\ e.to # s
    BY <1>3, <1>4, <2>1, <2>2, <2>7
  <2> QED  BY <2>4, <2>5, <2>6, <2>7
<1>8. Ahead(e)'
  <2> SUFFICES ASSUME NEW q \in 1 .. last, At(q) = e.prod, q < pos'[e.to]
               PROVE  q < pos'[e.from]
    BY <1>1, <1>5 DEF Ahead
  <2>1. pos[e.from] \in Int /\ pos[e.to] \in Int /\ n \in Int /\ p \in Int
    BY <1>1, <1>2, <1>4
  <2>2. CASE e.from = s
    <3>1. pos'[e.from] = n /\ pos[e.from] = p /\ pos'[e.to] = pos[e.to]
      BY <1>2, <1>3, <1>4, <2>2
    <3>2. q < p
      BY <1>1, <3>1 DEF Ahead
    <3> QED  BY <1>2, <2>1, <3>1, <3>2
  <2>3. CASE e.to = s
    <3>1. pos'[e.to] = n /\ pos[e.to] = p /\ pos'[e.from] = pos[e.from]
      BY <1>2, <1>3, <1>4, <2>3
    <3>2. q <= p
      BY <1>6, <2>3, <3>1
    <3>3. q < p => q < pos[e.from]
      BY <1>1, <3>1 DEF Ahead
    <3>4. q = p => q < pos[e.from]
      BY <2>3
    <3> QED  BY <2>1, <3>1, <3>2, <3>3, <3>4
  <2>4. CASE e.from # s /\ e.to # s
    BY <1>1, <1>3, <1>4, <2>4 DEF Ahead
  <2> QED  BY <2>2, <2>3, <2>4
<1> QED  BY <1>7, <1>8

(* Where the registers are those of the position, so are the operands of   *)
(* what the stage runs there; and where no write is repeated, memory is.   *)
LEMMA OperandsAreRight ==
  ASSUME PlanInv, RunInv, last # 0, NEW s \in StageIds, pos[s] <= last, Runs(s, At(pos[s]))
  PROVE  OperandsRight(s, pos[s])
<1>1. RunTypes /\ RegInv
  BY DEF RunInv
<1>2. ASSUME NEW e \in uses, e[2] = At(pos[s])
      PROVE  reg[s][e[1]] = Latest(e[1], pos[s])
  <2>1. e[1] \in Instrs /\ Keeps(s, e[1]) /\ kind[e[1]] # "br"
    BY <1>1, <1>2, ThePlan DEF RunTypes
  <2> QED  BY <1>1, <2>1 DEF RegInv
<1> QED  BY <1>2 DEF OperandsRight

LEMMA MemoryIsRight ==
  ASSUME PlanInv, RunInv, last # 0, RepeatsNoWrite,
         NEW s \in StageIds, pos[s] <= last, Runs(s, At(pos[s]))
  PROVE  MemoryRight(pos[s])
<1> DEFINE p == pos[s]
           i == At(p)
           seen == {w \in log : Conflict(At(w.at), At(p))}
<1>1. /\ RunTypes /\ MaxSteps \in Nat /\ last \in 1 .. MaxSteps
      /\ pos \in [StageIds -> (1 .. last) \cup {MaxSteps + 1}]
      /\ log = {[at |-> q, by |-> stage[At(q)]] : q \in Made}
  BY EndToEndAssumption DEF RunInv, RunTypes, LogInv
<1>2. p \in 1 .. last /\ i \in Instrs
  BY <1>1, AtRange
<1>3. ASSUME NEW q \in 1 .. last, Writes(At(q)), Conflict(At(q), i)
      PROVE  stage[At(q)] = s
  <2>a. At(q) \in Instrs
    BY <1>1, AtRange
  <2>1. At(q) \in Instrs /\ ~Replicated(At(q))
    BY <1>3, <2>a DEF RepeatsNoWrite
  <2>2. stage[At(q)] = stage[i] /\ ~Replicated(i)
    BY <1>1, <1>2, <1>3, <2>1, TheConflicts DEF RunTypes
  <2> HIDE DEF i
  <2>3. Runs(s, i)
    BY DEF i
  <2> QED  BY <1>1, <1>2, <2>2, <2>3, ThePlan DEF RunTypes
<1>4. ASSUME NEW q \in 1 .. last, Writes(At(q)), Conflict(At(q), i)
      PROVE  q \in Made <=> q < p
  BY <1>3, <1>4 DEF Made
<1> HIDE DEF p, i
<1>5. {w.at : w \in seen} = {q \in 1 .. p - 1 : Writes(At(q)) /\ Conflict(At(q), At(p))}
  <2>1. ASSUME NEW w \in seen
        PROVE  w.at \in {q \in 1 .. p - 1 : Writes(At(q)) /\ Conflict(At(q), At(p))}
    <3>1. PICK q \in Made : w = [at |-> q, by |-> stage[At(q)]]
      BY <1>1
    <3>2. q \in 1 .. last /\ Writes(At(q)) /\ Conflict(At(q), At(p)) /\ w.at = q
      BY <3>1 DEF Made
    <3>3. q < p
      BY <1>4, <3>1, <3>2 DEF i
    <3> QED  BY <1>1, <1>2, <3>2, <3>3
  <2>2. ASSUME NEW q \in 1 .. p - 1, Writes(At(q)), Conflict(At(q), At(p))
        PROVE  q \in {w.at : w \in seen}
    <3> DEFINE w == [at |-> q, by |-> stage[At(q)]]
    <3>1. q \in 1 .. last /\ q < p
      BY <1>1, <1>2
    <3>2. q \in Made
      BY <1>4, <2>2, <3>1 DEF i
    <3>3. w \in log /\ w.at = q
      BY <1>1, <3>2
    <3> HIDE DEF w
    <3> QED  BY <2>2, <3>3
  <2> HIDE DEF seen
  <2> QED  BY <2>1, <2>2
<1>6. \A v, w \in seen : v.at = w.at => v = w
  <2> SUFFICES ASSUME NEW v \in log, NEW w \in log, v.at = w.at PROVE v = w
    OBVIOUS
  <2>1. PICK q \in Made : v = [at |-> q, by |-> stage[At(q)]]
    BY <1>1
  <2>2. PICK r \in Made : w = [at |-> r, by |-> stage[At(r)]]
    BY <1>1
  <2> QED  BY <2>1, <2>2
<1> QED  BY <1>5, <1>6 DEF MemoryRight, p

LEMMA ValuesAreRight ==
  ASSUME PlanInv, RunInv, last # 0, RepeatsNoWrite,
         NEW s \in StageIds, pos[s] <= last, Runs(s, At(pos[s]))
  PROVE  Right(s, pos[s])
  BY OperandsAreRight, MemoryIsRight DEF Right

---------------------------------------------------------------------------
(* What the data structures of a step become. *)

LEMMA RegisterSet ==
  ASSUME NEW S, NEW I, NEW r \in [S -> [I -> Nat]], NEW s \in S, NEW i \in I, NEW v \in Nat,
         NEW r2, r2 = [r EXCEPT ![s][i] = v]
  PROVE  /\ r2 \in [S -> [I -> Nat]]
         /\ \A t \in S : t # s => r2[t] = r[t]
         /\ \A j \in I : r2[s][j] = IF j = i THEN v ELSE r[s][j]
<1> DEFINE f == [r[s] EXCEPT ![i] = v]
<1>1. r[s] \in [I -> Nat]
  OBVIOUS
<1>2. f \in [I -> Nat] /\ \A j \in I : f[j] = IF j = i THEN v ELSE r[s][j]
  BY <1>1
<1>3. r2 = [r EXCEPT ![s] = f]
  OBVIOUS
<1> HIDE DEF f
<1> QED  BY <1>2, <1>3

(* A queue that holds a set of positions in order.                         *)
LEMMA HoldsAppended ==
  ASSUME NEW q \in Seq(Nat), NEW S, Holds(q, S), NEW p \in Nat, \A v \in S : v < p
  PROVE  Append(q, p) \in Seq(Nat) /\ Holds(Append(q, p), S \cup {p})
<1> DEFINE r == Append(q, p)
<1>1. /\ Len(q) \in Nat /\ r \in Seq(Nat) /\ Len(r) = Len(q) + 1 /\ r[Len(r)] = p
      /\ \A k \in 1 .. Len(q) : r[k] = q[k]
  OBVIOUS
<1> HIDE DEF r
<1>2. \A k : k \in 1 .. Len(r) <=> k \in 1 .. Len(q) \/ k = Len(r)
  BY <1>1
<1>3. \A k \in 1 .. Len(q) : q[k] \in S /\ r[k] < p
  BY <1>1 DEF Holds
<1>4. {r[k] : k \in 1 .. Len(r)} = S \cup {p}
  BY <1>1, <1>2 DEF Holds
<1>5. ASSUME NEW j \in 1 .. Len(r), NEW k \in 1 .. Len(r), j < k PROVE r[j] < r[k]
  <2>1. j \in 1 .. Len(q)
    BY <1>1, <1>5
  <2>2. CASE k \in 1 .. Len(q)
    BY <1>1, <1>5, <2>1, <2>2 DEF Holds
  <2>3. CASE k = Len(r)
    BY <1>1, <1>3, <2>1, <2>3
  <2> QED  BY <1>2, <2>2, <2>3
<1> QED  BY <1>1, <1>4, <1>5 DEF Holds, r

LEMMA HoldsRemoved ==
  ASSUME NEW q \in Seq(Nat), NEW S, Holds(q, S), NEW p \in S, \A v \in S : p <= v
  PROVE  /\ Head(q) = p /\ Tail(q) \in Seq(Nat)
         /\ Holds(Tail(q), S \ {p})
<1>1. PICK m \in 1 .. Len(q) : q[m] = p
  BY DEF Holds
<1>2. Len(q) \in Nat /\ m \in Nat /\ \A k \in 1 .. Len(q) : q[k] \in S /\ q[k] \in Nat
  BY DEF Holds
<1>3. m = 1
  <2> SUFFICES ASSUME m > 1 PROVE FALSE
    BY <1>1, <1>2
  <2>1. 1 \in 1 .. Len(q) /\ q[1] < q[m] /\ p <= q[1]
    BY <1>1, <1>2 DEF Holds
  <2> QED  BY <1>1, <1>2, <2>1
<1> DEFINE r == Tail(q)
<1>4. /\ Head(q) = p /\ q # <<>> /\ r \in Seq(Nat) /\ Len(r) = Len(q) - 1
      /\ \A k \in 1 .. Len(q) - 1 : r[k] = q[k + 1]
  BY <1>1, <1>3
<1> HIDE DEF r
<1>5. ASSUME NEW v PROVE v \in {r[k] : k \in 1 .. Len(r)} <=> v \in S /\ v # p
  <2>1. ASSUME NEW k \in 1 .. Len(r), v = r[k] PROVE v \in S /\ v # p
    <3>1. k + 1 \in 1 .. Len(q) /\ 1 \in 1 .. Len(q) /\ 1 < k + 1 /\ v = q[k + 1]
      BY <1>2, <1>4, <2>1
    <3>2. q[1] < q[k + 1] /\ q[1] = p
      BY <1>1, <1>3, <3>1 DEF Holds
    <3> QED  BY <1>2, <3>1, <3>2
  <2>2. ASSUME v \in S, v # p PROVE v \in {r[k] : k \in 1 .. Len(r)}
    <3>1. PICK k \in 1 .. Len(q) : q[k] = v
      BY <2>2 DEF Holds
    <3>2. k # 1
      BY <1>1, <1>3, <2>2, <3>1
    <3>3. k - 1 \in 1 .. Len(r) /\ k - 1 \in 1 .. Len(q) - 1 /\ (k - 1) + 1 = k
      BY <1>2, <1>4, <3>2
    <3>4. r[k - 1] = v
      BY <1>4, <3>1, <3>3
    <3> QED  BY <3>3, <3>4
  <2> QED  BY <2>1, <2>2
<1>6. ASSUME NEW j \in 1 .. Len(r), NEW k \in 1 .. Len(r), j < k PROVE r[j] < r[k]
  <2>1. j + 1 \in 1 .. Len(q) /\ k + 1 \in 1 .. Len(q) /\ j + 1 < k + 1
    BY <1>2, <1>4, <1>6
  <2>2. q[j + 1] < q[k + 1]
    BY <2>1 DEF Holds
  <2> QED  BY <1>2, <1>4, <2>2
<1> QED  BY <1>4, <1>5, <1>6 DEF Holds, r

---------------------------------------------------------------------------
(* What a step of a stage keeps, one part of the invariant at a time. *)

LEMMA RegStep ==
  ASSUME PlanInv, RunInv, last # 0, NEW s \in StageIds, NEW p, NEW n, Advance(s, p, n),
         UNCHANGED <<vars, last>>,
         \A t \in StageIds : t # s => reg'[t] = reg[t],
         n <= last => \A i \in Instrs : Keeps(s, i) /\ kind[i] # "br" =>
                        reg'[s][i] = IF i = At(p) THEN p ELSE reg[s][i]
  PROVE  RegInv'
<1>1. /\ RunTypes /\ RegInv /\ MaxSteps \in Nat /\ last \in 1 .. MaxSteps /\ last' = last
      /\ UNCHANGED <<kind, stage, clones, numStages>> /\ p = pos[s] /\ p <= last
  BY EndToEndAssumption DEF RunInv, RunTypes, Advance, vars, loopVars, cutVars, codeVars
<1>2. \A t \in StageIds : pos'[t] = IF t = s THEN n ELSE pos[t]
  BY PositionsStep
<1>3. ASSUME NEW t \in StageIds, NEW i \in Instrs, Keeps(t, i), kind[i] # "br", pos'[t] <= last
      PROVE  reg'[t][i] = Latest(i, pos'[t])
  <2>1. CASE t = s
    <3>1. pos'[t] = n /\ n <= last /\ reg[s][i] = Latest(i, p)
      BY <1>1, <1>2, <1>3, <2>1 DEF RegInv
    <3>2. Latest(i, n) = IF i = At(p) THEN p ELSE Latest(i, p)
      BY <1>1, <1>3, <2>1, <3>1, LatestMoves
    <3> QED  BY <1>3, <2>1, <3>1, <3>2
  <2>2. CASE t # s
    BY <1>1, <1>2, <1>3, <2>2 DEF RegInv
  <2> QED  BY <2>1, <2>2
<1>4. \A i, q : Latest(i, q)' = Latest(i, q)
  BY DEF Latest
<1> QED  BY <1>1, <1>3, <1>4 DEF RegInv, Keeps, StageIds, Latest

LEMMA LogStep ==
  ASSUME PlanInv, RunInv, last # 0, NEW s \in StageIds, NEW p, NEW n, Advance(s, p, n),
         UNCHANGED <<vars, last>>,
         RepeatsNoWrite => ~diverged',
         log' = IF Writes(At(p)) /\ stage[At(p)] = s THEN log \cup {[at |-> p, by |-> s]} ELSE log
  PROVE  LogInv'
<1>1. LogInv /\ UNCHANGED <<kind, stage, scc, repl>> /\ \A q : At(q)' = At(q)
  BY DEF RunInv, vars, loopVars, cutVars, replVars, At
<1>2. \A q : q \in Made' <=> q \in Made \/ (q = p /\ Writes(At(p)) /\ stage[At(p)] = s)
  BY PositionsStep
<1>3. RepeatsNoWrite' <=> RepeatsNoWrite
  BY <1>1 DEF RepeatsNoWrite, Writes, Replicated
<1>4. ASSUME RepeatsNoWrite
      PROVE  log' = {[at |-> q, by |-> stage[At(q)]] : q \in Made'}
  <2>1. log = {[at |-> q, by |-> stage[At(q)]] : q \in Made}
    BY <1>1, <1>4 DEF LogInv
  <2>2. CASE Writes(At(p)) /\ stage[At(p)] = s
    <3>1. Made' = Made \cup {p}
      BY <1>2, <2>2
    <3> QED  BY <2>1, <2>2, <3>1
  <2>3. CASE ~(Writes(At(p)) /\ stage[At(p)] = s)
    <3>1. Made' = Made
      BY <1>2, <2>3
    <3> QED  BY <2>1, <2>3, <3>1
  <2> QED  BY <2>2, <2>3
<1> QED  BY <1>1, <1>3, <1>4 DEF LogInv, At

(* A queue that is left alone, because p is not a producer that its ends   *)
(* have in common with it.                                                 *)
LEMMA QueueKept ==
  ASSUME PlanInv, RunInv, last # 0, NEW s \in StageIds, NEW p, NEW n, Advance(s, p, n),
         UNCHANGED <<vars, last>>, NEW e \in edges, queue'[e] = queue[e],
         e.from = s \/ e.to = s => At(p) # e.prod
  PROVE  Holds(queue'[e], InFlight(e)') /\ Ahead(e)'
<1>1. QueueInv
  BY DEF RunInv
<1>2. /\ \A q : q \in InFlight(e)' <=>
           \/ q \in InFlight(e) /\ ~(q = p /\ e.to = s)
           \/ q = p /\ At(p) = e.prod /\ e.from = s
      /\ Ahead(e)'
  BY InFlightStep
<1>3. \A q \in InFlight(e) : At(q) = e.prod
  BY DEF InFlight
<1>4. InFlight(e)' = InFlight(e)
  BY <1>2, <1>3
<1> QED  BY <1>1, <1>2, <1>4 DEF QueueInv

LEMMA QueuesKept ==
  ASSUME UNCHANGED <<vars, last>>,
         \A e \in edges : Holds(queue'[e], InFlight(e)') /\ Ahead(e)'
  PROVE  QueueInv'
<1>1. edges' = edges
  BY DEF vars
<1> QED  BY <1>1 DEF QueueInv

(* The stage's result, while it is in the loop.                            *)
LEMMA ResultStep ==
  ASSUME PlanInv, RunInv, last # 0, NEW s \in StageIds, NEW p, NEW n, Advance(s, p, n),
         n <= last, UNCHANGED <<vars, last, result, joined>>
  PROVE  ResultInv'
<1>1. /\ ResultInv /\ p = pos[s] /\ p <= last /\ UNCHANGED <<numStages, returned, stores>>
      /\ pos[s] \in Int /\ last \in Int
  BY EndToEndAssumption DEF RunInv, RunTypes, Advance, vars, loopVars, cutVars, codeVars
<1>2. \A t \in StageIds : pos'[t] = IF t = s THEN n ELSE pos[t]
  BY PositionsStep
<1>3. ~joined
  BY <1>1 DEF ResultInv
<1>4. n \in Int /\ ~(n > last)
  BY <1>1, EndToEndAssumption DEF Advance
<1>5. stores \subseteq StageIds
  BY DEF PlanInv, IInv, TypeOK
<1>6. \A t \in stores : pos'[t] > last => pos[t] > last
  BY <1>2, <1>4, <1>5
<1> QED  BY <1>1, <1>3, <1>6 DEF ResultInv, Expected, Latest

---------------------------------------------------------------------------
(* Each step keeps the invariant. *)

(* Planning is over when the stages run.                                   *)
LEMMA PlanKeeps == PlanInv /\ RunInv /\ Plan => RunInv'
<1> SUFFICES ASSUME PlanInv, RunInv, Plan PROVE RunInv'
  OBVIOUS
<1>1. CASE last = 0
  BY <1>1 DEF Plan, runVars, RunInv, IdleInv
<1>2. CASE last # 0
  <2>1. pc = "done"
    BY <1>2 DEF RunInv, RunTypes, PlanInv, IInv, PhaseInv
  <2> QED  BY <2>1 DEF Plan, PlanStep, BailNoCut, Cut, SeedReplication, CloseReplication,
             BailStageEmpty, FindCrossEdges, BailEdges, AcceptEdges, GenerateStage, RejectStage,
             EmitDriver
<1> QED  BY <1>1, <1>2

(* Every stage starts at its first instruction; none is passed yet.        *)
LEMMA LaunchKeeps == PlanInv /\ RunInv /\ Launch => RunInv'
<1> SUFFICES ASSUME PlanInv, RunInv, Launch PROVE RunInv'
  OBVIOUS
<1> DEFINE L == last'
<1>1. /\ body = "driver" /\ last = 0 /\ L \in 1 .. MaxSteps /\ kind[At(L)] = "br"
      /\ pos' = [s \in StageIds |-> NextAt(s, 0)]
      /\ reg' = [s \in StageIds |-> [i \in Instrs |-> 0]]
      /\ queue' = [e \in edges |-> <<>>]
      /\ log' = {} /\ ~diverged' /\ ~joined'
      /\ StageIds' = StageIds /\ UNCHANGED vars
  BY DEF Launch, RunInv, IdleInv, StageIds, vars, cutVars
<1>2. UNCHANGED <<kind, stage, clones, numStages, edges, body, returned, stores>>
  BY <1>1 DEF vars, loopVars, cutVars, codeVars
<1>3. MaxSteps \in Nat /\ L \in Nat \ {0} /\ L \in Int
  BY <1>1, EndToEndAssumption
<1>4. At(L) \in Instrs /\ \A q : At(q)' = At(q)
  BY <1>3, AtRange DEF At
<1> HIDE DEF L
<1>5. ASSUME NEW s \in StageIds
      PROVE  /\ pos'[s] \in 1 .. L /\ Keeps(s, At(pos'[s]))
             /\ \A q \in 1 .. L : q < pos'[s] => ~Keeps(s, At(q))
  <2> DEFINE n == NextAt(s, 0)
  <2>1. Keeps(s, NumInstrs) /\ Keeps(s, At(L)) /\ pos'[s] = n
    BY <1>1, <1>4, ThePlan
  <2>2. /\ n \in Nat /\ n > 0 /\ Keeps(s, At(n))
        /\ \A q \in 0 + 1 .. n - 1 : ~Keeps(s, At(q))
    BY <2>1, NextAtFacts
  <2> HIDE DEF n
  <2>3. \A q \in 1 .. L : q < n => q \in 0 + 1 .. n - 1
    BY <1>3, <2>2
  <2>4. ~(L < n)
    BY <1>3, <2>1, <2>2, <2>3
  <2> QED  BY <1>3, <2>1, <2>2, <2>3, <2>4
<1>6. RunTypes'
  <2>1. pos' \in [StageIds -> (1 .. L) \cup {MaxSteps + 1}]
    BY <1>1, <1>5
  <2>2. reg' \in [StageIds -> [Instrs -> Nat]] /\ queue' \in [edges -> Seq(Nat)]
    BY <1>1
  <2>3. (kind[At(last)] = "br")'
    BY <1>1, <1>2 DEF At, L
  <2> QED  BY <1>1, <1>2, <2>1, <2>2, <2>3 DEF RunTypes, L
<1>7. PosInv'
  BY <1>1, <1>2, <1>4, <1>5 DEF PosInv, Keeps
<1>8. RegInv'
  <2>1. ASSUME NEW s \in StageIds, NEW i \in Instrs, Keeps(s, i)
        PROVE  reg'[s][i] = Latest(i, pos'[s])
    <3> DEFINE p == pos'[s]
    <3>1. p \in 1 .. L /\ \A q \in 1 .. L : q < p => ~Keeps(s, At(q))
      BY <1>5
    <3>2. reg'[s][i] = 0
      BY <1>1
    <3> HIDE DEF p
    <3>3. p \in Nat \ {0} /\ 0 \in 0 .. p - 1
      BY <1>3, <3>1
    <3>4. \A q \in 1 .. p - 1 : At(q) = i => q <= 0
      <4> SUFFICES ASSUME NEW q \in 1 .. p - 1 PROVE At(q) # i
        OBVIOUS
      <4>1. q \in 1 .. L /\ q < p
        BY <1>3, <3>1
      <4> QED  BY <2>1, <3>1, <4>1
    <3>5. 0 = Latest(i, p)
      BY <3>3, <3>4, LatestUnique
    <3> QED  BY <3>2, <3>5 DEF p
  <2>2. \A i, q : Latest(i, q)' = Latest(i, q)
    BY DEF Latest
  <2> QED  BY <1>1, <1>2, <2>1, <2>2 DEF RegInv, Keeps, Latest
<1>9. QueueInv'
  <2>1. ASSUME NEW e \in edges PROVE Holds(queue'[e], InFlight(e)') /\ Ahead(e)'
    <3>1. e.from \in StageIds /\ e.to \in StageIds /\ Keeps(e.from, e.prod) /\ Keeps(e.to, e.prod)
      <4>1. e.prod \in Instrs /\ Runs(e.from, e.prod)
        BY <1>1, TheEdges
      <4> QED  BY <1>1, <4>1, TheEdges, ThePlan
    <3>2. ASSUME NEW q \in 1 .. L, At(q) = e.prod PROVE ~(q < pos'[e.from]) /\ ~(q < pos'[e.to])
      BY <1>5, <3>1, <3>2
    <3>3. InFlight(e)' = {}
      BY <1>4, <3>2 DEF InFlight, L
    <3>4. Ahead(e)'
      BY <1>4, <3>2 DEF Ahead, L
    <3>5. queue'[e] = <<>> /\ Len(<<>>) = 0
      BY <1>1
    <3> QED  BY <3>3, <3>4, <3>5 DEF Holds
  <2> QED  BY <1>2, <2>1 DEF QueueInv
<1>10. LogInv'
  <2>1. ASSUME NEW q \in 1 .. L PROVE ~(q < pos'[stage[At(q)]])
    <3>1. q \in Int /\ At(q) \in Instrs
      BY AtRange
    <3>2. stage[At(q)] \in StageIds /\ Keeps(stage[At(q)], At(q))
      BY <1>1, <3>1, ThePlan
    <3> QED  BY <1>5, <3>2
  <2>2. Made' = {}
    BY <1>2, <1>4, <2>1 DEF Made, L
  <2> QED  BY <1>1, <2>2 DEF LogInv
<1>11. ResultInv'
  <2>1. stores \subseteq StageIds
    BY DEF PlanInv, IInv, TypeOK
  <2>2. \A s \in StageIds : ~(pos'[s] > L)
    BY <1>3, <1>5
  <2> QED  BY <1>1, <1>2, <2>1, <2>2 DEF ResultInv, L
<1>12. IdleInv'
  BY <1>1 DEF IdleInv, L
<1> QED  BY <1>6, <1>7, <1>8, <1>9, <1>10, <1>11, <1>12 DEF RunInv

(* What a stage's step finds.                                              *)
LEMMA StageMeets ==
  ASSUME PlanInv, RunInv, NEW s \in StageIds, NEW what, Meets(s, what)
  PROVE  /\ last # 0 /\ ~diverged /\ RunTypes /\ body = "driver" /\ s \in DOMAIN pos
         /\ pos[s] \in 1 .. last /\ pos[s] \in Nat /\ At(pos[s]) \in Instrs
         /\ (what = "run" => Runs(s, At(pos[s]))) /\ (what = "dequeue" => ~Runs(s, At(pos[s])))
<1>1. last # 0 /\ ~diverged /\ RunTypes /\ pos[s] <= last
  BY DEF Meets, RunInv
<1>2. pos[s] \in 1 .. last /\ pos[s] \in Nat /\ body = "driver" /\ s \in DOMAIN pos
  BY <1>1, EndToEndAssumption DEF RunTypes
<1>3. At(pos[s]) \in Instrs
  BY <1>2, AtRange
<1> QED  BY <1>1, <1>2, <1>3 DEF Meets, Runs

LEMMA TypesStep ==
  ASSUME RunTypes, UNCHANGED <<vars, last>>,
         pos' \in [StageIds -> (1 .. last) \cup {MaxSteps + 1}],
         reg' \in [StageIds -> [Instrs -> Nat]], queue' \in [edges -> Seq(Nat)]
  PROVE  RunTypes'
<1>1. UNCHANGED <<kind, numStages, edges, body>>
  BY DEF vars, loopVars, cutVars, codeVars
<1> QED  BY <1>1 DEF RunTypes, StageIds, At

(* An instruction that is run: its value goes into the register and into   *)
(* the queues that start here.                                             *)
LEMMA ComputeKeeps ==
  ASSUME PlanInv, RunInv, NEW s \in StageIds, Compute(s)
  PROVE  RunInv'
<1> DEFINE p == pos[s]
           out == {e \in edges : e.prod = At(p) /\ e.from = s}
<1>1. /\ last # 0 /\ ~diverged /\ RunTypes /\ body = "driver"
      /\ p \in 1 .. last /\ p \in Nat /\ At(p) \in Instrs /\ Runs(s, At(p)) /\ p <= last
      /\ kind[At(p)] # "br"
  BY StageMeets DEF Compute, Meets
<1>2. /\ reg' = [reg EXCEPT ![s][At(p)] = p]
      /\ queue' = [e \in edges |-> IF e \in out THEN Append(queue[e], p) ELSE queue[e]]
      /\ log' = IF Writes(At(p)) THEN log \cup {[at |-> p, by |-> s]} ELSE log
      /\ diverged' = ~Right(s, p)
      /\ MoveOn(s)
      /\ UNCHANGED <<vars, last, result, joined>>
  BY DEF Compute
<1>3. PICK n \in 1 .. last : Advance(s, p, n)
  BY <1>1, <1>2, NotLast, MovesOn
<1> HIDE DEF p
<1>4. /\ reg \in [StageIds -> [Instrs -> Nat]] /\ queue \in [edges -> Seq(Nat)]
      /\ n \in Int /\ last \in Int /\ n <= last
  BY <1>1, <1>3, EndToEndAssumption DEF RunTypes
<1>5. /\ reg' \in [StageIds -> [Instrs -> Nat]]
      /\ \A t \in StageIds : t # s => reg'[t] = reg[t]
      /\ \A i \in Instrs : reg'[s][i] = IF i = At(p) THEN p ELSE reg[s][i]
  BY <1>1, <1>2, <1>4, RegisterSet
<1>6. PosInv' /\ pos' \in [StageIds -> (1 .. last) \cup {MaxSteps + 1}]
  BY <1>1, <1>2, <1>3, PositionsStep
<1>7. RegInv'
  BY <1>1, <1>2, <1>3, <1>5, RegStep
<1>8. LogInv'
  <2>1. CASE RepeatsNoWrite
    <3>1. Right(s, p)
      BY <1>1, <2>1, ValuesAreRight DEF p
    <3>2. Writes(At(p)) => stage[At(p)] = s
      BY <1>1, <2>1, ThePlan DEF RepeatsNoWrite
    <3> QED  BY <1>1, <1>2, <1>3, <3>1, <3>2, LogStep
  <2>2. CASE ~RepeatsNoWrite
    BY <1>2, <2>2 DEF LogInv, RepeatsNoWrite, Writes, Replicated, vars, loopVars, cutVars, replVars
  <2> QED  BY <2>1, <2>2
<1>9. ResultInv'
  BY <1>1, <1>2, <1>3, <1>4, ResultStep
<1>10. ASSUME NEW e \in edges
       PROVE  queue'[e] \in Seq(Nat) /\ Holds(queue'[e], InFlight(e)') /\ Ahead(e)'
  <2>1. /\ e.from \in StageIds /\ e.to \in StageIds /\ e.from # e.to /\ ~Runs(e.to, e.prod)
        /\ \A t \in StageIds : Runs(t, e.prod) <=> t = e.from
    BY <1>1, TheEdges
  <2>2. CASE e \in out
    <3>1. queue'[e] = Append(queue[e], p) /\ At(p) = e.prod /\ e.from = s /\ e.to # s
      BY <1>2, <2>1, <2>2
    <3>2. \A q : q \in InFlight(e)' <=> q \in InFlight(e) \/ q = p
      BY <1>1, <1>2, <1>3, <3>1, InFlightStep
    <3>3. InFlight(e)' = InFlight(e) \cup {p} /\ Ahead(e)'
      BY <1>1, <1>2, <1>3, <3>1, <3>2, InFlightStep
    <3>4. \A v \in InFlight(e) : v < p
      BY <3>1 DEF InFlight, p
    <3>5. Holds(queue[e], InFlight(e)) /\ queue[e] \in Seq(Nat)
      BY <1>1, <1>4 DEF RunInv, QueueInv
    <3> QED  BY <1>1, <3>1, <3>3, <3>4, <3>5, HoldsAppended
  <2>3. CASE e \notin out
    <3>1. queue'[e] = queue[e] /\ queue[e] \in Seq(Nat)
      BY <1>2, <1>4, <2>3
    <3>2. e.from = s \/ e.to = s => At(p) # e.prod
      BY <1>1, <2>1, <2>3
    <3> HIDE DEF out
    <3> QED  BY <1>1, <1>2, <1>3, <3>1, <3>2, QueueKept
  <2> QED  BY <2>2, <2>3
<1>11. QueueInv' /\ queue' \in [edges -> Seq(Nat)]
  <2>1. queue' \in [edges -> Seq(Nat)]
    BY <1>2, <1>10
  <2> QED  BY <1>2, <1>10, <2>1, QueuesKept
<1>12. RunTypes' /\ last' = last
  BY <1>1, <1>2, <1>5, <1>6, <1>11, TypesStep
<1> QED  BY <1>1, <1>6, <1>7, <1>8, <1>9, <1>11, <1>12 DEF RunInv, IdleInv

(* A value that is received is the one that the stage would have computed. *)
LEMMA ReceiveKeeps ==
  ASSUME PlanInv, RunInv, NEW s \in StageIds, Receive(s)
  PROVE  RunInv'
<1> DEFINE p == pos[s]
<1>1. /\ last # 0 /\ ~diverged /\ RunTypes /\ body = "driver"
      /\ p \in 1 .. last /\ p \in Nat /\ At(p) \in Instrs /\ ~Runs(s, At(p)) /\ p <= last
  BY StageMeets DEF Receive, Meets
<1>2. kind[At(p)] # "br" /\ stage[At(p)] # s /\ ~Replicated(At(p))
  BY <1>1, ThePlan
<1>3. PICK e \in edges : /\ e.prod = At(p) /\ e.to = s /\ queue[e] # <<>>
                         /\ reg' = [reg EXCEPT ![s][e.prod] = Head(queue[e])]
                         /\ queue' = [queue EXCEPT ![e] = Tail(@)]
  BY DEF Receive
<1>4. MoveOn(s) /\ UNCHANGED <<vars, last, log, result, diverged, joined>>
  BY DEF Receive
<1>5. PICK n \in 1 .. last : Advance(s, p, n)
  BY <1>1, <1>2, <1>4, NotLast, MovesOn
<1>6. /\ reg \in [StageIds -> [Instrs -> Nat]] /\ queue \in [edges -> Seq(Nat)]
      /\ pos \in [StageIds -> (1 .. last) \cup {MaxSteps + 1}]
      /\ n \in Int /\ last \in Int /\ n <= last /\ MaxSteps \in Nat
  BY <1>1, <1>5, EndToEndAssumption DEF RunTypes
<1>7. /\ e.from \in StageIds /\ e.from # s
      /\ \A d \in edges : d.prod = e.prod /\ d.to = s => d = e
  BY <1>1, <1>3, TheEdges
<1>8. Holds(queue[e], InFlight(e)) /\ queue[e] \in Seq(Nat)
  BY <1>1, <1>6 DEF RunInv, QueueInv
<1>9. p \in InFlight(e) /\ \A v \in InFlight(e) : p <= v
  <2>1. \A v \in InFlight(e) : v \in 1 .. last /\ p <= v /\ v < pos[e.from]
    BY <1>3 DEF InFlight
  <2>2. 1 \in 1 .. Len(queue[e]) /\ queue[e][1] \in InFlight(e)
    BY <1>3, <1>8 DEF Holds
  <2>3. p < pos[e.from]
    <3>1. pos[e.from] \in Int
      BY <1>6, <1>7
    <3> HIDE DEF p
    <3> QED  BY <1>1, <2>1, <2>2, <3>1
  <2> QED  BY <1>1, <1>3, <2>1, <2>3 DEF InFlight
<1>10. Head(queue[e]) = p /\ Tail(queue[e]) \in Seq(Nat) /\ Holds(Tail(queue[e]), InFlight(e) \ {p})
  BY <1>8, <1>9, HoldsRemoved
<1> HIDE DEF p
<1>11. /\ reg' \in [StageIds -> [Instrs -> Nat]]
       /\ \A t \in StageIds : t # s => reg'[t] = reg[t]
       /\ \A i \in Instrs : reg'[s][i] = IF i = At(p) THEN p ELSE reg[s][i]
  <2>1. reg' = [reg EXCEPT ![s][At(p)] = p]
    BY <1>3, <1>10
  <2> QED  BY <1>1, <1>6, <2>1, RegisterSet
<1>12. PosInv' /\ pos' \in [StageIds -> (1 .. last) \cup {MaxSteps + 1}]
  BY <1>1, <1>4, <1>5, PositionsStep
<1>13. RegInv'
  BY <1>1, <1>4, <1>5, <1>11, RegStep
<1>14. LogInv'
  <2>1. RepeatsNoWrite => ~diverged'
    BY <1>1, <1>4
  <2> QED  BY <1>1, <1>2, <1>4, <1>5, <2>1, LogStep
<1>15. ResultInv'
  BY <1>1, <1>4, <1>5, <1>6, ResultStep
<1>16. ASSUME NEW d \in edges
       PROVE  queue'[d] \in Seq(Nat) /\ Holds(queue'[d], InFlight(d)') /\ Ahead(d)'
  <2>1. CASE d = e
    <3>1. queue'[d] = Tail(queue[e])
      BY <1>3, <1>6, <2>1
    <3>2. p < pos[e.from]
      BY <1>9 DEF InFlight
    <3>3. /\ \A q : q \in InFlight(e)' <=> q \in InFlight(e) /\ q # p
          /\ Ahead(e)'
      BY <1>1, <1>3, <1>4, <1>5, <1>7, <3>2, InFlightStep
    <3>4. InFlight(e)' = InFlight(e) \ {p}
      BY <3>3
    <3> QED  BY <1>10, <2>1, <3>1, <3>3, <3>4
  <2>2. CASE d # e
    <3>1. queue'[d] = queue[d] /\ queue[d] \in Seq(Nat)
      BY <1>3, <1>6, <2>2
    <3>2. d.from = s \/ d.to = s => At(p) # d.prod
      BY <1>1, <1>3, <1>7, <2>2, TheEdges
    <3> QED  BY <1>1, <1>4, <1>5, <3>1, <3>2, QueueKept
  <2> QED  BY <2>1, <2>2
<1>17. QueueInv' /\ queue' \in [edges -> Seq(Nat)]
  <2>1. queue' \in [edges -> Seq(Nat)]
    BY <1>3, <1>6, <1>16
  <2> QED  BY <1>4, <1>16, <2>1, QueuesKept
<1>18. RunTypes' /\ last' = last
  BY <1>1, <1>4, <1>11, <1>12, <1>17, TypesStep
<1> QED  BY <1>1, <1>12, <1>13, <1>14, <1>15, <1>17, <1>18 DEF RunInv, IdleInv

(* A branch: on in the loop, or out of it with the loop's result.          *)
LEMMA BranchKeeps ==
  ASSUME PlanInv, RunInv, NEW s \in StageIds, Branch(s)
  PROVE  RunInv'
<1> DEFINE p == pos[s]
<1>1. /\ last # 0 /\ ~diverged /\ RunTypes /\ body = "driver"
      /\ p \in 1 .. last /\ p \in Nat /\ At(p) \in Instrs /\ Runs(s, At(p)) /\ p <= last
      /\ kind[At(p)] = "br"
  BY StageMeets DEF Branch, Meets
<1>2. /\ diverged' = ~Right(s, p) /\ UNCHANGED <<vars, last, reg, queue, log, joined>>
      /\ \/ p # last /\ MoveOn(s) /\ UNCHANGED result
         \/ /\ p = last /\ pos' = [pos EXCEPT ![s] = MaxSteps + 1]
            /\ result' = IF s \notin stores THEN result
                         ELSE IF returned.what = "loop" THEN reg[s][returned.def] ELSE 0
  BY DEF Branch
<1>3. /\ MaxSteps \in Nat /\ last \in Int /\ last <= MaxSteps
      /\ reg \in [StageIds -> [Instrs -> Nat]] /\ queue \in [edges -> Seq(Nat)]
      /\ pos \in [StageIds -> (1 .. last) \cup {MaxSteps + 1}]
  BY <1>1, EndToEndAssumption DEF RunTypes
<1>4. PICK n \in (1 .. last) \cup {MaxSteps + 1} :
         Advance(s, p, n) /\ (p # last => n <= last /\ UNCHANGED result)
  <2>1. CASE p # last
    <3>1. p < last
      BY <1>1, <1>3, <2>1
    <3> QED  BY <1>1, <1>2, <1>3, <2>1, <3>1, MovesOn
  <2>2. CASE p = last
    <3> HIDE DEF p
    <3>1. Advance(s, p, MaxSteps + 1)
      BY <1>1, <1>2, <1>3, <2>2 DEF Advance, p
    <3> QED  BY <2>2, <3>1
  <2> QED  BY <2>1, <2>2
<1> HIDE DEF p
<1>5. /\ PosInv' /\ pos' \in [StageIds -> (1 .. last) \cup {MaxSteps + 1}]
      /\ \A t \in StageIds : pos'[t] = IF t = s THEN n ELSE pos[t]
  BY <1>1, <1>2, <1>4, PositionsStep
<1>6. RegInv'
  <2>1. \A i \in Instrs : kind[i] # "br" => i # At(p)
    BY <1>1
  <2> QED  BY <1>1, <1>2, <1>4, <2>1, RegStep
<1>7. LogInv'
  <2>1. RepeatsNoWrite => ~diverged'
    BY <1>1, <1>2, ValuesAreRight DEF p
  <2>2. ~Writes(At(p))
    BY <1>1 DEF Writes
  <2> QED  BY <1>1, <1>2, <1>4, <2>1, <2>2, LogStep
<1>8. ASSUME NEW e \in edges
      PROVE  Holds(queue'[e], InFlight(e)') /\ Ahead(e)'
  <2>1. At(p) # e.prod
    BY <1>1, TheEdges
  <2> QED  BY <1>1, <1>2, <1>4, <2>1, QueueKept
<1>9. QueueInv'
  BY <1>2, <1>8, QueuesKept
<1>10. RunTypes' /\ last' = last
  BY <1>1, <1>2, <1>3, <1>5, TypesStep
<1>11. ResultInv'
  <2>1. CASE p # last
    BY <1>1, <1>2, <1>4, <2>1, ResultStep
  <2>2. CASE p = last
    <3>1. ~joined
      BY <1>1, <1>3 DEF RunInv, ResultInv, p
    <3>2. UNCHANGED <<returned, stores, numStages>> /\ stores \subseteq StageIds
      BY <1>2 DEF vars, loopVars, cutVars, codeVars, PlanInv, IInv, TypeOK
    <3>3. ASSUME NEW t \in stores, pos'[t] > last
          PROVE  result' = Expected
      <4>1. CASE s \in stores /\ returned.what = "loop"
        <5>1. result' = reg[s][returned.def]
          BY <1>2, <2>2, <3>3, <4>1
        <5>2. returned.def \in Instrs /\ kind[returned.def] # "br"
          BY <4>1 DEF PlanInv, IInv, TypeOK, ReturnValues, LoopInv
        <5>3. StoresLiveOut(s)
          BY <4>1 DEF PlanInv, StoresInv
        <5>4. Keeps(s, returned.def)
          BY <1>1, <4>1, <5>2, <5>3, ThePlan DEF StoresLiveOut
        <5>5. reg[s][returned.def] = Latest(returned.def, pos[s])
          BY <1>1, <5>2, <5>4 DEF RunInv, RegInv, p
        <5> QED  BY <2>2, <4>1, <5>1, <5>5 DEF p, Expected
      <4>2. CASE s \notin stores
        <5>1. result' = result /\ t # s
          BY <1>2, <2>2, <4>2
        <5>2. pos[t] > last
          BY <1>5, <3>2, <3>3, <5>1
        <5> QED  BY <1>1, <3>3, <5>1, <5>2 DEF RunInv, ResultInv
      <4>3. CASE s \in stores /\ returned.what # "loop"
        BY <1>2, <2>2, <4>3 DEF Expected
      <4> QED  BY <4>1, <4>2, <4>3
    <3>4. Expected' = Expected
      BY <1>2, <3>2 DEF Expected, Latest
    <3> QED  BY <1>2, <3>1, <3>2, <3>3, <3>4 DEF ResultInv
  <2> QED  BY <2>1, <2>2
<1> QED  BY <1>1, <1>5, <1>6, <1>7, <1>9, <1>10, <1>11 DEF RunInv, IdleInv

(* The driver returns after all stages.                                    *)
LEMMA JoinKeeps == PlanInv /\ RunInv /\ Join => RunInv'
<1> SUFFICES ASSUME PlanInv, RunInv, Join PROVE RunInv'
  OBVIOUS
<1>1. /\ last # 0 /\ RunTypes /\ PosInv /\ RegInv /\ QueueInv /\ LogInv /\ ResultInv
      /\ \A s \in StageIds : pos[s] > last
  BY DEF Join, RunInv, RunTypes
<1>2. /\ UNCHANGED <<last, pos, reg, queue, log, result, diverged>>
      /\ UNCHANGED <<kind, returned, numStages, scc, stage, repl, edges, clones, stores, body>>
  BY DEF Join, vars, loopVars, cutVars, replVars, codeVars
<1>3. RunTypes' /\ PosInv'
  BY <1>1, <1>2 DEF RunTypes, PosInv, StageIds, Keeps, At
<1>4. RegInv'
  BY <1>1, <1>2 DEF RegInv, StageIds, Keeps, Latest
<1>5. QueueInv'
  BY <1>1, <1>2 DEF QueueInv, InFlight, Holds, Ahead, At
<1>6. LogInv'
  BY <1>1, <1>2 DEF LogInv, RepeatsNoWrite, Writes, Replicated, Made, At
<1>7. ResultInv'
  BY <1>1, <1>2 DEF ResultInv, StageIds, Expected, Latest
<1> QED  BY <1>1, <1>2, <1>3, <1>4, <1>5, <1>6, <1>7 DEF RunInv, IdleInv

LEMMA StutterKeeps == RunInv /\ UNCHANGED allVars => RunInv'
<1> SUFFICES ASSUME RunInv, UNCHANGED allVars PROVE RunInv'
  OBVIOUS
<1>1. /\ UNCHANGED <<last, pos, reg, queue, log, result, diverged, joined>>
      /\ UNCHANGED <<kind, returned, numStages, scc, stage, repl, edges, clones, stores, body>>
  BY DEF allVars, runVars, vars, loopVars, cutVars, replVars, codeVars
<1>2. IdleInv'
  BY <1>1 DEF RunInv, IdleInv
<1>3. CASE last # 0
  <2>1. RunTypes' /\ PosInv'
    BY <1>1, <1>3 DEF RunInv, RunTypes, PosInv, StageIds, Keeps, At
  <2>2. RegInv'
    BY <1>1, <1>3 DEF RunInv, RegInv, StageIds, Keeps, Latest
  <2>3. QueueInv'
    BY <1>1, <1>3 DEF RunInv, QueueInv, InFlight, Holds, Ahead, At
  <2>4. LogInv'
    BY <1>1, <1>3 DEF RunInv, LogInv, RepeatsNoWrite, Writes, Replicated, Made, At
  <2>5. ResultInv'
    BY <1>1, <1>3 DEF RunInv, ResultInv, StageIds, Expected, Latest
  <2> QED  BY <1>2, <2>1, <2>2, <2>3, <2>4, <2>5 DEF RunInv
<1> QED  BY <1>1, <1>2, <1>3 DEF RunInv

(* The registers, queues and writes stay tied to the stages' positions.    *)
LEMMA RunInvariance == SpecRun => [](PlanInv /\ RunInv)
<1>1. InitRun => RunInv
  BY DEF InitRun, RunInv, IdleInv
<1>2. PlanInv /\ RunInv /\ [NextRun]_allVars => RunInv'
  <2> SUFFICES ASSUME PlanInv, RunInv, [NextRun]_allVars PROVE RunInv'
    OBVIOUS
  <2>1. CASE \E s \in DOMAIN pos : Compute(s) \/ Receive(s) \/ Branch(s)
    <3>1. PICK s \in DOMAIN pos : Compute(s) \/ Receive(s) \/ Branch(s)
      BY <2>1
    <3>2. last # 0
      BY <3>1 DEF Compute, Receive, Branch, Meets
    <3>3. s \in StageIds
      BY <3>1, <3>2 DEF RunInv, RunTypes
    <3> QED  BY <3>1, <3>3, ComputeKeeps, ReceiveKeeps, BranchKeeps
  <2>2. CASE Ended \/ UNCHANGED allVars
    BY <2>2, StutterKeeps DEF Ended
  <2> QED  BY <2>1, <2>2, PlanKeeps, LaunchKeeps, JoinKeeps DEF NextRun
<1> QED  BY <1>1, <1>2, PlanInvariance, PTL DEF SpecRun

---------------------------------------------------------------------------
(* What the rewritten loop computes. *)

(* Whatever the cut and the order of the stages' steps, no stage ever      *)
(* computes, receives or branches on a value that the sequential loop does *)
(* not, in loops whose stages repeat no write.                             *)
THEOREM StagesComputeSequentially == SpecRun => []ValuesAreSequential
<1>1. PlanInv /\ RunInv => ValuesAreSequential
  BY DEF RunInv, IdleInv, LogInv, ValuesAreSequential
<1> QED  BY <1>1, RunInvariance, PTL

(* And when the rewritten function returns, and its stages repeat no       *)
(* write, it has made the loop's writes, each once, and the queues are     *)
(* empty; its result is right if it is a value of the loop or a constant.  *)
(* Of arguments and values from outside the loop nothing is claimed: they  *)
(* are lost.                                                               *)
THEOREM FunctionIsSequential == SpecRun => []ResultIsSequential
<1>1. ASSUME PlanInv, RunInv, joined, RepeatsNoWrite
      PROVE  /\ LET writes == {p \in 1 .. last : Writes(At(p))} IN
                  {w.at : w \in log} = writes /\ Cardinality(log) = Cardinality(writes)
             /\ returned.what = "loop" => result = Latest(returned.def, last)
             /\ returned.what = "const" => result = 0
             /\ \A e \in edges : queue[e] = <<>>
  <2> DEFINE writes == {p \in 1 .. last : Writes(At(p))}
             Write(q) == [at |-> q, by |-> stage[At(q)]]
  <2>1. /\ last # 0 /\ RunTypes /\ RegInv /\ QueueInv /\ LogInv /\ ResultInv
        /\ body = "driver" /\ last \in Nat /\ last \in 1 .. MaxSteps
        /\ \A s \in StageIds : pos[s] > last
    BY <1>1, EndToEndAssumption DEF RunInv, IdleInv, RunTypes, ResultInv
  <2>2. stage \in [Instrs -> StageIds] /\ Len(clones) = numStages
    BY <1>1, <2>1, ThePlan
  <2>3. \A s \in StageIds : pos[s] = MaxSteps + 1 /\ MaxSteps + 1 \in Int /\ last < MaxSteps + 1
    BY <2>1, EndToEndAssumption DEF RunTypes
  <2>4. Made = writes
    <3>1. ASSUME NEW q \in 1 .. last PROVE q < pos[stage[At(q)]]
      <4>1. stage[At(q)] \in StageIds
        BY <2>2, AtRange
      <4> QED  BY <2>1, <2>3, <4>1
    <3> QED  BY <3>1 DEF Made
  <2>5. log = {Write(q) : q \in writes}
    BY <1>1, <2>1, <2>4 DEF LogInv
  <2>6. {w.at : w \in log} = writes
    <3>1. \A q : Write(q).at = q
      OBVIOUS
    <3> HIDE DEF writes, Write
    <3> QED  BY <2>5, <3>1
  <2>7. Cardinality(log) = Cardinality(writes)
    <3>1. IsFiniteSet(writes)
      <4>1. IsFiniteSet(1 .. last) /\ writes \subseteq 1 .. last
        BY <2>1, FS_Interval
      <4> HIDE DEF writes
      <4> QED  BY <4>1, FS_Subset
    <3> DEFINE f == [q \in writes |-> Write(q)]
    <3> HIDE DEF writes
    <3>2. f \in [writes -> log]
      BY <2>5
    <3>3. \A q, r \in writes : f[q] = f[r] => q = r
      <4> SUFFICES ASSUME NEW q \in writes, NEW r \in writes, f[q] = f[r] PROVE q = r
        OBVIOUS
      <4>1. f[q].at = q /\ f[r].at = r
        OBVIOUS
      <4> QED  BY <4>1
    <3>4. \A w \in log : \E q \in writes : f[q] = w
      BY <2>5
    <3> HIDE DEF f
    <3>5. f \in Bijection(writes, log)
      BY <3>2, <3>3, <3>4 DEF Bijection, Injection, Surjection, IsInjective
    <3>6. ExistsBijection(writes, log)
      BY <3>5 DEF ExistsBijection
    <3> QED  BY <3>1, <3>6, FS_Bijection
  <2>8. ASSUME returned.what = "loop" PROVE result = Latest(returned.def, last)
    <3>1. returned.def \in Instrs
      BY <1>1 DEF PlanInv, IInv, TypeOK, ReturnValues
    <3>2. stage[returned.def] \in StageIds /\ StoresLiveOut(stage[returned.def])
      BY <2>2, <2>8, <3>1 DEF StoresLiveOut
    <3>3. stage[returned.def] \in stores
      BY <1>1, <2>2, <3>2 DEF PlanInv, StoresInv, StageIds
    <3> QED  BY <2>1, <2>8, <3>2, <3>3 DEF ResultInv, Expected
  <2>9. ASSUME NEW e \in edges PROVE queue[e] = <<>>
    <3>1. e.from \in StageIds /\ e.to \in StageIds /\ queue[e] \in Seq(Nat)
      BY <1>1, <2>1, TheEdges DEF RunTypes
    <3>2. InFlight(e) = {}
      BY <2>1, <2>3, <3>1 DEF InFlight
    <3>3. {queue[e][k] : k \in 1 .. Len(queue[e])} = {}
      BY <2>1, <3>2 DEF QueueInv, Holds
    <3>4. \A k \in 1 .. Len(queue[e]) : FALSE
      BY <3>3
    <3> QED  BY <3>1, <3>4
  <2>10. ASSUME returned.what = "const" PROVE result = 0
    <3>1. 0 \in StageIds
      <4>1. 1 \in Instrs /\ numStages \in Nat
        BY <1>1, StagePlanAssumption DEF Instrs, PlanInv, IInv, TypeOK
      <4>2. stage[1] \in 0 .. numStages - 1
        BY <2>2, <4>1 DEF StageIds
      <4> QED  BY <4>1, <4>2 DEF StageIds
    <3>2. 0 \in stores
      BY <1>1, <2>2, <2>10, <3>1 DEF PlanInv, StoresInv, StoresLiveOut, StageIds
    <3> QED  BY <2>1, <2>10, <3>1, <3>2 DEF ResultInv, Expected
  <2> QED  BY <2>6, <2>7, <2>8, <2>9, <2>10
<1>2. PlanInv /\ RunInv => ResultIsSequential
  BY <1>1 DEF ResultIsSequential
<1> QED  BY <1>2, RunInvariance, PTL

---------------------------------------------------------------------------
(* Waiting. *)

LEMMA FurthestBehind ==
  ASSUME PlanInv, RunTypes
  PROVE  \E s \in StageIds : \A t \in StageIds : pos[s] <= pos[t] /\ pos[s] \in Nat
<1> DEFINE P == {pos[s] : s \in StageIds}
<1>1. \A s \in StageIds : pos[s] \in Nat
  BY EndToEndAssumption DEF RunTypes
<1>2. P \in SUBSET Nat /\ P # {}
  <2>1. stage \in [Instrs -> StageIds] /\ NumInstrs \in Instrs
    BY ThePlan, StagePlanAssumption DEF RunTypes, Instrs
  <2>2. stage[NumInstrs] \in StageIds
    BY <2>1
  <2> QED  BY <1>1, <2>2
<1>3. PICK m \in P : \A k \in P : m <= k
  <2> HIDE DEF P
  <2> QED  BY <1>2, Smallest
<1> QED  BY <1>1, <1>3

(* A full queue holds a value that its producer has passed and its         *)
(* consumer has not.                                                       *)
LEMMA FullMeansAhead ==
  ASSUME PlanInv, RunInv, last # 0, NEW e \in edges, ~(Len(queue[e]) < Capacity)
  PROVE  pos[e.to] < pos[e.from]
<1>1. /\ RunTypes /\ QueueInv /\ e.from \in StageIds /\ e.to \in StageIds
      /\ Capacity \in Nat \ {0}
  BY TheEdges, EndToEndAssumption DEF RunInv, RunTypes
<1>2. Len(queue[e]) \in Nat /\ Holds(queue[e], InFlight(e))
  BY <1>1 DEF RunTypes, QueueInv
<1>3. 1 \in 1 .. Len(queue[e])
  BY <1>1, <1>2
<1>4. queue[e][1] \in InFlight(e)
  BY <1>2, <1>3 DEF Holds
<1>5. PICK q \in 1 .. last : pos[e.to] <= q /\ q < pos[e.from]
  BY <1>4 DEF InFlight
<1>6. \A s \in StageIds : pos[s] \in Nat
  BY <1>1, EndToEndAssumption DEF RunTypes
<1>7. pos[e.to] \in Nat /\ pos[e.from] \in Nat
  BY <1>1, <1>6
<1> QED  BY <1>5, <1>7

(* The next value is in the queue once its producer is further.            *)
LEMMA AheadMeansValue ==
  ASSUME PlanInv, RunInv, last # 0, NEW e \in edges,
         pos[e.to] \in 1 .. last, At(pos[e.to]) = e.prod, pos[e.to] < pos[e.from]
  PROVE  queue[e] # <<>>
<1>1. RunTypes /\ Holds(queue[e], InFlight(e)) /\ pos[e.to] \in Nat
  BY DEF RunInv, QueueInv
<1>2. pos[e.to] \in InFlight(e)
  BY <1>1 DEF InFlight
<1>3. PICK k \in 1 .. Len(queue[e]) : queue[e][k] = pos[e.to]
  BY <1>1, <1>2 DEF Holds
<1> QED  BY <1>3

(* The stages never wait for each other.  Let p be the position of the     *)
(* furthest behind.  If the stage that computes the instruction at p alone *)
(* is there, it can go on, as nobody is behind it; if it is further, any   *)
(* stage at p can: what it dequeues was sent.                              *)
THEOREM StagesMakeProgress == SpecRun => []StagesNeverBlock
<1>1. PlanInv /\ RunInv => StagesNeverBlock
  <2> SUFFICES ASSUME PlanInv, RunInv, last # 0, ~diverged,
                      NEW r \in DOMAIN pos, ~(pos[r] > last)
               PROVE  \E s \in DOMAIN pos : CanGoOn(s)
    BY DEF StagesNeverBlock
  <2>1. RunTypes /\ PosInv /\ body = "driver" /\ DOMAIN pos = StageIds /\ last \in Nat
    BY EndToEndAssumption DEF RunInv, RunTypes
  <2>2. PICK s \in StageIds : \A t \in StageIds : pos[s] <= pos[t] /\ pos[s] \in Nat
    BY <2>1, FurthestBehind
  <2> DEFINE p == pos[s]
  <2>3. \A t \in StageIds : pos[t] \in Nat /\ (pos[t] = p => pos[t] \in 1 .. last)
    <3>1. \A t \in StageIds : pos[t] \in Nat /\ (pos[t] <= last => pos[t] \in 1 .. last)
      BY <2>1, EndToEndAssumption DEF RunTypes
    <3>2. pos[s] <= last
      <4>1. pos[s] <= pos[r] /\ pos[r] \in Nat
        BY <2>1, <2>2, <3>1
      <4> QED  BY <2>1, <2>2, <4>1
    <3> QED  BY <3>1, <3>2
  <2>4. At(p) \in Instrs /\ p <= last
    BY <2>1, <2>3, AtRange
  <2>5. ASSUME NEW t \in StageIds, pos[t] = p
        PROVE  \/ Meets(t, "dequeue") /\ ~Runs(t, At(p))
               \/ Meets(t, "run") /\ Runs(t, At(p))
    <3>1. Keeps(t, At(p))
      BY <2>1, <2>4, <2>5 DEF PosInv
    <3>2. Runs(t, At(p)) \/ clones[t + 1][At(p)] = "dequeue"
      BY <2>1, <2>4, <3>1, ThePlan
    <3> QED  BY <2>4, <2>5, <3>2 DEF Meets, Runs
  <2>6. ASSUME NEW t \in StageIds, pos[t] = p, Runs(t, At(p)) PROVE CanGoOn(t)
    <3>1. Meets(t, "run")
      BY <2>5, <2>6
    <3>2. ASSUME NEW e \in edges, e.prod = At(pos[t]), e.from = t, ~(Len(queue[e]) < Capacity)
          PROVE  FALSE
      <4>1. pos[e.to] < pos[t] /\ e.to \in StageIds
        BY <2>1, <3>2, FullMeansAhead, TheEdges
      <4>2. pos[t] <= pos[e.to]
        BY <2>2, <2>6, <4>1
      <4> HIDE DEF p
      <4> QED  BY <2>3, <4>1, <4>2
    <3> QED  BY <3>1, <3>2 DEF CanGoOn
  <2>7. ASSUME ~Runs(s, At(p)) PROVE \E t \in StageIds : CanGoOn(t)
    <3>1. Meets(s, "dequeue")
      BY <2>5, <2>7
    <3>2. PICK e \in edges : e.prod = At(p) /\ e.to = s
      <4>1. clones[s + 1] = Clone(s)
        <5>1. s \in 0 .. Len(clones) - 1
          BY <2>1, ThePlan DEF StageIds
        <5> QED  BY <5>1, CloneOf DEF PlanInv
      <4>2. Clone(s)[At(p)] = "dequeue"
        BY <3>1, <4>1 DEF Meets
      <4> QED  BY <2>4, <4>2 DEF Clone
    <3>3. e.from \in StageIds /\ Runs(e.from, At(p))
      BY <2>1, <3>2, TheEdges
    <3>4. CASE pos[e.from] = p
      BY <2>6, <3>3, <3>4
    <3>5. CASE pos[e.from] # p
      <4>1. p < pos[e.from]
        <5>1. p <= pos[e.from]
          BY <2>2, <3>3
        <5> QED  BY <2>3, <3>3, <3>5, <5>1
      <4>2. queue[e] # <<>>
        BY <2>3, <3>2, <4>1, AheadMeansValue
      <4> QED  BY <3>1, <3>2, <4>2 DEF CanGoOn
    <3> QED  BY <3>4, <3>5
  <2> QED  BY <2>1, <2>6, <2>7
<1> QED  BY <1>1, RunInvariance, PTL

---------------------------------------------------------------------------
(* The partitioner of the code is one that the plan allows for. *)

Cutter == INSTANCE PartitionProofs WITH
  MaxSCCs <- NumInstrs, MaxCyclic <- 0, StageCounts <- {StagesFor(r) : r \in Requests},
  n <- NumSCCs, edges <- DagEdges, numStages <- StagesFor(request),
  pc <- partPc, stage <- sccStage

LEMMA CutterAssumption == Cutter!PartitionAssumption
<1>1. \A r \in Requests : StagesFor(r) \in Nat \ {0}
  BY StagePlanAssumption DEF StagesFor
<1> QED  BY <1>1, FrontEndAssumption, StagePlanAssumption DEF Cutter!PartitionAssumption

(* FrontEnd and PartitionProofs speak of the same partitioner. *)
LEMMA SameBasics ==
  /\ Partitioner!SCCs = Cutter!SCCs /\ Partitioner!StageIds = Cutter!StageIds
  /\ Partitioner!inputVars = Cutter!inputVars /\ Partitioner!sortVars = Cutter!sortVars
  /\ Partitioner!fillVars = Cutter!fillVars /\ Partitioner!resultVars = Cutter!resultVars
  /\ UNCHANGED Partitioner!inputVars <=> UNCHANGED Cutter!inputVars
  /\ UNCHANGED Partitioner!sortVars <=> UNCHANGED Cutter!sortVars
  /\ UNCHANGED Partitioner!fillVars <=> UNCHANGED Cutter!fillVars
  /\ UNCHANGED Partitioner!resultVars <=> UNCHANGED Cutter!resultVars
  BY DEF Partitioner!SCCs, Cutter!SCCs, Partitioner!StageIds, Cutter!StageIds,
         Partitioner!inputVars, Cutter!inputVars, Partitioner!sortVars, Cutter!sortVars,
         Partitioner!fillVars, Cutter!fillVars, Partitioner!resultVars, Cutter!resultVars

LEMMA SameCardinality == \A S : Partitioner!Cardinality(S) = Cutter!Cardinality(S)
  BY DEF Partitioner!Cardinality, Cutter!Cardinality

LEMMA SameSeqs == \A S : Partitioner!SetToSeqs(S) = Cutter!SetToSeqs(S)
  BY SameCardinality DEF Partitioner!SetToSeqs, Cutter!SetToSeqs

LEMMA SameCosts ==
  /\ \A S : Partitioner!CostOf(S) = Cutter!CostOf(S)
  /\ Partitioner!Total = Cutter!Total
<1>1. \A S : Partitioner!CostOf(S) = Cutter!CostOf(S)
  BY DEF Partitioner!CostOf, Cutter!CostOf, Partitioner!FoldSet, Cutter!FoldSet,
         Partitioner!MapThenFoldSet, Cutter!MapThenFoldSet
<1> QED  BY <1>1, SameBasics DEF Partitioner!Total, Cutter!Total

LEMMA SameInit == Partitioner!Init => Cutter!Init
  BY SameBasics DEF Partitioner!Init, Cutter!Init, Partitioner!Graphs, Cutter!Graphs

LEMMA SameNext == Partitioner!Next => Cutter!Next
<1>1. /\ \A v : Partitioner!Preds(v) = Cutter!Preds(v) /\ Partitioner!Succs(v) = Cutter!Succs(v)
      /\ \A k : Partitioner!Threshold(k) = Cutter!Threshold(k)
  BY SameBasics, SameCosts
     DEF Partitioner!Preds, Cutter!Preds, Partitioner!Succs, Cutter!Succs,
         Partitioner!Threshold, Cutter!Threshold
<1>2. /\ Partitioner!OneStage => Cutter!OneStage
      /\ Partitioner!Trivial <=> Cutter!Trivial
  BY SameCosts DEF Partitioner!OneStage, Cutter!OneStage, Partitioner!Trivial, Cutter!Trivial
<1>3. Partitioner!BailTrivial => Cutter!BailTrivial
  BY <1>2, SameBasics DEF Partitioner!BailTrivial, Cutter!BailTrivial
<1>4. Partitioner!CountInDegrees => Cutter!CountInDegrees
  BY <1>1, <1>2, SameBasics, SameCardinality, SameSeqs
     DEF Partitioner!CountInDegrees, Cutter!CountInDegrees, Partitioner!InIdOrder, Cutter!InIdOrder
<1>5. Partitioner!Visit => Cutter!Visit
  BY <1>1, SameBasics, SameSeqs DEF Partitioner!Visit, Cutter!Visit
<1>6. Partitioner!BailCyclic => Cutter!BailCyclic
  BY <1>2, SameBasics DEF Partitioner!BailCyclic, Cutter!BailCyclic
<1>7. Partitioner!StartFill => Cutter!StartFill
  BY SameBasics DEF Partitioner!StartFill, Cutter!StartFill
<1>8. Partitioner!PlaceNext => Cutter!PlaceNext
  BY <1>1, SameBasics DEF Partitioner!PlaceNext, Cutter!PlaceNext
<1>9. Partitioner!Tally => Cutter!Tally
  BY SameBasics, SameCosts, SameCardinality DEF Partitioner!Tally, Cutter!Tally
<1>10. Partitioner!Finished => Cutter!Finished
  BY SameBasics DEF Partitioner!Finished, Cutter!Finished, Partitioner!vars, Cutter!vars
<1> QED  BY <1>3, <1>4, <1>5, <1>6, <1>7, <1>8, <1>9, <1>10 DEF Partitioner!Next, Cutter!Next

(* The loop, its components' numbers and their costs stay.                 *)
FrontInv ==
  /\ number \in Numberings /\ cost \in CostsOf
  /\ Deps \subseteq Instrs \X Instrs

LEMMA FrontKeepsLoop == [NextFront]_<<vars, frontVars>> => UNCHANGED <<loopVars, number, cost>>
<1>1. RunPartitioner => UNCHANGED <<loopVars, number, cost>>
  BY DEF RunPartitioner, vars
<1>2. BailSingleStage => UNCHANGED <<loopVars, number, cost>>
  BY DEF BailSingleStage, BailNoCut, frontVars
<1>3. TakeCut => UNCHANGED <<loopVars, number, cost>>
  BY DEF TakeCut, frontVars
<1>4. PlanOn => UNCHANGED <<loopVars, number, cost>>
  BY NextKeepsLoop DEF PlanOn, frontVars, Next
<1> QED  BY <1>1, <1>2, <1>3, <1>4 DEF NextFront, vars, frontVars

(* It does not change while the loop is partitioned and planned.           *)
LEMMA FrontInvariance == SpecFront => []FrontInv
<1>1. InitFront => FrontInv
  <2> SUFFICES ASSUME InitFront PROVE Deps \subseteq Instrs \X Instrs
    BY DEF InitFront, FrontInv
  <2> QED  BY DEF InitFront, Init, Deps, RegisterEdges, MemoryEdges
<1>2. FrontInv /\ [NextFront]_<<vars, frontVars>> => FrontInv'
  <2> SUFFICES ASSUME FrontInv, UNCHANGED <<kind, uses, conflicts, returned, request, number, cost>>
               PROVE  FrontInv'
    BY FrontKeepsLoop DEF loopVars
  <2>1. Deps' = Deps
    BY DEF Deps, RegisterEdges, MemoryEdges
  <2>2. Components' = Components
    BY <2>1 DEF Components
  <2>3. Partitioner!SCCs' = Partitioner!SCCs
    BY DEF Partitioner!SCCs, NumSCCs
  <2> QED  BY <2>1, <2>2, <2>3 DEF FrontInv, Numberings, CostsOf
<1> QED  BY <1>1, <1>2, PTL DEF SpecFront

LEMMA FrontCuts == SpecFront => Cutter!Spec
<1>1. InitFront => Cutter!Init
  BY SameInit DEF InitFront
<1>2. [NextFront]_<<vars, frontVars>> => [Cutter!Next]_Cutter!vars
  <2> SUFFICES ASSUME NextFront \/ UNCHANGED <<vars, frontVars>>
               PROVE  [Cutter!Next]_Cutter!vars
    OBVIOUS
  <2>1. CASE RunPartitioner
    BY <2>1, SameNext DEF RunPartitioner
  <2>2. CASE UNCHANGED partVars
    <3>1. UNCHANGED <<kind, uses, conflicts, returned, request, number, cost>>
      BY FrontKeepsLoop DEF loopVars
    <3>2. Deps' = Deps
      BY <3>1 DEF Deps, RegisterEdges, MemoryEdges
    <3>3. DagEdges' = DagEdges /\ NumSCCs' = NumSCCs /\ StagesFor(request)' = StagesFor(request)
      BY <3>1, <3>2 DEF DagEdges, NumSCCs, StagesFor
    <3> QED  BY <2>2, <3>1, <3>3 DEF partVars, Cutter!vars, Cutter!inputVars, Cutter!sortVars,
                  Cutter!fillVars, Cutter!resultVars
  <2> QED  BY <2>1, <2>2 DEF NextFront, BailSingleStage, TakeCut, PlanOn, frontVars
<1> QED  BY <1>1, <1>2, PTL DEF SpecFront, Cutter!Spec

LEMMA UsableCuts == SpecFront => []Cutter!CutIsUsable
<1>1. Cutter!Spec => []Cutter!CutIsUsable
  BY CutterAssumption, Cutter!CutsAreUsable
<1> QED  BY <1>1, FrontCuts, PTL

(* What the partitioner makes of a loop is a cut as StagePlan wants it.    *)
LEMMA TakenCut == FrontInv /\ Cutter!CutIsUsable /\ TakeCut => Cut
<1> SUFFICES ASSUME FrontInv, Cutter!CutIsUsable, TakeCut
             PROVE  [i \in Instrs |-> sccStage[number[i]]] \in Cuts(StagesFor(request), Components)
  BY DEF TakeCut, Cut, frontVars
<1> DEFINE N == StagesFor(request)
           st == [i \in Instrs |-> sccStage[number[i]]]
<1>1. /\ sccStage \in [Cutter!SCCs -> 0 .. N - 1]
      /\ \A e \in DagEdges : sccStage[e[1]] <= sccStage[e[2]]
      /\ \A k \in 0 .. N - 1 : \E s \in Cutter!SCCs : sccStage[s] = k /\ cost[s] # 0
  BY DEF TakeCut, Cutter!CutIsUsable, Cutter!StageIds
<1>2. /\ Cutter!SCCs = {number[i] : i \in Instrs}
      /\ \A i, j \in Instrs : Components[i] = Components[j] => number[i] = number[j]
  <2>1. \A i \in Instrs : Components[i] = {j \in Instrs : number[j] = number[i]}
    BY DEF FrontInv, Numberings
  <2>2. {number[i] : i \in Instrs} = 0 .. NumSCCs - 1
    BY DEF FrontInv, Numberings, NumSCCs
  <2> QED  BY <2>1, <2>2 DEF Cutter!SCCs
<1>3. st \in [Instrs -> 0 .. N - 1]
  BY <1>1, <1>2
<1>4. \A i, j \in Instrs : Components[i] = Components[j] => st[i] = st[j]
  BY <1>2
<1>5. ASSUME NEW e \in Deps PROVE st[e[1]] <= st[e[2]]
  <2>1. e[1] \in Instrs /\ e[2] \in Instrs
    BY DEF FrontInv
  <2>2. CASE number[e[1]] = number[e[2]]
    <3>1. st[e[1]] = st[e[2]] /\ st[e[1]] \in Int
      BY <1>3, <2>1, <2>2
    <3> QED  BY <3>1
  <2>3. CASE number[e[1]] # number[e[2]]
    <3>1. <<number[e[1]], number[e[2]]>> \in DagEdges
      BY <2>3 DEF DagEdges
    <3> QED  BY <1>1, <2>1, <3>1
  <2> QED  BY <2>2, <2>3
<1>6. ASSUME NEW k \in 0 .. N - 1 PROVE \E i \in Instrs : st[i] = k /\ kind[i] # "phi"
  <2>1. PICK s \in Cutter!SCCs : sccStage[s] = k /\ cost[s] # 0
    BY <1>1
  <2>2. PICK i \in Instrs : number[i] = s /\ kind[i] # "phi"
    BY <2>1, SameBasics DEF FrontInv, CostsOf
  <2> QED  BY <2>1, <2>2
<1> QED  BY <1>3, <1>4, <1>5, <1>6 DEF Cuts

(* The transform with its partitioner is a planner as StagePlan describes  *)
(* them, for every loop, numbering of its components and cost: so all that *)
(* is proved of plans and of their stages holds of the cuts it makes.      *)
THEOREM FrontEndIsAPlanner == SpecFront => ImplementsStagePlan
<1>1. InitFront => Init
  BY DEF InitFront
<1>2. FrontInv /\ Cutter!CutIsUsable /\ [NextFront]_<<vars, frontVars>> => [Next]_vars
  <2> SUFFICES ASSUME FrontInv, Cutter!CutIsUsable, NextFront \/ UNCHANGED <<vars, frontVars>>
               PROVE  [Next]_vars
    OBVIOUS
  <2>1. CASE RunPartitioner
    BY <2>1 DEF RunPartitioner
  <2>2. CASE BailSingleStage
    BY <2>2 DEF BailSingleStage, Next, PlanStep
  <2>3. CASE TakeCut
    BY <2>3, TakenCut DEF Next, PlanStep
  <2>4. CASE PlanOn
    BY <2>4 DEF PlanOn, Next
  <2> QED  BY <2>1, <2>2, <2>3, <2>4 DEF NextFront
<1> QED  BY <1>1, <1>2, FrontInvariance, UsableCuts, PTL DEF SpecFront, ImplementsStagePlan, Spec
=============================================================================
