---------------------------- MODULE ControlDeps ----------------------------
(***************************************************************************)
(* pass/PDG.cpp: addControlEdges, which finds the blocks of a loop that    *)
(* each branch decides on, from the post-dominator tree.                   *)
(*                                                                         *)
(* Block 1 is the header; the loop is innermost and simplified, so that    *)
(* one latch goes back to it and all other edges go to later blocks or     *)
(* out of the loop.  A block ends in a branch or a switch, with any number *)
(* of successors.  Edges from a terminator go to all instructions of a     *)
(* block but phis; here they go to the block.                              *)
(***************************************************************************)
EXTENDS Integers, FiniteSets

CONSTANT NumBlocks    \* bound: blocks of the loop

ASSUME ControlDepsAssumption == NumBlocks \in Nat \ {0}

Blocks == 1 .. NumBlocks
Exit == 0

VARIABLES
  flow,       \* the control flow edges that start in the loop
  block,      \* the block A of the outer loop
  ctrlEdges   \* pairs of the block whose branch decides and the block decided on

controlVars == <<flow, block, ctrlEdges>>

Targets(x) == {y \in Blocks \cup {Exit} : <<x, y>> \in flow}

(* There is a way from x to y along the edges of F: y is in every set that *)
(* has x and that these edges do not leave.                                *)
Leads(F, x, y) ==
  \A S \in SUBSET (Blocks \cup {Exit}) :
    x \in S /\ (\A e \in F : e[1] \in S => e[2] \in S) => y \in S

(* The ways out of the loop that do not meet b. *)
LeavesWithout(b, x) == Leads({e \in flow : b \notin {e[1], e[2]}}, x, Exit)

(* The post-dominator tree: each way from x out of the loop meets b. *)
PostDominates(b, x) == b = x \/ (x # Exit /\ ~LeavesWithout(b, x))

(* The edges within an iteration; each block but the header is entered. *)
ForwardEdges ==
  {F \in SUBSET {e \in Blocks \X Blocks : e[1] < e[2]} :
     \A y \in Blocks \ {1} : \E e \in F : e[2] = y}
BackEdges == {<<latch, 1>> : latch \in Blocks}
ExitEdges == Blocks \X {Exit}

(* Every block is on a way from header to latch. *)
IsLoop == \A x \in Blocks : Leads(flow, 1, x) /\ Leads(flow, x, 1)

InitControl ==
  /\ \E forward \in ForwardEdges, back \in BackEdges,
       out \in SUBSET ExitEdges \ {{}} :
         flow = forward \cup {back} \cup out
  /\ IsLoop
  /\ block = 1
  /\ ctrlEdges = {}

(* Mutants: the third condition is dropped; B is only looked for among the *)
(* successors themselves.                                                  *)
DecidedIfReached(a) ==
  {b \in Blocks \ {a} : \E s \in Targets(a) : PostDominates(b, s)}
DecidedNextBlock(a) ==
  {b \in Blocks \ {a} : b \in Targets(a) /\ ~PostDominates(b, a)}

(* The blocks decided on by the branch of a. *)
Decided(a) ==
  {b \in Blocks \ {a} : /\ ~PostDominates(b, a)
                        /\ \E s \in Targets(a) : PostDominates(b, s)}

(* One turn of the outer loop; blocks with one successor are skipped. *)
VisitBlock ==
  /\ block <= NumBlocks
  /\ ctrlEdges' = IF Cardinality(Targets(block)) < 2 THEN ctrlEdges
                  ELSE ctrlEdges \cup {<<block, b>> : b \in Decided(block)}
  /\ block' = block + 1
  /\ UNCHANGED flow

ControlFinished == block > NumBlocks /\ UNCHANGED controlVars

NextControl == VisitBlock \/ ControlFinished

SpecControl == InitControl /\ [][NextControl]_controlVars

---------------------------------------------------------------------------
(* Properties. *)

(* Type invariant, checked as a part of EdgesAreDecisions.                 *)
ControlTypeOK ==
  /\ flow \subseteq Blocks \X (Blocks \cup {Exit})
  /\ block \in 1 .. NumBlocks + 1
  /\ ctrlEdges \subseteq Blocks \X Blocks

(* What control dependence is for: the branch of a has an outcome after    *)
(* which b runs before the loop is left, and one after which the loop may  *)
(* be left without b.                                                      *)
MayLeaveWithout(b, x) == x = Exit \/ (x # b /\ LeavesWithout(b, x))
EdgesAreDecisions ==
  ControlTypeOK /\ (block > NumBlocks =>
    ctrlEdges = {e \in Blocks \X Blocks :
                   /\ e[1] # e[2]
                   /\ \E s \in Targets(e[1]) : ~MayLeaveWithout(e[2], s)
                   /\ \E s \in Targets(e[1]) : MayLeaveWithout(e[2], s)})
=============================================================================
