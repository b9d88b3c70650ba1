------------------------------- MODULE MCPDG -------------------------------
(***************************************************************************)
(* The TLC run of pass/PDG.cpp: PDGBuilder::build adds the control edges,  *)
(* then computeSCCs is called.  The search may follow any control edges    *)
(* and does not read those found here, so nothing is lost if each loop     *)
(* meets one dependence graph and each graph one loop.                     *)
(***************************************************************************)
EXTENDS Tarjan, ControlDeps

(* One block after the other. *)
StraightLoop == {<<b, b + 1>> : b \in 1 .. NumBlocks - 1} \cup {NumBlocks} \X {1, Exit}

InitPDG ==
  \/ /\ Init /\ dep \cup ctrl = {}
     /\ InitControl
  \/ /\ Init /\ dep \cup ctrl # {}
     /\ flow = StraightLoop /\ block = 1 /\ ctrlEdges = {}

AddControlEdges == VisitBlock /\ UNCHANGED vars
ComputeSCCs == block > NumBlocks /\ Next /\ UNCHANGED controlVars

NextPDG == AddControlEdges \/ ComputeSCCs

SpecPDG == InitPDG /\ [][NextPDG]_<<vars, controlVars>>
=============================================================================
