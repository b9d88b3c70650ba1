------------------------------- MODULE SCCDag -------------------------------
(***************************************************************************)
(* pass/Partition.cpp: buildSCCDAG, which sums up the dependence graph of  *)
(* a loop by components: one edge per ordered pair of them.  The numbering *)
(* of the components is any that computeSCCs may give, which Tarjan        *)
(* checks.  The costs it adds up as well are any numbers in Partition.     *)
(***************************************************************************)
EXTENDS Integers, FiniteSets

CONSTANTS NumInstrs,   \* bound: instructions of the loop
          MaxEdges,    \* bound: edges of the PDG
          MaxOperands  \* bound: places where an instruction uses one value

ASSUME SCCDagAssumption == {NumInstrs, MaxEdges, MaxOperands} \subseteq Nat

Instrs == 1 .. NumInstrs
Digraph == INSTANCE Graphs

VARIABLES
  pdg,               \* the PDG's edges
  sccOf,             \* SCCResult: InstToSCC
  src, todo,         \* the outer loop's component; its PDG edges not looked at yet
  byDst,             \* ByDst: the edges of src found so far
  out                \* SCCDAG::Out

vars == <<pdg, sccOf, src, todo, byDst, out>>

(* A value that is used twice by an instruction has two edges to it, one   *)
(* per operand; memory and control edges are single.                       *)
PDGEdges ==
  {e \in [from : Instrs, to : Instrs, kind : {"data", "mem", "ctrl"},
          operand : 0 .. MaxOperands, carried : BOOLEAN] :
     /\ e.operand = 0 <=> e.kind # "data"
     /\ e.kind = "ctrl" => ~e.carried
     /\ e.from = e.to => e.carried}

(* Parallel edges of one kind are carried by the same iterations. *)
Agree(d, e) ==
  d.from = e.from /\ d.to = e.to /\ d.kind = e.kind => d.carried = e.carried

PDGs ==
  {E \in {{f[i] : i \in 1 .. MaxEdges} : f \in [1 .. MaxEdges -> PDGEdges]} \cup {{}} :
     \A d, e \in E : Agree(d, e)}

NumSCCs == Cardinality({sccOf[i] : i \in Instrs})
SCCs == 0 .. NumSCCs - 1

(* Components without control edges, numbered from 0 on, sinks first. *)
Numberings(E) ==
  LET deps == {<<e.from, e.to>> : e \in {d \in E : d.kind # "ctrl"}}
      reaches == Digraph!ConnectionsIn([node |-> Instrs, edge |-> deps])
  IN  {f \in [Instrs -> 0 .. NumInstrs - 1] :
         /\ \A i, j \in Instrs : f[i] = f[j] <=> reaches[i, j] /\ reaches[j, i]
         /\ \A p \in deps : f[p[1]] >= f[p[2]]
         /\ \A i \in Instrs : f[i] = 0 \/ \E j \in Instrs : f[j] = f[i] - 1}

EdgesOf(s) == {e \in pdg : sccOf[e.from] = s}

Init ==
  /\ pdg \in PDGs
  /\ sccOf \in Numberings(pdg)
  /\ src = 0 /\ todo = EdgesOf(0) /\ byDst = {}
  /\ out = [s \in SCCs |-> {}]

NewEdge(d) == [to |-> d, count |-> 0, carried |-> FALSE,
               data |-> FALSE, memory |-> FALSE, control |-> FALSE]

(* The entry of ByDst for the component d. *)
Entry(d) == IF \E x \in byDst : x.to = d THEN CHOOSE x \in byDst : x.to = d ELSE NewEdge(d)

(* Mutant: the last edge decides whether the pair is loop-carried. *)
MergeLast(x, e) ==
  [x EXCEPT !.count = @ + 1, !.carried = e.carried,
            !.memory = @ \/ e.kind = "mem", !.data = @ \/ e.kind = "data"]

Merge(x, e) ==
  [x EXCEPT !.count = @ + 1, !.carried = @ \/ e.carried,
            !.memory = @ \/ e.kind = "mem", !.data = @ \/ e.kind = "data"]

(* Mutant: control edges are kept. *)
DroppedIfInternal(e) == sccOf[e.to] = src

(* Control edges and edges within a component are dropped. *)
Dropped(e) == e.kind = "ctrl" \/ sccOf[e.to] = src

LookAt(e) ==
  /\ e \in todo
  /\ todo' = todo \ {e}
  /\ byDst' = IF Dropped(e) THEN byDst
              ELSE LET x == Entry(sccOf[e.to]) IN (byDst \ {x}) \cup {Merge(x, e)}
  /\ UNCHANGED <<pdg, sccOf, src, out>>

(* The entries become the component's edges; on to the next component. *)
NextSCC ==
  /\ src < NumSCCs /\ todo = {}
  /\ out' = [out EXCEPT ![src] = byDst]
  /\ src' = src + 1
  /\ todo' = EdgesOf(src + 1)
  /\ byDst' = {}
  /\ UNCHANGED <<pdg, sccOf>>

Done == src = NumSCCs
Finished == Done /\ UNCHANGED vars

Next == (\E e \in PDGEdges : LookAt(e)) \/ NextSCC \/ Finished

Spec == Init /\ [][Next]_vars

---------------------------------------------------------------------------
(* Properties. *)

(* Type invariant, checked as a part of EdgesSumUp.                        *)
TypeOK ==
  /\ pdg \subseteq PDGEdges
  /\ sccOf \in [Instrs -> SCCs] /\ src \in 0 .. NumSCCs /\ todo \subseteq pdg
  /\ \A s \in SCCs : \A x \in byDst \cup out[s] :
       x.to \in SCCs /\ x.count \in 1 .. Cardinality(pdg)

(* The dependences of instructions of d on instructions of s. *)
DepsBetween(s, d) ==
  {e \in pdg : sccOf[e.from] = s /\ sccOf[e.to] = d /\ e.kind # "ctrl"}

(* Whatever order the PDG lists its edges in, two components are joined by *)
(* one edge exactly if an instruction of the second depends on one of the  *)
(* first other than by control, and the edge sums up all those             *)
(* dependences, each use of a value counted.                               *)
EdgesSumUp ==
  /\ TypeOK
  /\ Done => \A s, d \in SCCs :
       LET D == DepsBetween(s, d)
           X == {x \in out[s] : x.to = d}
       IN /\ X = {} <=> s = d \/ D = {}
          /\ \A x \in X :
               /\ x.count = Cardinality(D)
               /\ x.carried <=> \E e \in D : e.carried
               /\ x.data <=> \E e \in D : e.kind = "data"
               /\ x.memory <=> \E e \in D : e.kind = "mem"
          /\ \A x, y \in X : x = y

(* What the sort needs: edges only go to components numbered before, so    *)
(* they form no cycle, even though control edges may go either way.        *)
IsAcyclic == \A s \in SCCs : \A x \in out[s] : x.to < s
=============================================================================
