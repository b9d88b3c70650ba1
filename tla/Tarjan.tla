------------------------------- MODULE Tarjan -------------------------------
(***************************************************************************)
(* pass/PDG.cpp: computeSCCs, which finds the strongly connected           *)
(* components of a loop's dependence graph and numbers them sinks first.   *)
(*                                                                         *)
(* The recursion of StrongConnect is the sequence calls: one frame per     *)
(* active call, with the edges its loop has still to look at.  The order   *)
(* of a node's edges is that of LLVM's use lists, hence any order.         *)
(***************************************************************************)
EXTENDS Integers, Sequences, FiniteSets, FiniteSetsExt

CONSTANTS NumNodes,     \* bound: instructions of the loop, numbered in block order
          MaxMixed      \* bound: edges of a kind, in graphs with self or control edges

ASSUME TarjanAssumption == NumNodes \in Nat /\ MaxMixed \in Nat

Nodes == 1 .. NumNodes

VARIABLES
  dep, ctrl,              \* the PDG: register and memory edges, control edges
  includeControl,         \* the function's second parameter
  index, low, counter,    \* Index, LowLink (-1: not in the map yet), Counter
  stack, onStack,         \* Stack, OnStack
  calls,                  \* active calls of StrongConnect, outermost first
  sccs, sccOf, isCyclic   \* SCCResult: SCCs, InstToSCC (-1: absent), IsCyclic

inputVars == <<dep, ctrl, includeControl>>
searchVars == <<index, low, counter>>
stackVars == <<stack, onStack>>
resultVars == <<sccs, sccOf, isCyclic>>
vars == <<inputVars, searchVars, stackVars, calls, resultVars>>

(* A memory access may depend on itself, but nothing controls itself.  A   *)
(* second edge between two nodes changes nothing, so each pair has one     *)
(* kind of edge at most.                                                   *)
Distinct == {p \in Nodes \X Nodes : p[1] # p[2]}
Few(pairs) == UNION {kSubset(k, pairs) : k \in 0 .. MaxMixed}
PDGs ==
  {<<d, {}>> : d \in SUBSET Distinct}
  \cup {G \in Few(Nodes \X Nodes) \X Few(Distinct) : G[1] \cap G[2] = {}}

(* The edges the search follows. *)
Edges == IF includeControl THEN dep \cup ctrl ELSE dep
Succs(v) == {w \in Nodes : <<v, w>> \in Edges}

Visited(v) == index[v] # -1
Smaller(a, b) == IF a <= b THEN a ELSE b
Top == calls[Len(calls)]
Callers == SubSeq(calls, 1, Len(calls) - 1)

Init ==
  /\ \E G \in PDGs : dep = G[1] /\ ctrl = G[2]
  /\ includeControl \in {FALSE, ctrl # {}}
  /\ index = [v \in Nodes |-> -1] /\ low = [v \in Nodes |-> -1] /\ counter = 0
  /\ stack = <<>> /\ onStack = {} /\ calls = <<>>
  /\ sccs = <<>> /\ sccOf = [v \in Nodes |-> -1] /\ isCyclic = <<>>

(* The first lines of StrongConnect. *)
Number(v) ==
  /\ index' = [index EXCEPT ![v] = counter]
  /\ low' = [low EXCEPT ![v] = counter]
  /\ counter' = counter + 1
  /\ stack' = Append(stack, v)
  /\ onStack' = onStack \cup {v}

Frame(v) == [node |-> v, todo |-> Succs(v)]

(* The outer loop calls StrongConnect for the first node not visited yet. *)
StartRoot(v) ==
  /\ calls = <<>>
  /\ ~Visited(v) /\ \A u \in 1 .. v - 1 : Visited(u)
  /\ Number(v)
  /\ calls' = <<Frame(v)>>
  /\ UNCHANGED <<inputVars, resultVars>>

(* An edge to a new node: a nested call. *)
Descend(w) ==
  /\ calls # <<>> /\ w \in Top.todo /\ ~Visited(w)
  /\ Number(w)
  /\ calls' = Append([calls EXCEPT ![Len(calls)].todo = @ \ {w}], Frame(w))
  /\ UNCHANGED <<inputVars, resultVars>>

(* Mutant: nodes of finished components count as well. *)
LookAtFinished(w) ==
  /\ calls # <<>> /\ w \in Top.todo /\ Visited(w)
  /\ low' = [low EXCEPT ![Top.node] = Smaller(@, index[w])]
  /\ calls' = [calls EXCEPT ![Len(calls)].todo = @ \ {w}]
  /\ UNCHANGED <<inputVars, index, counter, stackVars, resultVars>>

(* An edge to a node met before, which counts while it is on the stack. *)
LookAt(w) ==
  /\ calls # <<>> /\ w \in Top.todo /\ Visited(w)
  /\ low' = IF w \in onStack
              THEN [low EXCEPT ![Top.node] = Smaller(@, index[w])] ELSE low
  /\ calls' = [calls EXCEPT ![Len(calls)].todo = @ \ {w}]
  /\ UNCHANGED <<inputVars, index, counter, stackVars, resultVars>>

(* Mutant: the caller does not take over the callee's low link. *)
ReturnWithoutLink ==
  /\ calls' = Callers
  /\ UNCHANGED low

(* The call returns, and its caller, if any, takes over the low link. *)
Return ==
  /\ calls' = Callers
  /\ low' = IF Callers = <<>> THEN low
            ELSE [low EXCEPT ![calls[Len(calls) - 1].node] = Smaller(@, low[Top.node])]

ReturnInner ==
  /\ calls # <<>> /\ Top.todo = {} /\ low[Top.node] # index[Top.node]
  /\ Return
  /\ UNCHANGED <<inputVars, index, counter, stackVars, resultVars>>

(* The nodes above v on the stack, and v. *)
Component(v) == {stack[i] : i \in (CHOOSE k \in 1 .. Len(stack) : stack[k] = v) .. Len(stack)}

HasCycle(C) == Cardinality(C) > 1 \/ \E v \in C : v \in Succs(v)

(* The call's node is the root of a component: pop the component, give it  *)
(* the next number, return.                                                *)
ReturnRoot ==
  /\ calls # <<>> /\ Top.todo = {} /\ low[Top.node] = index[Top.node]
  /\ LET C == Component(Top.node) IN
       /\ stack' = SubSeq(stack, 1, Len(stack) - Cardinality(C))
       /\ onStack' = onStack \ C
       /\ sccs' = Append(sccs, C)
       /\ sccOf' = [v \in Nodes |-> IF v \in C THEN Len(sccs) ELSE sccOf[v]]
       /\ isCyclic' = Append(isCyclic, HasCycle(C))
  /\ Return
  /\ UNCHANGED <<inputVars, index, counter>>

Finished ==
  /\ calls = <<>> /\ \A v \in Nodes : Visited(v)
  /\ UNCHANGED vars

Next ==
  \/ \E v \in Nodes : StartRoot(v) \/ Descend(v) \/ LookAt(v)
  \/ ReturnInner
  \/ ReturnRoot
  \/ Finished

Spec == Init /\ [][Next]_vars

---------------------------------------------------------------------------
(* Properties. *)

Done == calls = <<>> /\ \A v \in Nodes : Visited(v)

(* Type invariant, checked as a part of the next one.                      *)
TypeOK ==
  /\ dep \subseteq Nodes \X Nodes /\ ctrl \subseteq Nodes \X Nodes
  /\ includeControl \in BOOLEAN
  /\ index \in [Nodes -> -1 .. NumNodes - 1] /\ low \in [Nodes -> -1 .. NumNodes - 1]
  /\ counter \in 0 .. NumNodes
  /\ stack \in Seq(Nodes) /\ onStack \subseteq Nodes
  /\ calls \in Seq([node : Nodes, todo : SUBSET Nodes])
  /\ sccs \in Seq(SUBSET Nodes) /\ sccOf \in [Nodes -> -1 .. NumNodes - 1]
  /\ isCyclic \in Seq(BOOLEAN)

(* A node reaches those that are in every set that has the node and that   *)
(* no edge leaves.                                                         *)
Closed(S) == \A e \in Edges : e[1] \in S => e[2] \in S
Reaches(u, v) == \A S \in SUBSET Nodes : u \in S /\ Closed(S) => v \in S

(* Every call's node is on the stack, the stack is exactly the visited     *)
(* nodes without a component, in the order of their numbers, and a low     *)
(* link is never below the number of some node on the stack that its node  *)
(* reaches: the recursion never links into a finished component.           *)
LowLinksStayOnStack ==
  /\ TypeOK
  /\ \A i \in 1 .. Len(calls) : calls[i].node \in onStack
  /\ onStack = {v \in Nodes : Visited(v) /\ sccOf[v] = -1}
  /\ \A v \in onStack : \E w \in onStack : low[v] = index[w] /\ Reaches(v, w)

(* The numbering the stages rely on: when a component gets its number,     *)
(* everything its nodes depend into has a number that is not larger.       *)
SinksFirst ==
  \A e \in Edges :
    sccOf[e[1]] # -1 => sccOf[e[2]] # -1 /\ sccOf[e[2]] <= sccOf[e[1]]

(* The result is exactly the partition by mutual reachability, every node  *)
(* has a component, and a component is flagged cyclic when some node of it *)
(* can reach itself over at least one edge, through others or directly.    *)
SCCsAreExact ==
  Done =>
    /\ \A u, v \in Nodes : sccOf[u] = sccOf[v] <=> Reaches(u, v) /\ Reaches(v, u)
    /\ \A i \in 1 .. Len(sccs) : sccs[i] = {v \in Nodes : sccOf[v] = i - 1}
    /\ \A v \in Nodes :
         /\ sccOf[v] # -1
         /\ isCyclic[sccOf[v] + 1] <=> \E w \in Succs(v) : Reaches(w, v)
=============================================================================
