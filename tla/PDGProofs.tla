----------------------------- MODULE PDGProofs -----------------------------
(***************************************************************************)
(* TLAPS proofs about pass/PDG.cpp: that computeSCCs finds the strongly    *)
(* connected components and numbers them sinks first, for every dependence *)
(* graph and every order of its edges; and, at the end, that               *)
(* addControlEdges adds the right edges for every loop.                    *)
(***************************************************************************)
EXTENDS Tarjan, ControlDeps, FiniteSetTheorems, SequenceTheorems, Arithmetic

---------------------------------------------------------------------------
(* The inductive invariant. *)

Frames == [node : Nodes, todo : SUBSET Nodes]
At(i) == calls[i].node

(* The edge from u to w has been looked at. *)
Pending(u, w) == \E i \in 1 .. Len(calls) : At(i) = u /\ w \in calls[i].todo
Looked(u, w) == w \in Succs(u) /\ Visited(u) /\ ~Pending(u, w)

SearchTypes ==
  /\ dep \subseteq Nodes \X Nodes /\ ctrl \subseteq Nodes \X Nodes
  /\ index \in [Nodes -> Int] /\ low \in [Nodes -> Int] /\ counter \in Nat
  /\ stack \in Seq(Nodes) /\ calls \in Seq(Frames)
  /\ sccs \in Seq(SUBSET Nodes) /\ sccOf \in [Nodes -> Int]

(* Numbers are given out once, and only finished nodes have a component.   *)
NumberInv ==
  /\ \A v \in Nodes : Visited(v) => index[v] \in 0 .. counter - 1
  /\ \A u, v \in Nodes : Visited(u) /\ index[u] = index[v] => u = v
  /\ \A v \in Nodes : sccOf[v] # -1 => Visited(v) /\ sccOf[v] \in 0 .. Len(sccs) - 1

(* The stack lists the visited nodes without a component by number.        *)
StackInv ==
  /\ onStack = {stack[k] : k \in 1 .. Len(stack)}
  /\ onStack = {v \in Nodes : Visited(v) /\ sccOf[v] = -1}
  /\ \A j, k \in 1 .. Len(stack) : j < k => index[stack[j]] < index[stack[k]]

(* So are the nodes of the active calls, with later ones further up.       *)
CallsInv ==
  /\ \A i \in 1 .. Len(calls) : At(i) \in onStack
  /\ \A i, j \in 1 .. Len(calls) : i < j => index[At(i)] < index[At(j)]

LookedInv == \A u, w \in Nodes : Looked(u, w) => Visited(w)

(* An edge that leads from above an active call's node to below it on the  *)
(* stack is known to that call or to a later one, which will pass it on.   *)
LowInv ==
  \A i \in 1 .. Len(calls) : \A u, w \in onStack :
    Looked(u, w) /\ index[w] < index[At(i)] /\ index[At(i)] <= index[u] =>
      \E j \in i .. Len(calls) : index[At(j)] <= index[u] /\ low[At(j)] <= index[w]

IInv == SearchTypes /\ NumberInv /\ StackInv /\ CallsInv /\ LookedInv /\ LowInv /\ SinksFirst

LEMMA EdgeTypes == IInv => Edges \subseteq Nodes \X Nodes
  BY DEF IInv, SearchTypes, Edges

LEMMA InitCorrect == Init => IInv
<1> SUFFICES ASSUME Init PROVE IInv
  OBVIOUS
<1>1. /\ index = [v \in Nodes |-> -1] /\ low = [v \in Nodes |-> -1] /\ counter = 0
      /\ stack = <<>> /\ onStack = {} /\ calls = <<>>
      /\ sccs = <<>> /\ sccOf = [v \in Nodes |-> -1]
  BY DEF Init
<1>2. \A v \in Nodes : ~Visited(v) /\ sccOf[v] = -1
  BY <1>1 DEF Visited
<1>a. dep \subseteq Nodes \X Nodes /\ ctrl \subseteq Nodes \X Nodes
  <2>1. \A S : Few(S) \subseteq SUBSET S
    BY DEF Few, kSubset
  <2>2. Distinct \subseteq Nodes \X Nodes
    BY DEF Distinct
  <2> QED  BY <2>1, <2>2 DEF Init, PDGs
<1>3. SearchTypes
  BY <1>1, <1>a DEF SearchTypes
<1>4. NumberInv /\ LookedInv
  BY <1>2 DEF NumberInv, LookedInv, Looked
<1>5. StackInv /\ CallsInv /\ LowInv
  BY <1>1, <1>2 DEF StackInv, CallsInv, LowInv
<1>6. \A e \in Edges : e[1] \in Nodes /\ sccOf[e[1]] = -1
  BY <1>2, <1>a DEF Edges
<1>7. SinksFirst
  BY <1>6 DEF SinksFirst
<1> QED  BY <1>3, <1>4, <1>5, <1>7 DEF IInv

---------------------------------------------------------------------------
(* The steps keep the invariant. *)

(* A new call: what changes.                                               *)
LEMMA Numbering ==
  ASSUME IInv, NEW v \in Nodes, ~Visited(v), Number(v)
  PROVE  /\ \A u \in Nodes : /\ index'[u] = (IF u = v THEN counter ELSE index[u])
                             /\ low'[u] = (IF u = v THEN counter ELSE low[u])
                             /\ Visited(u)' <=> Visited(u) \/ u = v
                             /\ Visited(u) => index[u] < counter /\ index[u] \in Nat
         /\ onStack' = onStack \cup {v} /\ v \notin onStack /\ onStack \subseteq Nodes
         /\ \A u \in onStack : Visited(u) /\ u # v /\ index'[u] = index[u] /\ index[u] < counter
<1>1. /\ index \in [Nodes -> Int] /\ low \in [Nodes -> Int] /\ counter \in Nat
      /\ index' = [index EXCEPT ![v] = counter] /\ low' = [low EXCEPT ![v] = counter]
      /\ onStack' = onStack \cup {v}
  BY DEF Number, IInv, SearchTypes
<1>2. \A u \in Nodes : /\ index'[u] = (IF u = v THEN counter ELSE index[u])
                       /\ low'[u] = (IF u = v THEN counter ELSE low[u])
  BY <1>1
<1>3. \A u \in Nodes : Visited(u)' <=> Visited(u) \/ u = v
  BY <1>1, <1>2 DEF Visited
<1>4. \A u \in Nodes : Visited(u) => index[u] < counter /\ index[u] \in Nat
  BY <1>1 DEF IInv, NumberInv
<1>5. /\ v \notin onStack /\ onStack \subseteq Nodes
      /\ \A u \in onStack : Visited(u) /\ u # v /\ index'[u] = index[u] /\ index[u] < counter
  BY <1>2, <1>4 DEF IInv, StackInv
<1> QED  BY <1>1, <1>2, <1>3, <1>4, <1>5

(* A call for a node not visited before. *)
LEMMA NewCall ==
  ASSUME IInv, NEW v \in Nodes, ~Visited(v), Number(v),
         UNCHANGED <<inputVars, resultVars>>,
         calls' \in Seq(Frames), Len(calls') = Len(calls) + 1,
         calls'[Len(calls) + 1] = Frame(v),
         \A i \in 1 .. Len(calls) : /\ calls'[i].node = At(i)
                                    /\ calls[i].todo \ {v} \subseteq calls'[i].todo
  PROVE  IInv'
<1> DEFINE k == Len(calls)
<1>1. /\ index \in [Nodes -> Int] /\ low \in [Nodes -> Int] /\ counter \in Nat
      /\ stack \in Seq(Nodes) /\ calls \in Seq(Frames) /\ k \in Nat
      /\ Len(stack) \in Nat
  BY DEF IInv, SearchTypes
<1>2. /\ index' = [index EXCEPT ![v] = counter] /\ low' = [low EXCEPT ![v] = counter]
      /\ counter' = counter + 1 /\ stack' = Append(stack, v) /\ onStack' = onStack \cup {v}
      /\ UNCHANGED <<dep, ctrl, includeControl, sccs, sccOf, isCyclic>>
  BY DEF Number, inputVars, resultVars
<1>3. /\ \A u \in Nodes : /\ index'[u] = (IF u = v THEN counter ELSE index[u])
                          /\ low'[u] = (IF u = v THEN counter ELSE low[u])
                          /\ Visited(u)' <=> Visited(u) \/ u = v
                          /\ Visited(u) => index[u] < counter /\ index[u] \in Nat
      /\ \A u : Succs(u)' = Succs(u)
  <2>1. \A u : Succs(u)' = Succs(u)
    BY <1>2 DEF Succs, Edges
  <2> QED  BY <2>1, Numbering
<1>4. /\ v \notin onStack /\ onStack \subseteq Nodes
      /\ \A u \in onStack : Visited(u) /\ u # v /\ index'[u] = index[u] /\ index[u] < counter
  BY Numbering
<1>5. /\ \A i \in 1 .. k + 1 : i \in 1 .. k \/ i = k + 1
      /\ k + 1 \in 1 .. k + 1 /\ \A i \in 1 .. k : i \in 1 .. k + 1 /\ i # k + 1
  BY <1>1
<1>6. /\ calls'[k + 1].node = v /\ calls'[k + 1].todo = Succs(v)
      /\ \A i \in 1 .. k : At(i)' = At(i) /\ At(i) \in onStack
  <2>1. Frame(v).node = v /\ Frame(v).todo = Succs(v)
    BY DEF Frame
  <2>2. \A i \in 1 .. k : At(i) \in onStack
    BY DEF IInv, CallsInv
  <2>3. \A i \in 1 .. k : At(i)' = At(i)
    BY DEF At
  <2> QED  BY <2>1, <2>2, <2>3 DEF At
<1>a. \A i : i = k + 1 => At(i)' = v
  BY <1>6 DEF At
<1>7. \A u \in Nodes, w \in Nodes : Looked(u, w)' => Visited(u) /\ (Looked(u, w) \/ w = v)
  <2> SUFFICES ASSUME NEW u \in Nodes, NEW w \in Nodes, Looked(u, w)'
               PROVE  Visited(u) /\ (Looked(u, w) \/ w = v)
    OBVIOUS
  <2>1. w \in Succs(u) /\ (Visited(u) \/ u = v)
    BY <1>3 DEF Looked
  <2>2. \A i \in 1 .. k + 1 : calls'[i].node = u => w \notin calls'[i].todo
    BY DEF Looked, Pending, At
  <2>3. u # v
    <3> SUFFICES ASSUME u = v PROVE FALSE
      OBVIOUS
    <3>1. calls'[k + 1].node = v
      BY <1>6 DEF At
    <3> QED  BY <1>5, <1>6, <2>1, <2>2, <3>1
  <2>4. ASSUME w # v PROVE ~Pending(u, w)
    <3> SUFFICES ASSUME NEW i \in 1 .. k, At(i) = u, w \in calls[i].todo PROVE FALSE
      BY DEF Pending
    <3>1. calls'[i].node = u /\ w \in calls'[i].todo
      BY <2>4
    <3> QED  BY <1>5, <2>2, <3>1
  <2> QED  BY <2>1, <2>3, <2>4 DEF Looked
<1> HIDE DEF k
<1>8. SearchTypes'
  BY <1>1, <1>2 DEF IInv, SearchTypes
<1>9. NumberInv'
  <2>1. \A u \in Nodes : Visited(u)' => index'[u] \in 0 .. counter' - 1
    BY <1>1, <1>2, <1>3
  <2>2. \A u, w \in Nodes : Visited(u)' /\ index'[u] = index'[w] => u = w
    <3> SUFFICES ASSUME NEW u \in Nodes, NEW w \in Nodes, Visited(u)', index'[u] = index'[w]
                 PROVE  u = w
      OBVIOUS
    <3>1. index[w] # -1 => index[w] < counter
      BY <1>3 DEF Visited
    <3>2. index[w] # counter /\ index[u] # counter
      <4>1. index[u] # -1 => index[u] < counter
        BY <1>3 DEF Visited
      <4> QED  BY <1>1, <3>1, <4>1
    <3>3. CASE u = v
      BY <1>3, <3>2, <3>3
    <3>4. CASE u # v
      BY <1>3, <3>2, <3>4 DEF IInv, NumberInv
    <3> QED  BY <3>3, <3>4
  <2>3. \A u \in Nodes : sccOf'[u] # -1 => Visited(u)' /\ sccOf'[u] \in 0 .. Len(sccs') - 1
    BY <1>2, <1>3 DEF IInv, NumberInv
  <2> QED  BY <2>1, <2>2, <2>3 DEF NumberInv
<1>10. StackInv'
  <2>1. /\ Len(stack') = Len(stack) + 1 /\ stack'[Len(stack) + 1] = v
        /\ \A i \in 1 .. Len(stack) : stack'[i] = stack[i]
    BY <1>1, <1>2, AppendProperties
  <2>2. \A i \in 1 .. Len(stack') : i \in 1 .. Len(stack) \/ i = Len(stack) + 1
    BY <1>1, <2>1
  <2>3. Len(stack) + 1 \in 1 .. Len(stack') /\ \A i \in 1 .. Len(stack) : i \in 1 .. Len(stack')
    BY <1>1, <2>1
  <2>4. onStack' = {stack'[i] : i \in 1 .. Len(stack')}
    BY <1>2, <2>1, <2>2, <2>3 DEF IInv, StackInv
  <2>5. onStack' = {u \in Nodes : Visited(u)' /\ sccOf'[u] = -1}
    BY <1>2, <1>3 DEF IInv, StackInv, NumberInv
  <2>6. \A i, j \in 1 .. Len(stack') : i < j => index'[stack'[i]] < index'[stack'[j]]
    <3> SUFFICES ASSUME NEW i \in 1 .. Len(stack'), NEW j \in 1 .. Len(stack'), i < j
                 PROVE  index'[stack'[i]] < index'[stack'[j]]
      OBVIOUS
    <3>1. i \in 1 .. Len(stack) /\ stack[i] \in onStack
      BY <1>1, <2>1 DEF IInv, StackInv
    <3>2. CASE j \in 1 .. Len(stack)
      <4>1. stack[j] \in onStack
        BY <3>2 DEF IInv, StackInv
      <4> QED  BY <1>4, <2>1, <3>1, <3>2, <4>1 DEF IInv, StackInv
    <3>3. CASE j = Len(stack) + 1
      BY <1>3, <1>4, <2>1, <3>1, <3>3
    <3> QED  BY <2>2, <3>2, <3>3
  <2> QED  BY <2>4, <2>5, <2>6 DEF StackInv
<1>11. CallsInv'
  <2>1. \A i \in 1 .. k + 1 : At(i)' \in onStack'
    BY <1>2, <1>5, <1>6, <1>a
  <2>2. \A i, j \in 1 .. k + 1 : i < j => index'[At(i)'] < index'[At(j)']
    <3> SUFFICES ASSUME NEW i \in 1 .. k + 1, NEW j \in 1 .. k + 1, i < j
                 PROVE  index'[At(i)'] < index'[At(j)']
      OBVIOUS
    <3>1. i \in 1 .. k
      BY <1>1
    <3>2. CASE j \in 1 .. k
      BY <1>4, <1>6, <3>1, <3>2 DEF IInv, CallsInv, k
    <3>3. CASE j = k + 1
      <4>1. At(j)' = v /\ At(i)' = At(i) /\ At(i) \in onStack
        BY <1>6, <1>a, <3>1, <3>3
      <4> QED  BY <1>3, <1>4, <4>1
    <3> QED  BY <1>5, <3>2, <3>3
  <2> QED  BY <2>1, <2>2 DEF CallsInv, k
<1>12. LookedInv'
  BY <1>3, <1>7 DEF IInv, LookedInv
<1>13. LowInv'
  <2> SUFFICES ASSUME NEW i \in 1 .. k + 1, NEW u \in onStack', NEW w \in onStack',
                      Looked(u, w)', index'[w] < index'[At(i)'], index'[At(i)'] <= index'[u]
               PROVE  \E j \in i .. k + 1 : /\ index'[At(j)'] <= index'[u]
                                            /\ low'[At(j)'] <= index'[w]
    BY DEF LowInv, k
  <2>1. u \in Nodes /\ w \in Nodes /\ u \in onStack /\ Visited(u)
    BY <1>2, <1>3, <1>4, <1>7 DEF IInv, StackInv
  <2>2. index'[u] = index[u] /\ index[u] < counter /\ index[u] \in Int
    BY <1>3, <1>4, <2>1
  <2>3. i \in 1 .. k /\ At(i)' = At(i) /\ index'[At(i)] = index[At(i)] /\ index[At(i)] \in Int
    <3>1. i # k + 1
      <4> SUFFICES ASSUME i = k + 1 PROVE FALSE
        OBVIOUS
      <4>1. index'[At(i)'] = counter
        BY <1>3, <1>a
      <4> QED  BY <1>1, <2>2, <4>1
    <3>2. i \in 1 .. k
      BY <1>5, <3>1
    <3> QED  BY <1>1, <1>3, <1>4, <1>6, <3>2
  <2>4. w # v /\ w \in onStack /\ index'[w] = index[w]
    <3>1. w # v
      BY <1>1, <1>3, <2>2, <2>3
    <3> QED  BY <1>2, <1>4, <3>1
  <2>5. Looked(u, w)
    BY <1>7, <2>1, <2>4
  <2>6. PICK j \in i .. k : index[At(j)] <= index[u] /\ low[At(j)] <= index[w]
    BY <2>1, <2>2, <2>3, <2>4, <2>5 DEF IInv, LowInv, k
  <2>7. j \in 1 .. k /\ j \in i .. k + 1
    BY <1>1, <2>3
  <2>8. At(j)' = At(j) /\ index'[At(j)] = index[At(j)] /\ low'[At(j)] = low[At(j)]
    BY <1>3, <1>4, <1>6, <2>7
  <2> QED  BY <2>2, <2>4, <2>6, <2>7, <2>8
<1>14. SinksFirst'
  BY <1>2 DEF IInv, SinksFirst, Edges
<1> QED  BY <1>8, <1>9, <1>10, <1>11, <1>12, <1>13, <1>14 DEF IInv

LEMMA StartRootStep ==
  ASSUME IInv, NEW v \in Nodes, StartRoot(v)
  PROVE  IInv'
<1>1. /\ calls = <<>> /\ ~Visited(v) /\ Number(v) /\ calls' = <<Frame(v)>>
      /\ UNCHANGED <<inputVars, resultVars>>
  BY DEF StartRoot
<1>2. Frame(v) \in Frames
  BY DEF Frame, Frames, Succs
<1>3. /\ calls' \in Seq(Frames) /\ Len(calls') = Len(calls) + 1
      /\ calls'[Len(calls) + 1] = Frame(v) /\ \A i \in 1 .. Len(calls) : FALSE
  BY <1>1, <1>2
<1> QED  BY <1>1, <1>3, NewCall

(* Crossing off an edge of the innermost call. *)
CrossOff(q, w) == [q EXCEPT ![Len(q)].todo = @ \ {w}]

LEMMA FrameChanged ==
  ASSUME NEW q \in Seq(Frames), NEW m \in 1 .. Len(q), NEW g \in Frames,
         NEW c, c = [q EXCEPT ![m] = g]
  PROVE  /\ c \in Seq(Frames) /\ Len(c) = Len(q)
         /\ \A i \in 1 .. Len(q) : c[i] = IF i = m THEN g ELSE q[i]
  BY ExceptSeq

LEMMA EdgesChanged ==
  ASSUME NEW h \in Frames, NEW t
  PROVE  [h EXCEPT !.todo = t] = [node |-> h.node, todo |-> t]
  BY DEF Frames

LEMMA EdgeDone ==
  ASSUME NEW q \in Seq(Frames), q # <<>>, NEW w
  PROVE  /\ CrossOff(q, w) \in Seq(Frames) /\ Len(CrossOff(q, w)) = Len(q)
         /\ \A i \in 1 .. Len(q) :
              /\ CrossOff(q, w)[i].node = q[i].node
              /\ CrossOff(q, w)[i].todo = IF i = Len(q) THEN q[i].todo \ {w} ELSE q[i].todo
<1> DEFINE c == CrossOff(q, w)
<1>1. PICK m : m = Len(q)
  OBVIOUS
<1>2. m \in 1 .. Len(q) /\ q[m] \in Frames
  BY <1>1
<1>3. PICK g : g = [node |-> q[m].node, todo |-> q[m].todo \ {w}]
  OBVIOUS
<1>4. g \in Frames /\ g.node = q[m].node /\ g.todo = q[m].todo \ {w}
  BY <1>2, <1>3 DEF Frames
<1>5. g = [q[m] EXCEPT !.todo = @ \ {w}]
  BY <1>2, <1>3, EdgesChanged
<1>6. c = [q EXCEPT ![m] = g]
  BY <1>1, <1>5 DEF CrossOff
<1> HIDE DEF c
<1>7. /\ c \in Seq(Frames) /\ Len(c) = Len(q)
      /\ \A i \in 1 .. Len(q) : c[i] = IF i = m THEN g ELSE q[i]
  BY <1>2, <1>4, <1>6, FrameChanged
<1>8. \A i \in 1 .. Len(q) :
        /\ c[i].node = q[i].node
        /\ c[i].todo = IF i = m THEN q[i].todo \ {w} ELSE q[i].todo
  BY <1>4, <1>7
<1> QED  BY <1>1, <1>7, <1>8 DEF c

LEMMA DescendStep ==
  ASSUME IInv, NEW v \in Nodes, Descend(v)
  PROVE  IInv'
<1> DEFINE c == CrossOff(calls, v)
<1>1. /\ calls # <<>> /\ calls \in Seq(Frames) /\ ~Visited(v) /\ Number(v)
      /\ calls' = Append(c, Frame(v)) /\ UNCHANGED <<inputVars, resultVars>>
  BY DEF Descend, CrossOff, IInv, SearchTypes
<1>2. Frame(v) \in Frames
  BY DEF Frame, Frames, Succs
<1>3. /\ c \in Seq(Frames) /\ Len(c) = Len(calls)
      /\ \A i \in 1 .. Len(calls) :
           /\ c[i].node = calls[i].node
           /\ c[i].todo = IF i = Len(calls) THEN calls[i].todo \ {v} ELSE calls[i].todo
  BY <1>1, EdgeDone
<1> HIDE DEF c
<1>4. /\ calls' \in Seq(Frames) /\ Len(calls') = Len(calls) + 1
      /\ calls'[Len(calls) + 1] = Frame(v)
      /\ \A i \in 1 .. Len(calls) : calls'[i] = c[i]
  BY <1>1, <1>2, <1>3, AppendProperties
<1>5. \A i \in 1 .. Len(calls) : /\ calls'[i].node = At(i)
                                 /\ calls[i].todo \ {v} \subseteq calls'[i].todo
  BY <1>3, <1>4 DEF At
<1> QED  BY <1>1, <1>4, <1>5, NewCall

LEMMA SmallerIsSmaller ==
  ASSUME NEW a \in Int, NEW b \in Int
  PROVE  Smaller(a, b) \in Int /\ Smaller(a, b) <= a /\ Smaller(a, b) <= b
  BY DEF Smaller

LEMMA LookAtStep ==
  ASSUME IInv, NEW x \in Nodes, LookAt(x)
  PROVE  IInv'
<1> DEFINE k == Len(calls)
           v == At(k)
<1>1. /\ index \in [Nodes -> Int] /\ low \in [Nodes -> Int]
      /\ calls \in Seq(Frames) /\ calls # <<>> /\ k \in Nat /\ k \in 1 .. k
  BY DEF LookAt, IInv, SearchTypes
<1>2. /\ calls' = CrossOff(calls, x) /\ Visited(x)
      /\ low' = IF x \in onStack THEN [low EXCEPT ![v] = Smaller(@, index[x])] ELSE low
      /\ UNCHANGED <<dep, ctrl, includeControl, index, counter, stack, onStack>>
      /\ UNCHANGED <<sccs, sccOf, isCyclic>>
  BY DEF LookAt, CrossOff, Top, At, inputVars, stackVars, resultVars
<1>3. /\ calls' \in Seq(Frames) /\ Len(calls') = k
      /\ \A i \in 1 .. k :
           /\ calls'[i].node = calls[i].node
           /\ calls'[i].todo = IF i = k THEN calls[i].todo \ {x} ELSE calls[i].todo
  BY <1>1, <1>2, EdgeDone
<1>4. v \in onStack /\ v \in Nodes /\ onStack \subseteq Nodes
  BY <1>1 DEF IInv, CallsInv, StackInv
<1>5. /\ low' \in [Nodes -> Int]
      /\ \A u \in Nodes : low'[u] <= low[u]
      /\ x \in onStack => low'[v] <= index[x]
  <2>1. low[v] \in Int /\ index[x] \in Int
    BY <1>1, <1>4
  <2>2. /\ Smaller(low[v], index[x]) \in Int
        /\ Smaller(low[v], index[x]) <= low[v] /\ Smaller(low[v], index[x]) <= index[x]
    BY <2>1, SmallerIsSmaller
  <2> HIDE DEF v
  <2> QED  BY <1>1, <1>2, <1>4, <2>2
<1> HIDE DEF v, k
<1>6. \A i \in 1 .. k : At(i)' = At(i) /\ At(i) \in Nodes
  BY <1>3, <1>4 DEF At, k, IInv, CallsInv
<1>7. (\A u : Visited(u)' = Visited(u)) /\ (\A u : Succs(u)' = Succs(u)) /\ Edges' = Edges
  BY <1>2 DEF Visited, Succs, Edges
<1>8. \A u, w : Looked(u, w)' => Looked(u, w) \/ (u = v /\ w = x)
  <2> SUFFICES ASSUME NEW u, NEW w, Looked(u, w)', Pending(u, w)
               PROVE  u = v /\ w = x
    BY <1>7 DEF Looked
  <2>1. PICK i \in 1 .. k : At(i) = u /\ w \in calls[i].todo
    BY DEF Pending, k
  <2>2. w \notin calls'[i].todo
    BY <1>3, <1>6, <2>1 DEF Looked, Pending, At, k
  <2> QED  BY <1>3, <2>1, <2>2 DEF v
<1>9. SearchTypes' /\ NumberInv' /\ StackInv' /\ SinksFirst'
  <2>1. SearchTypes'
    BY <1>2, <1>3, <1>5 DEF IInv, SearchTypes
  <2>2. NumberInv'
    BY <1>2, <1>7 DEF IInv, NumberInv
  <2>3. StackInv' /\ SinksFirst'
    BY <1>2, <1>7 DEF IInv, StackInv, SinksFirst
  <2> QED  BY <2>1, <2>2, <2>3
<1>10. CallsInv' /\ LookedInv'
  <2>1. CallsInv'
    BY <1>2, <1>3, <1>6 DEF IInv, CallsInv, k
  <2>2. LookedInv'
    BY <1>2, <1>7, <1>8 DEF IInv, LookedInv
  <2> QED  BY <2>1, <2>2
<1>11. LowInv'
  <2> SUFFICES ASSUME NEW i \in 1 .. k, NEW u \in onStack, NEW w \in onStack,
                      Looked(u, w)', index[w] < index[At(i)], index[At(i)] <= index[u]
               PROVE  \E j \in i .. k : index[At(j)] <= index[u] /\ low'[At(j)] <= index[w]
    <3>1. \A j : j \in 1 .. k => At(j)' = At(j)
      BY <1>6
    <3>2. \A m \in 1 .. k : \A j \in m .. k : j \in 1 .. k
      BY <1>1
    <3> QED  BY <1>2, <1>3, <3>1, <3>2 DEF LowInv, k
  <2>1. CASE Looked(u, w)
    <3>1. PICK j \in i .. k : index[At(j)] <= index[u] /\ low[At(j)] <= index[w]
      BY <2>1 DEF IInv, LowInv, k
    <3>2. At(j) \in Nodes
      <4>1. j \in 1 .. k
        BY <1>1
      <4> QED  BY <1>6, <4>1
    <3>3. low'[At(j)] <= index[w]
      <4>1. low'[At(j)] \in Int /\ low[At(j)] \in Int /\ index[w] \in Int
        BY <1>1, <1>4, <1>5, <3>2
      <4> QED  BY <1>5, <3>1, <3>2, <4>1
    <3> QED  BY <3>1, <3>3
  <2>2. CASE u = v /\ w = x
    <3>1. k \in i .. k /\ index[At(k)] <= index[u] /\ low'[At(k)] <= index[w]
      BY <1>1, <1>4, <1>5, <2>2 DEF v
    <3> QED  BY <3>1
  <2> QED  BY <1>8, <2>1, <2>2
<1> QED  BY <1>9, <1>10, <1>11 DEF IInv

(* The innermost call returns. *)
LEMMA Returns ==
  ASSUME IInv, calls # <<>>, Top.todo = {}, Return,
         UNCHANGED <<inputVars, index>>, onStack' \subseteq onStack
  PROVE  /\ calls' \in Seq(Frames) /\ Len(calls') = Len(calls) - 1
         /\ \A i \in 1 .. Len(calls) - 1 : calls'[i] = calls[i]
         /\ low' \in [Nodes -> Int]
         /\ \A u \in Nodes, w \in Nodes : Looked(u, w)' => Looked(u, w)
         /\ LowInv'
<1> DEFINE k == Len(calls)
<1>1. /\ index \in [Nodes -> Int] /\ low \in [Nodes -> Int]
      /\ calls \in Seq(Frames) /\ k \in Nat /\ k \in 1 .. k /\ k - 1 \in Nat
      /\ UNCHANGED <<dep, ctrl, includeControl, index>>
  BY DEF IInv, SearchTypes, inputVars
<1>2. /\ Callers \in Seq(Frames) /\ Len(Callers) = k - 1
      /\ \A i \in 1 .. k - 1 : Callers[i] = calls[i]
  <2>1. \A i \in 1 .. k - 1 : calls[i] \in Frames
    BY <1>1
  <2>2. /\ SubSeq(calls, 1, k - 1) \in Seq(Frames)
        /\ Len(SubSeq(calls, 1, k - 1)) = IF 1 <= k - 1 THEN k - 1 - 1 + 1 ELSE 0
        /\ \A i \in 1 .. k - 1 - 1 + 1 : SubSeq(calls, 1, k - 1)[i] = calls[1 + i - 1]
    BY <1>1, <2>1, SubSeqProperties
  <2> HIDE DEF k
  <2>3. Len(SubSeq(calls, 1, k - 1)) = k - 1
    BY <1>1, <2>2
  <2>4. \A i \in 1 .. k - 1 : SubSeq(calls, 1, k - 1)[i] = calls[i]
    BY <1>1, <2>2
  <2> QED  BY <2>2, <2>3, <2>4 DEF Callers, k
<1>3. calls' = Callers
  BY DEF Return
<1>4. onStack \subseteq Nodes /\ \A i \in 1 .. k : At(i) \in onStack
  BY DEF IInv, StackInv, CallsInv
<1> HIDE DEF k
<1>5. \A i \in 1 .. k - 1 : i \in 1 .. k /\ At(i)' = At(i)
  BY <1>1, <1>2, <1>3 DEF At
<1>6. /\ low' \in [Nodes -> Int] /\ \A u \in Nodes : low'[u] <= low[u]
      /\ k > 1 => low'[At(k - 1)] <= low[At(k)]
  <2>1. CASE Callers = <<>>
    BY <1>1, <1>2, <2>1 DEF Return
  <2>2. CASE Callers # <<>>
    <3>1. At(k - 1) \in Nodes /\ At(k) \in Nodes
      <4>1. k - 1 \in 1 .. k
        BY <1>1, <1>2, <2>2
      <4> QED  BY <1>1, <1>4, <4>1
    <3>2. low' = [low EXCEPT ![At(k - 1)] = Smaller(@, low[At(k)])]
      BY <2>2 DEF Return, Top, At, k
    <3>3. low[At(k - 1)] \in Int /\ low[At(k)] \in Int
      BY <1>1, <3>1
    <3>4. /\ Smaller(low[At(k - 1)], low[At(k)]) \in Int
          /\ Smaller(low[At(k - 1)], low[At(k)]) <= low[At(k - 1)]
          /\ Smaller(low[At(k - 1)], low[At(k)]) <= low[At(k)]
      BY <3>3, SmallerIsSmaller
    <3> QED  BY <1>1, <3>1, <3>2, <3>4
  <2> QED  BY <2>1, <2>2
<1>7. \A u \in Nodes, w \in Nodes : Looked(u, w)' => Looked(u, w)
  <2> SUFFICES ASSUME NEW u \in Nodes, NEW w \in Nodes, Looked(u, w)', Pending(u, w)
               PROVE  FALSE
    BY <1>1 DEF Looked, Visited, Succs, Edges
  <2>1. PICK i \in 1 .. k : At(i) = u /\ w \in calls[i].todo
    BY DEF Pending, k
  <2>2. i \in 1 .. k - 1
    BY <1>1, <2>1 DEF Top, k
  <2>3. calls'[i] = calls[i] /\ Len(calls') = k - 1
    BY <1>2, <1>3, <2>2
  <2> QED  BY <2>1, <2>2, <2>3 DEF Looked, Pending, At
<1>8. ASSUME NEW i \in 1 .. k - 1, NEW u \in onStack, NEW w \in onStack,
             Looked(u, w)', index[w] < index[At(i)], index[At(i)] <= index[u]
      PROVE  \E j \in i .. k - 1 : index[At(j)] <= index[u] /\ low'[At(j)] <= index[w]
  <2>1. PICK j \in i .. k : index[At(j)] <= index[u] /\ low[At(j)] <= index[w]
    <3>1. i \in 1 .. k /\ Looked(u, w)
      BY <1>4, <1>5, <1>7, <1>8
    <3> QED  BY <1>8, <3>1 DEF IInv, LowInv, k
  <2>a. j \in 1 .. k /\ u \in Nodes /\ w \in Nodes
    BY <1>1, <1>4
  <2>2. CASE j \in i .. k - 1
    <3>1. low'[At(j)] <= index[w]
      <4>1. low'[At(j)] \in Int /\ low[At(j)] \in Int /\ index[w] \in Int
            /\ low'[At(j)] <= low[At(j)]
        BY <1>1, <1>4, <1>6, <2>a
      <4> QED  BY <2>1, <4>1
    <3> QED  BY <2>1, <2>2, <3>1
  <2>3. CASE j = k
    <3>1. k > 1 /\ k - 1 \in i .. k - 1 /\ k - 1 \in 1 .. k
      BY <1>1
    <3>2. low'[At(k - 1)] <= index[w]
      <4>1. low'[At(k - 1)] \in Int /\ low[At(k)] \in Int /\ index[w] \in Int
            /\ low'[At(k - 1)] <= low[At(k)]
        BY <1>1, <1>4, <1>6, <2>a, <3>1
      <4> QED  BY <2>1, <2>3, <4>1
    <3>3. index[At(k - 1)] <= index[u]
      <4>1. index[At(k - 1)] < index[At(k)]
        <5>1. \A i1, i2 \in 1 .. k : i1 < i2 => index[At(i1)] < index[At(i2)]
          BY DEF IInv, CallsInv, k
        <5>2. k - 1 < k
          BY <1>1
        <5> QED  BY <1>1, <3>1, <5>1, <5>2
      <4>2. index[At(k - 1)] \in Int /\ index[At(k)] \in Int /\ index[u] \in Int
        BY <1>1, <1>4, <2>a, <3>1
      <4> QED  BY <2>1, <2>3, <4>1, <4>2
    <3> QED  BY <3>1, <3>2, <3>3
  <2> QED  BY <1>1, <2>1, <2>2, <2>3
<1>9. LowInv'
  <2>1. Len(calls') = k - 1
    BY <1>2, <1>3
  <2> SUFFICES ASSUME NEW i \in 1 .. k - 1, NEW u \in onStack', NEW w \in onStack',
                      Looked(u, w)', index'[w] < index'[At(i)'], index'[At(i)'] <= index'[u]
               PROVE  \E j \in i .. k - 1 : index'[At(j)'] <= index'[u] /\ low'[At(j)'] <= index'[w]
    BY <2>1 DEF LowInv
  <2>2. u \in onStack /\ w \in onStack /\ At(i)' = At(i) /\ index' = index
    BY <1>1, <1>5
  <2>3. PICK j \in i .. k - 1 : index[At(j)] <= index[u] /\ low'[At(j)] <= index[w]
    BY <1>8, <2>2
  <2>4. j \in 1 .. k - 1
    BY <1>1
  <2>5. At(j)' = At(j)
    BY <1>5, <2>4
  <2> QED  BY <2>2, <2>3, <2>5
<1> QED  BY <1>2, <1>3, <1>6, <1>7, <1>9 DEF k

LEMMA ReturnInnerStep == IInv /\ ReturnInner => IInv'
<1> SUFFICES ASSUME IInv, ReturnInner PROVE IInv'
  OBVIOUS
<1>1. /\ calls # <<>> /\ Top.todo = {} /\ Return
      /\ UNCHANGED <<inputVars, index, counter, stack, onStack, sccs, sccOf, isCyclic>>
  BY DEF ReturnInner, stackVars, resultVars
<1>2. /\ calls' \in Seq(Frames) /\ Len(calls') = Len(calls) - 1
      /\ \A i \in 1 .. Len(calls) - 1 : calls'[i] = calls[i]
      /\ low' \in [Nodes -> Int]
      /\ \A u \in Nodes, w \in Nodes : Looked(u, w)' => Looked(u, w)
      /\ LowInv'
  BY <1>1, Returns
<1>3. Edges' = Edges /\ \A u : Visited(u)' = Visited(u)
  BY <1>1 DEF inputVars, Edges, Visited
<1>4. SearchTypes' /\ NumberInv' /\ StackInv' /\ SinksFirst'
  <2>1. SearchTypes'
    BY <1>1, <1>2 DEF IInv, SearchTypes, inputVars
  <2>2. NumberInv'
    BY <1>1, <1>3 DEF IInv, NumberInv
  <2>3. StackInv' /\ SinksFirst'
    BY <1>1, <1>3 DEF IInv, StackInv, SinksFirst
  <2> QED  BY <2>1, <2>2, <2>3
<1>5. LookedInv'
  BY <1>2, <1>3 DEF IInv, LookedInv
<1>6. CallsInv'
  <2>1. Len(calls) \in Nat
    BY DEF IInv, SearchTypes
  <2>2. \A i \in 1 .. Len(calls') : i \in 1 .. Len(calls) /\ At(i)' = At(i)
    BY <1>2, <2>1 DEF At
  <2> QED  BY <1>1, <2>2 DEF IInv, CallsInv
<1> QED  BY <1>2, <1>4, <1>5, <1>6 DEF IInv

(* What is popped with a node is the part of the stack from it on. *)
LEMMA PoppedPart ==
  ASSUME IInv, NEW v \in onStack
  PROVE  /\ \A u : u \in Component(v) <=> u \in onStack /\ index[v] <= index[u]
         /\ LET rest == SubSeq(stack, 1, Len(stack) - Cardinality(Component(v))) IN
              /\ rest \in Seq(Nodes) /\ Len(rest) <= Len(stack)
              /\ \A i \in 1 .. Len(rest) : rest[i] = stack[i]
              /\ onStack \ Component(v) = {rest[i] : i \in 1 .. Len(rest)}
<1> DEFINE k == Len(stack)
           m == CHOOSE i \in 1 .. k : stack[i] = v
           C == Component(v)
<1>1. /\ stack \in Seq(Nodes) /\ k \in Nat /\ index \in [Nodes -> Int]
      /\ onStack = {stack[i] : i \in 1 .. k} /\ onStack \subseteq Nodes
      /\ \A i, j \in 1 .. k : i < j => index[stack[i]] < index[stack[j]]
  BY DEF IInv, SearchTypes, StackInv
<1>2. m \in 1 .. k /\ stack[m] = v
  <2>1. \E i \in 1 .. k : stack[i] = v
    BY <1>1
  <2> QED  BY <2>1
<1>3. C = {stack[i] : i \in m .. k}
  BY DEF Component
<1> HIDE DEF C, m, k
<1>4. \A i \in 1 .. k : stack[i] \in onStack /\ index[stack[i]] \in Int
  BY <1>1
<1>5. \A i \in 1 .. k : index[v] <= index[stack[i]] <=> i >= m
  <2> SUFFICES ASSUME NEW i \in 1 .. k
               PROVE  index[v] <= index[stack[i]] <=> i >= m
    OBVIOUS
  <2>1. CASE i < m
    <3>1. index[stack[i]] < index[v]
      BY <1>1, <1>2, <2>1
    <3> QED  BY <1>1, <1>2, <1>4, <2>1, <3>1
  <2>2. CASE i = m
    BY <1>2, <1>4, <2>2
  <2>3. CASE i > m
    <3>1. index[v] < index[stack[i]]
      BY <1>1, <1>2, <2>3
    <3> QED  BY <1>2, <1>4, <2>3, <3>1
  <2> QED  BY <1>1, <1>2, <2>1, <2>2, <2>3
<1>6. ASSUME NEW u PROVE u \in C <=> u \in onStack /\ index[v] <= index[u]
  <2>1. \A i \in m .. k : i \in 1 .. k /\ i >= m
    BY <1>1, <1>2
  <2>2. \A i \in 1 .. k : i >= m => i \in m .. k
    BY <1>1, <1>2
  <2> QED  BY <1>1, <1>3, <1>5, <2>1, <2>2
<1>7. Cardinality(C) = k - m + 1
  <2> DEFINE f == [i \in m .. k |-> stack[i]]
  <2>1. \A i \in m .. k : i \in 1 .. k
    BY <1>1, <1>2
  <2>2. f \in Surjection(m .. k, C)
    BY <1>3 DEF Surjection
  <2>3. f \in Injection(m .. k, C)
    <3>1. \A i, j \in m .. k : stack[i] = stack[j] => i = j
      <4> SUFFICES ASSUME NEW i \in m .. k, NEW j \in m .. k, stack[i] = stack[j], i < j
                   PROVE  FALSE
        BY <1>1, <1>2
      <4>1. index[stack[i]] < index[stack[j]]
        BY <1>1, <2>1
      <4> QED  BY <1>4, <2>1, <4>1
    <3> QED  BY <1>3, <3>1 DEF Injection, IsInjective
  <2>4. m \in Int /\ k \in Int /\ ~(m > k)
    BY <1>1, <1>2
  <2>5. /\ IsFiniteSet(m .. k)
        /\ Cardinality(m .. k) = IF m > k THEN 0 ELSE k - m + 1
    BY <2>4, FS_Interval
  <2> HIDE DEF f
  <2>6. Cardinality(C) = Cardinality(m .. k)
    BY <2>2, <2>3, <2>5, FS_Surjection
  <2> QED  BY <2>4, <2>5, <2>6
<1> DEFINE rest == SubSeq(stack, 1, k - Cardinality(C))
<1>8. k - Cardinality(C) = m - 1 /\ m - 1 \in Nat /\ m - 1 <= k
  BY <1>1, <1>2, <1>7
<1>9. /\ rest \in Seq(Nodes) /\ Len(rest) = m - 1
      /\ \A i \in 1 .. m - 1 : rest[i] = stack[i]
  <2>1. \A i \in 1 .. m - 1 : stack[i] \in Nodes
    BY <1>1, <1>8
  <2>2. /\ SubSeq(stack, 1, m - 1) \in Seq(Nodes)
        /\ Len(SubSeq(stack, 1, m - 1)) = IF 1 <= m - 1 THEN m - 1 - 1 + 1 ELSE 0
        /\ \A i \in 1 .. m - 1 - 1 + 1 : SubSeq(stack, 1, m - 1)[i] = stack[1 + i - 1]
    BY <1>8, <2>1, SubSeqProperties
  <2>3. rest = SubSeq(stack, 1, m - 1)
    BY <1>8
  <2> HIDE DEF rest
  <2> QED  BY <1>8, <2>2, <2>3
<1> HIDE DEF rest
<1>10. onStack \ C = {rest[i] : i \in 1 .. Len(rest)}
  <2>a. m \in Int /\ k \in Int /\ m - 1 <= k
    BY <1>1, <1>2, <1>8
  <2>b. \A i \in 1 .. m - 1 : i \in 1 .. k /\ ~(i >= m)
    BY <2>a
  <2>1. \A i \in 1 .. Len(rest) : i \in 1 .. k /\ rest[i] = stack[i] /\ ~(i >= m)
    BY <1>9, <2>b
  <2>2. \A i \in 1 .. k : ~(i >= m) => i \in 1 .. Len(rest)
    BY <1>9, <2>a
  <2>3. \A u : u \in onStack \ C <=> \E i \in 1 .. k : u = stack[i] /\ ~(i >= m)
    BY <1>1, <1>5, <1>6
  <2> QED  BY <2>1, <2>2, <2>3
<1> QED  BY <1>6, <1>8, <1>9, <1>10 DEF C, k, rest

LEMMA ReturnRootStep == IInv /\ ReturnRoot => IInv'
<1> SUFFICES ASSUME IInv, ReturnRoot PROVE IInv'
  OBVIOUS
<1> DEFINE k == Len(calls)
           v == At(k)
           C == Component(v)
<1>1. /\ calls # <<>> /\ calls[k].todo = {} /\ Top.todo = {} /\ low[v] = index[v] /\ Return
      /\ stack' = SubSeq(stack, 1, Len(stack) - Cardinality(C)) /\ onStack' = onStack \ C
      /\ sccs' = Append(sccs, C)
      /\ sccOf' = [u \in Nodes |-> IF u \in C THEN Len(sccs) ELSE sccOf[u]]
      /\ UNCHANGED <<inputVars, dep, ctrl, includeControl, index, counter>>
  BY DEF ReturnRoot, Top, At, inputVars
<1>2. /\ index \in [Nodes -> Int] /\ low \in [Nodes -> Int] /\ counter \in Nat
      /\ calls \in Seq(Frames) /\ k \in Nat /\ k \in 1 .. k
      /\ sccs \in Seq(SUBSET Nodes) /\ Len(sccs) \in Nat /\ sccOf \in [Nodes -> Int]
  BY <1>1 DEF IInv, SearchTypes
<1>3. /\ onStack \subseteq Nodes /\ v \in onStack
      /\ \A u \in onStack : Visited(u) /\ sccOf[u] = -1
  BY <1>2 DEF IInv, StackInv, CallsInv
<1>4. /\ \A u : u \in C <=> u \in onStack /\ index[v] <= index[u]
      /\ stack' \in Seq(Nodes) /\ Len(stack') <= Len(stack)
      /\ \A i \in 1 .. Len(stack') : stack'[i] = stack[i]
      /\ onStack' = {stack'[i] : i \in 1 .. Len(stack')}
  BY <1>1, <1>3, PoppedPart
<1>5. /\ calls' \in Seq(Frames) /\ Len(calls') = k - 1
      /\ \A i \in 1 .. k - 1 : calls'[i] = calls[i]
      /\ low' \in [Nodes -> Int]
      /\ \A u \in Nodes, w \in Nodes : Looked(u, w)' => Looked(u, w)
      /\ LowInv'
  BY <1>1, Returns
<1>6. /\ Len(sccs') = Len(sccs) + 1 /\ sccs' \in Seq(SUBSET Nodes) /\ C \subseteq Nodes
      /\ \A u \in Nodes : sccOf'[u] = IF u \in C THEN Len(sccs) ELSE sccOf[u]
  <2>1. C \subseteq Nodes
    BY <1>3, <1>4
  <2> HIDE DEF C
  <2> QED  BY <1>1, <1>2, <2>1, AppendProperties
<1> HIDE DEF C
<1>7. Edges' = Edges /\ \A u : Visited(u)' = Visited(u)
  BY <1>1 DEF Edges, Visited
<1>8. SearchTypes'
  <2>1. sccOf' \in [Nodes -> Int]
    BY <1>1, <1>2
  <2> QED  BY <1>1, <1>2, <1>4, <1>5, <1>6, <2>1 DEF IInv, SearchTypes
<1>9. NumberInv'
  <2>1. \A u \in Nodes : sccOf'[u] # -1 => Visited(u)' /\ sccOf'[u] \in 0 .. Len(sccs') - 1
    <3> SUFFICES ASSUME NEW u \in Nodes, sccOf'[u] # -1
                 PROVE  Visited(u) /\ sccOf'[u] \in 0 .. Len(sccs)
      BY <1>2, <1>6, <1>7
    <3>1. CASE u \in C
      BY <1>2, <1>3, <1>4, <1>6, <3>1
    <3>2. CASE u \notin C
      <4>1. sccOf[u] \in 0 .. Len(sccs) - 1 /\ Visited(u) /\ sccOf'[u] = sccOf[u]
        BY <1>6, <3>2 DEF IInv, NumberInv
      <4> QED  BY <1>2, <4>1
    <3> QED  BY <3>1, <3>2
  <2> QED  BY <1>1, <1>7, <2>1 DEF IInv, NumberInv
<1>10. StackInv'
  <2>1. onStack' = {u \in Nodes : Visited(u)' /\ sccOf'[u] = -1}
    <3>1. \A u \in Nodes : u \in onStack <=> Visited(u) /\ sccOf[u] = -1
      BY DEF IInv, StackInv
    <3>2. \A u \in C : sccOf'[u] # -1
      BY <1>2, <1>6
    <3> QED  BY <1>1, <1>3, <1>6, <1>7, <3>1, <3>2
  <2>2. \A i \in 1 .. Len(stack') : i \in 1 .. Len(stack)
    <3>1. Len(stack) \in Nat /\ Len(stack') \in Nat
      BY <1>4 DEF IInv, SearchTypes
    <3> QED  BY <1>4, <3>1
  <2>3. \A i, j \in 1 .. Len(stack') : i < j => index'[stack'[i]] < index'[stack'[j]]
    BY <1>1, <1>4, <2>2 DEF IInv, StackInv
  <2> QED  BY <1>4, <2>1, <2>3 DEF StackInv
<1>11. CallsInv'
  <2>1. \A i \in 1 .. k - 1 : i \in 1 .. k /\ i < k /\ At(i)' = At(i)
    BY <1>2, <1>5 DEF At
  <2>2. \A i \in 1 .. k - 1 : At(i) \in onStack'
    <3> SUFFICES ASSUME NEW i \in 1 .. k - 1 PROVE At(i) \in onStack /\ At(i) \notin C
      BY <1>1
    <3>1. At(i) \in onStack /\ index[At(i)] < index[v]
      BY <1>2, <2>1 DEF IInv, CallsInv
    <3>2. index[At(i)] \in Int /\ index[v] \in Int
      BY <1>2, <1>3, <3>1
    <3> QED  BY <1>4, <3>1, <3>2
  <2>3. \A i, j \in 1 .. k - 1 : i < j => index[At(i)] < index[At(j)]
    BY <2>1 DEF IInv, CallsInv
  <2> QED  BY <1>1, <1>5, <2>1, <2>2, <2>3 DEF CallsInv
<1>12. LookedInv'
  BY <1>5, <1>7 DEF IInv, LookedInv
<1>13. SinksFirst'
  <2> SUFFICES ASSUME NEW e \in Edges, sccOf'[e[1]] # -1
               PROVE  sccOf'[e[2]] # -1 /\ sccOf'[e[2]] <= sccOf'[e[1]]
    BY <1>7 DEF SinksFirst
  <2>1. e \in Nodes \X Nodes
    BY EdgeTypes
  <2>2. e[1] \in Nodes /\ e[2] \in Nodes /\ e[2] \in Succs(e[1])
    BY <2>1 DEF Succs
  <2>3. CASE e[1] \notin C
    <3>1. sccOf[e[1]] # -1 /\ sccOf'[e[1]] = sccOf[e[1]]
      BY <1>6, <2>2, <2>3
    <3>2. sccOf[e[2]] # -1 /\ sccOf[e[2]] <= sccOf[e[1]]
      BY <3>1 DEF IInv, SinksFirst
    <3>3. sccOf'[e[2]] = sccOf[e[2]]
      BY <1>3, <1>4, <1>6, <2>2, <3>2
    <3> QED  BY <3>1, <3>2, <3>3
  <2>4. CASE e[1] \in C
    <3>1. e[1] \in onStack /\ index[v] <= index[e[1]]
      BY <1>4, <2>4
    <3>2. ~Pending(e[1], e[2])
      <4> SUFFICES ASSUME NEW i \in 1 .. k, At(i) = e[1], e[2] \in calls[i].todo
                   PROVE  FALSE
        BY DEF Pending
      <4>1. i # k
        BY <1>1
      <4>2. i < k
        BY <1>2, <4>1
      <4>3. index[e[1]] < index[v]
        BY <1>2, <4>2 DEF IInv, CallsInv
      <4> QED  BY <1>2, <1>3, <2>2, <3>1, <4>3
    <3>3. Looked(e[1], e[2]) /\ Visited(e[2])
      BY <1>3, <2>2, <3>1, <3>2 DEF Looked, IInv, LookedInv
    <3>4. CASE sccOf[e[2]] # -1
      <4>1. sccOf[e[2]] \in 0 .. Len(sccs) - 1
        BY <2>2, <3>4 DEF IInv, NumberInv
      <4>2. sccOf'[e[2]] = sccOf[e[2]] /\ sccOf'[e[1]] = Len(sccs)
        BY <1>3, <1>4, <1>6, <2>2, <2>4, <3>4
      <4> QED  BY <1>2, <4>1, <4>2
    <3>5. CASE sccOf[e[2]] = -1
      <4>1. e[2] \in onStack
        BY <2>2, <3>3, <3>5 DEF IInv, StackInv
      <4>2. e[2] \in C
        <5> SUFFICES ASSUME index[e[2]] < index[v] PROVE FALSE
          BY <1>2, <1>3, <1>4, <2>2, <4>1
        <5>1. \E j \in k .. k : index[At(j)] <= index[e[1]] /\ low[At(j)] <= index[e[2]]
          BY <1>2, <3>1, <3>3, <4>1 DEF IInv, LowInv
        <5>2. low[v] <= index[e[2]]
          BY <1>2, <5>1
        <5> QED  BY <1>1, <1>2, <1>3, <2>2, <5>2
      <4> QED  BY <1>2, <1>6, <2>2, <2>4, <4>2
    <3> QED  BY <3>4, <3>5
  <2> QED  BY <2>3, <2>4
<1> QED  BY <1>5, <1>8, <1>9, <1>10, <1>11, <1>12, <1>13 DEF IInv

---------------------------------------------------------------------------
(* What the components are: the invariant about reachability.  The one     *)
(* above is proved without it, and it is proved with that one's help.      *)

(* Numbers and components are counted, and edges still to look at are      *)
(* edges of their node.                                                    *)
CountInv ==
  /\ includeControl \in BOOLEAN
  /\ counter = Cardinality({v \in Nodes : Visited(v)})
  /\ \A v \in Nodes : low[v] \in -1 .. counter - 1
  /\ Len(sccs) <= Cardinality({v \in Nodes : sccOf[v] # -1})
  /\ \A i \in 1 .. Len(calls) : calls[i].todo \subseteq Succs(At(i))

(* A node's low link leads to a node that it reaches and that is not above *)
(* it; once its call has returned, to one below it.                        *)
LinkInv ==
  \A u \in onStack :
    /\ \E w \in onStack : low[u] = index[w] /\ index[w] <= index[u] /\ Reaches(u, w)
    /\ (\A i \in 1 .. Len(calls) : At(i) # u) => low[u] # index[u]

(* An active call's node reaches what is above it on the stack, whose low  *)
(* links that call or a later one takes over.                              *)
TreeInv ==
  \A i \in 1 .. Len(calls) : \A u \in onStack : index[At(i)] <= index[u] =>
    /\ Reaches(At(i), u)
    /\ \E j \in i .. Len(calls) : index[At(j)] <= index[u] /\ low[At(j)] <= low[u]

(* The nodes of a component reach each other.                              *)
ComponentInv ==
  /\ \A u, v \in Nodes : sccOf[u] # -1 /\ sccOf[u] = sccOf[v] => Reaches(u, v)
  /\ \A i \in 1 .. Len(sccs) : sccs[i] = {v \in Nodes : sccOf[v] = i - 1}
  /\ isCyclic \in Seq(BOOLEAN) /\ Len(isCyclic) = Len(sccs)
  /\ \A i \in 1 .. Len(sccs) : isCyclic[i] <=> HasCycle(sccs[i])

ExactInv == CountInv /\ LinkInv /\ TreeInv /\ ComponentInv

(* Reachability. *)

LEMMA ReachesSelf == ASSUME NEW u PROVE Reaches(u, u)
  BY DEF Reaches

LEMMA ReachesOn ==
  ASSUME NEW u, NEW v, NEW w, Reaches(u, v), Reaches(v, w)
  PROVE  Reaches(u, w)
  BY DEF Reaches

LEMMA ReachesNext ==
  ASSUME NEW u, NEW w \in Succs(u)
  PROVE  Reaches(u, w)
<1>1. <<u, w>> \in Edges
  BY DEF Succs
<1>2. \A S : Closed(S) /\ u \in S => w \in S
  BY <1>1 DEF Closed
<1> QED  BY <1>2 DEF Reaches

(* A node other than itself is reached over a first edge.                  *)
LEMMA ReachesByEdge ==
  ASSUME NEW u \in Nodes, NEW v, u # v, Reaches(u, v), Edges \subseteq Nodes \X Nodes
  PROVE  \E w \in Succs(u) : Reaches(w, v)
<1> DEFINE S == {u} \cup {x \in Nodes : \E w \in Succs(u) : Reaches(w, x)}
<1>1. ASSUME NEW e \in Edges, e[1] \in S PROVE e[2] \in S
  <2>1. e = <<e[1], e[2]>> /\ e[1] \in Nodes /\ e[2] \in Nodes
    BY <1>1
  <2>2. e[2] \in Succs(e[1])
    BY <2>1 DEF Succs
  <2>3. CASE e[1] = u
    BY <2>1, <2>2, <2>3, ReachesSelf
  <2>4. CASE e[1] # u
    <3>1. PICK w \in Succs(u) : Reaches(w, e[1])
      BY <1>1, <2>4
    <3>2. Reaches(w, e[2])
      BY <2>2, <3>1, ReachesNext, ReachesOn
    <3> QED  BY <2>1, <3>2
  <2> QED  BY <2>3, <2>4
<1>2. Closed(S) /\ S \in SUBSET Nodes /\ u \in S
  BY <1>1 DEF Closed
<1>3. v \in S
  BY <1>2 DEF Reaches
<1> QED  BY <1>3

LEMMA SameReaches ==
  ASSUME UNCHANGED inputVars
  PROVE  \A u, v : Reaches(u, v)' <=> Reaches(u, v)
<1>1. Edges' = Edges
  BY DEF inputVars, Edges
<1> QED  BY <1>1 DEF Reaches, Closed

LEMMA FiniteNodes ==
  /\ IsFiniteSet(Nodes) /\ Cardinality(Nodes) = NumNodes
  /\ \A S : S \subseteq Nodes =>
       IsFiniteSet(S) /\ Cardinality(S) \in Nat /\ Cardinality(S) <= NumNodes
<1>1. NumNodes \in Nat
  BY TarjanAssumption
<1>2. IsFiniteSet(Nodes) /\ Cardinality(Nodes) = IF 1 > NumNodes THEN 0 ELSE NumNodes - 1 + 1
  BY <1>1, FS_Interval DEF Nodes
<1>3. Cardinality(Nodes) = NumNodes
  BY <1>1, <1>2
<1>4. ASSUME NEW S, S \subseteq Nodes
      PROVE  IsFiniteSet(S) /\ Cardinality(S) \in Nat /\ Cardinality(S) <= NumNodes
  BY <1>2, <1>3, <1>4, FS_Subset, FS_CardinalityType
<1> QED  BY <1>2, <1>3, <1>4

LEMMA InitExact == Init => ExactInv
<1> SUFFICES ASSUME Init PROVE ExactInv
  OBVIOUS
<1>1. /\ index = [v \in Nodes |-> -1] /\ low = [v \in Nodes |-> -1] /\ counter = 0
      /\ stack = <<>> /\ onStack = {} /\ calls = <<>>
      /\ sccs = <<>> /\ sccOf = [v \in Nodes |-> -1] /\ isCyclic = <<>>
  BY DEF Init
<1>2. {v \in Nodes : Visited(v)} = {} /\ {v \in Nodes : sccOf[v] # -1} = {}
  BY <1>1 DEF Visited
<1>3. CountInv
  <2>1. Cardinality({}) = 0 /\ Len(sccs) = 0 /\ Len(calls) = 0
    BY <1>1, FS_EmptySet
  <2>2. \A v \in Nodes : low[v] \in -1 .. counter - 1
    BY <1>1
  <2>3. counter = Cardinality({v \in Nodes : Visited(v)})
    BY <1>1, <1>2, <2>1
  <2>4. Len(sccs) = Cardinality({v \in Nodes : sccOf[v] # -1}) /\ Len(sccs) \in Nat
    BY <1>1, <1>2, <2>1
  <2>5. \A i \in 1 .. Len(calls) : calls[i].todo \subseteq Succs(At(i))
    BY <2>1
  <2>6. Len(sccs) <= Cardinality({v \in Nodes : sccOf[v] # -1})
    BY <2>4
  <2>7. includeControl \in BOOLEAN
    BY DEF Init
  <2> QED  BY <2>2, <2>3, <2>5, <2>6, <2>7 DEF CountInv
<1>4. LinkInv /\ TreeInv /\ ComponentInv
  BY <1>1 DEF LinkInv, TreeInv, ComponentInv
<1> QED  BY <1>3, <1>4 DEF ExactInv

LEMMA NewCallExact ==
  ASSUME IInv, ExactInv, NEW v \in Nodes, ~Visited(v), Number(v),
         UNCHANGED <<inputVars, resultVars>>,
         calls' \in Seq(Frames), Len(calls') = Len(calls) + 1,
         calls'[Len(calls) + 1] = Frame(v),
         \A i \in 1 .. Len(calls) : /\ calls'[i].node = At(i)
                                    /\ calls'[i].todo \subseteq calls[i].todo,
         calls # <<>> => v \in Succs(At(Len(calls)))
  PROVE  ExactInv'
<1> DEFINE k == Len(calls)
<1>1. /\ index \in [Nodes -> Int] /\ low \in [Nodes -> Int] /\ counter \in Nat
      /\ calls \in Seq(Frames) /\ k \in Nat
      /\ counter' = counter + 1
      /\ UNCHANGED <<dep, ctrl, includeControl, sccs, sccOf, isCyclic>>
  BY DEF Number, IInv, SearchTypes, inputVars, resultVars
<1>2. /\ \A u \in Nodes : /\ index'[u] = (IF u = v THEN counter ELSE index[u])
                          /\ low'[u] = (IF u = v THEN counter ELSE low[u])
                          /\ Visited(u)' <=> Visited(u) \/ u = v
                          /\ Visited(u) => index[u] < counter /\ index[u] \in Nat
      /\ onStack' = onStack \cup {v} /\ v \notin onStack /\ onStack \subseteq Nodes
      /\ \A u \in onStack : Visited(u) /\ u # v /\ index'[u] = index[u] /\ index[u] < counter
  BY Numbering
<1>3. (\A u : Succs(u)' = Succs(u)) /\ (\A u, w : Reaches(u, w)' <=> Reaches(u, w))
  BY <1>1, SameReaches DEF Succs, Edges
<1>4. calls'[k + 1].node = v /\ calls'[k + 1].todo = Succs(v)
  BY DEF Frame
<1>5. /\ \A i \in 1 .. k : At(i)' = At(i) /\ At(i) \in onStack
      /\ \A i : i = k + 1 => At(i)' = v
  BY <1>4 DEF At, IInv, CallsInv
<1>6. /\ \A i \in 1 .. k + 1 : i \in 1 .. k \/ i = k + 1
      /\ k + 1 \in 1 .. k + 1 /\ \A i \in 1 .. k : i \in 1 .. k + 1 /\ i # k + 1
      /\ calls # <<>> => k \in 1 .. k
      /\ calls = <<>> => k = 0
      /\ Len(calls') = k + 1
  BY <1>1
<1> HIDE DEF k
<1>7. CountInv'
  <2>1. counter + 1 = Cardinality({u \in Nodes : Visited(u)'})
    <3>1. {u \in Nodes : Visited(u)'} = {u \in Nodes : Visited(u)} \cup {v}
      BY <1>2
    <3>2. v \notin {u \in Nodes : Visited(u)} /\ IsFiniteSet({u \in Nodes : Visited(u)})
      BY FiniteNodes
    <3> QED  BY <3>1, <3>2, FS_AddElement DEF ExactInv, CountInv
  <2>2. \A u \in Nodes : low'[u] \in -1 .. counter
    <3> SUFFICES ASSUME NEW u \in Nodes PROVE low'[u] \in -1 .. counter
      OBVIOUS
    <3>1. low[u] \in -1 .. counter - 1 /\ low'[u] = IF u = v THEN counter ELSE low[u]
      BY <1>2 DEF ExactInv, CountInv
    <3> QED  BY <1>1, <3>1
  <2>3. ASSUME NEW i \in 1 .. k + 1 PROVE calls'[i].todo \subseteq Succs(At(i)')
    <3>1. CASE i \in 1 .. k
      BY <1>5, <3>1 DEF ExactInv, CountInv, k
    <3>2. CASE i = k + 1
      BY <1>4, <1>5, <3>2
    <3> QED  BY <1>6, <3>1, <3>2
  <2>4. counter' - 1 = counter
    BY <1>1
  <2> QED  BY <1>1, <1>3, <1>6, <2>1, <2>2, <2>3, <2>4 DEF ExactInv, CountInv, k
<1>8. LinkInv'
  <2> SUFFICES ASSUME NEW u \in onStack'
               PROVE  /\ \E w \in onStack' : /\ low'[u] = index'[w] /\ index'[w] <= index'[u]
                                             /\ Reaches(u, w)
                      /\ (\A i \in 1 .. k + 1 : At(i)' # u) => low'[u] # index'[u]
    BY <1>3, <1>6 DEF LinkInv
  <2>1. CASE u = v
    <3>1. \E i \in 1 .. k + 1 : At(i)' = u
      BY <1>5, <1>6, <2>1
    <3>2. low'[v] = index'[v] /\ index'[v] <= index'[v] /\ v \in onStack'
      BY <1>1, <1>2
    <3> QED  BY <2>1, <3>1, <3>2, ReachesSelf
  <2>2. CASE u # v
    <3>1. u \in onStack /\ low'[u] = low[u] /\ index'[u] = index[u]
      BY <1>2, <2>2
    <3>2. /\ \E w \in onStack : low[u] = index[w] /\ index[w] <= index[u] /\ Reaches(u, w)
          /\ (\A i \in 1 .. k : At(i) # u) => low[u] # index[u]
      BY <3>1 DEF ExactInv, LinkInv, k
    <3> QED  BY <1>2, <1>5, <1>6, <3>1, <3>2
  <2> QED  BY <2>1, <2>2
<1>9. TreeInv'
  <2> SUFFICES ASSUME NEW i \in 1 .. k + 1, NEW u \in onStack', index'[At(i)'] <= index'[u]
               PROVE  /\ Reaches(At(i)', u)
                      /\ \E j \in i .. k + 1 : /\ index'[At(j)'] <= index'[u]
                                               /\ low'[At(j)'] <= low'[u]
    BY <1>3, <1>6 DEF TreeInv
  <2>1. CASE u = v
    <3>1. k + 1 \in i .. k + 1
      BY <1>1
    <3>2. index'[v] = counter /\ low'[v] = counter /\ counter <= counter
      BY <1>1, <1>2
    <3>3. CASE i = k + 1
      BY <1>5, <2>1, <3>1, <3>2, <3>3, ReachesSelf
    <3>4. CASE i \in 1 .. k
      <4>1. calls # <<>> /\ k \in 1 .. k /\ At(k) \in onStack
        BY <1>1, <1>5, <1>6, <3>4 DEF k
      <4>2. index[At(i)] <= index[At(k)]
        <5>1. CASE i = k
          BY <1>1, <1>2, <1>5, <3>4, <5>1
        <5>2. CASE i # k
          <6>1. i < k
            BY <1>1, <3>4, <5>2
          <6>2. index[At(i)] < index[At(k)]
            BY <3>4, <4>1, <6>1 DEF IInv, CallsInv, k
          <6>3. index[At(i)] \in Int /\ index[At(k)] \in Int
            BY <1>1, <1>2, <1>5, <3>4, <4>1
          <6> QED  BY <6>2, <6>3
        <5> QED  BY <5>1, <5>2
      <4>3. Reaches(At(i), At(k)) /\ Reaches(At(k), v)
        BY <3>4, <4>1, <4>2, ReachesNext DEF ExactInv, TreeInv, k
      <4>4. Reaches(At(i), v)
        BY <4>3, ReachesOn
      <4> QED  BY <1>5, <2>1, <3>1, <3>2, <3>4, <4>4
    <3> QED  BY <1>6, <3>3, <3>4
  <2>2. CASE u # v
    <3>1. /\ u \in onStack /\ low'[u] = low[u] /\ index'[u] = index[u]
          /\ index[u] < counter /\ index[u] \in Int
      BY <1>1, <1>2, <2>2
    <3>2. i \in 1 .. k
      <4> SUFFICES ASSUME i = k + 1 PROVE FALSE
        BY <1>6
      <4>1. index'[At(i)'] = counter
        BY <1>2, <1>5
      <4> QED  BY <1>1, <3>1, <4>1
    <3>3. At(i)' = At(i) /\ index'[At(i)'] = index[At(i)]
      BY <1>2, <1>5, <3>2
    <3>4. Reaches(At(i), u)
      BY <3>1, <3>2, <3>3 DEF ExactInv, TreeInv, k
    <3>5. PICK j \in i .. k : index[At(j)] <= index[u] /\ low[At(j)] <= low[u]
      BY <3>1, <3>2, <3>3 DEF ExactInv, TreeInv, k
    <3>6. j \in 1 .. k /\ j \in i .. k + 1
      BY <1>1, <3>2
    <3>7. At(j)' = At(j) /\ index'[At(j)] = index[At(j)] /\ low'[At(j)] = low[At(j)]
      BY <1>2, <1>5, <3>6
    <3> QED  BY <3>1, <3>3, <3>4, <3>5, <3>6, <3>7
  <2> QED  BY <2>1, <2>2
<1>10. ComponentInv'
  <2>1. \A C : HasCycle(C)' <=> HasCycle(C)
    BY <1>3 DEF HasCycle
  <2> QED  BY <1>1, <1>3, <2>1 DEF ExactInv, ComponentInv, HasCycle
<1> QED  BY <1>7, <1>8, <1>9, <1>10 DEF ExactInv

LEMMA StartRootExact ==
  ASSUME IInv, ExactInv, NEW v \in Nodes, StartRoot(v)
  PROVE  ExactInv'
<1>1. /\ calls = <<>> /\ ~Visited(v) /\ Number(v) /\ calls' = <<Frame(v)>>
      /\ UNCHANGED <<inputVars, resultVars>>
  BY DEF StartRoot
<1>2. Frame(v) \in Frames
  BY DEF Frame, Frames, Succs
<1>3. /\ calls' \in Seq(Frames) /\ Len(calls') = Len(calls) + 1
      /\ calls'[Len(calls) + 1] = Frame(v) /\ \A i \in 1 .. Len(calls) : FALSE
  BY <1>1, <1>2
<1> QED  BY <1>1, <1>3, NewCallExact

LEMMA DescendExact ==
  ASSUME IInv, ExactInv, NEW v \in Nodes, Descend(v)
  PROVE  ExactInv'
<1> DEFINE c == CrossOff(calls, v)
<1>1. /\ calls # <<>> /\ calls \in Seq(Frames) /\ ~Visited(v) /\ Number(v)
      /\ v \in calls[Len(calls)].todo
      /\ calls' = Append(c, Frame(v)) /\ UNCHANGED <<inputVars, resultVars>>
  BY DEF Descend, CrossOff, Top, IInv, SearchTypes
<1>2. Frame(v) \in Frames
  BY DEF Frame, Frames, Succs
<1>3. /\ c \in Seq(Frames) /\ Len(c) = Len(calls)
      /\ \A i \in 1 .. Len(calls) :
           /\ c[i].node = calls[i].node
           /\ c[i].todo = IF i = Len(calls) THEN calls[i].todo \ {v} ELSE calls[i].todo
  BY <1>1, EdgeDone
<1> HIDE DEF c
<1>4. /\ calls' \in Seq(Frames) /\ Len(calls') = Len(calls) + 1
      /\ calls'[Len(calls) + 1] = Frame(v)
      /\ \A i \in 1 .. Len(calls) : calls'[i] = c[i]
  BY <1>1, <1>2, <1>3, AppendProperties
<1>5. \A i \in 1 .. Len(calls) : /\ calls'[i].node = At(i)
                                 /\ calls'[i].todo \subseteq calls[i].todo
  BY <1>3, <1>4 DEF At
<1>6. v \in Succs(At(Len(calls)))
  <2>1. Len(calls) \in 1 .. Len(calls)
    BY <1>1
  <2> QED  BY <1>1, <2>1 DEF ExactInv, CountInv
<1> QED  BY <1>1, <1>4, <1>5, <1>6, NewCallExact

LEMMA SmallerIsOne ==
  ASSUME NEW a \in Int, NEW b \in Int
  PROVE  (Smaller(a, b) = a \/ Smaller(a, b) = b) /\ (a <= b => Smaller(a, b) = a)
  BY DEF Smaller

LEMMA LookAtExact ==
  ASSUME IInv, ExactInv, NEW x \in Nodes, LookAt(x)
  PROVE  ExactInv'
<1> DEFINE k == Len(calls)
           v == At(k)
<1>1. /\ index \in [Nodes -> Int] /\ low \in [Nodes -> Int] /\ counter \in Nat
      /\ calls \in Seq(Frames) /\ calls # <<>> /\ k \in Nat /\ k \in 1 .. k
      /\ x \in calls[k].todo
  BY DEF LookAt, Top, IInv, SearchTypes
<1>2. /\ calls' = CrossOff(calls, x) /\ Visited(x)
      /\ low' = IF x \in onStack THEN [low EXCEPT ![v] = Smaller(@, index[x])] ELSE low
      /\ UNCHANGED <<dep, ctrl, includeControl, index, counter, stack, onStack>>
      /\ UNCHANGED <<sccs, sccOf, isCyclic>>
  BY DEF LookAt, CrossOff, Top, At, inputVars, stackVars, resultVars
<1>3. /\ calls' \in Seq(Frames) /\ Len(calls') = k
      /\ \A i \in 1 .. k :
           /\ calls'[i].node = calls[i].node
           /\ calls'[i].todo = IF i = k THEN calls[i].todo \ {x} ELSE calls[i].todo
  BY <1>1, <1>2, EdgeDone
<1>4. v \in onStack /\ v \in Nodes /\ onStack \subseteq Nodes /\ x \in Succs(v)
  BY <1>1 DEF IInv, CallsInv, StackInv, ExactInv, CountInv
<1>5. /\ low' \in [Nodes -> Int]
      /\ \A u \in Nodes : low'[u] <= low[u] /\ (u # v => low'[u] = low[u])
      /\ low'[v] = low[v] \/ (x \in onStack /\ low'[v] = index[x])
  <2>1. low[v] \in Int /\ index[x] \in Int
    BY <1>1, <1>4
  <2>2. /\ Smaller(low[v], index[x]) \in Int /\ Smaller(low[v], index[x]) <= low[v]
        /\ Smaller(low[v], index[x]) = low[v] \/ Smaller(low[v], index[x]) = index[x]
    BY <2>1, SmallerIsSmaller, SmallerIsOne
  <2> HIDE DEF v
  <2> QED  BY <1>1, <1>2, <1>4, <2>2
<1> HIDE DEF v, k
<1>6. \A i \in 1 .. k : At(i)' = At(i) /\ At(i) \in Nodes /\ At(i) \in onStack
  BY <1>3, <1>4 DEF At, k, IInv, CallsInv
<1>7. /\ (\A u : Visited(u)' = Visited(u)) /\ (\A u : Succs(u)' = Succs(u))
      /\ (\A u, w : Reaches(u, w)' <=> Reaches(u, w))
  BY <1>2, SameReaches DEF Visited, Succs, Edges, inputVars
<1>8. CountInv'
  <2>1. \A u \in Nodes : low'[u] \in -1 .. counter - 1
    <3> SUFFICES ASSUME NEW u \in Nodes PROVE low'[u] \in -1 .. counter - 1
      OBVIOUS
    <3>1. low[u] \in -1 .. counter - 1 /\ index[x] \in -1 .. counter - 1
      BY <1>1, <1>2 DEF ExactInv, CountInv, IInv, NumberInv
    <3> QED  BY <1>5, <3>1
  <2>2. \A i \in 1 .. k : calls'[i].todo \subseteq Succs(At(i)')
    BY <1>3, <1>6 DEF ExactInv, CountInv, k
  <2> QED  BY <1>2, <1>3, <1>7, <2>1, <2>2 DEF ExactInv, CountInv
<1>9. LinkInv'
  <2> SUFFICES ASSUME NEW u \in onStack
               PROVE  /\ \E w \in onStack : /\ low'[u] = index[w] /\ index[w] <= index[u]
                                            /\ Reaches(u, w)
                      /\ (\A i \in 1 .. k : At(i) # u) => low'[u] # index[u]
    BY <1>2, <1>3, <1>6, <1>7 DEF LinkInv
  <2>1. PICK w \in onStack : low[u] = index[w] /\ index[w] <= index[u] /\ Reaches(u, w)
    BY DEF ExactInv, LinkInv
  <2>2. (\A i \in 1 .. k : At(i) # u) => low[u] # index[u]
    BY DEF ExactInv, LinkInv, k
  <2>3. CASE low'[u] = low[u]
    BY <2>1, <2>2, <2>3
  <2>4. CASE low'[u] # low[u]
    <3>1. u = v /\ x \in onStack /\ low'[u] = index[x] /\ low'[u] <= low[u]
      BY <1>4, <1>5, <2>4
    <3>2. index[x] <= index[u]
      <4>1. index[x] \in Int /\ index[w] \in Int /\ index[u] \in Int
        BY <1>1, <1>4
      <4> QED  BY <2>1, <3>1, <4>1
    <3>3. Reaches(u, x)
      BY <1>4, <3>1, ReachesNext
    <3>4. \E i \in 1 .. k : At(i) = u
      BY <1>1, <3>1 DEF v
    <3> QED  BY <3>1, <3>2, <3>3, <3>4
  <2> QED  BY <2>3, <2>4
<1>10. TreeInv'
  <2> SUFFICES ASSUME NEW i \in 1 .. k, NEW u \in onStack, index[At(i)] <= index[u]
               PROVE  /\ Reaches(At(i), u)
                      /\ \E j \in i .. k : index[At(j)] <= index[u] /\ low'[At(j)] <= low'[u]
    <3>1. \A m \in 1 .. k : \A j \in m .. k : j \in 1 .. k
      BY <1>1
    <3> QED  BY <1>2, <1>3, <1>6, <1>7, <3>1 DEF TreeInv
  <2>1. Reaches(At(i), u)
    BY DEF ExactInv, TreeInv, k
  <2>2. CASE u = v
    <3>1. k \in i .. k
      BY <1>1
    <3>2. index[v] <= index[v] /\ low'[v] <= low'[v]
      BY <1>1, <1>4, <1>5
    <3> QED  BY <2>1, <2>2, <3>1, <3>2 DEF v
  <2>3. CASE u # v
    <3>1. PICK j \in i .. k : index[At(j)] <= index[u] /\ low[At(j)] <= low[u]
      BY DEF ExactInv, TreeInv, k
    <3>2. j \in 1 .. k
      BY <1>1
    <3>3. low'[At(j)] <= low'[u]
      <4>1. At(j) \in Nodes /\ u \in Nodes /\ low'[u] = low[u] /\ low'[At(j)] <= low[At(j)]
        BY <1>4, <1>5, <1>6, <2>3, <3>2
      <4>2. low'[At(j)] \in Int /\ low[At(j)] \in Int /\ low[u] \in Int
        BY <1>1, <1>5, <4>1
      <4> QED  BY <3>1, <4>1, <4>2
    <3> QED  BY <2>1, <3>1, <3>3
  <2> QED  BY <2>2, <2>3
<1>11. ComponentInv'
  <2>1. \A C : HasCycle(C)' <=> HasCycle(C)
    BY <1>7 DEF HasCycle
  <2> QED  BY <1>2, <1>7, <2>1 DEF ExactInv, ComponentInv, HasCycle
<1> QED  BY <1>8, <1>9, <1>10, <1>11 DEF ExactInv

(* The call of v returns and leaves the stack alone or pops what is not    *)
(* below v.                                                                *)
LEMMA ReturnsExact ==
  ASSUME IInv, ExactInv, calls # <<>>, Top.todo = {}, Return,
         UNCHANGED <<inputVars, index>>, onStack' \subseteq onStack,
         \/ UNCHANGED onStack /\ low[Top.node] # index[Top.node]
         \/ /\ low[Top.node] = index[Top.node]
            /\ \A u \in onStack : u \in onStack' <=> index[u] < index[Top.node]
  PROVE  /\ LinkInv' /\ TreeInv'
         /\ \A u \in Nodes : low'[u] \in -1 .. counter - 1
         /\ \A i \in 1 .. Len(calls') : calls'[i].todo \subseteq Succs(At(i)')
<1> DEFINE k == Len(calls)
           v == At(k)
<1>1. /\ index \in [Nodes -> Int] /\ low \in [Nodes -> Int] /\ counter \in Nat
      /\ calls \in Seq(Frames) /\ k \in Nat /\ k \in 1 .. k /\ k - 1 \in Nat
      /\ index' = index /\ Top.node = v
  BY DEF IInv, SearchTypes, Top, At
<1>2. /\ calls' \in Seq(Frames) /\ Len(calls') = k - 1
      /\ \A i \in 1 .. k - 1 : calls'[i] = calls[i]
      /\ low' \in [Nodes -> Int]
  BY Returns
<1>3. /\ onStack \subseteq Nodes /\ \A i \in 1 .. k : At(i) \in onStack
      /\ \A i, j \in 1 .. k : i < j => index[At(i)] < index[At(j)]
      /\ v \in onStack
  BY <1>1 DEF IInv, StackInv, CallsInv
<1>4. k > 1 => low' = [low EXCEPT ![At(k - 1)] = Smaller(@, low[v])]
  <2>1. k > 1 => Callers # <<>>
    BY <1>1, <1>2 DEF Return
  <2> QED  BY <1>1, <2>1 DEF Return, At
<1>5. k = 1 => low' = low
  <2>1. k = 1 => Callers = <<>>
    BY <1>2 DEF Return
  <2> QED  BY <2>1 DEF Return
<1> HIDE DEF k
<1>6. /\ \A i \in 1 .. k - 1 : i \in 1 .. k /\ i < k /\ At(i)' = At(i)
      /\ \A i \in 1 .. k : i \in 1 .. k - 1 \/ i = k
      /\ k > 1 => k - 1 \in 1 .. k - 1 /\ k - 1 \in 1 .. k
  BY <1>1, <1>2 DEF At
<1>7. (\A u : Succs(u)' = Succs(u)) /\ (\A u, w : Reaches(u, w)' <=> Reaches(u, w))
  BY SameReaches DEF Succs, Edges, inputVars
<1> HIDE DEF v
(* Only the caller's link changes; it may become v's.                      *)
<1>8. \A u \in Nodes : (k = 1 \/ u # At(k - 1)) => low'[u] = low[u]
  BY <1>1, <1>4, <1>5
<1>9. ASSUME k > 1
      PROVE  LET c == At(k - 1) IN
               /\ c \in onStack /\ index[c] < index[v] /\ Reaches(c, v)
               /\ low'[c] <= low[c] /\ low'[c] <= low[v]
               /\ low'[c] = low[c] \/ low'[c] = low[v]
               /\ low[c] <= low[v] => low'[c] = low[c]
  <2> DEFINE c == At(k - 1)
  <2>1. c \in onStack /\ index[c] < index[v] /\ c \in Nodes /\ v \in Nodes
    BY <1>3, <1>6, <1>9, <1>1 DEF v
  <2>2. Reaches(c, v)
    <3>1. index[c] \in Int /\ index[v] \in Int
      BY <1>1, <2>1
    <3>2. index[c] <= index[v]
      BY <2>1, <3>1
    <3> QED  BY <1>3, <1>6, <1>9, <3>2 DEF ExactInv, TreeInv, k
  <2> HIDE DEF c
  <2>3. low[c] \in Int /\ low[v] \in Int
    BY <1>1, <2>1
  <2>4. low'[c] = Smaller(low[c], low[v])
    <3>1. low' = [low EXCEPT ![c] = Smaller(low[c], low[v])]
      BY <1>4, <1>9 DEF c
    <3> QED  BY <1>1, <2>1, <3>1
  <2>5. /\ Smaller(low[c], low[v]) <= low[c] /\ Smaller(low[c], low[v]) <= low[v]
        /\ Smaller(low[c], low[v]) = low[c] \/ Smaller(low[c], low[v]) = low[v]
        /\ low[c] <= low[v] => Smaller(low[c], low[v]) = low[c]
    BY <2>3, SmallerIsSmaller, SmallerIsOne
  <2> QED  BY <2>1, <2>2, <2>4, <2>5 DEF c
<1>10. ASSUME NEW u \in onStack'
       PROVE  /\ \E w \in onStack' : low'[u] = index[w] /\ index[w] <= index[u] /\ Reaches(u, w)
              /\ (\A i \in 1 .. k - 1 : At(i) # u) => low'[u] # index[u]
  <2>1. u \in onStack /\ u \in Nodes
    BY <1>3
  <2>2. PICK w \in onStack : low[u] = index[w] /\ index[w] <= index[u] /\ Reaches(u, w)
    BY <2>1 DEF ExactInv, LinkInv
  <2>3. (\A i \in 1 .. k : At(i) # u) => low[u] # index[u]
    BY <2>1 DEF ExactInv, LinkInv, k
  <2>4. index[u] \in Int /\ index[v] \in Int /\ \A x \in onStack : index[x] \in Int /\ low[x] \in Int
    BY <1>1, <1>3, <2>1
  <2>5. \A x \in onStack : index[x] <= index[u] => x \in onStack'
    BY <1>1, <1>10, <2>1, <2>4
  <2>6. CASE low'[u] = low[u]
    <3>1. w \in onStack'
      BY <2>2, <2>5
    <3>2. u = v => low[u] # index[u]
      BY <1>1, <1>3, <1>10, <2>4
    <3>3. (\A i \in 1 .. k - 1 : At(i) # u) => low[u] # index[u]
      BY <1>6, <2>3, <3>2 DEF v
    <3> QED  BY <2>2, <2>6, <3>1, <3>3
  <2>7. CASE low'[u] # low[u]
    <3>1. k > 1 /\ u = At(k - 1)
      BY <1>1, <1>8, <2>1, <2>7
    <3>2. low'[u] = low[v] /\ low'[u] <= low[u] /\ Reaches(u, v) /\ index[u] < index[v]
      BY <1>9, <2>7, <3>1
    <3>3. PICK x \in onStack : low[v] = index[x] /\ index[x] <= index[v] /\ Reaches(v, x)
      BY <1>3 DEF ExactInv, LinkInv
    <3>4. index[x] <= index[u]
      <4>1. index[x] <= low[u] /\ low[u] <= index[u]
        BY <2>2, <3>2, <3>3
      <4> QED  BY <2>1, <2>4, <4>1
    <3>5. x \in onStack' /\ Reaches(u, x)
      BY <2>5, <3>2, <3>3, <3>4, ReachesOn
    <3>6. \E i \in 1 .. k - 1 : At(i) = u
      BY <1>6, <3>1
    <3> QED  BY <3>2, <3>3, <3>4, <3>5, <3>6
  <2> QED  BY <2>6, <2>7
<1>11. LinkInv'
  <2>1. (\A i \in 1 .. k - 1 : At(i)' = At(i)) /\ Len(calls') = k - 1
    BY <1>2, <1>6
  <2> QED  BY <1>1, <1>7, <1>10, <2>1 DEF LinkInv
<1>12. ASSUME NEW i \in 1 .. k - 1, NEW u \in onStack', index[At(i)] <= index[u]
       PROVE  /\ Reaches(At(i), u)
              /\ \E j \in i .. k - 1 : index[At(j)] <= index[u] /\ low'[At(j)] <= low'[u]
  <2>1. u \in onStack /\ u \in Nodes /\ i \in 1 .. k /\ k > 1 /\ k - 1 \in i .. k - 1
    BY <1>1, <1>3, <1>6
  <2>2. Reaches(At(i), u)
    BY <1>12, <2>1 DEF ExactInv, TreeInv, k
  <2>3. PICK j \in i .. k : index[At(j)] <= index[u] /\ low[At(j)] <= low[u]
    BY <1>12, <2>1 DEF ExactInv, TreeInv, k
  <2>4. \A x \in onStack : index[x] \in Int /\ low[x] \in Int /\ low'[x] \in Int
    BY <1>1, <1>2, <1>3
  <2>5. CASE u = At(k - 1)
    <3>1. index[u] <= index[u] /\ low'[u] <= low'[u]
      BY <2>1, <2>4
    <3> QED  BY <2>1, <2>2, <2>5, <3>1
  <2>6. CASE u # At(k - 1) /\ j \in i .. k - 1
    <3>1. j \in 1 .. k - 1 /\ At(j) \in onStack /\ At(j) \in Nodes
      BY <1>1, <1>3, <1>6, <2>6
    <3>2. low'[At(j)] <= low[At(j)]
      <4>1. CASE At(j) = At(k - 1)
        BY <1>9, <2>1, <4>1
      <4>2. CASE At(j) # At(k - 1)
        BY <1>8, <2>4, <3>1, <4>2
      <4> QED  BY <4>1, <4>2
    <3>3. low'[u] = low[u]
      BY <1>8, <2>1, <2>6
    <3>4. low'[At(j)] <= low'[u]
      BY <2>1, <2>3, <2>4, <3>1, <3>2, <3>3
    <3> QED  BY <2>2, <2>3, <2>6, <3>4
  <2>7. CASE u # At(k - 1) /\ j = k
    <3> DEFINE c == At(k - 1)
    <3>1. /\ c \in onStack /\ index[c] < index[v] /\ low'[c] <= low[v]
          /\ index[v] <= index[u] /\ low[v] <= low[u] /\ v \in onStack
      BY <1>3, <1>9, <2>1, <2>3, <2>7 DEF v
    <3>2. low'[u] = low[u]
      BY <1>8, <2>1, <2>7
    <3>3. index[c] <= index[u] /\ low'[c] <= low'[u]
      <4> HIDE DEF c
      <4> QED  BY <2>1, <2>4, <3>1, <3>2
    <3> QED  BY <2>1, <2>2, <3>3
  <2>8. j \in i .. k - 1 \/ j = k
    BY <1>1
  <2> QED  BY <2>5, <2>6, <2>7, <2>8
<1>13. TreeInv'
  <2>1. \A i \in 1 .. k - 1 : \A j \in i .. k - 1 : j \in 1 .. k - 1
    BY <1>1
  <2>2. (\A i \in 1 .. k - 1 : At(i)' = At(i)) /\ Len(calls') = k - 1
    BY <1>2, <1>6
  <2> QED  BY <1>1, <1>7, <1>12, <2>1, <2>2 DEF TreeInv
<1>14. ASSUME NEW u \in Nodes PROVE low'[u] \in -1 .. counter - 1
  <2>1. \A x \in Nodes : low[x] \in -1 .. counter - 1
    BY DEF ExactInv, CountInv
  <2>2. low'[u] = low[u] \/ low'[u] = low[v]
    BY <1>1, <1>8, <1>9
  <2> QED  BY <1>3, <2>1, <2>2
<1>15. ASSUME NEW i \in 1 .. k - 1 PROVE calls'[i].todo \subseteq Succs(At(i)')
  BY <1>2, <1>6 DEF ExactInv, CountInv, k
<1> QED  BY <1>2, <1>11, <1>13, <1>14, <1>15

LEMMA ReturnInnerExact == IInv /\ ExactInv /\ ReturnInner => ExactInv'
<1> SUFFICES ASSUME IInv, ExactInv, ReturnInner PROVE ExactInv'
  OBVIOUS
<1>1. /\ calls # <<>> /\ Top.todo = {} /\ low[Top.node] # index[Top.node] /\ Return
      /\ UNCHANGED <<inputVars, index, counter, stack, onStack, sccs, sccOf, isCyclic>>
  BY DEF ReturnInner, stackVars, resultVars
<1>2. /\ LinkInv' /\ TreeInv'
      /\ \A u \in Nodes : low'[u] \in -1 .. counter - 1
      /\ \A i \in 1 .. Len(calls') : calls'[i].todo \subseteq Succs(At(i)')
  BY <1>1, ReturnsExact
<1>3. /\ (\A u : Visited(u)' = Visited(u)) /\ (\A u : Succs(u)' = Succs(u))
      /\ (\A u, w : Reaches(u, w)' <=> Reaches(u, w))
  BY <1>1, SameReaches DEF Visited, Succs, Edges, inputVars
<1>4. CountInv'
  BY <1>1, <1>2, <1>3 DEF ExactInv, CountInv, inputVars
<1>5. ComponentInv'
  <2>1. \A C : HasCycle(C)' <=> HasCycle(C)
    BY <1>3 DEF HasCycle
  <2> QED  BY <1>1, <1>3, <2>1 DEF ExactInv, ComponentInv, HasCycle
<1> QED  BY <1>2, <1>4, <1>5 DEF ExactInv

(* What is above the root of a component on the stack reaches the root:    *)
(* follow the low links down.                                              *)
LEMMA ReachesRoot ==
  ASSUME IInv, ExactInv, calls # <<>>, low[Top.node] = index[Top.node],
         NEW x \in onStack, index[Top.node] <= index[x]
  PROVE  Reaches(x, Top.node)
<1> DEFINE k == Len(calls)
           v == At(k)
           Lost == {u \in onStack : index[v] <= index[u] /\ ~Reaches(u, v)}
<1>1. /\ index \in [Nodes -> Int] /\ low \in [Nodes -> Int] /\ k \in Nat /\ k \in 1 .. k
      /\ Top.node = v /\ low[v] = index[v]
      /\ onStack \subseteq Nodes /\ v \in onStack
      /\ \A u \in onStack : Visited(u) /\ index[u] \in Nat
  <2>1. /\ index \in [Nodes -> Int] /\ low \in [Nodes -> Int] /\ k \in Nat /\ k \in 1 .. k
        /\ Top.node = v /\ calls \in Seq(Frames) /\ counter \in Nat
    BY DEF IInv, SearchTypes, Top, At
  <2>2. onStack \subseteq Nodes /\ v \in onStack /\ \A u \in onStack : Visited(u)
    BY <2>1 DEF IInv, StackInv, CallsInv
  <2>3. \A u \in onStack : index[u] \in Nat
    BY <2>1, <2>2 DEF IInv, NumberInv
  <2> QED  BY <2>1, <2>2, <2>3
<1> HIDE DEF v
<1> SUFFICES ASSUME Lost # {} PROVE FALSE
  BY <1>1
<1>2. PICK u \in Lost : \A w \in Lost : index[u] <= index[w]
  <2>1. {index[w] : w \in Lost} # {} /\ {index[w] : w \in Lost} \in SUBSET Nat
    BY <1>1
  <2>2. PICK m \in {index[w] : w \in Lost} : \A n \in {index[w] : w \in Lost} : m <= n
    BY <2>1, Smallest
  <2> HIDE DEF Lost
  <2> QED  BY <2>2
<1>3. /\ u \in onStack /\ index[v] <= index[u] /\ ~Reaches(u, v) /\ u # v
      /\ index[u] \in Int /\ index[v] \in Int
  BY <1>1, <1>2, ReachesSelf
<1>4. index[v] < index[u]
  <2>1. index[v] # index[u]
    BY <1>1, <1>3 DEF IInv, NumberInv
  <2> QED  BY <1>3, <2>1
<1>5. ASSUME NEW i \in 1 .. k, At(i) = u PROVE FALSE
  <2>1. i # k
    BY <1>3, <1>5 DEF v
  <2>2. index[At(i)] < index[v]
    BY <1>1, <2>1 DEF IInv, CallsInv, v
  <2> QED  BY <1>3, <1>4, <1>5, <2>2
<1>6. PICK w \in onStack : low[u] = index[w] /\ index[w] <= index[u] /\ Reaches(u, w)
  BY <1>3 DEF ExactInv, LinkInv
<1>7. index[w] < index[u]
  <2>1. low[u] # index[u]
    BY <1>3, <1>5 DEF ExactInv, LinkInv
  <2>2. index[w] \in Int
    BY <1>1
  <2> QED  BY <1>3, <1>6, <2>1, <2>2
<1>8. index[v] <= index[w]
  <2>1. \E j \in k .. k : index[At(j)] <= index[u] /\ low[At(j)] <= low[u]
    BY <1>1, <1>3 DEF ExactInv, TreeInv, v
  <2>2. low[v] <= low[u]
    BY <1>1, <2>1 DEF v
  <2> QED  BY <1>1, <1>6, <2>2
<1>9. w \notin Lost
  <2>1. index[w] \in Int
    BY <1>1
  <2>2. ~(index[u] <= index[w])
    BY <1>3, <1>7, <2>1
  <2> HIDE DEF Lost
  <2> QED  BY <1>2, <2>2
<1>10. Reaches(w, v)
  BY <1>8, <1>9
<1> QED  BY <1>3, <1>6, <1>10, ReachesOn

LEMMA ReturnRootExact == IInv /\ ExactInv /\ ReturnRoot => ExactInv'
<1> SUFFICES ASSUME IInv, ExactInv, ReturnRoot PROVE ExactInv'
  OBVIOUS
<1> DEFINE v == Top.node
           C == Component(v)
           numbered == {u \in Nodes : sccOf[u] # -1}
<1>1. /\ calls # <<>> /\ Top.todo = {} /\ low[v] = index[v] /\ Return
      /\ onStack' = onStack \ C /\ sccs' = Append(sccs, C)
      /\ sccOf' = [u \in Nodes |-> IF u \in C THEN Len(sccs) ELSE sccOf[u]]
      /\ isCyclic' = Append(isCyclic, HasCycle(C))
      /\ UNCHANGED <<inputVars, dep, ctrl, includeControl, index, counter>>
  BY DEF ReturnRoot, inputVars
<1>2. /\ index \in [Nodes -> Int] /\ counter \in Nat
      /\ sccs \in Seq(SUBSET Nodes) /\ Len(sccs) \in Nat /\ sccOf \in [Nodes -> Int]
      /\ isCyclic \in Seq(BOOLEAN) /\ Len(isCyclic) = Len(sccs)
  BY DEF IInv, SearchTypes, ExactInv, ComponentInv
<1>3. /\ onStack \subseteq Nodes /\ v \in onStack
      /\ \A u \in onStack : sccOf[u] = -1
  <2>1. Len(calls) \in 1 .. Len(calls)
    BY <1>1 DEF IInv, SearchTypes
  <2> QED  BY <2>1 DEF IInv, StackInv, CallsInv, Top, At
<1>4. \A u : u \in C <=> u \in onStack /\ index[v] <= index[u]
  BY <1>3, PoppedPart
<1> HIDE DEF C
<1>5. C \subseteq Nodes /\ v \in C /\ \A u \in C : Reaches(u, v) /\ Reaches(v, u)
  <2>1. \A u \in C : Reaches(u, v)
    BY <1>1, <1>4, ReachesRoot
  <2>2. \A u \in C : Reaches(v, u)
    <3>1. Len(calls) \in 1 .. Len(calls) /\ v = At(Len(calls))
      BY <1>1 DEF IInv, SearchTypes, Top, At
    <3> QED  BY <1>4, <3>1 DEF ExactInv, TreeInv
  <2>3. index[v] <= index[v]
    BY <1>2, <1>3
  <2> QED  BY <1>3, <1>4, <2>1, <2>2, <2>3
<1>6. /\ LinkInv' /\ TreeInv'
      /\ \A u \in Nodes : low'[u] \in -1 .. counter - 1
      /\ \A i \in 1 .. Len(calls') : calls'[i].todo \subseteq Succs(At(i)')
  <2>1. \A u \in onStack : u \in onStack' <=> index[u] < index[v]
    <3>1. \A u \in onStack : index[u] \in Int
      BY <1>2, <1>3
    <3> QED  BY <1>1, <1>3, <1>4, <3>1
  <2>2. onStack' \subseteq onStack
    BY <1>1
  <2> HIDE DEF v
  <2> QED  BY <1>1, <2>1, <2>2, ReturnsExact DEF v
<1>7. /\ (\A u : Visited(u)' = Visited(u)) /\ (\A u : Succs(u)' = Succs(u))
      /\ (\A u, w : Reaches(u, w)' <=> Reaches(u, w))
  BY <1>1, SameReaches DEF Visited, Succs, Edges
<1> HIDE DEF v
<1>8. \A u \in Nodes : sccOf'[u] = IF u \in C THEN Len(sccs) ELSE sccOf[u]
  BY <1>1
<1>9. CountInv'
  <2>1. Len(sccs) + 1 <= Cardinality({u \in Nodes : sccOf'[u] # -1})
    <3> DEFINE after == {u \in Nodes : sccOf'[u] # -1}
    <3>1. numbered \cup {v} \subseteq after /\ v \notin numbered
      BY <1>2, <1>3, <1>4, <1>5, <1>8
    <3>2. Len(sccs) <= Cardinality(numbered)
      BY DEF ExactInv, CountInv
    <3>3. IsFiniteSet(numbered) /\ IsFiniteSet(after) /\ Cardinality(numbered) \in Nat
      BY FiniteNodes
    <3> HIDE DEF numbered, after
    <3>4. Cardinality(numbered \cup {v}) = Cardinality(numbered) + 1
      BY <3>1, <3>3, FS_AddElement
    <3>5. Cardinality(numbered \cup {v}) <= Cardinality(after)
      BY <3>1, <3>3, FS_Subset
    <3>6. Cardinality(after) \in Nat
      BY <3>3, FS_CardinalityType
    <3> QED  BY <1>2, <3>2, <3>3, <3>4, <3>5, <3>6 DEF after
  <2>2. Len(sccs') = Len(sccs) + 1
    BY <1>1, <1>2, <1>5
  <2>3. counter' = Cardinality({u \in Nodes : Visited(u)'}) /\ includeControl' \in BOOLEAN
    BY <1>1, <1>7 DEF ExactInv, CountInv
  <2> QED  BY <1>1, <1>6, <1>7, <2>1, <2>2, <2>3 DEF CountInv
<1>10. \A u \in Nodes : sccOf[u] # -1 => sccOf[u] \in 0 .. Len(sccs) - 1
  BY DEF IInv, NumberInv
<1>11. ASSUME NEW u \in Nodes, NEW w \in Nodes, sccOf'[u] # -1, sccOf'[u] = sccOf'[w]
       PROVE  Reaches(u, w)
  <2>1. CASE u \in C
    <3>1. w \in C
      BY <1>2, <1>8, <1>10, <1>11, <2>1
    <3> QED  BY <1>5, <2>1, <3>1, ReachesOn
  <2>2. CASE u \notin C
    <3>1. w \notin C
      BY <1>2, <1>8, <1>10, <1>11, <2>2
    <3>2. sccOf[u] # -1 /\ sccOf[u] = sccOf[w]
      BY <1>8, <1>11, <2>2, <3>1
    <3> QED  BY <3>2 DEF ExactInv, ComponentInv
  <2> QED  BY <2>1, <2>2
<1>12. ASSUME NEW i \in 1 .. Len(sccs) + 1
       PROVE  /\ sccs'[i] = {u \in Nodes : sccOf'[u] = i - 1}
              /\ isCyclic'[i] <=> HasCycle(sccs'[i])
  <2>1. /\ \A j \in 1 .. Len(sccs) : sccs'[j] = sccs[j] /\ isCyclic'[j] = isCyclic[j]
        /\ sccs'[Len(sccs) + 1] = C
    BY <1>1, <1>2, <1>5
  <2>2. isCyclic'[Len(sccs) + 1] <=> HasCycle(C)
    <3>1. HasCycle(C) \in BOOLEAN
      BY DEF HasCycle
    <3> QED  BY <1>1, <1>2, <3>1
  <2>3. CASE i \in 1 .. Len(sccs)
    <3>1. sccs[i] = {u \in Nodes : sccOf[u] = i - 1} /\ (isCyclic[i] <=> HasCycle(sccs[i]))
      BY <2>3 DEF ExactInv, ComponentInv
    <3>2. ASSUME NEW u \in Nodes PROVE sccOf'[u] = i - 1 <=> sccOf[u] = i - 1
      <4>1. CASE u \in C
        BY <1>2, <1>3, <1>4, <1>8, <2>3, <4>1
      <4>2. CASE u \notin C
        BY <1>8, <4>2
      <4> QED  BY <4>1, <4>2
    <3> QED  BY <2>1, <2>3, <3>1, <3>2
  <2>4. CASE i = Len(sccs) + 1
    <3>1. ASSUME NEW u \in Nodes PROVE sccOf'[u] = i - 1 <=> u \in C
      <4>1. sccOf[u] # Len(sccs)
        BY <1>2, <1>10
      <4> QED  BY <1>2, <1>8, <2>4, <4>1
    <3>2. C = {u \in Nodes : sccOf'[u] = i - 1}
      BY <1>5, <3>1
    <3> QED  BY <2>1, <2>2, <2>4, <3>2
  <2> QED  BY <1>2, <2>3, <2>4
<1>13. ComponentInv'
  <2>1. \A S : HasCycle(S)' <=> HasCycle(S)
    BY <1>7 DEF HasCycle
  <2>2. Len(sccs') = Len(sccs) + 1 /\ Len(isCyclic') = Len(sccs) + 1
    BY <1>1, <1>2, <1>5
  <2>3. isCyclic' \in Seq(BOOLEAN)
    <3>1. HasCycle(C) \in BOOLEAN
      BY DEF HasCycle
    <3> QED  BY <1>1, <1>2, <3>1
  <2>4. \A i \in 1 .. Len(sccs') : isCyclic'[i] <=> HasCycle(sccs'[i])
    BY <1>12, <2>2
  <2>5. \A i \in 1 .. Len(sccs') : isCyclic'[i] <=> HasCycle(sccs[i])'
    BY <1>7, <2>4 DEF HasCycle
  <2> QED  BY <1>7, <1>11, <1>12, <2>2, <2>3, <2>5 DEF ComponentInv
<1> QED  BY <1>6, <1>9, <1>13 DEF ExactInv

---------------------------------------------------------------------------
(* The theorems. *)

LEMMA Invariance == Spec => []IInv
<1>1. IInv /\ UNCHANGED vars => IInv'
  <2> SUFFICES ASSUME IInv, UNCHANGED vars PROVE IInv'
    OBVIOUS
  <2>1. /\ UNCHANGED <<dep, ctrl, includeControl, index, low, counter, stack, onStack>>
        /\ UNCHANGED <<calls, sccs, sccOf>>
    BY DEF vars, inputVars, searchVars, stackVars, resultVars
  <2>2. SearchTypes' /\ NumberInv' /\ StackInv' /\ CallsInv'
    BY <2>1 DEF IInv, SearchTypes, NumberInv, StackInv, CallsInv, Visited, At
  <2>3. \A u, w : Looked(u, w)' = Looked(u, w)
    BY <2>1 DEF Looked, Pending, Visited, Succs, Edges, At
  <2>4. LookedInv' /\ SinksFirst'
    BY <2>1, <2>3 DEF IInv, LookedInv, SinksFirst, Visited, Edges
  <2>5. LowInv'
    BY <2>1, <2>3 DEF IInv, LowInv, At
  <2> QED  BY <2>2, <2>4, <2>5 DEF IInv
<1>2. IInv /\ [Next]_vars => IInv'
  BY <1>1, StartRootStep, DescendStep, LookAtStep, ReturnInnerStep, ReturnRootStep
     DEF Next, Finished
<1> QED  BY <1>2, InitCorrect, PTL DEF Spec

(* When a component gets its number, everything its nodes depend on has a  *)
(* number that is not larger: the numbering is a reverse topological order *)
(* of the components.                                                      *)
THEOREM NumberedSinksFirst == Spec => []SinksFirst
<1>1. IInv => SinksFirst
  BY DEF IInv
<1> QED  BY <1>1, Invariance, PTL

LEMMA ExactInvariance == Spec => []ExactInv
<1>1. ExactInv /\ UNCHANGED vars => ExactInv'
  <2> SUFFICES ASSUME ExactInv, UNCHANGED vars PROVE ExactInv'
    OBVIOUS
  <2>1. /\ UNCHANGED <<inputVars, index, low, counter, stack, onStack, includeControl>>
        /\ UNCHANGED <<calls, sccs, sccOf, isCyclic>>
    BY DEF vars, inputVars, searchVars, stackVars, resultVars
  <2>2. /\ (\A u : Visited(u)' = Visited(u)) /\ (\A u : Succs(u)' = Succs(u))
        /\ (\A u, w : Reaches(u, w)' <=> Reaches(u, w))
    BY <2>1, SameReaches DEF Visited, Succs, Edges, inputVars
  <2>3. CountInv'
    BY <2>1, <2>2 DEF ExactInv, CountInv, At
  <2>4. LinkInv' /\ TreeInv'
    BY <2>1, <2>2 DEF ExactInv, LinkInv, TreeInv, At
  <2>5. ComponentInv'
    BY <2>1, <2>2 DEF ExactInv, ComponentInv, HasCycle
  <2> QED  BY <2>3, <2>4, <2>5 DEF ExactInv
<1>2. IInv /\ ExactInv /\ [Next]_vars => ExactInv'
  BY <1>1, StartRootExact, DescendExact, LookAtExact, ReturnInnerExact, ReturnRootExact
     DEF Next, Finished
<1> QED  BY <1>2, InitExact, Invariance, PTL DEF Spec

(* The recursion never links into a finished component: the stack holds    *)
(* exactly the visited nodes without one, the active calls' nodes among    *)
(* them, and a low link is the number of a node on it that its node        *)
(* reaches.                                                                *)
THEOREM LowLinksStay == Spec => []LowLinksStayOnStack
<1>1. ASSUME IInv, ExactInv PROVE LowLinksStayOnStack
  <2>1. counter \in Nat /\ counter <= NumNodes /\ NumNodes \in Nat
        /\ Len(sccs) \in Nat /\ Len(sccs) <= NumNodes
    <3>1. {v \in Nodes : Visited(v)} \subseteq Nodes /\ {v \in Nodes : sccOf[v] # -1} \subseteq Nodes
      OBVIOUS
    <3>2. /\ Cardinality({v \in Nodes : sccOf[v] # -1}) \in Nat
          /\ Cardinality({v \in Nodes : sccOf[v] # -1}) <= NumNodes
          /\ Cardinality({v \in Nodes : Visited(v)}) <= NumNodes
      BY <3>1, FiniteNodes
    <3>3. /\ counter = Cardinality({v \in Nodes : Visited(v)}) /\ counter \in Nat
          /\ Len(sccs) <= Cardinality({v \in Nodes : sccOf[v] # -1}) /\ Len(sccs) \in Nat
      BY <1>1 DEF IInv, SearchTypes, ExactInv, CountInv
    <3> QED  BY <3>2, <3>3, TarjanAssumption
  <2>2. index \in [Nodes -> -1 .. NumNodes - 1]
    <3>1. \A v \in Nodes : index[v] \in -1 .. NumNodes - 1
      BY <1>1, <2>1 DEF IInv, NumberInv, Visited
    <3> QED  BY <1>1, <3>1 DEF IInv, SearchTypes
  <2>3. low \in [Nodes -> -1 .. NumNodes - 1]
    <3>1. \A v \in Nodes : low[v] \in -1 .. NumNodes - 1
      BY <1>1, <2>1 DEF ExactInv, CountInv
    <3> QED  BY <1>1, <3>1 DEF IInv, SearchTypes
  <2>4. sccOf \in [Nodes -> -1 .. NumNodes - 1]
    <3>1. ASSUME NEW v \in Nodes PROVE sccOf[v] \in -1 .. NumNodes - 1
      <4>1. sccOf[v] = -1 \/ sccOf[v] \in 0 .. Len(sccs) - 1
        BY <1>1 DEF IInv, NumberInv
      <4> QED  BY <2>1, <4>1
    <3> QED  BY <1>1, <3>1 DEF IInv, SearchTypes
  <2>5. TypeOK
    BY <1>1, <2>1, <2>2, <2>3, <2>4
       DEF TypeOK, IInv, SearchTypes, StackInv, ExactInv, CountInv, ComponentInv, Frames
  <2>6. \A v \in onStack : \E w \in onStack : low[v] = index[w] /\ Reaches(v, w)
    BY <1>1 DEF ExactInv, LinkInv
  <2>7. \A i \in 1 .. Len(calls) : calls[i].node \in onStack
    BY <1>1 DEF IInv, CallsInv, At
  <2>8. onStack = {v \in Nodes : Visited(v) /\ sccOf[v] = -1}
    BY <1>1 DEF IInv, StackInv
  <2> QED  BY <2>5, <2>6, <2>7, <2>8 DEF LowLinksStayOnStack
<1> QED  BY <1>1, Invariance, ExactInvariance, PTL

(* When no call is active, no node is left on the stack: its lowest node   *)
(* would be the root of a component.                                       *)
LEMMA NothingLeft == ASSUME IInv, ExactInv, calls = <<>> PROVE onStack = {}
<1> SUFFICES ASSUME onStack # {} PROVE FALSE
  OBVIOUS
<1>1. /\ onStack \subseteq Nodes /\ index \in [Nodes -> Int] /\ counter \in Nat
      /\ \A u \in onStack : index[u] \in 0 .. counter - 1
  BY DEF IInv, StackInv, SearchTypes, NumberInv
<1>2. {index[u] : u \in onStack} # {} /\ {index[u] : u \in onStack} \in SUBSET Nat
  BY <1>1
<1>3. PICK m \in {index[u] : u \in onStack} : \A n \in {index[u] : u \in onStack} : m <= n
  BY <1>2, Smallest
<1>4. PICK u \in onStack : \A w \in onStack : index[u] <= index[w]
  BY <1>3
<1>5. PICK w \in onStack : low[u] = index[w] /\ index[w] <= index[u]
  BY DEF ExactInv, LinkInv
<1>6. low[u] # index[u]
  BY DEF ExactInv, LinkInv
<1>7. index[u] \in Int /\ index[w] \in Int /\ index[u] <= index[w]
  BY <1>1, <1>4
<1> QED  BY <1>5, <1>6, <1>7

(* A finished node reaches only nodes with a number that is not larger.    *)
LEMMA ReachesDown ==
  ASSUME SinksFirst, \A e \in Edges : e[1] \in Nodes /\ e[2] \in Nodes,
         NEW u \in Nodes, NEW v \in Nodes, Reaches(u, v),
         \A x \in Nodes : sccOf[x] \in Int /\ sccOf[x] # -1
  PROVE  sccOf[v] <= sccOf[u]
<1> DEFINE S == {x \in Nodes : sccOf[x] <= sccOf[u]}
<1>1. Closed(S)
  <2> SUFFICES ASSUME NEW e \in Edges, e[1] \in S PROVE e[2] \in S
    BY DEF Closed
  <2>1. sccOf[e[2]] <= sccOf[e[1]] /\ e[2] \in Nodes
    BY DEF SinksFirst
  <2> QED  BY <2>1
<1>2. u \in S /\ S \in SUBSET Nodes
  OBVIOUS
<1> HIDE DEF S
<1>3. v \in S
  BY <1>1, <1>2 DEF Reaches
<1> QED  BY <1>3 DEF S

(* When the search is over, its result is exactly the partition by mutual  *)
(* reachability, every node has a component, and a component is flagged    *)
(* cyclic exactly when its nodes lie on a cycle.                           *)
THEOREM ComponentsAreExact == Spec => []SCCsAreExact
<1>1. ASSUME IInv, ExactInv, Done
      PROVE  /\ \A u, v \in Nodes : sccOf[u] = sccOf[v] <=> Reaches(u, v) /\ Reaches(v, u)
             /\ \A i \in 1 .. Len(sccs) : sccs[i] = {v \in Nodes : sccOf[v] = i - 1}
             /\ \A v \in Nodes :
                  /\ sccOf[v] # -1
                  /\ isCyclic[sccOf[v] + 1] <=> \E w \in Succs(v) : Reaches(w, v)
  <2>1. /\ sccOf \in [Nodes -> Int] /\ Edges \subseteq Nodes \X Nodes /\ SinksFirst
        /\ Len(sccs) \in Nat
    BY <1>1, EdgeTypes DEF IInv, SearchTypes
  <2>2. \A v \in Nodes : sccOf[v] # -1
    BY <1>1, NothingLeft DEF Done, IInv, StackInv
  <2>3. \A e \in Edges : e[1] \in Nodes /\ e[2] \in Nodes
    BY <2>1
  <2>4. ASSUME NEW u \in Nodes, NEW v \in Nodes
        PROVE  sccOf[u] = sccOf[v] <=> Reaches(u, v) /\ Reaches(v, u)
    <3>1. ASSUME sccOf[u] = sccOf[v] PROVE Reaches(u, v) /\ Reaches(v, u)
      BY <1>1, <2>2, <3>1 DEF ExactInv, ComponentInv
    <3>2. ASSUME Reaches(u, v), Reaches(v, u) PROVE sccOf[u] = sccOf[v]
      <4>1. sccOf[v] <= sccOf[u] /\ sccOf[u] <= sccOf[v]
        BY <2>1, <2>2, <2>3, <3>2, ReachesDown
      <4> QED  BY <2>1, <4>1
    <3> QED  BY <3>1, <3>2
  <2>5. ASSUME NEW v \in Nodes
        PROVE  isCyclic[sccOf[v] + 1] <=> \E w \in Succs(v) : Reaches(w, v)
    <3> DEFINE C == {u \in Nodes : sccOf[u] = sccOf[v]}
    <3>1. isCyclic[sccOf[v] + 1] <=> HasCycle(C)
      <4>1. PICK i : i = sccOf[v] + 1
        OBVIOUS
      <4>2. i \in 1 .. Len(sccs) /\ i - 1 = sccOf[v]
        BY <1>1, <2>1, <2>2, <4>1 DEF IInv, NumberInv
      <4>3. sccs[i] = C /\ (isCyclic[i] <=> HasCycle(sccs[i]))
        BY <1>1, <4>2 DEF ExactInv, ComponentInv
      <4> QED  BY <4>1, <4>3
    <3>2. \A u : u \in C <=> u \in Nodes /\ Reaches(u, v) /\ Reaches(v, u)
      BY <2>4
    <3>3. v \in C /\ IsFiniteSet(C) /\ Cardinality(C) \in Nat
      BY FiniteNodes
    <3> HIDE DEF C
    <3>4. Cardinality(C) > 1 <=> \E u \in C : u # v
      <4>1. ASSUME NEW u \in C, u # v PROVE Cardinality(C) > 1
        <5>1. Cardinality(C) # 1
          BY <3>3, <4>1, FS_Singleton
        <5>2. Cardinality(C) # 0
          BY <3>3, FS_EmptySet
        <5> QED  BY <3>3, <5>1, <5>2
      <4>2. ASSUME \A u \in C : u = v PROVE ~(Cardinality(C) > 1)
        <5>1. C = {v}
          BY <3>3, <4>2
        <5> QED  BY <5>1, FS_Singleton
      <4> QED  BY <4>1, <4>2
    <3>5. ASSUME HasCycle(C) PROVE \E w \in Succs(v) : Reaches(w, v)
      <4>1. CASE \E u \in C : u # v
        <5>1. PICK u \in C : u # v
          BY <4>1
        <5>2. PICK w \in Succs(v) : Reaches(w, u)
          BY <2>1, <3>2, <5>1, ReachesByEdge
        <5> QED  BY <3>2, <5>2, ReachesOn
      <4>2. CASE \A u \in C : u = v
        BY <3>4, <3>5, <4>2, ReachesSelf DEF HasCycle
      <4> QED  BY <4>1, <4>2
    <3>6. ASSUME NEW w \in Succs(v), Reaches(w, v) PROVE HasCycle(C)
      <4>1. w \in Nodes /\ Reaches(v, w)
        BY <3>6, ReachesNext DEF Succs
      <4>2. w \in C
        BY <3>2, <3>6, <4>1
      <4> QED  BY <3>3, <3>4, <4>2 DEF HasCycle
    <3> QED  BY <3>1, <3>5, <3>6
  <2>6. \A i \in 1 .. Len(sccs) : sccs[i] = {v \in Nodes : sccOf[v] = i - 1}
    BY <1>1 DEF ExactInv, ComponentInv
  <2> QED  BY <2>2, <2>4, <2>5, <2>6
<1>2. IInv /\ ExactInv => SCCsAreExact
  BY <1>1 DEF SCCsAreExact
<1> QED  BY <1>2, Invariance, ExactInvariance, PTL

---------------------------------------------------------------------------
(* The control edges. *)

(* Control goes from a to the exit without b exactly by way of a successor *)
(* that is the exit, or from which it does.                                *)
LEMMA OneStep ==
  ASSUME flow \subseteq Blocks \X (Blocks \cup {Exit}),
         NEW a \in Blocks, NEW b \in Blocks \ {a}
  PROVE  LeavesWithout(b, a) <=> \E s \in Targets(a) : MayLeaveWithout(b, s)
<1> DEFINE All == Blocks \cup {Exit}
           F == {e \in flow : b \notin {e[1], e[2]}}
           Kept(S) == \A e \in F : e[1] \in S => e[2] \in S
<1>1. Exit \notin Blocks
  BY DEF Blocks, Exit
<1>2. \A e \in flow : e = <<e[1], e[2]>> /\ e[1] \in Blocks /\ e[2] \in All
  OBVIOUS
<1>3. \A x : LeavesWithout(b, x) <=> \A S \in SUBSET All : x \in S /\ Kept(S) => Exit \in S
  BY DEF LeavesWithout, Leads
<1>4. \A e \in F : MayLeaveWithout(b, e[2]) => LeavesWithout(b, e[1])
  <2> SUFFICES ASSUME NEW e \in F, MayLeaveWithout(b, e[2]), NEW S \in SUBSET All, e[1] \in S, Kept(S)
               PROVE  Exit \in S
    BY <1>3
  <2>1. e[2] \in S
    OBVIOUS
  <2>2. CASE e[2] = Exit
    BY <2>1, <2>2
  <2>3. CASE LeavesWithout(b, e[2])
    BY <1>3, <2>1, <2>3
  <2> QED  BY <2>2, <2>3 DEF MayLeaveWithout
<1>5. ASSUME NEW s \in Targets(a), MayLeaveWithout(b, s) PROVE LeavesWithout(b, a)
  <2>1. s # b
    BY <1>1, <1>5 DEF MayLeaveWithout
  <2>2. <<a, s>> \in F
    BY <2>1 DEF Targets
  <2> QED  BY <1>4, <1>5, <2>2
<1>6. ASSUME \A s \in Targets(a) : ~MayLeaveWithout(b, s) PROVE ~LeavesWithout(b, a)
  <2> DEFINE S == {a} \cup {x \in Blocks : ~LeavesWithout(b, x)}
  <2>1. S \in SUBSET All /\ a \in S /\ Exit \notin S
    BY <1>1
  <2>2. ASSUME NEW e \in F, e[1] \in S PROVE e[2] \in S
    <3>1. ~MayLeaveWithout(b, e[2])
      <4>1. CASE e[1] = a
        <5>1. e[2] \in Targets(a)
          BY <1>2, <4>1 DEF Targets
        <5> QED  BY <1>6, <5>1
      <4>2. CASE ~LeavesWithout(b, e[1])
        BY <1>4, <4>2
      <4> QED  BY <2>2, <4>1, <4>2
    <3>2. e[2] # b /\ e[2] \in All
      BY <1>2
    <3> QED  BY <3>1, <3>2 DEF MayLeaveWithout
  <2>3. Kept(S)
    BY <2>2
  <2> HIDE DEF S, Kept
  <2> QED  BY <1>3, <2>1, <2>3
<1> QED  BY <1>5, <1>6

(* What the property asks of a pair. *)
IsDecision(a, b) ==
  /\ a # b
  /\ \E s \in Targets(a) : ~MayLeaveWithout(b, s)
  /\ \E s \in Targets(a) : MayLeaveWithout(b, s)

(* The code's conditions are the property's. *)
LEMMA DecidedIsExact ==
  ASSUME flow \subseteq Blocks \X (Blocks \cup {Exit}),
         NEW a \in Blocks, NEW b \in Blocks
  PROVE  /\ b \in Decided(a) <=> IsDecision(a, b)
         /\ IsDecision(a, b) => ~(Cardinality(Targets(a)) < 2)
<1>1. \A x : PostDominates(b, x) <=> ~MayLeaveWithout(b, x)
  BY DEF PostDominates, MayLeaveWithout, Blocks, Exit
<1>2. a # b => (PostDominates(b, a) <=> ~LeavesWithout(b, a))
  BY DEF PostDominates, Blocks, Exit
<1>3. b \in Decided(a) <=> IsDecision(a, b)
  BY <1>1, <1>2, OneStep DEF Decided, IsDecision
<1>4. ASSUME IsDecision(a, b) PROVE ~(Cardinality(Targets(a)) < 2)
  <2>1. PICK s \in Targets(a), t \in Targets(a) : s # t
    BY <1>4 DEF IsDecision
  <2>2. IsFiniteSet(Targets(a))
    <3>1. IsFiniteSet(0 .. NumBlocks)
      BY FS_Interval, ControlDepsAssumption
    <3>2. Targets(a) \in SUBSET (0 .. NumBlocks)
      BY ControlDepsAssumption DEF Targets, Blocks, Exit
    <3> QED  BY <3>1, <3>2, FS_Subset
  <2>3. IsFiniteSet({s, t}) /\ Cardinality({s, t}) = 2
    <3>1. IsFiniteSet({s}) /\ Cardinality({s}) = 1
      <4>1. IsFiniteSet({}) /\ Cardinality({}) = 0
        BY FS_EmptySet
      <4>2. IsFiniteSet({} \cup {s}) /\ Cardinality({} \cup {s}) = 1
        <5>1. s \notin {} /\ 0 + 1 = 1
          OBVIOUS
        <5> QED  BY <4>1, <5>1, FS_AddElement
      <4>3. {} \cup {s} = {s}
        OBVIOUS
      <4> QED  BY <4>2, <4>3
    <3>2. t \notin {s} /\ 1 + 1 = 2
      BY <2>1
    <3>3. IsFiniteSet({s} \cup {t}) /\ Cardinality({s} \cup {t}) = Cardinality({s}) + 1
      BY <3>1, <3>2, FS_AddElement
    <3>4. {s} \cup {t} = {s, t}
      OBVIOUS
    <3> QED  BY <3>1, <3>2, <3>3, <3>4
  <2>4. {s, t} \in SUBSET Targets(a)
    OBVIOUS
  <2>5. Cardinality({s, t}) <= Cardinality(Targets(a)) /\ Cardinality(Targets(a)) \in Nat
    BY <2>2, <2>4, FS_Subset, FS_CardinalityType
  <2> QED  BY <2>3, <2>5
<1> QED  BY <1>3, <1>4

(* The blocks before this one have the edges they should have. *)
CtrlInv ==
  /\ ControlTypeOK
  /\ \A e \in Blocks \X Blocks : e \in ctrlEdges <=> e[1] < block /\ IsDecision(e[1], e[2])

LEMMA CtrlInit == InitControl => CtrlInv
<1> SUFFICES ASSUME InitControl PROVE CtrlInv
  OBVIOUS
<1>1. flow \subseteq Blocks \X (Blocks \cup {Exit})
  <2>1. PICK forward \in ForwardEdges, back \in BackEdges, out \in SUBSET ExitEdges \ {{}} :
          flow = forward \cup {back} \cup out
    BY DEF InitControl
  <2>2. forward \subseteq Blocks \X Blocks
    BY DEF ForwardEdges
  <2>3. back \in Blocks \X Blocks
    BY ControlDepsAssumption DEF BackEdges, Blocks
  <2>4. out \subseteq Blocks \X {Exit}
    BY DEF ExitEdges
  <2> QED  BY <2>1, <2>2, <2>3, <2>4
<1>2. ControlTypeOK
  BY <1>1, ControlDepsAssumption DEF InitControl, ControlTypeOK
<1>3. \A e \in Blocks \X Blocks : ~(e[1] < block)
  BY DEF InitControl, Blocks
<1> QED  BY <1>2, <1>3 DEF CtrlInv, InitControl

LEMMA CtrlVisit == CtrlInv /\ VisitBlock => CtrlInv'
<1> SUFFICES ASSUME CtrlInv, VisitBlock PROVE CtrlInv'
  OBVIOUS
<1>1. block \in Blocks /\ block' = block + 1 /\ flow' = flow /\ block \in Nat
  BY ControlDepsAssumption DEF CtrlInv, ControlTypeOK, VisitBlock, Blocks
<1>2. \A b \in Blocks : <<block, b>> \in ctrlEdges' <=> IsDecision(block, b)
  <2> SUFFICES ASSUME NEW b \in Blocks PROVE <<block, b>> \in ctrlEdges' <=> IsDecision(block, b)
    OBVIOUS
  <2>1. <<block, b>> \notin ctrlEdges
    BY <1>1 DEF CtrlInv
  <2>2. b \in Decided(block) <=> IsDecision(block, b)
    BY <1>1, DecidedIsExact DEF CtrlInv, ControlTypeOK
  <2>3. IsDecision(block, b) => ~(Cardinality(Targets(block)) < 2)
    BY <1>1, DecidedIsExact DEF CtrlInv, ControlTypeOK
  <2> QED  BY <2>1, <2>2, <2>3 DEF VisitBlock
<1>3. \A e \in Blocks \X Blocks : e[1] # block => (e \in ctrlEdges' <=> e \in ctrlEdges)
  BY DEF VisitBlock
<1>4. ctrlEdges' \subseteq Blocks \X Blocks
  <2>1. \A b \in Decided(block) : b \in Blocks
    BY DEF Decided
  <2> QED  BY <1>1, <2>1 DEF VisitBlock, CtrlInv, ControlTypeOK
<1>5. ControlTypeOK'
  BY <1>1, <1>4, ControlDepsAssumption DEF CtrlInv, ControlTypeOK, VisitBlock, Blocks
<1>6. \A a, b : IsDecision(a, b)' <=> IsDecision(a, b)
  BY <1>1 DEF IsDecision, MayLeaveWithout, LeavesWithout, Leads, Targets
<1>7. ASSUME NEW e \in Blocks \X Blocks
      PROVE  e \in ctrlEdges' <=> e[1] < block' /\ IsDecision(e[1], e[2])'
  <2>1. e = <<e[1], e[2]>> /\ e[1] \in Nat /\ e[2] \in Blocks
    BY DEF Blocks
  <2>2. CASE e[1] = block
    <3>1. e = <<block, e[2]>> /\ e[1] < block'
      BY <1>1, <2>1, <2>2
    <3>2. e \in ctrlEdges' <=> IsDecision(e[1], e[2])
      BY <1>2, <2>1, <2>2, <3>1
    <3> QED  BY <1>6, <3>1, <3>2
  <2>3. CASE e[1] # block
    <3>1. e[1] < block <=> e[1] < block'
      BY <1>1, <2>1, <2>3
    <3> QED  BY <1>3, <1>6, <2>3, <3>1 DEF CtrlInv
  <2> QED  BY <2>2, <2>3
<1> QED  BY <1>5, <1>7 DEF CtrlInv

(* The edges that addControlEdges adds are exactly the decisions. *)
THEOREM ControlEdgesAreExact == SpecControl => []EdgesAreDecisions
<1>1. CtrlInv /\ [NextControl]_controlVars => CtrlInv'
  <2> SUFFICES ASSUME CtrlInv, [NextControl]_controlVars PROVE CtrlInv'
    OBVIOUS
  <2>1. CASE VisitBlock
    BY <2>1, CtrlVisit
  <2>2. CASE UNCHANGED controlVars
    BY <2>2 DEF controlVars, CtrlInv, ControlTypeOK, IsDecision, MayLeaveWithout, LeavesWithout, Leads, Targets
  <2> QED  BY <2>1, <2>2 DEF NextControl, ControlFinished
<1>2. CtrlInv => EdgesAreDecisions
  <2> SUFFICES ASSUME CtrlInv, block > NumBlocks
               PROVE  ctrlEdges = {e \in Blocks \X Blocks : IsDecision(e[1], e[2])}
    BY DEF CtrlInv, EdgesAreDecisions, IsDecision
  <2>1. \A e \in Blocks \X Blocks : e[1] < block
    BY ControlDepsAssumption DEF CtrlInv, ControlTypeOK, Blocks
  <2> QED  BY <2>1 DEF CtrlInv, ControlTypeOK
<1> QED  BY <1>1, <1>2, CtrlInit, PTL DEF SpecControl
=============================================================================
