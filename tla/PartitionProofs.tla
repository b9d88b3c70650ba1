-------------------------- MODULE PartitionProofs --------------------------
(***************************************************************************)
(* TLAPS proofs about Partition, for every graph of SCCs, every assignment *)
(* of costs, every number of stages and every order of out-edges.          *)
(***************************************************************************)
EXTENDS Partition, FiniteSetTheorems, SequenceTheorems, Arithmetic

---------------------------------------------------------------------------
(* Sequences without repetition. *)

In(q, v) == \E k \in 1 .. Len(q) : q[k] = v
Distinct(q) == \A i, j \in 1 .. Len(q) : i # j => q[i] # q[j]

LEMMA EmptySequence == Distinct(<<>>) /\ \A v : ~In(<<>>, v)
  BY DEF Distinct, In

LEMMA SequenceOfSet ==
  ASSUME NEW S, IsFiniteSet(S), NEW q \in SetToSeqs(S)
  PROVE  q \in Seq(S) /\ Distinct(q) /\ \A v : In(q, v) <=> v \in S
<1> DEFINE m == Cardinality(S)
<1>1. m \in Nat
  BY FS_CardinalityType
<1>2. q \in [1 .. m -> S] /\ \A i, j \in 1 .. m : i # j => q[i] # q[j]
  BY DEF SetToSeqs
<1>3. q \in Injection(1 .. m, S)
  BY <1>2 DEF Injection, IsInjective
<1>4. Cardinality(1 .. m) = m
  <2>1. Cardinality(1 .. m) = IF 1 > m THEN 0 ELSE m - 1 + 1
    BY <1>1, FS_Interval
  <2> HIDE DEF m
  <2> QED  BY <1>1, <2>1
<1>5. q \in Surjection(1 .. m, S)
  BY <1>3, <1>4, FS_Injection
<1> HIDE DEF m
<1>6. q \in Seq(S) /\ Len(q) = m
  BY <1>1, <1>2
<1>7. \A v : In(q, v) <=> v \in S
  BY <1>2, <1>5, <1>6 DEF In, Surjection
<1> QED  BY <1>2, <1>6, <1>7 DEF Distinct

LEMMA HeadAndTail ==
  ASSUME NEW S, NEW q \in Seq(S), q # <<>>, Distinct(q)
  PROVE  /\ Head(q) \in S /\ Tail(q) \in Seq(S) /\ Distinct(Tail(q))
         /\ ~In(Tail(q), Head(q))
         /\ \A v : In(q, v) <=> v = Head(q) \/ In(Tail(q), v)
<1> DEFINE t == Tail(q)
<1>1. /\ Len(q) \in Nat /\ Len(q) > 0 /\ Head(q) = q[1]
      /\ Head(q) \in S /\ t \in Seq(S) /\ Len(t) = Len(q) - 1
      /\ \A k \in 1 .. Len(t) : t[k] = q[k + 1]
  BY HeadTailProperties
<1> HIDE DEF t
<1>2. \A k \in 1 .. Len(t) : k + 1 \in 1 .. Len(q) /\ k + 1 # 1
  BY <1>1
<1>3. Distinct(t) /\ ~In(t, Head(q))
  <2>1. 1 \in 1 .. Len(q)
    BY <1>1
  <2>2. ~In(t, Head(q))
    BY <1>1, <1>2, <2>1 DEF In, Distinct
  <2>3. ASSUME NEW i \in 1 .. Len(t), NEW j \in 1 .. Len(t), i # j PROVE t[i] # t[j]
    <3>1. i + 1 # j + 1
      BY <1>1, <2>3
    <3> QED  BY <1>1, <1>2, <3>1 DEF Distinct
  <2> QED  BY <2>2, <2>3 DEF Distinct
<1>4. ASSUME NEW v PROVE In(q, v) <=> v = Head(q) \/ In(t, v)
  <2>1. \A k \in 1 .. Len(q) : k = 1 \/ k - 1 \in 1 .. Len(t)
    BY <1>1
  <2>2. \A k \in 1 .. Len(q) : k - 1 + 1 = k
    BY <1>1
  <2>3. 1 \in 1 .. Len(q)
    BY <1>1
  <2>4. ASSUME NEW k \in 1 .. Len(q), q[k] = v PROVE v = Head(q) \/ In(t, v)
    <3>1. CASE k = 1
      BY <1>1, <2>4, <3>1
    <3>2. CASE k - 1 \in 1 .. Len(t)
      <4>1. t[k - 1] = v
        BY <1>1, <2>2, <2>4, <3>2
      <4> QED  BY <3>2, <4>1 DEF In
    <3> QED  BY <2>1, <3>1, <3>2
  <2>5. In(t, v) => In(q, v)
    BY <1>1, <1>2 DEF In
  <2>6. v = Head(q) => In(q, v)
    BY <1>1, <2>3 DEF In
  <2> QED  BY <2>4, <2>5, <2>6 DEF In
<1> QED  BY <1>1, <1>3, <1>4 DEF t

LEMMA Concatenation ==
  ASSUME NEW S, NEW q \in Seq(S), NEW r \in Seq(S)
  PROVE  /\ q \o r \in Seq(S)
         /\ \A v : In(q \o r, v) <=> In(q, v) \/ In(r, v)
         /\ Distinct(q) /\ Distinct(r) /\ (\A v : ~(In(q, v) /\ In(r, v)))
              => Distinct(q \o r)
<1> DEFINE c == q \o r
<1>1. /\ c \in Seq(S) /\ Len(q) \in Nat /\ Len(r) \in Nat /\ Len(c) = Len(q) + Len(r)
      /\ \A k \in 1 .. Len(q) + Len(r) : c[k] = IF k <= Len(q) THEN q[k] ELSE r[k - Len(q)]
  BY ConcatProperties
<1> HIDE DEF c
<1>2. \A k \in 1 .. Len(c) : \/ k \in 1 .. Len(q) /\ c[k] = q[k]
                             \/ k - Len(q) \in 1 .. Len(r) /\ c[k] = r[k - Len(q)]
  BY <1>1
<1>3. \A k \in 1 .. Len(q) : k \in 1 .. Len(c) /\ c[k] = q[k]
  BY <1>1
<1>4. \A k \in 1 .. Len(r) : k + Len(q) \in 1 .. Len(c) /\ c[k + Len(q)] = r[k]
  BY <1>1
<1>5. \A v : In(c, v) <=> In(q, v) \/ In(r, v)
  BY <1>2, <1>3, <1>4 DEF In
<1>6. ASSUME Distinct(q), Distinct(r), \A v : ~(In(q, v) /\ In(r, v)) PROVE Distinct(c)
  <2> SUFFICES ASSUME NEW i \in 1 .. Len(c), NEW j \in 1 .. Len(c), i # j
               PROVE  c[i] # c[j]
    BY DEF Distinct
  <2>1. CASE i \in 1 .. Len(q) /\ j \in 1 .. Len(q)
    BY <1>3, <1>6, <2>1 DEF Distinct
  <2>2. CASE i \notin 1 .. Len(q) /\ j \notin 1 .. Len(q)
    <3>1. i - Len(q) # j - Len(q)
      BY <1>1
    <3> QED  BY <1>2, <1>6, <2>2, <3>1 DEF Distinct
  <2>3. CASE i \in 1 .. Len(q) /\ j \notin 1 .. Len(q)
    BY <1>2, <1>3, <1>6, <2>3 DEF In
  <2>4. CASE i \notin 1 .. Len(q) /\ j \in 1 .. Len(q)
    BY <1>2, <1>3, <1>6, <2>4 DEF In
  <2> QED  BY <2>1, <2>2, <2>3, <2>4
<1> QED  BY <1>1, <1>5, <1>6 DEF c

LEMMA OneAppended ==
  ASSUME NEW S, NEW q \in Seq(S), NEW u \in S
  PROVE  /\ Append(q, u) \in Seq(S) /\ Len(Append(q, u)) = Len(q) + 1
         /\ \A k \in 1 .. Len(q) : Append(q, u)[k] = q[k]
         /\ Append(q, u)[Len(q) + 1] = u
         /\ \A v : In(Append(q, u), v) <=> In(q, v) \/ v = u
         /\ Distinct(q) /\ ~In(q, u) => Distinct(Append(q, u))
<1> DEFINE c == Append(q, u)
<1>1. /\ c \in Seq(S) /\ Len(q) \in Nat /\ Len(c) = Len(q) + 1
      /\ \A k \in 1 .. Len(q) : c[k] = q[k]
      /\ c[Len(q) + 1] = u
  BY AppendProperties
<1> HIDE DEF c
<1>2. \A k \in 1 .. Len(c) : k \in 1 .. Len(q) \/ k = Len(q) + 1
  BY <1>1
<1>3. Len(q) + 1 \in 1 .. Len(c) /\ \A k \in 1 .. Len(q) : k \in 1 .. Len(c)
  BY <1>1
<1>4. \A v : In(c, v) <=> In(q, v) \/ v = u
  BY <1>1, <1>2, <1>3 DEF In
<1>5. Distinct(q) /\ ~In(q, u) => Distinct(c)
  BY <1>1, <1>2 DEF In, Distinct
<1> QED  BY <1>1, <1>4, <1>5 DEF c

---------------------------------------------------------------------------
(* The inductive invariant. *)

(* The types of what the stages are made of.  The costs do not matter      *)
(* here, as the greedy loop only ever stays or advances by one.            *)
StageTypes ==
  /\ n \in Nat /\ numStages \in Nat \ {0}
  /\ edges \subseteq {e \in SCCs \X SCCs : e[1] # e[2]}
  /\ pc \in {"guard", "sort", "fill", "done"}
  /\ inDeg \in [SCCs -> Nat] /\ ready \in Seq(SCCs) /\ order \in Seq(SCCs)
  /\ filled \in 0 .. n /\ curStage \in StageIds /\ stage \in [SCCs -> StageIds]
  /\ singleStage \in BOOLEAN

(* The predecessors the sort has not yet listed. *)
Missing(v) == {u \in Preds(v) : ~In(order, u)}

(* An SCC waits in the queue or is listed, once, as soon as no predecessor *)
(* is missing; until then its in-degree counts the missing ones.           *)
SortInv ==
  /\ pc = "guard" => order = <<>> /\ ready = <<>>
  /\ Distinct(order) /\ Distinct(ready)
  /\ \A v : ~(In(order, v) /\ In(ready, v))
  /\ \A v \in SCCs : In(order, v) \/ In(ready, v) => Missing(v) = {}
  /\ pc = "sort" => \A v \in SCCs : /\ inDeg[v] = Cardinality(Missing(v))
                                    /\ Missing(v) = {} => In(order, v) \/ In(ready, v)

(* The stages never decrease along the part of the order that is placed.   *)
FillInv ==
  /\ pc \in {"guard", "sort"} => filled = 0
  /\ pc = "fill" => Len(order) = n
  /\ pc = "done" /\ ~singleStage => Len(order) = n /\ filled = n
  /\ Len(order) # n => filled = 0
  /\ \A i \in 1 .. filled : stage[order[i]] <= curStage
  /\ \A i, j \in 1 .. filled : i < j => stage[order[i]] <= stage[order[j]]

IInv == StageTypes /\ OrderIsTopological /\ SortInv /\ FillInv

LEMMA FiniteSCCs == n \in Nat => /\ IsFiniteSet(SCCs) /\ Cardinality(SCCs) = n
                                 /\ \A S \in SUBSET SCCs : IsFiniteSet(S)
<1> SUFFICES ASSUME n \in Nat
             PROVE  /\ IsFiniteSet(SCCs) /\ Cardinality(SCCs) = n
                    /\ \A S \in SUBSET SCCs : IsFiniteSet(S)
  OBVIOUS
<1>1. IsFiniteSet(SCCs) /\ Cardinality(SCCs) = IF 0 > n - 1 THEN 0 ELSE n - 1 - 0 + 1
  BY FS_Interval DEF SCCs
<1>2. Cardinality(SCCs) = n
  BY <1>1
<1> QED  BY <1>1, <1>2, FS_Subset

LEMMA InitCorrect == Init => IInv
<1> SUFFICES ASSUME Init PROVE IInv
  OBVIOUS
<1>1. n \in Nat /\ numStages \in Nat \ {0}
  BY PartitionAssumption DEF Init
<1>2. edges \subseteq {e \in SCCs \X SCCs : e[1] # e[2]}
  BY <1>1 DEF Init, Graphs, SCCs
<1>3. StageTypes
  <2>1. 0 \in StageIds /\ 0 \in 0 .. n
    BY <1>1 DEF StageIds
  <2>2. inDeg \in [SCCs -> Nat] /\ stage \in [SCCs -> StageIds]
    BY <2>1 DEF Init, SCCs
  <2>3. ready \in Seq(SCCs) /\ order \in Seq(SCCs) /\ filled \in 0 .. n /\ curStage \in StageIds
    BY <2>1 DEF Init
  <2>4. pc \in {"guard", "sort", "fill", "done"} /\ singleStage \in BOOLEAN
    BY DEF Init
  <2> QED  BY <1>1, <1>2, <2>2, <2>3, <2>4 DEF StageTypes
<1>4. OrderIsTopological
  BY DEF Init, OrderIsTopological
<1>5. SortInv
  BY EmptySequence DEF Init, SortInv
<1>6. FillInv
  BY <1>1 DEF Init, FillInv
<1> QED  BY <1>3, <1>4, <1>5, <1>6 DEF IInv

---------------------------------------------------------------------------
(* The steps keep the invariant. *)

LEMMA CountInDegreesStep == IInv /\ CountInDegrees => IInv'
<1> SUFFICES ASSUME IInv, CountInDegrees PROVE IInv'
  OBVIOUS
<1> DEFINE sources == {v \in SCCs : Preds(v) = {}}
<1>1. /\ pc = "guard" /\ pc' = "sort" /\ order = <<>> /\ order' = <<>> /\ n \in Nat
      /\ inDeg' = [v \in SCCs |-> Cardinality(Preds(v))]
      /\ ready' \in SetToSeqs(sources)
      /\ UNCHANGED <<n, edges, numStages, filled, curStage, stage, singleStage>>
  BY DEF CountInDegrees, IInv, SortInv, StageTypes, inputVars, fillVars, resultVars
<1>2. /\ ready' \in Seq(sources) /\ Distinct(ready')
      /\ \A v : In(ready', v) <=> v \in sources
  BY <1>1, FiniteSCCs, SequenceOfSet
<1>3. \A v \in SCCs : Preds(v)' = Preds(v) /\ Missing(v)' = Preds(v)
  BY <1>1, EmptySequence DEF Missing, Preds, SCCs
<1>4. StageTypes'
  <2>1. ready' \in Seq(SCCs)
    BY <1>2
  <2>2. inDeg' \in [SCCs -> Nat]
    <3>1. \A v \in SCCs : Cardinality(Preds(v)) \in Nat
      BY <1>1, FiniteSCCs, FS_CardinalityType DEF Preds
    <3> QED  BY <1>1, <3>1
  <2> QED  BY <1>1, <2>1, <2>2 DEF IInv, StageTypes, SCCs, StageIds
<1>5. OrderIsTopological'
  BY <1>1 DEF OrderIsTopological
<1>6. SortInv'
  <2>1. SCCs' = SCCs
    BY <1>1 DEF SCCs
  <2> QED  BY <1>1, <1>2, <1>3, <2>1, EmptySequence DEF SortInv
<1>7. FillInv'
  BY <1>1 DEF IInv, FillInv
<1> QED  BY <1>4, <1>5, <1>6, <1>7 DEF IInv

LEMMA VisitStep == IInv /\ Visit => IInv'
<1> SUFFICES ASSUME IInv, Visit PROVE IInv'
  OBVIOUS
<1> DEFINE u == Head(ready)
           released == {v \in Succs(u) : inDeg'[v] = 0}
<1>1. /\ pc = "sort" /\ pc' = "sort" /\ ready # <<>> /\ n \in Nat
      /\ order' = Append(order, u)
      /\ inDeg' = [v \in SCCs |-> IF v \in Succs(u) THEN inDeg[v] - 1 ELSE inDeg[v]]
      /\ UNCHANGED <<n, edges, numStages, filled, curStage, stage, singleStage>>
  BY DEF Visit, IInv, StageTypes, inputVars, fillVars, resultVars
<1>2. PICK q \in SetToSeqs(released) : ready' = Tail(ready) \o q
  BY DEF Visit
<1>3. /\ ready \in Seq(SCCs) /\ order \in Seq(SCCs) /\ inDeg \in [SCCs -> Nat]
      /\ Distinct(order) /\ Distinct(ready)
  BY DEF IInv, StageTypes, SortInv
<1>4. /\ u \in SCCs /\ Tail(ready) \in Seq(SCCs) /\ Distinct(Tail(ready))
      /\ ~In(Tail(ready), u) /\ In(ready, u)
      /\ \A v : In(ready, v) <=> v = u \/ In(Tail(ready), v)
  BY <1>1, <1>3, HeadAndTail
<1>5. released \in SUBSET SCCs
  BY DEF Succs
<1>6. q \in Seq(SCCs) /\ Distinct(q) /\ \A v : In(q, v) <=> v \in released
  <2>1. q \in Seq(released) /\ Distinct(q) /\ \A v : In(q, v) <=> v \in released
    BY <1>1, <1>5, FiniteSCCs, SequenceOfSet
  <2> HIDE DEF released
  <2> QED  BY <1>5, <2>1
<1>7. ~In(order, u) /\ Missing(u) = {}
  BY <1>4 DEF IInv, SortInv
<1>8. /\ order' \in Seq(SCCs) /\ Len(order') = Len(order) + 1 /\ Distinct(order')
      /\ \A k \in 1 .. Len(order) : order'[k] = order[k]
      /\ order'[Len(order) + 1] = u
      /\ \A v : In(order', v) <=> In(order, v) \/ v = u
  BY <1>1, <1>3, <1>4, <1>7, OneAppended
<1>9. SCCs' = SCCs /\ \A v : Preds(v)' = Preds(v) /\ Missing(v)' = Missing(v) \ {u}
  BY <1>1, <1>8 DEF SCCs, Preds, Missing
<1>10. \A v \in SCCs : v \in Succs(u) <=> u \in Missing(v)
  BY <1>4, <1>7 DEF Succs, Preds, Missing
<1>11. \A v \in SCCs : /\ inDeg[v] = Cardinality(Missing(v))
                       /\ IsFiniteSet(Missing(v)) /\ Cardinality(Missing(v)) \in Nat
  <2>1. \A v \in SCCs : inDeg[v] = Cardinality(Missing(v)) /\ Missing(v) \in SUBSET SCCs
    BY <1>1 DEF IInv, SortInv, Missing, Preds
  <2> QED  BY <1>1, <2>1, FiniteSCCs, FS_CardinalityType
<1>12. ASSUME NEW v \in SCCs
       PROVE  /\ inDeg'[v] = Cardinality(Missing(v)') /\ inDeg'[v] \in Nat
              /\ inDeg'[v] = 0 <=> Missing(v)' = {}
  <2>1. IsFiniteSet(Missing(v)') /\ Cardinality(Missing(v)') \in Nat
        /\ Cardinality(Missing(v)') = IF u \in Missing(v) THEN Cardinality(Missing(v)) - 1
                                                          ELSE Cardinality(Missing(v))
    BY <1>9, <1>11, FS_RemoveElement, FS_CardinalityType
  <2>2. inDeg'[v] = Cardinality(Missing(v)')
    BY <1>1, <1>10, <1>11, <2>1
  <2> QED  BY <2>1, <2>2, FS_EmptySet
<1>13. \A v : v \in released <=> v \in SCCs /\ u \in Missing(v) /\ Missing(v)' = {}
  BY <1>10, <1>12 DEF Succs
<1> HIDE DEF u, released
<1>14. \A v \in released : ~In(order, v) /\ ~In(ready, v)
  BY <1>13 DEF IInv, SortInv
<1>15. /\ ready' \in Seq(SCCs) /\ Distinct(ready')
       /\ \A v : In(ready', v) <=> In(Tail(ready), v) \/ v \in released
  <2>1. \A v : ~(In(Tail(ready), v) /\ In(q, v))
    BY <1>4, <1>6, <1>14
  <2> QED  BY <1>2, <1>4, <1>6, <2>1, Concatenation
<1>16. StageTypes'
  <2>1. inDeg' \in [SCCs -> Nat]
    BY <1>1, <1>12
  <2> QED  BY <1>1, <1>8, <1>9, <1>15, <2>1 DEF IInv, StageTypes, StageIds
<1>17. OrderIsTopological'
  <2>1. Len(order) \in Nat
    BY <1>3
  <2> SUFFICES ASSUME NEW j \in 1 .. Len(order')
               PROVE  /\ \A i \in 1 .. j - 1 : order'[i] # order'[j]
                      /\ \A w \in Preds(order'[j]) : \E i \in 1 .. j - 1 : order'[i] = w
    BY <1>9 DEF OrderIsTopological
  <2>2. CASE j \in 1 .. Len(order)
    <3>1. \A i \in 1 .. j - 1 : i \in 1 .. Len(order) /\ order'[i] = order[i]
      BY <1>8, <2>1, <2>2
    <3>2. order'[j] = order[j]
      BY <1>8, <2>2
    <3>3. /\ \A i \in 1 .. j - 1 : order[i] # order[j]
          /\ \A w \in Preds(order[j]) : \E i \in 1 .. j - 1 : order[i] = w
      BY <2>2 DEF IInv, OrderIsTopological
    <3>4. ASSUME NEW w \in Preds(order[j]) PROVE \E i \in 1 .. j - 1 : order'[i] = w
      BY <3>1, <3>3
    <3> QED  BY <3>1, <3>2, <3>3, <3>4
  <2>3. CASE j = Len(order) + 1
    <3>1. j - 1 = Len(order) /\ order'[j] = u
      BY <1>8, <2>1, <2>3
    <3>2. \A i \in 1 .. j - 1 : order'[i] = order[i] /\ order[i] # u
      BY <1>7, <1>8, <3>1 DEF In
    <3>3. \A w \in Preds(u) : In(order, w)
      BY <1>7 DEF Missing
    <3> QED  BY <3>1, <3>2, <3>3 DEF In
  <2> QED  BY <1>8, <2>1, <2>2, <2>3
<1>18. SortInv'
  <2>1. \A v : ~(In(order', v) /\ In(ready', v))
    <3>1. u \notin released
      BY <1>7, <1>13
    <3> QED  BY <1>4, <1>8, <1>14, <1>15, <3>1 DEF IInv, SortInv
  <2>2. \A v \in SCCs : In(order', v) \/ In(ready', v) => Missing(v)' = {}
    <3>1. \A v \in SCCs : In(order, v) \/ In(ready, v) => Missing(v) = {}
      BY DEF IInv, SortInv
    <3> QED  BY <1>4, <1>8, <1>9, <1>13, <1>15, <3>1
  <2>3. \A v \in SCCs : Missing(v)' = {} => In(order', v) \/ In(ready', v)
    <3>1. \A v \in SCCs : Missing(v) = {} => In(order, v) \/ In(ready, v)
      BY <1>1 DEF IInv, SortInv
    <3>2. \A v \in SCCs : Missing(v)' = {} => Missing(v) = {} \/ v \in released
      BY <1>9, <1>13
    <3> QED  BY <1>4, <1>8, <1>15, <3>1, <3>2
  <2> QED  BY <1>1, <1>8, <1>9, <1>12, <1>15, <2>1, <2>2, <2>3 DEF SortInv
<1>19. FillInv'
  <2>1. filled = 0
    BY <1>1 DEF IInv, FillInv
  <2> QED  BY <1>1, <2>1 DEF FillInv
<1> QED  BY <1>16, <1>17, <1>18, <1>19 DEF IInv

(* What no later phase touches. *)
LEMMA OrderKept ==
  ASSUME IInv, UNCHANGED <<n, edges, ready, order>>, pc # "guard",
         pc' \in {"fill", "done"}
  PROVE  OrderIsTopological' /\ SortInv'
<1>1. SCCs' = SCCs /\ \A v : Preds(v)' = Preds(v) /\ Missing(v)' = Missing(v)
  BY DEF SCCs, Preds, Missing
<1> QED  BY <1>1 DEF IInv, OrderIsTopological, SortInv

LEMMA PlaceNextStep == IInv /\ PlaceNext => IInv'
<1> SUFFICES ASSUME IInv, PlaceNext PROVE IInv'
  OBVIOUS
<1> DEFINE scc == order[filled + 1]
<1>1. /\ pc = "fill" /\ filled < n /\ filled' = filled + 1 /\ Len(order) = n
      /\ stage' = [stage EXCEPT ![scc] = curStage']
      /\ UNCHANGED <<n, edges, cost, numStages, pc, inDeg, ready, order, singleStage>>
  BY DEF PlaceNext, IInv, FillInv, inputVars, sortVars, resultVars
<1>2. /\ n \in Nat /\ filled \in Nat /\ filled \in 0 .. n /\ numStages \in Nat
      /\ curStage \in StageIds /\ order \in Seq(SCCs) /\ stage \in [SCCs -> StageIds]
  BY DEF IInv, StageTypes
<1>3. filled + 1 \in 1 .. Len(order) /\ scc \in SCCs
  BY <1>1, <1>2
<1>4. curStage' \in StageIds /\ curStage <= curStage'
  <2>1. \/ curStage' = curStage
        \/ curStage' = curStage + 1 /\ curStage + 1 < numStages
    BY DEF PlaceNext
  <2> QED  BY <1>2, <2>1 DEF StageIds
<1>5. StageTypes'
  <2>1. SCCs' = SCCs /\ StageIds' = StageIds
    BY <1>1 DEF SCCs, StageIds
  <2>2. stage' \in [SCCs -> StageIds]
    BY <1>1, <1>2, <1>4
  <2>3. filled' \in 0 .. n
    BY <1>1, <1>2
  <2> QED  BY <1>1, <1>4, <2>1, <2>2, <2>3 DEF IInv, StageTypes
<1>6. stage'[scc] = curStage' /\ \A i \in 1 .. filled : stage'[order[i]] = stage[order[i]]
  <2>1. \A i \in 1 .. filled : i \in 1 .. Len(order) /\ i # filled + 1
    BY <1>1, <1>2
  <2>2. \A i \in 1 .. filled : order[i] # scc
    BY <1>3, <2>1 DEF IInv, SortInv, Distinct
  <2>3. \A i \in 1 .. filled : order[i] \in SCCs
    BY <1>2, <2>1
  <2> QED  BY <1>1, <1>2, <1>3, <2>2, <2>3
<1>7. \A i \in 1 .. filled : stage[order[i]] <= curStage' /\ stage[order[i]] \in Nat
  <2>1. \A i \in 1 .. filled : i \in 1 .. Len(order)
    BY <1>1, <1>2
  <2>2. \A i \in 1 .. filled : stage[order[i]] \in StageIds
    BY <1>2, <2>1
  <2>3. \A i \in 1 .. filled : stage[order[i]] <= curStage
    BY DEF IInv, FillInv
  <2> QED  BY <1>2, <1>4, <2>2, <2>3 DEF StageIds
<1>8. FillInv'
  <2>1. \A i \in 1 .. filled' : i \in 1 .. filled \/ i = filled + 1
    BY <1>1, <1>2
  <2>2. \A i \in 1 .. filled' : stage'[order[i]] <= curStage'
    BY <1>2, <1>4, <1>6, <1>7, <2>1 DEF StageIds
  <2>3. \A i, j \in 1 .. filled' : i < j => stage'[order[i]] <= stage'[order[j]]
    <3> SUFFICES ASSUME NEW i \in 1 .. filled', NEW j \in 1 .. filled', i < j
                 PROVE  stage'[order[i]] <= stage'[order[j]]
      OBVIOUS
    <3>1. i \in 1 .. filled
      BY <1>1, <1>2
    <3>2. CASE j \in 1 .. filled
      BY <1>6, <3>1, <3>2 DEF IInv, FillInv
    <3>3. CASE j = filled + 1
      BY <1>6, <1>7, <3>1, <3>3
    <3> QED  BY <2>1, <3>2, <3>3
  <2> QED  BY <1>1, <2>2, <2>3 DEF FillInv
<1> QED  BY <1>1, <1>5, <1>8, OrderKept DEF IInv

LEMMA OtherSteps ==
  IInv /\ (BailTrivial \/ BailCyclic \/ StartFill \/ Tally \/ UNCHANGED vars) => IInv'
<1> SUFFICES ASSUME IInv, BailTrivial \/ BailCyclic \/ StartFill \/ Tally \/ UNCHANGED vars
             PROVE  IInv'
  OBVIOUS
<1>1. UNCHANGED <<n, edges, numStages, inDeg, ready, order, filled, curStage, stage>>
  BY DEF BailTrivial, BailCyclic, StartFill, Tally, vars, inputVars, sortVars, fillVars
<1>2. StageTypes'
  BY <1>1 DEF IInv, StageTypes, SCCs, StageIds, BailTrivial, BailCyclic, StartFill, Tally, vars,
              OneStage, resultVars
<1>3. OrderIsTopological' /\ SortInv'
  <2>1. SCCs' = SCCs /\ \A v : Preds(v)' = Preds(v) /\ Missing(v)' = Missing(v)
    BY <1>1 DEF SCCs, Preds, Missing
  <2>2. pc' \in {pc, "fill", "done"}
    BY DEF BailTrivial, BailCyclic, StartFill, Tally, vars, OneStage
  <2>3. OrderIsTopological'
    BY <1>1, <2>1 DEF IInv, OrderIsTopological
  <2>4. (pc' = "guard" => pc = "guard") /\ (pc' = "sort" => pc = "sort")
    BY <2>2
  <2>5. SortInv'
    BY <1>1, <2>1, <2>4 DEF IInv, SortInv
  <2> QED  BY <2>3, <2>5
<1>4. FillInv'
  BY <1>1 DEF IInv, FillInv, BailTrivial, BailCyclic, StartFill, Tally, vars, OneStage, resultVars
<1> QED  BY <1>2, <1>3, <1>4 DEF IInv

LEMMA Invariance == Spec => []IInv
<1>1. IInv /\ [Next]_vars => IInv'
  BY CountInDegreesStep, VisitStep, PlaceNextStep, OtherSteps DEF Next, Finished
<1> QED  BY <1>1, InitCorrect, PTL DEF Spec

---------------------------------------------------------------------------
(* The theorems. *)

(* topoSort lists every SCC at most once and after its predecessors.       *)
THEOREM SourcesBeforeSinks == Spec => []OrderIsTopological
<1>1. IInv => OrderIsTopological
  BY DEF IInv
<1> QED  BY <1>1, Invariance, PTL

LEMMA AllListed ==
  ASSUME IInv, Len(order) = n
  PROVE  \A v \in SCCs : In(order, v)
<1>1. n \in Nat /\ order \in Seq(SCCs) /\ Distinct(order)
  BY DEF IInv, StageTypes, SortInv
<1>2. order \in Injection(1 .. n, SCCs)
  BY <1>1 DEF Distinct, Injection, IsInjective
<1>3. Cardinality(1 .. n) = n
  <2>1. Cardinality(1 .. n) = IF 1 > n THEN 0 ELSE n - 1 + 1
    BY <1>1, FS_Interval
  <2> QED  BY <1>1, <2>1
<1>4. order \in Surjection(1 .. n, SCCs)
  BY <1>1, <1>2, <1>3, FiniteSCCs, FS_Injection
<1> QED  BY <1>4 DEF Surjection, In

(* No dependence of a partition that is used goes from a later stage to an *)
(* earlier one.                                                            *)
THEOREM NoBackwardDependence == Spec => []EdgesGoForward
<1>1. IInv => EdgesGoForward
  <2> SUFFICES ASSUME IInv, pc = "done", ~singleStage, NEW e \in edges
               PROVE  stage[e[1]] <= stage[e[2]]
    BY DEF EdgesGoForward
  <2>1. /\ Len(order) = n /\ filled = n
        /\ e \in SCCs \X SCCs /\ e = <<e[1], e[2]>> /\ e[1] \in SCCs /\ e[2] \in SCCs
    BY DEF IInv, FillInv, StageTypes
  <2>2. PICK j \in 1 .. n : order[j] = e[2]
    BY <2>1, AllListed DEF In
  <2>3. e[1] \in Preds(order[j])
    BY <2>1, <2>2 DEF Preds
  <2>4. PICK i \in 1 .. j - 1 : order[i] = e[1]
    BY <2>1, <2>3 DEF IInv, OrderIsTopological
  <2>5. i \in 1 .. n /\ i < j
    BY DEF IInv, StageTypes
  <2> QED  BY <2>1, <2>2, <2>4, <2>5 DEF IInv, FillInv
<1> QED  BY <1>1, Invariance, PTL

(* The converse: an order that lists every SCC has them all. *)
LEMMA CompleteOrder ==
  ASSUME IInv, \A v \in SCCs : In(order, v)
  PROVE  Len(order) = n
<1>1. n \in Nat /\ order \in Seq(SCCs) /\ Distinct(order)
  BY DEF IInv, StageTypes, SortInv
<1>2. order \in Surjection(1 .. Len(order), SCCs) /\ order \in Injection(1 .. Len(order), SCCs)
  BY <1>1 DEF In, Distinct, Surjection, Injection, IsInjective
<1>3. Len(order) \in Nat /\ IsFiniteSet(1 .. Len(order)) /\ Cardinality(1 .. Len(order)) = Len(order)
  <2>1. Len(order) \in Nat
    BY <1>1
  <2>2. /\ IsFiniteSet(1 .. Len(order))
        /\ Cardinality(1 .. Len(order)) = IF 1 > Len(order) THEN 0 ELSE Len(order) - 1 + 1
    BY <2>1, FS_Interval
  <2> QED  BY <2>1, <2>2
<1>4. Cardinality(SCCs) = Cardinality(1 .. Len(order))
  BY <1>2, <1>3, FS_Surjection
<1> QED  BY <1>1, <1>3, <1>4, FiniteSCCs

(* Where the sort stops, an SCC it did not list misses a predecessor. *)
LEMMA Stuck ==
  ASSUME IInv, pc = "sort", ready = <<>>, NEW v \in SCCs, ~In(order, v)
  PROVE  \E u \in Preds(v) : ~In(order, u)
<1>1. ~In(ready, v)
  BY EmptySequence
<1>2. Missing(v) # {}
  BY <1>1 DEF IInv, SortInv
<1> QED  BY <1>2 DEF Missing

(* The numbering that computeSCCs gives. *)
NumberedSinksFirst == \A e \in edges : e[1] > e[2]

(* Where edges lead to lower ids, the sort ends with every SCC in the      *)
(* order, so that the partitioner never gives up for a cycle.              *)
THEOREM SortIsComplete ==
  Spec => [](pc = "sort" /\ ready = <<>> /\ NumberedSinksFirst => Len(order) = n)
<1>1. IInv => (pc = "sort" /\ ready = <<>> /\ NumberedSinksFirst => Len(order) = n)
  <2> SUFFICES ASSUME IInv, pc = "sort", ready = <<>>, NumberedSinksFirst
               PROVE  Len(order) = n
    OBVIOUS
  <2> DEFINE L == {v \in SCCs : ~In(order, v)}
  <2>1. n \in Nat /\ order \in Seq(SCCs) /\ Distinct(order)
    BY DEF IInv, StageTypes, SortInv
  <2>2. L = {}
    <3> SUFFICES ASSUME L # {} PROVE FALSE
      OBVIOUS
    <3> DEFINE R == {m \in Nat : n - m \in L}
    <3>1. \A v \in L : v \in 0 .. n - 1 /\ n - v \in R
      BY <2>1 DEF SCCs
    <3>2. PICK m \in R : \A k \in R : m <= k
      <4>1. R \in SUBSET Nat /\ R # {}
        BY <3>1
      <4> HIDE DEF R
      <4> QED  BY <4>1, Smallest
    <3>3. n - m \in SCCs /\ ~In(order, n - m) /\ m \in Nat
      OBVIOUS
    <3>4. PICK u \in Preds(n - m) : ~In(order, u)
      BY <3>3, Stuck
    <3>5. u \in L /\ <<u, n - m>> \in edges
      BY <3>4 DEF Preds
    <3>6. u > n - m
      BY <3>5 DEF NumberedSinksFirst
    <3>7. m <= n - u /\ u \in 0 .. n - 1
      BY <3>1, <3>2, <3>5
    <3> HIDE DEF L, R
    <3> QED  BY <2>1, <3>3, <3>6, <3>7
  <2> QED  BY <2>2, CompleteOrder
<1> QED  BY <1>1, Invariance, PTL

(* A set whose members all have a predecessor in it has an SCC on a cycle: *)
(* of the smallest such set, every member is.                              *)
Rootless(A) == A # {} /\ \A v \in A : \E u \in Preds(v) : u \in A

LEMMA CycleExists ==
  ASSUME n \in Nat, NEW L \in SUBSET SCCs, Rootless(L)
  PROVE  \E u \in L : OnCycle(u)
<1> DEFINE Sizes == {m \in Nat : \E A \in SUBSET L : Rootless(A) /\ Cardinality(A) = m}
<1>1. \A A \in SUBSET L : IsFiniteSet(A) /\ Cardinality(A) \in Nat
  BY FiniteSCCs, FS_CardinalityType
<1>2. PICK m \in Sizes : \A k \in Sizes : m <= k
  <2>1. Sizes \in SUBSET Nat /\ Cardinality(L) \in Sizes
    BY <1>1
  <2> HIDE DEF Sizes
  <2> QED  BY <2>1, Smallest
<1>3. PICK A \in SUBSET L : Rootless(A) /\ Cardinality(A) = m
  BY <1>2
<1>4. ASSUME NEW B \in SUBSET A, B # A PROVE ~Rootless(B)
  <2>1. Cardinality(B) < Cardinality(A) /\ B \in SUBSET L
    BY <1>1, <1>3, <1>4, FS_Subset
  <2>2. Rootless(B) => m <= Cardinality(B)
    BY <1>1, <1>2, <2>1
  <2> QED  BY <1>1, <1>3, <2>1, <2>2
<1>5. PICK u \in A : TRUE
  BY <1>3 DEF Rootless
<1>6. ASSUME NEW S \in SUBSET SCCs, Succs(u) \subseteq S, Closed(S), u \notin S PROVE FALSE
  <2> DEFINE B == A \ (S \cup {u})
  <2>1. \A v \in A \ S : \E p \in Preds(v) : p \in B
    <3> SUFFICES ASSUME NEW v \in A \ S PROVE \E p \in Preds(v) : p \in B
      OBVIOUS
    <3>1. PICK p \in Preds(v) : p \in A
      BY <1>3 DEF Rootless
    <3>2. v \in Succs(p)
      BY DEF Preds, Succs
    <3>3. p \notin S /\ p # u
      BY <1>6, <3>2 DEF Closed
    <3> QED  BY <3>1, <3>3
  <2>2. B # {}
    BY <1>5, <1>6, <2>1
  <2>3. Rootless(B)
    BY <2>1, <2>2 DEF Rootless
  <2> QED  BY <1>4, <1>5, <2>3
<1> QED  BY <1>5, <1>6 DEF OnCycle

(* topoSort leaves SCCs out exactly when the graph has a cycle: the        *)
(* partitioner falls back to one stage for that reason and no other.       *)
THEOREM OnlyCyclesDefeatTheSort == Spec => []SortFailsOnlyOnCycles
<1>1. IInv => SortFailsOnlyOnCycles
  <2> SUFFICES ASSUME IInv, pc = "sort", ready = <<>>
               PROVE  Len(order) = n <=> \A u \in SCCs : ~OnCycle(u)
    BY DEF SortFailsOnlyOnCycles
  <2>1. n \in Nat /\ order \in Seq(SCCs) /\ Distinct(order)
    BY DEF IInv, StageTypes, SortInv
  <2>2. ASSUME Len(order) = n, NEW u \in SCCs PROVE ~OnCycle(u)
    <3>1. PICK j \in 1 .. Len(order) : order[j] = u
      BY <2>2, AllListed DEF In
    <3> DEFINE S == {x \in SCCs : \E k \in 1 .. Len(order) : j < k /\ order[k] = x}
    <3>2. ASSUME NEW i \in 1 .. Len(order), NEW x \in Succs(order[i]), j <= i PROVE x \in S
      <4>1. PICK k \in 1 .. Len(order) : order[k] = x
        BY <2>2, AllListed DEF In, Succs
      <4>2. order[i] \in Preds(order[k])
        BY <2>1, <4>1 DEF Succs, Preds
      <4>3. PICK h \in 1 .. k - 1 : order[h] = order[i]
        BY <4>2 DEF IInv, OrderIsTopological
      <4>4. h \in 1 .. Len(order) /\ h < k
        BY <2>1
      <4>5. h = i
        BY <2>1, <4>3, <4>4 DEF Distinct
      <4>6. j < k
        BY <3>2, <4>4, <4>5
      <4> QED  BY <4>1, <4>6 DEF Succs
    <3>3. Succs(u) \subseteq S
      BY <3>1, <3>2
    <3>4. Closed(S)
      BY <3>2 DEF Closed
    <3>5. u \notin S
      BY <2>1, <3>1 DEF Distinct
    <3> HIDE DEF S
    <3>6. S \subseteq SCCs
      BY DEF S
    <3> QED  BY <3>3, <3>4, <3>5, <3>6 DEF OnCycle
  <2>3. ASSUME Len(order) # n PROVE \E u \in SCCs : OnCycle(u)
    <3> DEFINE L == {v \in SCCs : ~In(order, v)}
    <3>1. L # {}
      BY <2>3, CompleteOrder
    <3>2. \A v \in L : \E u \in Preds(v) : u \in L
      BY Stuck DEF Preds
    <3>3. Rootless(L) /\ L \in SUBSET SCCs
      BY <3>1, <3>2 DEF Rootless
    <3> HIDE DEF L
    <3> QED  BY <2>1, <3>3, CycleExists
  <2> QED  BY <2>2, <2>3
<1> QED  BY <1>1, Invariance, PTL

---------------------------------------------------------------------------
(* Types and loads. *)

CostSum(S) == SumOver(cost, S)
First(k) == {order[i] : i \in 1 .. k}
OnStage(k) == {s \in SCCs : stage[s] = k}
Share(k) == (k * CostSum(SCCs)) \div numStages

CostTypes ==
  /\ n \in 0 .. MaxSCCs /\ cost \in [SCCs -> Nat] /\ acc \in Nat
  /\ stageCosts \in [StageIds -> Nat] /\ crossStageEdges \in Nat

(* What greedy filling keeps: an SCC is placed where the load before it    *)
(* has reached the stage's lower bound, and, unless it opens the stage or  *)
(* the stage is the last, has not reached the upper one.                   *)
LoadInv ==
  /\ acc = CostSum(First(filled)) /\ Share(curStage) <= acc
  /\ IF filled = 0 THEN curStage = 0 ELSE curStage = stage[order[filled]]
  /\ \A i \in 1 .. filled : Share(stage[order[i]]) <= CostSum(First(i - 1))
  /\ \A i \in 2 .. filled :
       stage[order[i - 1]] = stage[order[i]] =>
         stage[order[i]] + 1 = numStages \/ CostSum(First(i - 1)) < Share(stage[order[i]] + 1)
  /\ pc = "done" /\ ~singleStage =>
       \A k \in StageIds : stageCosts[k] = CostSum(OnStage(k)) /\ stageCosts[k] # 0

BalanceInv == IInv /\ CostTypes /\ LoadInv

LEMMA CostOfIs == \A S : CostOf(S) = CostSum(S)
  BY DEF CostOf, FoldSet, MapThenFoldSet, CostSum, SumOver, SumBody

LEMMA CostsAreNatural ==
  ASSUME n \in Nat, cost \in [SCCs -> Nat]
  PROVE  \A S \in SUBSET SCCs : CostSum(S) \in Nat
<1> SUFFICES ASSUME NEW S \in SUBSET SCCs PROVE CostSum(S) \in Nat
  OBVIOUS
<1>1. IsFiniteSet(S) /\ \A x \in S : cost[x] \in Nat
  BY FiniteSCCs
<1>2. 0 \in Nat /\ \A a, b \in Nat : a + b \in Nat
  OBVIOUS
<1> QED  BY <1>1, <1>2, SumStays DEF CostSum

LEMMA LoadInit == Init => BalanceInv
<1> SUFFICES ASSUME Init PROVE BalanceInv
  OBVIOUS
<1>1. IInv
  BY InitCorrect
<1>2. n \in Nat /\ numStages \in Nat \ {0}
  BY <1>1 DEF IInv, StageTypes
<1>3. CostTypes
  <2>1. n \in 0 .. MaxSCCs
    BY DEF Init
  <2>2. cost \in [SCCs -> Nat]
    BY PartitionAssumption DEF Init, SCCs
  <2> QED  BY <2>1, <2>2 DEF Init, CostTypes
<1>4. LoadInv
  <2>1. filled = 0 /\ acc = 0 /\ curStage = 0 /\ pc = "guard"
    BY DEF Init
  <2>2. First(0) = {} /\ First(filled) = {}
    BY <2>1 DEF First
  <2>3. CostSum({}) = 0
    BY SumOfNone DEF CostSum
  <2>4. Share(0) = 0
    <3>1. CostSum(SCCs) \in Nat
      BY <1>2, <1>3, CostsAreNatural DEF CostTypes
    <3>2. 0 * CostSum(SCCs) = 0
      BY <3>1
    <3>3. 0 \div numStages = 0
      BY <1>2
    <3> QED  BY <3>2, <3>3 DEF Share
  <2> QED  BY <2>1, <2>2, <2>3, <2>4 DEF LoadInv
<1> QED  BY <1>1, <1>3, <1>4 DEF BalanceInv

LEMMA LoadPlaceNext == BalanceInv /\ PlaceNext => CostTypes' /\ LoadInv'
<1> SUFFICES ASSUME BalanceInv, PlaceNext PROVE CostTypes' /\ LoadInv'
  OBVIOUS
<1> DEFINE scc == order[filled + 1]
<1>1. /\ pc = "fill" /\ filled < n /\ filled' = filled + 1 /\ Len(order) = n
      /\ stage' = [stage EXCEPT ![scc] = curStage'] /\ acc' = acc + cost[scc]
      /\ UNCHANGED <<n, edges, cost, numStages, pc, inDeg, ready, order, singleStage, stageCosts,
                     crossStageEdges>>
  BY DEF PlaceNext, BalanceInv, IInv, FillInv, inputVars, sortVars, resultVars
<1>2. /\ n \in Nat /\ filled \in Nat /\ filled \in 0 .. n /\ numStages \in Nat
      /\ curStage \in StageIds /\ order \in Seq(SCCs) /\ stage \in [SCCs -> StageIds]
      /\ cost \in [SCCs -> Nat] /\ acc \in Nat
  BY DEF BalanceInv, IInv, StageTypes, CostTypes
<1>3. filled + 1 \in 1 .. Len(order) /\ scc \in SCCs /\ cost[scc] \in Nat
  BY <1>1, <1>2
<1>4. SCCs' = SCCs /\ StageIds' = StageIds
  BY <1>1 DEF SCCs, StageIds
<1>5. CostTypes'
  <2>1. acc' \in Nat
    BY <1>1, <1>2, <1>3
  <2> QED  BY <1>1, <1>4, <2>1 DEF BalanceInv, CostTypes
<1>6. \/ /\ curStage' = curStage
         /\ curStage + 1 = numStages \/ acc < Share(curStage + 1)
      \/ curStage' = curStage + 1 /\ Share(curStage + 1) <= acc
  <2>1. \A k : Threshold(k) = Share(k)
    BY CostOfIs DEF Threshold, Total, Share
  <2>2. \/ curStage' = curStage + 1 /\ acc >= Share(curStage + 1)
        \/ curStage' = curStage /\ ~(curStage + 1 < numStages /\ acc >= Share(curStage + 1))
    BY <2>1 DEF PlaceNext
  <2>3. CostSum(SCCs) \in Nat
    BY <1>2, CostsAreNatural
  <2>4. Share(curStage + 1) \in Int
    <3>1. (curStage + 1) * CostSum(SCCs) \in Int /\ numStages \in Nat \ {0}
      BY <1>2, <2>3 DEF BalanceInv, IInv, StageTypes, StageIds
    <3> QED  BY <3>1, DivisionDef DEF Share
  <2> QED  BY <1>2, <2>2, <2>4 DEF StageIds
<1>7. /\ stage'[scc] = curStage'
      /\ \A i \in 1 .. filled : order[i] \in SCCs /\ stage'[order[i]] = stage[order[i]]
  <2>1. \A i \in 1 .. filled : i \in 1 .. Len(order) /\ i # filled + 1
    BY <1>1, <1>2
  <2>2. \A i \in 1 .. filled : order[i] # scc
    BY <1>3, <2>1 DEF BalanceInv, IInv, SortInv, Distinct
  <2>3. \A i \in 1 .. filled : order[i] \in SCCs
    BY <1>2, <2>1
  <2> QED  BY <1>1, <1>2, <1>3, <2>2, <2>3
<1>8. CostSum(First(filled + 1)) = acc + cost[scc]
  <2>1. First(filled + 1) = First(filled) \cup {scc}
    <3>1. \A i : i \in 1 .. filled + 1 <=> i \in 1 .. filled \/ i = filled + 1
      BY <1>2
    <3> QED  BY <3>1 DEF First
  <2>2. scc \notin First(filled) /\ First(filled) \in SUBSET SCCs
    <3>1. \A i \in 1 .. filled : i \in 1 .. Len(order) /\ i # filled + 1
      BY <1>1, <1>2
    <3>2. \A i \in 1 .. filled : order[i] # scc
      BY <1>3, <3>1 DEF BalanceInv, IInv, SortInv, Distinct
    <3> QED  BY <1>7, <3>2 DEF First
  <2>3. IsFiniteSet(First(filled)) /\ \A x \in First(filled) \cup {scc} : cost[x] \in Int
    BY <1>2, <1>3, <2>2, FiniteSCCs
  <2> HIDE DEF scc
  <2>4. SumOver(cost, First(filled) \cup {scc}) = SumOver(cost, First(filled)) + cost[scc]
    BY <2>2, <2>3, SumExtends
  <2> QED  BY <2>1, <2>4 DEF BalanceInv, LoadInv, CostSum
<1>9. /\ \A k : First(k)' = First(k) /\ Share(k)' = Share(k)
      /\ \A S : CostSum(S)' = CostSum(S)
  BY <1>1, <1>4 DEF First, Share, CostSum
<1> HIDE DEF scc
<1>10. acc' = CostSum(First(filled')) /\ Share(curStage') <= acc'
  <2>1. Share(curStage') <= acc
    BY <1>6 DEF BalanceInv, LoadInv
  <2>2. Share(curStage') \in Int
    <3>1. CostSum(SCCs) \in Nat /\ curStage' \in Int /\ numStages \in Nat \ {0}
      BY <1>2, <1>6, CostsAreNatural DEF BalanceInv, IInv, StageTypes, StageIds
    <3>2. curStage' * CostSum(SCCs) \in Int
      BY <3>1
    <3> QED  BY <3>1, <3>2, DivisionDef DEF Share
  <2> QED  BY <1>1, <1>2, <1>3, <1>8, <2>1, <2>2
<1>11. ASSUME NEW i \in 1 .. filled'
       PROVE  /\ Share(stage'[order[i]]) <= CostSum(First(i - 1))
              /\ i \in 2 .. filled' /\ stage'[order[i - 1]] = stage'[order[i]] =>
                   \/ stage'[order[i]] + 1 = numStages
                   \/ CostSum(First(i - 1)) < Share(stage'[order[i]] + 1)
  <2>1. CASE i \in 1 .. filled
    <3>1. /\ Share(stage[order[i]]) <= CostSum(First(i - 1))
          /\ i \in 2 .. filled /\ stage[order[i - 1]] = stage[order[i]] =>
               \/ stage[order[i]] + 1 = numStages
               \/ CostSum(First(i - 1)) < Share(stage[order[i]] + 1)
      BY <2>1 DEF BalanceInv, LoadInv
    <3>2. i \in 2 .. filled' => i \in 2 .. filled /\ i - 1 \in 1 .. filled
      BY <1>1, <1>2, <2>1
    <3> QED  BY <1>7, <2>1, <3>1, <3>2
  <2>2. CASE i = filled + 1
    <3>1. i - 1 = filled /\ order[i] = scc /\ acc = CostSum(First(i - 1))
      BY <1>2, <2>2 DEF scc, BalanceInv, LoadInv
    <3>2. Share(curStage') <= acc
      BY <1>6 DEF BalanceInv, LoadInv
    <3>3. i \in 2 .. filled' => filled \in 1 .. filled /\ filled # 0
      BY <1>2, <2>2
    <3>4. i \in 2 .. filled' => stage'[order[i - 1]] = curStage
      BY <1>7, <3>1, <3>3 DEF BalanceInv, LoadInv
    <3>5. curStage + 1 # curStage
      BY <1>2 DEF StageIds
    <3> QED  BY <1>6, <1>7, <3>1, <3>2, <3>4, <3>5
  <2>3. i \in 1 .. filled \/ i = filled + 1
    BY <1>1, <1>2
  <2> QED  BY <2>1, <2>2, <2>3
<1>12. LoadInv'
  <2>1. \A i \in 2 .. filled' : i \in 1 .. filled'
    OBVIOUS
  <2>2. filled' # 0 /\ curStage' = stage'[order[filled']]
    BY <1>1, <1>2, <1>7 DEF scc
  <2> QED  BY <1>1, <1>9, <1>10, <1>11, <2>1, <2>2 DEF LoadInv
<1> QED  BY <1>5, <1>12

LEMMA LoadTally == BalanceInv /\ Tally => CostTypes' /\ LoadInv'
<1> SUFFICES ASSUME BalanceInv, Tally PROVE CostTypes' /\ LoadInv'
  OBVIOUS
<1>1. UNCHANGED <<n, edges, cost, numStages, filled, curStage, acc, stage, order>>
  BY DEF Tally, inputVars, sortVars, fillVars
<1>2. SCCs' = SCCs /\ StageIds' = StageIds
  BY <1>1 DEF SCCs, StageIds
<1>3. n \in Nat /\ cost \in [SCCs -> Nat] /\ edges \in SUBSET (SCCs \X SCCs)
  BY DEF BalanceInv, IInv, StageTypes, CostTypes
<1>4. stageCosts' = [k \in StageIds |-> CostSum(OnStage(k))]
  <2>1. \A k \in StageIds : CostOf({s \in SCCs : stage[s] = k}) = CostSum(OnStage(k))
    BY CostOfIs DEF OnStage
  <2> QED  BY <2>1 DEF Tally
<1>5. CostTypes'
  <2>1. stageCosts' \in [StageIds -> Nat]
    <3>1. \A k \in StageIds : CostSum(OnStage(k)) \in Nat
      BY <1>3, CostsAreNatural DEF OnStage
    <3> QED  BY <1>4, <3>1
  <2>2. crossStageEdges' \in Nat
    <3> DEFINE X == {e \in edges : stage[e[1]] # stage[e[2]]}
    <3>1. IsFiniteSet(SCCs \X SCCs)
      BY <1>3, FiniteSCCs, FS_Product
    <3>2. IsFiniteSet(X)
      BY <1>3, <3>1, FS_Subset
    <3>3. crossStageEdges' = Cardinality(X)
      BY DEF Tally
    <3> HIDE DEF X
    <3> QED  BY <3>2, <3>3, FS_CardinalityType
  <2> QED  BY <1>1, <1>2, <2>1, <2>2 DEF BalanceInv, CostTypes
<1>6. LoadInv'
  <2>1. /\ \A k : First(k)' = First(k) /\ Share(k)' = Share(k) /\ OnStage(k)' = OnStage(k)
        /\ \A S : CostSum(S)' = CostSum(S)
    BY <1>1, <1>2 DEF First, Share, CostSum, OnStage
  <2>2. ~singleStage' => \A k \in StageIds : stageCosts'[k] = CostSum(OnStage(k)) /\ stageCosts'[k] # 0
    BY <1>4 DEF Tally
  <2> QED  BY <1>1, <1>2, <2>1, <2>2 DEF BalanceInv, LoadInv
<1> QED  BY <1>5, <1>6

LEMMA LoadOthers ==
  BalanceInv /\ (CountInDegrees \/ Visit \/ BailTrivial \/ BailCyclic \/ StartFill \/ UNCHANGED vars)
    => CostTypes' /\ LoadInv'
<1> SUFFICES ASSUME BalanceInv,
                    CountInDegrees \/ Visit \/ BailTrivial \/ BailCyclic \/ StartFill \/ UNCHANGED vars
             PROVE  CostTypes' /\ LoadInv'
  OBVIOUS
<1>1. /\ UNCHANGED <<n, cost, numStages, filled, curStage, acc, stage, crossStageEdges>>
      /\ n \in Nat /\ cost \in [SCCs -> Nat] /\ numStages \in Nat \ {0} /\ filled \in 0 .. n
  BY DEF CountInDegrees, Visit, BailTrivial, BailCyclic, StartFill, vars, inputVars, fillVars,
         resultVars, OneStage, BalanceInv, IInv, StageTypes, CostTypes
<1>2. SCCs' = SCCs /\ StageIds' = StageIds
  BY <1>1 DEF SCCs, StageIds
<1>3. \/ stageCosts' = stageCosts
      \/ stageCosts' = [stageCosts EXCEPT ![0] = CostSum(SCCs)]
  BY CostOfIs DEF CountInDegrees, Visit, BailTrivial, BailCyclic, StartFill, vars, OneStage, resultVars,
                  Total
<1>4. CostTypes'
  <2>1. CostSum(SCCs) \in Nat /\ stageCosts \in [StageIds -> Nat]
    BY <1>1, CostsAreNatural DEF BalanceInv, CostTypes
  <2>2. stageCosts' \in [StageIds -> Nat]
    BY <1>3, <2>1
  <2> QED  BY <1>1, <1>2, <2>2 DEF BalanceInv, CostTypes
<1>5. /\ \A k : Share(k)' = Share(k) /\ OnStage(k)' = OnStage(k)
      /\ \A S : CostSum(S)' = CostSum(S)
  BY <1>1, <1>2 DEF Share, CostSum, OnStage
<1>6. \A i \in 1 .. filled : order'[i] = order[i]
  <2>1. CASE Visit
    <3>1. pc = "sort"
      BY <2>1 DEF Visit
    <3>2. filled = 0
      BY <3>1 DEF BalanceInv, IInv, FillInv
    <3> QED  BY <3>2
  <2>2. CASE ~Visit
    <3>1. order' = order
      BY <2>2 DEF CountInDegrees, BailTrivial, BailCyclic, StartFill, vars, sortVars
    <3> QED  BY <3>1
  <2> QED  BY <2>1, <2>2
<1>7. \A k \in 0 .. filled : First(k)' = First(k)
  <2> SUFFICES ASSUME NEW k \in 0 .. filled
               PROVE  {order'[i] : i \in 1 .. k} = {order[i] : i \in 1 .. k}
    BY DEF First
  <2>1. \A i \in 1 .. k : i \in 1 .. filled
    BY <1>1
  <2>2. \A i \in 1 .. k : order'[i] = order[i]
    BY <1>6, <2>1
  <2> QED  BY <2>2
<1>8. pc' = "done" /\ ~singleStage' => pc = "done" /\ ~singleStage /\ stageCosts' = stageCosts
  BY DEF CountInDegrees, Visit, BailTrivial, BailCyclic, StartFill, vars, OneStage, resultVars
<1>9. filled \in 0 .. filled /\ \A i \in 1 .. filled : i - 1 \in 0 .. filled
  BY <1>1
<1>10. filled # 0 => filled \in 1 .. filled
  BY <1>1
<1>11. \A i \in 2 .. filled : i \in 1 .. filled /\ i - 1 \in 1 .. filled /\ i - 1 \in 0 .. filled
  BY <1>1
<1>12. LoadInv'
  <2>1. acc' = CostSum(First(filled)) /\ Share(curStage) <= acc'
    BY <1>1 DEF BalanceInv, LoadInv
  <2>2. IF filled' = 0 THEN curStage' = 0 ELSE curStage' = stage'[order'[filled']]
    BY <1>1, <1>6, <1>10 DEF BalanceInv, LoadInv
  <2>3. \A i \in 1 .. filled : Share(stage[order'[i]]) <= CostSum(First(i - 1))
    BY <1>6 DEF BalanceInv, LoadInv
  <2>4. \A i \in 2 .. filled :
          stage[order'[i - 1]] = stage[order'[i]] =>
            stage[order'[i]] + 1 = numStages \/ CostSum(First(i - 1)) < Share(stage[order'[i]] + 1)
    BY <1>6, <1>11 DEF BalanceInv, LoadInv
  <2>5. pc' = "done" /\ ~singleStage' =>
          \A k \in StageIds : stageCosts'[k] = CostSum(OnStage(k)) /\ stageCosts'[k] # 0
    BY <1>8 DEF BalanceInv, LoadInv
  <2>6. First(filled)' = First(filled)
    <3>1. First(filled)' = {order'[i] : i \in 1 .. filled}
      BY <1>1 DEF First
    <3> QED  BY <1>6, <3>1 DEF First
  <2>7. \A i \in 1 .. filled : First(i - 1)' = First(i - 1)
    BY <1>7, <1>9
  <2> QED  BY <1>1, <1>2, <1>5, <1>11, <2>1, <2>2, <2>3, <2>4, <2>5, <2>6, <2>7 DEF LoadInv
<1> QED  BY <1>4, <1>12

LEMMA BalanceInvariance == Spec => []BalanceInv
<1>1. BalanceInv /\ [Next]_vars => BalanceInv'
  <2> SUFFICES ASSUME BalanceInv, [Next]_vars PROVE BalanceInv'
    OBVIOUS
  <2>1. IInv'
    BY CountInDegreesStep, VisitStep, PlaceNextStep, OtherSteps DEF Next, Finished, BalanceInv
  <2>2. CostTypes' /\ LoadInv'
    BY LoadPlaceNext, LoadTally, LoadOthers DEF Next, Finished
  <2> QED  BY <2>1, <2>2 DEF BalanceInv
<1> QED  BY <1>1, LoadInit, PTL DEF Spec

LEMMA TypesHold == BalanceInv => TypeOK
  BY DEF BalanceInv, IInv, StageTypes, CostTypes, TypeOK

(* Every variable keeps its type. *)
THEOREM TypeCorrect == Spec => []TypeOK
  BY TypesHold, BalanceInvariance, PTL

(* What the transform relies on when it takes the cut.                     *)
CutIsUsable ==
  pc = "done" /\ ~singleStage =>
    /\ stage \in [SCCs -> StageIds]
    /\ \A e \in edges : stage[e[1]] <= stage[e[2]]
    /\ \A k \in StageIds : \E s \in SCCs : stage[s] = k /\ cost[s] # 0

(* A cut that is not given up has a stage for each SCC, no dependence that *)
(* goes back, and in each stage an SCC that costs something.               *)
THEOREM CutsAreUsable == Spec => []CutIsUsable
<1>1. BalanceInv /\ pc = "done" /\ ~singleStage =>
        /\ stage \in [SCCs -> StageIds]
        /\ \A k \in StageIds : \E s \in SCCs : stage[s] = k /\ cost[s] # 0
  <2> SUFFICES ASSUME BalanceInv, pc = "done", ~singleStage, NEW k \in StageIds,
                      \A s \in SCCs : stage[s] = k => cost[s] = 0
               PROVE  FALSE
    BY DEF BalanceInv, IInv, StageTypes
  <2>1. CostSum(OnStage(k)) # 0
    BY DEF BalanceInv, LoadInv
  <2>2. OnStage(k) \subseteq SCCs /\ \A x \in OnStage(k) : cost[x] \in {0}
    BY DEF OnStage
  <2>3. IsFiniteSet(OnStage(k))
    BY <2>2, FiniteSCCs DEF BalanceInv, IInv, StageTypes
  <2>4. 0 \in {0} /\ \A a, b \in {0} : a + b \in {0}
    OBVIOUS
  <2>5. CostSum(OnStage(k)) \in {0}
    BY <2>2, <2>3, <2>4, SumStays DEF CostSum
  <2> QED  BY <2>1, <2>5
<1>2. BalanceInv /\ EdgesGoForward => CutIsUsable
  BY <1>1 DEF CutIsUsable, EdgesGoForward
<1> QED  BY <1>2, BalanceInvariance, NoBackwardDependence, PTL

(* The boundaries of neighbouring stages differ by the fair share. *)
LEMMA FairShare ==
  ASSUME NEW T \in Nat, NEW N \in Nat \ {0}, NEW k \in Nat
  PROVE  /\ (k * T) \div N \in Int /\ ((k + 1) * T) \div N \in Int
         /\ N * (((k + 1) * T) \div N - (k * T) \div N) < T + N
         /\ k + 1 = N => ((k + 1) * T) \div N = T
<1> DEFINE a == k * T
           b == (k + 1) * T
           qa == a \div N
           qb == b \div N
<1>1. a \in Int /\ b \in Int /\ a >= 0 /\ b = a + T
  OBVIOUS
<1> HIDE DEF a, b
<1>2. qa \in Int /\ a % N \in 0 .. N - 1 /\ a = qa * N + (a % N)
  BY <1>1, DivisionDef
<1>3. qb \in Int /\ b % N \in 0 .. N - 1 /\ b = qb * N + (b % N)
  BY <1>1, DivisionDef
<1> HIDE DEF qa, qb
<1>4. N * (qb - qa) = b - (b % N) - (a - (a % N))
  BY <1>2, <1>3
<1>5. N * (qb - qa) < T + N
  BY <1>1, <1>2, <1>3, <1>4
<1>6. ASSUME k + 1 = N PROVE qb = T
  <2>1. b = N * T
    BY <1>6 DEF b
  <2>2. (N * T) \div N = T
    OBVIOUS
  <2> QED  BY <2>1, <2>2 DEF qb
<1> QED  BY <1>2, <1>3, <1>5, <1>6 DEF a, b, qa, qb

(* Greedy filling gives no stage more than its fair share and the SCC that *)
(* it placed there last.                                                   *)
THEOREM LoadsAreBalanced == Spec => []StagesAreBalanced
<1>1. BalanceInv => StagesAreBalanced
  <2> SUFFICES ASSUME BalanceInv, pc = "done", ~singleStage, NEW k \in StageIds
               PROVE  numStages * (stageCosts[k] - cost[LastIn(k)]) < Total + numStages
    BY TypesHold DEF StagesAreBalanced
  <2>1. /\ IInv /\ n \in Nat /\ cost \in [SCCs -> Nat] /\ numStages \in Nat \ {0}
        /\ order \in Seq(SCCs) /\ Distinct(order) /\ stage \in [SCCs -> StageIds]
        /\ Len(order) = n /\ filled = n /\ k \in Nat
    BY DEF BalanceInv, IInv, StageTypes, SortInv, FillInv, CostTypes, StageIds
  <2>2. \A v \in SCCs : \E i \in 1 .. n : order[i] = v
    BY <2>1, AllListed DEF In
  <2>3. \A i \in 1 .. n : order[i] \in SCCs
    BY <2>1
  <2>4. stageCosts[k] = CostSum(OnStage(k)) /\ stageCosts[k] # 0
    BY DEF BalanceInv, LoadInv
  <2> DEFINE P == {i \in 1 .. n : stage[order[i]] = k}
  <2>5. P # {}
    <3>1. OnStage(k) # {}
      BY <2>4, SumOfNone DEF CostSum
    <3> QED  BY <2>2, <3>1 DEF OnStage
  <2>6. PICK f \in P, l \in P : \A i \in P : f <= i /\ i <= l
    <3>1. P \in SUBSET (1 .. n)
      OBVIOUS
    <3> HIDE DEF P
    <3> QED  BY <2>1, <2>5, <3>1, Ends
  <2>7. LastIn(k) = order[l]
    <3> DEFINE IsLast(i) == stage[order[i]] = k /\ \A j \in i + 1 .. n : stage[order[j]] # k
    <3>1. IsLast(l)
      <4>1. \A j \in l + 1 .. n : j \in 1 .. n /\ ~(j <= l)
        BY <2>1
      <4> QED  BY <2>6, <4>1
    <3>2. ASSUME NEW i \in 1 .. n, IsLast(i) PROVE i = l
      <4>1. i <= l
        BY <2>6, <3>2
      <4>2. ~(l \in i + 1 .. n)
        BY <3>1, <3>2
      <4> QED  BY <2>1, <4>1, <4>2
    <3>3. l = CHOOSE i \in 1 .. n : IsLast(i)
      BY <3>1, <3>2
    <3> QED  BY <3>3 DEF LastIn
  <2> DEFINE scc == order[l]
             rest == OnStage(k) \ {scc}
  <2>8. /\ f \in 1 .. n /\ l \in 1 .. n /\ f <= l /\ scc \in OnStage(k)
        /\ stage[order[f]] = k /\ stage[order[l]] = k
    BY <2>3, <2>6 DEF OnStage
  <2>9. \A i, j \in 1 .. n : i <= j => stage[order[i]] <= stage[order[j]]
    <3>1. \A i, j \in 1 .. n : i < j => stage[order[i]] <= stage[order[j]]
      BY <2>1 DEF IInv, FillInv
    <3>2. \A i \in 1 .. n : stage[order[i]] \in Nat
      BY <2>1, <2>3 DEF StageIds
    <3> QED  BY <2>1, <3>1, <3>2
  <2>10. First(l - 1) = First(f - 1) \cup rest /\ First(f - 1) \cap rest = {}
    <3>1. \A i \in 1 .. f - 1 : i \in 1 .. n /\ i \in 1 .. l - 1 /\ ~(f <= i)
      BY <2>1, <2>8
    <3>2. \A i \in 1 .. f - 1 : stage[order[i]] # k
      BY <2>6, <3>1
    <3>3. First(f - 1) \cap rest = {}
      BY <3>2 DEF First, OnStage
    <3>4. ASSUME NEW i \in 1 .. l - 1 PROVE order[i] \in First(f - 1) \cup rest
      <4>1. i \in 1 .. n /\ i <= l /\ i # l
        BY <2>1, <2>8
      <4>2. CASE i \in 1 .. f - 1
        BY <4>2 DEF First
      <4>3. CASE i \notin 1 .. f - 1
        <5>1. f <= i
          BY <2>1, <2>8, <4>3
        <5>2. stage[order[i]] \in Nat /\ k <= stage[order[i]] /\ stage[order[i]] <= k
          BY <2>1, <2>3, <2>8, <2>9, <4>1, <5>1 DEF StageIds
        <5>3. stage[order[i]] = k
          BY <2>1, <5>2
        <5>4. order[i] # scc
          BY <2>1, <2>8, <4>1 DEF Distinct
        <5> QED  BY <2>3, <4>1, <5>3, <5>4 DEF OnStage
      <4> QED  BY <4>2, <4>3
    <3>5. ASSUME NEW s \in rest PROVE s \in First(l - 1)
      <4>1. PICK i \in 1 .. n : order[i] = s
        BY <2>2 DEF OnStage
      <4>2. i <= l /\ i # l
        BY <2>6, <4>1 DEF OnStage
      <4>3. i \in 1 .. l - 1
        BY <2>1, <2>8, <4>2
      <4> QED  BY <4>1, <4>3 DEF First
    <3>6. First(f - 1) \subseteq First(l - 1)
      BY <3>1 DEF First
    <3>7. First(l - 1) \subseteq First(f - 1) \cup rest
      BY <3>4 DEF First
    <3> QED  BY <3>3, <3>5, <3>6, <3>7
  <2>11. First(f - 1) \in SUBSET SCCs /\ rest \in SUBSET SCCs /\ First(l - 1) \in SUBSET SCCs
    <3>1. \A i \in 1 .. l - 1 : i \in 1 .. n
      BY <2>1, <2>8
    <3>2. First(l - 1) \in SUBSET SCCs
      BY <2>3, <3>1 DEF First
    <3> QED  BY <2>10, <3>2
  <2>12. \A S \in SUBSET SCCs : CostSum(S) \in Nat /\ IsFiniteSet(S) /\ \A x \in S : cost[x] \in Int
    BY <2>1, CostsAreNatural, FiniteSCCs
  <2>13. CostSum(First(l - 1)) = CostSum(First(f - 1)) + CostSum(rest)
    <3> HIDE DEF rest
    <3>1. \A x \in First(f - 1) \cup rest : cost[x] \in Int
      BY <2>11, <2>12
    <3> QED  BY <2>10, <2>11, <2>12, <3>1, SumUnites DEF CostSum
  <2>14. stageCosts[k] = cost[scc] + CostSum(rest) /\ cost[scc] \in Nat
    <3>1. OnStage(k) \in SUBSET SCCs
      BY DEF OnStage
    <3>2. SumOver(cost, OnStage(k)) = cost[scc] + SumOver(cost, OnStage(k) \ {scc})
      BY <2>8, <2>12, <3>1, SumSplits
    <3> QED  BY <2>1, <2>3, <2>4, <2>8, <3>2 DEF CostSum
  <2> DEFINE N == numStages
             T == CostSum(SCCs)
  <2>15. /\ Share(k) \in Int /\ Share(k + 1) \in Int
         /\ N * (Share(k + 1) - Share(k)) < T + N /\ (k + 1 = N => Share(k + 1) = T)
    <3>1. T \in Nat
      BY <2>12
    <3> HIDE DEF T
    <3>2. /\ (k * T) \div N \in Int /\ ((k + 1) * T) \div N \in Int
          /\ N * (((k + 1) * T) \div N - (k * T) \div N) < T + N
          /\ k + 1 = N => ((k + 1) * T) \div N = T
      BY <2>1, <3>1, FairShare
    <3> QED  BY <3>2 DEF Share, T
  <2>16. Share(k) <= CostSum(First(f - 1))
    BY <2>1, <2>8 DEF BalanceInv, LoadInv
  <2>17. l # f => CostSum(First(l - 1)) <= Share(k + 1)
    <3> SUFFICES ASSUME l # f PROVE CostSum(First(l - 1)) <= Share(k + 1)
      OBVIOUS
    <3>1. l \in 2 .. n /\ l - 1 \in 1 .. n /\ f <= l - 1 /\ l - 1 <= l
      BY <2>1, <2>8
    <3>2. stage[order[l - 1]] = k
      <4>1. stage[order[l - 1]] \in Nat /\ k <= stage[order[l - 1]] /\ stage[order[l - 1]] <= k
        BY <2>1, <2>3, <2>8, <2>9, <3>1 DEF StageIds
      <4> QED  BY <2>1, <4>1
    <3>3. k + 1 = numStages \/ CostSum(First(l - 1)) < Share(k + 1)
      BY <2>1, <2>8, <3>1, <3>2 DEF BalanceInv, LoadInv
    <3>4. CostSum(First(l - 1)) <= T
      <4> DEFINE S == First(l - 1)
                 R == SCCs \ S
      <4>1. S \in SUBSET SCCs /\ R \in SUBSET SCCs /\ S \cup R = SCCs /\ S \cap R = {}
        BY <2>11
      <4> HIDE DEF S, R
      <4>2. SumOver(cost, S \cup R) = SumOver(cost, S) + SumOver(cost, R)
        BY <2>12, <4>1, SumUnites
      <4>3. T = CostSum(S) + CostSum(R)
        BY <4>1, <4>2 DEF CostSum
      <4>4. CostSum(S) \in Nat /\ CostSum(R) \in Nat
        BY <2>12, <4>1
      <4>5. CostSum(S) <= T
        <5> HIDE DEF T
        <5> QED  BY <4>3, <4>4
      <4> QED  BY <4>5 DEF S
    <3>5. CostSum(First(l - 1)) \in Nat
      BY <2>11, <2>12
    <3> QED  BY <2>15, <3>3, <3>4, <3>5
  <2>18. Total = T
    BY CostOfIs DEF Total
  <2>19. /\ T \in Nat /\ CostSum(rest) \in Nat /\ CostSum(First(f - 1)) \in Nat
         /\ CostSum(First(l - 1)) \in Nat
    BY <2>11, <2>12
  <2> HIDE DEF T, rest, scc
  <2>20. stageCosts[k] - cost[scc] = CostSum(rest)
    BY <2>14, <2>19
  <2>21. N * CostSum(rest) < T + N
    <3>1. CASE l = f
      <4>1. CostSum(rest) = 0
        BY <2>13, <2>19, <3>1
      <4> QED  BY <2>1, <2>19, <4>1
    <3>2. CASE l # f
      <4>1. CostSum(rest) <= Share(k + 1) - Share(k)
        BY <2>13, <2>15, <2>16, <2>17, <2>19, <3>2
      <4> DEFINE d == Share(k + 1) - Share(k)
      <4>2. d \in Int
        BY <2>15
      <4>3. N * d < T + N
        BY <2>15
      <4> HIDE DEF d
      <4>4. CostSum(rest) <= d
        BY <4>1 DEF d
      <4>5. N \in Nat /\ T + N \in Int /\ CostSum(rest) \in Int
        BY <2>1, <2>19
      <4> HIDE DEF N
      <4> QED  BY <4>2, <4>3, <4>4, <4>5, ScaledBound, Zenon
    <3> QED  BY <3>1, <3>2
  <2> QED  BY <2>7, <2>18, <2>20, <2>21 DEF scc
<1> QED  BY <1>1, BalanceInvariance, PTL
=============================================================================
