---------------------------- MODULE SCCDagProofs ----------------------------
(***************************************************************************)
(* TLAPS proofs that the graph buildSCCDAG builds has no cycle and that    *)
(* its edges sum up the dependences, for every dependence graph, every     *)
(* sinks-first numbering and every order in which the edges are looked at. *)
(***************************************************************************)
EXTENDS SCCDag, Arithmetic

(* Dependences other than control never lead to a higher component.        *)
NumberingInv ==
  /\ pdg \subseteq PDGEdges /\ sccOf \in [Instrs -> Int]
  /\ \A e \in pdg : e.kind # "ctrl" => sccOf[e.from] >= sccOf[e.to]

(* The edges collected so far start in src and lead below it.              *)
CollectInv ==
  /\ todo \subseteq EdgesOf(src)
  /\ \A x \in byDst : x.to < src
  /\ DOMAIN out = SCCs

IInv == NumberingInv /\ CollectInv /\ IsAcyclic

LEMMA FiniteEdges == Init => pdg \subseteq PDGEdges /\ IsFiniteSet(pdg)
<1> SUFFICES ASSUME Init PROVE pdg \subseteq PDGEdges /\ IsFiniteSet(pdg)
  OBVIOUS
<1> DEFINE F == {{f[i] : i \in 1 .. MaxEdges} : f \in [1 .. MaxEdges -> PDGEdges]}
<1>1. pdg \in F \cup {{}}
  BY DEF Init, PDGs
<1>2. CASE pdg = {}
  BY <1>2, FS_EmptySet
<1>3. CASE pdg \in F
  <2>1. PICK f \in [1 .. MaxEdges -> PDGEdges] : pdg = {f[i] : i \in 1 .. MaxEdges}
    BY <1>3
  <2>2. f \in Surjection(1 .. MaxEdges, pdg) /\ pdg \subseteq PDGEdges
    BY <2>1 DEF Surjection
  <2>3. IsFiniteSet(1 .. MaxEdges)
    BY SCCDagAssumption, FS_Interval
  <2> QED  BY <2>2, <2>3, FS_Surjection
<1> QED  BY <1>1, <1>2, <1>3

LEMMA InitCorrect == Init => IInv
<1> SUFFICES ASSUME Init PROVE IInv
  OBVIOUS
<1>1. pdg \subseteq PDGEdges
  BY FiniteEdges
<1>2. /\ sccOf \in [Instrs -> 0 .. NumInstrs - 1]
      /\ \A p \in {<<e.from, e.to>> : e \in {d \in pdg : d.kind # "ctrl"}} : sccOf[p[1]] >= sccOf[p[2]]
  BY DEF Init, Numberings
<1>3. \A e \in pdg : e.kind # "ctrl" => sccOf[e.from] >= sccOf[e.to]
  <2> SUFFICES ASSUME NEW e \in pdg, e.kind # "ctrl" PROVE sccOf[e.from] >= sccOf[e.to]
    OBVIOUS
  <2> DEFINE deps == {<<d.from, d.to>> : d \in {c \in pdg : c.kind # "ctrl"}}
             p == <<e.from, e.to>>
  <2>1. p \in deps
    OBVIOUS
  <2>2. sccOf[p[1]] >= sccOf[p[2]]
    <3> HIDE DEF p
    <3> QED  BY <1>2, <2>1
  <2>3. p[1] = e.from /\ p[2] = e.to
    OBVIOUS
  <2> QED  BY <2>2, <2>3
<1>4. NumberingInv
  BY <1>1, <1>2, <1>3 DEF NumberingInv
<1>5. CollectInv /\ IsAcyclic
  BY DEF Init, CollectInv, IsAcyclic
<1> QED  BY <1>4, <1>5 DEF IInv

LEMMA EntryLeadsTo == \A d : Entry(d).to = d
  BY DEF Entry, NewEdge

LEMMA LookAtStep ==
  ASSUME IInv, NEW e \in PDGEdges, LookAt(e)
  PROVE  IInv'
<1>1. /\ e \in todo /\ todo' = todo \ {e}
      /\ UNCHANGED <<pdg, sccOf, src, out>> /\ SCCs' = SCCs /\ EdgesOf(src)' = EdgesOf(src)
  BY DEF LookAt, SCCs, NumSCCs, EdgesOf
<1>2. \A x \in byDst' : x.to < src
  <2>1. CASE Dropped(e)
    BY <2>1 DEF LookAt, IInv, CollectInv
  <2>2. CASE ~Dropped(e)
    <3>1. sccOf[e.from] = src /\ e \in pdg
      BY <1>1 DEF IInv, CollectInv, EdgesOf
    <3>2. sccOf[e.to] \in Int /\ sccOf[e.from] \in Int
      BY DEF IInv, NumberingInv, PDGEdges
    <3>3. sccOf[e.to] < src
      BY <2>2, <3>1, <3>2 DEF Dropped, IInv, NumberingInv
    <3>4. PICK x : x = Entry(sccOf[e.to]) /\ byDst' = (byDst \ {x}) \cup {Merge(x, e)}
      BY <2>2 DEF LookAt
    <3>5. x.to = sccOf[e.to]
      BY <3>4, EntryLeadsTo
    <3>6. Merge(x, e).to = x.to
      BY DEF Merge
    <3> QED  BY <3>3, <3>4, <3>5, <3>6 DEF IInv, CollectInv
  <2> QED  BY <2>1, <2>2
<1>3. NumberingInv' /\ CollectInv'
  BY <1>1, <1>2 DEF IInv, NumberingInv, CollectInv
<1>4. IsAcyclic'
  BY <1>1 DEF IInv, IsAcyclic
<1> QED  BY <1>3, <1>4 DEF IInv

LEMMA NextSCCStep == IInv /\ NextSCC => IInv'
<1> SUFFICES ASSUME IInv, NextSCC PROVE IInv'
  OBVIOUS
<1>1. /\ out' = [out EXCEPT ![src] = byDst] /\ UNCHANGED <<pdg, sccOf>> /\ SCCs' = SCCs
      /\ todo' = EdgesOf(src') /\ byDst' = {}
  BY DEF NextSCC, SCCs, NumSCCs
<1>2. EdgesOf(src)' = EdgesOf(src')
  BY <1>1 DEF EdgesOf
<1>3. NumberingInv' /\ CollectInv'
  BY <1>1, <1>2 DEF IInv, NumberingInv, CollectInv
<1>4. IsAcyclic'
  BY <1>1 DEF IInv, CollectInv, IsAcyclic
<1> QED  BY <1>3, <1>4 DEF IInv

LEMMA Invariance == Spec => []IInv
<1>1. IInv /\ UNCHANGED vars => IInv'
  BY DEF vars, IInv, NumberingInv, CollectInv, IsAcyclic, EdgesOf, SCCs, NumSCCs
<1>2. IInv /\ [Next]_vars => IInv'
  BY <1>1, LookAtStep, NextSCCStep DEF Next, Finished
<1> QED  BY <1>2, InitCorrect, PTL DEF Spec

(* The edges between components only lead to components numbered before,   *)
(* so that they form no cycle: what the partitioner's sort needs.          *)
THEOREM DagIsAcyclic == Spec => []IsAcyclic
<1>1. IInv => IsAcyclic
  BY DEF IInv
<1> QED  BY <1>1, Invariance, PTL

---------------------------------------------------------------------------
(* What the edges sum up. *)

(* The dependences of E on instructions of d, and the edge for them.       *)
Deps(E, d) == {e \in E : sccOf[e.to] = d /\ e.kind # "ctrl"}
EdgeFor(d, D) == [to |-> d, count |-> Cardinality(D),
                  carried |-> \E e \in D : e.carried,
                  data |-> \E e \in D : e.kind = "data",
                  memory |-> \E e \in D : e.kind = "mem",
                  control |-> FALSE]
EdgesFor(s, d, D) == IF s = d \/ D = {} THEN {} ELSE {EdgeFor(d, D)}

(* B has one edge from s to each component that E leads to.                *)
SumsUp(B, s, E) ==
  /\ \A x \in B : x.to \in SCCs
  /\ \A d \in SCCs : {x \in B : x.to = d} = EdgesFor(s, d, Deps(E, d))

GraphTypes ==
  /\ pdg \subseteq PDGEdges /\ IsFiniteSet(pdg)
  /\ sccOf \in [Instrs -> SCCs] /\ NumSCCs \in Nat /\ src \in 0 .. NumSCCs

(* The edges of src sum up what has been looked at; those of the           *)
(* components before it are complete.                                      *)
SumInv ==
  /\ todo \subseteq EdgesOf(src) /\ SumsUp(byDst, src, EdgesOf(src) \ todo)
  /\ DOMAIN out = SCCs
  /\ \A s \in SCCs : IF s < src THEN SumsUp(out[s], s, EdgesOf(s)) ELSE out[s] = {}

DagInv == GraphTypes /\ SumInv

LEMMA NothingToSumUp == \A s : SumsUp({}, s, {})
  BY DEF SumsUp, EdgesFor, Deps

(* The numbers of the components are those below their number. *)
LEMMA NumbersAreDense ==
  Init => NumSCCs \in Nat /\ sccOf \in [Instrs -> SCCs]
<1> SUFFICES ASSUME Init PROVE NumSCCs \in Nat /\ sccOf \in [Instrs -> SCCs]
  OBVIOUS
<1> DEFINE V == {sccOf[i] : i \in Instrs}
<1>1. /\ sccOf \in [Instrs -> 0 .. NumInstrs - 1] /\ NumInstrs \in Nat
      /\ \A i \in Instrs : sccOf[i] = 0 \/ \E j \in Instrs : sccOf[j] = sccOf[i] - 1
  BY SCCDagAssumption DEF Init, Numberings
<1>2. V \in SUBSET (0 .. NumInstrs - 1) /\ IsFiniteSet(0 .. NumInstrs - 1)
  BY <1>1, FS_Interval
<1>3. IsFiniteSet(V) /\ Cardinality(V) \in Nat
  BY <1>2, FS_Subset, FS_CardinalityType
<1>4. \A v \in V : v = 0 \/ v - 1 \in V
  BY <1>1
<1> HIDE DEF V
<1>5. ASSUME NEW v \in V PROVE v < Cardinality(V)
  <2>1. v \in Nat
    BY <1>2
  <2> DEFINE Q == {k \in Nat : k <= v => v - k \in V}
  <2>2. 0 \in Q
    BY <2>1
  <2>3. ASSUME NEW k \in Q PROVE k + 1 \in Q
    <3> SUFFICES ASSUME k + 1 <= v PROVE v - (k + 1) \in V
      OBVIOUS
    <3>1. k <= v /\ v - k # 0
      BY <2>1
    <3>2. v - k \in V
      BY <3>1
    <3>3. v - k - 1 \in V
      BY <1>4, <3>1, <3>2
    <3>4. v - k - 1 = v - (k + 1)
      BY <2>1
    <3> QED  BY <3>3, <3>4
  <2>4. Q = Nat
    <3>1. Q \in SUBSET Nat
      OBVIOUS
    <3> HIDE DEF Q
    <3> QED  BY <2>2, <2>3, <3>1, ByInduction
  <2>5. 0 .. v \in SUBSET V
    <3> SUFFICES ASSUME NEW u \in 0 .. v PROVE u \in V
      OBVIOUS
    <3>1. v - u \in Nat /\ v - u <= v /\ v - (v - u) = u
      BY <2>1
    <3>2. v - u \in Q
      BY <2>4, <3>1
    <3> QED  BY <3>1, <3>2
  <2>6. Cardinality(0 .. v) <= Cardinality(V) /\ Cardinality(0 .. v) = v + 1
    <3>1. Cardinality(0 .. v) = IF 0 > v THEN 0 ELSE v - 0 + 1
      BY <2>1, FS_Interval
    <3>2. Cardinality(0 .. v) <= Cardinality(V)
      BY <1>3, <2>5, FS_Subset
    <3> QED  BY <2>1, <3>1, <3>2
  <2> QED  BY <1>3, <2>1, <2>6
<1>6. NumSCCs = Cardinality(V)
  BY DEF NumSCCs, V
<1>7. \A i \in Instrs : sccOf[i] \in SCCs
  <2> SUFFICES ASSUME NEW i \in Instrs PROVE sccOf[i] \in SCCs
    OBVIOUS
  <2>1. sccOf[i] \in V
    BY DEF V
  <2>2. sccOf[i] \in Nat /\ sccOf[i] < NumSCCs
    <3>1. sccOf[i] \in Nat
      BY <1>1
    <3>2. sccOf[i] < Cardinality(V)
      BY <1>5, <2>1
    <3> QED  BY <1>6, <3>1, <3>2
  <2> QED  BY <1>3, <1>6, <2>2 DEF SCCs
<1> QED  BY <1>1, <1>3, <1>6, <1>7

LEMMA DagInit == Init => DagInv
<1> SUFFICES ASSUME Init PROVE DagInv
  OBVIOUS
<1>1. GraphTypes
  <2>1. NumSCCs \in Nat /\ sccOf \in [Instrs -> SCCs] /\ pdg \subseteq PDGEdges /\ IsFiniteSet(pdg)
    BY FiniteEdges, NumbersAreDense
  <2>2. src \in 0 .. NumSCCs
    BY <2>1 DEF Init
  <2> QED  BY <2>1, <2>2 DEF GraphTypes
<1>2. SumInv
  <2>1. src = 0 /\ todo = EdgesOf(0) /\ byDst = {} /\ out = [s \in SCCs |-> {}]
    BY DEF Init
  <2>2. \A s \in SCCs : ~(s < src)
    BY <1>1, <2>1 DEF SCCs, GraphTypes
  <2>3. EdgesOf(src) \ todo = {}
    BY <2>1
  <2> QED  BY <2>1, <2>2, <2>3, NothingToSumUp DEF SumInv
<1> QED  BY <1>1, <1>2 DEF DagInv

(* One more dependence on d. *)
LEMMA OneMore ==
  ASSUME NEW D, IsFiniteSet(D), NEW d, NEW e \in PDGEdges, e \notin D, e.kind # "ctrl",
         NEW x, x = (IF D = {} THEN NewEdge(d) ELSE EdgeFor(d, D))
  PROVE  Merge(x, e) = EdgeFor(d, D \cup {e})
<1>1. Cardinality(D) \in Nat /\ Cardinality(D \cup {e}) = Cardinality(D) + 1 /\ Cardinality({}) = 0
  BY FS_CardinalityType, FS_AddElement, FS_EmptySet
<1>2. e.carried \in BOOLEAN
  BY DEF PDGEdges
<1> DEFINE c == (\E b \in D : b.carried)
           t == (\E b \in D : b.kind = "data")
           m == (\E b \in D : b.kind = "mem")
<1>3. x = [to |-> d, count |-> Cardinality(D), carried |-> c, data |-> t, memory |-> m, control |-> FALSE]
  <2>1. CASE D = {}
    <3>1. c = FALSE /\ t = FALSE /\ m = FALSE
      BY <2>1
    <3>2. x = [to |-> d, count |-> 0, carried |-> FALSE, data |-> FALSE, memory |-> FALSE, control |-> FALSE]
      BY <2>1 DEF NewEdge
    <3> QED  BY <1>1, <2>1, <3>1, <3>2
  <2>2. CASE D # {}
    BY <2>2 DEF EdgeFor
  <2> QED  BY <2>1, <2>2
<1> DEFINE c1 == (\E b \in D \cup {e} : b.carried)
           t1 == (\E b \in D \cup {e} : b.kind = "data")
           m1 == (\E b \in D \cup {e} : b.kind = "mem")
<1>4. (c1 <=> c \/ e.carried) /\ (t1 <=> t \/ e.kind = "data") /\ (m1 <=> m \/ e.kind = "mem")
  OBVIOUS
<1>5. c \in BOOLEAN /\ t \in BOOLEAN /\ m \in BOOLEAN /\ c1 \in BOOLEAN /\ t1 \in BOOLEAN /\ m1 \in BOOLEAN
  OBVIOUS
<1>6. EdgeFor(d, D \cup {e}) = [to |-> d, count |-> Cardinality(D) + 1, carried |-> c1, data |-> t1,
                                memory |-> m1, control |-> FALSE]
  BY <1>1 DEF EdgeFor
<1> HIDE DEF c, t, m, c1, t1, m1
<1>7. Merge(x, e) = [to |-> d, count |-> Cardinality(D) + 1, carried |-> c \/ e.carried,
                     data |-> t \/ e.kind = "data", memory |-> m \/ e.kind = "mem", control |-> FALSE]
  <2> DEFINE y == Merge(x, e)
             z == [to |-> d, count |-> Cardinality(D) + 1, carried |-> c \/ e.carried,
                   data |-> t \/ e.kind = "data", memory |-> m \/ e.kind = "mem", control |-> FALSE]
  <2>1. x.to = d /\ x.count = Cardinality(D) /\ x.carried = c /\ x.data = t /\ x.memory = m /\ x.control = FALSE
        /\ DOMAIN x = {"to", "count", "carried", "data", "memory", "control"}
        /\ x = [l \in DOMAIN x |-> x[l]]
    BY <1>3
  <2>2. DOMAIN y = DOMAIN x /\ y = [l \in DOMAIN y |-> y[l]]
    BY DEF Merge
  <2>3. y.count = x.count + 1
    BY <2>1 DEF Merge
  <2>4. y.to = x.to /\ y.control = x.control
    BY <2>1 DEF Merge
  <2>5. y.carried = (x.carried \/ e.carried)
    BY <2>1 DEF Merge
  <2>6. y.data = (x.data \/ e.kind = "data")
    BY <2>1 DEF Merge
  <2>7. y.memory = (x.memory \/ e.kind = "mem")
    BY <2>1 DEF Merge
  <2>8. z = [l \in DOMAIN z |-> z[l]] /\ DOMAIN z = DOMAIN x
    BY <2>1
  <2>9. /\ z.to = d /\ z.count = Cardinality(D) + 1 /\ z.control = FALSE
        /\ z.carried = (c \/ e.carried) /\ z.data = (t \/ e.kind = "data")
        /\ z.memory = (m \/ e.kind = "mem")
    OBVIOUS
  <2> HIDE DEF y, z
  <2>10. \A l \in DOMAIN x : y[l] = z[l]
    <3>1. y.to = z.to /\ y.count = z.count /\ y.control = z.control
      BY <2>1, <2>3, <2>4, <2>9
    <3>2. y.carried = z.carried
      BY <2>1, <2>5, <2>9
    <3>3. y.data = z.data
      BY <2>1, <2>6, <2>9
    <3>4. y.memory = z.memory
      BY <2>1, <2>7, <2>9
    <3> QED  BY <2>1, <3>1, <3>2, <3>3, <3>4
  <2>11. y = z
    BY <2>2, <2>8, <2>10
  <2> QED  BY <2>11 DEF y, z
<1>8. c1 = (c \/ e.carried) /\ t1 = (t \/ e.kind = "data") /\ m1 = (m \/ e.kind = "mem")
  BY <1>2, <1>4, <1>5
<1> QED  BY <1>6, <1>7, <1>8

(* A summary stays one when a dependence is merged into it. *)
LEMMA SumsUpOneMore ==
  ASSUME GraphTypes, NEW E \in SUBSET pdg, NEW e \in pdg, e \notin E,
         SumsUp(byDst, src, E), e.kind # "ctrl", sccOf[e.to] # src
  PROVE  LET x == Entry(sccOf[e.to]) IN SumsUp((byDst \ {x}) \cup {Merge(x, e)}, src, E \cup {e})
<1> DEFINE d0 == sccOf[e.to]
           x == Entry(d0)
           D == Deps(E, d0)
           B == (byDst \ {x}) \cup {Merge(x, e)}
<1>1. e \in PDGEdges /\ d0 \in SCCs /\ e \notin D /\ IsFiniteSet(D) /\ D \subseteq E
  BY FS_Subset DEF GraphTypes, PDGEdges, Deps
<1>2. {y \in byDst : y.to = d0} = IF D = {} THEN {} ELSE {EdgeFor(d0, D)}
  BY <1>1 DEF SumsUp, EdgesFor
<1>3. x = IF D = {} THEN NewEdge(d0) ELSE EdgeFor(d0, D)
  <2>1. CASE D = {}
    <3>1. ~\E y \in byDst : y.to = d0
      BY <1>2, <2>1
    <3> QED  BY <2>1, <3>1 DEF Entry
  <2>2. CASE D # {}
    <3>1. \A y : y \in byDst /\ y.to = d0 <=> y = EdgeFor(d0, D)
      BY <1>2, <2>2
    <3> HIDE DEF D, d0
    <3> QED  BY <2>2, <3>1 DEF Entry
  <2> QED  BY <2>1, <2>2
<1> HIDE DEF x
<1>4. Merge(x, e) = EdgeFor(d0, D \cup {e})
  <2> HIDE DEF D, d0
  <2> QED  BY <1>1, <1>3, OneMore
<1>5. x.to = d0 /\ Merge(x, e).to = d0 /\ \A y \in byDst : y.to = d0 => y = x
  <2>1. NewEdge(d0).to = d0 /\ \A A : EdgeFor(d0, A).to = d0
    BY DEF NewEdge, EdgeFor
  <2>2. \A y \in byDst : y.to = d0 => D # {} /\ y = EdgeFor(d0, D)
    BY <1>2
  <2> HIDE DEF D, d0
  <2> QED  BY <1>3, <1>4, <2>1, <2>2
<1>6. Deps(E \cup {e}, d0) = D \cup {e} /\ \A d \in SCCs : d # d0 => Deps(E \cup {e}, d) = Deps(E, d)
  BY DEF Deps
<1>7. \A y \in B : y.to \in SCCs
  BY <1>1, <1>5 DEF SumsUp
<1>8. ASSUME NEW d \in SCCs PROVE {y \in B : y.to = d} = EdgesFor(src, d, Deps(E \cup {e}, d))
  <2>1. CASE d = d0
    <3>1. {y \in B : y.to = d0} = {Merge(x, e)}
      BY <1>5
    <3> QED  BY <1>4, <1>6, <2>1, <3>1 DEF EdgesFor
  <2>2. CASE d # d0
    <3>1. {y \in B : y.to = d} = {y \in byDst : y.to = d}
      BY <1>5, <2>2
    <3> QED  BY <1>6, <2>2, <3>1 DEF SumsUp
  <2> QED  BY <2>1, <2>2
<1> QED  BY <1>7, <1>8 DEF SumsUp, x

LEMMA DagLookAt ==
  ASSUME DagInv, NEW e \in PDGEdges, LookAt(e)
  PROVE  DagInv'
<1>1. /\ e \in todo /\ todo' = todo \ {e}
      /\ UNCHANGED <<pdg, sccOf, src, out>>
      /\ SCCs' = SCCs /\ NumSCCs' = NumSCCs /\ (\A s : EdgesOf(s)' = EdgesOf(s))
  BY DEF LookAt, SCCs, NumSCCs, EdgesOf
<1>2. \A B, s, E : SumsUp(B, s, E)' = SumsUp(B, s, E)
  BY <1>1 DEF SumsUp, EdgesFor, EdgeFor, Deps
<1> DEFINE E == EdgesOf(src) \ todo
<1>3. EdgesOf(src) \ todo' = E \cup {e} /\ e \notin E /\ e \in pdg /\ E \in SUBSET pdg
  BY <1>1 DEF DagInv, SumInv, EdgesOf
<1>4. SumsUp(byDst, src, E) /\ GraphTypes
  BY DEF DagInv, SumInv
<1> HIDE DEF E
<1>5. SumsUp(byDst', src, E \cup {e})
  <2>1. CASE Dropped(e)
    <3>1. \A d \in SCCs : src = d \/ Deps(E \cup {e}, d) = Deps(E, d)
      BY <2>1 DEF Dropped, Deps
    <3>2. byDst' = byDst
      BY <2>1 DEF LookAt
    <3> QED  BY <1>4, <3>1, <3>2 DEF SumsUp, EdgesFor
  <2>2. CASE ~Dropped(e)
    <3>1. e.kind # "ctrl" /\ sccOf[e.to] # src
      BY <2>2 DEF Dropped
    <3>2. byDst' = LET x == Entry(sccOf[e.to]) IN (byDst \ {x}) \cup {Merge(x, e)}
      BY <2>2 DEF LookAt
    <3> QED  BY <1>3, <1>4, <3>1, <3>2, SumsUpOneMore
  <2> QED  BY <2>1, <2>2
<1>6. GraphTypes'
  BY <1>1, <1>4 DEF GraphTypes
<1>7. SumInv'
  <2>1. SumsUp(byDst', src, EdgesOf(src) \ todo')
    BY <1>3, <1>5
  <2> QED  BY <1>1, <1>2, <2>1 DEF DagInv, SumInv
<1> QED  BY <1>6, <1>7 DEF DagInv

LEMMA DagNextSCC == DagInv /\ NextSCC => DagInv'
<1> SUFFICES ASSUME DagInv, NextSCC PROVE DagInv'
  OBVIOUS
<1>1. /\ src < NumSCCs /\ todo = {} /\ out' = [out EXCEPT ![src] = byDst] /\ src' = src + 1
      /\ todo' = EdgesOf(src') /\ byDst' = {} /\ UNCHANGED <<pdg, sccOf>>
      /\ SCCs' = SCCs /\ NumSCCs' = NumSCCs /\ (\A s : EdgesOf(s)' = EdgesOf(s))
  BY DEF NextSCC, SCCs, NumSCCs, EdgesOf
<1>2. \A B, s, E : SumsUp(B, s, E)' = SumsUp(B, s, E)
  BY <1>1 DEF SumsUp, EdgesFor, EdgeFor, Deps
<1>3. src \in Nat /\ NumSCCs \in Nat /\ src \in SCCs /\ DOMAIN out = SCCs
  BY <1>1 DEF DagInv, GraphTypes, SumInv, SCCs
<1>4. GraphTypes'
  <2>1. src' \in 0 .. NumSCCs
    BY <1>1, <1>3
  <2> QED  BY <1>1, <2>1 DEF DagInv, GraphTypes
<1>5. SumsUp(byDst, src, EdgesOf(src))
  <2>1. EdgesOf(src) \ todo = EdgesOf(src)
    BY <1>1
  <2> QED  BY <2>1 DEF DagInv, SumInv
<1>6. SumsUp(byDst', src', EdgesOf(src') \ todo')
  <2>1. EdgesOf(src') \ todo' = {}
    BY <1>1
  <2> QED  BY <1>1, <2>1, NothingToSumUp
<1>7. ASSUME NEW s \in SCCs
      PROVE  IF s < src' THEN SumsUp(out'[s], s, EdgesOf(s)) ELSE out'[s] = {}
  <2>1. s \in Nat
    BY DEF SCCs
  <2>2. CASE s = src
    BY <1>1, <1>3, <1>5, <2>2
  <2>3. CASE s # src
    <3>1. out'[s] = out[s] /\ (s < src' <=> s < src)
      BY <1>1, <1>3, <2>1, <2>3
    <3> QED  BY <3>1 DEF DagInv, SumInv
  <2> QED  BY <2>2, <2>3
<1>8. SumInv'
  <2>1. EdgesOf(src)' = EdgesOf(src')
    BY <1>1 DEF EdgesOf
  <2>2. DOMAIN out' = SCCs
    BY <1>1, <1>3
  <2> QED  BY <1>1, <1>2, <1>6, <1>7, <2>1, <2>2 DEF SumInv
<1> QED  BY <1>4, <1>8 DEF DagInv

LEMMA DagInvariance == Spec => []DagInv
<1>1. ASSUME DagInv, UNCHANGED vars PROVE DagInv'
  <2>1. /\ UNCHANGED <<pdg, sccOf, src, todo, byDst, out>>
        /\ SCCs' = SCCs /\ NumSCCs' = NumSCCs /\ (\A s : EdgesOf(s)' = EdgesOf(s))
    BY <1>1 DEF vars, SCCs, NumSCCs, EdgesOf
  <2>2. \A B, s, E : SumsUp(B, s, E)' = SumsUp(B, s, E)
    BY <2>1 DEF SumsUp, EdgesFor, EdgeFor, Deps
  <2> QED  BY <1>1, <2>1, <2>2 DEF DagInv, GraphTypes, SumInv
<1>2. DagInv /\ [Next]_vars => DagInv'
  BY <1>1, DagLookAt, DagNextSCC DEF Next, Finished
<1> QED  BY <1>2, DagInit, PTL DEF Spec

(* Every pair of components is joined by one edge exactly if there is a    *)
(* dependence between them, and the edge counts and sums up them all.      *)
THEOREM EdgesAreSums == Spec => []EdgesSumUp
<1>1. DagInv => EdgesSumUp
  <2> SUFFICES ASSUME DagInv PROVE EdgesSumUp
    OBVIOUS
  <2>1. \A s \in SCCs, d \in SCCs : DepsBetween(s, d) = Deps(EdgesOf(s), d)
    BY DEF DepsBetween, Deps, EdgesOf
  <2>2. ASSUME Done, NEW s \in SCCs, NEW d \in SCCs
        PROVE  {x \in out[s] : x.to = d} =
                 IF s = d \/ DepsBetween(s, d) = {} THEN {} ELSE {EdgeFor(d, DepsBetween(s, d))}
    <3>1. s < src
      BY <2>2 DEF Done, DagInv, GraphTypes, SCCs
    <3>2. SumsUp(out[s], s, EdgesOf(s))
      BY <3>1 DEF DagInv, SumInv
    <3> QED  BY <2>1, <3>2 DEF SumsUp, EdgesFor
  <2>3. ASSUME NEW B, NEW s, NEW E \in SUBSET pdg, SumsUp(B, s, E), NEW x \in B
        PROVE  x.to \in SCCs /\ x.count \in 1 .. Cardinality(pdg)
    <3> DEFINE D == Deps(E, x.to)
    <3>1. x.to \in SCCs
      BY <2>3 DEF SumsUp
    <3>2. x = EdgeFor(x.to, D) /\ D # {}
      BY <2>3, <3>1 DEF SumsUp, EdgesFor
    <3>3. x.count = Cardinality(D)
      BY <3>2 DEF EdgeFor
    <3>4. D \in SUBSET pdg /\ IsFiniteSet(pdg)
      BY DEF Deps, DagInv, GraphTypes
    <3> HIDE DEF D
    <3>5. IsFiniteSet(D) /\ Cardinality(D) <= Cardinality(pdg)
      BY <3>4, FS_Subset
    <3>6. Cardinality(D) \in Nat /\ Cardinality(pdg) \in Nat /\ Cardinality(D) # 0
      BY <3>2, <3>4, <3>5, FS_CardinalityType, FS_EmptySet
    <3>7. Cardinality(D) \in 1 .. Cardinality(pdg)
      BY <3>5, <3>6
    <3> QED  BY <3>1, <3>3, <3>7
  <2>4. \A s \in SCCs : \A x \in byDst \cup out[s] : x.to \in SCCs /\ x.count \in 1 .. Cardinality(pdg)
    <3> SUFFICES ASSUME NEW s \in SCCs, NEW x \in byDst \cup out[s]
                 PROVE  x.to \in SCCs /\ x.count \in 1 .. Cardinality(pdg)
      OBVIOUS
    <3>1. CASE x \in byDst
      <4>1. SumsUp(byDst, src, EdgesOf(src) \ todo) /\ EdgesOf(src) \ todo \in SUBSET pdg
        BY DEF DagInv, SumInv, EdgesOf
      <4> QED  BY <2>3, <3>1, <4>1
    <3>2. CASE x \in out[s]
      <4>1. SumsUp(out[s], s, EdgesOf(s)) /\ EdgesOf(s) \in SUBSET pdg
        BY <3>2 DEF DagInv, SumInv, EdgesOf
      <4> QED  BY <2>3, <3>2, <4>1
    <3> QED  BY <3>1, <3>2
  <2>5. todo \subseteq pdg
    BY DEF DagInv, SumInv, EdgesOf
  <2>6. TypeOK
    BY <2>4, <2>5 DEF TypeOK, DagInv, GraphTypes
  <2>7. ASSUME Done, NEW s \in SCCs, NEW d \in SCCs
        PROVE  LET D == DepsBetween(s, d)
                   X == {x \in out[s] : x.to = d}
               IN /\ X = {} <=> s = d \/ D = {}
                  /\ \A x \in X :
                       /\ x.count = Cardinality(D)
                       /\ x.carried <=> \E e \in D : e.carried
                       /\ x.data <=> \E e \in D : e.kind = "data"
                       /\ x.memory <=> \E e \in D : e.kind = "mem"
                  /\ \A x, y \in X : x = y
    <3> DEFINE D == DepsBetween(s, d)
               X == {x \in out[s] : x.to = d}
    <3> HIDE DEF D, X
    <3>1. D = DepsBetween(s, d) /\ X = {x \in out[s] : x.to = d}
      BY DEF D, X
    <3>2. X = IF s = d \/ D = {} THEN {} ELSE {EdgeFor(d, D)}
      BY <2>2, <2>7, <3>1
    <3>3. ASSUME NEW x, x = EdgeFor(d, D)
          PROVE  /\ x.count = Cardinality(D)
                 /\ x.carried <=> \E e \in D : e.carried
                 /\ x.data <=> \E e \in D : e.kind = "data"
                 /\ x.memory <=> \E e \in D : e.kind = "mem"
      BY <3>3 DEF EdgeFor
    <3>4. /\ X = {} <=> s = d \/ D = {}
          /\ \A x \in X :
               /\ x.count = Cardinality(D)
               /\ x.carried <=> \E e \in D : e.carried
               /\ x.data <=> \E e \in D : e.kind = "data"
               /\ x.memory <=> \E e \in D : e.kind = "mem"
          /\ \A x, y \in X : x = y
      BY <3>2, <3>3
    <3> QED  BY <3>4 DEF D, X
  <2> QED  BY <2>6, <2>7 DEF EdgesSumUp
<1> QED  BY <1>1, DagInvariance, PTL
=============================================================================
