----------------------------- MODULE MCPipeline -----------------------------
(* Model-checking instances of Pipeline. *)
EXTENDS Pipeline, TLC

CONSTANTS i1, i2, i3

(* Three stages, forward edges only, as the partitioner produces them: i1  *)
(* feeds both later stages, i2 and i3 reach the last one by two routes.    *)
MCInstrs == {i1, i2, i3}
MCStageOf == [i \in MCInstrs |-> IF i = i2 THEN 1 ELSE 0]
MCEdges == << [prod |-> i1, to |-> 1], [prod |-> i1, to |-> 2],
              [prod |-> i2, to |-> 2], [prod |-> i3, to |-> 2] >>
MCRetStages == {2}
===========================================================================
