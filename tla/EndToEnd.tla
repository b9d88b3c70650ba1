------------------------------ MODULE EndToEnd ------------------------------
(***************************************************************************)
(* The planned stages, run: a loop is planned and rewritten by StagePlan,  *)
(* its stages run concurrently, and what they compute is compared with the *)
(* sequential loop.                                                        *)
(*                                                                         *)
(* The sequential loop executes its instructions in order, over and over,  *)
(* and leaves at a branch.  An execution of an instruction is its POSITION *)
(* in that sequence, and a value is the position that computes it, 0 if it *)
(* comes from before the loop.  Nothing is known of a stage's branches     *)
(* after its first wrong value: the run is cut there.  Queue calls behave  *)
(* as in Pipeline, where each is a step of its own; instructions skipped   *)
(* by conditionals are in Pipeline too.                                    *)
(***************************************************************************)
EXTENDS StagePlan, FiniteSetsExt

CONSTANTS MaxSteps,     \* bound: instructions the sequential loop executes
          Capacity      \* slots of a queue

ASSUME EndToEndAssumption == MaxSteps \in Nat /\ Capacity \in Nat \ {0}

VARIABLES
  last,       \* the position that leaves the loop; 0 before the driver runs
  pos,        \* per stage: its position, MaxSteps + 1 when it has returned
  reg,        \* per stage and instruction: the value it holds
  queue,      \* per cross edge: the values in flight
  log,        \* the writes made: their position and the stage that made them
  result,     \* the live-out field of the argument struct, -1 if null
  diverged,   \* a stage has computed a value that the loop does not
  joined      \* the driver has returned

runVars == <<last, pos, reg, queue, log, result, diverged, joined>>
allVars == <<vars, runVars>>

At(p) == ((p - 1) % NumInstrs) + 1

(* The execution of i that is the latest before position p.                *)
Latest(i, p) == LET q == p - 1 - ((p - 1 - i) % NumInstrs) IN IF q < 1 THEN 0 ELSE q

(* The next position at which the clone has an instruction.                *)
NextAt(s, p) == Min({q \in p + 1 .. p + NumInstrs : clones[s + 1][At(q)] # "erased"})

InitRun ==
  /\ Init
  /\ last = 0 /\ pos = <<>> /\ reg = <<>> /\ queue = <<>>
  /\ log = {} /\ result = -1 /\ diverged = FALSE /\ joined = FALSE

Plan == PlanStep /\ UNCHANGED runVars

(* The driver creates the queues and starts the stages.  The input decides *)
(* where the loop ends: at a branch that the value returned reaches.       *)
Launch ==
  /\ body = "driver" /\ last = 0
  /\ last' \in {p \in 1 .. MaxSteps :
                  /\ kind[At(p)] = "br"
                  /\ returned.what = "loop" => returned.def < At(p)}
  /\ pos' = [s \in 0 .. numStages - 1 |-> NextAt(s, 0)]
  /\ reg' = [s \in 0 .. numStages - 1 |-> [i \in Instrs |-> 0]]
  /\ queue' = [e \in edges |-> <<>>]
  /\ UNCHANGED <<vars, log, result, diverged, joined>>

---------------------------------------------------------------------------
(* A stage. *)

Meets(s, what) ==
  /\ last # 0 /\ ~diverged /\ pos[s] <= last
  /\ clones[s + 1][At(pos[s])] = what

(* A write also comes after its own earlier executions, as calls do.       *)
Conflict(i, j) == <<i, j>> \in conflicts \/ <<j, i>> \in conflicts \/ i = j

(* An instruction computes what the loop does at p if its operands are the *)
(* loop's, and of the writes it conflicts with exactly those before p have *)
(* been made, each once.                                                   *)
OperandsRight(s, p) == \A e \in uses : e[2] = At(p) => reg[s][e[1]] = Latest(e[1], p)
MemoryRight(p) ==
  LET seen == {w \in log : Conflict(At(w.at), At(p))} IN
    /\ {w.at : w \in seen} =
         {q \in 1 .. p - 1 : Writes(At(q)) /\ Conflict(At(q), At(p))}
    /\ \A v, w \in seen : v.at = w.at => v = w
Right(s, p) == OperandsRight(s, p) /\ (Memory(At(p)) => MemoryRight(p))

MoveOn(s) == pos' = [pos EXCEPT ![s] = NextAt(s, @)]

(* An instruction that the stage runs, and its enqueues, which wait for    *)
(* room.                                                                   *)
Compute(s) ==
  /\ Meets(s, "run") /\ kind[At(pos[s])] # "br"
  /\ LET p == pos[s]
         out == {e \in edges : e.prod = At(p) /\ e.from = s}
     IN
       /\ \A e \in out : Len(queue[e]) < Capacity
       /\ reg' = [reg EXCEPT ![s][At(p)] = p]
       /\ queue' = [e \in edges |-> IF e \in out THEN Append(queue[e], p) ELSE queue[e]]
       /\ log' = IF Writes(At(p)) THEN log \cup {[at |-> p, by |-> s]} ELSE log
       /\ diverged' = ~Right(s, p)
  /\ MoveOn(s)
  /\ UNCHANGED <<vars, last, result, joined>>

(* A dequeue in the place of another stage's instruction.                  *)
Receive(s) ==
  /\ Meets(s, "dequeue")
  /\ \E e \in edges :
       /\ e.prod = At(pos[s]) /\ e.to = s /\ queue[e] # <<>>
       /\ reg' = [reg EXCEPT ![s][e.prod] = Head(queue[e])]
       /\ queue' = [queue EXCEPT ![e] = Tail(@)]
  /\ MoveOn(s)
  /\ UNCHANGED <<vars, last, log, result, diverged, joined>>

(* A branch: on in the loop, or, where the loop ends, into the exit block, *)
(* which stores the live-out if the stage is one that does.                *)
Branch(s) ==
  /\ Meets(s, "run") /\ kind[At(pos[s])] = "br"
  /\ diverged' = ~Right(s, pos[s])
  /\ \/ pos[s] # last /\ MoveOn(s) /\ UNCHANGED result
     \/ /\ pos[s] = last /\ pos' = [pos EXCEPT ![s] = MaxSteps + 1]
        /\ result' = IF s \notin stores THEN result
                     ELSE IF returned.what = "loop" THEN reg[s][returned.def] ELSE 0
  /\ UNCHANGED <<vars, last, reg, queue, log, joined>>

(* The driver joins every stage and returns.                               *)
Join ==
  /\ last # 0 /\ ~diverged /\ ~joined
  /\ \A s \in DOMAIN pos : pos[s] > last
  /\ joined' = TRUE
  /\ UNCHANGED <<vars, last, pos, reg, queue, log, result, diverged>>

Ended == (outcome = "unchanged" \/ diverged \/ joined) /\ UNCHANGED allVars

NextRun ==
  \/ Plan
  \/ Launch
  \/ \E s \in DOMAIN pos : Compute(s) \/ Receive(s) \/ Branch(s)
  \/ Join
  \/ Ended

SpecRun == InitRun /\ [][NextRun]_allVars

---------------------------------------------------------------------------
(* Properties. *)

RepeatsNoWrite == \A i \in Instrs : Writes(i) => ~Replicated(i)

(* Every value that any stage computes, receives or branches on is that of *)
(* the sequential loop, whatever the cut and the order of the stages'      *)
(* steps: operands are of the right iteration, and memory is read and      *)
(* written in an order the loop cannot be told from.  Plans that repeat a  *)
(* write are excepted; see EachStageIteratesAlone.                         *)
ValuesAreSequential == RepeatsNoWrite => ~diverged

(* When the rewritten function returns, it has made exactly the loop's     *)
(* writes, each by one stage; its result, if it returns a value of the     *)
(* loop or a constant, is the loop's; and no value is left in a queue.     *)
(* Other results are lost; see LiveOutIsStored.                            *)
ResultIsSequential ==
  joined /\ RepeatsNoWrite =>
    /\ LET writes == {p \in 1 .. last : Writes(At(p))} IN
         {w.at : w \in log} = writes /\ Cardinality(log) = Cardinality(writes)
    /\ returned.what = "loop" => result = Latest(returned.def, last)
    /\ returned.what = "const" => result = 0
    /\ \A e \in edges : queue[e] = <<>>

(* The stages never wait for each other in a circle of full and empty      *)
(* queues: until all have returned, one of them has what it needs for its  *)
(* next step, which is room in every queue that starts at an instruction   *)
(* it computes, and a value for one that it dequeues.                      *)
CanGoOn(s) ==
  \/ Meets(s, "run") /\ \A e \in edges : e.prod = At(pos[s]) /\ e.from = s =>
                                          Len(queue[e]) < Capacity
  \/ Meets(s, "dequeue") /\ \E e \in edges : e.prod = At(pos[s]) /\ e.to = s /\ queue[e] # <<>>
StagesNeverBlock ==
  last # 0 /\ ~diverged =>
    (\A s \in DOMAIN pos : pos[s] > last) \/ \E s \in DOMAIN pos : CanGoOn(s)

(* DSWPTransform.cpp:194 says of the repeated components that they are     *)
(* cloned into every stage "so each thread can iterate independently":     *)
(* each stage by itself finds the loop's values.                           *)
EachStageIteratesAlone == ~diverged
=============================================================================
