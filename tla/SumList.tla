------------------------------ MODULE SumList ------------------------------
(***************************************************************************)
(* runtime/dswp_stages_sum_list.c: the two hand-written stages of          *)
(* sum_list, one walking a list and one summing what the first sends, with *)
(* the driver that pass/DSWPTransform.cpp's first emitDriver builds for    *)
(* them.  Nothing calls that emitDriver at present.                        *)
(*                                                                         *)
(* The queue is a BoundedChannel of 64-bit words, here of W bits.  The     *)
(* driver looks at no result: dswp_queue_create may have returned null,    *)
(* and pthread_create may have started nothing.                            *)
(***************************************************************************)
EXTENDS Integers, Sequences, Functions

CONSTANTS W,          \* bound: bits of a long and of a uint64_t
          Longs,      \* the values of list nodes
          MaxLength,  \* bound: nodes of the list
          Capacity    \* slots of the queue (1024 in the code)

ASSUME SumListAssumption ==
  /\ W \in Nat \ {0} /\ MaxLength \in Nat /\ Capacity \in Nat \ {0}
  /\ Longs \subseteq -(2 ^ (W - 1)) .. 2 ^ (W - 1) - 1
  /\ \A x \in Longs : MaxLength * x \in -(2 ^ (W - 1)) .. 2 ^ (W - 1) - 1

Words == 0 .. 2 ^ W - 1

VARIABLES
  list,                         \* the values of the list from args.head on
  dpc, queue,                   \* driver: place; queue: "none", "open", "null" or "destroyed"
  sent, rcvd, closed, ended,    \* the channel
  wpc, p,                       \* walker: place or "failed", and the node its loop stands at
  rpc, sum, v,                  \* reducer: place or "failed", sum and the word dequeued last
  sumOut                        \* args.sum_out

chanVars == <<sent, rcvd, closed, ended>>
driverVars == <<dpc, queue>>
walkerVars == <<wpc, p>>
reducerVars == <<rpc, sum, v, sumOut>>
vars == <<list, driverVars, chanVars, walkerVars, reducerVars>>

Channel == INSTANCE BoundedChannel WITH Values <- Words

Lists == UNION {[1 .. n -> Longs] : n \in 0 .. MaxLength}

(* The casts from long to uint64_t and back. *)
ToWord(x) == x % 2 ^ W

(* Mutant: the word is taken for an unsigned number. *)
ToLongUnsigned(w) == w

ToLong(w) == IF w >= 2 ^ (W - 1) THEN w - 2 ^ W ELSE w

Init ==
  /\ list \in Lists
  /\ dpc = "create" /\ queue = "none"
  /\ Channel!Init
  /\ wpc = "unborn" /\ p = 1
  /\ rpc = "unborn" /\ sum = 0 /\ v = 0 /\ sumOut = 0

---------------------------------------------------------------------------
(* The driver. *)

CreateQueue ==
  /\ dpc = "create" /\ dpc' = "spawn0"
  /\ queue' \in {"open", "null"}
  /\ UNCHANGED <<list, chanVars, walkerVars, reducerVars>>

SpawnWalker ==
  /\ dpc = "spawn0" /\ dpc' = "spawn1"
  /\ wpc' \in {"loop", "failed"}
  /\ UNCHANGED <<list, queue, chanVars, p, reducerVars>>

SpawnReducer ==
  /\ dpc = "spawn1" /\ dpc' = "join0"
  /\ rpc' \in {"loop", "failed"}
  /\ UNCHANGED <<list, queue, chanVars, walkerVars, sum, v, sumOut>>

JoinWalker ==
  /\ dpc = "join0" /\ wpc = "done" /\ dpc' = "join1"
  /\ UNCHANGED <<list, queue, chanVars, walkerVars, reducerVars>>

JoinReducer ==
  /\ dpc = "join1" /\ rpc = "done" /\ dpc' = "destroy"
  /\ UNCHANGED <<list, queue, chanVars, walkerVars, reducerVars>>

(* The handle of a stage that did not start is uninitialised memory: the   *)
(* join returns at once, crashes, or (no step) never returns.              *)
JoinGarbage ==
  /\ \/ dpc = "join0" /\ wpc = "failed" /\ dpc' \in {"join1", "crashed"}
     \/ dpc = "join1" /\ rpc = "failed" /\ dpc' \in {"destroy", "crashed"}
  /\ UNCHANGED <<list, queue, chanVars, walkerVars, reducerVars>>

(* Destroy the queue, unless it is null; load the result and return it. *)
DestroyQueue ==
  /\ dpc = "destroy" /\ dpc' = "returned"
  /\ queue' = IF queue = "null" THEN queue ELSE "destroyed"
  /\ UNCHANGED <<list, chanVars, walkerVars, reducerVars>>

---------------------------------------------------------------------------
(* The stages.  A call on a null queue ends the process, and so does the   *)
(* join of a garbage handle.                                               *)

CanCall == queue # "null" /\ dpc # "crashed"

CallOnNull ==
  /\ "loop" \in {wpc, rpc} /\ queue = "null" /\ dpc # "crashed"
  /\ dpc' = "crashed"
  /\ UNCHANGED <<list, queue, chanVars, walkerVars, reducerVars>>

Walk ==
  /\ wpc = "loop" /\ CanCall /\ p <= Len(list)
  /\ Channel!Send(ToWord(list[p]))
  /\ p' = p + 1
  /\ UNCHANGED <<list, driverVars, wpc, reducerVars>>

SendEof ==
  /\ wpc = "loop" /\ CanCall /\ p > Len(list) /\ wpc' = "done"
  /\ Channel!Close
  /\ UNCHANGED <<list, driverVars, p, reducerVars>>

(* Mutant: the loop goes on after end of stream. *)
StoreAndGoOn ==
  /\ rpc = "loop" /\ CanCall
  /\ Channel!ReceiveEnd
  /\ sumOut' = sum
  /\ UNCHANGED <<list, driverVars, walkerVars, rpc, sum, v>>

(* dswp_dequeue returns true ... *)
Receive ==
  /\ rpc = "loop" /\ CanCall
  /\ Channel!Receive
  /\ v' = rcvd'[Len(rcvd')]
  /\ sum' = sum + ToLong(v')
  /\ UNCHANGED <<list, driverVars, walkerVars, rpc, sumOut>>

(* ... or false: the sum is complete. *)
StoreSum ==
  /\ rpc = "loop" /\ CanCall
  /\ Channel!ReceiveEnd
  /\ sumOut' = sum
  /\ rpc' = "done"
  /\ UNCHANGED <<list, driverVars, walkerVars, sum, v>>

Terminated == dpc \in {"returned", "crashed"} /\ UNCHANGED vars

DriverNext ==
  \/ CreateQueue \/ SpawnWalker \/ SpawnReducer
  \/ JoinWalker \/ JoinReducer \/ JoinGarbage \/ DestroyQueue

Next == DriverNext \/ CallOnNull \/ Walk \/ SendEof \/ Receive \/ StoreSum \/ Terminated

(* All three threads are scheduled, and a queue call returns once it can.  *)
Spec ==
  /\ Init /\ [][Next]_vars
  /\ WF_vars(DriverNext) /\ WF_vars(Walk \/ SendEof) /\ WF_vars(Receive \/ StoreSum)

---------------------------------------------------------------------------
(* Properties. *)

(* Type invariant, checked as a part of SumIsExact.                        *)
TypeOK ==
  /\ list \in Lists
  /\ dpc \in {"create", "spawn0", "spawn1", "join0", "join1", "destroy", "returned", "crashed"}
  /\ queue \in {"none", "open", "null", "destroyed"}
  /\ sent \in Seq(Words) /\ rcvd \in Seq(Words) /\ closed \in BOOLEAN /\ ended \in BOOLEAN
  /\ wpc \in {"unborn", "loop", "done", "failed"} /\ p \in 1 .. Len(list) + 1
  /\ rpc \in {"unborn", "loop", "done", "failed"}
  /\ {sum, sumOut} \subseteq -(2 ^ (W - 1)) .. 2 ^ (W - 1) - 1 /\ v \in Words

(* sum_list returns the sum of its list, negative values included, as soon *)
(* as its reducer ran: nothing is lost, added twice or cut off by an early *)
(* end of stream.  Where the reducer did not start, which nothing checks,  *)
(* it returns 0, whatever the list, but only if the walker did not start   *)
(* either or the list fits the queue.  No stage runs on a freed queue.     *)
SumIsExact ==
  /\ TypeOK
  /\ "loop" \in {wpc, rpc} => queue \in {"open", "null"}
  /\ dpc = "returned" =>
       IF rpc = "done" THEN sumOut = SumFunction(list)
       ELSE /\ sumOut = 0
            /\ wpc = "done" => queue # "null" /\ Len(list) <= Capacity

Failed == queue = "null" \/ "failed" \in {wpc, rpc}

(* If nothing failed to be created, sum_list returns.                      *)
DriverReturns == <>(dpc = "returned" \/ Failed)
=============================================================================
