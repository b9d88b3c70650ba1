---------------------------- MODULE QueueCreate ----------------------------
(***************************************************************************)
(* runtime/dswp_queue.cpp: dswp_queue_create and dswp_queue_destroy, with  *)
(* size_t arithmetic of W bits: rounding the requested capacity up to a    *)
(* power of two, sizing the buffer, and undoing what was allocated when    *)
(* the second allocation fails.                                            *)
(***************************************************************************)
EXTENDS Integers, FiniteSets

CONSTANT W              \* width of size_t in bits

MinCapacity == 8
SlotBytes == 8          \* sizeof(uint64_t)
CacheLine == 64

SizeT == 0 .. 2 ^ W - 1
SizeWord(x) == x % (2 ^ W)

ASSUME WidthAssumption == W \in Nat /\ CacheLine < 2 ^ W

VARIABLES
  pc,                   \* "round", "struct", "buffer", "null", "ready" or "freed"
  request, p,           \* the argument, and roundUpPow2's accumulator
  bytes,                \* the size given to aligned_alloc for the buffer
  heap                  \* the blocks allocated and not freed

createVars == <<pc, request, p, bytes, heap>>

InitCreate ==
  /\ pc = "round"
  /\ request \in SizeT
  /\ p = MinCapacity
  /\ bytes = 0
  /\ heap = {}

(* Mutants: stop one power early; stop at equality only.                  *)
ContinuesOnePowerLess == 2 * p < request
ContinuesUnlessEqual == p # request

(* while (p < n) p <<= 1 *)
Continues == p < request

Double ==
  /\ pc = "round" /\ Continues
  /\ p' = SizeWord(2 * p)
  /\ UNCHANGED <<pc, request, bytes, heap>>

Rounded ==
  /\ pc = "round" /\ ~Continues
  /\ pc' = "struct"
  /\ UNCHANGED <<request, p, bytes, heap>>

(* (v + align - 1) & ~(align - 1) *)
RoundUp(v, align) == LET u == SizeWord(v + align - 1) IN u - (u % align)

(* The queue object; aligned_alloc may fail. *)
AllocStruct ==
  /\ pc = "struct"
  /\ \/ pc' = "buffer" /\ heap' = heap \cup {"struct"}
     \/ pc' = "null" /\ UNCHANGED heap
  /\ UNCHANGED <<request, p, bytes>>

(* Mutants: a buffer of p bytes instead of p slots; the object kept when   *)
(* the buffer cannot be had.                                               *)
AllocBytes ==
  /\ pc = "buffer"
  /\ bytes' = RoundUp(p, CacheLine)
  /\ \/ pc' = "ready" /\ heap' = heap \cup {"buffer"}
     \/ pc' = "null" /\ heap' = heap \ {"struct"}
  /\ UNCHANGED <<request, p>>
AllocBufferLeaky ==
  /\ pc = "buffer"
  /\ bytes' = RoundUp(SizeWord(SlotBytes * p), CacheLine)
  /\ \/ pc' = "ready" /\ heap' = heap \cup {"buffer"}
     \/ pc' = "null" /\ UNCHANGED heap
  /\ UNCHANGED <<request, p>>

(* The slots; when this one fails the object is freed again. *)
AllocBuffer ==
  /\ pc = "buffer"
  /\ bytes' = RoundUp(SizeWord(SlotBytes * p), CacheLine)
  /\ \/ pc' = "ready" /\ heap' = heap \cup {"buffer"}
     \/ pc' = "null" /\ heap' = heap \ {"struct"}
  /\ UNCHANGED <<request, p>>

(* dswp_queue_destroy, which also takes the null pointer. *)
Destroy ==
  /\ pc \in {"ready", "null"}
  /\ heap' = IF pc = "ready" THEN heap \ {"buffer", "struct"} ELSE heap
  /\ pc' = "freed"
  /\ UNCHANGED <<request, p, bytes>>

Freed == pc = "freed" /\ UNCHANGED createVars

NextCreate == Double \/ Rounded \/ AllocStruct \/ AllocBuffer \/ Destroy \/ Freed

SpecCreate == InitCreate /\ [][NextCreate]_createVars /\ WF_createVars(Double \/ Rounded)

---------------------------------------------------------------------------
(* Properties. *)

(* Type invariant, checked as a part of NothingLeaks.                      *)
CreateTypeOK ==
  /\ pc \in {"round", "struct", "buffer", "null", "ready", "freed"}
  /\ request \in SizeT /\ p \in SizeT /\ bytes \in SizeT
  /\ heap \subseteq {"struct", "buffer"}

PowersOfTwo == {2 ^ k : k \in 0 .. W - 1}

(* "capacity is rounded up to the next power of 2 (and to at least 8       *)
(* slots)": the capacity is the least such number that fits the request.   *)
CapacityIsNextPowerOfTwo ==
  pc = "ready" =>
    /\ p \in PowersOfTwo /\ p >= MinCapacity /\ p >= request
    /\ \A q \in PowersOfTwo : q >= MinCapacity /\ q >= request => p <= q

(* The buffer has a slot for every index the mask can produce exactly up   *)
(* to requests of 2^(W-4) slots; above, sizeof(uint64_t) * cap wraps.      *)
BufferHoldsRing ==
  pc = "ready" => (bytes >= SlotBytes * p <=> request <= 2 ^ (W - 4))

(* No block outlives destroy or a failed create, and a usable queue has    *)
(* both of its blocks.                                                     *)
NothingLeaks ==
  /\ CreateTypeOK
  /\ pc \in {"null", "freed"} => heap = {}
  /\ pc = "ready" => heap = {"struct", "buffer"}

(* roundUpPow2 returns for every request that half the range covers.       *)
RoundingEndsInRange == request <= 2 ^ (W - 1) => <>(pc # "round")

(* "capacity is rounded up to the next power of 2": roundUpPow2 returns    *)
(* for every request.                                                      *)
RoundingEnds == <>(pc # "round")
===========================================================================
