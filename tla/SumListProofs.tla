--------------------------- MODULE SumListProofs ---------------------------
(***************************************************************************)
(* TLAPS proof that the hand-written stages of sum_list return the sum of  *)
(* the list, for every list, width of the words and capacity of the queue. *)
(***************************************************************************)
EXTENDS SumList, SequenceTheorems, Arithmetic

---------------------------------------------------------------------------
(* Longs and words. *)

Half == 2 ^ (W - 1)
LongRange == -Half .. Half - 1

LEMMA Widths ==
  /\ W \in Nat \ {0} /\ MaxLength \in Nat /\ Capacity \in Nat \ {0}
  /\ Half \in Nat \ {0} /\ 2 ^ W = 2 * Half /\ Longs \subseteq LongRange
  /\ \A x \in Longs : MaxLength * x \in LongRange
<1>1. W - 1 \in Nat /\ (W - 1) + 1 = W
  BY SumListAssumption
<1>2. 2 ^ (W - 1) \in Nat \ {0} /\ 2 ^ ((W - 1) + 1) = 2 * 2 ^ (W - 1)
  BY <1>1, PowersOfTwoStep
<1> QED  BY <1>1, <1>2, SumListAssumption DEF Half, LongRange

(* A long survives the two casts. *)
LEMMA CastBack ==
  ASSUME NEW x \in LongRange
  PROVE  ToWord(x) \in Words /\ ToLong(ToWord(x)) = x
<1> DEFINE m == 2 ^ W
<1>1. Half \in Nat \ {0} /\ m = 2 * Half /\ m \in Nat \ {0} /\ x \in Int /\ -Half <= x /\ x <= Half - 1
  BY Widths DEF LongRange
<1>2. Words = 0 .. m - 1 /\ ToWord(x) = x % m
      /\ \A w : ToLong(w) = IF w >= Half THEN w - m ELSE w
  BY DEF Words, ToWord, ToLong, Half
<1> HIDE DEF m
<1>3. CASE x >= 0
  <2>1. x \in 0 .. m - 1 /\ ~(x >= Half)
    BY <1>1, <1>3
  <2>2. x % m = x
    BY <1>1, <2>1, SmallRemainder
  <2> QED  BY <1>2, <2>1, <2>2
<1>4. CASE x < 0
  <2>1. x + m \in 0 .. m - 1 /\ x + m >= Half /\ (-1) * m + (x + m) = x /\ -1 \in Int
    BY <1>1, <1>4
  <2>2. ((-1) * m + (x + m)) % m = x + m
    BY <1>1, <2>1, DivisionUnique
  <2>3. x % m = x + m
    BY <2>1, <2>2
  <2>4. (x + m) - m = x
    BY <1>1
  <2> QED  BY <1>2, <2>1, <2>3, <2>4
<1> QED  BY <1>1, <1>3, <1>4

(* The sum of the community modules' functions is that of Arithmetic. *)
LEMMA SumIsOver == \A f : SumFunction(f) = SumOver(f, DOMAIN f)
  BY DEF SumFunction, SumFunctionOnSet, FoldFunctionOnSet, MapThenFoldSet, SumOver, SumBody

(* An average of at most h that is taken over fewer.                       *)
LEMMA Averaged ==
  ASSUME NEW N \in Nat, NEW k \in 1 .. N, NEW h \in Nat, NEW s \in Int, N * s <= k * h
  PROVE  s <= h
<1> SUFFICES ASSUME h + 1 <= s PROVE FALSE
  OBVIOUS
<1>1. N * h \in Int /\ k * h \in Int /\ k * h <= N * h
  <2>1. N * h = k * h + (N - k) * h /\ N - k \in Nat /\ k \in Nat
    OBVIOUS
  <2>2. N * h \in Int /\ k * h \in Int /\ (N - k) * h \in Nat
    BY <2>1
  <2> QED  BY <2>1, <2>2
<1>2. N * (-h - 1) = -(N * h) - N
  OBVIOUS
<1>3. N * (-h - 1) < -(k * h)
  BY <1>1, <1>2
<1>4. N * (-s) < -(k * h)
  <2>1. -s \in Int /\ -h - 1 \in Int /\ -(k * h) \in Int /\ -s <= -h - 1
    BY <1>1
  <2> QED  BY <1>3, <2>1, ScaledBound
<1>5. N * (-s) = -(N * s) /\ N * s \in Int
  OBVIOUS
<1> QED  BY <1>1, <1>4, <1>5

(* If every long times the length of the list is a long, so are the sums   *)
(* of the list's beginnings.                                               *)
LEMMA SumFits ==
  ASSUME NEW s \in Int, NEW k \in 0 .. MaxLength, k = 0 => s = 0,
         -(k * Half) <= MaxLength * s, MaxLength * s <= k * (Half - 1)
  PROVE  s \in LongRange
<1> DEFINE h == Half
<1>1. MaxLength \in Nat /\ h \in Nat \ {0} /\ LongRange = -h .. h - 1
  BY Widths DEF LongRange
<1>2. CASE k = 0
  BY <1>1, <1>2
<1>3. CASE k # 0
  <2> HIDE DEF h
  <2>1. k \in 1 .. MaxLength /\ h - 1 \in Nat /\ -s \in Int
    BY <1>1, <1>3
  <2>2. s <= h - 1
    BY <1>1, <2>1, Averaged DEF h
  <2>3. MaxLength * (-s) <= k * h
    <3>1. MaxLength * (-s) = -(MaxLength * s) /\ MaxLength * s \in Int /\ k * h \in Int
      BY <1>1
    <3>2. -(k * h) <= MaxLength * s
      BY DEF h
    <3> QED  BY <3>1, <3>2
  <2>4. -s <= h
    BY <1>1, <2>1, <2>3, Averaged
  <2> QED  BY <1>1, <2>2, <2>4
<1> QED  BY <1>2, <1>3

---------------------------------------------------------------------------
(* The inductive invariant. *)

(* What the driver has created, started and waited for. *)
LifeInv ==
  /\ queue = "none" <=> dpc = "create"
  /\ queue = "destroyed" => dpc = "returned"
  /\ dpc \in {"create", "spawn0"} => wpc = "unborn"
  /\ wpc = "unborn" => dpc \in {"create", "spawn0"}
  /\ dpc \in {"create", "spawn0", "spawn1"} => rpc = "unborn"
  /\ dpc \in {"join1", "destroy", "returned"} => wpc \in {"done", "failed"}
  /\ dpc \in {"destroy", "returned"} => rpc \in {"done", "failed"}

(* The walker has sent the nodes before its own, the reducer has received  *)
(* some of them, and only its calls make room.                             *)
StreamInv ==
  /\ Len(sent) = p - 1
  /\ \A i \in 1 .. p - 1 : sent[i] = ToWord(list[i])
  /\ closed <=> wpc = "done"
  /\ closed => p = Len(list) + 1 /\ queue # "null"
  /\ Len(rcvd) <= Len(sent) /\ Len(sent) - Len(rcvd) <= Capacity
  /\ rpc = "failed" => Len(rcvd) = 0
  /\ rpc = "unborn" => Len(rcvd) = 0

(* The sum is that of the nodes received, and on average no larger than a  *)
(* node may be.                                                            *)
SumInv ==
  /\ sum = SumOver(list, 1 .. Len(rcvd))
  /\ -(Len(rcvd) * Half) <= MaxLength * sum
  /\ MaxLength * sum <= Len(rcvd) * (Half - 1)
  /\ IF rpc = "done" THEN sumOut = sum /\ Len(rcvd) = Len(list) ELSE sumOut = 0

IInv == TypeOK /\ LifeInv /\ StreamInv /\ SumInv

LEMMA ListTypes ==
  ASSUME list \in Lists
  PROVE  /\ Len(list) \in 0 .. MaxLength /\ DOMAIN list = 1 .. Len(list)
         /\ \A i \in 1 .. Len(list) : list[i] \in Longs /\ list[i] \in LongRange /\ list[i] \in Int
<1>1. PICK n \in 0 .. MaxLength : list \in [1 .. n -> Longs]
  BY DEF Lists
<1>2. n \in Nat /\ Len(list) = n /\ DOMAIN list = 1 .. n
  BY <1>1, Widths
<1>3. \A i \in 1 .. n : list[i] \in Longs
  BY <1>1
<1>4. \A x \in Longs : x \in LongRange /\ x \in Int
  BY Widths DEF LongRange
<1> QED  BY <1>1, <1>2, <1>3, <1>4

(* TypeOK in the terms used here. *)
LEMMA RangeOK == -(2 ^ (W - 1)) .. 2 ^ (W - 1) - 1 = LongRange /\ 0 \in LongRange /\ 0 \in Words
  BY Widths DEF LongRange, Half, Words

LEMMA InitCorrect == Init => IInv
<1> SUFFICES ASSUME Init PROVE IInv
  OBVIOUS
<1>1. sent = <<>> /\ rcvd = <<>> /\ closed = FALSE /\ ended = FALSE
  BY DEF Init, Channel!Init
<1>2. Len(list) \in Nat
  BY ListTypes, Widths DEF Init
<1>3. TypeOK
  <2>1. sent \in Seq(Words) /\ rcvd \in Seq(Words) /\ closed \in BOOLEAN /\ ended \in BOOLEAN
    <3>1. <<>> \in Seq(Words)
      OBVIOUS
    <3> QED  BY <1>1, <3>1
  <2>2. p \in 1 .. Len(list) + 1
    BY <1>2 DEF Init
  <2>3. {sum, sumOut} \subseteq -(2 ^ (W - 1)) .. 2 ^ (W - 1) - 1 /\ v \in Words
    BY RangeOK DEF Init
  <2> QED  BY <2>1, <2>2, <2>3 DEF Init, TypeOK
<1>4. LifeInv
  BY DEF Init, LifeInv
<1>5. StreamInv
  BY <1>1, Widths DEF Init, StreamInv
<1>6. SumInv
  <2>1. Len(rcvd) = 0 /\ 1 .. 0 = {} /\ Half \in Nat /\ MaxLength \in Nat
    BY <1>1, Widths
  <2>2. sum = SumOver(list, 1 .. Len(rcvd))
    BY <2>1, SumOfNone DEF Init
  <2>3. -(Len(rcvd) * Half) <= MaxLength * sum /\ MaxLength * sum <= Len(rcvd) * (Half - 1)
    BY <2>1 DEF Init
  <2> QED  BY <2>2, <2>3 DEF Init, SumInv
<1> QED  BY <1>3, <1>4, <1>5, <1>6 DEF IInv

LEMMA DriverStep == IInv /\ (DriverNext \/ CallOnNull) => IInv'
<1> SUFFICES ASSUME IInv, DriverNext \/ CallOnNull PROVE IInv'
  OBVIOUS
<1> USE DEF IInv
<1>1. UNCHANGED <<list, sent, rcvd, closed, ended, p, sum, v, sumOut>>
  BY DEF DriverNext, CreateQueue, SpawnWalker, SpawnReducer, JoinWalker, JoinReducer, JoinGarbage,
              DestroyQueue, CallOnNull, chanVars, walkerVars, reducerVars
<1>2. TypeOK'
  BY <1>1 DEF TypeOK, DriverNext, CreateQueue, SpawnWalker, SpawnReducer, JoinWalker, JoinReducer, JoinGarbage,
              DestroyQueue, CallOnNull, walkerVars, reducerVars
<1>3. LifeInv'
  BY DEF TypeOK, LifeInv, DriverNext, CreateQueue, SpawnWalker, SpawnReducer, JoinWalker, JoinReducer, JoinGarbage,
              DestroyQueue, CallOnNull, walkerVars, reducerVars
<1>4. /\ wpc' = "done" <=> wpc = "done"
      /\ rpc' = "done" <=> rpc = "done"
      /\ rpc' \in {"failed", "unborn"} => rpc \in {"failed", "unborn"}
      /\ queue' = "null" => queue = "null" \/ wpc = "unborn"
  BY DEF LifeInv, DriverNext, CreateQueue, SpawnWalker, SpawnReducer, JoinWalker, JoinReducer, JoinGarbage,
              DestroyQueue, CallOnNull, walkerVars, reducerVars
<1>5. StreamInv'
  <2>1. closed => queue' # "null"
    BY <1>4 DEF StreamInv
  <2> QED  BY <1>1, <1>4, <2>1 DEF StreamInv, ToWord
<1>6. SumInv'
  BY <1>1, <1>4 DEF SumInv
<1> QED  BY <1>2, <1>3, <1>5, <1>6

LEMMA WalkStep == IInv /\ Walk => IInv'
<1> SUFFICES ASSUME IInv, Walk PROVE IInv'
  OBVIOUS
<1> DEFINE w == ToWord(list[p])
<1>1. p \in 1 .. Len(list) /\ p \in Nat /\ Len(list) \in Nat /\ w \in Words
  BY ListTypes, CastBack, Widths DEF IInv, TypeOK, Walk
<1>2. UNCHANGED <<list, dpc, queue, rcvd, closed, ended, wpc, rpc, sum, v, sumOut>> /\ p' = p + 1
      /\ sent' = Append(sent, w) /\ sent \in Seq(Words) /\ ~closed /\ wpc = "loop"
      /\ Len(sent) - Len(rcvd) < Capacity
  BY DEF Walk, Channel!Send, driverVars, reducerVars, IInv, TypeOK
<1> HIDE DEF w
<1>3. sent' \in Seq(Words) /\ Len(sent') = Len(sent) + 1 /\ sent'[Len(sent) + 1] = w
      /\ \A i \in 1 .. Len(sent) : sent'[i] = sent[i]
  BY <1>1, <1>2
<1>4. TypeOK'
  BY <1>1, <1>2, <1>3 DEF IInv, TypeOK
<1>5. LifeInv'
  BY <1>2 DEF IInv, LifeInv
<1>6. StreamInv'
  <2>1. ASSUME NEW i \in 1 .. p' - 1 PROVE sent'[i] = ToWord(list[i])
    <3>1. CASE i = p
      BY <1>1, <1>2, <1>3, <3>1 DEF w, IInv, StreamInv
    <3>2. CASE i \in 1 .. p - 1
      <4>1. Len(sent) = p - 1 /\ sent[i] = ToWord(list[i])
        BY <3>2 DEF IInv, StreamInv
      <4>2. sent'[i] = sent[i]
        BY <1>3, <3>2, <4>1
      <4> QED  BY <4>1, <4>2
    <3>3. i = p \/ i \in 1 .. p - 1
      <4>1. p' = p + 1 /\ p \in Nat
        BY <1>1, <1>2
      <4> QED  BY <4>1
    <3> QED  BY <3>1, <3>2, <3>3
  <2>2. Len(sent') = p' - 1 /\ Len(rcvd') <= Len(sent') /\ Len(sent') - Len(rcvd') <= Capacity
    BY <1>1, <1>2, <1>3, Widths DEF IInv, StreamInv, TypeOK
  <2> QED  BY <1>2, <2>1, <2>2 DEF IInv, StreamInv, ToWord
<1>7. SumInv'
  BY <1>2 DEF IInv, SumInv
<1> QED  BY <1>4, <1>5, <1>6, <1>7 DEF IInv

LEMMA EofStep == IInv /\ SendEof => IInv'
<1> SUFFICES ASSUME IInv, SendEof PROVE IInv'
  OBVIOUS
<1>1. UNCHANGED <<list, dpc, queue, sent, rcvd, ended, p, rpc, sum, v, sumOut>> /\ closed' = TRUE
      /\ wpc = "loop" /\ wpc' = "done" /\ p > Len(list) /\ queue # "null"
  BY DEF SendEof, CanCall, Channel!Close, driverVars, reducerVars
<1>2. p = Len(list) + 1
  BY <1>1, ListTypes, Widths DEF IInv, TypeOK
<1>3. TypeOK'
  BY <1>1 DEF IInv, TypeOK
<1>4. LifeInv'
  BY <1>1 DEF IInv, LifeInv
<1>5. StreamInv'
  BY <1>1, <1>2 DEF IInv, StreamInv, ToWord
<1>6. SumInv'
  BY <1>1 DEF IInv, SumInv
<1> QED  BY <1>3, <1>4, <1>5, <1>6 DEF IInv

LEMMA ReceiveStep == IInv /\ Receive => IInv'
<1> SUFFICES ASSUME IInv, Receive PROVE IInv'
  OBVIOUS
<1> DEFINE k == Len(rcvd)
           x == list[k + 1]
<1>1. UNCHANGED <<list, dpc, queue, sent, closed, ended, wpc, p, rpc, sumOut>> /\ k < Len(sent)
      /\ rcvd' = Append(rcvd, sent[k + 1]) /\ v' = rcvd'[Len(rcvd')] /\ sum' = sum + ToLong(v')
      /\ rpc = "loop"
  BY DEF Receive, Channel!Receive, driverVars, walkerVars
<1>2. k \in Nat /\ rcvd \in Seq(Words) /\ sent \in Seq(Words) /\ Len(list) \in 0 .. MaxLength
      /\ MaxLength \in Nat /\ p \in 1 .. Len(list) + 1 /\ Len(sent) = p - 1 /\ sum \in Int
      /\ Half \in Nat \ {0}
  BY ListTypes, Widths, RangeOK DEF IInv, TypeOK, StreamInv, LongRange
<1>3. k + 1 \in 1 .. p - 1 /\ k + 1 \in 1 .. Len(list)
  BY <1>1, <1>2
<1>4. x \in LongRange /\ x \in Int /\ sent[k + 1] = ToWord(x) /\ MaxLength * x \in LongRange
      /\ ToWord(x) \in Words /\ ToLong(ToWord(x)) = x
  BY <1>3, ListTypes, Widths, CastBack DEF IInv, StreamInv, TypeOK
<1> HIDE DEF x
<1>5. rcvd' \in Seq(Words) /\ Len(rcvd') = k + 1 /\ v' = ToWord(x)
  BY <1>1, <1>2, <1>4
<1>6. sum' = sum + x
  BY <1>1, <1>4, <1>5
<1>7. sum' = SumOver(list, 1 .. k + 1)
  <2>1. IsFiniteSet(1 .. k) /\ k + 1 \notin 1 .. k /\ (1 .. k) \cup {k + 1} = 1 .. k + 1
    <3>1. IsFiniteSet(1 .. k)
      BY <1>2, FS_Interval
    <3>2. k + 1 \notin 1 .. k /\ (1 .. k) \cup {k + 1} = 1 .. k + 1
      BY <1>2
    <3> QED  BY <3>1, <3>2
  <2>2. \A i \in (1 .. k) \cup {k + 1} : list[i] \in Int
    BY <1>2, <1>3, <2>1, ListTypes DEF IInv, TypeOK
  <2>3. SumOver(list, (1 .. k) \cup {k + 1}) = SumOver(list, 1 .. k) + list[k + 1]
    <3> DEFINE S == 1 .. k
               y == k + 1
    <3>1. IsFiniteSet(S) /\ y \notin S /\ \A i \in S \cup {y} : list[i] \in Int
      BY <2>1, <2>2
    <3> HIDE DEF S, y
    <3>2. SumOver(list, S \cup {y}) = SumOver(list, S) + list[y]
      BY <3>1, SumExtends
    <3> QED  BY <3>2 DEF S, y
  <2> QED  BY <1>6, <2>1, <2>3 DEF IInv, SumInv, x
<1>8. -((k + 1) * Half) <= MaxLength * sum' /\ MaxLength * sum' <= (k + 1) * (Half - 1)
  <2> DEFINE h == Half
             n == MaxLength
  <2>1. -(k * h) <= n * sum /\ n * sum <= k * (h - 1) /\ h \in Nat /\ n \in Nat
    BY <1>2 DEF IInv, SumInv
  <2>2. -h <= n * x /\ n * x <= h - 1 /\ n * x \in Int
    BY <1>2, <1>4 DEF LongRange
  <2> HIDE DEF h, n, k
  <2>3. n * (sum + x) = n * sum + n * x /\ n * sum \in Int
    BY <1>2, <1>4, <2>1
  <2>4. (k + 1) * h = k * h + h /\ (k + 1) * (h - 1) = k * (h - 1) + (h - 1)
        /\ k * h \in Int /\ k * (h - 1) \in Int
    BY <1>2, <2>1
  <2>5. -((k + 1) * h) <= n * (sum + x) /\ n * (sum + x) <= (k + 1) * (h - 1)
    BY <2>1, <2>2, <2>3, <2>4
  <2> QED  BY <1>6, <2>5 DEF h, n
<1>9. sum' \in LongRange
  <2>1. sum' \in Int /\ k + 1 \in 0 .. MaxLength /\ k + 1 # 0
    BY <1>2, <1>3, <1>4, <1>6
  <2> QED  BY <1>8, <2>1, SumFits
<1> HIDE DEF k
<1>10. TypeOK'
  BY <1>1, <1>4, <1>5, <1>9, RangeOK DEF IInv, TypeOK
<1>11. LifeInv'
  BY <1>1 DEF IInv, LifeInv
<1>12. StreamInv'
  <2>1. Len(rcvd') <= Len(sent') /\ Len(sent') - Len(rcvd') <= Capacity
    BY <1>1, <1>2, <1>3, <1>5, Widths DEF k, IInv, StreamInv
  <2> QED  BY <1>1, <2>1 DEF IInv, StreamInv, ToWord
<1>13. SumInv'
  BY <1>1, <1>5, <1>7, <1>8 DEF IInv, SumInv
<1> QED  BY <1>10, <1>11, <1>12, <1>13 DEF IInv

LEMMA StoreStep == IInv /\ StoreSum => IInv'
<1> SUFFICES ASSUME IInv, StoreSum PROVE IInv'
  OBVIOUS
<1>1. UNCHANGED <<list, dpc, queue, sent, rcvd, closed, wpc, p, sum, v>> /\ ended' = TRUE
      /\ rpc = "loop" /\ rpc' = "done" /\ sumOut' = sum /\ closed /\ Len(rcvd) = Len(sent)
  BY DEF StoreSum, Channel!ReceiveEnd, driverVars, walkerVars
<1>2. TypeOK'
  BY <1>1 DEF IInv, TypeOK
<1>3. LifeInv'
  BY <1>1 DEF IInv, LifeInv
<1>4. StreamInv'
  BY <1>1 DEF IInv, StreamInv, ToWord
<1>5. Len(rcvd) = Len(list)
  BY <1>1, ListTypes, Widths DEF IInv, StreamInv, TypeOK
<1>6. SumInv'
  BY <1>1, <1>5 DEF IInv, SumInv
<1> QED  BY <1>2, <1>3, <1>4, <1>6 DEF IInv

LEMMA Invariance == Spec => []IInv
<1>1. IInv /\ [Next]_vars => IInv'
  <2> SUFFICES ASSUME IInv, [Next]_vars PROVE IInv'
    OBVIOUS
  <2>1. CASE UNCHANGED vars
    <3>1. UNCHANGED <<list, dpc, queue, sent, rcvd, closed, ended, wpc, p, rpc, sum, v, sumOut>>
      BY <2>1 DEF vars, driverVars, chanVars, walkerVars, reducerVars
    <3> QED  BY <3>1 DEF IInv, TypeOK, LifeInv, StreamInv, SumInv, ToWord
  <2> QED  BY <2>1, DriverStep, WalkStep, EofStep, ReceiveStep, StoreStep DEF Next, Terminated
<1> QED  BY <1>1, InitCorrect, PTL DEF Spec

---------------------------------------------------------------------------

(* Whatever the list, the width of a long and the queue's capacity,        *)
(* sum_list returns the sum of its list if its reducer was started, and    *)
(* otherwise, if at all, 0; no sum on the way leaves the longs; and no     *)
(* stage runs on a freed queue.                                            *)
THEOREM SumIsCorrect == Spec => []SumIsExact
<1>1. IInv => SumIsExact
  <2> SUFFICES ASSUME IInv PROVE SumIsExact
    OBVIOUS
  <2>1. "loop" \in {wpc, rpc} => queue \in {"open", "null"}
    BY DEF IInv, TypeOK, LifeInv
  <2>2. ASSUME dpc = "returned", rpc = "done" PROVE sumOut = SumFunction(list)
    <3>1. DOMAIN list = 1 .. Len(list)
      BY ListTypes DEF IInv, TypeOK
    <3> QED  BY <2>2, <3>1, SumIsOver DEF IInv, LifeInv, SumInv
  <2>3. ASSUME dpc = "returned", rpc # "done"
        PROVE  sumOut = 0 /\ (wpc = "done" => queue # "null" /\ Len(list) <= Capacity)
    <3>1. sumOut = 0 /\ Len(rcvd) = 0
      BY <2>3 DEF IInv, LifeInv, StreamInv, SumInv
    <3>2. ASSUME wpc = "done" PROVE queue # "null" /\ Len(list) <= Capacity
      <4>1. queue # "null" /\ Len(sent) = p - 1 /\ p = Len(list) + 1 /\ Len(sent) - Len(rcvd) <= Capacity
        BY <3>2 DEF IInv, StreamInv
      <4>2. Len(list) \in Nat /\ Capacity \in Nat
        BY ListTypes, Widths DEF IInv, TypeOK
      <4> QED  BY <3>1, <4>1, <4>2
    <3> QED  BY <3>1, <3>2
  <2> QED  BY <2>1, <2>2, <2>3 DEF IInv, SumIsExact
<1> QED  BY <1>1, Invariance, PTL
=============================================================================
