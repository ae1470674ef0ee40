--------------------------- MODULE ComStackProofs ---------------------------
(***************************************************************************)
(* Proofs about ComStack for every value of its constants: type            *)
(* correctness, no assertion failure, conservation of the upstream credit, *)
(* and that the adapter's ports keep the Svc.Com protocol.                 *)
(***************************************************************************)
EXTENDS ComStack, TLAPS, FiniteSetTheorems

Indices    == 1..Len(aggQueue)
IsFill(i)   == aggQueue[i].sig = "fill"
IsStatus(i) == aggQueue[i].sig = "status"
NoFill   == \A i \in Indices : ~IsFill(i)
NoStatus == \A i \in Indices : ~IsStatus(i)

(* The initial status has been sent.                                       *)
LinkUp == m_initialStatusSent \/ rgPc = "poll"

UniqueFill   == \A i, j \in Indices : IsFill(i) /\ IsFill(j) => i = j
UniqueStatus == \A i, j \in Indices : IsStatus(i) /\ IsStatus(j) => i = j

(* Queued packets have legal sizes; a queued status is the last result.    *)
SizesOK  == \A i \in Indices : IsFill(i) => aggQueue[i].arg \in PacketSizes
ResultOK == \A i \in Indices : IsStatus(i) => aggQueue[i] = StatusOf(sendOk)

(* The credit between ComQueue and the aggregator exists exactly once.     *)
UpInv ==
    /\ statusIn <= 1
    /\ UniqueFill
    /\ ~preambleRun => statusIn = 0 /\ m_state = "WAITING" /\ NoFill /\ m_held = 0
    /\ statusIn > 0 => m_state = "WAITING" /\ NoFill /\ m_held = 0
    /\ m_state = "READY" => NoFill /\ m_held = 0
    /\ m_held > 0 => NoFill
    /\ \/ ~preambleRun
       \/ statusIn > 0
       \/ m_state = "READY"
       \/ ~NoFill
       \/ m_held > 0

(* The permission to send one frame exists at most once between the        *)
(* aggregator and the adapter, and not before the initial status.          *)
DownInv ==
    /\ UniqueStatus
    /\ ~NoStatus => aggState = "WAIT_STATUS" /\ aggPc \in {"loop", "unwind"} /\ LinkUp
    /\ aggState = "FILL" => aggPc = "loop" /\ LinkUp /\ sendOk
    /\ aggPc # "loop" => LinkUp
    /\ aggPc = "dataIn" => sendOk
    /\ ~LinkUp => sendOk
    /\ LinkUp => m_started
    /\ rgPc = "init" => m_started
    /\ m_held > 0 => aggState = "WAIT_STATUS"

BufferInv ==
    /\ tmBuffer = "NOT_OWNED" <=> aggPc = "dataReturn"
    /\ aggBuffer = "NOT_OWNED" <=> aggPc # "loop"

IInv == /\ TypeOK
        /\ NoAssertFailure
        /\ SizesOK
        /\ ResultOK
        /\ UpInv
        /\ DownInv
        /\ BufferInv

-----------------------------------------------------------------------------
(* What appending to and removing from the aggregator's queue does.        *)
LEMMA AppendFacts ==
    ASSUME NEW s \in Seq(Signals), NEW x \in Signals
    PROVE  /\ Append(s, x) \in Seq(Signals)
           /\ Len(Append(s, x)) = Len(s) + 1
           /\ \A i \in 1..Len(s) : Append(s, x)[i] = s[i]
           /\ Append(s, x)[Len(s) + 1] = x
  OBVIOUS

(* Removing the head of a non-empty queue keeps the others, shifted by     *)
(* one.                                                                    *)
LEMMA TailFacts ==
    ASSUME NEW s \in Seq(Signals), s # <<>>
    PROVE  /\ Tail(s) \in Seq(Signals)
           /\ Len(s) \in Nat /\ Len(s) >= 1
           /\ Len(Tail(s)) = Len(s) - 1
           /\ \A i \in 1..Len(Tail(s)) : Tail(s)[i] = s[i + 1]
           /\ Head(s) = s[1]
           /\ Head(s) \in Signals
  OBVIOUS

(* Every signal that is sent is a legal element of the queue.              *)
LEMMA SignalFacts ==
    /\ \A n \in Nat : Fill(n) \in Signals /\ Fill(n).sig = "fill" /\ Fill(n).arg = n
    /\ Success \in Signals /\ Success.sig = "status"
    /\ Failure \in Signals /\ Failure.sig = "status"
    /\ Timeout \in Signals /\ Timeout.sig = "timeout"
    /\ Success # Failure
  BY DEF Fill, Success, Failure, Timeout, Signals

(* The initial state satisfies the inductive invariant.                    *)
LEMMA InitInv == Init => IInv
  <1> SUFFICES ASSUME Init PROVE IInv
    OBVIOUS
  <1>1. aggQueue \in Seq(Signals) /\ Len(aggQueue) = 0
    BY DEF Init
  <1>2. TypeOK
    <2>1. /\ backlog \in 0..QueueDepth
          /\ statusIn \in Nat
          /\ frame \in 0..AggregationSize
      BY DepthAssumption, AggregationAssumption DEF Init
    <2> QED
      BY <1>1, <2>1, Zenon DEF Init, TypeOK, Owner
  <1>3. Indices = {}
    BY <1>1 DEF Indices
  <1> QED
    BY <1>2, <1>3 DEF Init, IInv, NoAssertFailure, SizesOK, ResultOK, UniqueFill, UniqueStatus,
         UpInv, DownInv, BufferInv, NoFill, NoStatus, LinkUp


(***************************************************************************)
(* How the queue predicates change.  After these lemmas no proof looks at  *)
(* an index of the queue again.                                            *)
(***************************************************************************)
(* Steps that leave the queue and the last result alone leave its          *)
(* predicates alone.                                                       *)
LEMMA QueueUnchanged ==
    ASSUME UNCHANGED <<aggQueue, sendOk>>
    PROVE  /\ NoFill' <=> NoFill
           /\ NoStatus' <=> NoStatus
           /\ UniqueFill' <=> UniqueFill
           /\ UniqueStatus' <=> UniqueStatus
           /\ SizesOK' <=> SizesOK
           /\ ResultOK' <=> ResultOK
  BY DEF Indices, IsFill, IsStatus, NoFill, NoStatus, UniqueFill, UniqueStatus,
         SizesOK, ResultOK

(* Enqueueing a packet: the only fill, of legal size; statuses are as      *)
(* before.                                                                 *)
LEMMA EnqueueFill ==
    ASSUME TypeOK, NoFill, SizesOK, ResultOK, UNCHANGED sendOk,
           NEW n \in PacketSizes, aggQueue' = Append(aggQueue, Fill(n))
    PROVE  /\ aggQueue' \in Seq(Signals)
           /\ ~NoFill' /\ UniqueFill' /\ SizesOK' /\ ResultOK'
           /\ NoStatus' <=> NoStatus
           /\ UniqueStatus => UniqueStatus'
  <1>1. Fill(n) \in Signals /\ Fill(n).sig = "fill" /\ Fill(n).arg = n
    BY SignalFacts, AggregationAssumption
  <1>2. /\ aggQueue' \in Seq(Signals)
        /\ Len(aggQueue) \in Nat
        /\ Len(aggQueue') = Len(aggQueue) + 1
        /\ \A i \in 1..Len(aggQueue) : aggQueue'[i] = aggQueue[i]
        /\ aggQueue'[Len(aggQueue) + 1] = Fill(n)
    BY <1>1, AppendFacts DEF TypeOK
  <1> QED
    BY <1>1, <1>2 DEF Indices, IsFill, IsStatus, NoFill, NoStatus, UniqueFill, UniqueStatus,
         SizesOK, ResultOK

(* Enqueueing a status: the only one, and it is the last result.           *)
LEMMA EnqueueStatus ==
    ASSUME TypeOK, NoStatus, SizesOK, UNCHANGED sendOk,
           aggQueue' = Append(aggQueue, StatusOf(sendOk))
    PROVE  /\ aggQueue' \in Seq(Signals)
           /\ ~NoStatus' /\ UniqueStatus' /\ SizesOK' /\ ResultOK'
           /\ NoFill' <=> NoFill
           /\ UniqueFill => UniqueFill'
  <1>1. StatusOf(sendOk) \in Signals /\ StatusOf(sendOk).sig = "status"
    BY SignalFacts DEF StatusOf
  <1>2. /\ aggQueue' \in Seq(Signals)
        /\ Len(aggQueue) \in Nat
        /\ Len(aggQueue') = Len(aggQueue) + 1
        /\ \A i \in 1..Len(aggQueue) : aggQueue'[i] = aggQueue[i]
        /\ aggQueue'[Len(aggQueue) + 1] = StatusOf(sendOk)
    BY <1>1, AppendFacts DEF TypeOK
  <1> QED
    BY <1>1, <1>2 DEF Indices, IsFill, IsStatus, NoFill, NoStatus, UniqueFill, UniqueStatus,
         SizesOK, ResultOK

(* Enqueueing a timeout changes neither fills nor statuses.                *)
LEMMA EnqueueTimeout ==
    ASSUME TypeOK, SizesOK, ResultOK, UNCHANGED sendOk,
           aggQueue' = Append(aggQueue, Timeout)
    PROVE  /\ aggQueue' \in Seq(Signals)
           /\ NoFill' <=> NoFill
           /\ NoStatus' <=> NoStatus
           /\ UniqueFill => UniqueFill'
           /\ UniqueStatus => UniqueStatus'
           /\ SizesOK' /\ ResultOK'
  <1>1. Timeout \in Signals /\ Timeout.sig = "timeout"
    BY SignalFacts
  <1>2. /\ aggQueue' \in Seq(Signals)
        /\ Len(aggQueue) \in Nat
        /\ Len(aggQueue') = Len(aggQueue) + 1
        /\ \A i \in 1..Len(aggQueue) : aggQueue'[i] = aggQueue[i]
        /\ aggQueue'[Len(aggQueue) + 1] = Timeout
    BY <1>1, AppendFacts DEF TypeOK
  <1> QED
    BY <1>1, <1>2 DEF Indices, IsFill, IsStatus, NoFill, NoStatus, UniqueFill, UniqueStatus,
         SizesOK, ResultOK

(* Dispatching a signal removes it: no other fill (or status) is left      *)
(* behind.                                                                 *)
LEMMA DispatchFacts ==
    ASSUME TypeOK, UniqueFill, UniqueStatus, SizesOK, ResultOK, UNCHANGED sendOk,
           NEW sig \in {"fill", "status", "timeout"}, Dispatching(sig)
    PROVE  /\ aggQueue' \in Seq(Signals)
           /\ UniqueFill' /\ UniqueStatus' /\ SizesOK' /\ ResultOK'
           /\ sig = "fill" => ~NoFill /\ NoFill' /\ Head(aggQueue).arg \in PacketSizes
           /\ sig # "fill" => (NoFill' <=> NoFill)
           /\ sig = "status" => ~NoStatus /\ NoStatus' /\ Head(aggQueue) = StatusOf(sendOk)
           /\ sig # "status" => (NoStatus' <=> NoStatus)
  <1>1. /\ aggQueue' \in Seq(Signals)
        /\ Len(aggQueue) \in Nat /\ Len(aggQueue) >= 1
        /\ Len(aggQueue') = Len(aggQueue) - 1
        /\ \A i \in 1..Len(aggQueue') : aggQueue'[i] = aggQueue[i + 1]
        /\ Head(aggQueue) = aggQueue[1]
        /\ aggQueue[1].sig = sig
    BY TailFacts DEF TypeOK, Dispatching
  <1>2. /\ 1 \in Indices
        /\ \A i \in Indices' : i + 1 \in Indices /\ aggQueue'[i] = aggQueue[i + 1] /\ i + 1 # 1
        /\ \A i \in Indices : i = 1 \/ (i - 1 \in Indices' /\ aggQueue'[i - 1] = aggQueue[i])
        /\ \A i, j \in Indices' : i + 1 = j + 1 => i = j
    BY <1>1 DEF Indices
  <1>3. UniqueFill' /\ UniqueStatus' /\ SizesOK' /\ ResultOK'
    BY <1>2 DEF IsFill, IsStatus, UniqueFill, UniqueStatus, SizesOK, ResultOK
  <1>4. sig = "fill" => ~NoFill /\ NoFill' /\ Head(aggQueue).arg \in PacketSizes
    <2>1. ~NoFill' => ~(sig = "fill")
      BY <1>1, <1>2 DEF IsFill, NoFill, UniqueFill
    <2>2. sig = "fill" => ~NoFill /\ Head(aggQueue).arg \in PacketSizes
      BY <1>1, <1>2 DEF IsFill, NoFill, SizesOK
    <2> QED
      BY <2>1, <2>2
  <1>5. sig # "fill" => (NoFill' <=> NoFill)
    BY <1>1, <1>2 DEF IsFill, NoFill
  <1>6. sig = "status" => ~NoStatus /\ NoStatus' /\ Head(aggQueue) = StatusOf(sendOk)
    BY <1>1, <1>2 DEF IsStatus, NoStatus, UniqueStatus, ResultOK
  <1>7. sig # "status" => (NoStatus' <=> NoStatus)
    BY <1>1, <1>2 DEF IsStatus, NoStatus
  <1> QED
    BY <1>1, <1>3, <1>4, <1>5, <1>6, <1>7

(***************************************************************************)
(* The length of the aggregator's queue.                                   *)
(***************************************************************************)

(* The timeouts in a queue q.                                              *)
TimeoutsOf(q) == {i \in 1..Len(q) : q[i].sig = "timeout"}

(* A timeout the tick in progress may still queue.                         *)
Pending == IF rgPc \in {"timeout", "enqueue"} THEN 1 ELSE 0

CountInv == WaitingTimeouts + Pending <= MaxTimeouts

(* The timeouts that wait are finitely many.                               *)
LEMMA TimeoutsFinite ==
    ASSUME NEW q \in Seq(Signals)
    PROVE  IsFiniteSet(TimeoutsOf(q)) /\ Cardinality(TimeoutsOf(q)) \in Nat
  <1>1. Len(q) \in Nat /\ IsFiniteSet(1..Len(q))
    BY FS_Interval
  <1>2. TimeoutsOf(q) \in SUBSET (1..Len(q))
    BY DEF TimeoutsOf
  <1>3. IsFiniteSet(TimeoutsOf(q))
    BY <1>1, <1>2, FS_Subset, Zenon
  <1> QED
    BY <1>3, FS_CardinalityType

(* A fill or a status at the end of the queue is not a timeout.            *)
LEMMA CountOther ==
    ASSUME NEW q \in Seq(Signals), NEW x \in Signals, x.sig # "timeout"
    PROVE  TimeoutsOf(Append(q, x)) = TimeoutsOf(q)
  BY AppendFacts DEF TimeoutsOf

(* A timeout at the end of the queue is one more.                          *)
LEMMA CountTimeout ==
    ASSUME NEW q \in Seq(Signals)
    PROVE  Cardinality(TimeoutsOf(Append(q, Timeout))) <= Cardinality(TimeoutsOf(q)) + 1
  <1>1. TimeoutsOf(Append(q, Timeout)) = TimeoutsOf(q) \cup {Len(q) + 1}
    BY AppendFacts, SignalFacts DEF TimeoutsOf
  <1>2. IsFiniteSet(TimeoutsOf(q)) /\ Cardinality(TimeoutsOf(q)) \in Nat
    BY TimeoutsFinite
  <1>3. \/ Cardinality(TimeoutsOf(q) \cup {Len(q) + 1}) = Cardinality(TimeoutsOf(q))
        \/ Cardinality(TimeoutsOf(q) \cup {Len(q) + 1}) = Cardinality(TimeoutsOf(q)) + 1
    BY <1>2, FS_AddElement, Zenon
  <1> QED
    BY <1>1, <1>2, <1>3

(* Removing the head leaves no more timeouts than before.                  *)
LEMMA CountTail ==
    ASSUME NEW q \in Seq(Signals), q # <<>>
    PROVE  Cardinality(TimeoutsOf(Tail(q))) <= Cardinality(TimeoutsOf(q))
  <1> DEFINE S == TimeoutsOf(Tail(q))
             T == TimeoutsOf(q)
             f == [i \in S |-> i + 1]
  <1>1. \A i \in S : i \in Int /\ i + 1 \in T
    BY TailFacts DEF TimeoutsOf
  <1>2. f \in [S -> T] /\ \A i, j \in S : f[i] = f[j] => i = j
    BY <1>1
  <1>3. f \in Injection(S, T)
    BY <1>2, Zenon DEF Injection, IsInjective
  <1>4. IsFiniteSet(T)
    BY TimeoutsFinite
  <1> HIDE DEF f, S, T
  <1>5. Cardinality(S) <= Cardinality(T)
    BY <1>3, <1>4, FS_Injection
  <1> QED
    BY <1>5 DEF S, T

(* A union is no larger than its parts together.                           *)
LEMMA UnionBound ==
    ASSUME NEW S, NEW T, NEW a \in Nat, NEW b \in Nat,
           IsFiniteSet(S), IsFiniteSet(T), Cardinality(S) <= a, Cardinality(T) <= b
    PROVE  IsFiniteSet(S \cup T) /\ Cardinality(S \cup T) <= a + b
  <1> DEFINE cs == Cardinality(S)
             ct == Cardinality(T)
             ci == Cardinality(S \cap T)
             cu == Cardinality(S \cup T)
  <1>1. IsFiniteSet(S \cup T) /\ cu = cs + ct - ci
    BY FS_Union, Zenon
  <1>2. IsFiniteSet(S \cap T)
    BY FS_Intersection
  <1>3. cs \in Nat /\ ct \in Nat /\ ci \in Nat
    BY <1>2, FS_CardinalityType
  <1>4. cs <= a /\ ct <= b
    OBVIOUS
  <1> HIDE DEF cs, ct, ci, cu
  <1>5. cu <= a + b
    BY <1>1, <1>3, <1>4
  <1> QED
    BY <1>1, <1>5 DEF cu

(* 1..n has n elements.                                                    *)
LEMMA IntervalSize ==
    ASSUME NEW n \in Nat
    PROVE  Cardinality(1..n) = n
  <1>1. 1 \in Int /\ n \in Int
    OBVIOUS
  <1> DEFINE c == Cardinality(1..n)
  <1>2. c = IF 1 > n THEN 0 ELSE n - 1 + 1
    BY <1>1, FS_Interval, Zenon
  <1> HIDE DEF c
  <1>3. c = n
    BY <1>2
  <1> QED
    BY <1>3 DEF c

(* A set without two distinct elements has at most one.                    *)
LEMMA AtMostOne ==
    ASSUME NEW S, \A i, j \in S : i = j
    PROVE  IsFiniteSet(S) /\ Cardinality(S) \in Nat /\ Cardinality(S) <= 1
  <1>1. CASE S = {}
    BY <1>1, FS_EmptySet
  <1>2. CASE S # {}
    <2>1. PICK x : S = {x}
      BY <1>2
    <2> QED
      BY <2>1, FS_Singleton
  <1> QED
    BY <1>1, <1>2

(* Fills, statuses and timeouts are all there is in the queue.             *)
LEMMA LengthBound ==
    ASSUME IInv, NEW f \in Nat, NEW u \in Nat, NEW t \in Nat,
           IsFiniteSet(Fills), IsFiniteSet(Statuses),
           Cardinality(Fills) <= f, Cardinality(Statuses) <= u, WaitingTimeouts <= t
    PROVE  Len(aggQueue) \in Nat /\ Len(aggQueue) <= f + u + t
  <1>1. aggQueue \in Seq(Signals) /\ Len(aggQueue) \in Nat
    BY DEF IInv, TypeOK
  <1>2. 1..Len(aggQueue) = (Fills \cup Statuses) \cup Timeouts
    <2>1. \A i \in 1..Len(aggQueue) : aggQueue[i] \in Signals
      BY <1>1
    <2>2. \A i \in 1..Len(aggQueue) : aggQueue[i].sig \in {"fill", "status", "timeout"}
      BY <2>1 DEF Signals
    <2> QED
      BY <2>2, Zenon DEF Fills, Statuses, Timeouts
  <1>3. IsFiniteSet(Timeouts) /\ Cardinality(Timeouts) <= t
    BY <1>1, TimeoutsFinite DEF TimeoutsOf, Timeouts, WaitingTimeouts
  <1>a. IsFiniteSet(Fills \cup Statuses) /\ Cardinality(Fills \cup Statuses) <= f + u
    BY UnionBound
  <1> DEFINE Others == Fills \cup Statuses
             fu == f + u
  <1>b. fu \in Nat
    OBVIOUS
  <1>4. IsFiniteSet(Others) /\ Cardinality(Others) <= fu
    BY <1>a
  <1> HIDE DEF Others, fu
  <1>5. Cardinality(Others \cup Timeouts) <= fu + t
    BY <1>3, <1>4, <1>b, UnionBound
  <1>6. Cardinality(1..Len(aggQueue)) = Len(aggQueue)
    BY <1>1, IntervalSize
  <1>7. Len(aggQueue) <= fu + t
    BY <1>2, <1>5, <1>6 DEF Others
  <1> QED
    BY <1>1, <1>7 DEF fu

(* There is at most one fill and one status, and none when NoFill or       *)
(* NoStatus says so.                                                       *)
LEMMA FewFills ==
    ASSUME IInv
    PROVE  /\ IsFiniteSet(Fills) /\ Cardinality(Fills) <= 1
           /\ NoFill => Cardinality(Fills) <= 0
  <1>1. \A i, j \in Fills : i = j
    BY DEF IInv, UpInv, UniqueFill, Fills, Indices, IsFill
  <1>2. IsFiniteSet(Fills) /\ Cardinality(Fills) <= 1
    BY <1>1, AtMostOne
  <1>3. ASSUME NoFill PROVE Cardinality(Fills) <= 0
    <2>1. Fills = {}
      BY <1>3 DEF Fills, NoFill, Indices, IsFill
    <2> QED
      BY <2>1, FS_EmptySet
  <1> QED
    BY <1>2, <1>3

(* The same for statuses.                                                  *)
LEMMA FewStatuses ==
    ASSUME IInv
    PROVE  /\ IsFiniteSet(Statuses) /\ Cardinality(Statuses) <= 1
           /\ NoStatus => Cardinality(Statuses) <= 0
  <1>1. \A i, j \in Statuses : i = j
    BY DEF IInv, DownInv, UniqueStatus, Statuses, Indices, IsStatus
  <1>2. IsFiniteSet(Statuses) /\ Cardinality(Statuses) <= 1
    BY <1>1, AtMostOne
  <1>3. ASSUME NoStatus PROVE Cardinality(Statuses) <= 0
    <2>1. Statuses = {}
      BY <1>3 DEF Statuses, NoStatus, Indices, IsStatus
    <2> QED
      BY <2>1, FS_EmptySet
  <1> QED
    BY <1>2, <1>3

(* At most MaxTimeouts timeouts wait, one less when the rate group is      *)
(* about to queue one.                                                     *)
LEMMA CountFacts ==
    ASSUME IInv, CountInv
    PROVE  /\ WaitingTimeouts \in Nat /\ WaitingTimeouts <= MaxTimeouts
           /\ rgPc = "enqueue" => WaitingTimeouts <= MaxTimeouts - 1 /\ MaxTimeouts - 1 \in Nat
  <1>1. WaitingTimeouts \in Nat
    <2>1. aggQueue \in Seq(Signals) /\ WaitingTimeouts = Cardinality(TimeoutsOf(aggQueue))
      BY DEF IInv, TypeOK, TimeoutsOf, WaitingTimeouts, Timeouts
    <2> QED
      BY <2>1, TimeoutsFinite
  <1>2. Pending \in {0, 1} /\ (rgPc = "enqueue" => Pending = 1)
    BY DEF Pending
  <1> QED
    BY <1>1, <1>2, QueueAssumption DEF CountInv

(* The queue never holds more than a fill, a status and the timeouts.      *)
LEMMA QueueLength == IInv /\ CountInv => AggQueueBounded
  <1> SUFFICES ASSUME IInv, CountInv PROVE AggQueueBounded
    OBVIOUS
  <1>1. Len(aggQueue) <= 1 + 1 + MaxTimeouts
    BY FewFills, FewStatuses, CountFacts, LengthBound, QueueAssumption
  <1> QED
    BY <1>1, QueueAssumption DEF AggQueueBounded, IInv, TypeOK

(* Whoever sends a signal finds room: there is no other fill when ComQueue *)
(* sends a packet, no other status when the adapter reports, and a timeout *)
(* less than MaxTimeouts when the rate group queues one.                   *)
LEMMA Room ==
    ASSUME IInv, CountInv, NoFill \/ NoStatus \/ rgPc = "enqueue",
           NEW x, sendSignal(x)
    PROVE  aggQueue' = Append(aggQueue, x) /\ UNCHANGED asserted
  <1> USE FewFills, FewStatuses, CountFacts
  <1>1. CASE NoFill
    <2>1. Len(aggQueue) <= 0 + 1 + MaxTimeouts /\ Len(aggQueue) \in Nat
      BY <1>1, LengthBound, QueueAssumption
    <2> QED
      BY <2>1, QueueAssumption DEF sendSignal
  <1>2. CASE NoStatus
    <2>1. Len(aggQueue) <= 1 + 0 + MaxTimeouts /\ Len(aggQueue) \in Nat
      BY <1>2, LengthBound, QueueAssumption
    <2> QED
      BY <2>1, QueueAssumption DEF sendSignal
  <1>3. CASE rgPc = "enqueue"
    <2>1. Len(aggQueue) <= 1 + 1 + (MaxTimeouts - 1) /\ Len(aggQueue) \in Nat
      BY <1>3, LengthBound, QueueAssumption
    <2> QED
      BY <2>1, QueueAssumption DEF sendSignal
  <1> QED
    BY <1>1, <1>2, <1>3

(***************************************************************************)
(* One lemma per action: the inductive invariant is preserved.             *)
(***************************************************************************)

(* A packet at the head of the queue has a legal size.                     *)
LEMMA FillFacts ==
    ASSUME TypeOK, UpInv, ~NoFill, NEW n \in PacketSizes
    PROVE  m_held = 0 /\ n \in Nat /\ n > 0 /\ n <= AggregationSize
  BY AggregationAssumption DEF TypeOK, UpInv

(* A node that is started stays started.                                   *)
LEMMA StartedFacts ==
    ASSUME TypeOK, rgRun \/ (adapterDataIn /\ tmBuffer = "OWNED")
    PROVE  /\ m_started' \in BOOLEAN
           /\ m_started => m_started'
           /\ rgRun /\ rgPc' = "init" => m_started'
  <1>1. PICK up \in ensureNodeStarted(m_started) :
           m_started' = up /\ (rgRun => rgPc' = IF up THEN "init" ELSE "tick")
    BY DEF rgRun, adapterDataIn
  <1>2. up \in BOOLEAN /\ (m_started => up)
    BY Zenon DEF ensureNodeStarted
  <1> QED
    BY <1>1, <1>2

(* comPacketQueueIn_handler: a READY queue turns its credit into one       *)
(* packet.                                                                 *)
LEMMA StepComPacketQueueIn == IInv /\ CountInv /\ comPacketQueueIn => IInv'
  <1> SUFFICES ASSUME IInv, CountInv, comPacketQueueIn PROVE IInv'
    OBVIOUS
  <1> USE DEF IInv, NoAssertFailure, comPacketQueueIn, queueVars, adapterVars
  <1>1. /\ aggQueue' \in Seq(Signals)
        /\ UniqueFill' /\ UniqueStatus' /\ SizesOK' /\ ResultOK'
        /\ NoStatus' <=> NoStatus
        /\ asserted' = asserted
        /\ \/ NoFill /\ ~NoFill' /\ m_state = "READY" /\ m_state' = "WAITING"
           \/ (NoFill' <=> NoFill) /\ UNCHANGED <<aggQueue, m_state>>
    <2>1. CASE UNCHANGED <<aggQueue, m_state, asserted>>
      BY <2>1, QueueUnchanged DEF UpInv, DownInv, TypeOK
    <2>2. CASE /\ m_state = "READY" /\ m_state' = "WAITING"
               /\ \E n \in PacketSizes : sendSignal(Fill(n))
      BY <2>2, Room, EnqueueFill DEF UpInv, DownInv
    <2> QED
      BY <2>1, <2>2, DepthAssumption DEF processQueue, Enqueued, TypeOK
  <1>2. TypeOK'
    BY <1>1, AggregationAssumption, DepthAssumption 
       DEF TypeOK, Owner, Enqueued, processQueue
  <1>3. NoAssertFailure' /\ BufferInv'
    BY <1>1 DEF TypeOK, Owner, UpInv, DownInv, BufferInv
  <1>4. UpInv'
    <2>1. CASE NoFill /\ ~NoFill' /\ m_state = "READY" /\ m_state' = "WAITING"
      BY <1>1, <2>1, AggregationAssumption DEF TypeOK, UpInv
    <2>2. CASE (NoFill' <=> NoFill) /\ UNCHANGED <<aggQueue, m_state>>
      BY <1>1, <2>2 DEF TypeOK, UpInv
    <2> QED
      BY <1>1, <2>1, <2>2
  <1>5. DownInv'
    BY <1>1, AggregationAssumption, SignalFacts DEF TypeOK, UpInv, DownInv, LinkUp, StatusOf
  <1> QED
    BY <1>1, <1>2, <1>3, <1>4, <1>5

(* comStatusIn_handler: the status becomes a packet or a READY queue.      *)
LEMMA StepComStatusIn == IInv /\ CountInv /\ comStatusIn => IInv'
  <1> SUFFICES ASSUME IInv, CountInv, comStatusIn PROVE IInv'
    OBVIOUS
  <1> USE DEF IInv, NoAssertFailure, comStatusIn, processQueue, queueVars, adapterVars
  <1>0. m_state = "WAITING" /\ NoFill /\ statusIn = 1 /\ preambleRun /\ statusIn' = 0
    BY DEF TypeOK, UpInv
  <1>1. /\ aggQueue' \in Seq(Signals)
        /\ UniqueFill' /\ UniqueStatus' /\ SizesOK' /\ ResultOK'
        /\ NoStatus' <=> NoStatus
        /\ asserted' = asserted
        /\ \/ NoFill /\ ~NoFill' /\ m_state' = "WAITING"
           \/ NoFill' /\ UNCHANGED aggQueue /\ m_state' = "READY"
    <2>1. CASE UNCHANGED <<aggQueue, asserted>> /\ m_state' = "READY"
      BY <1>0, <2>1, QueueUnchanged DEF UpInv, DownInv, TypeOK
    <2>2. CASE m_state' = "WAITING" /\ \E n \in PacketSizes : sendSignal(Fill(n))
      BY <1>0, <2>2, Room, EnqueueFill DEF UpInv, DownInv
    <2> QED
      BY <1>0, <2>1, <2>2 DEF processQueue
  <1>2. TypeOK'
    BY <1>1, AggregationAssumption, DepthAssumption DEF TypeOK, Owner, UpInv, DownInv, BufferInv
  <1>3. NoAssertFailure' /\ BufferInv'
    BY <1>1 DEF TypeOK, Owner, UpInv, DownInv, BufferInv
  <1>4. UpInv'
    BY <1>0, <1>1, AggregationAssumption, DepthAssumption DEF TypeOK, UpInv, DownInv
  <1>5. DownInv'
    BY <1>1, AggregationAssumption, SignalFacts DEF TypeOK, UpInv, DownInv, LinkUp, StatusOf
  <1> QED
    BY <1>1, <1>2, <1>3, <1>4, <1>5

(* preamble() puts the first credit into circulation.                      *)
LEMMA StepPreamble == IInv /\ preamble => IInv'
  <1> SUFFICES ASSUME IInv, preamble PROVE IInv'
    OBVIOUS
  <1> USE DEF IInv, NoAssertFailure, preamble, queueVars, adapterVars
  <1>1. /\ aggQueue' = aggQueue
        /\ NoFill' <=> NoFill
        /\ NoStatus' <=> NoStatus
        /\ UniqueFill' /\ UniqueStatus' /\ SizesOK' /\ ResultOK'
    BY QueueUnchanged DEF UpInv, DownInv, adapterVars
  <1>2. TypeOK'
    BY <1>1, AggregationAssumption, DepthAssumption DEF TypeOK, Owner, UpInv, DownInv, BufferInv
  <1>3. NoAssertFailure' /\ BufferInv'
    BY <1>1 DEF TypeOK, Owner, UpInv, DownInv, BufferInv
  <1>4. UpInv'
    BY <1>1, AggregationAssumption, DepthAssumption DEF TypeOK, UpInv, DownInv
  <1>5. DownInv'
    BY <1>1, AggregationAssumption, SignalFacts DEF TypeOK, UpInv, DownInv, LinkUp, StatusOf
  <1> QED
    BY <1>1, <1>2, <1>3, <1>4, <1>5

(* A packet that comes in WAIT_STATUS finds nothing held.                  *)
LEMMA StepFillWaiting == IInv /\ fillWaiting => IInv'
  <1> SUFFICES ASSUME IInv, fillWaiting PROVE IInv'
    OBVIOUS
  <1> USE DEF IInv, NoAssertFailure, fillWaiting, doHold, queueVars, adapterVars
  <1>1. /\ aggQueue' \in Seq(Signals)
        /\ UniqueFill' /\ UniqueStatus' /\ SizesOK' /\ ResultOK'
        /\ preambleRun /\ aggPc = "loop"
        /\ ~NoFill /\ NoFill' /\ Head(aggQueue).arg \in PacketSizes
        /\ Head(aggQueue).arg \in Nat /\ Head(aggQueue).arg > 0 /\ m_held = 0
        /\ NoStatus' <=> NoStatus
    <2>1. Dispatching("fill") /\ UniqueFill /\ UniqueStatus /\ UNCHANGED sendOk
      BY DEF UpInv, DownInv
    <2>2. /\ aggQueue' \in Seq(Signals)
          /\ UniqueFill' /\ UniqueStatus' /\ SizesOK' /\ ResultOK'
          /\ ~NoFill /\ NoFill' /\ Head(aggQueue).arg \in PacketSizes
          /\ NoStatus' <=> NoStatus
      BY <2>1, DispatchFacts
    <2>3. m_held = 0 /\ Head(aggQueue).arg \in Nat /\ Head(aggQueue).arg > 0
      BY <2>2, FillFacts
    <2> QED
      BY <2>1, <2>2, <2>3 DEF Dispatching
  <1>2. TypeOK'
    BY <1>1, AggregationAssumption, DepthAssumption DEF TypeOK, Owner, UpInv, DownInv, BufferInv
  <1>3. NoAssertFailure' /\ BufferInv'
    BY <1>1 DEF TypeOK, Owner, UpInv, DownInv, BufferInv
  <1>4. UpInv'
    BY <1>1, AggregationAssumption, DepthAssumption DEF TypeOK, UpInv, DownInv
  <1>5. DownInv'
    BY <1>1, AggregationAssumption, SignalFacts DEF TypeOK, UpInv, DownInv, LinkUp, StatusOf
  <1> QED
    BY <1>1, <1>2, <1>3, <1>4, <1>5

(* A packet that does not fit is held and the frame is sent.               *)
LEMMA StepFillIsFull == IInv /\ fillIsFull => IInv'
  <1> SUFFICES ASSUME IInv, fillIsFull PROVE IInv'
    OBVIOUS
  <1> USE DEF IInv, NoAssertFailure, fillIsFull, doHold, doSend, isFull, queueVars, adapterVars
  <1>1. /\ aggQueue' \in Seq(Signals)
        /\ UniqueFill' /\ UniqueStatus' /\ SizesOK' /\ ResultOK'
        /\ preambleRun /\ aggPc = "loop"
        /\ ~NoFill /\ NoFill' /\ Head(aggQueue).arg \in PacketSizes
        /\ Head(aggQueue).arg \in Nat /\ Head(aggQueue).arg > 0 /\ m_held = 0
        /\ Head(aggQueue).arg <= AggregationSize
        /\ NoStatus' <=> NoStatus
    <2>1. Dispatching("fill") /\ UniqueFill /\ UniqueStatus /\ UNCHANGED sendOk
      BY DEF UpInv, DownInv
    <2>2. /\ aggQueue' \in Seq(Signals)
          /\ UniqueFill' /\ UniqueStatus' /\ SizesOK' /\ ResultOK'
          /\ ~NoFill /\ NoFill' /\ Head(aggQueue).arg \in PacketSizes
          /\ NoStatus' <=> NoStatus
      BY <2>1, DispatchFacts
    <2>3. /\ m_held = 0 /\ Head(aggQueue).arg \in Nat /\ Head(aggQueue).arg > 0
          /\ Head(aggQueue).arg <= AggregationSize
      BY <2>2, FillFacts
    <2> QED
      BY <2>1, <2>2, <2>3 DEF Dispatching
  <1>2. TypeOK'
    BY <1>1, AggregationAssumption, DepthAssumption DEF TypeOK, Owner, UpInv, DownInv, BufferInv
  <1>a. asserted' = asserted
    BY <1>1, AggregationAssumption DEF TypeOK
  <1>3. NoAssertFailure' /\ BufferInv'
    BY <1>1, <1>a DEF TypeOK, Owner, UpInv, DownInv, BufferInv
  <1>4. UpInv'
    BY <1>1, AggregationAssumption, DepthAssumption DEF TypeOK, UpInv, DownInv
  <1>5. DownInv'
    BY <1>1, AggregationAssumption, SignalFacts DEF TypeOK, UpInv, DownInv, LinkUp, StatusOf
  <1> QED
    BY <1>1, <1>2, <1>3, <1>4, <1>5

(* A packet that fits exactly goes back as a status and the frame is sent. *)
LEMMA StepFillWillFill == IInv /\ fillWillFill => IInv'
  <1> SUFFICES ASSUME IInv, fillWillFill PROVE IInv'
    OBVIOUS
  <1> USE DEF IInv, NoAssertFailure, fillWillFill, doFill, doSend, willFill, queueVars, adapterVars
  <1>1. /\ aggQueue' \in Seq(Signals)
        /\ UniqueFill' /\ UniqueStatus' /\ SizesOK' /\ ResultOK'
        /\ preambleRun /\ aggPc = "loop"
        /\ ~NoFill /\ NoFill' /\ Head(aggQueue).arg \in PacketSizes
        /\ Head(aggQueue).arg \in Nat /\ Head(aggQueue).arg > 0 /\ m_held = 0
        /\ Head(aggQueue).arg <= AggregationSize
        /\ NoStatus' <=> NoStatus
    <2>1. Dispatching("fill") /\ UniqueFill /\ UniqueStatus /\ UNCHANGED sendOk
      BY DEF UpInv, DownInv
    <2>2. /\ aggQueue' \in Seq(Signals)
          /\ UniqueFill' /\ UniqueStatus' /\ SizesOK' /\ ResultOK'
          /\ ~NoFill /\ NoFill' /\ Head(aggQueue).arg \in PacketSizes
          /\ NoStatus' <=> NoStatus
      BY <2>1, DispatchFacts
    <2>3. /\ m_held = 0 /\ Head(aggQueue).arg \in Nat /\ Head(aggQueue).arg > 0
          /\ Head(aggQueue).arg <= AggregationSize
      BY <2>2, FillFacts
    <2> QED
      BY <2>1, <2>2, <2>3 DEF Dispatching
  <1>2. TypeOK'
    <2>1. frame' \in 0..AggregationSize
      BY <1>1, AggregationAssumption DEF TypeOK
    <2>2. statusIn' \in Nat
      BY DEF TypeOK
    <2> QED
      BY <1>1, <2>1, <2>2, Zenon DEF TypeOK, Owner
  <1>a. asserted' = asserted
    BY <1>1, AggregationAssumption DEF TypeOK
  <1>3. NoAssertFailure' /\ BufferInv'
    BY <1>1, <1>a DEF TypeOK, Owner, UpInv, DownInv, BufferInv
  <1>4. UpInv'
    BY <1>1, AggregationAssumption, DepthAssumption DEF TypeOK, UpInv, DownInv
  <1>5. DownInv'
    BY <1>1, AggregationAssumption, SignalFacts DEF TypeOK, UpInv, DownInv, LinkUp, StatusOf
  <1> QED
    BY <1>1, <1>2, <1>3, <1>4, <1>5

(* A packet that fits goes back as a status and the frame keeps filling.   *)
LEMMA StepFillMore == IInv /\ fillMore => IInv'
  <1> SUFFICES ASSUME IInv, fillMore PROVE IInv'
    OBVIOUS
  <1> USE DEF IInv, NoAssertFailure, fillMore, doFill, isFull, willFill, queueVars, adapterVars
  <1>1. /\ aggQueue' \in Seq(Signals)
        /\ UniqueFill' /\ UniqueStatus' /\ SizesOK' /\ ResultOK'
        /\ preambleRun /\ aggPc = "loop"
        /\ ~NoFill /\ NoFill' /\ Head(aggQueue).arg \in PacketSizes
        /\ Head(aggQueue).arg \in Nat /\ Head(aggQueue).arg > 0 /\ m_held = 0
        /\ Head(aggQueue).arg <= AggregationSize
        /\ NoStatus' <=> NoStatus
    <2>1. Dispatching("fill") /\ UniqueFill /\ UniqueStatus /\ UNCHANGED sendOk
      BY DEF UpInv, DownInv
    <2>2. /\ aggQueue' \in Seq(Signals)
          /\ UniqueFill' /\ UniqueStatus' /\ SizesOK' /\ ResultOK'
          /\ ~NoFill /\ NoFill' /\ Head(aggQueue).arg \in PacketSizes
          /\ NoStatus' <=> NoStatus
      BY <2>1, DispatchFacts
    <2>3. /\ m_held = 0 /\ Head(aggQueue).arg \in Nat /\ Head(aggQueue).arg > 0
          /\ Head(aggQueue).arg <= AggregationSize
      BY <2>2, FillFacts
    <2> QED
      BY <2>1, <2>2, <2>3 DEF Dispatching
  <1>2. TypeOK'
    BY <1>1, AggregationAssumption, DepthAssumption DEF TypeOK, Owner, UpInv, DownInv, BufferInv
  <1>a. asserted' = asserted
    BY <1>1, AggregationAssumption DEF TypeOK
  <1>3. NoAssertFailure' /\ BufferInv'
    BY <1>1, <1>a DEF TypeOK, Owner, UpInv, DownInv, BufferInv
  <1>4. UpInv'
    BY <1>1, AggregationAssumption, DepthAssumption DEF TypeOK, UpInv, DownInv
  <1>5. DownInv'
    BY <1>1, AggregationAssumption, SignalFacts DEF TypeOK, UpInv, DownInv, LinkUp, StatusOf
  <1> QED
    BY <1>1, <1>2, <1>3, <1>4, <1>5

(* A timeout sends a frame that is not empty.                              *)
LEMMA StepTimeoutSend == IInv /\ timeoutSend => IInv'
  <1> SUFFICES ASSUME IInv, timeoutSend PROVE IInv'
    OBVIOUS
  <1> USE DEF IInv, NoAssertFailure, timeoutSend, doSend, queueVars, adapterVars
  <1>1. /\ aggQueue' \in Seq(Signals)
        /\ UniqueFill' /\ UniqueStatus' /\ SizesOK' /\ ResultOK'
        /\ preambleRun /\ aggPc = "loop"
        /\ NoFill' <=> NoFill
        /\ NoStatus' <=> NoStatus
    <2>1. Dispatching("timeout") /\ UniqueFill /\ UniqueStatus
      BY DEF UpInv, DownInv
    <2> QED
      BY <2>1, DispatchFacts DEF Dispatching
  <1>2. TypeOK'
    BY <1>1, AggregationAssumption, DepthAssumption DEF TypeOK, Owner, UpInv, DownInv, BufferInv
  <1>3. NoAssertFailure' /\ BufferInv'
    BY <1>1 DEF TypeOK, Owner, UpInv, DownInv, BufferInv
  <1>4. UpInv'
    BY <1>1, AggregationAssumption, DepthAssumption DEF TypeOK, UpInv, DownInv
  <1>5. DownInv'
    BY <1>1, AggregationAssumption, SignalFacts DEF TypeOK, UpInv, DownInv, LinkUp, StatusOf
  <1> QED
    BY <1>1, <1>2, <1>3, <1>4, <1>5

(* A timeout in any other state changes nothing.                           *)
LEMMA StepTimeoutIgnored == IInv /\ timeoutIgnored => IInv'
  <1> SUFFICES ASSUME IInv, timeoutIgnored PROVE IInv'
    OBVIOUS
  <1> USE DEF IInv, NoAssertFailure, timeoutIgnored, queueVars, adapterVars
  <1>1. /\ aggQueue' \in Seq(Signals)
        /\ UniqueFill' /\ UniqueStatus' /\ SizesOK' /\ ResultOK'
        /\ preambleRun /\ aggPc = "loop"
        /\ NoFill' <=> NoFill
        /\ NoStatus' <=> NoStatus
    <2>1. Dispatching("timeout") /\ UniqueFill /\ UniqueStatus
      BY DEF UpInv, DownInv
    <2> QED
      BY <2>1, DispatchFacts DEF Dispatching
  <1>2. TypeOK'
    BY <1>1, AggregationAssumption, DepthAssumption DEF TypeOK, Owner, UpInv, DownInv, BufferInv
  <1>3. NoAssertFailure' /\ BufferInv'
    BY <1>1 DEF TypeOK, Owner, UpInv, DownInv, BufferInv
  <1>4. UpInv'
    BY <1>1, AggregationAssumption, DepthAssumption DEF TypeOK, UpInv, DownInv
  <1>5. DownInv'
    BY <1>1, AggregationAssumption, SignalFacts DEF TypeOK, UpInv, DownInv, LinkUp, StatusOf
  <1> QED
    BY <1>1, <1>2, <1>3, <1>4, <1>5

(* A good status opens a new frame with the held packet in it.             *)
LEMMA StepStatusGood == IInv /\ statusGood => IInv'
  <1> SUFFICES ASSUME IInv, statusGood PROVE IInv'
    OBVIOUS
  <1> USE DEF IInv, NoAssertFailure, statusGood, doClear, doFill, isGood, queueVars, adapterVars
  <1>1. /\ aggQueue' \in Seq(Signals)
        /\ UniqueFill' /\ UniqueStatus' /\ SizesOK' /\ ResultOK'
        /\ preambleRun /\ aggPc = "loop"
        /\ NoFill' <=> NoFill
        /\ ~NoStatus /\ NoStatus' /\ Head(aggQueue) = StatusOf(sendOk)
    <2>1. Dispatching("status") /\ UniqueFill /\ UniqueStatus
      BY DEF UpInv, DownInv
    <2> QED
      BY <2>1, DispatchFacts DEF Dispatching
  <1>2. TypeOK'
    BY <1>1, AggregationAssumption, DepthAssumption DEF TypeOK, Owner, UpInv, DownInv, BufferInv
  <1>a. asserted' = asserted
    BY <1>1, AggregationAssumption DEF TypeOK
  <1>3. NoAssertFailure' /\ BufferInv'
    BY <1>1, <1>a DEF TypeOK, Owner, UpInv, DownInv, BufferInv
  <1>4. UpInv'
    BY <1>1, AggregationAssumption, DepthAssumption DEF TypeOK, UpInv, DownInv
  <1>5. DownInv'
    BY <1>1, AggregationAssumption, SignalFacts DEF TypeOK, UpInv, DownInv, LinkUp, StatusOf
  <1> QED
    BY <1>1, <1>2, <1>3, <1>4, <1>5

(* A bad status can only come in WAIT_STATUS, so assertNoStatus is not     *)
(* reached.                                                                *)
LEMMA StepStatusBad == IInv /\ statusBad => IInv'
  <1> SUFFICES ASSUME IInv, statusBad PROVE IInv'
    OBVIOUS
  <1> USE DEF IInv, NoAssertFailure, statusBad, isGood, queueVars, adapterVars
  <1>1. /\ aggQueue' \in Seq(Signals)
        /\ UniqueFill' /\ UniqueStatus' /\ SizesOK' /\ ResultOK'
        /\ preambleRun /\ aggPc = "loop"
        /\ NoFill' <=> NoFill
        /\ ~NoStatus /\ NoStatus' /\ Head(aggQueue) = StatusOf(sendOk)
    <2>1. Dispatching("status") /\ UniqueFill /\ UniqueStatus
      BY DEF UpInv, DownInv
    <2> QED
      BY <2>1, DispatchFacts DEF Dispatching
  <1>2. TypeOK'
    BY <1>1, AggregationAssumption, DepthAssumption DEF TypeOK, Owner, UpInv, DownInv, BufferInv
  <1>3. NoAssertFailure' /\ BufferInv'
    BY <1>1 DEF TypeOK, Owner, UpInv, DownInv, BufferInv
  <1>4. UpInv'
    BY <1>1, AggregationAssumption, DepthAssumption DEF TypeOK, UpInv, DownInv
  <1>5. DownInv'
    BY <1>1, AggregationAssumption, SignalFacts DEF TypeOK, UpInv, DownInv, LinkUp, StatusOf
  <1> QED
    BY <1>1, <1>2, <1>3, <1>4, <1>5

(* dataIn finds TmFramer's buffer owned and the node up.                   *)
LEMMA StepAdapterDataIn == IInv /\ adapterDataIn => IInv'
  <1> SUFFICES ASSUME IInv, adapterDataIn PROVE IInv'
    OBVIOUS
  <1> USE DEF IInv, NoAssertFailure, adapterDataIn, queueVars, adapterVars
  <1>1. /\ aggQueue' = aggQueue
        /\ NoFill' <=> NoFill
        /\ NoStatus /\ NoStatus'
        /\ UniqueFill' /\ UniqueStatus' /\ SizesOK' /\ ResultOK'
    BY DEF UpInv, DownInv, NoFill, NoStatus, UniqueFill, UniqueStatus, SizesOK, ResultOK, Indices,
           IsFill, IsStatus, BufferInv, TypeOK, Owner
  <1>2. TypeOK'
    BY <1>1, StartedFacts DEF TypeOK, Owner, UpInv, DownInv, BufferInv
  <1>3. NoAssertFailure' /\ BufferInv'
    BY <1>1 DEF TypeOK, Owner, UpInv, DownInv, BufferInv
  <1>4. UpInv'
    BY <1>1, AggregationAssumption, DepthAssumption DEF TypeOK, UpInv, DownInv
  <1>5. DownInv'
    BY <1>1, StartedFacts DEF BufferInv, TypeOK, UpInv, DownInv, LinkUp, StatusOf
  <1> QED
    BY <1>1, <1>2, <1>3, <1>4, <1>5

(* dataReturnOut gives TmFramer its buffer back.                           *)
LEMMA StepAdapterDataReturn == IInv /\ adapterDataReturn => IInv'
  <1> SUFFICES ASSUME IInv, adapterDataReturn PROVE IInv'
    OBVIOUS
  <1> USE DEF IInv, NoAssertFailure, adapterDataReturn, queueVars, adapterVars
  <1>1. /\ aggQueue' = aggQueue
        /\ NoFill' <=> NoFill
        /\ NoStatus' <=> NoStatus
        /\ UniqueFill' /\ UniqueStatus' /\ SizesOK' /\ ResultOK'
    BY QueueUnchanged DEF UpInv, DownInv
  <1>2. TypeOK'
    BY <1>1, AggregationAssumption, DepthAssumption DEF TypeOK, Owner, UpInv, DownInv, BufferInv
  <1>3. NoAssertFailure' /\ BufferInv'
    BY <1>1 DEF TypeOK, Owner, UpInv, DownInv, BufferInv
  <1>4. UpInv'
    BY <1>1, AggregationAssumption, DepthAssumption DEF TypeOK, UpInv, DownInv
  <1>5. DownInv'
    BY <1>1, AggregationAssumption, SignalFacts DEF TypeOK, UpInv, DownInv, LinkUp, StatusOf
  <1> QED
    BY <1>1, <1>2, <1>3, <1>4, <1>5

(* The aggregator's buffer comes back while it is not owned.               *)
LEMMA StepAggDataReturnIn == IInv /\ aggDataReturnIn => IInv'
  <1> SUFFICES ASSUME IInv, aggDataReturnIn PROVE IInv'
    OBVIOUS
  <1> USE DEF IInv, NoAssertFailure, aggDataReturnIn, queueVars, adapterVars
  <1>1. /\ aggQueue' = aggQueue
        /\ NoFill' <=> NoFill
        /\ NoStatus' <=> NoStatus
        /\ UniqueFill' /\ UniqueStatus' /\ SizesOK' /\ ResultOK'
    BY QueueUnchanged DEF UpInv, DownInv
  <1>2. TypeOK'
    BY <1>1, AggregationAssumption, DepthAssumption DEF TypeOK, Owner, UpInv, DownInv, BufferInv
  <1>3. NoAssertFailure' /\ BufferInv'
    BY <1>1 DEF TypeOK, Owner, UpInv, DownInv, BufferInv
  <1>4. UpInv'
    BY <1>1, AggregationAssumption, DepthAssumption DEF TypeOK, UpInv, DownInv
  <1>5. DownInv'
    BY <1>1, AggregationAssumption, SignalFacts DEF TypeOK, UpInv, DownInv, LinkUp, StatusOf
  <1> QED
    BY <1>1, <1>2, <1>3, <1>4, <1>5

(* run_handler goes on to comStatusInit only with the node up.             *)
LEMMA StepRgRun == IInv /\ rgRun => IInv'
  <1> SUFFICES ASSUME IInv, rgRun PROVE IInv'
    OBVIOUS
  <1> USE DEF IInv, NoAssertFailure, rgRun, aggVars, queueVars, adapterVars
  <1>1. /\ aggQueue' = aggQueue
        /\ NoFill' <=> NoFill
        /\ NoStatus' <=> NoStatus
        /\ UniqueFill' /\ UniqueStatus' /\ SizesOK' /\ ResultOK'
    BY QueueUnchanged DEF UpInv, DownInv
  <1>2. TypeOK'
    BY <1>1, StartedFacts DEF TypeOK, Owner, UpInv, DownInv, BufferInv
  <1>3. NoAssertFailure' /\ BufferInv'
    BY <1>1 DEF TypeOK, Owner, UpInv, DownInv, BufferInv
  <1>4. UpInv'
    BY <1>1, AggregationAssumption, DepthAssumption DEF TypeOK, UpInv, DownInv
  <1>5. DownInv'
    BY <1>1, StartedFacts DEF BufferInv, TypeOK, UpInv, DownInv, LinkUp, StatusOf
  <1> QED
    BY <1>1, <1>2, <1>3, <1>4, <1>5

(* Setting m_initialStatusSent after the poll keeps the link up.           *)
LEMMA StepRgPoll == IInv /\ rgPoll => IInv'
  <1> SUFFICES ASSUME IInv, rgPoll PROVE IInv'
    OBVIOUS
  <1> USE DEF IInv, NoAssertFailure, rgPoll, aggVars, queueVars, adapterVars
  <1>1. /\ aggQueue' = aggQueue
        /\ NoFill' <=> NoFill
        /\ NoStatus' <=> NoStatus
        /\ UniqueFill' /\ UniqueStatus' /\ SizesOK' /\ ResultOK'
    BY QueueUnchanged DEF UpInv, DownInv
  <1>2. TypeOK'
    BY <1>1, AggregationAssumption, DepthAssumption DEF TypeOK, Owner, UpInv, DownInv, BufferInv
  <1>3. NoAssertFailure' /\ BufferInv'
    BY <1>1 DEF TypeOK, Owner, UpInv, DownInv, BufferInv
  <1>4. UpInv'
    BY <1>1, AggregationAssumption, DepthAssumption DEF TypeOK, UpInv, DownInv
  <1>5. DownInv'
    BY <1>1, AggregationAssumption, SignalFacts DEF TypeOK, UpInv, DownInv, LinkUp, StatusOf
  <1> QED
    BY <1>1, <1>2, <1>3, <1>4, <1>5

(* The adapter's status is the only one in the queue.                      *)
LEMMA StepAdapterComStatus == IInv /\ CountInv /\ adapterComStatus => IInv'
  <1> SUFFICES ASSUME IInv, CountInv, adapterComStatus PROVE IInv'
    OBVIOUS
  <1> USE DEF IInv, NoAssertFailure, adapterComStatus, queueVars, adapterVars
  <1>1. /\ aggQueue' \in Seq(Signals)
        /\ UniqueFill' /\ UniqueStatus' /\ SizesOK' /\ ResultOK'
        /\ NoFill' <=> NoFill
        /\ NoStatus /\ ~NoStatus' /\ UNCHANGED asserted
    <2>1. NoStatus /\ aggQueue' = Append(aggQueue, StatusOf(sendOk)) /\ UNCHANGED asserted
      BY Room DEF DownInv
    <2> QED
      BY <2>1, EnqueueStatus DEF UpInv, DownInv
  <1>2. TypeOK'
    BY <1>1, AggregationAssumption, DepthAssumption DEF TypeOK, Owner, UpInv, DownInv, BufferInv
  <1>3. NoAssertFailure' /\ BufferInv'
    BY <1>1 DEF TypeOK, Owner, UpInv, DownInv, BufferInv
  <1>4. UpInv'
    BY <1>1, AggregationAssumption, DepthAssumption DEF TypeOK, UpInv, DownInv
  <1>5. DownInv'
    BY <1>1, AggregationAssumption, SignalFacts DEF TypeOK, UpInv, DownInv, LinkUp, StatusOf
  <1> QED
    BY <1>1, <1>2, <1>3, <1>4, <1>5

(* A tick that begins touches nothing but the rate group.                  *)
LEMMA StepRgTick == IInv /\ rgTick => IInv'
  <1> SUFFICES ASSUME IInv, rgTick PROVE IInv'
    OBVIOUS
  <1> USE DEF IInv, NoAssertFailure, rgTick, aggVars, queueVars, adapterVars
  <1>1. /\ aggQueue' = aggQueue
        /\ NoFill' <=> NoFill
        /\ NoStatus' <=> NoStatus
        /\ UniqueFill' /\ UniqueStatus' /\ SizesOK' /\ ResultOK'
    BY QueueUnchanged DEF UpInv, DownInv
  <1>2. TypeOK'
    BY <1>1, AggregationAssumption, DepthAssumption DEF TypeOK, Owner, UpInv, DownInv, BufferInv
  <1>3. NoAssertFailure' /\ BufferInv'
    BY <1>1 DEF TypeOK, Owner, UpInv, DownInv, BufferInv
  <1>4. UpInv'
    BY <1>1, AggregationAssumption, DepthAssumption DEF TypeOK, UpInv, DownInv
  <1>5. DownInv'
    BY <1>1, AggregationAssumption, SignalFacts DEF TypeOK, UpInv, DownInv, LinkUp, StatusOf
  <1> QED
    BY <1>1, <1>2, <1>3, <1>4, <1>5

(* timeout_handler only looks at the flag first.                           *)
LEMMA StepRgTimeout == IInv /\ rgTimeout => IInv'
  <1> SUFFICES ASSUME IInv, rgTimeout PROVE IInv'
    OBVIOUS
  <1> USE DEF IInv, NoAssertFailure, rgTimeout, aggVars, queueVars, adapterVars
  <1>1. /\ aggQueue' = aggQueue
        /\ NoFill' <=> NoFill
        /\ NoStatus' <=> NoStatus
        /\ UniqueFill' /\ UniqueStatus' /\ SizesOK' /\ ResultOK'
    BY QueueUnchanged DEF UpInv, DownInv
  <1>2. TypeOK'
    BY <1>1, AggregationAssumption, DepthAssumption DEF TypeOK, Owner, UpInv, DownInv, BufferInv
  <1>3. NoAssertFailure' /\ BufferInv'
    BY <1>1 DEF TypeOK, Owner, UpInv, DownInv, BufferInv
  <1>4. UpInv'
    BY <1>1, AggregationAssumption, DepthAssumption DEF TypeOK, UpInv, DownInv
  <1>5. DownInv'
    BY <1>1, AggregationAssumption, SignalFacts DEF TypeOK, UpInv, DownInv, LinkUp, StatusOf
  <1> QED
    BY <1>1, <1>2, <1>3, <1>4, <1>5

(* A timeout queued on a flag that may be stale by now finds room.         *)
LEMMA StepRgEnqueue == IInv /\ CountInv /\ rgEnqueue => IInv'
  <1> SUFFICES ASSUME IInv, CountInv, rgEnqueue PROVE IInv'
    OBVIOUS
  <1> USE DEF IInv, NoAssertFailure, rgEnqueue, queueVars, adapterVars
  <1>1. /\ aggQueue' \in Seq(Signals)
        /\ UniqueFill' /\ UniqueStatus' /\ SizesOK' /\ ResultOK'
        /\ NoFill' <=> NoFill
        /\ NoStatus' <=> NoStatus
        /\ UNCHANGED asserted
    <2>1. aggQueue' = Append(aggQueue, Timeout) /\ UNCHANGED asserted
      BY Room
    <2> QED
      BY <2>1, EnqueueTimeout DEF UpInv, DownInv
  <1>2. TypeOK'
    BY <1>1, AggregationAssumption, DepthAssumption DEF TypeOK, Owner, UpInv, DownInv, BufferInv
  <1>3. NoAssertFailure' /\ BufferInv'
    BY <1>1 DEF TypeOK, Owner, UpInv, DownInv, BufferInv
  <1>4. UpInv'
    BY <1>1, AggregationAssumption, DepthAssumption DEF TypeOK, UpInv, DownInv
  <1>5. DownInv'
    BY <1>1, AggregationAssumption, SignalFacts DEF TypeOK, UpInv, DownInv, LinkUp, StatusOf
  <1> QED
    BY <1>1, <1>2, <1>3, <1>4, <1>5

(* The initial status is sent when no frame can have been sent yet.        *)
LEMMA StepRgComStatusInit == IInv /\ CountInv /\ rgComStatusInit => IInv'
  <1> SUFFICES ASSUME IInv, CountInv, rgComStatusInit PROVE IInv'
    OBVIOUS
  <1> USE DEF IInv, NoAssertFailure, rgComStatusInit, queueVars, adapterVars
  <1>1. /\ aggQueue' \in Seq(Signals)
        /\ UniqueFill' /\ UniqueStatus' /\ SizesOK' /\ ResultOK'
        /\ NoFill' <=> NoFill
        /\ IF m_initialStatusSent THEN NoStatus' <=> NoStatus ELSE NoStatus /\ ~NoStatus'
        /\ asserted' = asserted
    <2>1. CASE m_initialStatusSent
      BY <2>1, QueueUnchanged DEF UpInv, DownInv, TypeOK
    <2>2. CASE ~m_initialStatusSent
      <3>1. NoStatus /\ StatusOf(sendOk) = Success
        BY <2>2 DEF DownInv, LinkUp, StatusOf
      <3>2. aggQueue' = Append(aggQueue, StatusOf(sendOk)) /\ UNCHANGED asserted
        BY <2>2, <3>1, Room
      <3> QED
        BY <2>2, <3>1, <3>2, EnqueueStatus DEF UpInv, DownInv
    <2> QED
      BY <2>1, <2>2
  <1>2. TypeOK'
    BY <1>1, AggregationAssumption, DepthAssumption DEF TypeOK, Owner, UpInv, DownInv, BufferInv
  <1>3. NoAssertFailure' /\ BufferInv'
    BY <1>1 DEF TypeOK, Owner, UpInv, DownInv, BufferInv
  <1>4. UpInv'
    BY <1>1, AggregationAssumption, DepthAssumption DEF TypeOK, UpInv, DownInv
  <1>5. DownInv'
    BY <1>1, AggregationAssumption, SignalFacts DEF TypeOK, UpInv, DownInv, LinkUp, StatusOf
  <1> QED
    BY <1>1, <1>2, <1>3, <1>4, <1>5

(* Stuttering preserves every state predicate.                             *)
LEMMA StepStutter == IInv /\ UNCHANGED vars => IInv'
  <1> SUFFICES ASSUME IInv, UNCHANGED vars PROVE IInv'
    OBVIOUS
  <1> USE DEF vars, queueVars, aggVars, adapterVars, IInv
  <1>1. TypeOK' /\ NoAssertFailure' /\ BufferInv'
    BY DEF TypeOK, NoAssertFailure, BufferInv
  <1>2. SizesOK' /\ ResultOK' /\ UpInv' /\ DownInv'
    BY QueueUnchanged DEF UpInv, DownInv, LinkUp
  <1> QED
    BY <1>1, <1>2

(* What a step may do to the aggregator's queue and the pending timeout.   *)
LEMMA QueueSteps ==
    ASSUME IInv, [Next]_vars
    PROVE  \/ /\ Pending' <= Pending
              /\ \/ aggQueue' = aggQueue
                 \/ aggQueue # <<>> /\ aggQueue' = Tail(aggQueue)
                 \/ \E x \in Signals : x.sig # "timeout" /\ aggQueue' = Append(aggQueue, x)
           \/ WaitingTimeouts < MaxTimeouts /\ Pending' = 1 /\ aggQueue' = aggQueue
           \/ Pending = 1 /\ Pending' = 0 /\ aggQueue' = Append(aggQueue, Timeout)
  <1> DEFINE Enqueues == \E x \in Signals : x.sig # "timeout" /\ aggQueue' = Append(aggQueue, x)
  <1> USE DEF aggVars
  <1>0. rgPc' = rgPc => Pending' <= Pending
    BY DEF Pending
  <1>1. ASSUME NEW n \in PacketSizes, sendSignal(Fill(n)) PROVE Enqueues \/ aggQueue' = aggQueue
    <2>1. Fill(n) \in Signals /\ Fill(n).sig # "timeout"
      BY AggregationAssumption, SignalFacts
    <2>2. aggQueue' = Append(aggQueue, Fill(n)) \/ aggQueue' = aggQueue
      BY <1>1 DEF sendSignal
    <2> QED
      BY <2>1, <2>2, Zenon
  <1>2. CASE comPacketQueueIn \/ comStatusIn
    BY <1>0, <1>1, <1>2 DEF comPacketQueueIn, comStatusIn, processQueue
  <1>3. CASE \/ fillWaiting \/ fillIsFull \/ fillWillFill \/ fillMore
             \/ timeoutSend \/ timeoutIgnored \/ statusGood \/ statusBad
    BY <1>0, <1>3 DEF fillWaiting, fillIsFull, fillWillFill, fillMore, timeoutSend,
           timeoutIgnored, statusGood, statusBad, Dispatching
  <1>4. CASE \/ preamble \/ adapterDataIn \/ adapterDataReturn \/ aggDataReturnIn \/ UNCHANGED vars
    BY <1>0, <1>4 DEF preamble, adapterDataIn, adapterDataReturn, aggDataReturnIn, vars
  <1>5. CASE adapterComStatus \/ rgComStatusInit
    <2>1. /\ StatusOf(sendOk) \in Signals /\ StatusOf(sendOk).sig # "timeout"
          /\ Success \in Signals /\ Success.sig # "timeout"
      BY SignalFacts DEF StatusOf
    <2>2. Pending' <= Pending
      BY <1>5 DEF Pending, adapterComStatus, rgComStatusInit
    <2> QED
      BY <1>5, <2>1, <2>2 DEF adapterComStatus, rgComStatusInit, sendSignal
  <1>6. CASE rgTick
    BY <1>6 DEF rgTick, Pending
  <1>7. CASE rgTimeout \/ rgRun \/ rgPoll
    BY <1>7 DEF rgTimeout, rgRun, rgPoll, Pending
  <1>8. CASE rgEnqueue
    BY <1>8 DEF rgEnqueue, Pending, sendSignal
  <1> QED
    BY <1>2, <1>3, <1>4, <1>5, <1>6, <1>7, <1>8
    DEF Next, QueueThread, AggThread, SendChain, RateGroup

(* Waiting and pending timeouts, before and after a step.                  *)
LEMMA CountArithmetic ==
    ASSUME NEW w \in Nat, NEW ww \in Nat, NEW p \in {0, 1}, NEW pp \in {0, 1}, NEW m \in Nat,
           w + p <= m,
           \/ ww <= w /\ pp <= p
           \/ ww = w /\ w < m
           \/ ww <= w + 1 /\ p = 1 /\ pp = 0
    PROVE  ww + pp <= m
  OBVIOUS

(* No step lets more than MaxTimeouts timeouts wait, the pending one       *)
(* included.                                                               *)
LEMMA CountStep == IInv /\ CountInv /\ [Next]_vars => CountInv'
  <1> SUFFICES ASSUME IInv, CountInv, [Next]_vars PROVE CountInv'
    OBVIOUS
  <1>1. /\ WaitingTimeouts = Cardinality(TimeoutsOf(aggQueue))
        /\ WaitingTimeouts' = Cardinality(TimeoutsOf(aggQueue'))
    BY DEF WaitingTimeouts, Timeouts, TimeoutsOf
  <1>2. aggQueue \in Seq(Signals)
    BY DEF IInv, TypeOK
  <1>3. /\ WaitingTimeouts \in Nat /\ MaxTimeouts \in Nat
        /\ Pending \in {0, 1} /\ Pending' \in {0, 1}
        /\ WaitingTimeouts + Pending <= MaxTimeouts
    BY <1>1, <1>2, TimeoutsFinite, QueueAssumption DEF Pending, CountInv
  <1>4. /\ WaitingTimeouts' \in Nat
        /\ \/ WaitingTimeouts' <= WaitingTimeouts /\ Pending' <= Pending
           \/ WaitingTimeouts' = WaitingTimeouts /\ WaitingTimeouts < MaxTimeouts
           \/ WaitingTimeouts' <= WaitingTimeouts + 1 /\ Pending = 1 /\ Pending' = 0
    <2>1. CASE /\ aggQueue' = aggQueue
               /\ Pending' <= Pending \/ WaitingTimeouts < MaxTimeouts
      <3>1. WaitingTimeouts' = WaitingTimeouts
        BY <1>1, <2>1
      <3> QED
        BY <1>3, <2>1, <3>1
    <2>2. CASE Pending' <= Pending /\ aggQueue # <<>> /\ aggQueue' = Tail(aggQueue)
      <3>1. Tail(aggQueue) \in Seq(Signals)
        BY <1>2, <2>2
      <3> QED
        BY <1>1, <1>2, <2>2, <3>1, CountTail, TimeoutsFinite
    <2>3. CASE /\ Pending' <= Pending
               /\ \E x \in Signals : x.sig # "timeout" /\ aggQueue' = Append(aggQueue, x)
      <3>1. WaitingTimeouts' = WaitingTimeouts
        BY <1>1, <1>2, <2>3, CountOther
      <3> QED
        BY <1>3, <2>3, <3>1
    <2>4. CASE Pending = 1 /\ Pending' = 0 /\ aggQueue' = Append(aggQueue, Timeout)
      <3>1. Append(aggQueue, Timeout) \in Seq(Signals)
        BY <1>2, SignalFacts
      <3>2. WaitingTimeouts' <= WaitingTimeouts + 1 /\ WaitingTimeouts' \in Nat
        BY <1>1, <1>2, <2>4, <3>1, CountTimeout, TimeoutsFinite
      <3> QED
        BY <2>4, <3>2
    <2> QED
      BY <2>1, <2>2, <2>3, <2>4, QueueSteps
  <1>5. WaitingTimeouts' + Pending' <= MaxTimeouts
    BY <1>3, <1>4, CountArithmetic
  <1> QED
    BY <1>5 DEF CountInv

(* The inductive invariant holds in every reachable state.                 *)
THEOREM InductiveInvariant == Spec => [](IInv /\ CountInv)
  <1>1. IInv /\ CountInv /\ [Next]_vars => IInv'
    BY StepComPacketQueueIn, StepComStatusIn, StepPreamble, StepFillWaiting,
       StepFillIsFull, StepFillWillFill, StepFillMore, StepTimeoutSend,
       StepTimeoutIgnored, StepStatusGood, StepStatusBad, StepAdapterDataIn,
       StepAdapterDataReturn, StepAdapterComStatus, StepAggDataReturnIn,
       StepRgTick, StepRgTimeout, StepRgEnqueue, StepRgRun, StepRgComStatusInit, StepRgPoll,
       StepStutter
    DEF Next, QueueThread, AggThread, SendChain, RateGroup
  <1>2. Init => CountInv
    <2> SUFFICES ASSUME Init PROVE CountInv
      OBVIOUS
    <2>1. Timeouts = {}
      BY DEF Init, Timeouts
    <2>2. Pending = 0 /\ WaitingTimeouts = 0
      BY <2>1, FS_EmptySet DEF Init, Pending, WaitingTimeouts
    <2> QED
      BY <2>2, QueueAssumption DEF CountInv
  <1> QED
    BY <1>1, <1>2, InitInv, CountStep, PTL DEF Spec

(* Every variable keeps its type; in particular the frame under            *)
(* construction never outgrows ComCfg::AggregationSize (the FW_ASSERT in   *)
(* doFill) and ComQueue's queues keep to their depth.                      *)
THEOREM TypeCorrect == Spec => []TypeOK
  BY InductiveInvariant, PTL DEF IInv

(* None of the modelled FW_ASSERTs fails (NoAssertFailure lists them: the  *)
(* status, hold, ownership and size assertions of ComQueue, ComAggregator  *)
(* and TmFramer, and the aggregator's full queue), whatever the packet     *)
(* sizes up to AggregationSize, the queue depths and the adapter's         *)
(* results.                                                                *)
THEOREM AssertionsHold == Spec => []NoAssertFailure
  BY InductiveInvariant, PTL DEF IInv

(* The upstream permission to send exists exactly once in every state.     *)
THEOREM CreditExactlyOnce == Spec => []CreditConserved
  <1>1. IInv => CreditConserved
    <2> SUFFICES ASSUME IInv PROVE CreditConserved
      OBVIOUS
    <2> DEFINE H == {"preamble", "status", "ready", "fill", "held"}
    <2>1. /\ DOMAIN Credit = H
          /\ Credit["preamble"] = ~preambleRun
          /\ Credit["status"] = (statusIn > 0)
          /\ Credit["ready"] = (m_state = "READY")
          /\ Credit["fill"] = (Fills # {})
          /\ Credit["held"] = (m_held > 0)
      BY DEF Credit
    <2>2. /\ (Fills = {}) <=> NoFill
          /\ \A i, j \in Fills : i = j
      BY DEF IInv, UpInv, Fills, NoFill, UniqueFill, Indices, IsFill
    <2>3. statusIn <= 1
      BY DEF IInv, UpInv
    <2>4. /\ ~preambleRun => ~(statusIn > 0) /\ m_state # "READY" /\ NoFill /\ ~(m_held > 0)
          /\ statusIn > 0 => m_state # "READY" /\ NoFill /\ ~(m_held > 0)
          /\ m_state = "READY" => NoFill /\ ~(m_held > 0)
          /\ m_held > 0 => NoFill
          /\ ~preambleRun \/ statusIn > 0 \/ m_state = "READY" \/ ~NoFill \/ m_held > 0
      BY DEF IInv, UpInv, TypeOK
    <2>5. \E h \in H : \A g \in H : Credit[g] <=> g = h
      <3> DEFINE Only(h) == \A g \in H : Credit[g] <=> g = h
      <3>1. ASSUME ~preambleRun PROVE Only("preamble")
        BY <2>1, <2>2, <2>4, <3>1, Zenon
      <3>2. ASSUME statusIn > 0 PROVE Only("status")
        BY <2>1, <2>2, <2>4, <3>2, Zenon
      <3>3. ASSUME m_state = "READY" PROVE Only("ready")
        BY <2>1, <2>2, <2>4, <3>3, Zenon
      <3>4. ASSUME ~NoFill PROVE Only("fill")
        BY <2>1, <2>2, <2>4, <3>4, Zenon
      <3>5. ASSUME m_held > 0 PROVE Only("held")
        BY <2>1, <2>2, <2>4, <3>5, Zenon
      <3> QED
        BY <2>4, <3>1, <3>2, <3>3, <3>4, <3>5
    <2> QED
      BY <2>1, <2>2, <2>3, <2>5 DEF CreditConserved
  <1> QED
    BY <1>1, InductiveInvariant, PTL

(* A pending status speaks of a frame whose buffer is back in TmFramer.    *)
THEOREM ReturnBeforeStatus == Spec => []StatusAfterReturn
  <1>1. IInv => StatusAfterReturn
    BY DEF IInv, StatusAfterReturn, Statuses, DownInv, BufferInv, TypeOK, Owner, NoStatus,
           Indices, IsStatus
  <1> QED
    BY <1>1, InductiveInvariant, PTL

(* dataIn_handler runs only when the node is up.                           *)
THEOREM NodeUpBeforeData == Spec => []DataInOnlyWhenStarted
  <1>1. IInv => DataInOnlyWhenStarted
    BY DEF IInv, DataInOnlyWhenStarted, DownInv
  <1> QED
    BY <1>1, InductiveInvariant, PTL

-----------------------------------------------------------------------------
(* Steps that leave alone what the adapter's ports show.                   *)
LEMMA QuietStep ==
    ASSUME IInv, \/ comPacketQueueIn \/ QueueThread
                 \/ preamble \/ fillWaiting \/ fillIsFull \/ fillWillFill \/ fillMore
                 \/ timeoutSend \/ timeoutIgnored \/ statusGood \/ statusBad
                 \/ aggDataReturnIn \/ rgTick \/ rgTimeout \/ rgEnqueue \/ rgRun \/ rgPoll
                 \/ UNCHANGED vars
    PROVE  UNCHANGED Com!vars
  <1> USE DEF IInv, Com!vars, LinkState, adapterVars, aggVars, queueVars
  <1>1. CASE comPacketQueueIn
    BY <1>1 DEF comPacketQueueIn
  <1>2. CASE comStatusIn
    BY <1>2 DEF comStatusIn
  <1>3. CASE preamble
    BY <1>3 DEF preamble
  <1>4. CASE fillWaiting
    BY <1>4 DEF fillWaiting
  <1>5. CASE fillIsFull
    BY <1>5 DEF fillIsFull, doSend, Dispatching
  <1>6. CASE fillWillFill
    BY <1>6 DEF fillWillFill, doSend, Dispatching
  <1>7. CASE fillMore
    BY <1>7 DEF fillMore
  <1>8. CASE timeoutSend
    BY <1>8 DEF timeoutSend, doSend, Dispatching
  <1>9. CASE timeoutIgnored
    BY <1>9 DEF timeoutIgnored
  <1>10. CASE statusGood
    BY <1>10 DEF statusGood
  <1>11. CASE statusBad
    BY <1>11 DEF statusBad
  <1>12. CASE aggDataReturnIn
    BY <1>12 DEF aggDataReturnIn
  <1>13. CASE rgTick \/ rgTimeout \/ rgEnqueue
    BY <1>13 DEF rgTick, rgTimeout, rgEnqueue
  <1>14. CASE rgRun
    BY <1>14 DEF rgRun
  <1>15. CASE rgPoll
    BY <1>15 DEF rgPoll
  <1>16. CASE UNCHANGED vars
    BY <1>16 DEF vars
  <1> QED
    BY <1>1, <1>2, <1>3, <1>4, <1>5, <1>6, <1>7, <1>8, <1>9, <1>10, <1>11, <1>12, <1>13, <1>14, <1>15, <1>16 DEF QueueThread

(* Every step of the stack is a step of the Svc.Com protocol or leaves the *)
(* protocol's state alone.                                                 *)
LEMMA ProtocolStep == IInv /\ [Next]_vars => [Com!Next]_(Com!vars)
  <1> SUFFICES ASSUME IInv, [Next]_vars PROVE [Com!Next]_(Com!vars)
    OBVIOUS
  <1> USE DEF LinkState, adapterVars
  <1>1. CASE adapterDataIn
    BY <1>1 DEF IInv, adapterDataIn, DownInv, BufferInv, LinkUp, TypeOK, Owner,
         Com!Next, Com!DataIn
  <1>2. CASE adapterDataReturn
    BY <1>2 DEF IInv, adapterDataReturn, DownInv, BufferInv, LinkUp, Com!Next, Com!DataReturn
  <1>3. CASE adapterComStatus
    BY <1>3 DEF IInv, adapterComStatus, DownInv, BufferInv, LinkUp, Com!Next, Com!Status
  <1>4. CASE rgComStatusInit
    BY <1>4 DEF IInv, rgComStatusInit, DownInv, BufferInv, LinkUp, Com!Next, Com!Startup, Com!vars
  <1> QED
    BY <1>1, <1>2, <1>3, <1>4, QuietStep DEF Next, AggThread, SendChain, RateGroup

(* The stack drives the adapter, and the adapter answers, according to the *)
(* Svc.Com protocol: one SUCCESS at start, dataIn only after a SUCCESS not *)
(* yet used, buffer returned before the one status for it.                 *)
THEOREM ImplementsSvcCom == Spec => ComProtocol
  <1>1. Init => Com!Init
    BY DEF Init, Com!Init, LinkState
  <1> QED
    BY <1>1, ProtocolStep, InductiveInvariant, PTL DEF Spec, ComProtocol, Com!Spec
-----------------------------------------------------------------------------
(* The aggregator's input queue never holds more than one fill, one status *)
(* and MaxTimeouts timeouts: a queue with two places besides the timeouts  *)
(* is deep enough, whatever the packets, the sizes and the adapter's       *)
(* results.                                                                *)
THEOREM QueueDeepEnough == Spec => []AggQueueBounded
  BY QueueLength, InductiveInvariant, PTL
=============================================================================
