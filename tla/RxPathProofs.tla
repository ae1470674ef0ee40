---------------------------- MODULE RxPathProofs ----------------------------
(***************************************************************************)
(* Proofs about RxPath for every pool size, every set of payload lengths   *)
(* and any number of packets: the type invariant and the bound of the      *)
(* queue, that no buffer is lost or returned twice when no payload is      *)
(* empty, and that what is delivered is faithful when packets are paced.   *)
(***************************************************************************)
EXTENDS RxPath, SequenceTheorems, TLAPS

(* run_handler has at most one packet in hand, and where.                  *)
OneInHand ==
    /\ Len(sending) = IF pc = "dataOut" THEN 1 ELSE 0
    /\ Len(m_rxQueue) <= IF pc = "forward" THEN 1 ELSE 0

(* No buffer is returned twice: the pool never exceeds its size.           *)
PoolBounded == free + others + Len(sending) <= PoolSize

TypeInv == TypeOK /\ OneInHand /\ PoolBounded

(* A length the driver reads is that of a packet that arrived.             *)
LengthsKnown ==
    /\ "RX_DONE" \in irq \cup irqRegs => last > 0
    /\ pc = "bufferStatus" => last > 0
    /\ pc = "read" => length \in 1..last
    /\ \A i \in 1..Len(m_rxQueue) : m_rxQueue[i].len \in 1..last

(* The IRQs the last packet raised.                                        *)
Raised == IF air[last].ok THEN {"RX_DONE"} ELSE RxIrqs

(* When packets are paced, an IRQ the host sees or is about to see is that *)
(* of the last packet, and nothing is raised while rxDone runs.            *)
IrqOfLast ==
    /\ irq # {} => last > 0 /\ irq = Raised
    /\ irqRegs # {} => last > 0 /\ irqRegs = Raised
    /\ pc \in {"idle", "get", "forward", "dataOut"} => irqRegs = {}
    /\ pc # "clear" /\ irqRegs # {} => irq = {}
    /\ pc \in {"bufferStatus", "read"} => RxDone(irqRegs)
    /\ pc = "read" => length = last

(* A faithful packet among those received: its own length and bytes, a     *)
(* good CRC; and a packet whose IRQ is pending is later than it.           *)
Faithful(p, received, pending) ==
    /\ p.len = p.data
    /\ p.data \in 1..Len(received)
    /\ received[p.data].ok
    /\ pending # {} => p.data < Len(received)

AllFaithful(s) == \A i \in 1..Len(s) : Faithful(s[i], air, irq \cup irqRegs)

Before(s, t) == \A i \in 1..Len(s), j \in 1..Len(t) : s[i].data < t[j].data

(* Every packet in hand or delivered is faithful, and they are in order.   *)
InOrder ==
    /\ AllFaithful(m_rxQueue) /\ AllFaithful(sending) /\ AllFaithful(delivered)
    /\ \A i, j \in 1..Len(delivered) : i < j => delivered[i].data < delivered[j].data
    /\ Before(delivered, sending) /\ Before(delivered, m_rxQueue)

PacedInv == paced => IrqOfLast /\ InOrder

-----------------------------------------------------------------------------
(* A queue of at most one packet is emptied by taking its head.            *)
LEMMA OnePacket ==
    ASSUME NEW S, NEW q \in Seq(S), q # <<>>, Len(q) <= 1
    PROVE  /\ Len(q) = 1 /\ Head(q) \in S /\ Head(q) = q[1]
           /\ Tail(q) \in Seq(S) /\ Len(Tail(q)) = 0
<1>1. Len(q) \in Nat \ {0}
  BY EmptySeq
<1>2. Len(q) = 1
  BY <1>1
<1>3. Head(q) \in S /\ Tail(q) \in Seq(S) /\ Len(Tail(q)) = Len(q) - 1
  BY HeadTailProperties
<1>4. Head(q) = q[1]
  BY <1>2
<1> QED
  BY <1>2, <1>3, <1>4

(* A get or a return by another client, and a dropped buffer, stay within  *)
(* the pool.                                                               *)
LEMMA PoolMoves ==
    ASSUME NEW f \in 0..PoolSize, NEW o \in 0..PoolSize, NEW n \in 0..1,
           f + o + n <= PoolSize
    PROVE  /\ f > 0 => /\ f - 1 \in 0..PoolSize /\ o + 1 \in 0..PoolSize
                       /\ (f - 1) + (o + 1) + n <= PoolSize
           /\ o > 0 => /\ f + 1 \in 0..PoolSize /\ o - 1 \in 0..PoolSize
                       /\ (f + 1) + (o - 1) + n <= PoolSize
           /\ \A g \in 0..PoolSize : g <= f => g + o + n <= PoolSize
BY PoolAssumption

(* Every step keeps the types, one packet in hand and the pool's bound;    *)
(* the three are inductive only together.                                  *)
LEMMA TypeStep == TypeInv /\ [Next]_vars => TypeInv'
<1> SUFFICES ASSUME TypeInv, [Next]_vars PROVE TypeInv'
  OBVIOUS
<1> USE PoolAssumption, PacedAssumption
<1> USE DEF TypeInv, TypeOK, OneInHand, PoolBounded, Numbers, chipVars, poolVars
<1>0. /\ free \in 0..PoolSize /\ others \in 0..PoolSize
      /\ Len(sending) \in 0..1
      /\ free + others + Len(sending) <= PoolSize
  OBVIOUS
<1>q. ASSUME m_rxQueue # <<>>, pc = "forward"
      PROVE  /\ Len(m_rxQueue) = 1 /\ Head(m_rxQueue) \in Packet
             /\ Tail(m_rxQueue) \in Seq(Packet) /\ Len(Tail(m_rxQueue)) = 0
  <2>1. m_rxQueue \in Seq(Packet) /\ Len(m_rxQueue) <= 1
    BY <1>q
  <2> QED
    BY <1>q, <2>1, OnePacket
<1>1. CASE Receive
  <2>1. PICK ok \in BOOLEAN, len \in Lengths : chipReceive(ok, len)
    BY <1>1 DEF Receive
  <2>2. /\ air' \in Seq([ok : BOOLEAN, len : Lengths])
        /\ Len(air') \in 0..MaxPackets
    BY <2>1 DEF chipReceive, last
  <2>3. irq' \subseteq RxIrqs
    BY <2>1 DEF chipReceive, RxIrqs
  <2> QED
    BY <2>1, <2>2, <2>3 DEF chipReceive
<1>2. CASE run
  BY <1>2 DEF run
<1>3. CASE pollGetIrq
  BY <1>3 DEF pollGetIrq
<1>4. CASE pollClearIrq
  <2>1. wiped' \subseteq 0..MaxPackets
    BY <1>4 DEF pollClearIrq, last
  <2> QED
    BY <1>4, <2>1 DEF pollClearIrq
<1>5. CASE pollDispatch
  BY <1>5 DEF pollDispatch
<1>6. CASE getRxBufferStatus
  BY <1>6 DEF getRxBufferStatus, last
<1>7. CASE readBuffer
  <2> DEFINE p == [len |-> length,
                   data |-> IF air[length].len > 0 THEN last ELSE length]
  <2>1. p \in Packet
    BY DEF Packet, last
  <2>2. m_rxQueue' = Append(m_rxQueue, p)
    BY <1>7 DEF readBuffer
  <2> HIDE DEF p
  <2>3. m_rxQueue' \in Seq(Packet) /\ Len(m_rxQueue') = 1
    BY <1>7, <2>1, <2>2 DEF readBuffer
  <2> QED
    BY <1>7, <2>3 DEF readBuffer
<1>8. CASE forwardAllocate
  <2>1. /\ Len(m_rxQueue) = 1
        /\ Head(m_rxQueue) \in Packet
        /\ Tail(m_rxQueue) \in Seq(Packet) /\ Len(Tail(m_rxQueue)) = 0
    BY <1>8, <1>q DEF forwardAllocate
  <2>2. sending' \in Seq(Packet) /\ Len(sending') = 1
    BY <1>8, <2>1 DEF forwardAllocate
  <2>3. free > 0 /\ free' = free - 1
    BY <1>8 DEF forwardAllocate, Allocated, bufferGetCallee
  <2> QED
    BY <1>8, <2>1, <2>2, <2>3 DEF forwardAllocate
<1>9. CASE forwardDrop
  <2>0. /\ pc = "forward" /\ pc' = pc
        /\ m_rxQueue # <<>> /\ m_rxQueue' = Tail(m_rxQueue)
        /\ UNCHANGED <<paced, air, irq, irqRegs, length, sending, others, delivered, wiped>>
    BY <1>9 DEF forwardDrop
  <2>1. /\ Len(m_rxQueue) = 1
        /\ Head(m_rxQueue) \in Packet
        /\ Tail(m_rxQueue) \in Seq(Packet) /\ Len(Tail(m_rxQueue)) = 0
    BY <2>0, <1>q
  <2>2. dropped' \subseteq Packet
    BY <1>9, <2>1 DEF forwardDrop
  <2>3. free' \in 0..PoolSize /\ free' <= free
    BY <1>9 DEF forwardDrop, bufferGetCallee
  <2>4. PoolBounded'
    <3>1. free' + others + Len(sending) <= PoolSize
      BY <1>0, <2>3, PoolMoves
    <3> QED
      BY <2>0, <3>1
  <2>5. OneInHand'
    BY <2>0, <2>1
  <2>6. TypeOK'
    BY <2>0, <2>1, <2>2, <2>3
  <2> HIDE DEF TypeOK, OneInHand, PoolBounded
  <2> QED
    BY <2>4, <2>5, <2>6
<1>10. CASE dataOut
  <2>1. delivered' \in Seq(Packet)
    BY <1>10 DEF dataOut
  <2>2. sending' \in Seq(Packet) /\ Len(sending') = 0
    BY <1>10 DEF dataOut
  <2>3. free' = free + 1
    BY <1>10 DEF dataOut, bufferSendIn
  <2> QED
    BY <1>10, <2>1, <2>2, <2>3 DEF dataOut
<1>11. CASE forwardDone
  BY <1>11 DEF forwardDone
<1>12. CASE otherGet
  <2>1. free > 0 /\ free' = free - 1 /\ others' = others + 1
    BY <1>12 DEF otherGet, bufferGetCallee
  <2>2. UNCHANGED <<chipVars, pc, irqRegs, length, m_rxQueue, sending, delivered, dropped, wiped>>
    BY <1>12 DEF otherGet
  <2>3. free' \in 0..PoolSize /\ others' \in 0..PoolSize /\ PoolBounded'
    BY <1>0, <2>1, <2>2, PoolMoves
  <2> QED
    BY <2>2, <2>3
<1>13. CASE otherReturn
  <2>1. others > 0 /\ free' = free + 1 /\ others' = others - 1
    BY <1>13 DEF otherReturn, bufferSendIn
  <2>2. UNCHANGED <<chipVars, pc, irqRegs, length, m_rxQueue, sending, delivered, dropped, wiped>>
    BY <1>13 DEF otherReturn
  <2>3. free' \in 0..PoolSize /\ others' \in 0..PoolSize /\ PoolBounded'
    BY <1>0, <2>1, <2>2, PoolMoves
  <2> QED
    BY <2>2, <2>3
<1>14. CASE UNCHANGED vars
  BY <1>14 DEF vars
<1> QED
  BY <1>1, <1>2, <1>3, <1>4, <1>5, <1>6, <1>7, <1>8, <1>9, <1>10, <1>11, <1>12, <1>13, <1>14
  DEF Next, Poll, Forward, Others

(* The state after LoRaNode::start.                                        *)
LEMMA TypeInit == Init => TypeInv
<1> SUFFICES ASSUME Init PROVE TypeInv
  OBVIOUS
<1> USE PoolAssumption, PacedAssumption DEF Init
<1>1. TypeOK
  BY DEF TypeOK, Numbers
<1>2. OneInHand /\ PoolBounded
  BY DEF OneInHand, PoolBounded
<1> QED
  BY <1>1, <1>2 DEF TypeInv

(* The type invariant of the uplink.                                       *)
THEOREM TypeCorrect == Spec => []TypeOK
<1>1. TypeInv => TypeOK
  BY DEF TypeInv
<1> QED
  BY <1>1, TypeInit, TypeStep, PTL DEF Spec

(* The adapter's deque holds at most one packet and is empty between two   *)
(* ticks, for any arrivals.                                                *)
THEOREM QueueBounded == Spec => []QueueDrained
<1>1. TypeInv => QueueDrained
  <2> SUFFICES ASSUME TypeInv PROVE QueueDrained
    OBVIOUS
  <2>1. Len(m_rxQueue) + Len(sending) <= 1
    BY DEF TypeInv, TypeOK, OneInHand
  <2>2. pc = "idle" => m_rxQueue = <<>>
    BY DEF TypeInv, TypeOK, OneInHand
  <2> QED
    BY <2>1, <2>2 DEF QueueDrained
<1> QED
  BY <1>1, TypeInit, TypeStep, PTL DEF Spec
-----------------------------------------------------------------------------
(* Every step keeps the lengths known: they come from packets that arrived, *)
(* and packets only arrive.                                                *)
LEMMA LengthsStep == TypeInv /\ LengthsKnown /\ [Next]_vars => LengthsKnown'
<1> SUFFICES ASSUME TypeInv, LengthsKnown, [Next]_vars PROVE LengthsKnown'
  OBVIOUS
<1>0. /\ last \in Nat /\ m_rxQueue \in Seq(Packet)
      /\ pc = "read" => Len(m_rxQueue) = 0
  BY DEF TypeInv, TypeOK, OneInHand, last
<1> USE <1>0 DEF LengthsKnown, chipVars, poolVars
<1>1. CASE Receive
  <2>1. PICK ok \in BOOLEAN, len \in Lengths : chipReceive(ok, len)
    BY <1>1 DEF Receive
  <2>2. last' = last + 1
    BY <2>1 DEF chipReceive, last, TypeInv, TypeOK
  <2>3. UNCHANGED <<pc, length, m_rxQueue>>
    BY <2>1 DEF chipReceive
  <2> QED
    BY <2>2, <2>3
<1>2. CASE run \/ pollClearIrq \/ forwardDone
  BY <1>2 DEF run, pollClearIrq, forwardDone, last
<1>3. CASE pollGetIrq
  BY <1>3 DEF pollGetIrq, last
<1>4. CASE pollDispatch
  BY <1>4 DEF pollDispatch, RxDone, last
<1>5. CASE getRxBufferStatus
  <2>1. last' = last
    BY <1>5 DEF getRxBufferStatus, last
  <2> QED
    BY <1>5, <2>1 DEF getRxBufferStatus
<1>6. CASE readBuffer
  <2> DEFINE p == [len |-> length,
                   data |-> IF air[length].len > 0 THEN last ELSE length]
  <2>1. p \in Packet
    BY DEF Packet, TypeInv, TypeOK, last
  <2>2. m_rxQueue' = Append(m_rxQueue, p) /\ p.len = length
    BY <1>6 DEF readBuffer
  <2> HIDE DEF p
  <2>3. Len(m_rxQueue') = 1 /\ m_rxQueue'[1] = p
    BY <1>6, <2>1, <2>2 DEF readBuffer
  <2>4. last' = last /\ irq' = irq /\ irqRegs' = {} /\ pc' = "forward"
    BY <1>6 DEF readBuffer, last
  <2>5. pc = "read"
    BY <1>6 DEF readBuffer
  <2> QED
    BY <2>2, <2>3, <2>4, <2>5
<1>7. CASE forwardAllocate \/ forwardDrop
  <2>1. Len(Tail(m_rxQueue)) = 0
    BY <1>7, OnePacket DEF forwardAllocate, forwardDrop, TypeInv, TypeOK, OneInHand
  <2> QED
    BY <1>7, <2>1 DEF forwardAllocate, forwardDrop, last
<1>8. CASE dataOut \/ otherGet \/ otherReturn
  BY <1>8 DEF dataOut, otherGet, otherReturn, last
<1>9. CASE UNCHANGED vars
  BY <1>9 DEF vars, last
<1> QED
  BY <1>1, <1>2, <1>3, <1>4, <1>5, <1>6, <1>7, <1>8, <1>9
  DEF Next, Poll, Forward, Others

(* When no payload is empty the adapter gives every buffer it gets to      *)
(* dataOut and gets it back: for any pool, any arrivals and any other      *)
(* clients, no buffer is lost.  RxLeak shows the hypothesis is needed.     *)
THEOREM PoolConserved ==
    ASSUME 0 \notin Lengths
    PROVE  Spec => []BuffersReturned
<1> DEFINE I == TypeInv /\ LengthsKnown /\ BuffersReturned
<1>1. Init => I
  <2>1. Init => LengthsKnown /\ BuffersReturned
    BY PoolAssumption DEF Init, LengthsKnown, BuffersReturned
  <2> QED
    BY <2>1, TypeInit
<1>2. I /\ [Next]_vars => I'
  <2> SUFFICES ASSUME I, [Next]_vars PROVE BuffersReturned'
    BY TypeStep, LengthsStep
  <2>0. /\ free \in 0..PoolSize /\ others \in 0..PoolSize /\ PoolSize \in Nat
        /\ Len(sending) = IF pc = "dataOut" THEN 1 ELSE 0
        /\ Len(sending) \in 0..1
        /\ free + others + Len(sending) = PoolSize
    BY PoolAssumption DEF TypeInv, TypeOK, OneInHand, BuffersReturned
  <2>1. CASE forwardAllocate
    <3>1. free > 0 /\ free' = free - 1 /\ others' = others /\ pc = "forward"
      BY <2>0, <2>1 DEF forwardAllocate, Allocated, bufferGetCallee
    <3>2. Len(sending') = 1
      BY <2>1 DEF forwardAllocate
    <3> QED
      BY <2>0, <3>1, <3>2 DEF BuffersReturned
  <2>2. CASE forwardDrop
    <3>1. Head(m_rxQueue).len \in 1..Len(air)
      BY <2>2, OnePacket DEF forwardDrop, LengthsKnown, TypeInv, TypeOK, OneInHand, last
    <3>2. Needed \in Lengths
      <4> DEFINE k == Head(m_rxQueue).len
      <4>1. air \in Seq([ok : BOOLEAN, len : Lengths])
        BY DEF TypeInv, TypeOK
      <4>2. \A i \in 1..Len(air) : air[i] \in [ok : BOOLEAN, len : Lengths]
        BY <4>1, ElementOfSeq
      <4>3. air[k] \in [ok : BOOLEAN, len : Lengths]
        BY <3>1, <4>2
      <4> QED
        BY <4>3 DEF Needed
    <3>3. Needed > 0
      BY <3>2, PoolAssumption
    <3>4. free = 0
      BY <2>0, <2>2, <3>3 DEF forwardDrop, Allocated
    <3>5. free' = free /\ others' = others /\ sending' = sending
      BY <2>2, <3>4 DEF forwardDrop, bufferGetCallee
    <3> QED
      BY <2>0, <3>5 DEF BuffersReturned
  <2>3. CASE dataOut
    <3>1. free' = free + 1 /\ others' = others /\ pc = "dataOut"
      BY <2>3 DEF dataOut, bufferSendIn
    <3>2. Len(sending') = 0
      BY <2>3 DEF dataOut
    <3> QED
      BY <2>0, <3>1, <3>2 DEF BuffersReturned
  <2>4. CASE otherGet
    <3>1. free' = free - 1 /\ others' = others + 1 /\ sending' = sending
      BY <2>0, <2>4 DEF otherGet, bufferGetCallee
    <3>2. (free - 1) + (others + 1) + Len(sending) = PoolSize
      BY <2>0
    <3> QED
      BY <3>1, <3>2 DEF BuffersReturned
  <2>5. CASE otherReturn
    <3>1. free' = free + 1 /\ others' = others - 1 /\ sending' = sending
      BY <2>0, <2>5 DEF otherReturn, bufferSendIn
    <3>2. (free + 1) + (others - 1) + Len(sending) = PoolSize
      BY <2>0
    <3> QED
      BY <3>1, <3>2 DEF BuffersReturned
  <2>6. CASE Receive \/ Poll \/ forwardDone \/ UNCHANGED vars
    <3>1. UNCHANGED <<free, others, sending>>
      BY <2>6 DEF Receive, chipReceive, Poll, run, pollGetIrq, pollClearIrq, pollDispatch,
                  getRxBufferStatus, readBuffer, forwardDone, vars, poolVars
    <3> QED
      BY <3>1 DEF BuffersReturned
  <2> QED
    BY <2>1, <2>2, <2>3, <2>4, <2>5, <2>6 DEF Next, Forward, Others
<1> QED
  BY <1>1, <1>2, PTL DEF Spec
-----------------------------------------------------------------------------
(* When packets are paced, every step keeps the IRQs those of the last     *)
(* packet.                                                                 *)
LEMMA IrqStep == TypeInv /\ paced /\ IrqOfLast /\ [Next]_vars => IrqOfLast'
<1> SUFFICES ASSUME TypeInv, paced, IrqOfLast, [Next]_vars PROVE IrqOfLast'
  OBVIOUS
<1>0. /\ air \in Seq([ok : BOOLEAN, len : Lengths]) /\ last \in Nat
      /\ irq \subseteq RxIrqs /\ irqRegs \subseteq RxIrqs
      /\ "RX_DONE" \in Raised
  BY DEF TypeInv, TypeOK, last, Raised, RxIrqs
<1> USE <1>0 DEF IrqOfLast, chipVars, poolVars
<1>1. CASE Receive
  <2>1. PICK ok \in BOOLEAN, len \in Lengths : chipReceive(ok, len)
    BY <1>1 DEF Receive
  <2>2. irq = {} /\ irqRegs = {} /\ irqRegs' = {}
    BY <2>1 DEF chipReceive
  <2>3. last' = last + 1 /\ air'[last'] = [ok |-> ok, len |-> len]
    BY <2>1 DEF chipReceive, last
  <2>4. irq' = Raised'
    <3>1. irq' = IF ok THEN {"RX_DONE"} ELSE RxIrqs
      BY <2>1, <2>2 DEF chipReceive
    <3>2. air'[last'].ok = ok
      BY <2>3
    <3> QED
      BY <3>1, <3>2 DEF Raised
  <2>5. pc' = pc /\ length' = length
    BY <2>1 DEF chipReceive
  <2>6. pc \notin {"bufferStatus", "read"}
    BY <2>2 DEF RxDone
  <2> QED
    BY <2>2, <2>3, <2>4, <2>5, <2>6
<1>2. CASE run
  BY <1>2 DEF run, last, Raised
<1>3. CASE pollGetIrq
  BY <1>3 DEF pollGetIrq, last, Raised
<1>4. CASE pollClearIrq
  BY <1>4 DEF pollClearIrq, last, Raised
<1>5. CASE pollDispatch
  BY <1>5 DEF pollDispatch, last, Raised, RxDone
<1>6. CASE getRxBufferStatus
  BY <1>6 DEF getRxBufferStatus, last, Raised
<1>7. CASE readBuffer
  BY <1>7 DEF readBuffer, last, Raised
<1>8. CASE forwardAllocate \/ forwardDrop \/ dataOut \/ forwardDone
  BY <1>8 DEF forwardAllocate, forwardDrop, dataOut, forwardDone, last, Raised
<1>9. CASE otherGet \/ otherReturn \/ UNCHANGED vars
  BY <1>9 DEF otherGet, otherReturn, vars, last, Raised
<1> QED
  BY <1>1, <1>2, <1>3, <1>4, <1>5, <1>6, <1>7, <1>8, <1>9
  DEF Next, Poll, Forward, Others

(* A packet stays faithful when another one arrives.                       *)
LEMMA FaithfulGrows ==
    ASSUME NEW S, NEW a \in Seq(S), NEW r \in S, NEW p, NEW T, NEW U,
           Faithful(p, a, T)
    PROVE  Faithful(p, Append(a, r), U)
<1>1. Len(Append(a, r)) = Len(a) + 1 /\ Len(a) \in Nat
  OBVIOUS
<1>2. Append(a, r)[p.data] = a[p.data]
  BY AppendProperties DEF Faithful
<1> QED
  BY <1>1, <1>2 DEF Faithful

(* Every step keeps what is delivered and in hand faithful and in order:   *)
(* rxDone reads the length and the bytes of the packet whose IRQ was read. *)
LEMMA OrderStep ==
    TypeInv /\ paced /\ IrqOfLast /\ InOrder /\ [Next]_vars => InOrder'
<1> SUFFICES ASSUME TypeInv, paced, IrqOfLast, InOrder, [Next]_vars PROVE InOrder'
  OBVIOUS
<1>0. /\ air \in Seq([ok : BOOLEAN, len : Lengths]) /\ last \in Nat
      /\ m_rxQueue \in Seq(Packet) /\ sending \in Seq(Packet)
      /\ delivered \in Seq(Packet)
  BY DEF TypeInv, TypeOK, last
<1>1. CASE Receive
  <2>1. PICK ok \in BOOLEAN, len \in Lengths : chipReceive(ok, len)
    BY <1>1 DEF Receive
  <2>2. air' = Append(air, [ok |-> ok, len |-> len])
        /\ UNCHANGED <<m_rxQueue, sending, delivered>>
    BY <2>1 DEF chipReceive
  <2>3. \A p : Faithful(p, air, irq \cup irqRegs) => Faithful(p, air', (irq \cup irqRegs)')
    BY <1>0, <2>2, FaithfulGrows
  <2> QED
    BY <2>2, <2>3 DEF InOrder, AllFaithful, Before
<1>2. CASE run \/ pollGetIrq \/ pollClearIrq \/ pollDispatch \/ getRxBufferStatus
           \/ forwardDone \/ otherGet \/ otherReturn \/ UNCHANGED vars
  <2>1. /\ UNCHANGED <<air, m_rxQueue, sending, delivered>>
        /\ (irq \cup irqRegs)' # {} => irq \cup irqRegs # {}
    BY <1>2 DEF run, pollGetIrq, pollClearIrq, pollDispatch, getRxBufferStatus,
                forwardDone, otherGet, otherReturn, vars, chipVars
  <2> QED
    BY <2>1 DEF InOrder, AllFaithful, Before, Faithful
<1>3. CASE readBuffer
  <2> DEFINE p == [len |-> length,
                   data |-> IF air[length].len > 0 THEN last ELSE length]
  <2>1. length = last /\ RxDone(irqRegs) /\ irq = {}
    BY <1>3 DEF readBuffer, IrqOfLast, RxDone
  <2>2. last > 0 /\ air[last].ok
    BY <2>1 DEF IrqOfLast, RxDone, Raised, RxIrqs
  <2>3. p \in Packet /\ p.len = last /\ p.data = last
    BY <2>1 DEF Packet, TypeInv, TypeOK, last
  <2>4. /\ m_rxQueue' = Append(m_rxQueue, p)
        /\ UNCHANGED <<air, sending, delivered>>
        /\ (irq \cup irqRegs)' = {}
    BY <1>3, <2>1 DEF readBuffer, chipVars
  <2> HIDE DEF p
  <2>5. Len(m_rxQueue) = 0 /\ Len(sending) = 0
    BY <1>3, <1>0 DEF readBuffer, TypeInv, OneInHand
  <2>6. Len(m_rxQueue') = 1 /\ m_rxQueue'[1] = p
    BY <1>0, <2>3, <2>4, <2>5
  <2>7. Faithful(p, air', (irq \cup irqRegs)')
    BY <1>0, <2>2, <2>3, <2>4 DEF Faithful, last
  <2>8. \A i \in 1..Len(delivered) : delivered[i].data < p.data
    BY <2>1, <2>3 DEF InOrder, AllFaithful, Faithful, RxDone, last
  <2>9. AllFaithful(delivered)' /\ AllFaithful(sending)'
    BY <2>4 DEF InOrder, AllFaithful, Faithful
  <2>10. AllFaithful(m_rxQueue)' /\ Before(delivered, m_rxQueue)'
    BY <2>4, <2>6, <2>7, <2>8 DEF AllFaithful, Before
  <2> QED
    BY <2>4, <2>9, <2>10 DEF InOrder, Before
<1>4. CASE forwardAllocate
  <2>1. Len(m_rxQueue) = 1 /\ Head(m_rxQueue) = m_rxQueue[1] /\ Len(Tail(m_rxQueue)) = 0
    BY <1>0, <1>4, OnePacket DEF forwardAllocate, TypeInv, OneInHand
  <2>2. /\ Len(sending') = 1 /\ sending'[1] = m_rxQueue[1]
        /\ Len(m_rxQueue') = 0
        /\ UNCHANGED <<air, irq, irqRegs, delivered>>
    BY <1>4, <2>1 DEF forwardAllocate, chipVars
  <2>3. /\ \A i \in 1..Len(sending') : sending'[i] = m_rxQueue[1]
        /\ \A i : i \notin 1..Len(m_rxQueue')
        /\ 1 \in 1..Len(m_rxQueue)
    BY <2>1, <2>2
  <2>4. AllFaithful(m_rxQueue)' /\ AllFaithful(sending)' /\ AllFaithful(delivered)'
    BY <2>2, <2>3 DEF InOrder, AllFaithful
  <2>5. Before(delivered, sending)' /\ Before(delivered, m_rxQueue)'
    BY <2>2, <2>3 DEF InOrder, Before
  <2> QED
    BY <2>2, <2>4, <2>5 DEF InOrder
<1>5. CASE forwardDrop
  <2>1. Len(Tail(m_rxQueue)) = 0
    BY <1>0, <1>5, OnePacket DEF forwardDrop, TypeInv, OneInHand
  <2>2. /\ Len(m_rxQueue') = 0
        /\ UNCHANGED <<air, irq, irqRegs, sending, delivered>>
    BY <1>5, <2>1 DEF forwardDrop, chipVars
  <2>3. \A i : i \notin 1..Len(m_rxQueue')
    BY <2>2
  <2> QED
    BY <2>2, <2>3 DEF InOrder, AllFaithful, Before
<1>6. CASE dataOut
  <2>1. Len(sending) = 1 /\ Len(m_rxQueue) = 0
    BY <1>0, <1>6 DEF dataOut, TypeInv, OneInHand
  <2>2. /\ Len(delivered') = Len(delivered) + 1 /\ Len(delivered) \in Nat
        /\ \A i \in 1..(Len(delivered) + 1) :
               delivered'[i] = IF i <= Len(delivered) THEN delivered[i] ELSE sending[1]
    <3>1. delivered' = delivered \o sending
      BY <1>6 DEF dataOut
    <3>2. /\ Len(delivered \o sending) = Len(delivered) + 1 /\ Len(delivered) \in Nat
          /\ \A i \in 1..(Len(delivered) + 1) : (delivered \o sending)[i] =
                 IF i <= Len(delivered) THEN delivered[i] ELSE sending[i - Len(delivered)]
      <4>1. Len(delivered) \in Nat
        BY <1>0
      <4>2. /\ Len(delivered \o sending) = Len(delivered) + Len(sending)
            /\ \A i \in 1..(Len(delivered) + Len(sending)) : (delivered \o sending)[i] =
                   IF i <= Len(delivered) THEN delivered[i] ELSE sending[i - Len(delivered)]
        BY <1>0, ConcatProperties, ZenonT(30)
      <4> QED
        BY <2>1, <4>1, <4>2
    <3>3. \A i \in 1..(Len(delivered) + 1) :
              i <= Len(delivered) \/ i - Len(delivered) = 1
      BY <3>2
    <3> QED
      BY <3>1, <3>2, <3>3
  <2>3. /\ Len(sending') = 0 /\ Len(m_rxQueue') = 0
        /\ UNCHANGED <<air, irq, irqRegs>>
    BY <1>6, <2>1 DEF dataOut, chipVars
  <2>4. \A i \in 1..Len(delivered') :
            \/ i \in 1..Len(delivered) /\ delivered'[i] = delivered[i]
            \/ i = Len(delivered) + 1 /\ delivered'[i] = sending[1]
    BY <2>2
  <2>5. 1 \in 1..Len(sending)
    BY <2>1
  <2>6. AllFaithful(delivered)'
    BY <2>3, <2>4, <2>5 DEF InOrder, AllFaithful
  <2>7. ASSUME NEW i \in 1..Len(delivered'), NEW j \in 1..Len(delivered'), i < j
        PROVE  delivered'[i].data < delivered'[j].data
    <3>1. i \in 1..Len(delivered) /\ delivered'[i] = delivered[i]
      BY <2>2, <2>7
    <3>2. CASE j \in 1..Len(delivered) /\ delivered'[j] = delivered[j]
      BY <2>7, <3>1, <3>2 DEF InOrder
    <3>3. CASE j = Len(delivered) + 1 /\ delivered'[j] = sending[1]
      BY <2>5, <3>1, <3>3 DEF InOrder, Before
    <3> QED
      BY <2>4, <3>2, <3>3
  <2>8. (\A i : i \notin 1..Len(sending')) /\ (\A i : i \notin 1..Len(m_rxQueue'))
    BY <2>3
  <2>9. AllFaithful(m_rxQueue)' /\ AllFaithful(sending)'
        /\ Before(delivered, sending)' /\ Before(delivered, m_rxQueue)'
    BY <2>8 DEF AllFaithful, Before
  <2> QED
    BY <2>6, <2>7, <2>9 DEF InOrder
<1> QED
  BY <1>1, <1>2, <1>3, <1>4, <1>5, <1>6
  DEF Next, Poll, Forward, Others

(* When every packet is served before the next arrives, what reaches the   *)
(* stack is faithful, for any number of packets, of any length, good or    *)
(* bad, and whatever the pool refuses.                                     *)
THEOREM PacedFaithful == Spec => []FaithfulWhenPaced
<1>1. Init => TypeInv /\ PacedInv
  <2>1. Init => PacedInv
    BY DEF Init, PacedInv, IrqOfLast, InOrder, AllFaithful, Before
  <2> QED
    BY <2>1, TypeInit
<1>2. TypeInv /\ PacedInv /\ [Next]_vars => TypeInv' /\ PacedInv'
  <2> SUFFICES ASSUME TypeInv, PacedInv, [Next]_vars PROVE PacedInv'
    BY TypeStep
  <2>1. paced' = paced
    BY DEF Next, Receive, Poll, Forward, Others, chipReceive, run, pollGetIrq, pollClearIrq,
           pollDispatch, getRxBufferStatus, readBuffer, forwardAllocate, forwardDrop, dataOut,
           forwardDone, otherGet, otherReturn, vars, chipVars
  <2> QED
    BY <2>1, IrqStep, OrderStep DEF PacedInv
<1>3. TypeInv /\ PacedInv => FaithfulWhenPaced
  <2> SUFFICES ASSUME TypeInv, PacedInv, paced PROVE DeliveredFaithfully
    BY DEF FaithfulWhenPaced
  <2>1. \A i \in 1..Len(delivered) :
            delivered[i].len = delivered[i].data /\ air[delivered[i].data].ok
    BY DEF PacedInv, InOrder, AllFaithful, Faithful
  <2>2. \A i, j \in 1..Len(delivered) : delivered[i].data = delivered[j].data => i = j
    BY DEF PacedInv, InOrder, AllFaithful, Faithful, TypeInv, TypeOK
  <2> QED
    BY <2>1, <2>2 DEF DeliveredFaithfully
<1> QED
  BY <1>1, <1>2, <1>3, PTL DEF Spec
=============================================================================
