------------------------------- MODULE RxPath -------------------------------
(***************************************************************************)
(* The uplink: the receive radio of a LoRaNode in continuous reception,    *)
(* LoRaNode::poll (SX128x::ProcessIrqs and the rxDone callback), the       *)
(* forwarding loop of LoRaRadioAdapter::run_handler and the pool of        *)
(* commsBufferManager, which other clients use on their own threads.       *)
(*                                                                         *)
(* All of run_handler is one thread; the chip receives at any time, so     *)
(* every SPI command of the poll is a step of its own.  Packets are        *)
(* numbered in the order they arrive.  The HEADER IRQs have no callback    *)
(* and the RSSI is not forwarded, so neither is modelled.                  *)
(***************************************************************************)
EXTENDS Naturals, Sequences

CONSTANTS
    Lengths,        \* payload lengths of arriving packets, 0 for an empty one
    PoolSize,       \* buffers of commsBufferManager
    Pacings,        \* values of paced considered
    MaxPackets      \* bound: packets that arrive in a behaviour

ASSUME PoolAssumption  == PoolSize \in Nat \ {0} /\ Lengths \subseteq Nat /\ Lengths # {}
ASSUME PacedAssumption == Pacings \subseteq BOOLEAN /\ MaxPackets \in Nat

VARIABLES
    paced,          \* external: packets arrive only after the previous one was
                    \* served; never changes
    air,            \* external: packets received so far, [ok, len]; ok is the CRC
    irq,            \* external: the chip's IRQ status
    pc,             \* next step of run_handler
    irqRegs,        \* ProcessIrqs' local copy of the IRQ status
    length,         \* rxDone: the packet whose length and offset were read
    m_rxQueue,      \* packets read, [len, data]: whose length, whose bytes
    sending,        \* packets inside dataOut, at most one
    free,           \* buffers of the pool that are not allocated
    others,         \* buffers allocated to other clients
    delivered,      \* history: packets handed to the stack
    dropped,        \* history: packets dropped by the adapter
    wiped           \* history: packets whose RX_DONE a poll cleared unread

chipVars == <<paced, air, irq>>
poolVars == <<free, others>>
vars == <<chipVars, pc, irqRegs, length, m_rxQueue, sending, poolVars, delivered, dropped, wiped>>

RxIrqs  == {"RX_DONE", "CRC_ERROR"}
Numbers == 0..MaxPackets
Packet  == [len : Numbers, data : Numbers]

TypeOK ==
    /\ paced \in Pacings
    /\ air \in Seq([ok : BOOLEAN, len : Lengths]) /\ Len(air) \in Numbers
    /\ irq \subseteq RxIrqs
    /\ pc \in {"idle", "get", "clear", "dispatch", "bufferStatus", "read", "forward", "dataOut"}
    /\ irqRegs \subseteq RxIrqs
    /\ length \in Numbers
    /\ m_rxQueue \in Seq(Packet)
    /\ sending \in Seq(Packet)
    /\ free \in 0..PoolSize
    /\ others \in 0..PoolSize
    /\ delivered \in Seq(Packet)
    /\ dropped \subseteq Packet
    /\ wiped \subseteq Numbers

(* The state after LoRaNode::start: the chip listens, all buffers are free. *)
Init ==
    /\ paced \in Pacings
    /\ air = <<>>
    /\ irq = {}
    /\ pc = "idle"
    /\ irqRegs = {}
    /\ length = 0
    /\ m_rxQueue = <<>>
    /\ sending = <<>>
    /\ free = PoolSize
    /\ others = 0
    /\ delivered = <<>>
    /\ dropped = {}
    /\ wiped = {}

(***************************************************************************)
(* The chip (external).  A packet replaces the previous one in the data    *)
(* buffer and in the buffer status; a bad CRC also raises CRC_ERROR, and   *)
(* both IRQs stay raised until they are cleared.                           *)
(***************************************************************************)
last == Len(air)

chipReceive(ok, len) ==
    /\ last < MaxPackets
    /\ paced => "RX_DONE" \notin irq \cup irqRegs
    /\ air' = Append(air, [ok |-> ok, len |-> len])
    /\ irq' = irq \cup (IF ok THEN {"RX_DONE"} ELSE RxIrqs)
    /\ UNCHANGED <<paced, pc, irqRegs, length, m_rxQueue, sending, poolVars, delivered, dropped, wiped>>

(***************************************************************************)
(* LoRaNode::poll on the receive radio.                                    *)
(***************************************************************************)
run ==
    /\ pc = "idle"
    /\ pc' = "get"
    /\ UNCHANGED <<chipVars, irqRegs, length, m_rxQueue, sending, poolVars, delivered, dropped, wiped>>

(* Mutation of pollGetIrq: the IRQ status is read after it was cleared.    *)
pollGetIrqCleared ==
    /\ pc = "get"
    /\ irq' = {}
    /\ irqRegs' = {}
    /\ pc' = "clear"
    /\ UNCHANGED <<paced, air, length, m_rxQueue, sending, poolVars, delivered, dropped, wiped>>

pollGetIrq ==
    /\ pc = "get"
    /\ irqRegs' = irq
    /\ pc' = "clear"
    /\ UNCHANGED <<chipVars, length, m_rxQueue, sending, poolVars, delivered, dropped, wiped>>

(* ClearIrqStatus(IRQ_RADIO_ALL): also what was raised after the read.     *)
pollClearIrq ==
    /\ pc = "clear"
    /\ irq' = {}
    /\ wiped' = IF "RX_DONE" \in irq \ irqRegs THEN wiped \cup {last} ELSE wiped
    /\ pc' = "dispatch"
    /\ UNCHANGED <<paced, air, irqRegs, length, m_rxQueue, sending, poolVars, delivered, dropped>>

(* Mutation of RxDone: CRC_ERROR is not looked at.                         *)
RxDoneAnyCrc(regs) == "RX_DONE" \in regs

(* The LoRa branch in MODE_RX: a CRC error goes to rxError, which is not   *)
(* installed; otherwise rxDone runs, GetPacketStatus first.                *)
RxDone(regs) == "RX_DONE" \in regs /\ "CRC_ERROR" \notin regs

pollDispatch ==
    /\ pc = "dispatch"
    /\ irqRegs' = IF RxDone(irqRegs) THEN irqRegs ELSE {}
    /\ pc' = IF RxDone(irqRegs) THEN "bufferStatus" ELSE "forward"
    /\ UNCHANGED <<chipVars, length, m_rxQueue, sending, poolVars, delivered, dropped, wiped>>

(* rxDone: GetRxBufferStatus, then ReadBuffer unless the length is zero,   *)
(* then the adapter's callback queues the packet.                          *)
getRxBufferStatus ==
    /\ pc = "bufferStatus"
    /\ length' = last
    /\ pc' = "read"
    /\ UNCHANGED <<chipVars, irqRegs, m_rxQueue, sending, poolVars, delivered, dropped, wiped>>

(* Mutation of readBuffer: reads past the packet.                          *)
readBufferPast ==
    /\ pc = "read"
    /\ m_rxQueue' = Append(m_rxQueue, [len |-> length, data |-> length + 1])
    /\ irqRegs' = {}
    /\ pc' = "forward"
    /\ UNCHANGED <<chipVars, length, sending, poolVars, delivered, dropped, wiped>>

readBuffer ==
    /\ pc = "read"
    /\ m_rxQueue' = Append(m_rxQueue,
           [len |-> length, data |-> IF air[length].len > 0 THEN last ELSE length])
    /\ irqRegs' = {}
    /\ pc' = "forward"
    /\ UNCHANGED <<chipVars, length, sending, poolVars, delivered, dropped, wiped>>

(***************************************************************************)
(* The forwarding loop of run_handler.                                     *)
(***************************************************************************)

(* allocate_out -> bufferGetCallee: takes a free buffer and cuts it to the *)
(* requested size, or returns an empty buffer when none is free.           *)
bufferGetCallee == free' = IF free > 0 THEN free - 1 ELSE free

(* deallocate_out -> bufferSendIn.                                         *)
bufferSendIn == free' = free + 1

(* Fw::Buffer::isValid of what bufferGetCallee returned: not empty.        *)
Allocated(needed) == free > 0 /\ needed > 0

Needed == air[Head(m_rxQueue).len].len

forwardAllocate ==
    /\ pc = "forward"
    /\ m_rxQueue # <<>>
    /\ Allocated(Needed)
    /\ bufferGetCallee
    /\ sending' = <<Head(m_rxQueue)>>
    /\ m_rxQueue' = Tail(m_rxQueue)
    /\ pc' = "dataOut"
    /\ UNCHANGED <<chipVars, irqRegs, length, others, delivered, dropped, wiped>>

(* A buffer that is not valid is not given back: deallocate_out is called  *)
(* only under buffer.isValid(), and a valid buffer is never too small.     *)
forwardDrop ==
    /\ pc = "forward"
    /\ m_rxQueue # <<>>
    /\ ~Allocated(Needed)
    /\ bufferGetCallee
    /\ dropped' = dropped \cup {Head(m_rxQueue)}
    /\ m_rxQueue' = Tail(m_rxQueue)
    /\ UNCHANGED <<chipVars, pc, irqRegs, length, sending, others, delivered, wiped>>

(* Mutation of dataOut: dataReturnIn keeps the buffer.                     *)
dataOutKeeps ==
    /\ pc = "dataOut"
    /\ delivered' = delivered \o sending
    /\ sending' = <<>>
    /\ pc' = "forward"
    /\ UNCHANGED <<chipVars, irqRegs, length, m_rxQueue, poolVars, dropped, wiped>>

(* dataOut_out -> FrameAccumulator::dataIn, which copies the bytes and     *)
(* returns the buffer in the same call: dataReturnIn -> deallocate_out.    *)
dataOut ==
    /\ pc = "dataOut"
    /\ delivered' = delivered \o sending
    /\ sending' = <<>>
    /\ bufferSendIn
    /\ pc' = "forward"
    /\ UNCHANGED <<chipVars, irqRegs, length, m_rxQueue, others, dropped, wiped>>

forwardDone ==
    /\ pc = "forward"
    /\ m_rxQueue = <<>>
    /\ pc' = "idle"
    /\ UNCHANGED <<chipVars, irqRegs, length, m_rxQueue, sending, poolVars, delivered, dropped, wiped>>

(***************************************************************************)
(* The other clients of the pool: SpacePacketFramer, FrameAccumulator,     *)
(* FprimeRouter.  Its two ports are guarded.                               *)
(***************************************************************************)
otherGet ==
    /\ free > 0
    /\ bufferGetCallee
    /\ others' = others + 1
    /\ UNCHANGED <<chipVars, pc, irqRegs, length, m_rxQueue, sending, delivered, dropped, wiped>>

otherReturn ==
    /\ others > 0
    /\ bufferSendIn
    /\ others' = others - 1
    /\ UNCHANGED <<chipVars, pc, irqRegs, length, m_rxQueue, sending, delivered, dropped, wiped>>

-----------------------------------------------------------------------------
Receive == \E ok \in BOOLEAN, len \in Lengths : chipReceive(ok, len)
Poll    == run \/ pollGetIrq \/ pollClearIrq \/ pollDispatch \/ getRxBufferStatus \/ readBuffer
Forward == forwardAllocate \/ forwardDrop \/ dataOut \/ forwardDone
Others  == otherGet \/ otherReturn

Next == Receive \/ Poll \/ Forward \/ Others

Spec == Init /\ [][Next]_vars

(* The rate group keeps calling run_handler and run_handler keeps going.   *)
FairSpec == Spec /\ WF_vars(Poll \/ Forward)
-----------------------------------------------------------------------------
(* Every buffer of the pool is free, with another client, or inside the    *)
(* adapter's dataOut call: the adapter neither leaks a buffer nor returns  *)
(* one twice, whatever is dropped and however the other clients interleave.*)
BuffersReturned == free + others + Len(sending) = PoolSize

(* Between two ticks nothing waits in the adapter, and within a tick at    *)
(* most one packet does: the deque cannot grow.                            *)
QueueDrained == /\ Len(m_rxQueue) + Len(sending) <= 1
                /\ pc = "idle" => m_rxQueue = <<>>

(* What reaches the stack is a received packet whose CRC was good, with    *)
(* its own length, and no packet reaches it twice.  The code does not      *)
(* ensure it when packets arrive while another one is being served.        *)
DeliveredFaithfully ==
    /\ \A i \in 1..Len(delivered) :
           /\ delivered[i].len = delivered[i].data
           /\ air[delivered[i].data].ok
    /\ \A i, j \in 1..Len(delivered) : delivered[i].data = delivered[j].data => i = j

(* It does ensure it when every packet is served before the next arrives.  *)
FaithfulWhenPaced == paced => DeliveredFaithfully

(* In that case a good packet reaches the stack, or is dropped for want    *)
(* of a buffer, unless its IRQ was raised between a poll's read and clear. *)
Accounted(k) == \/ \E i \in 1..Len(delivered) : delivered[i].data = k
                \/ \E p \in dropped : p.data = k
                \/ k \in wiped

ForwardedUnlessWiped ==
    \A k \in 1..MaxPackets : (paced /\ last >= k /\ air[k].ok) ~> Accounted(k)
=============================================================================
