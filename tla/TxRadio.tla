------------------------------ MODULE TxRadio -------------------------------
(***************************************************************************)
(* The transmit radio of a LoRaNode under two callers: LoRaNode::send      *)
(* (SX128x::SendPayload, SetTx) and LoRaNode::poll (SX128x::ProcessIrqs).  *)
(* In LoraFprimeDemoDeployment they run on different threads (the          *)
(* aggregator's and the rate group's); in build-smoke/lora_node_smoke.cpp  *)
(* one loop calls both.  Every SPI command and every pin write is a step   *)
(* of its own, and the chip (external) goes on air and off air by itself.  *)
(* IOLock makes one command atomic; IOLock2 is the variable `lock'.        *)
(***************************************************************************)
EXTENDS Naturals, LinuxHal

CONSTANTS
    Behaviors,      \* values of tx_enable_behavior considered
    Callers,        \* users of the node considered, see Caller
    PayloadLength,  \* payload_length of the configuration: bytes of every packet
    PayloadSizes,   \* sizes of the payloads given to send
    MaxSends        \* bound: packets sent in a behaviour

(* How a node is used: sameThread when send and poll are called from one   *)
(* loop, spaced when the next send waits until the packet has left the air.*)
Caller     == [sameThread : BOOLEAN, spaced : BOOLEAN]
SmokeLoop  == [sameThread |-> TRUE, spaced |-> TRUE]
Deployment == [sameThread |-> FALSE, spaced |-> FALSE]

ASSUME BehaviorAssumption == Behaviors \subseteq TxEnableBehavior
ASSUME CallerAssumption   == Callers \subseteq Caller
ASSUME SendsAssumption    == MaxSends \in Nat
ASSUME LengthAssumption   == PayloadLength \in 1..255 /\ PayloadSizes \subseteq 1..255

VARIABLES
    behavior,       \* tx_enable_behavior of the transmit radio, never changes
    caller,         \* who uses the node, never changes
    pin,            \* the TX-enable pin is asserted
    OperatingMode,  \* SX128x::OperatingMode
    lock,           \* holder of IOLock2: "free" | "send" | "poll"
    sendPc, pollPc, \* next step of each caller
    irqRegs,        \* ProcessIrqs' local copy of the IRQ status
    sent,           \* packets handed to SendPayload so far
    size,           \* size of the last one
    chip,           \* external: "IDLE" | "TX"
    irq,            \* external: the chip's IRQ status
    buffer,         \* external: the packet each byte the chip will send is from
    air,            \* external: packet being transmitted
    torn,           \* history: packets spoiled while on air
    wiped           \* history: a poll cleared an IRQ it had not read since SET_TX

setup    == <<behavior, caller>>
hostVars == <<setup, pin, OperatingMode, lock, sendPc, pollPc, irqRegs, sent, size>>
chipVars == <<chip, irq, buffer, air, torn>>
vars == <<hostVars, chipVars, wiped>>

TxIrqs == {"TX_DONE", "RX_TX_TIMEOUT"}

TypeOK ==
    /\ behavior \in Behaviors
    /\ caller \in Callers
    /\ pin \in BOOLEAN
    /\ OperatingMode \in {"STDBY_RC", "TX"}
    /\ lock \in {"free", "send", "poll"}
    /\ sendPc \in {"idle", "lock", "clear", "postRx", "preTx", "cmd", "mode"}
    /\ pollPc \in {"idle", "get", "clear", "dispatch"}
    /\ irqRegs \subseteq TxIrqs
    /\ sent \in 0..MaxSends
    /\ size \in 0..255
    /\ chip \in {"IDLE", "TX"}
    /\ irq \subseteq TxIrqs
    /\ buffer \in [1..PayloadLength -> 0..MaxSends]
    /\ air \in 0..MaxSends
    /\ torn \subseteq 1..MaxSends
    /\ wiped \in BOOLEAN

(* The state LoRaNode::start leaves the transmit radio in.                 *)
Init ==
    /\ behavior \in Behaviors
    /\ caller \in Callers
    /\ pin = applyInitialTxEnableState(behavior)
    /\ OperatingMode = "STDBY_RC"
    /\ lock = "free"
    /\ sendPc = "idle"
    /\ pollPc = "idle"
    /\ irqRegs = {}
    /\ sent = 0
    /\ size = 0
    /\ chip = "IDLE"
    /\ irq = {}
    /\ buffer = [i \in 1..PayloadLength |-> 0]
    /\ air = 0
    /\ torn = {}
    /\ wiped = FALSE

(***************************************************************************)
(* LoRaNode::send with a payload of 1..255 bytes.                          *)
(***************************************************************************)

(* The adapter reports SUCCESS as soon as send returns, so the stack may   *)
(* send again at once; a spaced caller waits for the packet to end.        *)
Ready == /\ caller.sameThread => pollPc = "idle"
         /\ caller.spaced => chip = "IDLE"

(* Mutation of WriteBuffer: one byte short.                                *)
WriteBufferShort(n, packet) == [i \in 1..PayloadLength |-> IF i < n THEN packet ELSE buffer[i]]

(* The data buffer after n bytes of a packet are written at offset 0, the  *)
(* address the chip sends from; what is behind them stays.                 *)
WriteBuffer(n, packet) == [i \in 1..PayloadLength |-> IF i <= n THEN packet ELSE buffer[i]]

(* SetPayload.                                                             *)
setPayload ==
    /\ sendPc = "idle"
    /\ sent < MaxSends
    /\ Ready
    /\ sent' = sent + 1
    /\ size' \in PayloadSizes
    /\ buffer' = WriteBuffer(size', sent + 1)
    /\ torn' = IF chip = "TX" THEN torn \cup {air} ELSE torn
    /\ sendPc' = "lock"
    /\ UNCHANGED <<setup, pin, OperatingMode, lock, pollPc, irqRegs, chip, irq, air, wiped>>

(* SetTx, in its order.                                                    *)
setTxLock ==
    /\ sendPc = "lock"
    /\ lock = "free"
    /\ lock' = "send"
    /\ sendPc' = "clear"
    /\ UNCHANGED <<setup, pin, OperatingMode, pollPc, irqRegs, sent, size, chipVars, wiped>>

setTxClearIrq ==
    /\ sendPc = "clear"
    /\ irq' = {}
    /\ sendPc' = "postRx"
    /\ UNCHANGED <<setup, pin, OperatingMode, lock, pollPc, irqRegs, sent, size, chip, buffer, air, torn, wiped>>

setTxPostRx ==
    /\ sendPc = "postRx"
    /\ pin' = HalPostRx(behavior, pin)
    /\ sendPc' = "preTx"
    /\ UNCHANGED <<setup, OperatingMode, lock, pollPc, irqRegs, sent, size, chipVars, wiped>>

(* Mutation of setTxPreTx: HalPreTx before HalPostRx.                      *)
setTxPreTxSwapped ==
    /\ sendPc = "preTx"
    /\ pin' = HalPostRx(behavior, HalPreTx(behavior, pin))
    /\ sendPc' = "cmd"
    /\ UNCHANGED <<setup, OperatingMode, lock, pollPc, irqRegs, sent, size, chipVars, wiped>>

setTxPreTx ==
    /\ sendPc = "preTx"
    /\ pin' = HalPreTx(behavior, pin)
    /\ sendPc' = "cmd"
    /\ UNCHANGED <<setup, OperatingMode, lock, pollPc, irqRegs, sent, size, chipVars, wiped>>

(* SET_TX: the chip starts on the first PayloadLength bytes of the buffer, *)
(* the length SetPacketParams gave it at start; a packet on air is cut off.*)
setTxCommand ==
    /\ sendPc = "cmd"
    /\ torn' = IF chip = "TX" THEN torn \cup {air} ELSE torn
    /\ chip' = "TX"
    /\ air' = sent
    /\ wiped' = FALSE
    /\ sendPc' = "mode"
    /\ UNCHANGED <<setup, pin, OperatingMode, lock, pollPc, irqRegs, sent, size, irq, buffer>>

(* Mutation of setTxMode: the mode SetFs records.                          *)
setTxModeFs ==
    /\ sendPc = "mode"
    /\ OperatingMode' = "FS"
    /\ lock' = "free"
    /\ sendPc' = "idle"
    /\ UNCHANGED <<setup, pin, pollPc, irqRegs, sent, size, chipVars, wiped>>

setTxMode ==
    /\ sendPc = "mode"
    /\ OperatingMode' = "TX"
    /\ lock' = "free"
    /\ sendPc' = "idle"
    /\ UNCHANGED <<setup, pin, pollPc, irqRegs, sent, size, chipVars, wiped>>

(***************************************************************************)
(* LoRaNode::poll on the transmit radio: SX128x::ProcessIrqs.              *)
(***************************************************************************)
pollLock ==
    /\ pollPc = "idle"
    /\ caller.sameThread => sendPc = "idle"
    /\ lock = "free"
    /\ lock' = "poll"
    /\ pollPc' = "get"
    /\ UNCHANGED <<setup, pin, OperatingMode, sendPc, irqRegs, sent, size, chipVars, wiped>>

pollGetIrq ==
    /\ pollPc = "get"
    /\ irqRegs' = irq
    /\ pollPc' = "clear"
    /\ UNCHANGED <<setup, pin, OperatingMode, lock, sendPc, sent, size, chipVars, wiped>>

(* Mutation of pollClearIrq: the lock is not released.                     *)
pollClearIrqKeepsLock ==
    /\ pollPc = "clear"
    /\ irq' = {}
    /\ wiped' = (wiped \/ irq \ irqRegs # {})
    /\ pollPc' = "dispatch"
    /\ UNCHANGED <<setup, pin, OperatingMode, lock, sendPc, irqRegs, sent, size, chip, buffer, air, torn>>

(* ClearIrqStatus(IRQ_RADIO_ALL), then lg.unlock().                        *)
pollClearIrq ==
    /\ pollPc = "clear"
    /\ irq' = {}
    /\ wiped' = (wiped \/ irq \ irqRegs # {})
    /\ lock' = "free"
    /\ pollPc' = "dispatch"
    /\ UNCHANGED <<setup, pin, OperatingMode, sendPc, irqRegs, sent, size, chip, buffer, air, torn>>

(* Mutation of TxEnded: the timeout is not handled.                        *)
TxEndedDoneOnly == OperatingMode = "TX" /\ "TX_DONE" \in irqRegs

(* The LoRa branch, outside the lock: OperatingMode is read now, and the   *)
(* IRQs are those read before.  LoRaNode installs no txDone callback.      *)
TxEnded == OperatingMode = "TX" /\ irqRegs \cap {"TX_DONE", "RX_TX_TIMEOUT"} # {}

pollDispatch ==
    /\ pollPc = "dispatch"
    /\ pin' = IF TxEnded THEN HalPostTx(behavior, pin) ELSE pin
    /\ irqRegs' = {}
    /\ pollPc' = "idle"
    /\ UNCHANGED <<setup, OperatingMode, lock, sendPc, sent, size, chipVars, wiped>>

(***************************************************************************)
(* The chip (external): the packet ends or the TX timeout fires.           *)
(***************************************************************************)
chipTxEnd(cause) ==
    /\ chip = "TX"
    /\ chip' = "IDLE"
    /\ irq' = irq \cup {cause}
    /\ air' = 0
    /\ UNCHANGED <<hostVars, buffer, torn, wiped>>

-----------------------------------------------------------------------------
SetTx    == setTxClearIrq \/ setTxPostRx \/ setTxPreTx \/ setTxCommand \/ setTxMode
Poll     == pollGetIrq \/ pollClearIrq \/ pollDispatch
TxEnd    == \E cause \in TxIrqs : chipTxEnd(cause)

Next == setPayload \/ setTxLock \/ SetTx \/ pollLock \/ Poll \/ TxEnd

Spec == Init /\ [][Next]_vars

(* The callers' threads keep running and the rate group keeps polling; the *)
(* two lock acquisitions are strongly fair because each holder releases    *)
(* IOLock2 after a bounded number of commands and polls are a tick apart;  *)
(* a transmission ends.  Sending is not obliged.                           *)
FairSpec == /\ Spec
            /\ SF_vars(setTxLock) /\ WF_vars(SetTx)
            /\ SF_vars(pollLock) /\ WF_vars(Poll)
            /\ WF_vars(TxEnd)
-----------------------------------------------------------------------------
(* Assert-during-TX means the amplifier is enabled whenever the chip       *)
(* transmits.  It holds when one loop both sends and polls and spaces its  *)
(* sends; it does not hold when polls run on another thread.               *)
PinAssertedOnAir ==
    behavior = "AssertDuringTxOnly" /\ chip = "TX" => pin

(* The loop of build-smoke/lora_node_smoke.cpp has it: one thread, and a   *)
(* send only when the last packet is off the air.                          *)
PinAssertedInLoop == caller = SmokeLoop => PinAssertedOnAir

(* Once the radio is quiet and every IRQ has been handled the amplifier is *)
(* off, unless a poll cleared an IRQ in the gap between reading and        *)
(* clearing the IRQ status.  Holds for any interleaving of the callers.    *)
Quiet == /\ sendPc = "idle" /\ pollPc = "idle"
         /\ chip = "IDLE" /\ irq = {}

PinReleasedUnlessWiped ==
    behavior = "AssertDuringTxOnly" /\ Quiet /\ ~wiped => ~pin

(* The two static behaviours never move the pin.                           *)
StaticPinNeverMoves ==
    behavior \in {"StaticAsserted", "StaticDeasserted"}
        => pin = (behavior = "StaticAsserted")

(* What send is given is what goes on air: every byte on air is of the     *)
(* payload, to the end of the packet, and none of the payload is left out. *)
(* It fails in the loop, because nothing tells the chip the length of the  *)
(* payload, and with two threads also because a send that follows the      *)
(* SUCCESS at once writes over the packet on air.                          *)
PayloadOnAir ==
    chip = "TX" =>
        size <= PayloadLength /\ \A i \in 1..PayloadLength : buffer[i] = air

(* Whoever calls, no byte of another packet is on air in a payload that    *)
(* fills the packet, from SET_TX to its end, unless it was written over or *)
(* cut off by a send that did not wait for that end.                       *)
WholeUnlessTorn ==
    chip = "TX" /\ air \notin torn /\ size >= PayloadLength =>
        \A i \in 1..PayloadLength : buffer[i] = air

(* Every started send returns: the two callers cannot block each other on  *)
(* IOLock2.                                                                *)
SendReturns == (sendPc # "idle") ~> (sendPc = "idle")

(* When no packet is sent any more the amplifier is eventually off.        *)
PinEventuallyReleased ==
    (behavior = "AssertDuringTxOnly" /\ sent = MaxSends) ~> ~pin
=============================================================================
