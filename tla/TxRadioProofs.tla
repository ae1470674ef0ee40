--------------------------- MODULE TxRadioProofs ----------------------------
(***************************************************************************)
(* Proofs about TxRadio for every set of behaviours, every pattern of      *)
(* calls and any number of packets: the type invariant, when the TX-enable *)
(* pin is released, that the static behaviours never move it, and that     *)
(* it is asserted on air when one loop sends and polls.                    *)
(***************************************************************************)
EXTENDS TxRadio, TLAPS

USE DEF setup

(* The steps of SetTx that run with IOLock2 held.                          *)
SendLocked == {"clear", "postRx", "preTx", "cmd", "mode"}

(* IOLock2 is held by the caller that is between its lock and its unlock.  *)
LockHeld == /\ lock = "send" <=> sendPc \in SendLocked
            /\ lock = "poll" <=> pollPc \in {"get", "clear"}

(* ProcessIrqs' copy is empty until the IRQ status is read.                *)
RegsFresh == pollPc \in {"idle", "get"} => irqRegs = {}

(* The driver has recorded MODE_TX whenever an IRQ of a transmission is    *)
(* pending or was read; SetTx alone is ahead of it, under the lock.        *)
ModeRecorded ==
    /\ irqRegs # {} => OperatingMode = "TX"
    /\ chip = "TX" \/ irq # {} => OperatingMode = "TX" \/ sendPc = "mode"

(* An asserted pin has a reason: a packet on air, an IRQ nobody has        *)
(* handled, or a SetTx that is about to write the pin or to use it.        *)
PinExplained ==
    behavior = "AssertDuringTxOnly" /\ pin /\ ~wiped
        => \/ chip = "TX"
           \/ irq # {}
           \/ sendPc \in {"postRx", "cmd"}
           \/ pollPc = "dispatch" /\ irqRegs # {}

(* A packet has a number from SetPayload on, and on air.                   *)
PacketKnown == /\ sendPc # "idle" => sent # 0
               /\ chip = "TX" => air # 0

PinInv == TypeOK /\ LockHeld /\ RegsFresh /\ ModeRecorded /\ PinExplained

-----------------------------------------------------------------------------
(* Every step keeps the variables in their types; that a torn packet has   *)
(* a number needs PacketKnown.                                             *)
LEMMA TypeStep ==
    TypeOK /\ PacketKnown /\ [Next]_vars => TypeOK' /\ PacketKnown'
<1> SUFFICES ASSUME TypeOK, PacketKnown, [Next]_vars
             PROVE  TypeOK' /\ PacketKnown'
  OBVIOUS
<1> USE DEF TypeOK, PacketKnown
<1> USE BehaviorAssumption, SendsAssumption, LengthAssumption
<1>1. CASE setPayload
  <2>1. sent + 1 \in 1..MaxSends
    BY <1>1 DEF setPayload
  <2>2. torn' \subseteq 1..MaxSends
    BY <1>1 DEF setPayload
  <2>3. /\ size' \in 0..255
        /\ buffer' \in [1..PayloadLength -> 0..MaxSends]
    BY <1>1, <2>1 DEF setPayload, WriteBuffer
  <2> QED
    BY <1>1, <2>1, <2>2, <2>3 DEF setPayload
<1>2. CASE setTxLock
  BY <1>2 DEF setTxLock, chipVars
<1>3. CASE setTxClearIrq
  BY <1>3 DEF setTxClearIrq
<1>4. CASE setTxPostRx
  <2>1. pin' \in BOOLEAN
    BY <1>4 DEF setTxPostRx, HalPostRx
  <2> QED
    BY <1>4, <2>1 DEF setTxPostRx, chipVars
<1>5. CASE setTxPreTx
  <2>1. pin' \in BOOLEAN
    BY <1>5 DEF setTxPreTx, HalPreTx
  <2> QED
    BY <1>5, <2>1 DEF setTxPreTx, chipVars
<1>6. CASE setTxCommand
  <2>1. torn' \subseteq 1..MaxSends
    BY <1>6 DEF setTxCommand
  <2> QED
    BY <1>6, <2>1 DEF setTxCommand
<1>7. CASE setTxMode
  BY <1>7 DEF setTxMode, chipVars
<1>8. CASE pollLock
  BY <1>8 DEF pollLock, chipVars
<1>9. CASE pollGetIrq
  BY <1>9 DEF pollGetIrq, chipVars
<1>10. CASE pollClearIrq
  <2>1. wiped' \in BOOLEAN
    BY <1>10 DEF pollClearIrq
  <2> QED
    BY <1>10, <2>1 DEF pollClearIrq
<1>11. CASE pollDispatch
  <2>1. pin' \in BOOLEAN
    BY <1>11 DEF pollDispatch, HalPostTx
  <2> QED
    BY <1>11, <2>1 DEF pollDispatch, chipVars
<1>12. CASE TxEnd
  BY <1>12 DEF TxEnd, chipTxEnd, hostVars
<1>13. CASE UNCHANGED vars
  BY <1>13 DEF vars, hostVars, chipVars
<1> QED
  BY <1>1, <1>2, <1>3, <1>4, <1>5, <1>6, <1>7, <1>8, <1>9, <1>10, <1>11, <1>12, <1>13
  DEF Next, SetTx, Poll

(* The state LoRaNode::start leaves behind is well typed.                  *)
LEMMA TypeInit == Init => TypeOK /\ PacketKnown
<1> SUFFICES ASSUME Init PROVE TypeOK /\ PacketKnown
  OBVIOUS
<1>1. pin \in BOOLEAN /\ wiped \in BOOLEAN
  BY DEF Init, applyInitialTxEnableState
<1>2. 0 \in 0..MaxSends
  BY SendsAssumption
<1>3. /\ sent \in 0..MaxSends /\ size \in 0..255
      /\ buffer \in [1..PayloadLength -> 0..MaxSends] /\ air \in 0..MaxSends
      /\ torn \subseteq 1..MaxSends
  BY <1>2 DEF Init
<1>4. /\ irqRegs \subseteq TxIrqs /\ irq \subseteq TxIrqs
  BY DEF Init
<1>5. /\ behavior \in Behaviors /\ caller \in Callers
      /\ OperatingMode = "STDBY_RC" /\ lock = "free"
      /\ sendPc = "idle" /\ pollPc = "idle" /\ chip = "IDLE"
  BY DEF Init
<1> QED
  BY <1>1, <1>3, <1>4, <1>5 DEF TypeOK, PacketKnown

(* The type invariant of the transmit radio.                               *)
THEOREM TypeCorrect == Spec => []TypeOK
<1> QED
  BY TypeInit, TypeStep, PTL DEF Spec

-----------------------------------------------------------------------------
(* A step of the lock discipline or of the driver's record of the mode     *)
(* keeps both: it is here that IOLock2 matters, because a poll reads the   *)
(* IRQ status only when SetTx is not between SET_TX and its assignment.    *)
LEMMA LockStep ==
    TypeOK /\ LockHeld /\ RegsFresh /\ ModeRecorded /\ [Next]_vars
        => LockHeld' /\ RegsFresh' /\ ModeRecorded'
<1> SUFFICES ASSUME TypeOK, LockHeld, RegsFresh, ModeRecorded, [Next]_vars
             PROVE  LockHeld' /\ RegsFresh' /\ ModeRecorded'
  OBVIOUS
<1> USE DEF TypeOK, LockHeld, RegsFresh, ModeRecorded, SendLocked
<1>1. CASE setPayload
  BY <1>1 DEF setPayload
<1>2. CASE setTxLock
  BY <1>2 DEF setTxLock, chipVars
<1>3. CASE setTxClearIrq
  BY <1>3 DEF setTxClearIrq
<1>4. CASE setTxPostRx
  BY <1>4 DEF setTxPostRx, chipVars
<1>5. CASE setTxPreTx
  BY <1>5 DEF setTxPreTx, chipVars
<1>6. CASE setTxCommand
  BY <1>6 DEF setTxCommand
<1>7. CASE setTxMode
  BY <1>7 DEF setTxMode, chipVars
<1>8. CASE pollLock
  BY <1>8 DEF pollLock, chipVars
<1>9. CASE pollGetIrq
  <2>1. sendPc # "mode"
    BY <1>9 DEF pollGetIrq
  <2> QED
    BY <1>9, <2>1 DEF pollGetIrq, chipVars
<1>10. CASE pollClearIrq
  BY <1>10 DEF pollClearIrq
<1>11. CASE pollDispatch
  BY <1>11 DEF pollDispatch, chipVars
<1>12. CASE TxEnd
  BY <1>12 DEF TxEnd, chipTxEnd, hostVars
<1>13. CASE UNCHANGED vars
  BY <1>13 DEF vars, hostVars, chipVars
<1> QED
  BY <1>1, <1>2, <1>3, <1>4, <1>5, <1>6, <1>7, <1>8, <1>9, <1>10, <1>11, <1>12, <1>13
  DEF Next, SetTx, Poll

(* Every step leaves an asserted pin with a reason.                        *)
LEMMA PinStep == PinInv /\ [Next]_vars => PinExplained'
<1> SUFFICES ASSUME PinInv, [Next]_vars PROVE PinExplained'
  OBVIOUS
<1> USE DEF PinInv, TypeOK, PinExplained
<1>1. CASE setPayload
  BY <1>1 DEF setPayload
<1>2. CASE setTxLock
  BY <1>2 DEF setTxLock, chipVars
<1>3. CASE setTxClearIrq
  BY <1>3 DEF setTxClearIrq
<1>4. CASE setTxPostRx
  BY <1>4 DEF setTxPostRx, HalPostRx, chipVars
<1>5. CASE setTxPreTx
  BY <1>5 DEF setTxPreTx, chipVars
<1>6. CASE setTxCommand
  BY <1>6 DEF setTxCommand
<1>7. CASE setTxMode
  BY <1>7 DEF setTxMode, chipVars
<1>8. CASE pollLock
  BY <1>8 DEF pollLock, chipVars
<1>9. CASE pollGetIrq
  BY <1>9 DEF pollGetIrq, chipVars
<1>10. CASE pollClearIrq
  <2>1. ~wiped' => ~wiped /\ irq \subseteq irqRegs
    BY <1>10 DEF pollClearIrq
  <2> QED
    BY <1>10, <2>1 DEF pollClearIrq
<1>11. CASE pollDispatch
  <2>1. irqRegs # {} => TxEnded
    BY DEF ModeRecorded, TxEnded, TxIrqs
  <2>2. irqRegs # {} /\ behavior = "AssertDuringTxOnly" => ~pin'
    BY <1>11, <2>1 DEF pollDispatch, HalPostTx
  <2>3. irqRegs = {} => pin' = pin
    BY <1>11 DEF pollDispatch, TxEnded
  <2> QED
    BY <1>11, <2>2, <2>3 DEF pollDispatch, chipVars
<1>12. CASE TxEnd
  BY <1>12 DEF TxEnd, chipTxEnd, hostVars
<1>13. CASE UNCHANGED vars
  BY <1>13 DEF vars, hostVars, chipVars
<1> QED
  BY <1>1, <1>2, <1>3, <1>4, <1>5, <1>6, <1>7, <1>8, <1>9, <1>10, <1>11, <1>12, <1>13
  DEF Next, SetTx, Poll

(* Whatever the interleaving of send and poll, once the radio is quiet the *)
(* amplifier is off unless a poll cleared an IRQ it had not read.          *)
THEOREM PinReleased == Spec => []PinReleasedUnlessWiped
<1>1. Init => PinInv
  <2> SUFFICES ASSUME Init PROVE PinInv
    OBVIOUS
  <2>1. TypeOK
    BY TypeInit
  <2>2. LockHeld /\ RegsFresh /\ ModeRecorded
    BY DEF Init, LockHeld, SendLocked, RegsFresh, ModeRecorded
  <2>3. PinExplained
    BY DEF Init, PinExplained, applyInitialTxEnableState
  <2> QED
    BY <2>1, <2>2, <2>3 DEF PinInv
<1>2. TypeOK' /\ PinInv /\ [Next]_vars => PinInv'
  BY LockStep, PinStep DEF PinInv
<1>3. PinInv => PinReleasedUnlessWiped
  BY DEF PinInv, PinExplained, PinReleasedUnlessWiped, Quiet
<1> QED
  BY <1>1, <1>2, <1>3, TypeCorrect, PTL DEF Spec

-----------------------------------------------------------------------------
(* The static behaviours hold the pin where LoRaNode::start put it, through *)
(* every send and every poll.                                              *)
THEOREM StaticPin == Spec => []StaticPinNeverMoves
<1> USE DEF StaticPinNeverMoves
<1>1. Init => StaticPinNeverMoves
  BY DEF Init, applyInitialTxEnableState
<1>2. TypeOK /\ StaticPinNeverMoves /\ [Next]_vars => StaticPinNeverMoves'
  <2> SUFFICES ASSUME TypeOK, StaticPinNeverMoves, [Next]_vars
               PROVE  StaticPinNeverMoves'
    OBVIOUS
  <2>1. behavior' = behavior
    BY DEF Next, SetTx, Poll, TxEnd, setPayload, setTxLock, setTxClearIrq, setTxPostRx,
           setTxPreTx, setTxCommand, setTxMode, pollLock, pollGetIrq, pollClearIrq,
           pollDispatch, chipTxEnd, vars, hostVars
  <2>2. CASE setTxPostRx \/ setTxPreTx \/ pollDispatch
    BY <2>1, <2>2 DEF TypeOK, setTxPostRx, setTxPreTx, pollDispatch,
                      HalPostRx, HalPreTx, HalPostTx
  <2>3. CASE ~(setTxPostRx \/ setTxPreTx \/ pollDispatch)
    <3>1. pin' = pin
      BY <2>3 DEF Next, SetTx, Poll, TxEnd, setPayload, setTxLock, setTxClearIrq,
                  setTxCommand, setTxMode, pollLock, pollGetIrq, pollClearIrq,
                  chipTxEnd, vars, hostVars
    <3> QED
      BY <2>1, <3>1
  <2> QED
    BY <2>2, <2>3
<1> QED
  BY <1>1, <1>2, TypeCorrect, PTL DEF Spec
-----------------------------------------------------------------------------
(* One loop that sends and polls and waits for the air: no poll runs       *)
(* during a send and no send begins during a packet.                       *)
OneLoop == /\ sendPc # "idle" => pollPc = "idle"
           /\ sendPc \notin {"idle", "mode"} => chip = "IDLE"
           /\ sendPc \in {"postRx", "preTx", "cmd"} => irq = {}

(* So no IRQ of an earlier packet is left when a packet is on air.         *)
NoStaleIrq == /\ pollPc = "idle" => irqRegs = {}
              /\ chip = "TX" => irq = {} /\ irqRegs = {}

(* And nothing lowers the pin from HalPreTx to the end of the packet.      *)
PinHeld == behavior = "AssertDuringTxOnly" /\ (sendPc = "cmd" \/ chip = "TX") => pin

AirInv == caller = SmokeLoop => OneLoop /\ NoStaleIrq /\ PinHeld

(* In such a loop the amplifier is on whenever the chip transmits, for any *)
(* number of packets: this is the use build-smoke/lora_node_smoke.cpp      *)
(* makes of LoRaNode.                                                      *)
THEOREM PinOnAir == Spec => []PinAssertedInLoop
<1>1. Init => AirInv
  BY DEF Init, AirInv, OneLoop, NoStaleIrq, PinHeld
<1>2. TypeOK /\ AirInv /\ [Next]_vars => AirInv'
  <2> SUFFICES ASSUME TypeOK, AirInv, [Next]_vars PROVE AirInv'
    OBVIOUS
  <2> USE DEF TypeOK, AirInv, SmokeLoop, OneLoop, NoStaleIrq, PinHeld
  <2>1. CASE setPayload
    BY <2>1 DEF setPayload, Ready
  <2>2. CASE setTxLock
    BY <2>2 DEF setTxLock, chipVars
  <2>3. CASE setTxClearIrq
    BY <2>3 DEF setTxClearIrq
  <2>4. CASE setTxPostRx
    BY <2>4 DEF setTxPostRx, chipVars
  <2>5. CASE setTxPreTx
    BY <2>5 DEF setTxPreTx, HalPreTx, chipVars
  <2>6. CASE setTxCommand
    BY <2>6 DEF setTxCommand
  <2>7. CASE setTxMode
    BY <2>7 DEF setTxMode, chipVars
  <2>8. CASE pollLock
    BY <2>8 DEF pollLock, chipVars
  <2>9. CASE pollGetIrq
    BY <2>9 DEF pollGetIrq, chipVars
  <2>10. CASE pollClearIrq
    BY <2>10 DEF pollClearIrq
  <2>11. CASE pollDispatch
    <3>1. caller = SmokeLoop /\ chip = "TX" => pin' = pin
      BY <2>11 DEF pollDispatch, TxEnded
    <3> QED
      BY <2>11, <3>1 DEF pollDispatch, chipVars
  <2>12. CASE TxEnd
    BY <2>12 DEF TxEnd, chipTxEnd, hostVars
  <2>13. CASE UNCHANGED vars
    BY <2>13 DEF vars, hostVars, chipVars
  <2> QED
    BY <2>1, <2>2, <2>3, <2>4, <2>5, <2>6, <2>7, <2>8, <2>9, <2>10, <2>11, <2>12, <2>13
    DEF Next, SetTx, Poll
<1>3. AirInv => PinAssertedInLoop
  BY DEF AirInv, PinHeld, PinAssertedInLoop, PinAssertedOnAir
<1> QED
  BY <1>1, <1>2, <1>3, TypeCorrect, PTL DEF Spec
-----------------------------------------------------------------------------
(* The bytes of the last payload are its first ones, whoever calls.        *)
BufferOwned == sent > 0 => \A i \in 1..PayloadLength : i <= size => buffer[i] = sent

(* A packet that nobody has sent over is the last one.                     *)
LastOnAir == chip = "TX" /\ air \notin torn => air = sent

OwnInv == PacketKnown /\ BufferOwned /\ LastOnAir

(* A payload that fills the packet is on air whole, for every              *)
(* payload_length and any pattern of calls, unless a later send tore it:   *)
(* WriteBuffer and SET_TX of one SendPayload belong together even though   *)
(* WriteBuffer runs outside IOLock2.                                       *)
THEOREM WholeSent == Spec => []WholeUnlessTorn
<1>1. Init => OwnInv
  BY TypeInit DEF Init, OwnInv, BufferOwned, LastOnAir
<1>2. TypeOK /\ OwnInv /\ [Next]_vars => OwnInv'
  <2> SUFFICES ASSUME TypeOK, OwnInv, [Next]_vars PROVE OwnInv'
    OBVIOUS
  <2>1. PacketKnown'
    BY TypeStep DEF OwnInv
  <2>2. CASE setPayload
    <3>1. /\ sent' = sent + 1
          /\ buffer' = [i \in 1..PayloadLength |-> IF i <= size' THEN sent + 1 ELSE buffer[i]]
          /\ chip' = chip /\ air' = air
          /\ torn' = IF chip = "TX" THEN torn \cup {air} ELSE torn
      BY <2>2 DEF setPayload, WriteBuffer
    <3>2. BufferOwned'
      BY <3>1 DEF BufferOwned
    <3>3. LastOnAir'
      BY <3>1 DEF LastOnAir
    <3> QED
      BY <2>1, <3>2, <3>3 DEF OwnInv
  <2>3. CASE setTxCommand
    BY <2>1, <2>3 DEF setTxCommand, OwnInv, BufferOwned, LastOnAir
  <2>4. CASE TxEnd
    BY <2>1, <2>4 DEF TxEnd, chipTxEnd, hostVars, OwnInv, BufferOwned, LastOnAir
  <2>5. CASE ~(setPayload \/ setTxCommand \/ TxEnd)
    <3>1. UNCHANGED <<sent, size, buffer, chip, air, torn>>
      BY <2>5 DEF Next, SetTx, Poll, setTxLock, setTxClearIrq, setTxPostRx, setTxPreTx,
                  setTxMode, pollLock, pollGetIrq, pollClearIrq, pollDispatch,
                  vars, hostVars, chipVars
    <3> QED
      BY <2>1, <3>1 DEF OwnInv, BufferOwned, LastOnAir
  <2> QED
    BY <2>2, <2>3, <2>4, <2>5
<1>3. TypeOK /\ OwnInv => WholeUnlessTorn
  <2> SUFFICES ASSUME TypeOK, OwnInv, chip = "TX", air \notin torn, size >= PayloadLength,
                      NEW i \in 1..PayloadLength
               PROVE  buffer[i] = air
    BY DEF WholeUnlessTorn
  <2>1. air = sent /\ sent \in Nat /\ sent > 0
    BY SendsAssumption DEF TypeOK, OwnInv, LastOnAir, PacketKnown
  <2>2. i <= size
    BY LengthAssumption DEF TypeOK
  <2> QED
    BY <2>1, <2>2 DEF OwnInv, BufferOwned
<1> QED
  BY <1>1, <1>2, <1>3, TypeCorrect, PTL DEF Spec
=============================================================================
