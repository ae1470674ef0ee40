------------------------------- MODULE Sx128x -------------------------------
(***************************************************************************)
(* The SX128x driver (ThirdParty/sx128x/SX128x.cpp) under any sequence of  *)
(* calls of one thread: every call that changes the operating mode or the  *)
(* packet type, and the dispatch of ProcessIrqs for every packet type.     *)
(* The chip (external) works on its own between any two steps of a call:   *)
(* the hooks move the pin, and SetRangingRole the role, while the chip is  *)
(* still in its old mode, so each of them is a step of its own.            *)
(*                                                                         *)
(* The driver never asks the chip which mode or packet type it is in: it   *)
(* dispatches by what it recorded itself.                                  *)
(***************************************************************************)
EXTENDS Sx128xCodec, LinuxHal

CONSTANTS
    Behaviors,      \* values of tx_enable_behavior considered
    TypeSets,       \* sets of packet types a caller uses
    MaxEvents       \* bound: operations of the chip that end between two polls

PacketTypes == {"GFSK", "FLRC", "BLE", "LORA", "RANGING"}

ASSUME DriverAssumption == /\ Behaviors \subseteq TxEnableBehavior
                           /\ TypeSets \subseteq SUBSET PacketTypes
                           /\ MaxEvents \in Nat

VARIABLES
    behavior,       \* tx_enable_behavior, never changes
    types,          \* packet types the caller uses, never changes
    pin,            \* the TX-enable pin is asserted
    OperatingMode,  \* SX128x::OperatingMode
    PacketType,     \* SX128x::PacketType
    call,           \* the call in progress, "idle" between calls
    step,           \* what a call that starts an operation does next
    irqRegs,        \* ProcessIrqs' copy of the IRQ status
    callbacks,      \* calls made by ProcessIrqs, in order, until it returns
    chip,           \* external: mode the chip is in
    chipType,       \* external: its packet type
    role,           \* external: its ranging role
    irq,            \* external: its IRQ status
    events,         \* history: what ended since the IRQ status was cleared
    polled,         \* history: what of it ProcessIrqs has read
    raced,          \* history: the chip raised an IRQ during the last SetTx or SetRx
    awaiting,       \* history: a SetTx has not been answered by a callback
    typed           \* history: driver and chip took up the packet type together, in standby

setup       == <<behavior, types>>
driverVars  == <<setup, OperatingMode, PacketType>>
chipVars    == <<chip, chipType, role, irq>>
pollVars    == <<irqRegs, callbacks, polled>>
historyVars == <<events, raced, awaiting, typed>>
vars == <<driverVars, pin, call, step, pollVars, chipVars, historyVars>>

RecordedModes == {"SLEEP", "STDBY_RC", "STDBY_XOSC", "FS", "TX", "RX", "CAD"}
ChipModes     == RecordedModes \cup {"RX_ONCE", "RX_DUTY", "TX_TEST", "AUTO_TX"}
Standby       == {"STDBY_RC", "STDBY_XOSC"}
Listening     == {"RX", "RX_ONCE", "RX_DUTY", "CAD"}

(* Calls that start an operation: of each the last command changes the     *)
(* chip's mode.                                                            *)
Sending == {"SetTx", "SetTxContinuous"}
Ops     == Sending \cup {"SetRx", "SetRxDutyCycle", "SetCad"}
Steps   == {"role", "post", "pre", "command"}

Irqs == {"TX_DONE", "RX_DONE", "SYNCWORD_VALID", "SYNCWORD_ERROR", "HEADER_VALID",
         "HEADER_ERROR", "CRC_ERROR", "RX_TX_TIMEOUT", "CAD_DONE", "CAD_DETECTED",
         "RANGING_SLAVE_RESPONSE_DONE", "RANGING_SLAVE_REQUEST_DISCARDED",
         "RANGING_SLAVE_REQUEST_VALID", "RANGING_MASTER_RESULT_VALID",
         "RANGING_MASTER_TIMEOUT"}

TypeOK ==
    /\ behavior \in Behaviors
    /\ types \in TypeSets
    /\ pin \in BOOLEAN
    /\ OperatingMode \in RecordedModes
    /\ PacketType \in types \cup {"NONE", "GFSK"}
    /\ call \in Ops \cup {"idle", "poll", "reported", "hung"}
    /\ step \in Steps \cup {"none"}
    /\ step # "none" <=> call \in Ops
    /\ irqRegs \subseteq Irqs
    /\ chip \in ChipModes
    /\ chipType \in types \cup {"GFSK"}
    /\ role \in {"NONE", "MASTER", "SLAVE"}
    /\ irq \subseteq Irqs
    /\ raced \in BOOLEAN /\ awaiting \in BOOLEAN /\ typed \in BOOLEAN

(* A constructed driver on a chip that has just been powered.              *)
Init ==
    /\ behavior \in Behaviors
    /\ types \in TypeSets
    /\ pin = applyInitialTxEnableState(behavior)
    /\ OperatingMode = "STDBY_RC"
    /\ PacketType = "NONE"
    /\ call = "idle" /\ step = "none"
    /\ irqRegs = {} /\ callbacks = <<>> /\ polled = <<>>
    /\ chip = "STDBY_RC"
    /\ chipType = "GFSK"
    /\ role = "NONE"
    /\ irq = {}
    /\ events = <<>>
    /\ raced = FALSE /\ awaiting = FALSE
    /\ typed = FALSE

(***************************************************************************)
(* Calls that change the mode.                                             *)
(***************************************************************************)

(* A sleeping chip holds BUSY: WriteCommand and ReadCommand wait for it    *)
(* before they talk to the chip.                                           *)
Free == call = "idle" /\ chip # "SLEEP"

(* A call of one command, or of several that leave no trace in between.    *)
ModeCall(recorded, mode) ==
    /\ Free
    /\ chip' = mode
    /\ OperatingMode' = recorded
    /\ awaiting' = FALSE
    /\ UNCHANGED <<setup, pin, PacketType, call, step, pollVars, chipType, role, irq, events,
                   raced, typed>>

SetSleep         == ModeCall("SLEEP", "SLEEP")
SetStandby(mode) == ModeCall(mode, mode)
SetFs            == ModeCall("FS", "FS")

(* Mutations of clearIrq: the IRQ status is kept; the role is not set.     *)
clearIrqSkipped(op) ==
    /\ Free
    /\ call' = op
    /\ step' = IF PacketType = "RANGING" THEN "role" ELSE "post"
    /\ raced' = FALSE
    /\ awaiting' = FALSE
    /\ UNCHANGED <<driverVars, pin, pollVars, chipVars, events, typed>>

clearIrqNoRole(op) ==
    /\ Free
    /\ call' = op /\ step' = "post"
    /\ irq' = {} /\ events' = <<>> /\ raced' = FALSE
    /\ awaiting' = FALSE
    /\ UNCHANGED <<driverVars, pin, pollVars, chip, chipType, role, typed>>

(* SetTx and SetRx clear the IRQ status, and in ranging mode set the role. *)
clearIrq(op) ==
    /\ Free
    /\ call' = op
    /\ step' = IF PacketType = "RANGING" THEN "role" ELSE "post"
    /\ irq' = {} /\ events' = <<>> /\ raced' = FALSE
    /\ awaiting' = FALSE
    /\ UNCHANGED <<driverVars, pin, pollVars, chip, chipType, role, typed>>

SetRangingRole ==
    /\ step = "role"
    /\ role' = IF call = "SetTx" THEN "MASTER" ELSE "SLAVE"
    /\ step' = "post"
    /\ UNCHANGED <<driverVars, pin, call, pollVars, chip, chipType, irq, historyVars>>

(* The hooks: the one that ends the other direction, then the one that     *)
(* prepares this one.                                                      *)
Post(op) == IF op \in Sending THEN HalPostRx(behavior, pin) ELSE HalPostTx(behavior, pin)

(* Mutation of Pre: HalPreTx is forgotten.                                 *)
PreForgotten(op) == IF op \in Sending THEN pin ELSE HalPreRx(behavior, pin)

Pre(op) == IF op \in Sending THEN HalPreTx(behavior, pin) ELSE HalPreRx(behavior, pin)

postHook ==
    /\ step = "post"
    /\ pin' = Post(call)
    /\ step' = "pre"
    /\ UNCHANGED <<driverVars, call, pollVars, chipVars, historyVars>>

(* Mutation of beginHooks: SetRxDutyCycle goes without its hooks.          *)
beginHooksBare(op) ==
    /\ call = "idle"
    /\ call' = op
    /\ pin' = IF op = "SetRxDutyCycle" THEN pin ELSE Post(op)
    /\ step' = IF op = "SetRxDutyCycle" THEN "command" ELSE "pre"
    /\ awaiting' = FALSE
    /\ UNCHANGED <<driverVars, pollVars, chipVars, events, raced, typed>>

(* The calls that begin with their hooks, before they wait for BUSY: they  *)
(* neither clear the IRQ status nor set a ranging role.                    *)
beginHooks(op) ==
    /\ call = "idle"
    /\ call' = op
    /\ pin' = Post(op)
    /\ step' = "pre"
    /\ awaiting' = FALSE
    /\ UNCHANGED <<driverVars, pollVars, chipVars, events, raced, typed>>

preHook ==
    /\ step = "pre"
    /\ pin' = Pre(call)
    /\ step' = "command"
    /\ UNCHANGED <<driverVars, call, pollVars, chipVars, historyVars>>

(* The last command of a call, and what the driver records of it.          *)
Command(op, recorded, mode) ==
    /\ call = op /\ step = "command" /\ chip # "SLEEP"
    /\ chip' = mode
    /\ OperatingMode' = recorded
    /\ call' = "idle" /\ step' = "none"
    /\ UNCHANGED <<setup, pin, PacketType, pollVars, chipType, role, irq, events, raced, typed>>

SetTx          == Command("SetTx", "TX", "TX") /\ awaiting' = TRUE
SetRx          == /\ \E mode \in {"RX", "RX_ONCE"} : Command("SetRx", "RX", mode)
                  /\ UNCHANGED awaiting
SetRxDutyCycle == Command("SetRxDutyCycle", "RX", "RX_DUTY") /\ UNCHANGED awaiting
SetCad         == Command("SetCad", "CAD", "CAD") /\ UNCHANGED awaiting

(* Mutation of SetTxContinuous: it records a mode of its own.              *)
SetTxContinuousRecorded == Command("SetTxContinuous", "TX_TEST", "TX_TEST") /\ UNCHANGED awaiting

(* SetTxContinuousWave and SetTxContinuousPreamble do not record the mode. *)
SetTxContinuous == Command("SetTxContinuous", OperatingMode, "TX_TEST") /\ UNCHANGED awaiting

(* Recording MODE_CAD, although only a parameter was sent.                 *)
SetCadParams ==
    /\ Free
    /\ OperatingMode' = "CAD"
    /\ awaiting' = FALSE
    /\ UNCHANGED <<setup, pin, PacketType, call, step, pollVars, chipVars, events, raced, typed>>

(* GetRangingResult passes through STDBY_XOSC and ends in STDBY_RC;        *)
(* GetRangingPowerDeltaThresholdIndicator leaves the chip in STDBY_XOSC.   *)
GetRangingResult == PacketType = "RANGING" /\ SetStandby("STDBY_RC")
GetRangingPowerDeltaThresholdIndicator == SetStandby("STDBY_XOSC")

(* Reset and Wakeup: the chip starts afresh, what the driver recorded      *)
(* stays; a wake-up alone keeps the chip's settings.                       *)
Reset ==
    /\ call = "idle"
    /\ chip' = "STDBY_RC"
    /\ chipType' = "GFSK" /\ role' = "NONE"
    /\ irq' = {} /\ events' = <<>>
    /\ typed' = FALSE /\ awaiting' = FALSE
    /\ UNCHANGED <<driverVars, pin, call, step, pollVars, raced>>

Wakeup ==
    /\ call = "idle"
    /\ chip = "SLEEP"
    /\ chip' = "STDBY_RC"
    /\ UNCHANGED <<driverVars, pin, call, step, pollVars, chipType, role, irq, events,
                   raced, awaiting, typed>>

(* Any other call on a sleeping chip never returns from its first command. *)
callAsleep ==
    /\ call = "idle" \/ step = "command"
    /\ chip = "SLEEP"
    /\ call' = "hung" /\ step' = "none"
    /\ UNCHANGED <<driverVars, pin, pollVars, chipVars, historyVars>>

(***************************************************************************)
(* Calls that change the packet type.  The driver records the new type     *)
(* whatever mode the chip is in; outside standby the chip may ignore it.   *)
(***************************************************************************)

(* Pending IRQ bits of a reception outlive the packet type it was made in. *)
Outdated == events' = IF chipType' = chipType \/ events = <<>> THEN events ELSE <<"outdated">>

SetPacketType(t) ==
    /\ Free
    /\ PacketType' = t
    /\ chipType' \in {t} \cup (IF chip \in Standby THEN {} ELSE {chipType})
    /\ Outdated
    /\ typed' = (chip \in Standby)
    /\ awaiting' = FALSE
    /\ UNCHANGED <<setup, OperatingMode, pin, call, step, pollVars, chip, role, irq,
                   raced>>

(* SetModulationParams and SetPacketParams for another type than the       *)
(* recorded one; for the recorded type they say nothing of it to the chip. *)
SetParams(t) == PacketType # t /\ SetPacketType(t)

(* GetPacketType(false) asks the chip.                                     *)
GetPacketType ==
    /\ Free
    /\ PacketType' = chipType
    /\ typed' = (typed \/ chip \in Standby)
    /\ awaiting' = FALSE
    /\ UNCHANGED <<setup, OperatingMode, pin, call, step, pollVars, chipVars, events, raced>>

(***************************************************************************)
(* ProcessIrqs.                                                            *)
(***************************************************************************)
On(bit, regs, calls) == IF bit \in regs THEN calls ELSE <<>>

(* The verdict on a received packet.                                       *)
PacketVerdict(regs) ==
    IF regs \cap {"CRC_ERROR", "SYNCWORD_ERROR"} # {} THEN <<"rxError">> ELSE <<"rxDone">>

(* Mutation of LoRaVerdict: the CRC flag is not looked at.                 *)
LoRaVerdictBlind(regs) == <<"rxDone">>

LoRaVerdict(regs) == IF "CRC_ERROR" \in regs THEN <<"rxError">> ELSE <<"rxDone">>

TxEnd(regs) == On("TX_DONE", regs, <<"HalPostTx", "txDone">>)
               \o On("RX_TX_TIMEOUT", regs, <<"HalPostTx", "txTimeout">>)

dispatchPacket(mode, regs) ==      \* GFSK, FLRC and BLE
    CASE mode = "RX" -> On("RX_DONE", regs, PacketVerdict(regs))
                        \o On("SYNCWORD_VALID", regs, <<"rxSyncWordDone">>)
                        \o On("SYNCWORD_ERROR", regs, <<"rxError">>)
                        \o On("RX_TX_TIMEOUT", regs, <<"HalPostRx", "rxTimeout">>)
                        \o On("TX_DONE", regs, <<"HalPostTx", "txDone">>)
      [] mode = "TX" -> TxEnd(regs)
      [] OTHER       -> <<>>

(* Mutation of dispatchLoRa: the transmit timeout is not handled.          *)
dispatchLoRaNoTimeout(mode, regs) ==
    CASE mode = "RX" -> On("RX_DONE", regs, LoRaVerdict(regs))
      [] mode = "TX" -> On("TX_DONE", regs, <<"HalPostTx", "txDone">>)
      [] OTHER       -> <<>>

dispatchLoRa(mode, regs) ==
    CASE mode = "RX"  -> On("RX_DONE", regs, LoRaVerdict(regs))
                         \o On("HEADER_VALID", regs, <<"rxHeaderDone">>)
                         \o On("HEADER_ERROR", regs, <<"rxError">>)
                         \o On("RX_TX_TIMEOUT", regs, <<"HalPostRx", "rxTimeout">>)
                         \o On("RANGING_SLAVE_REQUEST_DISCARDED", regs, <<"rxError">>)
      [] mode = "TX"  -> TxEnd(regs)
      [] mode = "CAD" -> IF "CAD_DONE" \in regs THEN <<"cadDone">>
                         ELSE On("RX_TX_TIMEOUT", regs, <<"HalPostRx", "rxTimeout">>)
      [] OTHER        -> <<>>

dispatchRanging(mode, regs) ==
    CASE mode = "RX" -> On("RANGING_SLAVE_REQUEST_DISCARDED", regs, <<"rangingDone">>)
                        \o On("RANGING_SLAVE_REQUEST_VALID", regs, <<"rangingDone">>)
                        \o On("RANGING_SLAVE_RESPONSE_DONE", regs, <<"rangingDone">>)
                        \o On("RX_TX_TIMEOUT", regs, <<"rangingDone">>)
                        \o On("HEADER_VALID", regs, <<"rxHeaderDone">>)
                        \o On("HEADER_ERROR", regs, <<"rxError">>)
      [] mode = "TX" -> On("RANGING_MASTER_TIMEOUT", regs, <<"HalPostTx", "rangingDone">>)
                        \o On("RANGING_MASTER_RESULT_VALID", regs, <<"HalPostTx", "rangingDone">>)
      [] OTHER       -> <<>>

Dispatched(type, mode, regs) ==
    CASE type \in {"GFSK", "FLRC", "BLE"} -> dispatchPacket(mode, regs)
      [] type = "LORA"                    -> dispatchLoRa(mode, regs)
      [] type = "RANGING"                 -> dispatchRanging(mode, regs)
      [] OTHER                            -> <<>>

Made(cb) == \E i \in 1..Len(callbacks) : callbacks[i] = cb

ProcessIrqs ==
    /\ Free
    /\ call' = "poll"
    /\ irqRegs' = irq
    /\ polled' = events
    /\ UNCHANGED <<driverVars, pin, step, callbacks, chipVars, historyVars>>

(* ClearIrqStatus(IRQ_RADIO_ALL), which also drops what came after the     *)
(* read, then the dispatch; both Post hooks do the same to the pin.        *)
dispatch ==
    /\ call = "poll"
    /\ call' = "reported"
    /\ irq' = {} /\ events' = <<>>
    /\ callbacks' = Dispatched(PacketType, OperatingMode, irqRegs)
    /\ pin' = IF Made("HalPostTx")' \/ Made("HalPostRx")' THEN HalPostTx(behavior, pin) ELSE pin
    /\ awaiting' = (/\ awaiting
                    /\ irq \subseteq irqRegs
                    /\ ~Made("txDone")' /\ ~Made("txTimeout")' /\ ~Made("rangingDone")')
    /\ UNCHANGED <<driverVars, step, irqRegs, polled, chip, chipType, role, raced, typed>>

processIrqsReturns ==
    /\ call = "reported"
    /\ call' = "idle"
    /\ irqRegs' = {} /\ callbacks' = <<>> /\ polled' = <<>>
    /\ UNCHANGED <<driverVars, pin, step, chipVars, historyVars>>

(***************************************************************************)
(* The chip (external).                                                    *)
(***************************************************************************)
Raise(event, bits, next) ==
    /\ Len(events) < MaxEvents
    /\ events' = Append(events, event)
    /\ irq' = irq \cup bits
    /\ chip' = next
    /\ raced' = (raced \/ call \in {"SetTx", "SetRx"})
    /\ UNCHANGED <<driverVars, pin, call, step, pollVars, chipType, role, awaiting, typed>>

TxOutcomes == IF chipType = "RANGING"
              THEN {"RANGING_MASTER_RESULT_VALID", "RANGING_MASTER_TIMEOUT"}
              ELSE {"TX_DONE", "RX_TX_TIMEOUT"}

chipTxEnds ==
    \/ chip = "TX" /\ \E bit \in TxOutcomes : Raise("sent", {bit}, "STDBY_RC")
    \/ chip = "AUTO_TX" /\ Raise("sent", {"TX_DONE"}, "STDBY_RC")

(* A reception that is good, one that is flagged, one with no packet.      *)
RxOutcomes ==
    CASE chipType = "LORA" ->
            {<<"good", {"HEADER_VALID", "RX_DONE"}>>,
             <<"bad", {"HEADER_VALID", "RX_DONE", "CRC_ERROR"}>>,
             <<"none", {"HEADER_ERROR"}>>, <<"none", {"RANGING_SLAVE_REQUEST_DISCARDED"}>>}
      [] chipType = "RANGING" ->
            {<<"good", {"HEADER_VALID", "RANGING_SLAVE_REQUEST_VALID", "RANGING_SLAVE_RESPONSE_DONE"}>>,
             <<"none", {"RANGING_SLAVE_REQUEST_DISCARDED"}>>, <<"none", {"HEADER_ERROR"}>>}
      [] OTHER ->
            {<<"good", {"SYNCWORD_VALID", "RX_DONE"}>>,
             <<"bad", {"SYNCWORD_VALID", "RX_DONE", "CRC_ERROR"}>>,
             <<"bad", {"SYNCWORD_ERROR", "RX_DONE"}>>}

(* A packet type with auto-TX (SetAutoTx) may answer a good packet at once.*)
chipReceives ==
    /\ chip \in {"RX", "RX_ONCE", "RX_DUTY"}
    /\ \E outcome \in RxOutcomes :
        \/ Raise(outcome[1], outcome[2], IF chip = "RX" THEN chip ELSE "STDBY_RC")
        \/ /\ outcome[1] = "good" /\ chipType \in {"GFSK", "FLRC", "BLE"}
           /\ Raise(outcome[1], outcome[2], "AUTO_TX")

chipListensInVain ==
    \/ chip = "RX_ONCE" /\ Raise("vain", {"RX_TX_TIMEOUT"}, "STDBY_RC")
    \/ /\ chip = "CAD"
       /\ \E bits \in {{"CAD_DONE"}, {"CAD_DONE", "CAD_DETECTED"}, {"RX_TX_TIMEOUT"}} :
            Raise("vain", bits, "STDBY_RC")

-----------------------------------------------------------------------------
ModeCalls == \/ SetSleep \/ SetFs \/ \E m \in Standby : SetStandby(m)
             \/ SetCadParams
             \/ GetRangingResult \/ GetRangingPowerDeltaThresholdIndicator
             \/ Reset \/ Wakeup \/ callAsleep
TypeCalls == \/ \E t \in types : SetPacketType(t) \/ SetParams(t)
             \/ GetPacketType
Begin     == \/ \E op \in {"SetTx", "SetRx"} : clearIrq(op)
             \/ \E op \in Ops \ {"SetTx", "SetRx"} : beginHooks(op)
Hooks     == SetRangingRole \/ postHook \/ preHook
Commands  == SetTx \/ SetRx \/ SetRxDutyCycle \/ SetCad \/ SetTxContinuous
Poll      == ProcessIrqs \/ dispatch \/ processIrqsReturns
Chip      == chipTxEnds \/ chipReceives \/ chipListensInVain

Next == ModeCalls \/ TypeCalls \/ Begin \/ Hooks \/ Commands \/ Poll \/ Chip

Spec == Init /\ [][Next]_vars

(* The caller keeps polling and finishes its calls; a transmission ends.   *)
InCall   == Hooks \/ Commands \/ dispatch \/ processIrqsReturns
FairSpec == Spec /\ WF_vars(InCall) /\ SF_vars(ProcessIrqs) /\ WF_vars(chipTxEnds)
-----------------------------------------------------------------------------
(* While the chip listens the amplifier is off, in every order of calls    *)
(* and whatever was interrupted, unless it is configured to be always on.  *)
(* The one exception is a call that sends: HalPreTx comes before the       *)
(* command that ends the listening.                                        *)
QuietWhileListening ==
    chip \in Listening /\ ~(call \in Sending /\ step = "command")
    => (pin <=> behavior = "StaticAsserted")

(* A transmission started by SetTx is amplified until it ends or a call    *)
(* that starts another operation begins, unless the chip raised an IRQ     *)
(* during SetTx: it clears the IRQ status before the chip leaves its old   *)
(* mode, and such a bit is taken for the end.                              *)
AmplifiedOnAir ==
    /\ behavior = "AssertDuringTxOnly"
    /\ chip = "TX" /\ step = "none"
    /\ ~raced
    => pin

(* A callback that ends an operation comes after its end, with the same    *)
(* exception.                                                              *)
EndReported ==
    call = "reported" /\ ~raced =>
        /\ Made("txDone") \/ Made("txTimeout") => chip # "TX"
        /\ Made("rxTimeout") => chip \notin {"RX", "RX_ONCE"}

(* What ProcessIrqs says of receptions made in the recorded packet type: a *)
(* single one is reported for what it was, and when several have merged    *)
(* rxDone still vouches for every packet among them.                       *)
Verdicts == {polled[i] : i \in 1..Len(polled)}
VerdictMatches ==
    /\ call = "reported" /\ OperatingMode = "RX"
    /\ PacketType # "RANGING"
    /\ typed /\ "outdated" \notin Verdicts
    => /\ Made("rxDone") <=> "good" \in Verdicts /\ "bad" \notin Verdicts
       /\ Len(polled) = 1 => (Made("rxError") <=> polled[1] \in {"bad", "none"})

(* A chip that ranges has the role of the call that started it, until the  *)
(* call that replaces it has set the other role: SetRangingRole comes      *)
(* before the command that ends the old operation.                         *)
RoleChanged(op) == call = op /\ step \in {"post", "pre", "command"}
RangingRole ==
    chipType = "RANGING" /\ typed =>
        /\ chip = "TX" /\ ~RoleChanged("SetRx") => role = "MASTER"
        /\ chip \in {"RX", "RX_ONCE"} /\ ~RoleChanged("SetTx") => role = "SLAVE"

(* Every SetTx is answered by a callback, or overtaken by another call, or *)
(* its IRQ fell in the gap between reading and clearing the IRQ status.    *)
TransmissionReported == (awaiting /\ typed) ~> ~awaiting

(* The conversions are exact within the chip's ranges and nowhere else     *)
(* (RangesExact), and the sync words of the recorded packet type do not    *)
(* overwrite one another.                                                  *)
CodecExact ==
    /\ RangesExact
    /\ \A i, j \in 1..3 : i # j => Slot(PacketType, i) \cap Slot(PacketType, j) = {}
=============================================================================
