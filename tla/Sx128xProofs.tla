---------------------------- MODULE Sx128xProofs ----------------------------
(***************************************************************************)
(* Proofs about the driver for every tx_enable_behavior, every choice of   *)
(* packet types and any number of chip events between two polls: the       *)
(* amplifier is off while the chip listens and on while it transmits, a    *)
(* chip that ranges has the role of the call that started it, ProcessIrqs  *)
(* reports the end of an operation only after it and calls a reception     *)
(* what it was, and the conversions to and from SPI bytes are exact.       *)
(***************************************************************************)
EXTENDS Sx128x, TLAPS

(* The pin moves only under AssertDuringTxOnly.                            *)
PinInv ==
    /\ behavior \in TxEnableBehavior
    /\ pin \in BOOLEAN
    /\ behavior # "AssertDuringTxOnly" => (pin <=> behavior = "StaticAsserted")

(* A call that starts an operation is at one of its steps.                 *)
StepInv == step \in Steps \cup {"none"} /\ (step # "none" <=> call \in Ops)

(* The pin after each hook: off after the first, then as the call needs it.*)
HookInv ==
    /\ step = "pre" => (pin <=> behavior = "StaticAsserted")
    /\ step = "command" /\ call \notin Sending => (pin <=> behavior = "StaticAsserted")
    /\ step = "command" /\ call \in Sending /\ behavior = "AssertDuringTxOnly" => pin

QuietInv == PinInv /\ StepInv /\ HookInv /\ QuietWhileListening

(* The driver and the chip agree on the packet type from the time both     *)
(* took it up in standby to the next reset or change outside standby.      *)
TypeAgrees == typed => PacketType = chipType

(* In ranging mode SetTx and SetRx have the role set when they get to      *)
(* their hooks.                                                            *)
RoleSet ==
    /\ step = "role" => call \in {"SetTx", "SetRx"}
    /\ PacketType = "RANGING" /\ RoleChanged("SetTx") => role = "MASTER"
    /\ PacketType = "RANGING" /\ RoleChanged("SetRx") => role = "SLAVE"

RoleInv == TypeAgrees /\ RoleSet /\ RangingRole

(* What each hook does to the pin.                                         *)
LEMMA HookPins ==
    ASSUME PinInv, NEW op
    PROVE  /\ Post(op) \in BOOLEAN /\ (Post(op) <=> behavior = "StaticAsserted")
           /\ Pre(op) \in BOOLEAN
           /\ behavior # "AssertDuringTxOnly" => (Pre(op) <=> pin)
           /\ behavior = "AssertDuringTxOnly" => (Pre(op) <=> op \in Sending)
           /\ HalPostTx(behavior, pin) <=> behavior = "StaticAsserted"
           /\ HalPostTx(behavior, pin) \in BOOLEAN
BY DEF PinInv, Post, Pre, HalPreRx, HalPostRx, HalPreTx, HalPostTx, TxEnableBehavior

(* What the chip does on its own leaves every pin and record alone, and it *)
(* never starts to listen.                                                 *)
LEMMA ChipSteps ==
    ASSUME Chip
    PROVE  /\ UNCHANGED <<behavior, pin, PacketType, call, step, chipType, role, typed>>
           /\ chip' = chip \/ chip' \in {"STDBY_RC", "AUTO_TX"}
<1>1. CASE chipTxEnds
  BY <1>1 DEF chipTxEnds, Raise, driverVars, setup
<1>2. CASE chipReceives
  BY <1>2 DEF chipReceives, Raise, driverVars, setup
<1>3. CASE chipListensInVain
  BY <1>3 DEF chipListensInVain, Raise, driverVars, setup
<1> QED
  BY <1>1, <1>2, <1>3 DEF Chip

LEMMA QuietInit == Init => QuietInv
BY DriverAssumption
DEF Init, QuietInv, PinInv, StepInv, HookInv, Ops, Sending, QuietWhileListening, Listening,
    applyInitialTxEnableState

LEMMA QuietNext == QuietInv /\ [Next]_vars => QuietInv'
<1> SUFFICES ASSUME QuietInv, [Next]_vars
             PROVE  QuietInv'
  OBVIOUS
<1> USE DEF QuietInv, QuietWhileListening, HookInv
<1>0. CASE UNCHANGED vars
  BY <1>0 DEF vars, driverVars, setup, chipVars, PinInv, StepInv
<1>1. CASE ModeCalls
  <2>1. CASE SetSleep \/ SetFs \/ (\E m \in Standby : SetStandby(m))
             \/ GetRangingResult \/ GetRangingPowerDeltaThresholdIndicator
    <3>1. UNCHANGED <<behavior, pin, call, step>> /\ chip' \notin Listening
      BY <2>1 DEF SetSleep, SetFs, SetStandby, GetRangingResult,
                  GetRangingPowerDeltaThresholdIndicator, ModeCall, Standby, Listening, setup
    <3> QED
      BY <3>1 DEF PinInv, StepInv
  <2>2. CASE SetCadParams
    BY <2>2 DEF SetCadParams, PinInv, StepInv, setup, chipVars
  <2>3. CASE Reset \/ Wakeup
    BY <2>3 DEF Reset, Wakeup, Listening, PinInv, StepInv, driverVars, setup
  <2>4. CASE callAsleep
    BY <2>4 DEF callAsleep, PinInv, StepInv, Listening, Ops, Sending, driverVars, setup, chipVars
  <2> QED
    BY <1>1, <2>1, <2>2, <2>3, <2>4 DEF ModeCalls
<1>2. CASE TypeCalls
  BY <1>2 DEF TypeCalls, SetParams, SetPacketType, GetPacketType, PinInv, StepInv, setup, chipVars
<1>3. CASE Begin
  <2>1. ASSUME NEW op \in {"SetTx", "SetRx"}, clearIrq(op)
        PROVE  QuietInv'
    <3>1. /\ UNCHANGED <<behavior, pin, chip>> /\ call = "idle"
          /\ call' = op /\ step' \in {"role", "post"}
      BY <2>1 DEF clearIrq, Free, driverVars, setup
    <3>2. step = "none"
      BY <3>1 DEF StepInv, Ops, Sending
    <3> QED
      BY <3>1, <3>2 DEF PinInv, StepInv, Ops, Sending, Steps
  <2>2. ASSUME NEW op \in Ops, beginHooks(op)
        PROVE  QuietInv'
    <3>1. /\ UNCHANGED <<behavior, chip>>
          /\ call' = op /\ step' = "pre" /\ pin' = Post(op)
      BY <2>2 DEF beginHooks, driverVars, setup, chipVars
    <3> QED
      BY <3>1, HookPins DEF PinInv, StepInv, Steps
  <2> QED
    BY <1>3, <2>1, <2>2 DEF Begin
<1>4. CASE Hooks
  <2>1. CASE SetRangingRole
    BY <2>1 DEF SetRangingRole, PinInv, StepInv, Steps, driverVars, setup
  <2>2. CASE postHook
    <3>1. /\ UNCHANGED <<behavior, chip, call>>
          /\ step = "post" /\ step' = "pre" /\ pin' = Post(call)
      BY <2>2 DEF postHook, driverVars, setup, chipVars
    <3> QED
      BY <3>1, HookPins DEF PinInv, StepInv, Steps
  <2>3. CASE preHook
    <3>1. /\ UNCHANGED <<behavior, chip, call>>
          /\ step = "pre" /\ step' = "command" /\ pin' = Pre(call)
      BY <2>3 DEF preHook, driverVars, setup, chipVars
    <3> QED
      BY <3>1, HookPins DEF PinInv, StepInv, Steps
  <2> QED
    BY <1>4, <2>1, <2>2, <2>3 DEF Hooks
<1>5. CASE Commands
  <2>1. CASE SetTx \/ SetTxContinuous
    <3>1. /\ UNCHANGED <<behavior, pin>> /\ chip' \notin Listening
          /\ call' = "idle" /\ step' = "none"
      BY <2>1 DEF SetTx, SetTxContinuous, Command, Listening, setup
    <3> QED
      BY <3>1 DEF PinInv, StepInv, Ops, Sending
  <2>2. CASE SetRx \/ SetRxDutyCycle \/ SetCad
    <3>1. /\ UNCHANGED <<behavior, pin>> /\ step = "command" /\ call \notin Sending
          /\ call' = "idle" /\ step' = "none"
      BY <2>2 DEF SetRx, SetRxDutyCycle, SetCad, Command, Sending, setup
    <3> QED
      BY <3>1 DEF PinInv, StepInv, Ops, Sending
  <2> QED
    BY <1>5, <2>1, <2>2 DEF Commands
<1>6. CASE Poll
  <2>0. step = "none" /\ step' = "none" /\ call' \notin Ops /\ UNCHANGED <<behavior, chip>>
    BY <1>6 DEF Poll, ProcessIrqs, dispatch, processIrqsReturns, StepInv, Ops, Sending, Free,
                driverVars, setup, chipVars
  <2>1. CASE ProcessIrqs \/ processIrqsReturns
    BY <2>0, <2>1 DEF ProcessIrqs, processIrqsReturns, PinInv, StepInv
  <2>2. CASE dispatch
    <3>1. pin' = pin \/ pin' = HalPostTx(behavior, pin)
      BY <2>2 DEF dispatch
    <3> QED
      BY <2>0, <3>1, HookPins DEF PinInv, StepInv
  <2> QED
    BY <1>6, <2>1, <2>2 DEF Poll
<1>7. CASE Chip
  BY <1>7, ChipSteps DEF PinInv, StepInv, Listening
<1> QED
  BY <1>0, <1>1, <1>2, <1>3, <1>4, <1>5, <1>6, <1>7 DEF Next

(* In every order of calls and chip events the amplifier is off while the  *)
(* chip listens, unless it is configured to be always on, up to the        *)
(* HalPreTx of the call that ends the listening (the hooks of SetTx,       *)
(* SetTxContinuousWave, SetTxContinuousPreamble, SetRx, SetRxDutyCycle and *)
(* SetCad, each a step of its own).                                        *)
THEOREM Quiet == Spec => []QuietWhileListening
<1>1. QuietInv => QuietWhileListening
  BY DEF QuietInv
<1> QED
  BY QuietInit, QuietNext, <1>1, PTL DEF Spec

-----------------------------------------------------------------------------
LEMMA RoleInit == Init => RoleInv
BY DEF Init, RoleInv, RoleSet, RoleChanged, TypeAgrees, RangingRole

LEMMA RoleNext == RoleInv /\ StepInv /\ [Next]_vars => RoleInv'
<1> SUFFICES ASSUME RoleInv, StepInv, [Next]_vars
             PROVE  RoleInv'
  OBVIOUS
<1> USE DEF RoleInv, RoleSet, RoleChanged, TypeAgrees, RangingRole
<1>0. CASE UNCHANGED vars
  BY <1>0 DEF vars, driverVars, chipVars, historyVars
<1>1. CASE ModeCalls
  <2>1. CASE SetSleep \/ SetFs \/ (\E m \in Standby : SetStandby(m))
             \/ GetRangingResult \/ GetRangingPowerDeltaThresholdIndicator
    <3>1. /\ UNCHANGED <<PacketType, call, step, chipType, role, typed>>
          /\ chip' \notin {"TX", "RX", "RX_ONCE"}
      BY <2>1 DEF SetSleep, SetFs, SetStandby, GetRangingResult,
                  GetRangingPowerDeltaThresholdIndicator, ModeCall, Standby
    <3> QED
      BY <3>1
  <2>2. CASE SetCadParams
    BY <2>2 DEF SetCadParams, chipVars
  <2>3. CASE Reset \/ Wakeup
    BY <2>3 DEF Reset, Wakeup, driverVars
  <2>4. CASE callAsleep
    BY <2>4 DEF callAsleep, driverVars, chipVars, historyVars
  <2> QED
    BY <1>1, <2>1, <2>2, <2>3, <2>4 DEF ModeCalls
<1>2. CASE TypeCalls
  <2>1. ASSUME NEW t \in types, SetPacketType(t)
        PROVE  RoleInv'
    BY <2>1 DEF SetPacketType, Standby, Free
  <2>2. CASE GetPacketType
    <3>1. /\ call = "idle" /\ UNCHANGED <<call, step, chip, chipType, role>>
          /\ PacketType' = chipType /\ typed' = (typed \/ chip \in Standby)
      BY <2>2 DEF GetPacketType, Free, chipVars
    <3> QED
      BY <3>1 DEF Standby
  <2> QED
    BY <1>2, <2>1, <2>2 DEF TypeCalls, SetParams
<1>3. CASE Begin
  <2>1. /\ call = "idle" /\ UNCHANGED <<PacketType, chip, chipType, role, typed>>
        /\ \/ call' \in {"SetTx", "SetRx"} /\ step' = (IF PacketType = "RANGING" THEN "role" ELSE "post")
           \/ call' \notin {"SetTx", "SetRx"} /\ step' = "pre"
    BY <1>3 DEF Begin, clearIrq, beginHooks, Free, driverVars, chipVars
  <2> QED
    BY <2>1
<1>4. CASE Hooks
  <2>1. CASE SetRangingRole
    <3>1. /\ UNCHANGED <<PacketType, call, chip, chipType, typed>>
          /\ step = "role" /\ step' = "post"
          /\ role' = IF call = "SetTx" THEN "MASTER" ELSE "SLAVE"
      BY <2>1 DEF SetRangingRole, driverVars, historyVars
    <3> QED
      BY <3>1
  <2>2. CASE postHook \/ preHook
    <3>1. /\ UNCHANGED <<PacketType, call, chip, chipType, role, typed>>
          /\ step \in {"post", "pre"} /\ step' \in {"pre", "command"}
      BY <2>2 DEF postHook, preHook, driverVars, chipVars, historyVars
    <3> QED
      BY <3>1
  <2> QED
    BY <1>4, <2>1, <2>2 DEF Hooks
<1>5. CASE Commands
  <2>1. /\ step = "command" /\ call' = "idle" /\ step' = "none"
        /\ UNCHANGED <<PacketType, chipType, role, typed>>
        /\ \/ call = "SetTx" /\ chip' = "TX"
           \/ call = "SetRx" /\ chip' \in {"RX", "RX_ONCE"}
           \/ chip' \notin {"TX", "RX", "RX_ONCE"}
    BY <1>5 DEF Commands, SetTx, SetRx, SetRxDutyCycle, SetCad, SetTxContinuous, Command
  <2> QED
    BY <2>1
<1>6. CASE Poll
  <2>1. UNCHANGED <<PacketType, chip, chipType, role, typed>> /\ call' \in {"poll", "reported", "idle"}
        /\ call \notin Ops /\ step' = step
    BY <1>6 DEF Poll, ProcessIrqs, dispatch, processIrqsReturns, Free, Ops, Sending, driverVars,
                chipVars, historyVars
  <2> QED
    BY <2>1 DEF Ops, Sending, StepInv
<1>7. CASE Chip
  BY <1>7, ChipSteps
<1> QED
  BY <1>0, <1>1, <1>2, <1>3, <1>4, <1>5, <1>6, <1>7 DEF Next

(* A chip that ranges has the role of the call that started it (MASTER     *)
(* after SetTx, SLAVE after SetRx) whatever calls came before, until the   *)
(* call that replaces it has sent SetRangingRole.                          *)
THEOREM Role == Spec => []RangingRole
<1>1. RoleInv => RangingRole
  BY DEF RoleInv
<1>2. QuietInv => StepInv
  BY DEF QuietInv
<1> QED
  BY RoleInit, RoleNext, QuietInit, QuietNext, <1>1, <1>2, PTL DEF Spec

-----------------------------------------------------------------------------
(* What a sequence holds, and the calls ProcessIrqs can make.              *)
Elements(s) == {s[i] : i \in 1..Len(s)}
Callback == {"HalPostTx", "HalPostRx", "txDone", "txTimeout", "rxDone", "rxError", "rxTimeout",
             "rxSyncWordDone", "rxHeaderDone", "cadDone", "rangingDone"}

LEMMA ElementsConcat ==
    ASSUME NEW S, NEW s \in Seq(S), NEW t \in Seq(S)
    PROVE  s \o t \in Seq(S) /\ Elements(s \o t) = Elements(s) \cup Elements(t)
<1>1. ASSUME NEW i \in 1..Len(t)
      PROVE  t[i] \in Elements(s \o t)
  BY Len(s) + i \in 1..Len(s \o t), (s \o t)[Len(s) + i] = t[i] DEF Elements
<1>2. Elements(t) \subseteq Elements(s \o t)
  BY <1>1 DEF Elements
<1>3. Elements(s) \subseteq Elements(s \o t)
  BY DEF Elements
<1>4. Elements(s \o t) \subseteq Elements(s) \cup Elements(t)
  BY DEF Elements
<1> QED
  BY <1>2, <1>3, <1>4

LEMMA ElementsShort ==
    ASSUME NEW S, NEW a \in S
    PROVE  /\ <<>> \in Seq(S) /\ Elements(<<>>) = {}
           /\ <<a>> \in Seq(S) /\ Elements(<<a>>) = {a}
<1>1. <<>> \in Seq(S) /\ <<a>> \in Seq(S)
  OBVIOUS
<1>2. Elements(<<>>) = {}
  BY DEF Elements
<1>3. Elements(<<a>>) = {a}
  BY \A i : i \in 1..Len(<<a>>) <=> i = 1, <<a>>[1] = a DEF Elements
<1> QED
  BY <1>1, <1>2, <1>3

(* The set of calls made for one bit.                                      *)
When(bit, regs, T) == IF bit \in regs THEN T ELSE {}

LEMMA OnCalls ==
    ASSUME NEW S, NEW bit, NEW regs, NEW calls \in Seq(S), NEW T, Elements(calls) = T
    PROVE  /\ On(bit, regs, calls) \in Seq(S)
           /\ Elements(On(bit, regs, calls)) = When(bit, regs, T)
<1>1. CASE bit \in regs
  BY <1>1 DEF On, When
<1>2. CASE bit \notin regs
  <2>1. Elements(<<>>) = {} /\ <<>> \in Seq(S)
    BY DEF Elements
  <2>2. On(bit, regs, calls) = <<>> /\ When(bit, regs, T) = {}
    BY <1>2 DEF On, When
  <2> QED
    BY <2>1, <2>2
<1> QED
  BY <1>1, <1>2

LEMMA OnOne ==
    ASSUME NEW S, NEW bit, NEW regs, NEW a \in S
    PROVE  /\ On(bit, regs, <<a>>) \in Seq(S)
           /\ Elements(On(bit, regs, <<a>>)) = When(bit, regs, {a})
<1>1. <<a>> \in Seq(S) /\ Elements(<<a>>) = {a}
  BY ElementsShort
<1>2. CASE bit \in regs
  BY <1>1, <1>2 DEF On, When
<1>3. CASE bit \notin regs
  BY <1>3, ElementsShort DEF On, When
<1> QED
  BY <1>2, <1>3

Two(a, b) == <<a, b>>

LEMMA OnTwo ==
    ASSUME NEW S, NEW bit, NEW regs, NEW a \in S, NEW b \in S
    PROVE  /\ On(bit, regs, Two(a, b)) \in Seq(S)
           /\ Elements(On(bit, regs, Two(a, b))) = When(bit, regs, {a} \cup {b})
<1>1. Two(a, b) \in Seq(S)
  BY DEF Two
<1>2. Elements(<<a, b>>) = {a} \cup {b}
  BY \A i : i \in 1..Len(<<a, b>>) <=> i \in {1, 2}, <<a, b>>[1] = a, <<a, b>>[2] = b DEF Elements
<1>3. Elements(Two(a, b)) = {a} \cup {b}
  BY <1>2 DEF Two
<1>4. CASE bit \in regs
  BY <1>1, <1>3, <1>4 DEF On, When
<1>5. CASE bit \notin regs
  BY <1>5, ElementsShort DEF On, When
<1> QED
  BY <1>4, <1>5

(* The calls that end with a hook of the HAL.                              *)
LEMMA HookCalls ==
    ASSUME NEW bit, NEW regs
    PROVE  /\ /\ On(bit, regs, <<"HalPostRx", "rxTimeout">>) \in Seq(Callback)
              /\ Elements(On(bit, regs, <<"HalPostRx", "rxTimeout">>))
                    = When(bit, regs, {"HalPostRx", "rxTimeout"})
           /\ /\ On(bit, regs, <<"HalPostTx", "txDone">>) \in Seq(Callback)
              /\ Elements(On(bit, regs, <<"HalPostTx", "txDone">>))
                    = When(bit, regs, {"HalPostTx", "txDone"})
           /\ /\ On(bit, regs, <<"HalPostTx", "txTimeout">>) \in Seq(Callback)
              /\ Elements(On(bit, regs, <<"HalPostTx", "txTimeout">>))
                    = When(bit, regs, {"HalPostTx", "txTimeout"})
           /\ /\ On(bit, regs, <<"HalPostTx", "rangingDone">>) \in Seq(Callback)
              /\ Elements(On(bit, regs, <<"HalPostTx", "rangingDone">>))
                    = When(bit, regs, {"HalPostTx", "rangingDone"})
<1> DEFINE postRx == "HalPostRx"
           postTx == "HalPostTx"
           rxTimeout == "rxTimeout"
           txDone == "txDone"
           txTimeout == "txTimeout"
           rangingDone == "rangingDone"
<1>1. /\ postRx \in Callback /\ rxTimeout \in Callback /\ postTx \in Callback
      /\ txDone \in Callback /\ txTimeout \in Callback /\ rangingDone \in Callback
  BY DEF Callback
<1> HIDE DEF postRx, postTx, rxTimeout, txDone, txTimeout, rangingDone
<1>2. /\ On(bit, regs, Two(postRx, rxTimeout)) \in Seq(Callback)
      /\ Elements(On(bit, regs, Two(postRx, rxTimeout))) = When(bit, regs, {postRx} \cup {rxTimeout})
  BY <1>1, OnTwo
<1>3. /\ On(bit, regs, Two(postTx, txDone)) \in Seq(Callback)
      /\ Elements(On(bit, regs, Two(postTx, txDone))) = When(bit, regs, {postTx} \cup {txDone})
  BY <1>1, OnTwo
<1>4. /\ On(bit, regs, Two(postTx, txTimeout)) \in Seq(Callback)
      /\ Elements(On(bit, regs, Two(postTx, txTimeout))) = When(bit, regs, {postTx} \cup {txTimeout})
  BY <1>1, OnTwo
<1>5. /\ On(bit, regs, Two(postTx, rangingDone)) \in Seq(Callback)
      /\ Elements(On(bit, regs, Two(postTx, rangingDone))) = When(bit, regs, {postTx} \cup {rangingDone})
  BY <1>1, OnTwo
<1>6. \A x, y : {x, y} = {x} \cup {y}
  OBVIOUS
<1> QED
  BY <1>2, <1>3, <1>4, <1>5, <1>6
  DEF Two, postRx, postTx, rxTimeout, txDone, txTimeout, rangingDone

LEMMA ElementsFive ==
    ASSUME NEW S, NEW a \in Seq(S), NEW b \in Seq(S), NEW c \in Seq(S),
           NEW d \in Seq(S), NEW e \in Seq(S)
    PROVE  /\ a \o b \o c \o d \o e \in Seq(S)
           /\ Elements(a \o b \o c \o d \o e)
                = Elements(a) \cup Elements(b) \cup Elements(c) \cup Elements(d) \cup Elements(e)
<1> DEFINE ab == a \o b
           abc == ab \o c
           abcd == abc \o d
           abcde == abcd \o e
<1>1. ab \in Seq(S) /\ Elements(ab) = Elements(a) \cup Elements(b)
  BY ElementsConcat
<1> HIDE DEF ab
<1>2. abc \in Seq(S) /\ Elements(abc) = Elements(ab) \cup Elements(c)
  BY <1>1, ElementsConcat
<1> HIDE DEF abc
<1>3. abcd \in Seq(S) /\ Elements(abcd) = Elements(abc) \cup Elements(d)
  BY <1>2, ElementsConcat
<1> HIDE DEF abcd
<1>4. abcde \in Seq(S) /\ Elements(abcde) = Elements(abcd) \cup Elements(e)
  BY <1>3, ElementsConcat
<1> HIDE DEF abcde
<1>5. Elements(abcde)
        = Elements(a) \cup Elements(b) \cup Elements(c) \cup Elements(d) \cup Elements(e)
  BY <1>1, <1>2, <1>3, <1>4
<1> QED
  BY <1>4, <1>5, Zenon DEF ab, abc, abcd, abcde

(* The calls of each dispatch function, as sets, bit by bit.               *)
LEMMA VerdictCalls ==
    ASSUME NEW regs
    PROVE  /\ PacketVerdict(regs) \in Seq(Callback)
           /\ Elements(PacketVerdict(regs)) =
                IF regs \cap {"CRC_ERROR", "SYNCWORD_ERROR"} # {} THEN {"rxError"} ELSE {"rxDone"}
<1>1. "rxError" \in Callback /\ "rxDone" \in Callback
  BY DEF Callback
<1>2. /\ <<"rxError">> \in Seq(Callback) /\ Elements(<<"rxError">>) = {"rxError"}
      /\ <<"rxDone">> \in Seq(Callback) /\ Elements(<<"rxDone">>) = {"rxDone"}
  BY <1>1, ElementsShort
<1>3. CASE regs \cap {"CRC_ERROR", "SYNCWORD_ERROR"} # {}
  <2>1. PacketVerdict(regs) = <<"rxError">>
    BY <1>3 DEF PacketVerdict
  <2> QED
    BY <1>2, <1>3, <2>1
<1>4. CASE ~(regs \cap {"CRC_ERROR", "SYNCWORD_ERROR"} # {})
  <2>1. PacketVerdict(regs) = <<"rxDone">>
    BY <1>4 DEF PacketVerdict
  <2> QED
    BY <1>2, <1>4, <2>1
<1> QED
  BY <1>3, <1>4

LEMMA PacketRxCalls ==
    ASSUME NEW regs
    PROVE  /\ dispatchPacket("RX", regs) \in Seq(Callback)
           /\ Elements(dispatchPacket("RX", regs)) =
                When("RX_DONE", regs, Elements(PacketVerdict(regs)))
                \cup When("SYNCWORD_VALID", regs, {"rxSyncWordDone"})
                \cup When("SYNCWORD_ERROR", regs, {"rxError"})
                \cup When("RX_TX_TIMEOUT", regs, {"HalPostRx", "rxTimeout"})
                \cup When("TX_DONE", regs, {"HalPostTx", "txDone"})
<1> DEFINE a == On("RX_DONE", regs, PacketVerdict(regs))
           b == On("SYNCWORD_VALID", regs, <<"rxSyncWordDone">>)
           c == On("SYNCWORD_ERROR", regs, <<"rxError">>)
           d == On("RX_TX_TIMEOUT", regs, <<"HalPostRx", "rxTimeout">>)
           e == On("TX_DONE", regs, <<"HalPostTx", "txDone">>)
<1>0. {"rxSyncWordDone", "rxError"} \subseteq Callback
  BY DEF Callback
<1>1. a \in Seq(Callback) /\ Elements(a) = When("RX_DONE", regs, Elements(PacketVerdict(regs)))
  BY VerdictCalls, OnCalls
<1>2. b \in Seq(Callback) /\ Elements(b) = When("SYNCWORD_VALID", regs, {"rxSyncWordDone"})
  BY <1>0, OnOne
<1>3. c \in Seq(Callback) /\ Elements(c) = When("SYNCWORD_ERROR", regs, {"rxError"})
  BY <1>0, OnOne
<1>4. d \in Seq(Callback) /\ Elements(d) = When("RX_TX_TIMEOUT", regs, {"HalPostRx", "rxTimeout"})
  BY HookCalls
<1>5. e \in Seq(Callback) /\ Elements(e) = When("TX_DONE", regs, {"HalPostTx", "txDone"})
  BY HookCalls
<1>6. dispatchPacket("RX", regs) = a \o b \o c \o d \o e
  BY DEF dispatchPacket
<1> HIDE DEF a, b, c, d, e
<1>7. /\ a \o b \o c \o d \o e \in Seq(Callback)
      /\ Elements(a \o b \o c \o d \o e)
            = Elements(a) \cup Elements(b) \cup Elements(c) \cup Elements(d) \cup Elements(e)
  BY <1>1, <1>2, <1>3, <1>4, <1>5, ElementsFive
<1> QED
  BY <1>1, <1>2, <1>3, <1>4, <1>5, <1>6, <1>7

LEMMA LoRaRxCalls ==
    ASSUME NEW regs
    PROVE  Elements(dispatchLoRa("RX", regs)) =
                When("RX_DONE", regs, IF "CRC_ERROR" \in regs THEN {"rxError"} ELSE {"rxDone"})
                \cup When("HEADER_VALID", regs, {"rxHeaderDone"})
                \cup When("HEADER_ERROR", regs, {"rxError"})
                \cup When("RX_TX_TIMEOUT", regs, {"HalPostRx", "rxTimeout"})
                \cup When("RANGING_SLAVE_REQUEST_DISCARDED", regs, {"rxError"})
<1> DEFINE a == On("RX_DONE", regs, LoRaVerdict(regs))
           b == On("HEADER_VALID", regs, <<"rxHeaderDone">>)
           c == On("HEADER_ERROR", regs, <<"rxError">>)
           d == On("RX_TX_TIMEOUT", regs, <<"HalPostRx", "rxTimeout">>)
           e == On("RANGING_SLAVE_REQUEST_DISCARDED", regs, <<"rxError">>)
<1>0. {"rxDone", "rxError", "rxHeaderDone"} \subseteq Callback
  BY DEF Callback
<1>1. /\ a \in Seq(Callback)
      /\ Elements(a) = When("RX_DONE", regs, IF "CRC_ERROR" \in regs THEN {"rxError"} ELSE {"rxDone"})
  <2>1. CASE "CRC_ERROR" \in regs
    BY <1>0, <2>1, OnOne DEF LoRaVerdict
  <2>2. CASE "CRC_ERROR" \notin regs
    BY <1>0, <2>2, OnOne DEF LoRaVerdict
  <2> QED
    BY <2>1, <2>2
<1>2. b \in Seq(Callback) /\ Elements(b) = When("HEADER_VALID", regs, {"rxHeaderDone"})
  BY <1>0, OnOne
<1>3. c \in Seq(Callback) /\ Elements(c) = When("HEADER_ERROR", regs, {"rxError"})
  BY <1>0, OnOne
<1>4. d \in Seq(Callback) /\ Elements(d) = When("RX_TX_TIMEOUT", regs, {"HalPostRx", "rxTimeout"})
  BY HookCalls
<1>5. /\ e \in Seq(Callback)
      /\ Elements(e) = When("RANGING_SLAVE_REQUEST_DISCARDED", regs, {"rxError"})
  BY <1>0, OnOne
<1>6. dispatchLoRa("RX", regs) = a \o b \o c \o d \o e
  BY DEF dispatchLoRa
<1> HIDE DEF a, b, c, d, e
<1>7. Elements(a \o b \o c \o d \o e)
        = Elements(a) \cup Elements(b) \cup Elements(c) \cup Elements(d) \cup Elements(e)
  BY <1>1, <1>2, <1>3, <1>4, <1>5, ElementsFive
<1> QED
  BY <1>1, <1>2, <1>3, <1>4, <1>5, <1>6, <1>7

LEMMA RangingRxCalls ==
    ASSUME NEW regs
    PROVE  Elements(dispatchRanging("RX", regs)) =
                When("RANGING_SLAVE_REQUEST_DISCARDED", regs, {"rangingDone"})
                \cup When("RANGING_SLAVE_REQUEST_VALID", regs, {"rangingDone"})
                \cup When("RANGING_SLAVE_RESPONSE_DONE", regs, {"rangingDone"})
                \cup When("RX_TX_TIMEOUT", regs, {"rangingDone"})
                \cup When("HEADER_VALID", regs, {"rxHeaderDone"})
                \cup When("HEADER_ERROR", regs, {"rxError"})
<1> DEFINE a == On("RANGING_SLAVE_REQUEST_DISCARDED", regs, <<"rangingDone">>)
           b == On("RANGING_SLAVE_REQUEST_VALID", regs, <<"rangingDone">>)
           c == On("RANGING_SLAVE_RESPONSE_DONE", regs, <<"rangingDone">>)
           d == On("RX_TX_TIMEOUT", regs, <<"rangingDone">>)
           e == On("HEADER_VALID", regs, <<"rxHeaderDone">>)
           f == On("HEADER_ERROR", regs, <<"rxError">>)
           abcde == a \o b \o c \o d \o e
<1>0. {"rangingDone", "rxHeaderDone", "rxError"} \subseteq Callback
  BY DEF Callback
<1>1. /\ a \in Seq(Callback)
      /\ Elements(a) = When("RANGING_SLAVE_REQUEST_DISCARDED", regs, {"rangingDone"})
  BY <1>0, OnOne
<1>2. /\ b \in Seq(Callback)
      /\ Elements(b) = When("RANGING_SLAVE_REQUEST_VALID", regs, {"rangingDone"})
  BY <1>0, OnOne
<1>3. /\ c \in Seq(Callback)
      /\ Elements(c) = When("RANGING_SLAVE_RESPONSE_DONE", regs, {"rangingDone"})
  BY <1>0, OnOne
<1>4. d \in Seq(Callback) /\ Elements(d) = When("RX_TX_TIMEOUT", regs, {"rangingDone"})
  BY <1>0, OnOne
<1>5. e \in Seq(Callback) /\ Elements(e) = When("HEADER_VALID", regs, {"rxHeaderDone"})
  BY <1>0, OnOne
<1>6. f \in Seq(Callback) /\ Elements(f) = When("HEADER_ERROR", regs, {"rxError"})
  BY <1>0, OnOne
<1>7. dispatchRanging("RX", regs) = abcde \o f
  BY DEF dispatchRanging
<1> HIDE DEF a, b, c, d, e, f
<1>8. /\ abcde \in Seq(Callback)
      /\ Elements(abcde)
            = Elements(a) \cup Elements(b) \cup Elements(c) \cup Elements(d) \cup Elements(e)
  BY <1>1, <1>2, <1>3, <1>4, <1>5, ElementsFive
<1> HIDE DEF abcde
<1>9. Elements(abcde \o f) = Elements(abcde) \cup Elements(f)
  BY <1>6, <1>8, ElementsConcat
<1> QED
  BY <1>1, <1>2, <1>3, <1>4, <1>5, <1>6, <1>7, <1>8, <1>9

LEMMA TxCalls ==
    ASSUME NEW regs
    PROVE  /\ Elements(TxEnd(regs)) =
                When("TX_DONE", regs, {"HalPostTx", "txDone"})
                \cup When("RX_TX_TIMEOUT", regs, {"HalPostTx", "txTimeout"})
           /\ Elements(dispatchRanging("TX", regs)) =
                When("RANGING_MASTER_TIMEOUT", regs, {"HalPostTx", "rangingDone"})
                \cup When("RANGING_MASTER_RESULT_VALID", regs, {"HalPostTx", "rangingDone"})
<1> DEFINE a == On("TX_DONE", regs, <<"HalPostTx", "txDone">>)
           b == On("RX_TX_TIMEOUT", regs, <<"HalPostTx", "txTimeout">>)
           c == On("RANGING_MASTER_TIMEOUT", regs, <<"HalPostTx", "rangingDone">>)
           d == On("RANGING_MASTER_RESULT_VALID", regs, <<"HalPostTx", "rangingDone">>)
<1>1. a \in Seq(Callback) /\ Elements(a) = When("TX_DONE", regs, {"HalPostTx", "txDone"})
  BY HookCalls
<1>2. b \in Seq(Callback) /\ Elements(b) = When("RX_TX_TIMEOUT", regs, {"HalPostTx", "txTimeout"})
  BY HookCalls
<1>3. /\ c \in Seq(Callback)
      /\ Elements(c) = When("RANGING_MASTER_TIMEOUT", regs, {"HalPostTx", "rangingDone"})
  BY HookCalls
<1>4. /\ d \in Seq(Callback)
      /\ Elements(d) = When("RANGING_MASTER_RESULT_VALID", regs, {"HalPostTx", "rangingDone"})
  BY HookCalls
<1>5. TxEnd(regs) = a \o b /\ dispatchRanging("TX", regs) = c \o d
  BY DEF TxEnd, dispatchRanging
<1> HIDE DEF a, b, c, d
<1>6. Elements(a \o b) = Elements(a) \cup Elements(b) /\ Elements(c \o d) = Elements(c) \cup Elements(d)
  BY <1>1, <1>2, <1>3, <1>4, ElementsConcat
<1> QED
  BY <1>1, <1>2, <1>3, <1>4, <1>5, <1>6

(* ProcessIrqs calls nobody without a bit, and reports a timeout only when *)
(* the chip did.                                                           *)
LEMMA DispatchedCalls ==
    ASSUME NEW type, NEW mode, NEW regs
    PROVE  /\ regs = {} => Elements(Dispatched(type, mode, regs)) = {}
           /\ "rxTimeout" \in Elements(Dispatched(type, mode, regs)) => "RX_TX_TIMEOUT" \in regs
<1>0. Elements(<<>>) = {}
  BY DEF Elements
<1>1. CASE type \in {"GFSK", "FLRC", "BLE"}
  <2>1. Dispatched(type, mode, regs) = dispatchPacket(mode, regs)
    BY <1>1 DEF Dispatched
  <2>2. CASE mode = "RX"
    BY <2>1, <2>2, PacketRxCalls, VerdictCalls DEF When
  <2>3. CASE mode = "TX"
    BY <2>1, <2>3, TxCalls DEF When, dispatchPacket
  <2>4. CASE mode \notin {"RX", "TX"}
    BY <1>0, <2>1, <2>4 DEF dispatchPacket
  <2> QED
    BY <2>2, <2>3, <2>4
<1>2. CASE type = "LORA"
  <2>1. Dispatched(type, mode, regs) = dispatchLoRa(mode, regs)
    BY <1>2 DEF Dispatched
  <2>2. CASE mode = "RX"
    BY <2>1, <2>2, LoRaRxCalls DEF When
  <2>3. CASE mode = "TX"
    BY <2>1, <2>3, TxCalls DEF When, dispatchLoRa
  <2>4. CASE mode = "CAD"
    <3>1. CASE "CAD_DONE" \in regs
      <4>1. dispatchLoRa(mode, regs) = <<"cadDone">>
        BY <2>4, <3>1 DEF dispatchLoRa
      <4>2. Elements(<<"cadDone">>) = {"cadDone"}
        BY "cadDone" \in Callback, ElementsShort DEF Callback
      <4> QED
        BY <3>1, <4>1, <4>2, <2>1
    <3>2. CASE "CAD_DONE" \notin regs
      <4>1. dispatchLoRa(mode, regs) = On("RX_TX_TIMEOUT", regs, <<"HalPostRx", "rxTimeout">>)
        BY <2>4, <3>2 DEF dispatchLoRa
      <4> QED
        BY <2>1, <4>1, HookCalls DEF When
    <3> QED
      BY <3>1, <3>2
  <2>5. CASE mode \notin {"RX", "TX", "CAD"}
    BY <1>0, <2>1, <2>5 DEF dispatchLoRa
  <2> QED
    BY <2>2, <2>3, <2>4, <2>5
<1>3. CASE type = "RANGING"
  <2>1. Dispatched(type, mode, regs) = dispatchRanging(mode, regs)
    BY <1>3 DEF Dispatched
  <2>2. CASE mode = "RX"
    BY <2>1, <2>2, RangingRxCalls DEF When
  <2>3. CASE mode = "TX"
    BY <2>1, <2>3, TxCalls DEF When
  <2>4. CASE mode \notin {"RX", "TX"}
    BY <1>0, <2>1, <2>4 DEF dispatchRanging
  <2> QED
    BY <2>2, <2>3, <2>4
<1>4. CASE type \notin {"GFSK", "FLRC", "BLE", "LORA", "RANGING"}
  BY <1>0, <1>4 DEF Dispatched
<1> QED
  BY <1>1, <1>2, <1>3, <1>4

EventNames == {"sent", "good", "bad", "none", "vain", "outdated"}

(* The bits that flag a received packet, and those that report none.       *)
FlagBits(type)  == IF type = "LORA" THEN {"CRC_ERROR"} ELSE {"CRC_ERROR", "SYNCWORD_ERROR"}
ErrorBits(type) == IF type = "LORA" THEN {"HEADER_ERROR", "RANGING_SLAVE_REQUEST_DISCARDED"} ELSE {}

(* What one event of the chip adds to its IRQ status.                      *)
Raises(event, bits, next) ==
    /\ event \in EventNames \ {"outdated"}
    /\ bits \subseteq Irqs
    /\ next \in {"RX", "STDBY_RC", "AUTO_TX"}
    /\ next = "RX" => chip = "RX" /\ "RX_TX_TIMEOUT" \notin bits
    /\ chipType # "RANGING" =>
        /\ "RX_DONE" \in bits <=> event \in {"good", "bad"}
        /\ bits \cap FlagBits(chipType) # {} <=> event = "bad"
        /\ bits \cap ErrorBits(chipType) # {} <=> event = "none"

(* Whatever the chip does on its own, it raises bits that fit what         *)
(* happened.                                                               *)
LEMMA ChipRaises ==
    ASSUME Chip
    PROVE  \E event, bits, next : Raises(event, bits, next) /\ Raise(event, bits, next)
<1>1. CASE chipTxEnds
  <2>1. PICK bit \in {"TX_DONE", "RX_TX_TIMEOUT", "RANGING_MASTER_RESULT_VALID",
                       "RANGING_MASTER_TIMEOUT"} :
            Raise("sent", {bit}, "STDBY_RC")
    BY <1>1 DEF chipTxEnds, TxOutcomes
  <2>2. Raises("sent", {bit}, "STDBY_RC")
    BY DEF Raises, EventNames, Irqs, FlagBits, ErrorBits
  <2> QED
    BY <2>1, <2>2
<1>2. CASE chipReceives
  <2>1. PICK outcome \in RxOutcomes, next \in {"STDBY_RC", "AUTO_TX", "RX"} :
            Raise(outcome[1], outcome[2], next) /\ (next = "RX" => chip = "RX")
    BY <1>2 DEF chipReceives
  <2>2. Raises(outcome[1], outcome[2], next)
    <3>1. CASE chipType = "LORA"
      BY <2>1, <3>1 DEF Raises, RxOutcomes, EventNames, Irqs, FlagBits, ErrorBits
    <3>2. CASE chipType = "RANGING"
      BY <2>1, <3>2 DEF Raises, RxOutcomes, EventNames, Irqs, FlagBits, ErrorBits
    <3>3. CASE chipType \notin {"LORA", "RANGING"}
      BY <2>1, <3>3 DEF Raises, RxOutcomes, EventNames, Irqs, FlagBits, ErrorBits
    <3> QED
      BY <3>1, <3>2, <3>3
  <2> QED
    BY <2>1, <2>2
<1>3. CASE chipListensInVain
  <2>1. PICK bits \in {{"CAD_DONE"}, {"CAD_DONE", "CAD_DETECTED"}, {"RX_TX_TIMEOUT"}} :
            Raise("vain", bits, "STDBY_RC")
    BY <1>3 DEF chipListensInVain
  <2>2. Raises("vain", bits, "STDBY_RC")
    BY DEF Raises, EventNames, Irqs, FlagBits, ErrorBits
  <2> QED
    BY <2>1, <2>2
<1> QED
  BY <1>1, <1>2, <1>3 DEF Chip

-----------------------------------------------------------------------------
LEMMA TypeInit == Init => TypeOK
BY DriverAssumption
DEF Init, TypeOK, RecordedModes, ChipModes, Ops, Sending, applyInitialTxEnableState

LEMMA TypeNext == TypeOK /\ QuietInv /\ QuietInv' /\ [Next]_vars => TypeOK'
<1> SUFFICES ASSUME TypeOK, QuietInv, QuietInv', [Next]_vars
             PROVE  TypeOK'
  OBVIOUS
<1>pin. pin' \in BOOLEAN /\ step' \in Steps \cup {"none"} /\ (step' # "none" <=> call' \in Ops)
  BY DEF QuietInv, PinInv, StepInv
<1> USE <1>pin DEF TypeOK
<1>0. CASE UNCHANGED vars
  BY <1>0 DEF vars, driverVars, setup, pollVars, chipVars, historyVars
<1>1. CASE ModeCalls
  <2>1. CASE SetSleep \/ SetFs \/ (\E m \in Standby : SetStandby(m))
             \/ GetRangingResult \/ GetRangingPowerDeltaThresholdIndicator
    BY <2>1 DEF SetSleep, SetFs, SetStandby, GetRangingResult,
                GetRangingPowerDeltaThresholdIndicator, ModeCall, Standby, RecordedModes,
                ChipModes, setup, pollVars
  <2>3. CASE SetCadParams
    BY <2>3 DEF SetCadParams, RecordedModes, setup, pollVars, chipVars
  <2>5. CASE Reset \/ Wakeup
    BY <2>5 DEF Reset, Wakeup, ChipModes, RecordedModes, driverVars, setup, pollVars
  <2>6. CASE callAsleep
    BY <2>6 DEF callAsleep, driverVars, setup, pollVars, chipVars, historyVars
  <2> QED
    BY <1>1, <2>1, <2>3, <2>5, <2>6 DEF ModeCalls
<1>2. CASE TypeCalls
  <2>1. ASSUME NEW t \in types, SetPacketType(t)
        PROVE  TypeOK'
    <3>1. typed' \in BOOLEAN /\ chipType' \in types' \cup {"GFSK"}
      BY <2>1 DEF SetPacketType, setup
    <3> QED
      BY <2>1, <3>1 DEF SetPacketType, setup, pollVars
  <2>2. CASE GetPacketType
    <3>1. typed' \in BOOLEAN
      BY <2>2 DEF GetPacketType
    <3> QED
      BY <2>2, <3>1 DEF GetPacketType, setup, pollVars, chipVars
  <2> QED
    BY <1>2, <2>1, <2>2 DEF TypeCalls, SetParams
<1>3. CASE Begin
  <2>1. call' \in Ops
    BY <1>3 DEF Begin, clearIrq, beginHooks, Ops, Sending
  <2> QED
    BY <1>3, <2>1 DEF Begin, clearIrq, beginHooks, driverVars, setup, pollVars, chipVars
<1>4. CASE Hooks
  BY <1>4 DEF Hooks, SetRangingRole, postHook, preHook, driverVars, setup, pollVars, chipVars,
              historyVars
<1>5. CASE Commands
  BY <1>5 DEF Commands, SetTx, SetRx, SetRxDutyCycle, SetCad, SetTxContinuous, Command,
              RecordedModes, ChipModes, setup, pollVars
<1>6. CASE Poll
  <2>1. CASE ProcessIrqs \/ processIrqsReturns
    BY <2>1 DEF ProcessIrqs, processIrqsReturns, driverVars, setup, chipVars, historyVars
  <2>2. CASE dispatch
    <3>1. awaiting' \in BOOLEAN
      BY <2>2 DEF dispatch
    <3> QED
      BY <2>2, <3>1 DEF dispatch, driverVars, setup
  <2> QED
    BY <1>6, <2>1, <2>2 DEF Poll
<1>7. CASE Chip
  <2>1. PICK event, bits, next : Raises(event, bits, next) /\ Raise(event, bits, next)
    BY <1>7, ChipRaises
  <2> QED
    BY <2>1 DEF Raises, Raise, RecordedModes, ChipModes, driverVars, setup, pollVars
<1> QED
  BY <1>0, <1>1, <1>2, <1>3, <1>4, <1>5, <1>6, <1>7 DEF Next

(* Type correctness of the driver and the chip, for every sequence of      *)
(* calls.                                                                  *)
THEOREM Typed == Spec => []TypeOK
BY TypeInit, TypeNext, QuietInit, QuietNext, PTL DEF Spec

(* After an undisturbed SetTx or SetRx the IRQ status, and ProcessIrqs'    *)
(* copy of it, hold no bit of an operation that ended before it.           *)
Polling == call \in {"poll", "reported"}
FreshIrq ==
    /\ call \in {"SetTx", "SetRx"} /\ ~raced => irq = {}
    /\ chip = "TX" /\ ~raced => irq = {} /\ (Polling => irqRegs = {})
    /\ chip \in {"RX", "RX_ONCE"} /\ ~raced =>
        "RX_TX_TIMEOUT" \notin irq /\ (Polling => "RX_TX_TIMEOUT" \notin irqRegs)

CallsMade == call = "reported" => callbacks = Dispatched(PacketType, OperatingMode, irqRegs)

EndInv == FreshIrq /\ CallsMade /\ AmplifiedOnAir

LEMMA MadeElements == \A cb : Made(cb) <=> cb \in Elements(callbacks)
BY DEF Made, Elements

LEMMA EndInit == Init => EndInv
BY DEF Init, EndInv, FreshIrq, CallsMade, AmplifiedOnAir

LEMMA EndNext == EndInv /\ QuietInv /\ [Next]_vars => EndInv'
<1> SUFFICES ASSUME EndInv, QuietInv, [Next]_vars
             PROVE  EndInv'
  OBVIOUS
<1> USE DEF EndInv, FreshIrq, CallsMade, AmplifiedOnAir, Polling
<1>0. CASE UNCHANGED vars
  BY <1>0 DEF vars, driverVars, setup, pollVars, chipVars, historyVars
<1>1. CASE ModeCalls
  <2>1. CASE SetSleep \/ SetFs \/ (\E m \in Standby : SetStandby(m))
             \/ GetRangingResult \/ GetRangingPowerDeltaThresholdIndicator
    <3>1. call = "idle" /\ call' = "idle" /\ chip' \notin {"TX", "RX", "RX_ONCE"}
      BY <2>1 DEF SetSleep, SetFs, SetStandby, GetRangingResult,
                  GetRangingPowerDeltaThresholdIndicator, ModeCall, Free, Standby
    <3> QED
      BY <3>1
  <2>2. CASE SetCadParams
    BY <2>2 DEF SetCadParams, Free, setup, chipVars
  <2>3. CASE Reset \/ Wakeup
    BY <2>3 DEF Reset, Wakeup
  <2>4. CASE callAsleep
    BY <2>4 DEF callAsleep, chipVars
  <2> QED
    BY <1>1, <2>1, <2>2, <2>3, <2>4 DEF ModeCalls
<1>2. CASE TypeCalls
  <2>1. ASSUME NEW t \in types, SetPacketType(t)
        PROVE  EndInv'
    BY <2>1 DEF SetPacketType, Free, setup
  <2>2. CASE GetPacketType
    BY <2>2 DEF GetPacketType, Free, setup, chipVars
  <2> QED
    BY <1>2, <2>1, <2>2 DEF TypeCalls, SetParams
<1>3. CASE Begin
  <2>1. /\ call = "idle" /\ call' \in Ops /\ step' # "none" /\ chip' = chip
        /\ \/ irq' = {} /\ raced' = FALSE
           \/ call' \notin {"SetTx", "SetRx"} /\ UNCHANGED <<irq, raced>>
    BY <1>3 DEF Begin, clearIrq, beginHooks, Free, Ops, Sending, chipVars
  <2> QED
    BY <2>1 DEF Ops, Sending
<1>4. CASE Hooks
  <2>1. /\ UNCHANGED <<call, chip, irq, raced>> /\ step # "none" /\ step' # "none"
    BY <1>4 DEF Hooks, SetRangingRole, postHook, preHook, chipVars, historyVars
  <2>2. call \in Ops
    BY <2>1 DEF QuietInv, StepInv
  <2> QED
    BY <2>1, <2>2 DEF Ops, Sending
<1>5. CASE Commands
  <2>1. /\ step = "command" /\ call' = "idle" /\ step' = "none"
        /\ UNCHANGED <<behavior, pin, irq, raced>>
        /\ \/ call = "SetTx" /\ chip' = "TX"
           \/ call = "SetRx" /\ chip' \in {"RX", "RX_ONCE"}
           \/ chip' \notin {"TX", "RX", "RX_ONCE"}
    BY <1>5 DEF Commands, SetTx, SetRx, SetRxDutyCycle, SetCad, SetTxContinuous, Command, setup
  <2>2. call = "SetTx" /\ behavior = "AssertDuringTxOnly" => pin
    BY <2>1 DEF QuietInv, HookInv, Sending
  <2> QED
    BY <2>1, <2>2
<1>6. CASE Poll
  <2>1. CASE ProcessIrqs
    BY <2>1 DEF ProcessIrqs, Free, driverVars, setup, chipVars, historyVars
  <2>2. CASE dispatch
    <3>1. /\ call = "poll" /\ call' = "reported"
          /\ callbacks' = Dispatched(PacketType, OperatingMode, irqRegs)
          /\ irq' = {}
          /\ UNCHANGED <<behavior, PacketType, OperatingMode, step, irqRegs, chip, raced>>
      BY <2>2 DEF dispatch, driverVars, setup
    <3>2. CASE chip = "TX" /\ ~raced
      <4>1. Elements(callbacks') = {}
        BY <3>1, <3>2, DispatchedCalls
      <4>2. ~Made("HalPostTx")' /\ ~Made("HalPostRx")'
        BY <4>1 DEF Made, Elements
      <4>3. pin' = pin
        BY <2>2, <4>2 DEF dispatch
      <4> QED
        BY <3>1, <3>2, <4>3
    <3>3. CASE ~(chip = "TX" /\ ~raced)
      BY <3>1, <3>3
    <3> QED
      BY <3>2, <3>3
  <2>3. CASE processIrqsReturns
    BY <2>3 DEF processIrqsReturns, driverVars, setup, chipVars, historyVars
  <2> QED
    BY <1>6, <2>1, <2>2, <2>3 DEF Poll
<1>7. CASE Chip
  <2>1. PICK event, bits, next : Raises(event, bits, next) /\ Raise(event, bits, next)
    BY <1>7, ChipRaises
  <2>2. /\ UNCHANGED <<behavior, pin, PacketType, OperatingMode, call, step, irqRegs, callbacks>>
        /\ raced' = (raced \/ call \in {"SetTx", "SetRx"})
        /\ irq' = irq \cup bits
        /\ chip' # "TX" /\ chip' # "RX_ONCE"
        /\ chip' = "RX" => chip = "RX" /\ "RX_TX_TIMEOUT" \notin bits
    BY <2>1 DEF Raises, Raise, driverVars, setup, pollVars
  <2> QED
    BY <2>2
<1> QED
  BY <1>0, <1>1, <1>2, <1>3, <1>4, <1>5, <1>6, <1>7 DEF Next

(* A transmission is amplified until it ends or another operation is       *)
(* begun: once SetTx has cleared the IRQ status undisturbed, no bit is     *)
(* left that ProcessIrqs could take for the end of it and answer with      *)
(* HalPostTx.                                                              *)
THEOREM Amplified == Spec => []AmplifiedOnAir
<1>2. EndInv => AmplifiedOnAir
  BY DEF EndInv
<1> QED
  BY EndInit, EndNext, QuietInit, QuietNext, <1>2, PTL DEF Spec

(* txDone, txTimeout and rxTimeout are called only after the operation that*)
(* SetTx or SetRx started has ended, with the same exception.              *)
THEOREM EndsReported == Spec => []EndReported
<1>2. EndInv => EndReported
  <2> SUFFICES ASSUME EndInv, call = "reported", ~raced
               PROVE  /\ Made("txDone") \/ Made("txTimeout") => chip # "TX"
                      /\ Made("rxTimeout") => chip \notin {"RX", "RX_ONCE"}
    BY DEF EndReported
  <2>1. chip = "TX" => Elements(callbacks) = {}
    BY DispatchedCalls DEF EndInv, FreshIrq, CallsMade, Polling
  <2>2. chip \in {"RX", "RX_ONCE"} => "rxTimeout" \notin Elements(callbacks)
    BY DispatchedCalls DEF EndInv, FreshIrq, CallsMade, Polling
  <2> QED
    BY <2>1, <2>2, MadeElements
<1> QED
  BY EndInit, EndNext, QuietInit, QuietNext, <1>2, PTL DEF Spec

-----------------------------------------------------------------------------
(* The bits tell of the events of a packet type in which they were raised. *)
Tells(type, bits, happened) ==
    /\ "RX_DONE" \in bits <=> "good" \in happened \/ "bad" \in happened
    /\ bits \cap FlagBits(type) # {} <=> "bad" \in happened
    /\ bits \cap ErrorBits(type) # {} <=> "none" \in happened

Traced(bits, s) ==
    "outdated" \notin Elements(s) /\ chipType # "RANGING" => Tells(chipType, bits, Elements(s))

VerdictInv ==
    /\ events \in Seq(EventNames) /\ polled \in Seq(EventNames)
    /\ events = <<>> => irq = {}
    /\ Traced(irq, events)
    /\ Polling => Traced(irqRegs, polled)

LEMMA TracedNothing == Traced({}, <<>>) /\ Traced({}, <<>>)'
<1>1. Elements(<<>>) = {}
  BY DEF Elements
<1> QED
  BY <1>1 DEF Traced, Tells

LEMMA VerdictInit == Init => VerdictInv
BY TracedNothing DEF Init, VerdictInv, Polling

LEMMA VerdictKept ==
    ASSUME VerdictInv, UNCHANGED <<irq, events, chipType>>,
           UNCHANGED <<irqRegs, polled>> \/ polled' \in Seq(EventNames),
           Polling' => Polling /\ UNCHANGED <<irqRegs, polled>>
    PROVE  VerdictInv'
BY DEF VerdictInv, Traced

(* Bits and events are raised together, read together by ProcessIrqs and   *)
(* cleared together; a change of packet type makes what is pending         *)
(* outdated.                                                               *)
LEMMA VerdictNext == VerdictInv /\ [Next]_vars => VerdictInv'
<1> SUFFICES ASSUME VerdictInv, [Next]_vars
             PROVE  VerdictInv'
  OBVIOUS
<1>0. CASE UNCHANGED vars
  BY <1>0, VerdictKept DEF vars, pollVars, chipVars, historyVars, Polling
<1>1. CASE ModeCalls
  <2>1. CASE Reset
    <3>1. /\ irq' = {} /\ events' = <<>> /\ call = "idle"
          /\ UNCHANGED <<call, polled>>
      BY <2>1 DEF Reset, pollVars
    <3> QED
      BY <3>1, TracedNothing DEF VerdictInv, Polling
  <2>2. CASE ModeCalls /\ ~Reset
    <3>1. /\ UNCHANGED <<irq, events, chipType, irqRegs, polled>>
          /\ call' \in {"idle", "hung"}
      BY <2>2 DEF ModeCalls, SetSleep, SetFs, SetStandby, SetCadParams,
                  GetRangingResult, GetRangingPowerDeltaThresholdIndicator,
                  ModeCall, Wakeup, callAsleep, Free, pollVars, chipVars, historyVars
    <3> QED
      BY <3>1, VerdictKept DEF Polling
  <2> QED
    BY <1>1, <2>1, <2>2
<1>2. CASE TypeCalls
  <2>1. ASSUME NEW t \in types, SetPacketType(t)
        PROVE  VerdictInv'
    <3>1. /\ call' = "idle" /\ UNCHANGED <<irq, irqRegs, polled>>
          /\ events' = IF chipType' = chipType \/ events = <<>> THEN events ELSE <<"outdated">>
      BY <2>1 DEF SetPacketType, Outdated, Free, pollVars
    <3>2. CASE chipType' = chipType
      BY <3>1, <3>2, VerdictKept DEF Polling
    <3>3. CASE events = <<>>
      BY <3>1, <3>3, TracedNothing DEF VerdictInv, Polling
    <3>4. CASE ~(chipType' = chipType \/ events = <<>>)
      <4>1. events' = <<"outdated">>
        BY <3>1, <3>4
      <4>2. "outdated" \in EventNames
        BY DEF EventNames
      <4>3. events' \in Seq(EventNames) /\ Elements(events') = {"outdated"}
        BY <4>1, <4>2, ElementsShort, Zenon
      <4>4. events' # <<>>
        BY <4>1
      <4> QED
        BY <3>1, <4>3, <4>4 DEF VerdictInv, Traced, Polling
    <3> QED
      BY <3>2, <3>3, <3>4
  <2>2. CASE GetPacketType
    BY <2>2, VerdictKept DEF GetPacketType, Free, Polling, pollVars, chipVars
  <2> QED
    BY <1>2, <2>1, <2>2 DEF TypeCalls, SetParams
<1>3. CASE Begin
  <2>1. CASE \E op \in {"SetTx", "SetRx"} : clearIrq(op)
    <3>1. /\ irq' = {} /\ events' = <<>> /\ call' \in {"SetTx", "SetRx"}
          /\ UNCHANGED polled
      BY <2>1 DEF clearIrq, pollVars
    <3> QED
      BY <3>1, TracedNothing DEF VerdictInv, Polling
  <2>2. CASE \E op \in Ops \ {"SetTx", "SetRx"} : beginHooks(op)
    <3>1. UNCHANGED <<irq, events, chipType, irqRegs, polled>> /\ call' \in Ops
      BY <2>2 DEF beginHooks, pollVars, chipVars
    <3> QED
      BY <3>1, VerdictKept DEF Polling, Ops, Sending
  <2> QED
    BY <1>3, <2>1, <2>2 DEF Begin
<1>4. CASE Hooks \/ Commands
  <2>1. UNCHANGED <<irq, events, chipType, irqRegs, polled>> /\ (call' = call \/ call' = "idle")
    BY <1>4 DEF Hooks, SetRangingRole, postHook, preHook, Commands, SetTx, SetRx, SetRxDutyCycle,
                SetCad, SetTxContinuous, Command, pollVars, chipVars, historyVars
  <2> QED
    BY <2>1, VerdictKept DEF Polling
<1>5. CASE Poll
  <2>1. CASE ProcessIrqs
    <3>1. irqRegs' = irq /\ polled' = events /\ UNCHANGED <<irq, events, chipType>>
      BY <2>1 DEF ProcessIrqs, chipVars, historyVars
    <3> QED
      BY <3>1 DEF VerdictInv, Traced
  <2>2. CASE dispatch
    <3>1. /\ irq' = {} /\ events' = <<>> /\ call = "poll"
          /\ UNCHANGED <<irqRegs, polled, chipType>>
      BY <2>2 DEF dispatch
    <3>2. (Polling => Traced(irqRegs, polled))'
      BY <3>1 DEF VerdictInv, Traced, Polling
    <3> QED
      BY <3>1, <3>2, TracedNothing DEF VerdictInv
  <2>3. CASE processIrqsReturns
    <3>1. /\ polled' = <<>> /\ call' = "idle" /\ UNCHANGED <<irq, events, chipType>>
      BY <2>3 DEF processIrqsReturns, chipVars, historyVars
    <3>2. polled' \in Seq(EventNames)
      BY <3>1
    <3> QED
      BY <3>1, <3>2, VerdictKept DEF Polling
  <2> QED
    BY <1>5, <2>1, <2>2, <2>3 DEF Poll
<1>6. CASE Chip
  <2>1. PICK event, bits, next : Raises(event, bits, next) /\ Raise(event, bits, next)
    BY <1>6, ChipRaises
  <2>2. /\ events' = Append(events, event) /\ irq' = irq \cup bits
        /\ UNCHANGED <<call, irqRegs, polled, chipType>>
    BY <2>1 DEF Raise, pollVars
  <2>3. event \in EventNames /\ event # "outdated"
    BY <2>1 DEF Raises
  <2>4. /\ <<event>> \in Seq(EventNames) /\ Elements(<<event>>) = {event}
        /\ Append(events, event) = events \o <<event>>
    BY <2>3, ElementsShort DEF VerdictInv
  <2>5. events' \in Seq(EventNames) /\ Elements(events') = Elements(events) \cup {event}
    <3> DEFINE last == <<event>>
    <3>1. last \in Seq(EventNames) /\ events \in Seq(EventNames) /\ events' = events \o last
      BY <2>2, <2>4 DEF VerdictInv
    <3>2. Elements(last) = {event}
      BY <2>4
    <3> HIDE DEF last
    <3>3. /\ events \o last \in Seq(EventNames)
          /\ Elements(events \o last) = Elements(events) \cup Elements(last)
      BY <3>1, ElementsConcat
    <3> QED
      BY <3>1, <3>2, <3>3
  <2>6. events' # <<>>
    BY <2>2 DEF VerdictInv
  <2>7. Traced(irq, events)'
    <3> SUFFICES ASSUME "outdated" \notin Elements(events'), chipType # "RANGING"
                 PROVE  Tells(chipType, irq \cup bits, Elements(events) \cup {event})
      BY <2>2, <2>5 DEF Traced
    <3>1. Tells(chipType, irq, Elements(events))
      BY <2>5 DEF VerdictInv, Traced
    <3> QED
      BY <2>1, <3>1 DEF Tells, Raises
  <2>8. (Polling => Traced(irqRegs, polled))'
    BY <2>2 DEF VerdictInv, Traced, Polling
  <2> QED
    BY <2>2, <2>5, <2>6, <2>7, <2>8 DEF VerdictInv
<1> QED
  BY <1>0, <1>1, <1>2, <1>3, <1>4, <1>5, <1>6 DEF Next

(* ProcessIrqs' rxDone and rxError in receive mode, read from the bits.    *)
LEMMA VerdictBits ==
    ASSUME NEW type \in PacketTypes \ {"RANGING"}, NEW regs, NEW calls,
           calls = Elements(Dispatched(type, "RX", regs))
    PROVE  /\ "rxDone" \in calls <=> "RX_DONE" \in regs /\ regs \cap FlagBits(type) = {}
           /\ "rxError" \in calls <=>
                \/ "RX_DONE" \in regs /\ regs \cap FlagBits(type) # {}
                \/ regs \cap ErrorBits(type) # {}
                \/ type # "LORA" /\ "SYNCWORD_ERROR" \in regs
<1>1. CASE type = "LORA"
  <2>1. Dispatched(type, "RX", regs) = dispatchLoRa("RX", regs)
    BY <1>1 DEF Dispatched
  <2> QED
    BY <1>1, <2>1, LoRaRxCalls DEF When, FlagBits, ErrorBits
<1>2. CASE type \in {"GFSK", "FLRC", "BLE"}
  <2>1. Dispatched(type, "RX", regs) = dispatchPacket("RX", regs)
    BY <1>2 DEF Dispatched
  <2> QED
    BY <1>2, <2>1, PacketRxCalls, VerdictCalls DEF When, FlagBits, ErrorBits
<1> QED
  BY <1>1, <1>2 DEF PacketTypes

(* rxDone and rxError say what was received, for every packet type but     *)
(* RANGING and any number of receptions merged in one IRQ status.          *)
THEOREM Verdict == Spec => []VerdictMatches
<1>1. TypeOK /\ RoleInv /\ EndInv /\ VerdictInv => VerdictMatches
  <2> SUFFICES ASSUME TypeOK, RoleInv, EndInv, VerdictInv,
                      call = "reported", OperatingMode = "RX", PacketType # "RANGING",
                      typed, "outdated" \notin Verdicts
               PROVE  /\ Made("rxDone") <=> "good" \in Verdicts /\ "bad" \notin Verdicts
                      /\ Len(polled) = 1 => (Made("rxError") <=> polled[1] \in {"bad", "none"})
    BY DEF VerdictMatches
  <2>1. PacketType = chipType /\ PacketType \in PacketTypes \ {"RANGING"}
    BY DriverAssumption DEF RoleInv, TypeAgrees, TypeOK, PacketTypes
  <2>2. Verdicts = Elements(polled)
    BY DEF Verdicts, Elements
  <2>3. Tells(PacketType, irqRegs, Verdicts)
    BY <2>1, <2>2 DEF VerdictInv, Traced, Polling
  <2>4. callbacks = Dispatched(PacketType, "RX", irqRegs)
    BY DEF EndInv, CallsMade
  <2>5. /\ Made("rxDone") <=> "rxDone" \in Elements(Dispatched(PacketType, "RX", irqRegs))
        /\ Made("rxError") <=> "rxError" \in Elements(Dispatched(PacketType, "RX", irqRegs))
    BY <2>4, MadeElements
  <2>6. Made("rxDone") <=> "good" \in Verdicts /\ "bad" \notin Verdicts
    BY <2>1, <2>3, <2>5, VerdictBits DEF Tells
  <2>7. ASSUME Len(polled) = 1
        PROVE  Made("rxError") <=> polled[1] \in {"bad", "none"}
    <3>1. Verdicts = {polled[1]}
      BY <2>7 DEF Verdicts, VerdictInv
    <3>2. PacketType # "LORA" /\ "SYNCWORD_ERROR" \in irqRegs => irqRegs \cap FlagBits(PacketType) # {}
      BY DEF FlagBits
    <3> QED
      BY <2>1, <2>3, <2>5, <3>1, <3>2, VerdictBits DEF Tells
  <2> QED
    BY <2>6, <2>7
<1>2. QuietInv => StepInv
  BY DEF QuietInv
<1> QED
  BY TypeInit, TypeNext, QuietInit, QuietNext, RoleInit, RoleNext, EndInit, EndNext,
     VerdictInit, VerdictNext, <1>1, <1>2, PTL DEF Spec

-----------------------------------------------------------------------------
LEMMA Powers == /\ 2^0 = 1 /\ 2^1 = 2 /\ 2^2 = 4 /\ 2^3 = 8 /\ 2^4 = 16
                /\ 2^5 = 32 /\ 2^6 = 64 /\ 2^7 = 128 /\ 2^8 = 256
OBVIOUS

LEMMA PowerExact == PowerRange
BY DEF PowerRange, SetTxParams, PowerOfRegister

(* Every 16-bit value survives the split into two bytes.                   *)
LEMMA SplitJoin ==
    ASSUME NEW n \in Int, 0 <= n, n < 65536
    PROVE  Join16(Split16(n)) = n
<1> DEFINE q == n \div 256
           r == n % 256
<1>1. q \in 0..255 /\ r \in 0..255 /\ n = 256 * q + r
  OBVIOUS
<1>2. q % 256 = q
  BY <1>1
<1>3. Join16(Split16(n)) = (q % 256) * 256 + r
  BY DEF Join16, Split16
<1> QED
  BY <1>1, <1>2, <1>3

(* An auto-TX time under the offset wraps around to one of some 65 ms.     *)
LEMMA AutoTxExact ==
    ASSUME NEW t \in Int, 0 <= t, t < 65536
    PROVE  Join16(SetAutoTx(t)) + AUTO_TX_OFFSET = t <=> t >= AUTO_TX_OFFSET
<1> DEFINE x == t - AUTO_TX_OFFSET
           n == x % 65536
<1>1. x \in Int /\ x = t - 33 /\ -33 <= x /\ x < 65536
  BY DEF AUTO_TX_OFFSET
<1> HIDE DEF x
<1>2. n \in Int /\ 0 <= n /\ n < 65536 /\ (0 <= x => n = x) /\ (x < 0 => n = x + 65536)
  BY <1>1
<1> HIDE DEF n
<1>3. Join16(Split16(n)) = n
  BY <1>2, SplitJoin
<1>4. SetAutoTx(t) = Split16(n)
  BY DEF SetAutoTx, n, x
<1> QED
  BY <1>1, <1>2, <1>3, <1>4 DEF AUTO_TX_OFFSET

LEMMA BleLengthExact == BleRange
BY DEF BleRange, GetRxBufferStatus, Bytes

LEMMA BitsOf ==
    ASSUME NEW n \in Bytes, NEW k \in {4, 5, 6, 7}
    PROVE  Bit(n, k) \in {0, 1}
<1>1. 2^k \in {16, 32, 64, 128}
  <2>1. CASE k = 4
    BY <2>1
  <2>2. CASE k = 5
    BY <2>2
  <2>3. CASE k = 6
    BY <2>3
  <2>4. CASE k = 7
    BY <2>4
  <2> QED
    BY <2>1, <2>2, <2>3, <2>4
<1>2. n \div 2^k \in Int
  BY <1>1 DEF Bytes
<1> QED
  BY <1>2 DEF Bit

(* The high half of a byte is its four high bits.                          *)
LEMMA HighBits ==
    ASSUME NEW n \in Bytes
    PROVE  High(n) = Bit(n, 4) + 2 * Bit(n, 5) + 4 * Bit(n, 6) + 8 * Bit(n, 7)
BY Powers DEF High, Bit, Bytes

(* SetManualGainValue, for every register value.                           *)
LEMMA GainExact ==
    ASSUME NEW r \in Bytes, NEW g \in Bytes
    PROVE  High(SetManualGainValue(r, g)) = High(r) <=> \A k \in 4..7 : Bit(g, k) <= Bit(r, k)
<1> DEFINE b(k) == IF (k >= 4 /\ Bit(r, k) = 1) \/ Bit(g, k) = 1 THEN 1 ELSE 0
           low  == b(0) + 2 * b(1) + 4 * b(2) + 8 * b(3)
           high == b(4) + 2 * b(5) + 4 * b(6) + 8 * b(7)
<1>1. SetManualGainValue(r, g) = low + 16 * high
  BY Powers DEF SetManualGainValue
<1>2. low \in 0..15 /\ high \in 0..15
  OBVIOUS
<1>3. High(SetManualGainValue(r, g)) = high
  BY <1>1, <1>2 DEF High
<1>4. \A k \in {4, 5, 6, 7} : Bit(r, k) \in {0, 1} /\ Bit(g, k) \in {0, 1}
  BY BitsOf
<1>6. High(r) = Bit(r, 4) + 2 * Bit(r, 5) + 4 * Bit(r, 6) + 8 * Bit(r, 7)
  BY HighBits
<1>7. high = High(r) <=> /\ Bit(g, 4) <= Bit(r, 4) /\ Bit(g, 5) <= Bit(r, 5)
                         /\ Bit(g, 6) <= Bit(r, 6) /\ Bit(g, 7) <= Bit(r, 7)
  <2> DEFINE r4 == Bit(r, 4)
             r5 == Bit(r, 5)
             r6 == Bit(r, 6)
             r7 == Bit(r, 7)
             g4 == Bit(g, 4)
             g5 == Bit(g, 5)
             g6 == Bit(g, 6)
             g7 == Bit(g, 7)
  <2>1. /\ r4 \in {0, 1} /\ r5 \in {0, 1} /\ r6 \in {0, 1} /\ r7 \in {0, 1}
        /\ g4 \in {0, 1} /\ g5 \in {0, 1} /\ g6 \in {0, 1} /\ g7 \in {0, 1}
    BY <1>4
  <2>2. high = (IF r4 = 1 \/ g4 = 1 THEN 1 ELSE 0) + 2 * (IF r5 = 1 \/ g5 = 1 THEN 1 ELSE 0)
               + 4 * (IF r6 = 1 \/ g6 = 1 THEN 1 ELSE 0) + 8 * (IF r7 = 1 \/ g7 = 1 THEN 1 ELSE 0)
    OBVIOUS
  <2>3. High(r) = r4 + 2 * r5 + 4 * r6 + 8 * r7
    BY <1>6
  <2> HIDE DEF r4, r5, r6, r7, g4, g5, g6, g7, high
  <2>4. high = High(r) <=> g4 <= r4 /\ g5 <= r5 /\ g6 <= r6 /\ g7 <= r7
    BY <2>1, <2>2, <2>3
  <2> QED
    BY <2>4 DEF r4, r5, r6, r7, g4, g5, g6, g7
<1>8. \A k : k \in 4..7 <=> k \in {4, 5, 6, 7}
  OBVIOUS
<1> QED
  BY <1>3, <1>7, <1>8

(* A two's complement value has one residue in its range.                  *)
LEMMA SignedUnique ==
    ASSUME NEW h \in {2, 4, 8, 16, 32, 64, 128}, NEW n \in 0..2 * h - 1,
           NEW v \in -h..h - 1, (n - v) % (2 * h) = 0
    PROVE  v = IF n >= h THEN n - 2 * h ELSE n
BY SMTT(30)

LEMMA SignedExact ==
    ASSUME NEW bits \in 2..8, NEW n \in 0..2^bits - 1
    PROVE  /\ SignedOf(n, bits) = IF n >= 2^(bits - 1) THEN n - 2^bits ELSE n
           /\ complement2(n, bits) = SignedOf(n, bits)
<1> DEFINE h == 2^(bits - 1)
           w == IF n >= h THEN n - 2 * h ELSE n
<1>1. h \in {2, 4, 8, 16, 32, 64, 128} /\ 2^bits = 2 * h /\ 2 * 2^(bits - 2) = h
  <2>1. bits \in {2, 3, 4, 5, 6, 7, 8}
    OBVIOUS
  <2>2. CASE bits = 2
    BY <2>2, bits - 1 = 1, bits - 2 = 0, Powers
  <2>3. CASE bits = 3
    BY <2>3, bits - 1 = 2, bits - 2 = 1, Powers
  <2>4. CASE bits = 4
    BY <2>4, bits - 1 = 3, bits - 2 = 2, Powers
  <2>5. CASE bits = 5
    BY <2>5, bits - 1 = 4, bits - 2 = 3, Powers
  <2>6. CASE bits = 6
    BY <2>6, bits - 1 = 5, bits - 2 = 4, Powers
  <2>7. CASE bits = 7
    BY <2>7, bits - 1 = 6, bits - 2 = 5, Powers
  <2>8. CASE bits = 8
    BY <2>8, bits - 1 = 7, bits - 2 = 6, Powers
  <2> QED
    BY <2>2, <2>3, <2>4, <2>5, <2>6, <2>7, <2>8, <2>1
<1> HIDE DEF h
<1>2. w \in -h..h - 1 /\ (n - w) % (2 * h) = 0
  BY <1>1
<1>3. \A v \in -h..h - 1 : (n - v) % (2 * h) = 0 => v = w
  BY <1>1, SignedUnique
<1>4. SignedOf(n, bits) = CHOOSE v \in -h..h - 1 : (n - v) % (2 * h) = 0
  BY <1>1 DEF SignedOf, h
<1>5. SignedOf(n, bits) = w
  BY <1>2, <1>3, <1>4
<1>6. complement2(n, bits) = w
  BY <1>1 DEF complement2, h
<1> QED
  BY <1>1, <1>5, <1>6 DEF h
LEMMA LevelExact ==
    ASSUME NEW s \in Bytes
    PROVE  RssiPkt(s) \in -128..127 /\ 4 * SnrPkt(s) - SignedOf(s, 8) \in -3..3
<1>1. SignedOf(s, 8) = IF s >= 128 THEN s - 256 ELSE s
  <2>1. 8 - 1 = 7 /\ 8 \in 2..8
    OBVIOUS
  <2>2. s \in 0..2^8 - 1
    BY Powers DEF Bytes
  <2> QED
    BY <2>1, <2>2, Powers, SignedExact
<1> QED
  BY <1>1 DEF RssiPkt, SnrPkt, Bytes

(* Sync word k lives in the k-th five bytes.                               *)
LEMMA SlotsApart ==
    ASSUME NEW type, NEW i \in 1..3, NEW j \in 1..3, i # j
    PROVE  Slot(type, i) \cap Slot(type, j) = {}
<1>1. SyncWordBase[1] = 0 /\ SyncWordBase[2] = 5 /\ SyncWordBase[3] = 10
  BY DEF SyncWordBase
<1>2. \A k \in 1..3 : Slot(type, k) \subseteq 5 * k - 5..5 * k - 1
  <2> TAKE k \in 1..3
  <2>1. SyncWordBase[k] = 5 * k - 5
    BY <1>1
  <2>2. CASE type = "GFSK"
    <3>1. SetSyncWord(type, k) = [from |-> 5 * k - 5, size |-> 5]
      BY <2>1, <2>2 DEF SetSyncWord
    <3> QED
      BY <3>1 DEF Slot
  <2>3. CASE type = "FLRC" \/ (type = "BLE" /\ k = 1)
    <3>1. SetSyncWord(type, k) = [from |-> 5 * k - 5 + 1, size |-> 4]
      BY <2>1, <2>3 DEF SetSyncWord
    <3> QED
      BY <3>1 DEF Slot
  <2>4. CASE type \notin {"GFSK", "FLRC", "BLE"} \/ (type = "BLE" /\ k # 1)
    <3>1. SetSyncWord(type, k) = [from |-> 0, size |-> 0]
      BY <2>4 DEF SetSyncWord
    <3> QED
      BY <3>1 DEF Slot
  <2> QED
    BY <2>2, <2>3, <2>4
<1> QED
  BY <1>2

(* The conversions are exact within the ranges of the chip and nowhere     *)
(* else, in every state the driver reaches.                                *)
THEOREM Exact == Spec => []CodecExact
<1>1. RangesExact
  <2>1. AutoTxRange
    BY AutoTxExact DEF AutoTxRange
  <2>2. GainRange
    <3>1. {0, 15, 128, 240, 255} \subseteq Bytes
      BY DEF Bytes
    <3> QED
      BY <3>1, GainExact DEF GainRange
  <2>3. SignedRange
    BY SignedExact DEF SignedRange
  <2>4. LevelRange
    BY LevelExact DEF LevelRange
  <2> QED
    BY <2>1, <2>2, <2>3, <2>4, PowerExact, BleLengthExact DEF RangesExact
<1>2. CodecExact
  BY <1>1, SlotsApart DEF CodecExact
<1> QED
  BY <1>2, PTL
=============================================================================
