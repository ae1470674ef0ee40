------------------------------ MODULE NodeBoot ------------------------------
(***************************************************************************)
(* Bringing the node up: LoRaRadioAdapter::ensureNodeStarted, called on    *)
(* every tick until it succeeds, LoRaNode::start and the constructor of    *)
(* LinuxSx1280Radio, step by step, with a failure possible at each.        *)
(*                                                                         *)
(* A process has a bounded number of file descriptors; the SPI device, the *)
(* GPIO chip and every requested line take one each, and a line has one    *)
(* holder at a time (external: the kernel).  A constructor that throws     *)
(* does not run ~Impl, so what it had opened stays open.                   *)
(***************************************************************************)
EXTENDS NodeConfigYaml, LinuxHal

CONSTANTS
    Files,          \* contents the configuration file may have at the start
    Edits,          \* contents an operator may replace it by
    MaxFds,         \* bound: descriptors the radios may have open
    MaxFaults       \* bound: hardware faults and file edits in a behaviour

ASSUME FileAssumption  == \A f \in Files \cup Edits : KnownLines(f)
ASSUME BoundAssumption == MaxFds \in Nat /\ MaxFaults \in Nat

VARIABLES
    file,           \* external: lines of the configuration file
    readable,       \* external: the file can be opened
    m_nodeConfig,   \* LoRaRadioAdapter::m_nodeConfig
    config,         \* configurations of the static node: <<>> until it is built
    origin,         \* history: the file the static node was built from
    m_started,      \* LoRaRadioAdapter::m_started, LoRaNode::Impl::started
    pc,             \* where ensureNodeStarted is: "idle" between ticks
    radio,          \* the radio under construction or configuration
    todo,           \* pins of it still to be requested
    held,           \* lines held by the live object of each radio
    opened,         \* descriptors of the live object of each radio
    leakedLines,    \* lines nobody will release
    leakedFds,      \* descriptors nobody will close
    pin,            \* TX-enable pin of each radio
    listening,      \* external, receive chip: "no" | "once" | "forever"
    stuck,          \* external: radios whose BUSY line never falls
    faults,         \* faults so far
    retried,        \* history: a start has failed
    dead            \* an exception left a thread: std::terminate

envVars    == <<file, readable, stuck>>
handleVars == <<held, opened, leakedLines, leakedFds>>
nodeVars   == <<m_nodeConfig, config, origin, m_started>>
vars == <<envVars, nodeVars, pc, radio, todo, handleVars, pin, listening, faults, retried, dead>>

Radio == {"RadiosRx", "RadiosTx"}

Cfg(k) == config[1][<<radio, k>>]

(* The pins requestGpioLines asks for, in its order.                       *)
Optional(cfg, r, flag, p) == IF cfg[<<r, flag>>] THEN <<p>> ELSE <<>>

PinsOf(cfg, r) ==
    <<"reset", "busy">> \o Optional(cfg, r, "has_dio1", "dio1")
    \o Optional(cfg, r, "has_dio2", "dio2") \o Optional(cfg, r, "has_dio3", "dio3")
    \o Optional(cfg, r, "has_tx_enable", "tx_enable")

LineOf(cfg, r, p) == <<cfg[<<r, "chip">>], cfg[<<r, p>>]>>
LinesOf(cfg, r)   == {LineOf(cfg, r, PinsOf(cfg, r)[i]) : i \in 1..Len(PinsOf(cfg, r))}

(* External: a line is free when no object, live or lost, holds it.        *)
LineFree(l) == l \notin leakedLines /\ \A r \in Radio : l \notin held[r]

Fds == leakedFds + opened["RadiosRx"] + opened["RadiosTx"]

TypeOK ==
    /\ readable \in BOOLEAN
    /\ Len(config) \in {0, 1}
    /\ m_started \in BOOLEAN
    /\ pc \in {"idle", "openSpi", "openGpioChip", "requestGpioLines", "configure",
               "listen", "hung"}
    /\ radio \in Radio
    /\ Len(todo) \in 0..6
    /\ Fds \in 0..MaxFds
    /\ pin \in [Radio -> BOOLEAN]
    /\ listening \in {"no", "once", "forever"}
    /\ stuck \subseteq Radio
    /\ faults \in 0..MaxFaults
    /\ retried \in BOOLEAN /\ dead \in BOOLEAN

Init ==
    /\ file \in Files
    /\ readable \in BOOLEAN
    /\ m_nodeConfig = DefaultConfig
    /\ config = <<>>
    /\ origin = <<>>
    /\ m_started = FALSE
    /\ pc = "idle"
    /\ radio = "RadiosRx"
    /\ todo = <<>>
    /\ held = [r \in Radio |-> {}]
    /\ opened = [r \in Radio |-> 0]
    /\ leakedLines = {}
    /\ leakedFds = 0
    /\ pin = [r \in Radio |-> FALSE]
    /\ listening = "no"
    /\ stuck = {}
    /\ faults = 0
    /\ retried = FALSE
    /\ dead = FALSE

(* External: an operation on the hardware fails although it could succeed. *)
Fault == faults < MaxFaults /\ faults' = faults + 1

(***************************************************************************)
(* Endings of start().                                                     *)
(***************************************************************************)

(* The live objects go out of scope or are reset: ~Impl releases lines,    *)
(* chip and device.                                                        *)
releaseAll ==
    /\ held' = [r \in Radio |-> {}]
    /\ opened' = [r \in Radio |-> 0]

giveUp ==
    /\ pc' = "idle"
    /\ todo' = <<>>
    /\ retried' = TRUE
    /\ pin' = [r \in Radio |-> FALSE]

(* The constructor throws with `extra' descriptors open beyond those       *)
(* recorded: they and its lines are lost, the other radio is destroyed.    *)
constructorThrows(extra) ==
    /\ leakedLines' = leakedLines \cup held[radio]
    /\ leakedFds' = leakedFds + opened[radio] + extra
    /\ releaseAll
    /\ giveUp
    /\ UNCHANGED <<envVars, nodeVars, radio, listening, dead>>

(* A failure once both objects exist is caught and both are destroyed.     *)
startThrows ==
    /\ Fault
    /\ releaseAll
    /\ giveUp
    /\ UNCHANGED <<envVars, nodeVars, radio, leakedLines, leakedFds, listening, dead>>

(***************************************************************************)
(* One tick while the node is down.                                        *)
(***************************************************************************)

(* What the loader makes of each file.                                     *)
Loaded == [f \in Files \cup Edits |-> loadNodeConfigFromYaml(f)]

(* Mutations of ensureNodeStarted: the node is built before the file is    *)
(* read; a failed start is not tried again.                                *)
ensureNodeStartedEarly ==
    /\ pc = "idle"
    /\ ~m_started
    /\ readable /\ Fds < MaxFds
    /\ m_nodeConfig' = Loaded[file]
    /\ config' = IF config = <<>> THEN <<m_nodeConfig>> ELSE config
    /\ origin' = IF config = <<>> THEN file ELSE origin
    /\ pc' = "openSpi"
    /\ radio' = "RadiosRx"
    /\ UNCHANGED <<envVars, m_started, todo, handleVars, pin, listening, faults, retried, dead>>

ensureNodeStartedOnce ==
    /\ pc = "idle"
    /\ ~m_started /\ ~retried
    /\ readable /\ Fds < MaxFds
    /\ m_nodeConfig' = Loaded[file]
    /\ config' = IF config = <<>> THEN <<m_nodeConfig'>> ELSE config
    /\ origin' = IF config = <<>> THEN file ELSE origin
    /\ pc' = "openSpi"
    /\ radio' = "RadiosRx"
    /\ UNCHANGED <<envVars, m_started, todo, handleVars, pin, listening, faults, retried, dead>>

(* ensureNodeStarted up to start(): the file is read on every attempt, the *)
(* static node takes the configuration of the first.                       *)
ensureNodeStarted ==
    /\ pc = "idle"
    /\ ~m_started
    /\ readable /\ Fds < MaxFds
    /\ m_nodeConfig' = Loaded[file]
    /\ config' = IF config = <<>> THEN <<m_nodeConfig'>> ELSE config
    /\ origin' = IF config = <<>> THEN file ELSE origin
    /\ pc' = "openSpi"
    /\ radio' = "RadiosRx"
    /\ UNCHANGED <<envVars, m_started, todo, handleVars, pin, listening, faults, retried, dead>>

(* validateConfig throws before anything is open.                          *)
Valid == /\ Cfg("device") # ""
         /\ Cfg("chip") # ""
         /\ Cfg("has_tx_enable") \/ Cfg("tx_enable_behavior") = "None"

validateConfig ==
    /\ pc = "openSpi"
    /\ ~Valid
    /\ constructorThrows(0)
    /\ UNCHANGED faults

(* openSpi: open() may fail, or an ioctl after it.                         *)
openSpi ==
    /\ pc = "openSpi"
    /\ Valid
    /\ \/ /\ Fds < MaxFds
          /\ opened' = [opened EXCEPT ![radio] = 1]
          /\ pc' = "openGpioChip"
          /\ UNCHANGED <<envVars, nodeVars, radio, todo, held, leakedLines, leakedFds, pin,
                         listening, faults, retried, dead>>
       \/ Fds = MaxFds /\ constructorThrows(0) /\ UNCHANGED faults
       \/ Fault /\ constructorThrows(0)
       \/ Fds < MaxFds /\ Fault /\ constructorThrows(1)

openGpioChip ==
    /\ pc = "openGpioChip"
    /\ \/ /\ Fds < MaxFds
          /\ opened' = [opened EXCEPT ![radio] = 2]
          /\ pc' = "requestGpioLines"
          /\ todo' = PinsOf(config[1], radio)
          /\ UNCHANGED <<envVars, nodeVars, radio, held, leakedLines, leakedFds, pin,
                         listening, faults, retried, dead>>
       \/ Fds = MaxFds /\ constructorThrows(0) /\ UNCHANGED faults
       \/ Fault /\ constructorThrows(0)

NextLine == LineOf(config[1], radio, Head(todo))
Grantable == LineFree(NextLine) /\ Fds < MaxFds

(* Mutations of requestRefused: it is tried again until it is granted; the *)
(* null request is not noticed.                                            *)
requestRefusedRetries ==
    /\ pc = "requestGpioLines"
    /\ todo # <<>>
    /\ ~Grantable
    /\ UNCHANGED vars

requestRefusedSilently ==
    /\ pc = "requestGpioLines"
    /\ todo # <<>>
    /\ ~Grantable
    /\ todo' = Tail(todo)
    /\ UNCHANGED <<envVars, nodeVars, pc, radio, handleVars, pin, listening, faults, retried, dead>>

(* requestInputLine and requestOutputLine.                                 *)
requestRefused ==
    /\ pc = "requestGpioLines"
    /\ todo # <<>>
    /\ \/ ~Grantable /\ UNCHANGED faults
       \/ Fault
    /\ constructorThrows(0)

(* Mutation of requestGranted: the chip handle is opened again each time.  *)
requestGrantedReopens ==
    /\ pc = "requestGpioLines"
    /\ todo # <<>>
    /\ Grantable
    /\ held' = [held EXCEPT ![radio] = @ \cup {NextLine}]
    /\ opened' = [opened EXCEPT ![radio] = @ + 2]
    /\ todo' = Tail(todo)
    /\ UNCHANGED <<envVars, nodeVars, pc, radio, leakedLines, leakedFds, pin, listening, faults,
                   retried, dead>>

requestGranted ==
    /\ pc = "requestGpioLines"
    /\ todo # <<>>
    /\ Grantable
    /\ held' = [held EXCEPT ![radio] = @ \cup {NextLine}]
    /\ opened' = [opened EXCEPT ![radio] = @ + 1]
    /\ todo' = Tail(todo)
    /\ UNCHANGED <<envVars, nodeVars, pc, radio, leakedLines, leakedFds, pin, listening, faults,
                   retried, dead>>

(* applyInitialTxEnableState, the end of the constructor; start() builds   *)
(* the receive radio, then the transmit radio, then configures both.       *)
applyInitial ==
    /\ pc = "requestGpioLines"
    /\ todo = <<>>
    /\ \/ /\ pin' = [pin EXCEPT ![radio] = applyInitialTxEnableState(Cfg("tx_enable_behavior"))]
          /\ IF radio = "RadiosRx"
             THEN pc' = "openSpi" /\ radio' = "RadiosTx"
             ELSE pc' = "configure" /\ radio' = "RadiosRx"
          /\ UNCHANGED <<envVars, nodeVars, todo, handleVars, listening, faults, retried, dead>>
       \/ Cfg("has_tx_enable") /\ Fault /\ constructorThrows(0)

(* configure_radio: a run of commands, each of which waits for BUSY to     *)
(* fall; a radio whose BUSY line is stuck is waited for without end.       *)
configure_radio ==
    /\ pc = "configure"
    /\ \/ /\ radio \notin stuck
          /\ IF radio = "RadiosRx"
             THEN pc' = "configure" /\ radio' = "RadiosTx"
             ELSE pc' = "listen" /\ radio' = "RadiosRx"
          /\ UNCHANGED <<envVars, nodeVars, todo, handleVars, pin, listening, faults, retried, dead>>
       \/ /\ radio \in stuck
          /\ pc' = "hung"
          /\ UNCHANGED <<envVars, nodeVars, radio, todo, handleVars, pin, listening, faults,
                         retried, dead>>
       \/ startThrows

(* The timeout SetRx is given; 0xFFFF is the chip's continuous mode.       *)
RxTimeout == IF config[1][<<"Timeouts", "continuous_rx">>] THEN 65535
             ELSE config[1][<<"Timeouts", "rx_ms">>]

(* The IRQ masks, SetRx with its pin hooks, and started.                   *)
setRx ==
    /\ pc = "listen"
    /\ \/ /\ stuck = {}
          /\ pin' = [pin EXCEPT !["RadiosRx"] =
                        LET b == config[1][<<"RadiosRx", "tx_enable_behavior">>]
                        IN  HalPreRx(b, HalPostTx(b, @))]
          /\ listening' = IF RxTimeout = 65535 THEN "forever" ELSE "once"
          /\ m_started' = TRUE
          /\ pc' = "idle"
          /\ UNCHANGED <<envVars, m_nodeConfig, config, origin, radio, todo, handleVars, faults,
                         retried, dead>>
       \/ /\ stuck # {}
          /\ pc' = "hung"
          /\ UNCHANGED <<envVars, nodeVars, radio, todo, handleVars, pin, listening, faults,
                         retried, dead>>
       \/ startThrows

(***************************************************************************)
(* The running node.                                                       *)
(***************************************************************************)

(* poll and send on a started node talk to the chips: a failed transfer is *)
(* an exception nobody catches, a stuck BUSY line stops the caller.        *)
nodeFails ==
    /\ pc = "idle"
    /\ m_started
    /\ \/ /\ Fault
          /\ dead' = TRUE
          /\ UNCHANGED pc
       \/ /\ stuck # {}
          /\ pc' = "hung"
          /\ UNCHANGED <<faults, dead>>
    /\ UNCHANGED <<envVars, nodeVars, radio, todo, handleVars, pin, listening, retried>>

(* External: a single reception ends with a packet or a timeout; nothing   *)
(* calls SetRx again.                                                      *)
receptionEnds ==
    /\ m_started
    /\ listening = "once"
    /\ listening' = "no"
    /\ UNCHANGED <<envVars, nodeVars, pc, radio, todo, handleVars, pin, faults, retried, dead>>

(***************************************************************************)
(* The environment.                                                        *)
(***************************************************************************)
editFile ==
    /\ pc = "idle" /\ ~m_started
    /\ file' \in Edits \ {file}
    /\ Fault
    /\ readable' = TRUE
    /\ UNCHANGED <<stuck, nodeVars, pc, radio, todo, handleVars, pin, listening, retried, dead>>

busySticks ==
    /\ Fault
    /\ \E r \in Radio \ stuck : stuck' = stuck \cup {r}
    /\ UNCHANGED <<file, readable, nodeVars, pc, radio, todo, handleVars, pin, listening, retried,
                   dead>>

-----------------------------------------------------------------------------
Constructor == \/ validateConfig \/ openSpi \/ openGpioChip
               \/ requestRefused \/ requestGranted \/ applyInitial
Start       == Constructor \/ configure_radio \/ setRx
Environment == editFile \/ busySticks \/ receptionEnds

Next == ~dead /\ (ensureNodeStarted \/ Start \/ nodeFails \/ Environment)

Spec == Init /\ [][Next]_vars

(* The rate group keeps ticking and its thread keeps running.              *)
FairSpec == Spec /\ WF_vars(~dead /\ (ensureNodeStarted \/ Start))
-----------------------------------------------------------------------------
(* The configuration the loader produces is what the file says, for any    *)
(* order and repetition of headers and keys: keys land in the section and  *)
(* sub-section of the headers above them, the last valid line wins, and a  *)
(* line that cannot be converted leaves the value before it.               *)
LoadedAsWritten ==
    pc = "openSpi" /\ radio = "RadiosRx" => m_nodeConfig = Written(file)

(* A started node has both radios complete: every configured line is held, *)
(* each pin of the two radios has a line of its own, and the TX-enable pin *)
(* is where the behaviour wants it.                                        *)
StartedComplete ==
    m_started =>
        \A r \in Radio :
            /\ held[r] = LinesOf(config[1], r)
            /\ opened[r] = 2 + Len(PinsOf(config[1], r))
            /\ Cardinality(held[r]) = Len(PinsOf(config[1], r))
            /\ \A s \in Radio \ {r} : held[r] \cap held[s] = {}
            /\ pin[r] <=> config[1][<<r, "tx_enable_behavior">>] = "StaticAsserted"

(* One constructor that threw after its first line was granted keeps the   *)
(* node down for the life of the process, whatever is repaired afterwards. *)
NeverUpAfterLineLeak == leakedLines # {} => ~m_started

(* The static node has the configuration the adapter holds unless a start  *)
(* failed: only then can the file have changed under it.                   *)
StaleOnlyAfterFailure ==
    config # <<>> /\ ~retried => config[1] = m_nodeConfig

(* What the lines of a file say of listening: their last valid             *)
(* continuous_rx is not false, or their last valid rx_ms, before it is     *)
(* clamped to 16 bits, is 65535 or more.                                   *)
SaysForever(lines) ==
    LET c == Writers(lines, <<"Timeouts", "continuous_rx">>)
        t == Writers(lines, <<"Timeouts", "rx_ms">>)
    IN  \/ c = {} \/ lines[Max(c)].value.word = "true"
        \/ t # {} /\ parse_uint32(lines[Max(t)].value) >= 65535

(* A started node listens for as long as it runs exactly when the file it  *)
(* was first built from says so, whatever the file has become since and    *)
(* however many starts failed; otherwise its receiver stops after one      *)
(* reception and nothing starts it again.                                  *)
ListensAsWritten == m_started => (listening = "forever" <=> SaysForever(origin))

(* An attempt to start ends, one way or the other, unless a BUSY line is   *)
(* stuck.                                                                  *)
AttemptEnds == (pc # "idle") ~> (pc = "idle" \/ stuck # {})

(* Hardware and file that stay good bring the node up, provided no line    *)
(* was lost, descriptors remain and the first configuration was usable.    *)
Usable(cfg) ==
    /\ \A r \in Radio :
        /\ cfg[<<r, "device">>] # "" /\ cfg[<<r, "chip">>] # ""
        /\ cfg[<<r, "has_tx_enable">>] \/ cfg[<<r, "tx_enable_behavior">>] = "None"
        /\ Cardinality(LinesOf(cfg, r)) = Len(PinsOf(cfg, r))
    /\ LinesOf(cfg, "RadiosRx") \cap LinesOf(cfg, "RadiosTx") = {}

FdsNeeded(cfg) == 4 + Len(PinsOf(cfg, "RadiosRx")) + Len(PinsOf(cfg, "RadiosTx"))

Healthy ==
    /\ faults = MaxFaults \/ m_started
    /\ readable
    /\ stuck = {} /\ ~dead
    /\ leakedLines = {}
    /\ config # <<>>
    /\ Usable(config[1]) /\ leakedFds + FdsNeeded(config[1]) <= MaxFds

ComesUp == <>[]Healthy => <>m_started
=============================================================================
