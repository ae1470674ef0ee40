# A verification project for fprime-sx1280

The repository drives a pair of SX1280 LoRa radios from Linux (`Sx1280Radio/`)
and uses them as the communication link of an F´ deployment
(`lora-fprime-demo/LoraFprimeDemoDeployment`). This directory holds TLA+ models
of that code, the TLC runs that check them on small instances, and TLAPS proofs
of the main results for all values of the constants.

## 1. The system

| Part | State | Operations | Talks to |
|---|---|---|---|
| `LoRaRadioAdapter` (Svc.Com adapter) | `m_started`, `m_initialStatusSent`, `m_rxQueue` | `dataIn`, `dataReturnIn`, `comStatusInit`, `run`, `ensureNodeStarted` | `TmFramer` above, `LoRaNode` below, `FrameAccumulator` and `BufferManager` for the uplink |
| `LoRaNode` | the two radios, `started` | `start`, `stop`, `send`, `poll`, the rxDone callback | the two `SX128x` objects |
| `SX128x` driver | `OperatingMode`, `PacketType`, locks `IOLock`, `IOLock2` | mode calls (`SetTx`, `SetRx`, `SetCad`, ...), packet type, `SendPayload`, `ProcessIrqs`, parameters | the chip over SPI, the HAL hooks |
| `LinuxSx1280Radio` HAL | SPI descriptor, GPIO lines, TX-enable pin | `HalPreTx/PostTx/PreRx/PostRx`, transfers, open/close | Linux |
| `NodeConfigYaml` | none | `loadNodeConfigFromYaml` | file |
| `lora_node_smoke` | next send time | one loop: poll, send every 2 s | `LoRaNode` |
| F´ downlink: `ComQueue`, `SpacePacketFramer`, `ComAggregator`, `TmFramer` | queue state, aggregation state machine, buffer ownership | status protocol, fill/send/hold/timeout | each other, adapter |
| F´ uplink: `FrameAccumulator`, `BufferManager` | ring, pool | `dataIn`, allocate, deallocate | adapter |
| F´ commanding: `CmdSequencer`, `CommandDispatcher`, `FprimeRouter` | run mode, sequence buffer, timers; tracking table | commands of the ground, responses, `schedIn`; `seqCmdBuff`, `compCmdStat` | each other and every component with commands |

Threads in the deployment. The ComQueue thread dispatches packets and statuses.
The aggregator thread runs the state machine and, inside one `doSend`, the whole
synchronous chain aggregator → TmFramer → adapter → `LoRaNode::send` → SPI and
the data return and status on the way back. The rate-group thread calls
`aggregator.timeout` and `loraRadio.run` (start-up, poll of both radios, uplink
forwarding) once a tick. The sequencer and the dispatcher have a thread and a
FIFO queue each. The chip acts on its own.

What is hard: the status protocol has one permission in flight that three
threads pass around, and F´ asserts (aborts) when it is duplicated and stops when
it is lost; the adapter reads `m_started` from two threads; `ProcessIrqs` reads
and clears IRQs in two commands and acts on them after releasing its lock; the
rxDone callback reads the chip after the IRQ was cleared; the buffer pool is
shared; `start` is retried on every tick and a constructor that throws releases
nothing; the driver never asks the chip which mode it is in, and IRQ bits of
several operations merge between two polls; a status says nothing of the command
it belongs to, and the sequencer remembers only one command to answer. What
makes each part correct is listed with the hazards in
`PROJECT.json` and as the properties below.

## 2. Modules

* `SvcCom` - abstract: what an F´ communication adapter promises (F´
  `communication-adapter-interface.md`): one SUCCESS at start, one status for
  each `dataIn`, buffer returned before it, `dataIn` only after an unused SUCCESS,
  a SUCCESS after a FAILURE.
* `ComStack` - the downlink, one action per handler, state-machine transition or
  call of the synchronous chain. `ComQueue`'s queues are one backlog counter,
  packets are their sizes, a frame is the number of units in it, a failed
  `FW_ASSERT` sets `asserted` and stops everything. The assertions modelled are those
  of `ComQueue.cpp:170`, `ComAggregator.cpp:43`, `:83`, `:104`, `:110`, `:120` and
  `:128`, TmFramer's buffer ownership, and the aggregator's full input queue.
  `timeout_handler` checks its flag and queues its signal in two steps. `LinkState`
  and the TmFramer buffer map the module to `SvcCom` (`ComProtocol`).
* `ComStackProofs` - the proofs about `ComStack`.
* `LinuxHal` - what each HAL hook does to the TX-enable pin, for each
  `tx_enable_behavior`.
* `TxRadio` - `LoRaNode::send` and `LoRaNode::poll` on the transmit radio,
  command by command, with the chip as an external actor. The variable `caller`
  is the smoke program (`SmokeLoop`: one thread, sends two seconds apart) or the
  deployment (`Deployment`: two threads, a send may follow a SUCCESS at once).
  The chip's data buffer records which packet each byte is from. `torn` and
  `wiped` are history variables.
* `TxRadioProofs` - the proofs about `TxRadio`.
* `RxPath` - the receive radio, `poll`, the rxDone callback, the forwarding loop
  and the pool of `commsBufferManager` with its other clients. Packets are
  numbered; a queued packet records whose length and whose bytes were read.
* `RxPathProofs` - the proofs about `RxPath`.
* `NodeConfigYaml` - the configuration loader: a function from the lines of a
  file to a configuration, every section, key and conversion, and `Written`, what
  a file says of a field stated without a scanner.
* `NodeBoot` - `ensureNodeStarted`, `LoRaNode::start` and the construction of
  `LinuxSx1280Radio`: descriptors, GPIO lines, what a throwing constructor loses,
  the configuration that is read on every attempt and used from the first.
  Extends `NodeConfigYaml` and `LinuxHal`.
* `NodeBootProofs` - the proofs about `NodeBoot`.
* `Sx128x` - the driver under any sequence of calls of one thread: the recorded
  mode and packet type against those of the chip, the pin, and the dispatch of
  `ProcessIrqs` for all packet types, with what ended on the chip as a history. A
  call that starts an operation goes through the clearing of the IRQ status, the
  ranging role, the two hooks and the mode command as steps of their own (`step`),
  and the chip may act between any two of them.
  Extends `Sx128xCodec` and `LinuxHal`.
* `Sx128xCodec` - the driver's integer conversions with their widths, and
  `RangesExact`, which says what survives them.
* `Sx128xProofs` - the proofs about `Sx128x`.
* `CmdSequencer`, `CommandDispatcher` - the handlers of the two components as
  functions of the component's state; `Commanding` composes them with their
  queues, the ground and the other components. `first` and `clean` are history
  variables: the record the current run began with, and whether it began with
  nothing awaited and was stepped in turn.
* `CommandingProofs` - the proofs about `Commanding`.
* `MCComStack`, `MCTxRadio`, `MCRxPath`, `MCNodeBoot`, `MCSx128x`, `MCCommanding` -
  the constants of the runs.

Operators whose comment says "Mutation of" are variants of the definition that
follows them with a plausible bug, kept to show that each property can fail.

## 3. Runs

| Run | Config | Result |
|---|---|---|
| `downlink_safety` | `ComStackSafety.cfg` | passes, 18 812 states |
| `downlink_restore` | `ComStackRestore.cfg` | violation expected |
| `tx_callers` | `TxCallers.cfg` | passes, 20 195 states |
| `tx_race`, `tx_lost_irq`, `tx_payload` | `TxRace/TxLostIrq/TxPayload.cfg` | violations expected |
| `uplink_deployed` | `RxDeployed.cfg` | passes, 16 601 states |
| `uplink_stale`, `uplink_leak` | `RxStale/RxLeak.cfg` | violations expected |
| `node_boot` | `NodeBoot.cfg` | passes, 86 403 states |
| `driver_api` | `Sx128x.cfg` | passes, 1 424 920 states |
| `commanding` | `Commanding.cfg` | passes, 214 535 states |

**downlink_safety** takes the largest frame the radio accepts (255) and the
deployed one (1024), with which every send fails. It shows that no modelled assertion
fails (`NoAssertFailure`; packets fit an empty frame, as the comment on
`ComCfg.AggregationSize` demands, and the queue has two places besides the
timeouts), that the permission to emit a packet exists exactly
once between ComQueue and the aggregator (`CreditConserved`), that a queued status
always speaks of a returned frame (`StatusAfterReturn`), that the adapter's "not
started" branch is unreachable (`DataInOnlyWhenStarted`), that the aggregator needs
two queue slots besides timeouts (`AggQueueBounded`; the deployment has 10), that
the adapter implements `SvcCom` (`ComProtocol`), and, under fairness, that a partial
frame is flushed by the timeout (`FrameFlushed`) and a full queue drains when
frames are accepted (`BacklogServed`). **downlink_restore** shows what the deployed
size means: the node refuses every frame, the adapter answers FAILURE and never
SUCCESS again, so the downlink stops after one frame (finding).

**tx_callers**: for both callers and all four behaviours, sends return
(`SendReturns`) and the amplifier is off when the radio is quiet unless an IRQ was
cleared unread (`PinReleasedUnlessWiped`). In the loop the amplifier is enabled
whenever the chip transmits (`PinAssertedInLoop`). A payload that reaches
`payload_length` is alone on air unless a send that did not wait wrote over it or cut
it off (`WholeUnlessTorn`). **tx_payload**: what `send` is given is not what goes on
air. `send` does not tell the chip the length, so a shorter payload goes out with
what the buffer held before, bytes of earlier packets, behind it (a longer one is cut), though it returned true: the
11-byte payload of the smoke program and the 64 bytes of `Config/sx1280.yaml` are that
case, and the counterexample TLC prints. With `PayloadSizes = {2}`, where every payload
fills the packet, the same property fails for the deployment alone: SUCCESS is
reported while the packet is on air and the next send overwrites it. **tx_race**:
with two threads `PinAssertedOnAir` fails, because `HalPostTx` runs after the lock
is released. **tx_lost_irq**: a TX_DONE raised between `GetIrqStatus` and
`ClearIrqStatus` is lost and the amplifier stays on.

**uplink_deployed**: no buffer leaks or is returned twice (`BuffersReturned`). When
packets are far enough apart, what reaches the stack is faithful
(`FaithfulWhenPaced`) and every good packet is accounted for
(`ForwardedUnlessWiped`). **uplink_stale**: without that spacing a packet is
delivered twice, or with another packet's length, or despite its CRC error.
**uplink_leak**: an empty payload leaks a buffer.

**node_boot**: the loader gives every field the value of the last valid line under
its own headers (`LoadedAsWritten`; no file is ever refused, and words nobody
recognises become defaults silently). A started node has every line it was
configured with, no line twice, and its pins in place (`StartedComplete`). A
constructor that threw after its first line was granted keeps the node down until
the process ends (`NeverUpAfterLineLeak`), whatever is repaired: `~Impl` does not run,
the lost request holds the reset line, and each further attempt loses two more
descriptors. The configuration in use differs from the file only after a failed
start (`StaleOnlyAfterFailure`): the node is a function-local static, and an edit
that would repair the configuration is read and ignored. A started node listens for
ever exactly when the lines of the file it was first built from say so, with
`continuous_rx` or with an `rx_ms` of 65535 or more as written, before the conversion
clamps it to the value that means "for ever" (`ListensAsWritten`; `origin` is that
file, a history variable); otherwise the node hears one packet and stays deaf. An
attempt ends unless a BUSY
line is stuck (`AttemptEnds`), and a system that stays healthy comes up (`ComesUp`).

**driver_api**: the amplifier is off while the chip listens, in any order of calls
(`QuietWhileListening`), except while `SetTx` or `SetTxContinuous` has asserted the
pin and its command has not reached the chip. Between calls it is on during a
transmission (`AmplifiedOnAir`; the hooks of the next call lower it while the chip may
still send). Callbacks come after the end they report (`EndReported`) and say what the
reception was, merged receptions included (`VerdictMatches`); a ranging chip has the
role of the call that started it until the next `SetTx` or `SetRx` has set its own
(`RangingRole`); every `SetTx` is answered or overtaken (`TransmissionReported`). The
other exceptions are in the properties: `SetTx` and `SetRx` clear the IRQ status
before the chip leaves its old mode, so a bit raised in
between (`raced`) is taken for the end of the new operation; after `Reset` the
recorded packet type is not the chip's (`typed`); a call on a sleeping chip other
than `Wakeup` or `Reset` never returns (`callAsleep`). `SetStandby`, `SetFs` and
`SetSleep` leave the pin as it is. A packet type set outside standby is recorded by
the driver and may be ignored by the chip. `CodecExact` lists what the conversions do to
values out of range.

**commanding**: no status is lost or doubled between dispatcher and sender
(`StatusConserved`), also with the table full. A run that starts with nothing
outstanding and is stepped in turn executes its records one by one (`InTurn`) and
never reads past the end (`RecordsLast`). Every command is answered unless another
one took its place in `m_cmdSeq` (`AnswerOwed`). What a run has executed is counted
from the record it began with: a refused file with more records than its header
announces leaves the read position in the middle, and `CS_START` begins there. A
sequence in AUTO mode ends
(`SequenceEnds`): with a timeout whatever the components do; without one, which is
what the deployment has, only if no status is lost at a full queue or by
`CMD_CLEAR_TRACKING`. The premises of these properties mark what the code does not
prevent: the late status of a cancelled run is credited to the next run; `CS_STEP`
is accepted in AUTO mode and, with a command waiting for its time, skips it;
a refused file stays in the buffer, and `CS_START` runs it; a `CS_RUN` with BLOCK and
END as its first record is answered twice, the second time to nobody.

### Bounds

`AggregationSize` 3 with packets of 1 to 3 units makes a frame reach every case:
room left, exactly full, not fitting, a packet that fills an empty frame. `QueueDepth` 2 has an empty, a partial and a
full queue. `MaxTimeouts` 2 lets stale timeouts queue behind a frame, and
`AggQueueSize` 4 is the least queue with the two other places, so that one message
more would fail its assertion. That fewer than `MaxTimeouts` wait when a tick begins
is an assumption on scheduling, stated in the external action `rgTick`: the deployment
has 10 places and a tick of a second, so its aggregator thread would have to be eight
ticks behind; the code does not exclude it. Inside a tick nothing is held back.
`MaxSends` 2
to 4: each race needs one packet and its successor. `MaxPackets` 3 gives a packet
before, during and after a service; `PoolSize` 2 lets the other clients take none,
some or all buffers. `Lengths` {1} or {0, 1}: only emptiness matters.
`PayloadLength` 2 with sizes 1 to 3 has a shorter, an equal and a longer payload.
`MCFiles` appends each of 14 lines, directly, under one of four headers or after a
`continuous_rx: false`, to a complete file, so that each key meets its own and a foreign section; 12 descriptors
are the 9 a complete node needs and three more, so that it survives the loss of one
attempt and not of several; `MaxFaults` 2 has a fault and a repair. `MaxEvents` 2 merges two operations of the
chip; the sets of packet types cover each branch of the dispatch. `Slots` 2 lets a
blocked `CS_RUN` and one command of its sequence fill the table; `MCCampaigns` splits
the ground's commands into four scenarios of three or four commands, because all
opcodes at once are out of TLC's reach; a sequence has at most two records. The
sequence number `m_seq` starts at 1 and does not wrap.

### Fairness

`ComStack!FairSpec`: each component thread dispatches (an active component's loop
and the rate-group timer do not stop), and a start that is attempted again and
again and can succeed does succeed. Packets need not arrive. `TxRadio!FairSpec`:
both callers proceed, the lock is eventually granted (holders release it after a
bounded number of commands and polls are a tick apart), a transmission ends.
`RxPath!FairSpec`: `run_handler` is called and proceeds. The other pool clients
are not assumed to return anything. The strong fairness of a successful start in
`ComStack` is an assumption about an undamaged process: `node_boot` shows that it
fails once a constructor has lost a line. `NodeBoot!FairSpec`: the rate group ticks
and its thread proceeds; faults are not obliged to stop, `ComesUp` assumes it.
`Sx128x!FairSpec`: a caller finishes its calls and polls again and again (strong,
because other calls may come in between), a transmission ends.
`Commanding!FairSpec`: both threads serve their queues, the rate group ticks; the
other components are relied on to answer only where no timeout is configured.
`Commanding`, `NodeBoot` and `Sx128x` may stop (the ground is silent, the process is
dead or hung, the chip sleeps), so deadlock is not checked there.

## 4. Proofs

`ComStackProofs` proves, for all constants satisfying the assumptions in
`ComStack`: `TypeCorrect`, `AssertionsHold`, `CreditExactlyOnce`,
`ReturnBeforeStatus`, `NodeUpBeforeData` and `ImplementsSvcCom` (refinement). All
rest on one inductive invariant, `IInv /\ CountInv` (`InductiveInvariant`): that a
signal finds room in the aggregator's queue needs the count of the timeouts in it and
of the one the tick in progress may still queue (`Room`), and that count needs the
rest. `NoAssertFailure`
alone is not inductive: that ComQueue is never READY when a status arrives
depends on where the permission is. `UpInv` says that the upstream permission is in
exactly one of five places, `DownInv` that the downstream one (a status in the
aggregator's queue, the FILL state, or the send chain) is in at most one and only
after the initial status, `BufferInv` ties the two buffers to the position in the
chain, `SizesOK` and `ResultOK` describe the queued signals. The queue lemmas
(`EnqueueFill`, `EnqueueStatus`, `EnqueueTimeout`, `DispatchFacts`) reduce every
step to those predicates, then there is one lemma per action.

`TxRadioProofs` proves `TypeCorrect`, `PinReleased`, `StaticPin` (the static
behaviours never move the pin) and `WholeSent` for every interleaving of the two
callers, and `PinOnAir` for the loop that spaces its sends (`tx_race` shows that this
is needed). `PinInv` strengthens the first: an asserted pin has a reason (a
packet on air, a pending IRQ, an IRQ read and not dispatched, or a `SetTx` at a
step that writes or uses the pin), and a pending IRQ implies that the driver
recorded MODE_TX, which holds because `SetTx` and the read of the IRQ status
exclude each other on `IOLock2`. `AirInv` strengthens the last: no IRQ of an
earlier packet is left when a packet is on air, so no poll lowers the pin.

`RxPathProofs` proves `TypeCorrect` and `QueueBounded` (with `OneInHand` and
`PoolBounded`: types, queue and pool bound are inductive only together),
`PoolConserved` under `0 \notin Lengths` (needed: `uplink_leak`), where
`LengthsKnown` says that every length in hand is that of a packet that arrived,
and `PacedFaithful`. For that one `IrqOfLast` says that every IRQ the host can see
is the last packet's and none is raised while rxDone runs, and `InOrder` that
delivered packets, the one in `dataOut` and the queued one are faithful and
strictly increasing, and older than a packet whose IRQ is pending. The
strengthenings were checked with TLC on the instances of the runs first.

`ComStackProofs` also proves `QueueDeepEnough`: the aggregator's queue holds at most
two messages besides timeouts. `CountInv` bounds the timeouts that wait and the one
pending; by `IInv` at most one fill and one status wait with them.

`NodeBootProofs` proves `LeakIsForever`, `ConfigFresh`, `BootTyped`, `LoaderFaithful`,
`BothRadiosUp` and `Listens` for all files, edits, descriptors and faults.
`NeverUpAfterLineLeak` is not inductive: `LeakInv` adds that the reset line is the
first one requested and the last configuration the only one, so whoever holds or
has lost any line holds or has lost the reset line of that radio (`ResetFirst`), that
no line is both (`Apart`), and which radios are complete at each point of `start`
(`Built`). `LoaderFaithful` is an argument over the lines of a file of any length:
the scanner has a run (`ScanExists`), and after n lines its section, sub-section and
fields are what `Written` says of those n lines (`ScanStep`). The induction is done by
hand, from the least n for which this fails, because the library's induction rules
cannot be instantiated. Its assumption on files, `FileAssumption` (`KnownLines`), says
that a line is a known header, a key or neither, which is what the scanner tells
apart. `BootInv` adds to it, for `BothRadiosUp`, the lines held at each stage of a
constructor (`Stages`): those granted so far are a prefix of the configured ones.
`Listens` joins the two ends: what the chip was told is what the clamped configuration
says (`ListenInv`), the static node's configuration is what `Written` says of the file
it was first built from (`OriginInv`), and the clamp keeps apart what lies below 65535
from the rest (`TimeoutType`, `ForeverField`).

`Sx128xProofs` proves seven results for every order of calls and chip events: `Quiet`
(the pin while the chip listens, with its values in the static behaviours and at each
step of a call as the strengthening, `QuietInv`), `Role` (while the recorded packet type
is the chip's own, and the role was set by the call that started the operation or by
the one in progress, `RoleInv`), `Typed`,
`Amplified` and `EndsReported` (`EndInv`: while an operation goes on undisturbed, the
IRQ status, and what a poll has read of it, holds no bit that says it has ended, so
`ProcessIrqs` cannot lower the pin), `Verdict` (`VerdictInv`: the IRQ bits tell what
happened since they were cleared, per packet type, for any number of merged
receptions) and `Exact` (the conversions, by their bits).

`CommandingProofs` proves `CommandingTyped`, `StatusesConserved`, `RunsInTurn`,
`AnswersOwed` and `NeverPastTheEnd` for every table size, campaign and file, with
queues and sequences of any length. The files are assumed to be what `loadFile` can
leave behind (`FilesAssumption`): an accepted file has a record, all of them
deserialize, and it is read from the first; a refused one may hold anything and be
left at any position. All five need one inductive invariant, `Inv`, because they
need each other: a run stays in turn (`TurnInv`) only if the response it is given was
awaited, which is conservation (`Conserved`), and it never reads past its end only if
it is in turn; the answers owed (`OwedInv`) and the types (`StateOK`) complete it.
`TurnInv` adds to `InTurn` that a run with nothing outstanding has a record left, and
that a failed assertion means a refused file. The lemmas come in three layers:
counting messages in a sequence under concatenation, removal and `Tail`
(`CountConcat`, `CountRemove`, `CountTail`, ...); what each handler of the sequencer
does to a sound state, as a relation between its argument and its result
(`CommandHandles`, `ResponseHandles`, `DueHandles`, `ExpiredHandles`), and that each
handler of the dispatcher balances entries and statuses (`BufferBalanced`,
`StatusBalanced`); and one step per action.

Every invariant the passing runs check is a theorem, and every strengthening was checked
with TLC first. Only model-checked: the liveness properties (`FrameFlushed`,
`BacklogServed`, `SendReturns`, `ForwardedUnlessWiped`, `AttemptEnds`, `ComesUp`,
`TransmissionReported`, `SequenceEnds`), because the prover has no fairness rules and
no ENABLED, and the violations of the six runs that are expected to fail.

## 5. Findings

Six runs are expected to fail; each is a disagreement between the code and what
its documentation, configuration or comments say. They are recorded with quotes
in `PROJECT.json`: the deployed frame size against the 255-byte limit and the
missing SUCCESS after FAILURE; the amplifier disabled on air; the IRQ lost between
read and clear; bytes on air that are not the payload's, from a length the chip is not
told and from a SUCCESS that comes before the transmission ends; stale packet reads;
the buffer leaked by an empty payload.

Three more disagreements were met in the command sequencer. They have no run of their
own; the properties of `commanding` name each as an exception.

* `CmdSequencer/docs/sdd.md` says a `CS_RUN` cancels the sequence that runs, while the
  code refuses the new one.
* `Commands.fppi:24` says of `CS_STEP` "Valid only if CmdSequencer is in MANUAL run
  mode". `CS_STEP_cmdHandler` (`CmdSequencerImpl.cpp:322`) asks for RUNNING only: in AUTO
  mode it reads the next record over a command that waits for its time, and past the
  last record `nextRecord` asserts (`clean` excludes it from `InTurn` and `RecordsLast`).
* Requirement ISF-CMDS-002 (`sdd.md:14`) says the sequencer "shall validate the sequence
  files with a CRC", because it "need to know it has a valid file". A file that fails its checks stays in the buffer, and `CS_START`
  (`CmdSequencerImpl.cpp:301`) runs it (`valid` excludes it from `RecordsLast`).

## 6. Not modelled

* `GetTimeOnAir`, `SetRfFrequency`, `GetFrequencyError` and the distance of
  `GetRangingResult`: floating-point arithmetic. The setters that copy a value into
  a register under a check of the packet type.
* SPI and GPIO system calls beyond success and failure, `LoRaNode::stop` (called
  only by a program that ends).
* Priorities and round robin of `ComQueue`, the bins of `BufferManager`, frame
  detection in `FrameAccumulator`, TM and TC byte layouts and CRCs.
* In commanding: ports the deployment does not connect (`seqRunIn`, `seqCancelIn`,
  `seqDone`, `seqStartOut`), opcode registration, sequences that contain commands of
  the sequencer itself, the wrap of `m_seq`.
* Events, telemetry, health, file handling, data products and parameters of the
  deployment, and everything else of F´ (`Fw`, `Os`, `Drv`, the other `Svc`
  components) with googletest inside it. That framework is vendored, is by far the
  largest part of the repository's lines and most of it is not used by the radio
  link; the models cover the repository's own code and the framework components
  that the link and commanding depend on.
