------------------------------ MODULE ComStack ------------------------------
(***************************************************************************)
(* The downlink of LoraFprimeDemoDeployment: ComQueue, SpacePacketFramer,  *)
(* ComAggregator and TmFramer on top of the LoRaRadioAdapter, as           *)
(* LoraFprimeDemoDeployment/Top/topology.fpp and ComCcsds.fpp wire them.   *)
(*                                                                         *)
(* Three threads take part.  The ComQueue thread dispatches comStatusIn    *)
(* and the incoming packets.  The aggregator thread dispatches the signals *)
(* of its state machine and, when it sends, runs the synchronous chain     *)
(* aggregator -> TmFramer -> adapter -> radio and back.  The rate-group    *)
(* thread calls aggregator.timeout and loraRadio.run once per tick.        *)
(*                                                                         *)
(* Packets are abstracted to their size, frames to the number of units     *)
(* they hold.  A failed FW_ASSERT aborts the process: it is recorded in    *)
(* `asserted' and nothing happens afterwards.  Modelled are the ones about *)
(* statuses, held packets, buffer ownership, packet sizes and the          *)
(* aggregator's full input queue.                                          *)
(***************************************************************************)
EXTENDS Naturals, Sequences, FiniteSets

CONSTANTS
    AggregationSize,    \* ComCfg::AggregationSize, in units
    PacketSizes,        \* sizes of the space packets that reach the aggregator
    QueueDepth,         \* depth of a ComQueue queue
    TmFrameFixedSizes,  \* values of ComCfg::TmFrameFixedSize considered, in bytes
    AggQueueSize,       \* ComCcsdsConfig.QueueSizes.aggregator
    MaxTimeouts         \* bound: fewer timeouts than that wait when a tick begins

(* ComCfg.fpp: "Needs to be at least COM_BUFFER_MAX_SIZE +" the headers.   *)
ASSUME AggregationAssumption ==
    /\ AggregationSize \in Nat \ {0}
    /\ PacketSizes \subseteq Nat \ {0}
    /\ PacketSizes # {}
    /\ \A n \in PacketSizes : n <= AggregationSize

ASSUME DepthAssumption == QueueDepth \in Nat \ {0}

(* The aggregator has room for a fill and a status besides the timeouts.   *)
ASSUME QueueAssumption ==
    /\ AggQueueSize \in Nat /\ MaxTimeouts \in Nat
    /\ MaxTimeouts + 2 <= AggQueueSize

ASSUME FrameAssumption == TmFrameFixedSizes \subseteq Nat \ {0}

(* The largest payload LoRaNode::send accepts.                             *)
kMaxPayload == 255

VARIABLES
    \* Svc::ComQueue
    m_state,            \* "WAITING" | "READY"
    backlog,            \* packets in its queues
    statusIn,           \* SUCCESS messages in its input queue
    \* Svc::ComAggregator
    preambleRun,        \* its thread has executed preamble()
    aggState,           \* "WAIT_STATUS" | "FILL"
    aggQueue,           \* signals in its input queue
    frame,              \* m_frameSerializer.getSize()
    m_held,             \* size of the held packet, 0 when none
    m_allow_timeout,
    aggBuffer,          \* m_bufferState: "OWNED" | "NOT_OWNED"
    aggPc,              \* where its thread is in the synchronous send chain
    \* Svc::Ccsds::TmFramer
    tmBuffer,           \* m_bufferState: "OWNED" | "NOT_OWNED"
    \* Sx1280Radio::LoRaRadioAdapter
    m_started,
    m_initialStatusSent,
    sendOk,             \* `ok' of the last dataIn_handler
    frameSize,          \* size of every frame it is given: TmFrameFixedSize
    \* the rate-group thread
    rgPc,
    \* the FW_ASSERT that failed, "none" while the process runs
    asserted

queueVars   == <<m_state, backlog, statusIn>>
aggVars     == <<preambleRun, aggState, aggQueue, frame, m_held, m_allow_timeout,
                 aggBuffer, aggPc>>
adapterVars == <<m_started, m_initialStatusSent, sendOk, frameSize>>
vars == <<queueVars, aggVars, tmBuffer, adapterVars, rgPc, asserted>>

Owner == {"OWNED", "NOT_OWNED"}

Fill(n)    == [sig |-> "fill", arg |-> n]
Success    == [sig |-> "status", arg |-> 1]
Failure    == [sig |-> "status", arg |-> 0]
Timeout    == [sig |-> "timeout", arg |-> 0]
StatusOf(ok) == IF ok THEN Success ELSE Failure
Signals    == [sig : {"fill", "status", "timeout"}, arg : Nat]

TypeOK ==
    /\ m_state \in {"WAITING", "READY"}
    /\ backlog \in 0..QueueDepth
    /\ statusIn \in Nat
    /\ preambleRun \in BOOLEAN
    /\ aggState \in {"WAIT_STATUS", "FILL"}
    /\ aggQueue \in Seq(Signals)
    /\ frame \in 0..AggregationSize
    /\ m_held \in {0} \cup PacketSizes
    /\ m_allow_timeout \in BOOLEAN
    /\ aggBuffer \in Owner
    /\ aggPc \in {"loop", "dataIn", "dataReturn", "comStatus", "unwind"}
    /\ tmBuffer \in Owner
    /\ m_started \in BOOLEAN
    /\ m_initialStatusSent \in BOOLEAN
    /\ sendOk \in BOOLEAN
    /\ frameSize \in TmFrameFixedSizes
    /\ rgPc \in {"tick", "timeout", "enqueue", "run", "init", "poll"}
    /\ asserted \in {"none", "ComQueue", "Hold", "NoStatus", "AggBuffer", "TmBuffer",
                     "Size", "Serialize", "Overflow"}

Init ==
    /\ m_state = "WAITING"
    /\ backlog = 0
    /\ statusIn = 0
    /\ preambleRun = FALSE
    /\ aggState = "WAIT_STATUS"
    /\ aggQueue = <<>>
    /\ frame = 0
    /\ m_held = 0
    /\ m_allow_timeout = FALSE
    /\ aggBuffer = "OWNED"
    /\ aggPc = "loop"
    /\ tmBuffer = "OWNED"
    /\ m_started = FALSE
    /\ m_initialStatusSent = FALSE
    /\ sendOk = TRUE
    /\ frameSize \in TmFrameFixedSizes
    /\ rgPc = "tick"
    /\ asserted = "none"

(* aggregationMachine_sendSignal: FW_ASSERT that the aggregator's input    *)
(* queue has room.                                                         *)
sendSignal(x) ==
    IF Len(aggQueue) < AggQueueSize
    THEN aggQueue' = Append(aggQueue, x) /\ UNCHANGED asserted
    ELSE asserted' = "Overflow" /\ UNCHANGED aggQueue

(***************************************************************************)
(* The ComQueue thread.                                                    *)
(***************************************************************************)

(* processQueue with b packets queued.  Called when m_state is READY: the  *)
(* first packet goes through SpacePacketFramer to the aggregator's queue   *)
(* and the data buffer comes back in the same call; m_state is then        *)
(* WAITING.  With nothing queued m_state stays READY.                      *)
processQueue(b) ==
    \/ /\ b > 0
       /\ backlog' = b - 1
       /\ m_state' = "WAITING"
       /\ \E n \in PacketSizes : sendSignal(Fill(n))
    \/ /\ b = 0
       /\ backlog' = 0
       /\ m_state' = "READY"
       /\ UNCHANGED <<aggQueue, asserted>>

(* Mutation of Enqueued: off by one.                                       *)
EnqueuedOffByOne(b) == IF b <= QueueDepth THEN b + 1 ELSE b

(* Types::Queue::enqueue: a full queue drops the packet.                   *)
Enqueued(b) == IF b < QueueDepth THEN b + 1 ELSE b

(* comPacketQueueIn_handler and bufferQueueIn_handler.                     *)
comPacketQueueIn ==
    /\ \/ /\ m_state = "READY"
          /\ processQueue(Enqueued(backlog))
       \/ /\ m_state = "WAITING"
          /\ backlog' = Enqueued(backlog)
          /\ UNCHANGED <<m_state, aggQueue, asserted>>
    /\ UNCHANGED <<statusIn, preambleRun, aggState, frame, m_held, m_allow_timeout,
                   aggBuffer, aggPc, tmBuffer, adapterVars, rgPc>>

(* comStatusIn_handler.  The aggregator only ever forwards SUCCESS.        *)
comStatusIn ==
    /\ statusIn > 0
    /\ statusIn' = statusIn - 1
    /\ IF m_state = "WAITING"
       THEN processQueue(backlog)
       ELSE asserted' = "ComQueue" /\ UNCHANGED <<m_state, backlog, aggQueue>>
    /\ UNCHANGED <<preambleRun, aggState, frame, m_held, m_allow_timeout,
                   aggBuffer, aggPc, tmBuffer, adapterVars, rgPc>>

(***************************************************************************)
(* The aggregator thread.                                                  *)
(***************************************************************************)

preamble ==
    /\ ~preambleRun
    /\ preambleRun' = TRUE
    /\ statusIn' = statusIn + 1
    /\ UNCHANGED <<m_state, backlog, aggState, aggQueue, frame, m_held, m_allow_timeout,
                   aggBuffer, aggPc, tmBuffer, adapterVars, rgPc, asserted>>

Dispatching(sig) ==
    /\ preambleRun
    /\ aggPc = "loop"
    /\ aggQueue # <<>>
    /\ Head(aggQueue).sig = sig
    /\ aggQueue' = Tail(aggQueue)

(* Mutation of doFill: ComQueue is not told.                               *)
doFillSilent(base, n) ==
    /\ frame' = base + n
    /\ UNCHANGED <<statusIn, asserted>>

(* doFill: the packet is copied, FW_ASSERT that it fitted; its buffer goes *)
(* back to SpacePacketFramer and ComQueue is told SUCCESS.                 *)
doFill(base, n) ==
    IF base + n <= AggregationSize
    THEN frame' = base + n /\ statusIn' = statusIn + 1 /\ UNCHANGED asserted
    ELSE asserted' = "Serialize" /\ UNCHANGED <<frame, statusIn>>

(* doSend with a frame of the given size, skipped when that is zero: the   *)
(* frame buffer goes to TmFramer, timeouts are shut off.                   *)
doSend(size) ==
    IF size > 0
    THEN /\ aggBuffer' = "NOT_OWNED"
         /\ m_allow_timeout' = FALSE
         /\ aggPc' = "dataIn"
    ELSE UNCHANGED <<aggBuffer, m_allow_timeout, aggPc>>

(* doHold; FW_ASSERT that nothing is held yet.                             *)
doHold(n) ==
    IF m_held = 0
    THEN m_held' = n /\ UNCHANGED asserted
    ELSE asserted' = "Hold" /\ UNCHANGED m_held

(* Mutation of isFull: off by one.                                         *)
isFullOffByOne(n) == AggregationSize + 1 - frame < n

(* Both guards first FW_ASSERT that the packet fits an empty frame; one    *)
(* that does not is caught where isFull is evaluated, in fillIsFull.       *)
isFull(n)   == AggregationSize - frame < n
willFill(n) == AggregationSize - frame = n

(* Signal fill in WAIT_STATUS and, in FILL, the choices IS_FULL_THEN_SEND  *)
(* and WILL_FILL_THEN_SEND.                                                *)
fillWaiting ==
    /\ Dispatching("fill")
    /\ aggState = "WAIT_STATUS"
    /\ doHold(Head(aggQueue).arg)
    /\ UNCHANGED <<queueVars, preambleRun, aggState, frame, m_allow_timeout, aggBuffer,
                   aggPc, tmBuffer, adapterVars, rgPc>>

fillIsFull ==
    /\ Dispatching("fill")
    /\ aggState = "FILL"
    /\ isFull(Head(aggQueue).arg)
    /\ IF Head(aggQueue).arg <= AggregationSize
       THEN /\ doHold(Head(aggQueue).arg)
            /\ doSend(frame)
            /\ aggState' = "WAIT_STATUS"
       ELSE /\ asserted' = "Size"
            /\ UNCHANGED <<m_held, aggState, aggBuffer, m_allow_timeout, aggPc>>
    /\ UNCHANGED <<queueVars, preambleRun, frame, tmBuffer, adapterVars, rgPc>>

fillWillFill ==
    /\ Dispatching("fill")
    /\ aggState = "FILL"
    /\ willFill(Head(aggQueue).arg)
    /\ doFill(frame, Head(aggQueue).arg)
    /\ doSend(frame + Head(aggQueue).arg)
    /\ aggState' = "WAIT_STATUS"
    /\ UNCHANGED <<m_state, backlog, preambleRun, m_held, tmBuffer, adapterVars, rgPc>>

fillMore ==
    /\ Dispatching("fill")
    /\ aggState = "FILL"
    /\ ~isFull(Head(aggQueue).arg)
    /\ ~willFill(Head(aggQueue).arg)
    /\ doFill(frame, Head(aggQueue).arg)
    /\ UNCHANGED <<m_state, backlog, preambleRun, aggState, m_held, m_allow_timeout,
                   aggBuffer, aggPc, tmBuffer, adapterVars, rgPc>>

(* Signal timeout: sends a frame that is not empty; ignored otherwise.     *)
timeoutSend ==
    /\ Dispatching("timeout")
    /\ aggState = "FILL"
    /\ frame > 0
    /\ doSend(frame)
    /\ aggState' = "WAIT_STATUS"
    /\ UNCHANGED <<queueVars, preambleRun, frame, m_held, tmBuffer, adapterVars, rgPc, asserted>>

timeoutIgnored ==
    /\ Dispatching("timeout")
    /\ ~(aggState = "FILL" /\ frame > 0)
    /\ UNCHANGED <<queueVars, preambleRun, aggState, frame, m_held, m_allow_timeout,
                   aggBuffer, aggPc, tmBuffer, adapterVars, rgPc, asserted>>

(* Mutations of doClear: the held packet is dropped; timeouts stay off.    *)
doClearDropsHeld ==
    /\ m_allow_timeout' = TRUE
    /\ m_held' = 0
    /\ frame' = 0
    /\ UNCHANGED <<statusIn, asserted>>

doClearNoTimeout ==
    /\ m_allow_timeout' = FALSE
    /\ m_held' = 0
    /\ IF m_held > 0
       THEN doFill(0, m_held)
       ELSE frame' = 0 /\ UNCHANGED <<statusIn, asserted>>

(* Signal status in WAIT_STATUS: a good one runs doClear, which starts a   *)
(* new frame with the held packet; a bad one leaves the machine waiting.   *)
(* In FILL a status is an assertion failure.                               *)
doClear ==
    /\ m_allow_timeout' = TRUE
    /\ m_held' = 0
    /\ IF m_held > 0
       THEN doFill(0, m_held)
       ELSE frame' = 0 /\ UNCHANGED <<statusIn, asserted>>

isGood == Head(aggQueue) = Success

statusGood ==
    /\ Dispatching("status")
    /\ aggState = "WAIT_STATUS"
    /\ isGood
    /\ doClear
    /\ aggState' = "FILL"
    /\ UNCHANGED <<m_state, backlog, preambleRun, aggBuffer, aggPc, tmBuffer, adapterVars, rgPc>>

statusBad ==
    /\ Dispatching("status")
    /\ ~(aggState = "WAIT_STATUS" /\ isGood)
    /\ asserted' = IF aggState = "FILL" THEN "NoStatus" ELSE asserted
    /\ UNCHANGED <<queueVars, preambleRun, aggState, frame, m_held, m_allow_timeout,
                   aggBuffer, aggPc, tmBuffer, adapterVars, rgPc>>

(***************************************************************************)
(* The synchronous chain below doSend, on the aggregator thread.           *)
(***************************************************************************)

(* Outcomes of ensureNodeStarted when the node is in state st: once up it  *)
(* stays up; until then loading the configuration or start() may fail.     *)
ensureNodeStarted(st) == IF st THEN {TRUE} ELSE BOOLEAN

(* LoRaNode::send on a started node: every TM frame has the fixed size.    *)
NodeSend == frameSize <= kMaxPayload

(* TmFramer::dataIn up to LoRaRadioAdapter::dataIn, which sends (or finds  *)
(* the node down).                                                         *)
adapterDataIn ==
    /\ aggPc = "dataIn"
    /\ IF tmBuffer = "OWNED"
       THEN /\ tmBuffer' = "NOT_OWNED"
            /\ aggPc' = "dataReturn"
            /\ \E up \in ensureNodeStarted(m_started) :
                   /\ m_started' = up
                   /\ sendOk' = (up /\ NodeSend)
            /\ UNCHANGED asserted
       ELSE asserted' = "TmBuffer" /\ UNCHANGED <<tmBuffer, aggPc, m_started, sendOk>>
    /\ UNCHANGED <<queueVars, preambleRun, aggState, aggQueue, frame, m_held,
                   m_allow_timeout, aggBuffer, m_initialStatusSent, frameSize, rgPc>>

(* Mutation of adapterDataReturn: dataReturnOut is not called.             *)
adapterDataReturnForgotten ==
    /\ aggPc = "dataReturn"
    /\ aggPc' = "comStatus"
    /\ UNCHANGED <<queueVars, preambleRun, aggState, aggQueue, frame, m_held,
                   m_allow_timeout, aggBuffer, tmBuffer, adapterVars, rgPc, asserted>>

(* dataReturnOut -> TmFramer::dataReturnIn.                                *)
adapterDataReturn ==
    /\ aggPc = "dataReturn"
    /\ tmBuffer' = "OWNED"
    /\ aggPc' = "comStatus"
    /\ UNCHANGED <<queueVars, preambleRun, aggState, aggQueue, frame, m_held,
                   m_allow_timeout, aggBuffer, adapterVars, rgPc, asserted>>

(* Mutation of adapterComStatus: the status is reported twice.             *)
adapterComStatusTwice ==
    /\ aggPc = "comStatus"
    /\ aggQueue' = aggQueue \o <<StatusOf(sendOk), StatusOf(sendOk)>>
    /\ aggPc' = "unwind"
    /\ UNCHANGED <<queueVars, preambleRun, aggState, frame, m_held, m_allow_timeout,
                   aggBuffer, tmBuffer, adapterVars, rgPc, asserted>>

(* comStatusOut -> TmFramer::comStatusIn -> aggregator.comStatusIn.        *)
adapterComStatus ==
    /\ aggPc = "comStatus"
    /\ sendSignal(StatusOf(sendOk))
    /\ aggPc' = "unwind"
    /\ UNCHANGED <<queueVars, preambleRun, aggState, frame, m_held, m_allow_timeout,
                   aggBuffer, tmBuffer, adapterVars, rgPc>>

(* TmFramer returns the aggregator's buffer after its dataOut call.        *)
aggDataReturnIn ==
    /\ aggPc = "unwind"
    /\ aggPc' = "loop"
    /\ IF aggBuffer = "NOT_OWNED"
       THEN aggBuffer' = "OWNED" /\ UNCHANGED asserted
       ELSE asserted' = "AggBuffer" /\ UNCHANGED aggBuffer
    /\ UNCHANGED <<queueVars, preambleRun, aggState, aggQueue, frame, m_held,
                   m_allow_timeout, tmBuffer, adapterVars, rgPc>>

(***************************************************************************)
(* The rate-group thread: one tick is rgTick ; rgTimeout ; rgEnqueue ;     *)
(* rgRun ; ... ; rgPoll.                                                   *)
(***************************************************************************)

Timeouts        == {i \in 1..Len(aggQueue) : aggQueue[i].sig = "timeout"}
WaitingTimeouts == Cardinality(Timeouts)

(* External: the timer.  The aggregator's thread is never MaxTimeouts      *)
(* ticks behind when one begins.                                           *)
rgTick ==
    /\ rgPc = "tick"
    /\ WaitingTimeouts < MaxTimeouts
    /\ rgPc' = "timeout"
    /\ UNCHANGED <<queueVars, aggVars, tmBuffer, adapterVars, asserted>>

(* aggregator.timeout_handler reads m_allow_timeout without a lock, and    *)
(* queues the signal in a step of its own.                                 *)
rgTimeout ==
    /\ rgPc = "timeout"
    /\ rgPc' = IF m_allow_timeout THEN "enqueue" ELSE "run"
    /\ UNCHANGED <<queueVars, aggVars, tmBuffer, adapterVars, asserted>>

rgEnqueue ==
    /\ rgPc = "enqueue"
    /\ rgPc' = "run"
    /\ sendSignal(Timeout)
    /\ UNCHANGED <<queueVars, preambleRun, aggState, frame, m_held, m_allow_timeout,
                   aggBuffer, aggPc, tmBuffer, adapterVars>>

(* Mutation of rgRun: the early return is missing.                         *)
rgRunIgnoresFailure ==
    /\ rgPc = "run"
    /\ rgPc' = "init"
    /\ m_started' \in ensureNodeStarted(m_started)
    /\ UNCHANGED <<queueVars, aggVars, tmBuffer, m_initialStatusSent, sendOk, frameSize, asserted>>

(* LoRaRadioAdapter::run_handler: ensureNodeStarted.                       *)
rgRun ==
    /\ rgPc = "run"
    /\ \E up \in ensureNodeStarted(m_started) :
           /\ m_started' = up
           /\ rgPc' = IF up THEN "init" ELSE "tick"
    /\ UNCHANGED <<queueVars, aggVars, tmBuffer, m_initialStatusSent, sendOk, frameSize, asserted>>

(* comStatusInit up to comStatusOut_out; the flag is set after the call.   *)
rgComStatusInit ==
    /\ rgPc = "init"
    /\ rgPc' = "poll"
    /\ IF m_initialStatusSent
       THEN UNCHANGED <<aggQueue, asserted>>
       ELSE sendSignal(Success)
    /\ UNCHANGED <<queueVars, preambleRun, aggState, frame, m_held, m_allow_timeout,
                   aggBuffer, aggPc, tmBuffer, adapterVars>>

(* Mutation of rgPoll: the flag is not set.                                *)
rgPollForgetsFlag ==
    /\ rgPc = "poll"
    /\ rgPc' = "tick"
    /\ UNCHANGED <<queueVars, aggVars, tmBuffer, adapterVars, asserted>>

(* The rest of the tick; poll() and the uplink are modelled in RxPath.     *)
rgPoll ==
    /\ rgPc = "poll"
    /\ rgPc' = "tick"
    /\ m_initialStatusSent' = TRUE
    /\ UNCHANGED <<queueVars, aggVars, tmBuffer, m_started, sendOk, frameSize, asserted>>

-----------------------------------------------------------------------------
QueueThread == comStatusIn
SendChain   == adapterDataIn \/ adapterDataReturn \/ adapterComStatus \/ aggDataReturnIn
AggThread   == \/ preamble
               \/ fillWaiting \/ fillIsFull \/ fillWillFill \/ fillMore
               \/ timeoutSend \/ timeoutIgnored
               \/ statusGood \/ statusBad
               \/ SendChain
RateGroup   == rgTick \/ rgTimeout \/ rgEnqueue \/ rgRun \/ rgComStatusInit \/ rgPoll

Next == /\ asserted = "none"
        /\ comPacketQueueIn \/ QueueThread \/ AggThread \/ RateGroup

Spec == Init /\ [][Next]_vars

(* Each thread keeps dispatching (an active component's loop and the rate  *)
(* group's timer never stop), and a radio that can come up on a tick comes *)
(* up on one of them.  Packets are not obliged to arrive.                  *)
FairSpec == /\ Spec
            /\ WF_vars(QueueThread /\ asserted = "none")
            /\ WF_vars(AggThread /\ asserted = "none")
            /\ WF_vars(RateGroup /\ asserted = "none")
            /\ SF_vars(rgRun /\ m_started' /\ asserted = "none")
-----------------------------------------------------------------------------
(***************************************************************************)
(* Properties.                                                             *)
(***************************************************************************)

(* None of the modelled FW_ASSERTs fails: ComQueue::comStatusIn_handler    *)
(* never sees a status while READY (ComQueue.cpp:170), the aggregator      *)
(* never sees a status in FILL (ComAggregator.cpp:110) nor a second packet *)
(* to hold (:104), what it copies fits the frame (:83, :120, :128), no     *)
(* frame buffer is returned or reused out of turn (:43, TmFramer.cpp), and *)
(* the aggregator's input queue does not overflow.                         *)
NoAssertFailure == asserted = "none"

Fills    == {i \in 1..Len(aggQueue) : aggQueue[i].sig = "fill"}
Statuses == {i \in 1..Len(aggQueue) : aggQueue[i].sig = "status"}

(* The permission to emit one packet exists exactly once between ComQueue  *)
(* and the aggregator: as the preamble still to run, a SUCCESS on its way  *)
(* up, a READY queue, a packet on its way down or a held packet.  If it    *)
(* were duplicated an assertion would fail; if it were lost the downlink   *)
(* would stop for good.                                                    *)
Credit == [preamble |-> ~preambleRun,
           status   |-> statusIn > 0,
           ready    |-> m_state = "READY",
           fill     |-> Fills # {},
           held     |-> m_held > 0]

CreditConserved ==
    /\ \E h \in DOMAIN Credit : \A g \in DOMAIN Credit : Credit[g] <=> g = h
    /\ statusIn <= 1
    /\ \A i, j \in Fills : i = j

(* A status that waits in the aggregator's queue speaks of a frame whose   *)
(* buffer TmFramer has back: the adapter returns the buffer before it      *)
(* reports, and no other frame was started since.                          *)
StatusAfterReturn == Statuses # {} => tmBuffer = "OWNED"

(* The stack never hands a frame to an adapter whose node is not running:  *)
(* the `not started' branch of dataIn_handler, and with it a second thread *)
(* inside ensureNodeStarted, is not reached in this topology.              *)
DataInOnlyWhenStarted == aggPc # "loop" => m_started

(* The aggregator's input queue needs room for two messages besides the    *)
(* timeouts: one fill and one status can wait at the same time.  Timeouts  *)
(* are queued on a flag that may be stale by then.                         *)
AggQueueBounded == Len(aggQueue) <= MaxTimeouts + 2

(* The adapter, seen through its ports, keeps the Svc.Com protocol.        *)
LinkState ==
    IF ~m_initialStatusSent /\ rgPc # "poll" THEN "Init"
    ELSE IF aggPc \in {"dataReturn", "comStatus"} THEN "Busy"
    ELSE IF sendOk THEN "Ready" ELSE "Failed"

Com == INSTANCE SvcCom WITH link <- LinkState, holding <- tmBuffer = "NOT_OWNED"

ComProtocol == Com!Spec

(* A packet in the frame under construction reaches the radio even if no   *)
(* further packet ever arrives: the timeout flushes it.                    *)
FrameFlushed == (aggState = "FILL" /\ frame > 0) ~> (aggPc = "dataReturn")

(* A full ComQueue drains by at least one packet when the frames are ones  *)
(* the node accepts.                                                       *)
BacklogServed == (NodeSend /\ backlog = QueueDepth) ~> (backlog < QueueDepth)

(* communication-adapter-interface.md lines 111-114: after a FAILURE the   *)
(* adapter emits SUCCESS once communication is restored.                   *)
FailureRestored == (LinkState = "Failed") ~> (LinkState = "Ready")
=============================================================================
