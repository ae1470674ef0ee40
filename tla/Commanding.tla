----------------------------- MODULE Commanding -----------------------------
(***************************************************************************)
(* Commanding in the deployment: the command sequencer and the command     *)
(* dispatcher, each a thread with a FIFO queue.  Commands of the ground    *)
(* come through FprimeRouter (seqCmdBuff port 0, which ignores the status),*)
(* commands of a sequence from cmdSeq.comCmdOut; the dispatcher sends each *)
(* to its component, tracks it, and returns the component's status to the  *)
(* port the command came from.  The other components are external: they    *)
(* answer WORK in their own time.                                          *)
(***************************************************************************)
EXTENDS CmdSequencer, CommandDispatcher, SequencesExt

CONSTANTS
    Slots,          \* CMD_DISPATCHER_SEQUENCER_TABLE_SIZE
    Campaigns,      \* a scenario: whether m_timeout > 0, and what the ground does:
                    \* opcodes and files it uses, most commands it sends, and
                    \* whether it waits until the queues are empty
    MaxDrops        \* bound: commands of a sequence dropped at a full queue

Ports  == {"router", "cmdSeq"}
SeqOps == {"CS_CANCEL", "CS_JOIN_WAIT", "CS_START", "CS_STEP", "CS_AUTO", "CS_MANUAL"}
Opcodes == SeqOps \cup {"CS_RUN", "CS_VALIDATE", "WORK", "UNKNOWN", "MALFORMED",
                        "CMD_CLEAR_TRACKING"}

ASSUME CommandingAssumption ==
    /\ Slots \in Nat \ {0}
    /\ \A c \in Campaigns : c.ops \subseteq Opcodes /\ c.most \in Nat /\ c.timeout \in BOOLEAN
    /\ MaxDrops \in Nat

(* The files that can be there: loadFile accepts one with a record at      *)
(* least, all of which deserialize, and rewinds it; a file that is refused *)
(* leaves the position where reading it stopped.  Sequences hold commands  *)
(* without a file argument.                                                *)
Records == (Opcodes \ {"CS_RUN", "CS_VALIDATE"}) \cup {"END", "GARBAGE"}
IsFile(f) ==
    /\ f \in [found : BOOLEAN, accepted : BOOLEAN, records : Seq(Records), next : Nat]
    /\ f.next \in 1..Len(f.records) + 1
    /\ f.accepted => /\ f.records # <<>>
                     /\ f.next = 1
                     /\ \A i \in 1..Len(f.records) : f.records[i] # "GARBAGE"

ASSUME FilesAssumption == \A c \in Campaigns : \A f \in c.files : IsFile(f)

VARIABLES
    seqr,           \* state of the sequencer (CmdSequencer)
    seqQueue,       \* its queue: commands and responses
    disp,           \* state of the dispatcher (CommandDispatcher)
    dispQueue,      \* its queue: command buffers and statuses
    working,        \* external: numbers of the commands other components hold
    campaign,       \* the scenario, never changes
    ground,         \* commands the ground has sent
    drops,          \* commands of a sequence dropped
    awaited,        \* history: per port, commands whose status is still to come
    owed,           \* history: commands the sequencer has taken and not answered
    displaced,      \* history: owners replaced before they were answered
    first,          \* history: the record the run began with
    clean,          \* history: the run began with nothing awaited and was stepped in turn
    lost            \* history: the status of a command of a sequence will not come

vars == <<seqr, seqQueue, disp, dispQueue, working, campaign, ground, drops,
          awaited, owed, displaced, first, clean, lost>>

GroundCommands ==
    [op : campaign.ops \ {"CS_RUN", "CS_VALIDATE"}]
    \cup [op : campaign.ops \cap {"CS_RUN"}, file : campaign.files, block : BOOLEAN]
    \cup [op : campaign.ops \cap {"CS_VALIDATE"}, file : campaign.files]
SequencerCommand(cmd) == cmd.op \in SeqOps \cup {"CS_RUN", "CS_VALIDATE"}

Init ==
    /\ seqQueue = <<>>
    /\ disp = [seq |-> 1, tracker |-> [i \in 1..Slots |-> NoEntry], status |-> <<>>, send |-> <<>>]
    /\ dispQueue = <<>>
    /\ working = {}
    /\ campaign \in Campaigns
    /\ seqr = Constructed(campaign.timeout)
    /\ ground = 0 /\ drops = 0
    /\ awaited = [p \in Ports |-> 0]
    /\ owed = {} /\ displaced = {}
    /\ first = 1 /\ clean = TRUE /\ lost = FALSE

(* A failed FW_ASSERT ends the process.                                    *)
Alive == ~seqr.asserted

-----------------------------------------------------------------------------
(* The sequencer's calls reach the dispatcher's queue in order, except     *)
(* that seqCmdBuff drops a command that finds it full.                     *)
IsCommand(m) == m.kind = "seqCmdBuff"
Commands(s)  == {i \in 1..Len(s.out) : IsCommand(s.out[i])}

Flush(s) ==
    /\ seqr' = [s EXCEPT !.out = <<>>]
    /\ \/ /\ dispQueue' = dispQueue \o s.out
          /\ UNCHANGED <<drops, lost>>
       \/ /\ drops < MaxDrops
          /\ \E i \in Commands(s) : dispQueue' = dispQueue \o RemoveAt(s.out, i)
          /\ drops' = drops + 1
          /\ lost' = TRUE

(* What of the commands sent is awaited, given how many were before.       *)
Awaiting(before, s) ==
    awaited' = [awaited EXCEPT !["cmdSeq"] = before + Cardinality(Commands(s)) - (drops' - drops)]

Answered(s) == {s.out[i].seq : i \in 1..Len(s.out) \ Commands(s)}

(* Replaces the recorded owner.                                            *)
Displaces(cmd) == cmd.op \in {"CS_RUN", "CS_JOIN_WAIT", "CS_START"}

(* A run is in turn when it starts with nothing awaited, and stays so when *)
(* it is stepped by hand only in MANUAL mode and after the last answer.    *)
Starts(cmd) == cmd.op \in {"CS_RUN", "CS_START"} /\ seqr.runMode = "STOPPED"
FirstAfter(cmd) ==
    IF ~Starts(cmd) THEN first ELSE IF cmd.op = "CS_RUN" THEN cmd.file.next ELSE seqr.next
InTurnAfter(cmd) ==
    CASE Starts(cmd)        -> awaited["cmdSeq"] = 0 /\ ~seqr.cmdTimer
      [] cmd.op = "CS_STEP" -> clean /\ seqr.stepMode = "MANUAL" /\ seqr.next - first = seqr.executed
      [] OTHER              -> clean

(* The sequencer's thread: a command.                                      *)
sequencerCommand ==
    /\ Alive /\ seqQueue # <<>> /\ Head(seqQueue).kind = "cmd"
    /\ LET m == Head(seqQueue)
       IN  \E due \in BOOLEAN :
            LET s == cmdIn(seqr, m.cmd, m.seq, due)
            IN  /\ Flush(s)
                /\ Awaiting(awaited["cmdSeq"], s)
                /\ owed' = (owed \cup {m.seq}) \ Answered(s)
                /\ displaced' = owed' \cap
                        (displaced \cup IF Displaces(m.cmd) /\ (seqr.block \/ seqr.join)
                                        THEN {seqr.owner} ELSE {})
                /\ first' = FirstAfter(m.cmd)
                /\ clean' = InTurnAfter(m.cmd)
    /\ seqQueue' = Tail(seqQueue)
    /\ UNCHANGED <<disp, working, campaign, ground>>

(* A response; one that never comes is not awaited any more.               *)
sequencerResponse ==
    /\ Alive /\ seqQueue # <<>> /\ Head(seqQueue).kind = "response"
    /\ \E due \in BOOLEAN :
        LET s == cmdResponseIn(seqr, Head(seqQueue).response, due)
        IN  /\ Flush(s)
            /\ Awaiting(awaited["cmdSeq"] - 1, s)
            /\ owed' = owed \ Answered(s)
    /\ seqQueue' = Tail(seqQueue)
    /\ UNCHANGED <<disp, working, campaign, ground, displaced, first, clean>>

(* schedIn, from the rate group.                                           *)
sched(s) ==
    /\ Flush(s)
    /\ Awaiting(awaited["cmdSeq"], s)
    /\ owed' = owed \ Answered(s)
    /\ UNCHANGED <<seqQueue, disp, working, campaign, ground, displaced, first, clean>>

schedIn == /\ Alive
           /\ \/ seqr.cmdTimer /\ sched(schedInDue(seqr))
              \/ seqr.timeoutTimer /\ sched(schedInTimeout(seqr))

-----------------------------------------------------------------------------
(* The dispatcher's calls, one at most from each of its handlers: statuses *)
(* to the sequencer's queue or to the router, commands to their components.*)
Returned(d) ==
    IF d.status # <<>> /\ Head(d.status).port = "cmdSeq"
    THEN <<[kind |-> "response", response |-> Head(d.status).response]>> ELSE <<>>
Delivered(d) ==
    IF d.send # <<>> /\ SequencerCommand(Head(d.send).cmd)
    THEN <<[kind |-> "cmd", cmd |-> Head(d.send).cmd, seq |-> Head(d.send).seq]>> ELSE <<>>
Own(d) ==
    IF d.send # <<>> /\ Head(d.send).cmd.op = "CMD_CLEAR_TRACKING"
    THEN <<[kind |-> "own", seq |-> Head(d.send).seq]>> ELSE <<>>
Elsewhere(d) == {d.send[i].seq : i \in {j \in 1..Len(d.send) : d.send[j].cmd.op = "WORK"}}
Routed(d)    == Cardinality({i \in 1..Len(d.status) : d.status[i].port = "router"})

dispatched(d) ==
    /\ disp' = [d EXCEPT !.status = <<>>, !.send = <<>>]
    /\ seqQueue' = seqQueue \o Returned(d) \o Delivered(d)
    /\ dispQueue' = Tail(dispQueue) \o Own(d)
    /\ working' = working \cup Elsewhere(d)
    /\ awaited' = [awaited EXCEPT !["router"] = @ - Routed(d)]
    /\ UNCHANGED <<seqr, campaign, ground, drops, owed, displaced, first, clean, lost>>

dispatcherBuffer ==
    /\ Alive /\ dispQueue # <<>> /\ IsCommand(Head(dispQueue))
    /\ dispatched(seqCmdBuff(disp, Head(dispQueue).port, Head(dispQueue).cmd))

dispatcherStatus ==
    /\ Alive /\ dispQueue # <<>> /\ Head(dispQueue).kind = "compCmdStat"
    /\ dispatched(compCmdStat(disp, Head(dispQueue).seq, Head(dispQueue).response))

Tracked(port) == Cardinality({i \in 1..Slots : disp.tracker[i].used /\ disp.tracker[i].port = port})

(* CMD_CLEAR_TRACKING forgets the entry of the command itself as well, so  *)
(* its own status goes nowhere.                                            *)
dispatcherClear ==
    /\ Alive /\ dispQueue # <<>> /\ Head(dispQueue).kind = "own"
    /\ disp' = CMD_CLEAR_TRACKING(disp)
    /\ dispQueue' = Append(Tail(dispQueue), [kind |-> "compCmdStat", seq |-> Head(dispQueue).seq,
                                             response |-> "OK"])
    /\ awaited' = [p \in Ports |-> awaited[p] - Tracked(p)]
    /\ lost' = (lost \/ Tracked("cmdSeq") > 0)
    /\ UNCHANGED <<seqr, seqQueue, working, campaign, ground, drops, owed, displaced, first, clean>>

(* The other components (external).                                        *)
workerResponds ==
    /\ Alive
    /\ \E n \in working, response \in {"OK", "EXECUTION_ERROR"} :
        /\ working' = working \ {n}
        /\ dispQueue' = Append(dispQueue, [kind |-> "compCmdStat", seq |-> n,
                                           response |-> response])
    /\ UNCHANGED <<seqr, seqQueue, disp, campaign, ground, drops, awaited, owed, displaced, first, clean, lost>>

Queued(port) ==
    Cardinality({i \in 1..Len(dispQueue) : IsCommand(dispQueue[i]) /\ dispQueue[i].port = port})

(* FprimeRouter.dataIn with a command packet of the ground (external).     *)
(* The queues are FIFO: one command of the ground in them at a time shows  *)
(* every order in which the components can meet them.                      *)
groundSends ==
    /\ Alive /\ ground < campaign.most
    /\ Queued("router") = 0 /\ ~\E i \in 1..Len(seqQueue) : seqQueue[i].kind = "cmd"
    /\ campaign.paced => dispQueue = <<>> /\ seqQueue = <<>>
    /\ \E cmd \in GroundCommands :
        dispQueue' = Append(dispQueue, [kind |-> "seqCmdBuff", port |-> "router", cmd |-> cmd])
    /\ ground' = ground + 1
    /\ awaited' = [awaited EXCEPT !["router"] = @ + 1]
    /\ UNCHANGED <<seqr, seqQueue, disp, working, campaign, drops, owed, displaced, first, clean, lost>>

-----------------------------------------------------------------------------
Sequencer  == sequencerCommand \/ sequencerResponse
Dispatcher == dispatcherBuffer \/ dispatcherStatus \/ dispatcherClear

Next == Sequencer \/ schedIn \/ Dispatcher \/ workerResponds \/ groundSends

Spec == Init /\ [][Next]_vars

(* Both threads serve their queues and the rate group ticks until a timer  *)
(* expires; the other components are relied on to answer only where no     *)
(* command timeout is configured.                                          *)
FairSpec == /\ Spec
            /\ WF_vars(Sequencer) /\ WF_vars(Dispatcher) /\ WF_vars(schedIn)
            /\ WF_vars(~seqr.timeout /\ workerResponds)
-----------------------------------------------------------------------------
Returning == Cardinality({i \in 1..Len(seqQueue) : seqQueue[i].kind = "response"})

TypeOK ==
    /\ seqr.runMode \in {"STOPPED", "RUNNING"}
    /\ seqr.out = <<>> /\ disp.status = <<>> /\ disp.send = <<>>
    /\ seqr.next \in 1..Len(seqr.records) + 1
    /\ awaited \in [Ports -> Nat]
    /\ working \subseteq 1..disp.seq - 1 /\ owed \subseteq 1..disp.seq - 1

(* No status is lost or doubled between the dispatcher and whoever sent    *)
(* the command: what a port still awaits is in the queue, tracked, or on   *)
(* its way back, also when the table is full and when the sequencer        *)
(* answers a CS_RUN twice (BLOCK with END as first record).                *)
StatusConserved ==
    /\ awaited["router"] = Queued("router") + Tracked("router")
    /\ awaited["cmdSeq"] = Queued("cmdSeq") + Tracked("cmdSeq") + Returning

(* A run that began with nothing awaited and was stepped in turn reads a   *)
(* record only when the one before was answered, and has at most one       *)
(* command out, waiting for its time included.  (Otherwise the status of a *)
(* cancelled run is credited to the new one, which reads ahead.)           *)
InTurn ==
    seqr.runMode = "RUNNING" /\ clean /\ Alive =>
        LET ahead == seqr.next - first - seqr.executed
        IN  /\ ahead \in {0, 1}
            /\ seqr.stepMode = "AUTO" => ahead = 1
            /\ awaited["cmdSeq"] + (IF seqr.cmdTimer THEN 1 ELSE 0) <= ahead

(* The sequencer answers every command, at once or when the sequence ends, *)
(* except those it has forgotten: there is one m_cmdSeq, which CS_RUN,     *)
(* CS_START and CS_JOIN_WAIT take from a command still waiting for it.     *)
AnswerOwed ==
    Alive => owed \subseteq displaced \cup (IF seqr.block \/ seqr.join THEN {seqr.owner} ELSE {})

(* nextRecord finds a record, unless a step was out of turn or CS_START    *)
(* ran a file that had been refused.                                       *)
RecordsLast == seqr.asserted => ~clean \/ ~seqr.valid

(* A sequence in AUTO mode ends: with a command timeout whatever the other *)
(* components do, without one unless a status was lost.                    *)
SequenceEnds ==
    (seqr.runMode = "RUNNING" /\ seqr.stepMode = "AUTO")
        ~> (seqr.runMode = "STOPPED" \/ ~Alive \/ (lost /\ ~seqr.timeout))
=============================================================================
