------------------------- MODULE CommandDispatcher --------------------------
(***************************************************************************)
(* Svc::CommandDispatcher: the tracking table and the two handlers that    *)
(* use it, as functions of the component's state                           *)
(*   seq       m_seq                                                       *)
(*   tracker   m_sequenceTracker: NoEntry, or the seq and callerPort       *)
(*   status    calls made on seqCmdStatus                                  *)
(*   send      calls made on compCmdSend                                   *)
(* An opcode is "MALFORMED" when the packet does not deserialize, and      *)
(* "UNKNOWN" when no component has registered it.                          *)
(***************************************************************************)
EXTENDS Integers, Sequences, FiniteSets, FiniteSetsExt

NoEntry == [used |-> FALSE]
Entry(seq, port) == [used |-> TRUE, seq |-> seq, port |-> port]

seqCmdStatus(d, port, response) ==
    [d EXCEPT !.status = Append(@, [port |-> port, response |-> response])]

Unused(d)         == {i \in DOMAIN d.tracker : ~d.tracker[i].used}
Matching(d, seq)  == {i \in DOMAIN d.tracker : d.tracker[i].used /\ d.tracker[i].seq = seq}

(* Mutation of seqCmdBuff: a command that cannot be tracked is dropped.    *)
seqCmdBuffQuiet(d, port, cmd) ==
    IF cmd.op = "MALFORMED" THEN seqCmdStatus(d, port, "VALIDATION_ERROR")
    ELSE IF cmd.op = "UNKNOWN"
         THEN seqCmdStatus([d EXCEPT !.seq = @ + 1], port, "INVALID_OPCODE")
    ELSE IF Unused(d) = {} THEN d
    ELSE [d EXCEPT !.tracker[Min(Unused(d))] = Entry(d.seq, port),
                   !.send = Append(@, [cmd |-> cmd, seq |-> d.seq]),
                   !.seq = @ + 1]

seqCmdBuff(d, port, cmd) ==
    IF cmd.op = "MALFORMED" THEN seqCmdStatus(d, port, "VALIDATION_ERROR")
    ELSE IF cmd.op = "UNKNOWN"
         THEN seqCmdStatus([d EXCEPT !.seq = @ + 1], port, "INVALID_OPCODE")
    ELSE IF Unused(d) = {} THEN seqCmdStatus(d, port, "EXECUTION_ERROR")
    ELSE [d EXCEPT !.tracker[Min(Unused(d))] = Entry(d.seq, port),
                   !.send = Append(@, [cmd |-> cmd, seq |-> d.seq]),
                   !.seq = @ + 1]

(* A status for a number that is not tracked goes nowhere.                 *)
compCmdStat(d, seq, response) ==
    IF Matching(d, seq) = {} THEN d
    ELSE LET pending == Min(Matching(d, seq))
         IN  seqCmdStatus([d EXCEPT !.tracker[pending] = NoEntry], d.tracker[pending].port, response)

CMD_CLEAR_TRACKING(d) == [d EXCEPT !.tracker = [i \in DOMAIN d.tracker |-> NoEntry]]
=============================================================================
