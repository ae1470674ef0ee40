---------------------------- MODULE CmdSequencer ----------------------------
(***************************************************************************)
(* Svc::CmdSequencer: its handlers as functions of the component's state.  *)
(* A state is a record                                                     *)
(*   runMode, stepMode        RUNNING or STOPPED; AUTO or MANUAL           *)
(*   block, join              m_blockState = BLOCK; m_join_waiting         *)
(*   owner                    m_cmdSeq (m_opCode goes with it)             *)
(*   records, next, valid     the sequence buffer, its read position, and  *)
(*                            (history) whether its file was accepted      *)
(*   command                  m_record.m_command, the last command read    *)
(*   executed                 m_executedCount                              *)
(*   cmdTimer, timeoutTimer   the timer is SET                             *)
(*   timeout                  m_timeout > 0                                *)
(*   asserted                 FW_ASSERT has failed                         *)
(*   out                      calls made on comCmdOut and cmdResponseOut   *)
(* A record of a sequence is the command it holds, "END", or "GARBAGE"     *)
(* where deserializeRecord fails.  Whether its time has come (due) and     *)
(* whether a timer has expired are inputs; ABSOLUTE and RELATIVE records   *)
(* differ in nothing else.                                                 *)
(***************************************************************************)
EXTENDS Integers, Sequences

NoCommand == "NONE"

Constructed(timeout) ==
    [runMode |-> "STOPPED", stepMode |-> "AUTO", block |-> FALSE, join |-> FALSE, owner |-> 0,
     records |-> <<>>, next |-> 1, valid |-> TRUE, command |-> NoCommand, executed |-> 0,
     cmdTimer |-> FALSE, timeoutTimer |-> FALSE, timeout |-> timeout,
     asserted |-> FALSE, out |-> <<>>]

cmdResponse(s, cmdSeq, response) ==
    [s EXCEPT !.out = Append(@, [kind |-> "compCmdStat", seq |-> cmdSeq, response |-> response])]
comCmdOut(s) ==
    [s EXCEPT !.out = Append(@, [kind |-> "seqCmdBuff", port |-> "cmdSeq",
                                 cmd |-> [op |-> s.command]])]

(***************************************************************************)
(* FPrimeSequence.  A file is [found, accepted, records, next]: whether it *)
(* opens, passes CRC, time base and record checks, and what the buffer     *)
(* holds, read from next, when loadFile returns.  A file that is refused   *)
(* after it was read stays in the buffer.                                  *)
(***************************************************************************)
loadFile(s, file) ==
    IF file.found THEN [s EXCEPT !.records = file.records, !.next = file.next,
                                 !.valid = file.accepted]
    ELSE s
hasMoreRecords(s) == s.next <= Len(s.records)

(* Mutation of clear: the read position is kept.                           *)
clearKeepsPosition(s) == [s EXCEPT !.records = <<>>, !.valid = TRUE]

clear(s) == [s EXCEPT !.records = <<>>, !.next = 1, !.valid = TRUE]
reset(s) == [s EXCEPT !.next = 1]

(***************************************************************************)
(* Helper methods.                                                         *)
(***************************************************************************)
requireRunMode(s, mode) == s.runMode = mode

(* Mutation of setCmdTimeout: the step mode the wrong way round.           *)
setCmdTimeoutStepping(s) == [s EXCEPT !.timeoutTimer = @ \/ (s.timeout /\ s.stepMode # "AUTO")]

setCmdTimeout(s) == [s EXCEPT !.timeoutTimer = @ \/ (s.timeout /\ s.stepMode = "AUTO")]

(* The answer to the command recorded last, at the end of a sequence.      *)
answerOwner(s, response) ==
    IF s.block \/ s.join
    THEN [cmdResponse(s, s.owner, response) EXCEPT !.join = FALSE, !.block = FALSE]
    ELSE s

(* Mutation of performCmd_Cancel: nobody is told.                          *)
performCmd_CancelSilent(s) ==
    [reset(s) EXCEPT !.runMode = "STOPPED", !.cmdTimer = FALSE, !.timeoutTimer = FALSE,
                     !.executed = 0, !.join = FALSE, !.block = FALSE]

performCmd_Cancel(s) ==
    answerOwner([reset(s) EXCEPT !.runMode = "STOPPED", !.cmdTimer = FALSE,
                                 !.timeoutTimer = FALSE, !.executed = 0],
                "EXECUTION_ERROR")

sequenceComplete(s) ==
    answerOwner([clear(s) EXCEPT !.runMode = "STOPPED", !.executed = 0], "OK")

(* nextRecord asserts that there is a record; the timers are left alone.   *)
performCmd_Step(s, due) ==
    IF ~hasMoreRecords(s) \/ s.records[s.next] = "GARBAGE" THEN [s EXCEPT !.asserted = TRUE]
    ELSE IF s.records[s.next] = "END" THEN sequenceComplete(s)
    ELSE LET read == [s EXCEPT !.command = s.records[s.next], !.next = @ + 1]
         IN  IF due THEN setCmdTimeout(comCmdOut(read)) ELSE [read EXCEPT !.cmdTimer = TRUE]

(***************************************************************************)
(* Command handlers; n is the sequence number the dispatcher gave.         *)
(***************************************************************************)
Refused(s, n) == cmdResponse(s, n, "EXECUTION_ERROR")

CS_RUN(s, n, file, block, due) ==
    LET recorded == [s EXCEPT !.block = block, !.owner = n]
        loaded   == [loadFile(recorded, file) EXCEPT !.executed = 0]
        begun    == IF s.stepMode = "AUTO"
                    THEN performCmd_Step([loaded EXCEPT !.runMode = "RUNNING"], due)
                    ELSE loaded
    IN  IF ~requireRunMode(s, "STOPPED") THEN Refused(s, n)
        ELSE IF ~(file.found /\ file.accepted) THEN Refused(loadFile(recorded, file), n)
        ELSE IF begun.block \/ begun.asserted THEN begun
        ELSE cmdResponse(begun, n, "OK")

CS_VALIDATE(s, n, file) ==
    IF ~requireRunMode(s, "STOPPED") THEN Refused(s, n)
    ELSE IF ~(file.found /\ file.accepted) THEN Refused(loadFile(s, file), n)
    ELSE cmdResponse(clear(s), n, "OK")

CS_CANCEL(s, n) ==
    cmdResponse(IF s.runMode = "RUNNING" THEN performCmd_Cancel(s) ELSE s, n, "OK")

CS_JOIN_WAIT(s, n) ==
    IF s.runMode # "RUNNING" THEN cmdResponse(s, n, "OK")
    ELSE [s EXCEPT !.join = TRUE, !.owner = n]

CS_START(s, n, due) ==
    LET begun == performCmd_Step([s EXCEPT !.block = FALSE, !.runMode = "RUNNING"], due)
    IN  IF ~hasMoreRecords(s) \/ ~requireRunMode(s, "STOPPED") THEN Refused(s, n)
        ELSE IF begun.asserted THEN begun
        ELSE cmdResponse(begun, n, "OK")

CS_STEP(s, n, due) ==
    LET stepped == performCmd_Step(s, due)
    IN  IF ~requireRunMode(s, "RUNNING") THEN Refused(s, n)
        ELSE IF stepped.asserted THEN stepped
        ELSE cmdResponse(stepped, n, "OK")

(* CS_AUTO and CS_MANUAL.                                                  *)
switchMode(s, n, mode) ==
    IF requireRunMode(s, "STOPPED") THEN cmdResponse([s EXCEPT !.stepMode = mode], n, "OK")
    ELSE Refused(s, n)

cmdIn(s, cmd, n, due) ==
    CASE cmd.op = "CS_RUN"       -> CS_RUN(s, n, cmd.file, cmd.block, due)
      [] cmd.op = "CS_VALIDATE"  -> CS_VALIDATE(s, n, cmd.file)
      [] cmd.op = "CS_CANCEL"    -> CS_CANCEL(s, n)
      [] cmd.op = "CS_JOIN_WAIT" -> CS_JOIN_WAIT(s, n)
      [] cmd.op = "CS_START"     -> CS_START(s, n, due)
      [] cmd.op = "CS_STEP"      -> CS_STEP(s, n, due)
      [] cmd.op = "CS_AUTO"      -> switchMode(s, n, "AUTO")
      [] cmd.op = "CS_MANUAL"    -> switchMode(s, n, "MANUAL")

(***************************************************************************)
(* Port handlers.                                                          *)
(***************************************************************************)

(* Mutation of cmdResponseIn: the next record is read without a look       *)
(* whether there is one.                                                   *)
cmdResponseInNoEnd(s, response, due) ==
    LET answered == [s EXCEPT !.timeoutTimer = FALSE]
        credited == [answered EXCEPT !.executed = @ + 1]
    IN  IF s.runMode = "STOPPED" THEN s
        ELSE IF response # "OK" THEN performCmd_Cancel(answered)
        ELSE IF s.stepMode = "AUTO" THEN performCmd_Step(credited, due)
        ELSE credited

(* The response is not compared with the command that was sent.            *)
cmdResponseIn(s, response, due) ==
    LET answered == [s EXCEPT !.timeoutTimer = FALSE]
        credited == [answered EXCEPT !.executed = @ + 1]
    IN  IF s.runMode = "STOPPED" THEN s
        ELSE IF response # "OK" THEN performCmd_Cancel(answered)
        ELSE IF ~hasMoreRecords(credited) THEN sequenceComplete(credited)
        ELSE IF s.stepMode = "AUTO" THEN performCmd_Step(credited, due)
        ELSE credited

(* Mutation of schedInDue: the timer stays set.                            *)
schedInDueAgain(s) == setCmdTimeout(comCmdOut(s))

(* schedIn when the timer of a command has expired, and when only the      *)
(* command timeout has.                                                    *)
schedInDue(s)     == setCmdTimeout([comCmdOut(s) EXCEPT !.cmdTimer = FALSE])
schedInTimeout(s) == performCmd_Cancel(s)
=============================================================================
