---------------------------- MODULE MCCommanding ----------------------------
(* A small instance of Commanding for TLC.                                 *)
EXTENDS Commanding

File(found, accepted, records) ==
    [found |-> found, accepted |-> accepted, records |-> records, next |-> 1]
Pair    == File(TRUE, TRUE, <<"WORK", "WORK">>)
Ended   == File(TRUE, TRUE, <<"WORK", "END">>)
EndOnly == File(TRUE, TRUE, <<"END">>)
BadCrc  == File(TRUE, FALSE, <<"WORK">>)
TooBig  == File(TRUE, FALSE, <<"GARBAGE">>)      \* by the size in the header
TooMany == [BadCrc EXCEPT !.records = <<"WORK", "WORK">>, !.next = 2]  \* more records than announced
Missing == File(FALSE, FALSE, <<>>)

(* Runs that are cancelled, joined and stepped; runs by hand; statuses     *)
(* that are lost or errors; files that are refused.                        *)
MCCampaigns ==
    {[ops |-> {"CS_RUN", "CS_CANCEL", "CS_JOIN_WAIT", "CS_STEP"},
      files |-> {Pair, EndOnly}, most |-> 3, timeout |-> TRUE, paced |-> FALSE],
     [ops |-> {"CS_RUN", "CS_MANUAL", "CS_START", "CS_STEP"},
      files |-> {Ended}, most |-> 4, timeout |-> FALSE, paced |-> TRUE],
     [ops |-> {"CS_RUN", "CMD_CLEAR_TRACKING", "CS_AUTO", "WORK", "UNKNOWN", "MALFORMED"},
      files |-> {Ended}, most |-> 3, timeout |-> FALSE, paced |-> FALSE],
     [ops |-> {"CS_RUN", "CS_VALIDATE", "CS_START"},
      files |-> {BadCrc, TooBig, TooMany, Missing}, most |-> 3, timeout |-> FALSE, paced |-> TRUE]}
=============================================================================
