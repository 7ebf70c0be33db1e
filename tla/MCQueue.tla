------------------------------- MODULE MCQueue -------------------------------
(* Queue for TLC: behaviours in time with all blocks and values, and         *)
(* behaviours with alarms, at most MaxAlarms, with few of both.              *)
EXTENDS Queue

CONSTANTS MaxAlarms, FewBlocks, FewValues

VARIABLE intime

Few == allocated' \subseteq FewBlocks /\ run'.v \in FewValues \cup {FILL}

MCInit == Init /\ intime \in BOOLEAN

MCNext ==
  /\ Next
  /\ IF intime THEN alarms' = 0 ELSE alarms' <= MaxAlarms /\ Few
  /\ UNCHANGED intime

MCSpec == MCInit /\ [][MCNext]_<<vars, intime>> /\ WF_program(Step)
=============================================================================
