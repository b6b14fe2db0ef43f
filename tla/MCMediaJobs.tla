---------------------------- MODULE MCMediaJobs ----------------------------
(* Two jobs for one place, with channels of one event; one of them reports  *)
(* progress before its result.                                              *)
EXTENDS MediaJobs

CONSTANTS j1, j2

MCPollsOf == [j \in Jobs |-> IF j = j1 THEN 1 ELSE 0]
=============================================================================
