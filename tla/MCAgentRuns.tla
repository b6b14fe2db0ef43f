---------------------------- MODULE MCAgentRuns ----------------------------
(* Two runs of one user and one of another, all in one workspace.           *)
EXTENDS AgentRuns

CONSTANTS a1, a2, b1, ann, bob, home, l1, l2

MCOwnerOf == [r \in Runs |-> IF r = b1 THEN bob ELSE ann]
MCWorkspaceOf == [r \in Runs |-> home]

Alike == Permutations({a1, a2}) \cup Permutations({l1, l2})
=============================================================================
