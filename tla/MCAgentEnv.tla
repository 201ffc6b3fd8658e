----------------------------- MODULE MCAgentEnv -----------------------------
(* AgentEnv on small instances. *)
EXTENDS AgentEnv, TLC

CONSTANTS host, proto, node, dsn, tier, v0, v1

\* One key of both files, and one with a key that only the unit has.
MCRequests == {node :> v1, (node :> v0) @@ (dsn :> v1)}
=============================================================================
