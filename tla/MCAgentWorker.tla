---------------------------- MODULE MCAgentWorker ----------------------------
\* The worker's instance for TLC: two roles, three agents, and a configuration
\* that may lose an agent, gain one and disable one.
EXTENDS AgentWorker, TLC

MCRoleCap == [r \in Roles |-> 1]

On(r) == [role |-> r, enabled |-> TRUE]
Off(r) == [role |-> r, enabled |-> FALSE]

MCFleets ==
  {"cto1" :> On("cto") @@ "eng1" :> On("engineer"),
   "cto1" :> Off("cto") @@ "eng2" :> On("engineer")}
==============================================================================
