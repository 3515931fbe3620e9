------------------------------ MODULE MCBudgets ------------------------------
\* Batches of up to three bets of two roles, costs around the rounding border,
\* and caps that some prefixes of a batch meet exactly.
EXTENDS Budgets, TLC

MCCosts == {49, 100, 190}
MCBets == [role : Roles, cost : MCCosts]
MCBatches == UNION {[1 .. n -> MCBets] : n \in 0 .. 3}

MCConfigs ==
  [perRun     : {{}, {100}},
   perSession : {{}, {200}, {300}},
   perRole    : {"cto" :> c @@ "engineer" :> e : c \in {{}, {100}}, e \in {{}, {250}}}]
==============================================================================
