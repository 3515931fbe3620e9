-------------------------------- MODULE MCHooks --------------------------------
EXTENDS Hooks, TLC

CONSTANTS b1, b2, s1, s2

\* The first bet's role may use the web and git, the second's may do neither.
MCRules ==
  b1 :> [staging |-> "files1", web |-> TRUE, hosts |-> {"docs"}, commands |-> {"git"}]
    @@ b2 :> [staging |-> "files2", web |-> FALSE, hosts |-> {}, commands |-> {"ls"}]

MCRequests ==
  [tool : Gated \cup {"read", "garbled"},
   arg : {"files1", "files2", "elsewhere", "docs", "git", "ls", "malformed", "missing"}]

MCSymmetry == Permutations({s1, s2})
===============================================================================
