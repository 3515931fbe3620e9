---------------------------------- MODULE Caps ---------------------------------
(***************************************************************************)
(* The caps of execution.budgets (cns/models.py) and how an amount is held *)
(* against one (cns/costs.py).  Money is counted in 1/10000 USD, the       *)
(* precision of cost_usd.                                                  *)
(***************************************************************************)
EXTENDS Integers

CONSTANT Roles  \* the roles of the role tree

\* A cap is a set of at most one amount, validated to be non-negative: None is the
\* empty set.
IsCap(cap) == cap \subseteq Nat /\ \A c, d \in cap : c = d

Exceeds(amount, cap) == \E c \in cap : amount > c
===============================================================================
