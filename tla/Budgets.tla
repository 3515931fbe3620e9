------------------------------- MODULE Budgets -------------------------------
(***************************************************************************)
(* The budget gate of a dispatch (cns/costs.py): the loop of               *)
(* enforce_budgets over a planned batch, one step per bet, as              *)
(* annotate_with_estimates_and_budgets and dispatch_subordinate call it.   *)
(* Money is counted in 1/10000 USD, the precision of cost_usd; estimates   *)
(* are rounded to cents before they are compared.                          *)
(***************************************************************************)
EXTENDS Caps, Integers, Sequences, FiniteSets

CONSTANTS Batches,  \* the planned batches: sequences of [role, cost]
          Configs,  \* the budgets that may be configured
          Spends,   \* what a role may have spent in the last 24 hours
          Bases     \* what the session may have spent before this batch

PlannedBets == [role : Roles, cost : Nat]

\* Caps and costs are not negative.
ASSUME BudgetAssumption ==
  /\ Batches \subseteq Seq(PlannedBets)
  /\ \A b \in Configs :
       /\ IsCap(b.perRun) /\ IsCap(b.perSession)
       /\ DOMAIN b.perRole = Roles /\ \A r \in Roles : IsCap(b.perRole[r])
  /\ Spends \subseteq Nat
  /\ Bases \subseteq Nat

VARIABLES
  batch, budgets, history, base,  \* the arguments of enforce_budgets
  verdicts,       \* the decisions so far, one for each bet dealt with
  session_total,
  running_role_spend,
  session_capped

inputs == <<batch, budgets, history, base>>
budgetVars == <<batch, budgets, history, base, verdicts, session_total,
          running_role_spend, session_capped>>

Verdicts == {"allowed", "per_run", "per_session", "per_role"}

-------------------------------------------------------------------------------
\* quantize(Decimal("0.01"), ROUND_HALF_UP) of a non-negative amount.
Cents(cost) == (cost + 50) \div 100
Rounded(cost) == 100 * Cents(cost)

BudgetInit ==
  /\ batch \in Batches
  /\ budgets \in Configs
  /\ history \in [Roles -> Spends]
  /\ base \in Bases
  /\ verdicts = <<>>
  /\ session_total = base
  /\ running_role_spend = history
  /\ session_capped = FALSE

\* The bet the loop has come to, and its estimate in cents.
Bet == batch[Len(verdicts) + 1]
Usd == Rounded(Bet.cost)

OverRun     == Exceeds(Usd, budgets.perRun)
OverSession == Exceeds(session_total + Usd, budgets.perSession)
OverRole    == Exceeds(running_role_spend[Bet.role] + Usd, budgets.perRole[Bet.role])

More == Len(verdicts) < Len(batch)

Decide(verdict) ==
  /\ verdicts' = Append(verdicts, verdict)
  /\ UNCHANGED inputs

RefusePerRun ==
  /\ OverRun
  /\ Decide("per_run")
  /\ UNCHANGED <<session_total, running_role_spend, session_capped>>

\* From the first breach of the session cap on, every later bet is refused.
RefusePerSession ==
  /\ ~OverRun
  /\ OverSession
  /\ Decide("per_session")
  /\ session_capped' = TRUE
  /\ UNCHANGED <<session_total, running_role_spend>>

RefuseUpstream ==
  /\ ~OverRun
  /\ ~OverSession
  /\ session_capped
  /\ Decide("per_session")
  /\ UNCHANGED <<session_total, running_role_spend, session_capped>>

RefusePerRole ==
  /\ ~OverRun
  /\ ~OverSession
  /\ ~session_capped
  /\ OverRole
  /\ Decide("per_role")
  /\ UNCHANGED <<session_total, running_role_spend, session_capped>>

\* Mutant: the session's total counts this batch's last bet only.
AllowResetsSession ==
  /\ ~OverRun /\ ~OverSession /\ ~session_capped /\ ~OverRole
  /\ Decide("allowed")
  /\ session_total' = base + Usd
  /\ running_role_spend' = [running_role_spend EXCEPT ![Bet.role] = @ + Usd]
  /\ UNCHANGED session_capped

\* Mutant: the session cap is not looked at.
AllowBeyondSession ==
  /\ ~OverRun /\ ~session_capped /\ ~OverRole
  /\ Decide("allowed")
  /\ session_total' = session_total + Usd
  /\ running_role_spend' = [running_role_spend EXCEPT ![Bet.role] = @ + Usd]
  /\ UNCHANGED session_capped

Allow ==
  /\ ~OverRun /\ ~OverSession /\ ~session_capped /\ ~OverRole
  /\ Decide("allowed")
  /\ session_total' = session_total + Usd
  /\ running_role_spend' = [running_role_spend EXCEPT ![Bet.role] = @ + Usd]
  /\ UNCHANGED session_capped

BudgetNext ==
  /\ More
  /\ \/ RefusePerRun
     \/ RefusePerSession
     \/ RefuseUpstream
     \/ RefusePerRole
     \/ Allow

BudgetSpec == BudgetInit /\ [][BudgetNext]_budgetVars

-------------------------------------------------------------------------------
(* Properties.                                                             *)

BudgetTypeOK ==
  /\ batch \in Batches
  /\ budgets \in Configs
  /\ history \in [Roles -> Nat]
  /\ base \in Nat
  /\ verdicts \in Seq(Verdicts)
  /\ Len(verdicts) <= Len(batch)
  /\ session_total \in Nat
  /\ running_role_spend \in [Roles -> Nat]
  /\ session_capped \in BOOLEAN

Allowed == {i \in DOMAIN verdicts : verdicts[i] = "allowed"}
AllowedOf(r) == {i \in Allowed : batch[i].role = r}

\* What the loop lets through never takes the session above its cap, counting
\* what the session spent before; a session that was above it gets nothing.
SessionCapHolds ==
  Allowed # {} => ~Exceeds(session_total, budgets.perSession)

\* Nor does it take a role above its cap for the last 24 hours, whatever the
\* other roles were given in between.
RoleCapHolds ==
  \A r \in Roles :
    AllowedOf(r) # {} => ~Exceeds(running_role_spend[r], budgets.perRole[r])

\* The docstring of enforce_budgets: "a session-cap refusal blocks ALL
\* subsequent bets", also those that would still fit.
SessionRefusalIsFinal ==
  \A i, j \in DOMAIN verdicts :
    i < j /\ verdicts[i] = "per_session" => verdicts[j] \in {"per_run", "per_session"}

\* What bets of the batch come to together: their cents, one by one.
CentsOf(S) == UNION {{i} \X (1 .. Cents(batch[i].cost)) : i \in S}
Spent(S) == 100 * Cardinality(CentsOf(S))

\* The reference: which cap refuses bet i, told from the bets let through
\* before it.  The loop agrees, so that its order of checks and its flag
\* amount to this definition.
Before(i) == 1 .. i - 1
BreachesRun(i) == Exceeds(Rounded(batch[i].cost), budgets.perRun)
BreachesSession(i) ==
  /\ ~BreachesRun(i)
  /\ Exceeds(base + Spent(Allowed \cap Before(i)) + Rounded(batch[i].cost),
             budgets.perSession)
BreachesRole(i) ==
  LET r == batch[i].role
  IN  Exceeds(history[r] + Spent(AllowedOf(r) \cap Before(i)) + Rounded(batch[i].cost),
              budgets.perRole[r])

VerdictsFollowCaps ==
  \A i \in DOMAIN verdicts :
    verdicts[i] =
      CASE BreachesRun(i) -> "per_run"
        [] ~BreachesRun(i) /\ \E j \in Before(i) \cup {i} : BreachesSession(j) -> "per_session"
        [] ~BreachesRun(i) /\ ~(\E j \in Before(i) \cup {i} : BreachesSession(j))
           /\ BreachesRole(i) -> "per_role"
        [] OTHER -> "allowed"
===============================================================================
