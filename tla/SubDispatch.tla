------------------------------ MODULE SubDispatch ------------------------------
(***************************************************************************)
(* The tree of agent runs below one /execute (cns/execute.py, cns/cli.py): *)
(* the top-level plan starts runs, and the leader-agent of a run starts    *)
(* runs of its direct subordinates with `cns execute --from-leader`.  What *)
(* is known of the tree is threaded through the callers: the chain of      *)
(* roles (--chain) and the running total (--session-spend).                *)
(*                                                                         *)
(* The leaders keep to the contract of skills/execute/SKILL.md: they pass  *)
(* the envelope's chain on unchanged, and the latest total that a call of  *)
(* theirs printed.  An envelope carries no total, so that the leader of a  *)
(* new run starts from nothing, whatever was spent above it.               *)
(* The configuration may be edited between two calls; load_config accepts  *)
(* valid role trees only.  A refusal changes nothing and is no step; the   *)
(* caps per run and per role can only refuse more, so that they are left   *)
(* to Budgets.tla.  The checks look at the roles of a chain, not its bets. *)
(***************************************************************************)
EXTENDS Caps, Integers, Sequences, FiniteSets

CONSTANTS TopLeader,   \* execution.top_level_leader
          Trees,       \* the role trees the configuration may hold
          MaxDepth,    \* execution.max_dispatch_depth
          SessionCap,  \* budgets.per_session_usd_max
          Estimates,   \* what estimate_bet_cost may return for a bet
          MaxRuns      \* bound: how many runs are started

NoRole == "none"

\* validate_role_tree, for a tree whose root is the top-level leader: it is the
\* only role without a superior, and no set of roles reports to itself only.
IsRoleTree(reports_to) ==
  /\ \A r \in Roles : reports_to[r] = NoRole <=> r = TopLeader
  /\ \A S \in SUBSET Roles : S # {} /\ TopLeader \notin S => \E r \in S : reports_to[r] \notin S

ASSUME SubDispatchAssumption ==
  /\ NoRole \notin Roles
  /\ Trees \subseteq {t \in [Roles -> Roles \cup {NoRole}] : IsRoleTree(t)}
  /\ MaxDepth \in Nat \ {0}
  /\ IsCap(SessionCap)
  /\ Estimates \subseteq Nat
  /\ MaxRuns \in Nat

RunIds == 1 .. MaxRuns

VARIABLES
  reports_to,  \* the role tree of the configuration file
  runs,        \* how many runs were started
  ended,       \* the runs that are over
  role,        \* role[n]: the role of run n
  parent,      \* parent[n]: the run whose leader started run n, 0 for the plan
  chain,       \* chain[n]: the roles in the envelope's chain
  est,         \* est[n]: the estimate of run n
  told         \* told[n]: new_session_spend of the latest call by the leader of run n

runVars == <<role, parent, chain, est>>
vars == <<reports_to, runs, ended, role, parent, chain, est, told>>

Started == 1 .. runs

\* The runs that the leader of run p started; the plan's, for 0.
Team(p) == {n \in Started : parent[n] = p}

\* What the estimates of the runs S add up to, each unit told apart by its run.
UnitsOf(S) == UNION {{n} \X (1 .. est[n]) : n \in S}
Estimated(S) == Cardinality(UnitsOf(S))

-------------------------------------------------------------------------------
Init ==
  /\ reports_to \in Trees
  /\ runs = 0
  /\ ended = {}
  /\ role = [n \in RunIds |-> NoRole]
  /\ parent = [n \in RunIds |-> 0]
  /\ chain = [n \in RunIds |-> <<>>]
  /\ est = [n \in RunIds |-> 0]
  /\ told = [n \in RunIds |-> 0]

\* The configuration is edited.
Reorganise ==
  /\ reports_to' \in Trees
  /\ UNCHANGED <<runs, ended, runVars, told>>

\* Run n is started with the estimate e and the chain `hops`.
Start(n, r, e, p, hops) ==
  /\ n = runs + 1
  /\ runs' = n
  /\ role' = [role EXCEPT ![n] = r]
  /\ parent' = [parent EXCEPT ![n] = p]
  /\ chain' = [chain EXCEPT ![n] = hops]
  /\ est' = [est EXCEPT ![n] = e]
  /\ UNCHANGED <<reports_to, ended>>

\* The top-level plan lets a bet through and hands out its envelope, with a
\* chain of one hop.  The whole plan is handed out first.
DispatchPlanned(n, r, e) ==
  /\ \A m \in Started : parent[m] = 0
  /\ ~Exceeds(Estimated(Team(0)) + e, SessionCap)
  /\ Start(n, r, e, 0, <<r>>)
  /\ told' = told

-------------------------------------------------------------------------------
(* dispatch_subordinate, for the leader of run p and a bet of role r.      *)

\* subordinates_of: direct reports only.
IsSubordinate(r, leader) == reports_to[r] = leader

\* Mutant: the new hop is not counted.
TooDeepByOne(hops) == Len(hops) > MaxDepth

TooDeep(hops) == Len(hops) + 1 > MaxDepth

\* Mutant: only the last hop is looked at.
RepeatsLeader(r, hops) == hops[Len(hops)] = r

Repeats(r, hops) == \E i \in DOMAIN hops : hops[i] = r

\* Mutant: the total is what this leader has been told, without the new run.
TotalWithout(p, e) == told[p]

\* new_session_spend: printed for the caller, and part of no envelope.
Total(p, e) == told[p] + e

DispatchSubordinate(n, p, r, e) ==
  /\ p \in Started \ ended
  /\ IsSubordinate(r, role[p])
  /\ ~TooDeep(chain[p])
  /\ ~Repeats(r, chain[p])
  /\ ~Exceeds(told[p] + e, SessionCap)
  /\ Start(n, r, e, p, Append(chain[p], r))
  /\ told' = [told EXCEPT ![p] = Total(p, e)]

\* The agent of run n returns, or dies.
End(n) ==
  /\ n \in Started \ ended
  /\ ended' = ended \cup {n}
  /\ UNCHANGED <<reports_to, runs, runVars, told>>

Next ==
  \/ Reorganise
  \/ \E n \in RunIds :
       \/ \E r \in Roles, e \in Estimates : DispatchPlanned(n, r, e)
       \/ \E p \in RunIds, r \in Roles, e \in Estimates : DispatchSubordinate(n, p, r, e)
       \/ End(n)

Spec == Init /\ [][Next]_vars

-------------------------------------------------------------------------------
(* Properties.                                                             *)

TypeOK ==
  /\ reports_to \in Trees
  /\ runs \in 0 .. MaxRuns
  /\ ended \subseteq Started
  /\ role \in [RunIds -> Roles \cup {NoRole}]
  /\ parent \in [RunIds -> 0 .. MaxRuns]
  /\ chain \in [RunIds -> Seq(Roles)]
  /\ est \in [RunIds -> Nat]
  /\ told \in [RunIds -> Nat]

Subordinate(n) == parent[n] # 0

\* The recursion is bounded: a run is at most max_dispatch_depth hops deep in the
\* real tree of runs, whose hops its chain tells one by one.
DepthIsBounded ==
  \A n \in Started :
    /\ Subordinate(n) => parent[n] < n
    /\ chain[n] = IF Subordinate(n) THEN Append(chain[parent[n]], role[n]) ELSE <<role[n]>>
    /\ Len(chain[n]) <= MaxDepth

\* No role works below itself, although the role tree may be turned round while
\* its leaders are at work.
NoRoleBelowItself ==
  \A n \in Started : \A i, j \in DOMAIN chain[n] : i # j => chain[n][i] # chain[n][j]

\* However often a leader delegates, in however many calls, what it starts is
\* within the session cap, as the plan is: the total it is told after each call
\* counts every earlier one.  The cap is one for each caller: no
\* leader is told what was spent above it, nor of its own estimate.
TeamWithinCap == \A p \in Started \cup {0} : ~Exceeds(Estimated(Team(p)), SessionCap)
===============================================================================
