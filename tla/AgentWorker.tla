----------------------------- MODULE AgentWorker -----------------------------
(***************************************************************************)
(* The worker that turns FireNeuron events into agent runs                 *)
(* (backend/app/agents/worker.py), with the fleet registry, the pause and  *)
(* resume endpoints, and the life of the process around it (start, crash,  *)
(* shutdown).  The dispatcher is taken at its promise: BoundedRuns, which  *)
(* Dispatcher.tla is proved to implement.  The graph database survives the *)
(* process; everything else starts afresh.                                 *)
(*                                                                         *)
(* Between two suspensions the worker runs alone on the event loop, so the *)
(* part of its handler before the dispatcher's first wait is one step.  An *)
(* event that is dropped (no enabled agent, an agent outside the fleet, a  *)
(* database error before the row exists) changes nothing and is no step.   *)
(***************************************************************************)
EXTENDS Integers, FiniteSets

CONSTANTS MaxFirings,   \* bound: how many firing rows a behaviour creates
          Roles,
          Agents,       \* agent ids
          Fleets,       \* the contents agents.yaml may have at a start
          MaxParallel,
          RoleCap,
          MaxStarts,    \* bound: how many times the process starts
          MaxFaults     \* bound: how many database calls fail

Firings == 1 .. MaxFirings

\* A fleet maps the ids it declares to their specs; FleetConfig makes ids unique.
ASSUME FleetAssumption ==
  /\ MaxFirings \in Nat /\ MaxStarts \in Nat \ {0} /\ MaxFaults \in Nat
  /\ MaxParallel \in Nat \ {0} /\ RoleCap \in [Roles -> Nat \ {0}]
  /\ \A fleet \in Fleets :
       /\ DOMAIN fleet \subseteq Agents
       /\ \A a \in DOMAIN fleet : fleet[a] \in [role : Roles, enabled : BOOLEAN]

VARIABLES
  status, role,  \* of the run of each firing: the dispatcher's (BoundedRuns)
  completed,     \* completed[f]: outcome in the AgentRunCompleted of f, or "none"
  row,           \* row[f]: "absent", "open" (outcome NULL), or the outcome
  agentOf,       \* agentOf[f]: the agent_id in the row of firing f, or "none"
  trail,         \* trail[f]: which of the two edges of firing f exist
  agent,         \* the Agent rows of the graph, a function on some of Agents
  fleet,         \* the fleet this process has loaded
  supported,     \* llm.provider is one AgentRuntime knows
  phase,         \* what the process is doing
  starts, faults \* counters for the bounds

runVars == <<status, role>>
rowVars == <<row, agentOf, trail>>
procVars == <<fleet, supported, phase, starts>>
vars == <<status, role, completed, row, agentOf, trail, agent, fleet, supported,
          phase, starts, faults>>

\* closing: the lifespan has closed the connection, the tasks still run;
\* cancelled: the loop's runner has cancelled every task.
Phases == {"up", "closing", "cancelled", "down"}
Outcomes == {"success", "failed"}
EdgeTypes == {"produced", "fired-from"}
AgentRow == [role : Roles, enabled : BOOLEAN, state : {"idle", "paused"}]

\* The dispatcher.  Its runs are the firings.
Disp == INSTANCE BoundedRuns WITH Runs <- Firings

Live(f) == status[f] \in {"pending", "running"}

-------------------------------------------------------------------------------
\* Mutant: every known agent is written anew, with the default state.
SyncedAnew(rows, new) ==
  [a \in DOMAIN rows \cup DOMAIN new |->
     IF a \in DOMAIN new
     THEN [role |-> new[a].role, enabled |-> new[a].enabled, state |-> "idle"]
     ELSE rows[a]]

\* AgentRegistry.sync: agents of the fleet are created or updated, their state
\* is kept, and agents that left the fleet stay as they were.
Synced(rows, new) ==
  [a \in DOMAIN rows \cup DOMAIN new |->
     IF a \in DOMAIN new
     THEN [role    |-> new[a].role,
           enabled |-> new[a].enabled,
           state   |-> IF a \in DOMAIN rows THEN rows[a].state ELSE "idle"]
     ELSE rows[a]]

NoAgents == [a \in {} |-> {}]

Init ==
  /\ Disp!Init
  /\ completed = [f \in Firings |-> "none"]
  /\ row = [f \in Firings |-> "absent"]
  /\ agentOf = [f \in Firings |-> "none"]
  /\ trail = [f \in Firings |-> {}]
  /\ fleet \in Fleets
  /\ agent = Synced(NoAgents, fleet)
  /\ supported \in BOOLEAN
  /\ phase = "up"
  /\ starts = 1
  /\ faults = 0

\* The process starts again over the same graph: the configuration is read, the
\* fleet is synchronised.
Start ==
  /\ phase = "down"
  /\ starts < MaxStarts
  /\ starts' = starts + 1
  /\ phase' = "up"
  /\ fleet' \in Fleets
  /\ agent' = Synced(agent, fleet')
  /\ supported' \in BOOLEAN
  /\ UNCHANGED <<runVars, completed, rowVars, faults>>

Enabled(r) ==
  {a \in DOMAIN agent :
     agent[a].role = r /\ agent[a].enabled /\ agent[a].state # "paused"}

Faulty == faults < MaxFaults /\ faults' = faults + 1

\* Mutant: a failed edge does not keep the firing from being dispatched.
HandleFireNeuronAnyway(f, a) ==
  /\ phase = "up"
  /\ row[f] = "absent"
  /\ \A g \in 1 .. f - 1 : row[g] # "absent"
  /\ a \in Enabled(role[f])
  /\ a \in DOMAIN fleet
  /\ row' = [row EXCEPT ![f] = "open"]
  /\ agentOf' = [agentOf EXCEPT ![f] = a]
  /\ \E edges \in SUBSET EdgeTypes :
       trail' = [trail EXCEPT ![f] = edges] /\ edges # {"fired-from"}
  /\ Disp!Submit(f) \/ Disp!SubmitNow(f)
  /\ UNCHANGED <<completed, agent, procVars, faults>>

\* _handle_fire_neuron up to the dispatcher's first suspension.  The query for
\* the role has no order, so any enabled agent may be its first row.  An edge
\* to a thought that is not in the graph matches nothing and fails silently.
HandleFireNeuron(f, a) ==
  /\ phase = "up"
  /\ row[f] = "absent"
  /\ \A g \in 1 .. f - 1 : row[g] # "absent"
  /\ a \in Enabled(role[f])
  /\ a \in DOMAIN fleet
  /\ row' = [row EXCEPT ![f] = "open"]
  /\ agentOf' = [agentOf EXCEPT ![f] = a]
  /\ \/ \E edges \in {EdgeTypes, {"produced"}} :
          /\ trail' = [trail EXCEPT ![f] = edges]
          /\ Disp!Submit(f) \/ Disp!SubmitNow(f)
          /\ UNCHANGED faults
     \/ \E edges \in {{}, {"produced"}} :
          /\ trail' = [trail EXCEPT ![f] = edges]
          /\ Faulty
          /\ UNCHANGED runVars
  /\ UNCHANGED <<completed, agent, procVars>>

Running == phase \in {"up", "closing"}

\* The dispatcher admits a waiting run.
BeginRun(f) ==
  /\ Running
  /\ Disp!Begin(f)
  /\ UNCHANGED <<completed, rowVars, agent, procVars, faults>>

\* Mutant: the update matches on the agent instead of the firing.
MarkedOfAgent(f, outcome) ==
  [g \in Firings |->
     IF row[g] # "absent" /\ agentOf[g] = agentOf[f] THEN outcome ELSE row[g]]

\* Mutant: only a success is recorded.
MarkedSuccess(f, outcome) ==
  IF outcome = "success" THEN [row EXCEPT ![f] = outcome] ELSE row

\* _mark_firing_complete.
Marked(f, outcome) == [row EXCEPT ![f] = outcome]

\* runtime.run returns or raises an Exception.  _run swallows it, so that the
\* dispatcher sees a success either way; an error of the update is swallowed too.
RunEnds(f, outcome) ==
  /\ Running
  /\ supported
  /\ Disp!End(f)
  /\ completed' = [completed EXCEPT ![f] = "success"]
  /\ \/ phase = "up" /\ row' = Marked(f, outcome) /\ UNCHANGED faults
     \/ phase = "up" /\ Faulty /\ UNCHANGED row
     \/ phase = "closing" /\ UNCHANGED <<row, faults>>
  /\ UNCHANGED <<agentOf, trail, agent, procVars>>

\* The constructor of AgentRuntime raises out of _run: only the dispatcher sees it.
RuntimeRejected(f) ==
  /\ Running
  /\ ~supported
  /\ Disp!End(f)
  /\ completed' = [completed EXCEPT ![f] = "failed"]
  /\ UNCHANGED <<rowVars, agent, procVars, faults>>

\* POST /agents/{id}/pause and /resume.
SetState(a, state) ==
  /\ phase = "up"
  /\ a \in DOMAIN agent
  /\ agent' = [agent EXCEPT ![a].state = state]
  /\ UNCHANGED <<runVars, completed, rowVars, procVars, faults>>

Pause(a) == SetState(a, "paused")
Resume(a) == SetState(a, "idle")

\* The end of the lifespan closes the stores while firings may still run.
Close ==
  /\ phase = "up"
  /\ phase' = "closing"
  /\ UNCHANGED <<runVars, completed, rowVars, agent, fleet, supported, starts, faults>>

CancelAll ==
  /\ phase = "closing"
  /\ phase' = "cancelled"
  /\ UNCHANGED <<runVars, completed, rowVars, agent, fleet, supported, starts, faults>>

\* CancelledError passes through _run; the dispatcher announces a success.
Unwind(f) ==
  /\ phase = "cancelled"
  /\ \/ Disp!End(f) /\ completed' = [completed EXCEPT ![f] = "success"]
     \/ Disp!Drop(f) /\ UNCHANGED completed
  /\ UNCHANGED <<rowVars, agent, procVars, faults>>

Exit ==
  /\ phase = "cancelled"
  /\ \A f \in Firings : ~Live(f)
  /\ phase' = "down"
  /\ UNCHANGED <<runVars, completed, rowVars, agent, fleet, supported, starts, faults>>

\* The process dies: its tasks vanish, the graph stays.
Crash ==
  /\ phase # "down"
  /\ phase' = "down"
  /\ status' = [f \in Firings |-> IF Live(f) THEN "ended" ELSE status[f]]
  /\ UNCHANGED <<role, completed, rowVars, agent, fleet, supported, starts, faults>>

Next ==
  \/ \E f \in Firings :
       \/ \E a \in Agents : HandleFireNeuron(f, a)
       \/ BeginRun(f)
       \/ \E outcome \in Outcomes : RunEnds(f, outcome)
       \/ RuntimeRejected(f)
       \/ Unwind(f)
  \/ \E a \in Agents : Pause(a) \/ Resume(a)
  \/ Start \/ Close \/ CancelAll \/ Exit \/ Crash

\* The dispatcher starves nobody (EveryCallEnds of Dispatcher.tla), hence the
\* strong fairness of BeginRun; runs end (an assumption on the agent).
Fairness ==
  \A f \in Firings :
    /\ SF_vars(BeginRun(f))
    /\ WF_vars(\E outcome \in Outcomes : RunEnds(f, outcome))
    /\ WF_vars(RuntimeRejected(f))

Spec == Init /\ [][Next]_vars
FairSpec == Spec /\ Fairness

-------------------------------------------------------------------------------
(* Properties.                                                             *)

TypeOK ==
  /\ status \in [Firings -> {"absent", "pending", "running", "ended"}]
  /\ role \in [Firings -> Roles]
  /\ completed \in [Firings -> Outcomes \cup {"none"}]
  /\ row \in [Firings -> {"absent", "open"} \cup Outcomes]
  /\ agentOf \in [Firings -> Agents \cup {"none"}]
  /\ trail \in [Firings -> SUBSET EdgeTypes]
  /\ DOMAIN agent \subseteq Agents
  /\ \A a \in DOMAIN agent : agent[a] \in AgentRow
  /\ fleet \in Fleets
  /\ supported \in BOOLEAN
  /\ phase \in Phases
  /\ starts \in 1 .. MaxStarts
  /\ faults \in 0 .. MaxFaults

\* Whatever the dispatcher holds can be traced in the graph: the row is there,
\* undecided, with its edge from the agent.  Otherwise a run would report to a
\* firing the brain view cannot attribute, or decide it a second time.
LiveFiringIsTraceable ==
  \A f \in Firings : Live(f) => row[f] = "open" /\ "produced" \in trail[f]

\* Only the run of a firing settles it, and once: no other run, no restart and
\* no shutdown writes an outcome or changes one.  (So the rows an earlier
\* process left open stay open for good: nothing recovers them.)
SettledOnceByItsOwnRun ==
  [][\A f \in Firings :
       row[f] # "absent" /\ row'[f] # row[f]
       => row[f] = "open" /\ status[f] = "running" /\ status'[f] = "ended"]_vars

\* In a first process without faults the graph tells which firings are under
\* way: an outcome is missing exactly while the run waits or goes on.
OpenMeansUnderWay ==
  phase = "up" /\ starts = 1 /\ faults = 0 /\ supported
  => \A f \in Firings : row[f] = "open" <=> Live(f)

\* A pause outlives restarts and changes of the fleet: only the resume endpoint
\* takes it back.
PauseSticks ==
  [][\A a \in DOMAIN agent :
       agent[a].state = "paused" /\ agent'[a].state # "paused" => Resume(a)]_vars

\* A firing that was handed to the dispatcher gets its outcome in the graph,
\* unless the process goes down, the database fails or no agent can be built.
FiringIsSettled ==
  \A f \in Firings :
    Live(f) ~> row[f] \in Outcomes \/ phase # "up" \/ faults > 0 \/ ~supported
===============================================================================
