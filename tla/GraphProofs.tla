------------------------------ MODULE GraphProofs ------------------------------
(***************************************************************************)
(* From a firing to what a browser shows of it (AgentWorker, LiveGraph),   *)
(* for any number of firings, agents, nodes, pages and faults.             *)
(*                                                                         *)
(* A firing is settled once, by its own run, and what the dispatcher holds *)
(* can be traced in the graph and keeps within the caps, over crashes and  *)
(* restarts.  A page shows no node twice, takes back no decision until it  *)
(* is loaded again, and is current when it is at rest, unless it missed    *)
(* something.                                                              *)
(***************************************************************************)
EXTENDS AgentWorker, LiveGraph, FiniteSetTheorems, SequenceTheorems, TLAPS

-------------------------------------------------------------------------------
(* AgentWorker.                                                            *)

\* A step of the dispatcher moves one run from one status to another.
LEMMA MoveType ==
  ASSUME TypeOK, NEW f \in Firings, NEW from,
         NEW to \in {"absent", "pending", "running", "ended"}, Disp!Move(f, from, to)
  PROVE  /\ status' \in [Firings -> {"absent", "pending", "running", "ended"}]
         /\ role' \in [Firings -> Roles]
         /\ status[f] = from /\ status'[f] = to
         /\ \A g \in Firings \ {f} : status'[g] = status[g]
  BY DEF TypeOK, Disp!Move

\* What the dispatcher's steps do to the status of a firing.
LEMMA RunSteps ==
  ASSUME TypeOK, NEW f \in Firings
  PROVE  /\ Disp!Submit(f) => Disp!Move(f, "absent", "pending")
         /\ Disp!SubmitNow(f) => Disp!Move(f, "absent", "running")
         /\ Disp!Begin(f) => Disp!Move(f, "pending", "running")
         /\ Disp!End(f) => Disp!Move(f, "running", "ended")
         /\ Disp!Drop(f) => Disp!Move(f, "pending", "ended")
  BY DEF Disp!Submit, Disp!SubmitNow, Disp!Begin, Disp!End, Disp!Drop

\* Synchronising with a fleet keeps the agent rows well formed.
LEMMA SyncType ==
  ASSUME NEW rows, NEW new \in Fleets, DOMAIN rows \subseteq Agents,
         \A a \in DOMAIN rows : rows[a] \in AgentRow
  PROVE  /\ DOMAIN Synced(rows, new) \subseteq Agents
         /\ \A a \in DOMAIN Synced(rows, new) : Synced(rows, new)[a] \in AgentRow
         /\ DOMAIN rows \subseteq DOMAIN Synced(rows, new)
         /\ \A a \in DOMAIN rows : Synced(rows, new)[a].state = rows[a].state
<1>1. /\ DOMAIN new \subseteq Agents
      /\ \A a \in DOMAIN new : new[a] \in [role : Roles, enabled : BOOLEAN]
  BY FleetAssumption
<1>2. DOMAIN Synced(rows, new) = DOMAIN rows \cup DOMAIN new
  BY DEF Synced
<1>3. ASSUME NEW a \in DOMAIN new
      PROVE  /\ Synced(rows, new)[a] \in AgentRow
             /\ a \in DOMAIN rows => Synced(rows, new)[a].state = rows[a].state
  BY <1>1, <1>3 DEF Synced, AgentRow
<1>4. ASSUME NEW a \in DOMAIN rows \ DOMAIN new
      PROVE  Synced(rows, new)[a] = rows[a]
  BY <1>4 DEF Synced
<1>5. QED
  BY <1>1, <1>2, <1>3, <1>4

LEMMA TypeInit == Init => TypeOK
<1> SUFFICES ASSUME Init PROVE TypeOK
  OBVIOUS
<1>1. DOMAIN NoAgents = {}
  BY DEF NoAgents
<1>2. /\ DOMAIN agent \subseteq Agents
      /\ \A a \in DOMAIN agent : agent[a] \in AgentRow
  BY <1>1, SyncType DEF Init
<1>3. QED
  BY <1>2, FleetAssumption DEF Init, Disp!Init, TypeOK, Phases, Outcomes

LEMMA TypeNext == TypeOK /\ [Next]_vars => TypeOK'
<1> SUFFICES ASSUME TypeOK, [Next]_vars PROVE TypeOK'
  OBVIOUS
<1> USE DEF TypeOK
<1>1. ASSUME NEW f \in Firings, NEW a \in Agents, HandleFireNeuron(f, a) PROVE TypeOK'
  <2>1. status' \in [Firings -> {"absent", "pending", "running", "ended"}]
        /\ role' \in [Firings -> Roles]
    BY <1>1, MoveType, RunSteps DEF HandleFireNeuron, runVars
  <2>2. faults' \in 0 .. MaxFaults
    BY <1>1, FleetAssumption DEF HandleFireNeuron, Faulty
  <2>3. trail' \in [Firings -> SUBSET EdgeTypes]
    BY <1>1 DEF HandleFireNeuron, EdgeTypes
  <2>4. row' \in [Firings -> {"absent", "open"} \cup Outcomes]
    BY <1>1 DEF HandleFireNeuron
  <2>5. agentOf' \in [Firings -> Agents \cup {"none"}]
    BY <1>1 DEF HandleFireNeuron
  <2>6. QED
    BY <1>1, <2>1, <2>2, <2>3, <2>4, <2>5 DEF HandleFireNeuron, procVars
<1>2. ASSUME NEW f \in Firings, BeginRun(f) PROVE TypeOK'
  BY <1>2, MoveType, RunSteps DEF BeginRun, rowVars, procVars
<1>3. ASSUME NEW f \in Firings, NEW outcome \in Outcomes, RunEnds(f, outcome)
      PROVE  TypeOK'
  <2>1. status' \in [Firings -> {"absent", "pending", "running", "ended"}]
        /\ role' \in [Firings -> Roles]
    BY <1>3, MoveType, RunSteps DEF RunEnds
  <2>2. faults' \in 0 .. MaxFaults
    BY <1>3, FleetAssumption DEF RunEnds, Faulty
  <2>3. row' \in [Firings -> {"absent", "open"} \cup Outcomes]
    BY <1>3 DEF RunEnds, Marked
  <2>4. QED
    BY <1>3, <2>1, <2>2, <2>3 DEF RunEnds, procVars, Outcomes
<1>4. ASSUME NEW f \in Firings, RuntimeRejected(f) PROVE TypeOK'
  BY <1>4, MoveType, RunSteps DEF RuntimeRejected, rowVars, procVars, Outcomes
<1>5. ASSUME NEW f \in Firings, Unwind(f) PROVE TypeOK'
  BY <1>5, MoveType, RunSteps DEF Unwind, rowVars, procVars, Outcomes
<1>6. ASSUME NEW a \in Agents, Pause(a) \/ Resume(a) PROVE TypeOK'
  BY <1>6 DEF Pause, Resume, SetState, runVars, rowVars, procVars, AgentRow
<1>7. ASSUME Start PROVE TypeOK'
  <2>1. /\ DOMAIN agent' \subseteq Agents
        /\ \A a \in DOMAIN agent' : agent'[a] \in AgentRow
    BY <1>7, SyncType DEF Start
  <2>2. starts' \in 1 .. MaxStarts
    BY <1>7, FleetAssumption DEF Start
  <2>3. QED
    BY <1>7, <2>1, <2>2 DEF Start, runVars, rowVars, Phases
<1>8. ASSUME Close \/ CancelAll \/ Exit PROVE TypeOK'
  BY <1>8 DEF Close, CancelAll, Exit, runVars, rowVars, Phases
<1>9. ASSUME Crash PROVE TypeOK'
  BY <1>9 DEF Crash, rowVars, Phases
<1>10. CASE UNCHANGED vars
  BY <1>10 DEF vars
<1>11. QED
  BY <1>1, <1>2, <1>3, <1>4, <1>5, <1>6, <1>7, <1>8, <1>9, <1>10 DEF Next

\* Every state of the worker is well typed.
THEOREM WorkerTypes == Spec => []TypeOK
  BY TypeInit, TypeNext, PTL DEF Spec

\* A step that changes no row, and makes no firing live, keeps the trail.
LEMMA QuietStep ==
  ASSUME LiveFiringIsTraceable, UNCHANGED <<row, trail>>,
         \A f \in Firings : Live(f)' => Live(f)
  PROVE  LiveFiringIsTraceable'
  BY DEF LiveFiringIsTraceable

LEMMA TraceableNext ==
  TypeOK /\ LiveFiringIsTraceable /\ [Next]_vars => LiveFiringIsTraceable'
<1> SUFFICES ASSUME TypeOK, LiveFiringIsTraceable, [Next]_vars
             PROVE  LiveFiringIsTraceable'
  OBVIOUS
<1>1. ASSUME NEW f \in Firings, NEW a \in Agents, HandleFireNeuron(f, a)
      PROVE  LiveFiringIsTraceable'
  <2>1. row[f] = "absent" /\ row'[f] = "open"
    BY <1>1 DEF HandleFireNeuron, TypeOK
  <2>2. \A g \in Firings \ {f} : row'[g] = row[g] /\ trail'[g] = trail[g]
    BY <1>1 DEF HandleFireNeuron, TypeOK
  <2>3. \A g \in Firings \ {f} : status'[g] = status[g]
    BY <1>1, MoveType, RunSteps DEF HandleFireNeuron, runVars
  <2>4. Live(f)' => "produced" \in trail'[f]
    <3>1. ~Live(f)
      BY <2>1 DEF LiveFiringIsTraceable
    <3>2. CASE UNCHANGED runVars
      BY <3>1, <3>2 DEF runVars, Live
    <3>3. CASE \E edges \in {EdgeTypes, {"produced"}} : trail' = [trail EXCEPT ![f] = edges]
      BY <3>3 DEF EdgeTypes, TypeOK
    <3>4. QED
      BY <1>1, <3>2, <3>3 DEF HandleFireNeuron
  <2>5. QED
    BY <2>1, <2>2, <2>3, <2>4 DEF LiveFiringIsTraceable, Live
<1>2. ASSUME NEW f \in Firings, BeginRun(f) PROVE LiveFiringIsTraceable'
  BY <1>2, MoveType, RunSteps, QuietStep DEF BeginRun, rowVars, Live
<1>3. ASSUME NEW f \in Firings, NEW outcome \in Outcomes, RunEnds(f, outcome)
      PROVE  LiveFiringIsTraceable'
  <2>1. ~Live(f)' /\ \A g \in Firings \ {f} : status'[g] = status[g]
    BY <1>3, MoveType, RunSteps DEF RunEnds, Live
  <2>2. trail' = trail /\ \A g \in Firings \ {f} : row'[g] = row[g]
    BY <1>3 DEF RunEnds, Marked, TypeOK
  <2>3. QED
    BY <2>1, <2>2 DEF LiveFiringIsTraceable, Live
<1>4. ASSUME NEW f \in Firings, RuntimeRejected(f) \/ Unwind(f)
      PROVE  LiveFiringIsTraceable'
  <2>1. Disp!Move(f, "running", "ended") \/ Disp!Move(f, "pending", "ended")
    BY <1>4, RunSteps DEF RuntimeRejected, Unwind
  <2>2. \A g \in Firings : Live(g)' => Live(g)
    BY <2>1, MoveType DEF Live
  <2>3. QED
    BY <1>4, <2>2, QuietStep DEF RuntimeRejected, Unwind, rowVars
<1>5. ASSUME NEW a \in Agents, Pause(a) \/ Resume(a) PROVE LiveFiringIsTraceable'
  BY <1>5, QuietStep DEF Pause, Resume, SetState, runVars, rowVars, Live
<1>6. ASSUME Start \/ Close \/ CancelAll \/ Exit PROVE LiveFiringIsTraceable'
  BY <1>6, QuietStep DEF Start, Close, CancelAll, Exit, runVars, rowVars, Live
<1>7. ASSUME Crash PROVE LiveFiringIsTraceable'
  BY <1>7, QuietStep DEF Crash, rowVars, Live
<1>8. CASE UNCHANGED vars
  BY <1>8, QuietStep DEF vars, Live
<1>9. QED
  BY <1>1, <1>2, <1>3, <1>4, <1>5, <1>6, <1>7, <1>8 DEF Next

\* Whatever the dispatcher holds has an undecided row and its edge from the
\* agent, through faults, crashes and restarts.
THEOREM TraceableAlways == Spec => []LiveFiringIsTraceable
<1>1. Init => LiveFiringIsTraceable
  BY DEF Init, Disp!Init, LiveFiringIsTraceable, Live
<1>2. QED
  BY <1>1, TraceableNext, WorkerTypes, PTL DEF Spec

\* One step: a row that exists changes only when its own run ends.
LEMMA SettlingStep ==
  ASSUME TypeOK, LiveFiringIsTraceable, [Next]_vars, NEW f \in Firings,
         row[f] # "absent", row'[f] # row[f]
  PROVE  row[f] = "open" /\ status[f] = "running" /\ status'[f] = "ended"
<1>1. PICK g \in Firings, outcome \in Outcomes : RunEnds(g, outcome)
  <2>1. ~UNCHANGED row
    OBVIOUS
  <2>2. ASSUME NEW g \in Firings, NEW a \in Agents, HandleFireNeuron(g, a) PROVE FALSE
    BY <2>2 DEF HandleFireNeuron, TypeOK
  <2>3. QED
    BY <2>1, <2>2 DEF Next, vars, rowVars, BeginRun, RuntimeRejected, Unwind, Pause,
      Resume, SetState, Start, Close, CancelAll, Exit, Crash
<1>2. f = g
  BY <1>1 DEF RunEnds, Marked, TypeOK
<1>3. status[f] = "running" /\ status'[f] = "ended"
  BY <1>1, <1>2, MoveType, RunSteps DEF RunEnds
<1>4. QED
  BY <1>3 DEF LiveFiringIsTraceable, Live

\* Only the run of a firing settles it, and once.
THEOREM SettledOnce == Spec => SettledOnceByItsOwnRun
<1>1. TypeOK /\ LiveFiringIsTraceable /\ [Next]_vars
      => [\A f \in Firings :
            row[f] # "absent" /\ row'[f] # row[f]
            => row[f] = "open" /\ status[f] = "running" /\ status'[f] = "ended"]_vars
  BY SettlingStep
<1>2. QED
  BY <1>1, WorkerTypes, TraceableAlways, PTL DEF Spec, SettledOnceByItsOwnRun

\* One step: a pause is taken back by the resume endpoint only.
LEMMA PauseStep ==
  ASSUME TypeOK, [Next]_vars, NEW a \in DOMAIN agent,
         agent[a].state = "paused", agent'[a].state # "paused"
  PROVE  Resume(a)
<1>1. ~UNCHANGED agent
  OBVIOUS
<1>2. ~Start
  BY SyncType DEF Start, TypeOK
<1>3. PICK b \in Agents : Pause(b) \/ Resume(b)
  BY <1>1, <1>2 DEF Next, vars, HandleFireNeuron, BeginRun, RunEnds, RuntimeRejected,
    Unwind, Close, CancelAll, Exit, Crash
<1>4. a = b /\ ~Pause(b)
  BY <1>3 DEF Pause, Resume, SetState, TypeOK, AgentRow
<1>5. QED
  BY <1>3, <1>4

\* A pause outlives restarts and changes of the fleet.
THEOREM PauseAlwaysSticks == Spec => PauseSticks
<1>1. TypeOK /\ [Next]_vars
      => [\A a \in DOMAIN agent :
            agent[a].state = "paused" /\ agent'[a].state # "paused" => Resume(a)]_vars
  BY PauseStep
<1>2. QED
  BY <1>1, WorkerTypes, PTL DEF Spec, PauseSticks

\* One step: in a first process without faults a row stays open no longer than its
\* firing is under way.
LEMMA OpenNext ==
  TypeOK /\ LiveFiringIsTraceable /\ OpenMeansUnderWay /\ [Next]_vars => OpenMeansUnderWay'
<1> SUFFICES ASSUME TypeOK, LiveFiringIsTraceable, OpenMeansUnderWay, [Next]_vars
             PROVE  OpenMeansUnderWay'
  OBVIOUS
<1>0. LiveFiringIsTraceable'
  BY TraceableNext
<1> SUFFICES ASSUME phase' = "up", starts' = 1, faults' = 0, supported',
                    NEW g \in Firings, row'[g] = "open"
             PROVE  Live(g)'
  BY <1>0 DEF OpenMeansUnderWay, LiveFiringIsTraceable
<1>1. ASSUME phase = "up", starts = 1, faults = 0, supported, row[g] = "open"
      PROVE  Live(g)
  BY <1>1 DEF OpenMeansUnderWay
<1>2. ASSUME NEW f \in Firings, NEW a \in Agents, HandleFireNeuron(f, a) PROVE Live(g)'
  <2>1. ~Faulty
    BY FleetAssumption DEF Faulty, TypeOK
  <2>2. Disp!Submit(f) \/ Disp!SubmitNow(f)
    BY <1>2, <2>1 DEF HandleFireNeuron
  <2>3. status'[f] \in {"pending", "running"}
        /\ \A h \in Firings \ {f} : status'[h] = status[h]
    BY <2>2, MoveType, RunSteps
  <2>4. ASSUME g # f PROVE Live(g)
    <3>1. row[g] = "open"
      BY <1>2, <2>4 DEF HandleFireNeuron, TypeOK
    <3>2. QED
      BY <1>1, <1>2, <2>1, <3>1 DEF HandleFireNeuron, procVars
  <2>5. QED
    BY <2>3, <2>4 DEF Live
<1>3. ASSUME NEW f \in Firings, BeginRun(f) PROVE Live(g)'
  <2>1. Live(g)
    BY <1>1, <1>3 DEF BeginRun, rowVars, procVars
  <2>2. QED
    BY <1>3, <2>1, MoveType, RunSteps DEF BeginRun, Live
<1>4. ASSUME NEW f \in Firings, NEW outcome \in Outcomes, RunEnds(f, outcome)
      PROVE  Live(g)'
  <2>1. phase = "up" /\ starts = 1 /\ supported
    BY <1>4 DEF RunEnds, procVars
  <2>2. faults = 0 /\ row' = Marked(f, outcome)
    BY <1>4, <2>1, FleetAssumption DEF RunEnds, Faulty, TypeOK
  <2>3. g # f /\ row[g] = "open"
    BY <2>2 DEF Marked, Outcomes, TypeOK
  <2>4. status'[g] = status[g]
    BY <1>4, <2>3, MoveType, RunSteps DEF RunEnds
  <2>5. QED
    BY <1>1, <2>1, <2>2, <2>3, <2>4 DEF Live
<1>5. ASSUME NEW f \in Firings, RuntimeRejected(f) \/ Unwind(f) PROVE FALSE
  BY <1>5 DEF RuntimeRejected, Unwind, procVars
<1>6. ASSUME NEW a \in Agents, Pause(a) \/ Resume(a) PROVE Live(g)'
  <2>1. UNCHANGED <<status, row, phase, starts, faults, supported>>
    BY <1>6 DEF Pause, Resume, SetState, runVars, rowVars, procVars
  <2>2. QED
    BY <1>1, <2>1 DEF Live
<1>7. ASSUME Start \/ Close \/ CancelAll \/ Exit \/ Crash PROVE FALSE
  BY <1>7 DEF Start, Close, CancelAll, Exit, Crash, TypeOK
<1>8. CASE UNCHANGED vars
  BY <1>1, <1>8 DEF vars, Live
<1>9. QED
  BY <1>2, <1>3, <1>4, <1>5, <1>6, <1>7, <1>8 DEF Next

\* In a first process without faults the graph tells which firings are under way.
THEOREM OpenAlwaysMeansUnderWay == Spec => []OpenMeansUnderWay
<1>1. Init => OpenMeansUnderWay
  BY DEF Init, Disp!Init, OpenMeansUnderWay, Live
<1>2. QED
  BY <1>1, OpenNext, WorkerTypes, TraceableAlways, PTL DEF Spec

\* The dispatcher's caps, over the runs of every process there was.
RunsWithinCaps ==
  /\ Cardinality(Disp!Running) <= MaxParallel
  /\ \A r \in Roles : Cardinality(Disp!RunningAs(r)) <= RoleCap[r]

\* Sets of firings are finite, so that their sizes compare.
LEMMA FiringSets ==
  ASSUME NEW S \in SUBSET Firings
  PROVE  /\ IsFiniteSet(S) /\ Cardinality(S) \in Nat
         /\ \A T \in SUBSET S : Cardinality(T) <= Cardinality(S)
         /\ \A f \in Firings : Cardinality(S \cup {f}) <= Cardinality(S) + 1
<1>1. IsFiniteSet(Firings)
  BY FS_Interval, FleetAssumption DEF Firings
<1>2. IsFiniteSet(S)
  BY <1>1, FS_Subset
<1>3. Cardinality(S) \in Nat
  BY <1>2, FS_CardinalityType
<1>4. ASSUME NEW f \in Firings PROVE Cardinality(S \cup {f}) <= Cardinality(S) + 1
  <2>1. Cardinality(S \cup {f}) = IF f \in S THEN Cardinality(S) ELSE Cardinality(S) + 1
    BY <1>2, FS_AddElement
  <2>2. QED
    BY <1>3, <2>1
<1>5. QED
  BY <1>2, <1>3, <1>4, FS_Subset

\* What the dispatcher's promise asks for before it admits a run.
LEMMA RoomForOne ==
  ASSUME NEW f \in Firings, Disp!Admissible(f)
  PROVE  /\ Cardinality(Disp!Running) < MaxParallel
         /\ Cardinality(Disp!RunningAs(role[f])) < RoleCap[role[f]]
<1>1. \A S : Disp!Cardinality(S) = Cardinality(S)
  BY DEF Disp!Cardinality, Cardinality
<1>2. QED
  BY <1>1 DEF Disp!Admissible

\* A run is admitted only where both caps leave room for it.
LEMMA AdmitsWithin ==
  ASSUME TypeOK, RunsWithinCaps, NEW f \in Firings, Disp!SubmitNow(f) \/ Disp!Begin(f)
  PROVE  RunsWithinCaps'
<1>1. /\ Disp!Admissible(f)
      /\ role' = role
      /\ status'[f] = "running"
      /\ \A g \in Firings \ {f} : status'[g] = status[g]
  BY MoveType, RunSteps DEF Disp!SubmitNow, Disp!Begin, Disp!Move
<1>2. Disp!Running' \subseteq Disp!Running \cup {f}
  BY <1>1 DEF Disp!Running
<1>3. ASSUME NEW r \in Roles
      PROVE  /\ r = role[f] => Disp!RunningAs(r)' \subseteq Disp!RunningAs(r) \cup {f}
             /\ r # role[f] => Disp!RunningAs(r)' \subseteq Disp!RunningAs(r)
  BY <1>1, <1>2 DEF Disp!RunningAs
<1>4. Disp!Running \in SUBSET Firings /\ \A r \in Roles : Disp!RunningAs(r) \in SUBSET Firings
  BY DEF Disp!Running, Disp!RunningAs
<1>5. /\ MaxParallel \in Nat /\ role[f] \in Roles
      /\ \A r \in Roles : RoleCap[r] \in Nat
  BY FleetAssumption DEF TypeOK
<1>6. Cardinality(Disp!Running') <= MaxParallel
  <2>1. Disp!Running \cup {f} \in SUBSET Firings
    BY <1>4
  <2>2. Cardinality(Disp!Running') <= Cardinality(Disp!Running \cup {f})
    BY <1>2, <2>1, FiringSets
  <2>3. Cardinality(Disp!Running \cup {f}) <= Cardinality(Disp!Running) + 1
    BY <1>4, FiringSets
  <2>4. Cardinality(Disp!Running) < MaxParallel
    BY <1>1, RoomForOne
  <2>5. /\ Cardinality(Disp!Running) \in Nat
        /\ Cardinality(Disp!Running \cup {f}) \in Nat
        /\ Cardinality(Disp!Running') \in Nat
    <3>1. Disp!Running' \in SUBSET Firings
      BY <1>2, <2>1
    <3>2. QED
      BY <3>1, <1>4, <2>1, FiringSets
  <2>6. QED
    BY <1>5, <2>2, <2>3, <2>4, <2>5
<1>7. ASSUME NEW r \in Roles PROVE Cardinality(Disp!RunningAs(r)') <= RoleCap[r]
  <2>1. Disp!RunningAs(r) \cup {f} \in SUBSET Firings
    BY <1>4
  <2>2. Disp!RunningAs(r)' \in SUBSET Firings
    BY <1>3, <2>1
  <2>3. /\ Cardinality(Disp!RunningAs(r)) \in Nat
        /\ Cardinality(Disp!RunningAs(r) \cup {f}) \in Nat
        /\ Cardinality(Disp!RunningAs(r)') \in Nat
    BY <1>4, <2>1, <2>2, FiringSets
  <2>4. CASE r = role[f]
    <3>1. Cardinality(Disp!RunningAs(r)') <= Cardinality(Disp!RunningAs(r) \cup {f})
      BY <1>3, <2>1, <2>4, FiringSets
    <3>2. Cardinality(Disp!RunningAs(r) \cup {f}) <= Cardinality(Disp!RunningAs(r)) + 1
      BY <1>4, FiringSets
    <3>3. Cardinality(Disp!RunningAs(r)) < RoleCap[r]
      BY <1>1, <2>4, RoomForOne
    <3>4. QED
      BY <1>5, <2>3, <3>1, <3>2, <3>3
  <2>5. CASE r # role[f]
    <3>1. Cardinality(Disp!RunningAs(r)') <= Cardinality(Disp!RunningAs(r))
      BY <1>3, <1>4, <2>5, FiringSets
    <3>2. Cardinality(Disp!RunningAs(r)) <= RoleCap[r]
      BY DEF RunsWithinCaps
    <3>3. QED
      BY <1>5, <2>3, <3>1, <3>2
  <2>6. QED
    BY <2>4, <2>5
<1>8. QED
  BY <1>6, <1>7, <1>1, FleetAssumption DEF RunsWithinCaps

\* Where no run begins, the caps hold on.
LEMMA NoneBeginsWithin ==
  ASSUME TypeOK, RunsWithinCaps, role' = role,
         \A g \in Firings : status'[g] = "running" => status[g] = "running"
  PROVE  RunsWithinCaps'
<1>1. /\ Disp!Running' \subseteq Disp!Running
      /\ \A r \in Roles : Disp!RunningAs(r)' \subseteq Disp!RunningAs(r)
  BY DEF Disp!Running, Disp!RunningAs
<1>2. Disp!Running \in SUBSET Firings /\ \A r \in Roles : Disp!RunningAs(r) \in SUBSET Firings
  BY DEF Disp!Running, Disp!RunningAs
<1>3. /\ Cardinality(Disp!Running') \in Nat
      /\ Cardinality(Disp!Running) \in Nat
      /\ Cardinality(Disp!Running') <= Cardinality(Disp!Running)
  BY <1>1, <1>2, FiringSets
<1>4. ASSUME NEW r \in Roles
      PROVE  /\ Cardinality(Disp!RunningAs(r)') \in Nat
             /\ Cardinality(Disp!RunningAs(r)) \in Nat
             /\ Cardinality(Disp!RunningAs(r)') <= Cardinality(Disp!RunningAs(r))
  BY <1>1, <1>2, FiringSets
<1>5. MaxParallel \in Nat /\ \A r \in Roles : RoleCap[r] \in Nat
  BY FleetAssumption
<1>6. QED
  BY <1>3, <1>4, <1>5 DEF RunsWithinCaps

LEMMA WithinNext == TypeOK /\ RunsWithinCaps /\ [Next]_vars => RunsWithinCaps'
<1> SUFFICES ASSUME TypeOK, RunsWithinCaps, [Next]_vars PROVE RunsWithinCaps'
  OBVIOUS
<1>0. ASSUME UNCHANGED runVars PROVE RunsWithinCaps'
  BY <1>0, NoneBeginsWithin DEF runVars
<1>1. ASSUME NEW f \in Firings,
             \/ Disp!Move(f, "absent", "pending")
             \/ Disp!Move(f, "running", "ended")
             \/ Disp!Move(f, "pending", "ended")
      PROVE  RunsWithinCaps'
  <2>1. /\ role' = role /\ status'[f] # "running"
        /\ \A g \in Firings \ {f} : status'[g] = status[g]
    BY <1>1, MoveType DEF Disp!Move
  <2>2. QED
    BY <2>1, NoneBeginsWithin
<1>2. ASSUME NEW f \in Firings, NEW a \in Agents, HandleFireNeuron(f, a)
      PROVE  RunsWithinCaps'
  <2>1. Disp!Submit(f) \/ Disp!SubmitNow(f) \/ UNCHANGED runVars
    BY <1>2 DEF HandleFireNeuron
  <2>2. QED
    BY <1>0, <1>1, <2>1, RunSteps, AdmitsWithin
<1>3. ASSUME NEW f \in Firings, BeginRun(f) PROVE RunsWithinCaps'
  BY <1>3, AdmitsWithin DEF BeginRun
<1>4. ASSUME NEW f \in Firings,
             \/ \E outcome \in Outcomes : RunEnds(f, outcome)
             \/ RuntimeRejected(f) \/ Unwind(f)
      PROVE  RunsWithinCaps'
  <2>1. Disp!End(f) \/ Disp!Drop(f)
    BY <1>4 DEF RunEnds, RuntimeRejected, Unwind
  <2>2. QED
    BY <1>1, <2>1, RunSteps
<1>5. ASSUME NEW a \in Agents, Pause(a) \/ Resume(a) PROVE RunsWithinCaps'
  BY <1>0, <1>5 DEF Pause, Resume, SetState
<1>6. CASE Start \/ Close \/ CancelAll \/ Exit
  BY <1>0, <1>6 DEF Start, Close, CancelAll, Exit
<1>7. CASE Crash
  BY <1>7, NoneBeginsWithin DEF Crash, Live, TypeOK
<1>8. CASE UNCHANGED vars
  BY <1>0, <1>8 DEF vars, runVars
<1>9. QED
  BY <1>2, <1>3, <1>4, <1>5, <1>6, <1>7, <1>8 DEF Next

\* The worker keeps the dispatcher's caps in every process there is, however many
\* were killed before with runs under way: a crash leaves none of them counted, and
\* a restart brings none of them back.
THEOREM WorkerKeepsCaps == Spec => []RunsWithinCaps
<1>1. Init => RunsWithinCaps
  <2> SUFFICES ASSUME Init PROVE RunsWithinCaps
    OBVIOUS
  <2>1. Disp!Running = {} /\ \A r \in Roles : Disp!RunningAs(r) = {}
    BY DEF Init, Disp!Init, Disp!Running, Disp!RunningAs
  <2>2. QED
    BY <2>1, FS_EmptySet, FleetAssumption DEF RunsWithinCaps
<1>2. QED
  BY <1>1, WithinNext, WorkerTypes, PTL DEF Spec

-------------------------------------------------------------------------------
(* LiveGraph.                                                              *)

\* What the proofs need of sequences, for one opaque set of elements.
LEMMA QueueFacts ==
  ASSUME NEW S, NEW s \in Seq(S)
  PROVE  /\ Len(s) \in Nat /\ DOMAIN s = 1 .. Len(s)
         /\ \A i \in DOMAIN s : s[i] \in S
         /\ s # <<>> => Head(s) \in S /\ Tail(s) \in Seq(S)
         /\ \A e \in S : /\ Append(s, e) \in Seq(S)
                         /\ DOMAIN Append(s, e) = 1 .. Len(s) + 1
                         /\ Append(s, e)[Len(s) + 1] = e
                         /\ \A i \in DOMAIN s : Append(s, e)[i] = s[i]
         /\ \A i \in DOMAIN s, e \in S : [s EXCEPT ![i] = e] \in Seq(S)
OBVIOUS

LEMMA RemovedType ==
  ASSUME NEW S, NEW s \in Seq(S), NEW i \in DOMAIN s
  PROVE  RemoveAt(s, i) \in Seq(S)
<1>1. Len(s) \in Nat /\ i \in 1 .. Len(s)
  OBVIOUS
<1>2. SubSeq(s, 1, i - 1) \in Seq(S) /\ SubSeq(s, i + 1, Len(s)) \in Seq(S)
  BY <1>1
<1>3. QED
  BY <1>2 DEF RemoveAt

\* A function on 1 .. n is a sequence.
LEMMA MappedType ==
  ASSUME NEW S, NEW T, NEW s \in Seq(S), NEW F \in [DOMAIN s -> T]
  PROVE  F \in Seq(T) /\ DOMAIN F = DOMAIN s
OBVIOUS

LEMMA SubsetSeq ==
  ASSUME NEW S, NEW T, S \subseteq T, NEW s \in Seq(S)
  PROVE  s \in Seq(T)
OBVIOUS

\* A snapshot lists each node once.
LEMMA ListedOnce ==
  ASSUME NEW S, IsFiniteSet(S)
  PROVE  /\ SetToSeq(S) \in Seq(S)
         /\ \A i, j \in DOMAIN SetToSeq(S) : SetToSeq(S)[i] = SetToSeq(S)[j] => i = j
<1>1. Cardinality(S) \in Nat /\ ExistsBijection(1 .. Cardinality(S), S)
  BY FS_CardinalityType
<1>2. PICK f \in [1 .. Cardinality(S) -> S] : IsInjective(f)
  BY <1>1 DEF ExistsBijection, Bijection, Injection
<1>3. SetToSeq(S) \in [1 .. Cardinality(S) -> S] /\ IsInjective(SetToSeq(S))
  BY <1>2 DEF SetToSeq
<1>4. SetToSeq(S) \in Seq(S)
  BY <1>1, <1>3
<1>5. QED
  BY <1>3, <1>4 DEF IsInjective

-------------------------------------------------------------------------------
LEMMA NodeSets ==
  /\ Items \subseteq Nodes /\ Gates \subseteq Nodes /\ Items \cap Gates = {}
  /\ IsFiniteSet(Nodes) /\ \A n \in Nodes : n \in Items \/ n \in Gates
  /\ Decisions \subseteq Values /\ Unread \notin Values /\ "absent" \in Values
  /\ \A n \in Nodes : n \notin Gates => n \in Items
BY LiveGraphAssumption DEF Nodes, Values, Decisions, Unread

SnapshotType == [at : {"asked", "read", "landed"}, of : [Nodes -> Values]]
ShownType == [id : Nodes, val : Values]
PostType == {NoPost} \cup [at : {"sent", "handled"}, id : Gates, val : Decisions]

LEMMA GraphTypes ==
  ASSUME GraphTypeOK, NEW p \in Pages
  PROVE  /\ node \in [Nodes -> Values] /\ stream[p] \in Seq(Events)
         /\ snapshot[p] \in SnapshotType /\ fetches[p] \in Seq(Fetches)
         /\ shown[p] \in Seq(ShownType) /\ post[p] \in PostType
         /\ \A i \in DOMAIN stream[p] : stream[p][i] \in Events
         /\ \A i \in DOMAIN fetches[p] : fetches[p][i] \in Fetches
         /\ \A i \in DOMAIN shown[p] : shown[p][i] \in ShownType
<1>1. /\ node \in [Nodes -> Values] /\ stream[p] \in Seq(Events)
      /\ snapshot[p] \in SnapshotType /\ fetches[p] \in Seq(Fetches)
      /\ shown[p] \in Seq(ShownType) /\ post[p] \in PostType
  BY DEF GraphTypeOK, SnapshotType, ShownType, PostType
<1>2. QED
  BY <1>1, QueueFacts

LEMMA AskedType ==
  Asked \in SnapshotType /\ [Asked EXCEPT !.at = "landed"] \in SnapshotType
BY NodeSets DEF Asked, SnapshotType

LEMMA SentType ==
  ASSUME GraphTypeOK, NEW p \in Pages, post[p].at = "sent"
  PROVE  post[p].id \in Gates /\ post[p].val \in Decisions /\ post[p] # NoPost
<1>1. post[p] \in PostType
  BY GraphTypes
<1>2. NoPost.at # "sent"
  BY DEF NoPost
<1>3. QED
  BY <1>1, <1>2 DEF PostType

\* What becomes of the queues when an event is published.
LEMMA PublishType ==
  ASSUME GraphTypeOK, NEW kind \in {"node_created", "node_updated"}, NEW n \in Nodes,
         Publish(kind, n)
  PROVE  stream' \in [Pages -> Seq(Events)] /\ missed' \in [Pages -> BOOLEAN]
<1>1. [kind |-> kind, id |-> n] \in Events
  BY DEF Events
<1>2. ASSUME NEW p \in Pages
      PROVE  Append(stream[p], [kind |-> kind, id |-> n]) \in Seq(Events)
  BY <1>1, GraphTypes, QueueFacts
<1>3. <<>> \in Seq(Events)
  OBVIOUS
<1>4. QED
  BY <1>2, <1>3 DEF Publish, GraphTypeOK

LEMMA LandType ==
  ASSUME GraphTypeOK, NEW p \in Pages, NEW f \in Fetches, f.got # Unread
  PROVE  Land(p, f) \in Seq(ShownType)
<1> DEFINE new == [id |-> f.id, val |-> f.got]
           F == [i \in DOMAIN shown[p] |-> IF shown[p][i].id = f.id THEN new ELSE shown[p][i]]
<1>1. new \in ShownType
  BY DEF Fetches, ShownType
<1>2. shown[p] \in Seq(ShownType) /\ \A i \in DOMAIN shown[p] : shown[p][i] \in ShownType
  BY GraphTypes
<1>3. F \in [DOMAIN shown[p] -> ShownType]
  BY <1>1, <1>2
<1>4. F \in Seq(ShownType)
  BY <1>2, <1>3, MappedType, Zenon
<1>5. Append(shown[p], new) \in Seq(ShownType)
  BY <1>1, <1>2, QueueFacts
<1>6. QED
  BY <1>2, <1>4, <1>5 DEF Land

LEMMA HydratedType ==
  ASSUME GraphTypeOK, NEW p \in Pages, Hydrate(p)
  PROVE  /\ shown'[p] \in Seq(ShownType)
         /\ \A i, j \in DOMAIN shown'[p] : shown'[p][i].id = shown'[p][j].id => i = j
         /\ \A q \in Pages : q # p => shown'[q] = shown[q]
         /\ shown' \in [Pages -> Seq(ShownType)]
<1> DEFINE S == {n \in Nodes : snapshot[p].of[n] # "absent"}
           s == SetToSeq(S)
           F == [i \in DOMAIN s |-> [id |-> s[i], val |-> snapshot[p].of[s[i]]]]
<1>1. IsFiniteSet(S)
  BY NodeSets, FS_Subset
<1>2. s \in Seq(S) /\ \A i, j \in DOMAIN s : s[i] = s[j] => i = j
  BY <1>1, ListedOnce
<1>3. \A i \in DOMAIN s : s[i] \in Nodes
  BY <1>2
<1>4. snapshot[p].of \in [Nodes -> Values]
  BY GraphTypes DEF SnapshotType
<1> HIDE DEF s
<1>5. F \in [DOMAIN s -> ShownType]
  BY <1>3, <1>4 DEF ShownType
<1>6. F \in Seq(ShownType) /\ DOMAIN F = DOMAIN s
  BY <1>2, <1>5, MappedType, Zenon
<1>7. shown' = [shown EXCEPT ![p] = F] /\ shown \in [Pages -> Seq(ShownType)]
  BY DEF Hydrate, GraphTypeOK, ShownType, s
<1>8. \A i, j \in DOMAIN F : F[i].id = F[j].id => i = j
  BY <1>2, <1>6
<1> HIDE DEF F
<1>9. QED
  BY <1>6, <1>7, <1>8

LEMMA GraphTypeInit == GraphInit => GraphTypeOK
<1> SUFFICES ASSUME GraphInit PROVE GraphTypeOK
  OBVIOUS
<1>1. node \in [Nodes -> Values]
  BY DEF GraphInit, Values
<1>2. snapshot \in [Pages -> SnapshotType]
  BY AskedType DEF GraphInit
<1>3. QED
  BY <1>1, <1>2 DEF GraphInit, GraphTypeOK, SnapshotType

\* The server's store and the queues of the streams.
LEMMA ServerNext ==
  ASSUME GraphTypeOK, GraphNext
  PROVE  /\ node' \in [Nodes -> Values] /\ stream' \in [Pages -> Seq(Events)]
         /\ open' \subseteq Pages /\ missed' \in [Pages -> BOOLEAN]
<1>1. /\ node \in [Nodes -> Values] /\ stream \in [Pages -> Seq(Events)]
      /\ open \subseteq Pages /\ missed \in [Pages -> BOOLEAN]
  BY DEF GraphTypeOK
<1>2. ASSUME NEW n \in Items, Create(n)
      PROVE  /\ node' \in [Nodes -> Values] /\ stream' \in [Pages -> Seq(Events)]
             /\ open' = open /\ missed' \in [Pages -> BOOLEAN]
  <2>1. node' = [node EXCEPT ![n] = "stored"] /\ Publish("node_created", n) /\ open' = open
    BY <1>2 DEF Create
  <2>2. "stored" \in Values /\ n \in Nodes
    BY NodeSets DEF Values
  <2>3. QED
    BY <1>1, <2>1, <2>2, PublishType
<1>11. ASSUME NEW n \in Items, CreateUntold(n)
       PROVE  /\ node' \in [Nodes -> Values] /\ stream' = stream
              /\ open' = open /\ missed' \in [Pages -> BOOLEAN]
  <2>1. "stored" \in Values /\ n \in Nodes
    BY NodeSets DEF Values
  <2>2. node' = [node EXCEPT ![n] = "stored"] /\ stream' = stream /\ open' = open
    BY <1>11 DEF CreateUntold
  <2>3. missed' \in [Pages -> BOOLEAN]
    BY <1>1, <1>11, Zenon DEF CreateUntold, LossMatters
  <2>4. QED
    BY <1>1, <2>1, <2>2, <2>3
<1>3. ASSUME NEW g \in Gates, NEW d \in Decisions, Settle(g, d)
      PROVE  /\ node' \in [Nodes -> Values] /\ stream' \in [Pages -> Seq(Events)]
             /\ missed' \in [Pages -> BOOLEAN]
  <2>1. node' = [node EXCEPT ![g] = d] /\ Publish("node_updated", g)
    BY <1>3 DEF Settle
  <2>2. g \in Nodes /\ d \in Values
    BY NodeSets
  <2>3. QED
    BY <1>1, <2>1, <2>2, PublishType
<1>4. CASE \E p \in Pages : Deliver(p)
  <2>1. PICK p \in Pages : Deliver(p)
    BY <1>4
  <2>2. Tail(stream[p]) \in Seq(Events)
    BY <2>1, GraphTypes, QueueFacts DEF Deliver
  <2>3. stream' = [stream EXCEPT ![p] = Tail(stream[p])] /\ node' = node /\ open' = open
    BY <2>1 DEF Deliver
  <2>4. missed' \in [Pages -> BOOLEAN]
    BY <1>1, <2>1, Zenon DEF Deliver
  <2>5. QED
    BY <1>1, <2>2, <2>3, <2>4
<1>5. CASE \E p \in Pages : Drop(p) \/ Reload(p) \/ SnapshotFails(p) \/ Connect(p)
  <2>1. PICK p \in Pages : Drop(p) \/ Reload(p) \/ SnapshotFails(p) \/ Connect(p)
    BY <1>5
  <2>2. <<>> \in Seq(Events)
    OBVIOUS
  <2>3. QED
    BY <1>1, <2>1, <2>2 DEF Drop, Reload, SnapshotFails, Connect
<1>6. CASE \E p \in Pages : \E i \in Indices(p) : FetchLands(p, i) \/ FetchFails(p, i)
  BY <1>1, <1>6 DEF FetchLands, FetchFails
<1>7. ASSUME NEW p \in Pages, Resolve(p)
      PROVE  /\ node' \in [Nodes -> Values] /\ stream' \in [Pages -> Seq(Events)]
             /\ open' \subseteq Pages /\ missed' \in [Pages -> BOOLEAN]
  BY <1>1, <1>3, <1>7, SentType DEF Resolve
<1>8. ASSUME NEW g \in Gates, NEW d \in Decisions, ResolveElsewhere(g, d)
      PROVE  /\ node' \in [Nodes -> Values] /\ stream' \in [Pages -> Seq(Events)]
             /\ open' \subseteq Pages /\ missed' \in [Pages -> BOOLEAN]
  BY <1>1, <1>3, <1>8 DEF ResolveElsewhere
<1>9. CASE UNCHANGED <<node, stream, open, missed>>
  BY <1>1, <1>9
<1>10. QED
  BY <1>1, <1>2, <1>4, <1>5, <1>6, <1>7, <1>8, <1>9, <1>11 DEF GraphNext, ReadState, Hydrate,
    Answered, PostFails, ReadNode, Decide

LEMMA FetchesNext ==
  ASSUME GraphTypeOK, GraphNext
  PROVE  fetches' \in [Pages -> Seq(Fetches)]
<1>1. fetches \in [Pages -> Seq(Fetches)]
  BY DEF GraphTypeOK
<1>2. ASSUME NEW p \in Pages, NEW i \in Indices(p), ReadNode(p, i)
      PROVE  fetches' \in [Pages -> Seq(Fetches)]
  <2> DEFINE f == [fetches[p][i] EXCEPT !.got = node[fetches[p][i].id]]
  <2>1. i \in DOMAIN fetches[p] /\ fetches[p][i] \in Fetches /\ fetches[p] \in Seq(Fetches)
    BY GraphTypes DEF Indices
  <2>2. f \in Fetches
    BY <2>1, GraphTypes DEF Fetches
  <2>3. [fetches[p] EXCEPT ![i] = f] \in Seq(Fetches)
    BY <2>1, <2>2, QueueFacts
  <2>4. fetches' = [fetches EXCEPT ![p] = [fetches[p] EXCEPT ![i] = f]]
    BY <1>2 DEF ReadNode
  <2>5. QED
    BY <1>1, <2>3, <2>4
<1>3. ASSUME NEW p \in Pages, Deliver(p) PROVE fetches' \in [Pages -> Seq(Fetches)]
  <2> DEFINE e == Head(stream[p])
             f == [kind |-> e.kind, id |-> e.id, got |-> Unread]
  <2>1. e \in Events
    BY <1>3, GraphTypes, QueueFacts DEF Deliver
  <2>2. f \in Fetches
    BY <2>1 DEF Events, Fetches
  <2>3. Append(fetches[p], f) \in Seq(Fetches)
    BY <2>2, GraphTypes, QueueFacts
  <2>4. fetches' = [fetches EXCEPT ![p] = Append(fetches[p], f)]
    BY <1>3 DEF Deliver
  <2>5. QED
    BY <1>1, <2>3, <2>4
<1>4. ASSUME NEW p \in Pages, NEW i \in Indices(p), FetchLands(p, i) \/ FetchFails(p, i)
      PROVE  fetches' \in [Pages -> Seq(Fetches)]
  <2>1. RemoveAt(fetches[p], i) \in Seq(Fetches)
    BY GraphTypes, RemovedType DEF Indices
  <2>2. fetches' = [fetches EXCEPT ![p] = RemoveAt(fetches[p], i)]
    BY <1>4 DEF FetchLands, FetchFails
  <2>3. QED
    BY <1>1, <2>1, <2>2
<1>5. ASSUME NEW p \in Pages, Reload(p) PROVE fetches' \in [Pages -> Seq(Fetches)]
  <2>1. <<>> \in Seq(Fetches)
    OBVIOUS
  <2>2. QED
    BY <1>1, <1>5, <2>1 DEF Reload
<1>6. CASE UNCHANGED fetches
  BY <1>1, <1>6
<1>7. QED
  BY <1>2, <1>3, <1>4, <1>5, <1>6 DEF GraphNext, Create, CreateUntold, ResolveElsewhere, Resolve, Connect,
    ReadState, Hydrate, Answered, Drop, SnapshotFails, PostFails, Decide

LEMMA ShownNext ==
  ASSUME GraphTypeOK, GraphNext
  PROVE  shown' \in [Pages -> Seq(ShownType)]
<1>1. shown \in [Pages -> Seq(ShownType)]
  BY DEF GraphTypeOK, ShownType
<1>2. ASSUME NEW p \in Pages, NEW i \in Indices(p), FetchLands(p, i)
      PROVE  shown' \in [Pages -> Seq(ShownType)]
  <2>1. fetches[p][i] \in Fetches /\ fetches[p][i].got # Unread
    BY <1>2, GraphTypes DEF FetchLands, Indices
  <2>2. Land(p, fetches[p][i]) \in Seq(ShownType)
    BY <2>1, LandType
  <2>3. shown' = [shown EXCEPT ![p] = Land(p, fetches[p][i])]
    BY <1>2 DEF FetchLands
  <2>4. QED
    BY <1>1, <2>2, <2>3
<1>3. ASSUME NEW p \in Pages, Reload(p) PROVE shown' \in [Pages -> Seq(ShownType)]
  <2>1. <<>> \in Seq(ShownType)
    OBVIOUS
  <2>2. QED
    BY <1>1, <1>3, <2>1 DEF Reload
<1>4. CASE UNCHANGED shown
  BY <1>1, <1>4
<1>5. QED
  BY <1>2, <1>3, <1>4, HydratedType DEF GraphNext, Create, CreateUntold, ResolveElsewhere, Resolve, Connect,
    ReadState, Deliver, Answered, Drop, SnapshotFails, PostFails, ReadNode, FetchFails, Decide

LEMMA RequestsNext ==
  ASSUME GraphTypeOK, GraphNext
  PROVE  /\ snapshot' \in [Pages -> SnapshotType] /\ post' \in [Pages -> PostType]
         /\ posts' \in Nat /\ failures' \in Nat
<1>1. /\ snapshot \in [Pages -> SnapshotType] /\ post \in [Pages -> PostType]
      /\ posts \in Nat /\ failures \in Nat /\ NoPost \in PostType
  BY DEF GraphTypeOK, SnapshotType, PostType
<1>2. posts' \in Nat /\ failures' \in Nat
  <2>1. CASE UNCHANGED counts
    BY <1>1, <2>1 DEF counts
  <2>2. CASE failures' = failures /\ posts' = posts + 1
    BY <1>1, <2>2
  <2>3. CASE Fails /\ posts' = posts
    BY <1>1, <2>3 DEF Fails
  <2>4. ASSUME NEW p \in Pages
        PROVE  /\ Drop(p) \/ SnapshotFails(p) \/ PostFails(p) \/ Reload(p)
                    => Fails /\ posts' = posts
               /\ \A i \in Indices(p) : FetchFails(p, i) => Fails /\ posts' = posts
    BY DEF Drop, SnapshotFails, PostFails, Reload, FetchFails
  <2>5. ASSUME NEW p \in Pages
        PROVE  /\ Resolve(p) \/ Connect(p) \/ ReadState(p) \/ Deliver(p) \/ Hydrate(p)
                    \/ Answered(p) => UNCHANGED counts
               /\ \A i \in Indices(p) : ReadNode(p, i) \/ FetchLands(p, i) => UNCHANGED counts
    BY DEF Resolve, Connect, ReadState, Deliver, Hydrate, Answered, ReadNode, FetchLands
  <2>6. /\ \A n \in Items : Create(n) => UNCHANGED counts
        /\ \A n \in Items : CreateUntold(n) => Fails /\ posts' = posts
        /\ \A g \in Gates, d \in Decisions :
             ResolveElsewhere(g, d) => failures' = failures /\ posts' = posts + 1
        /\ \A p \in Pages : \A i \in DOMAIN shown[p], d \in Decisions :
             Decide(p, i, d) => failures' = failures /\ posts' = posts + 1
    BY DEF Create, CreateUntold, ResolveElsewhere, Decide
  <2>7. UNCHANGED counts \/ (Fails /\ posts' = posts)
          \/ (failures' = failures /\ posts' = posts + 1)
    BY <2>4, <2>5, <2>6, Zenon DEF GraphNext
  <2>8. QED
    BY <2>1, <2>2, <2>3, <2>7
<1>3. ASSUME NEW p \in Pages,
             ReadState(p) \/ Hydrate(p) \/ SnapshotFails(p) \/ Reload(p)
      PROVE  snapshot' \in [Pages -> SnapshotType]
  <2>1. [at |-> "read", of |-> node] \in SnapshotType
    BY DEF GraphTypeOK, SnapshotType
  <2>2. QED
    BY <1>1, <1>3, <2>1, AskedType DEF ReadState, Hydrate, SnapshotFails, Reload
<1>4. snapshot' \in [Pages -> SnapshotType]
  <2>1. CASE UNCHANGED snapshot
    BY <1>1, <2>1
  <2>2. /\ \A n \in Items : Create(n) \/ CreateUntold(n) => UNCHANGED snapshot
        /\ \A g \in Gates, d \in Decisions : ResolveElsewhere(g, d) => UNCHANGED snapshot
    BY DEF Create, CreateUntold, ResolveElsewhere
  <2>3. ASSUME NEW p \in Pages
        PROVE  /\ Resolve(p) \/ Connect(p) \/ Deliver(p) \/ Answered(p) \/ Drop(p)
                    \/ PostFails(p) => UNCHANGED snapshot
               /\ \A i \in Indices(p) : ReadNode(p, i) \/ FetchLands(p, i) \/ FetchFails(p, i)
                    => UNCHANGED snapshot
               /\ \A i \in DOMAIN shown[p], d \in Decisions : Decide(p, i, d)
                    => UNCHANGED snapshot
    BY DEF Resolve, Connect, Deliver, Answered, Drop, PostFails, ReadNode, FetchLands,
           FetchFails, Decide
  <2>4. \/ UNCHANGED snapshot
        \/ \E p \in Pages : ReadState(p) \/ Hydrate(p) \/ SnapshotFails(p) \/ Reload(p)
    BY <2>2, <2>3, Zenon DEF GraphNext
  <2>5. QED
    BY <1>3, <2>1, <2>4
<1>5. ASSUME NEW p \in Pages, Resolve(p) PROVE post' \in [Pages -> PostType]
  <2>1. post[p] \in [at : {"sent", "handled"}, id : Gates, val : Decisions]
    BY <1>5, GraphTypes, SentType DEF PostType, Resolve
  <2>2. [post[p] EXCEPT !.at = "handled"] \in PostType
    BY <2>1 DEF PostType
  <2>3. QED
    BY <1>1, <1>5, <2>2 DEF Resolve
<1>6. ASSUME NEW p \in Pages, NEW i \in DOMAIN shown[p], NEW d \in Decisions, Decide(p, i, d)
      PROVE  post' \in [Pages -> PostType]
  <2>1. [at |-> "sent", id |-> shown[p][i].id, val |-> d] \in PostType
    BY <1>6 DEF Decide, PostType
  <2>2. QED
    BY <1>1, <1>6, <2>1 DEF Decide
<1>7. ASSUME NEW p \in Pages, Answered(p) \/ PostFails(p) PROVE post' \in [Pages -> PostType]
  BY <1>1, <1>7 DEF Answered, PostFails
<1>8. ASSUME UNCHANGED post PROVE post' \in [Pages -> PostType]
  BY <1>1, <1>8
<1>9. post' \in [Pages -> PostType]
  <2>1. /\ \A n \in Items : Create(n) \/ CreateUntold(n) => UNCHANGED post
        /\ \A g \in Gates, d \in Decisions : ResolveElsewhere(g, d) => UNCHANGED post
    BY DEF Create, CreateUntold, ResolveElsewhere
  <2>2. ASSUME NEW p \in Pages
        PROVE  /\ Connect(p) \/ ReadState(p) \/ Deliver(p) \/ Hydrate(p) \/ Drop(p)
                    \/ SnapshotFails(p) => UNCHANGED post
               /\ \A i \in Indices(p) : ReadNode(p, i) \/ FetchLands(p, i) \/ FetchFails(p, i)
                    => UNCHANGED post
    BY DEF Connect, ReadState, Deliver, Hydrate, Drop, SnapshotFails, ReadNode,
           FetchLands, FetchFails
  <2>3. ASSUME NEW p \in Pages, Reload(p) PROVE post' \in [Pages -> PostType]
    BY <1>1, <2>3 DEF Reload
  <2>4. \/ UNCHANGED post
        \/ \E p \in Pages : Resolve(p) \/ Answered(p) \/ PostFails(p) \/ Reload(p)
        \/ \E p \in Pages : \E i \in DOMAIN shown[p], d \in Decisions : Decide(p, i, d)
    BY <2>1, <2>2, Zenon DEF GraphNext
  <2>5. QED
    BY <1>5, <1>6, <1>7, <1>8, <2>3, <2>4
<1>10. QED
  BY <1>2, <1>4, <1>9

LEMMA GraphTypeNext == GraphTypeOK /\ [GraphNext]_graphVars => GraphTypeOK'
<1> SUFFICES ASSUME GraphTypeOK, [GraphNext]_graphVars PROVE GraphTypeOK'
  OBVIOUS
<1>1. CASE UNCHANGED graphVars
  BY <1>1 DEF graphVars, GraphTypeOK
<1>2. CASE GraphNext
  BY <1>2, ServerNext, FetchesNext, ShownNext, RequestsNext
    DEF GraphTypeOK, SnapshotType, ShownType, PostType
<1>3. QED
  BY <1>1, <1>2

\* Every state of the server, the streams and the pages is well typed.
THEOREM GraphIsTyped == GraphSpec => []GraphTypeOK
  BY GraphTypeInit, GraphTypeNext, PTL DEF GraphSpec

-------------------------------------------------------------------------------
LEMMA LandsOnce ==
  ASSUME GraphTypeOK, NEW p \in Pages, NEW f \in Fetches,
         \A i, j \in DOMAIN shown[p] : shown[p][i].id = shown[p][j].id => i = j
  PROVE  \A i, j \in DOMAIN Land(p, f) : Land(p, f)[i].id = Land(p, f)[j].id => i = j
<1> DEFINE new == [id |-> f.id, val |-> f.got]
           F == [i \in DOMAIN shown[p] |-> IF shown[p][i].id = f.id THEN new ELSE shown[p][i]]
<1>1. \A i \in DOMAIN F : F[i].id = shown[p][i].id
  OBVIOUS
<1>2. \A i, j \in DOMAIN F : F[i].id = F[j].id => i = j
  BY <1>1
<1>3. ASSUME ~Known(p, f.id), NEW s, s = Append(shown[p], new)
      PROVE  \A i, j \in DOMAIN s : s[i].id = s[j].id => i = j
  <2>1. shown[p] \in Seq(ShownType \cup {new}) /\ new \in ShownType \cup {new}
    BY GraphTypes, SubsetSeq
  <2>2. /\ DOMAIN s = 1 .. Len(shown[p]) + 1 /\ DOMAIN shown[p] = 1 .. Len(shown[p])
        /\ Len(shown[p]) \in Nat /\ s[Len(shown[p]) + 1] = new
        /\ \A i \in DOMAIN shown[p] : s[i] = shown[p][i]
    BY <1>3, <2>1, QueueFacts
  <2>3. \A i \in DOMAIN shown[p] : s[i].id # f.id
    BY <1>3, <2>2 DEF Known
  <2>4. new.id = f.id
    OBVIOUS
  <2>5. \A i \in DOMAIN s : i \in DOMAIN shown[p] \/ i = Len(shown[p]) + 1
    BY <2>2
  <2> HIDE DEF new
  <2>6. QED
    BY <2>2, <2>3, <2>4, <2>5
<1>4. QED
  BY <1>2, <1>3 DEF Land

LEMMA OnceNext == GraphTypeOK /\ NoNodeTwice /\ [GraphNext]_graphVars => NoNodeTwice'
<1> SUFFICES ASSUME GraphTypeOK, NoNodeTwice, [GraphNext]_graphVars
             PROVE  NoNodeTwice'
  OBVIOUS
<1>1. CASE UNCHANGED shown
  BY <1>1 DEF NoNodeTwice
<1>2. ASSUME NEW p \in Pages, NEW i \in Indices(p), FetchLands(p, i) PROVE NoNodeTwice'
  <2>1. fetches[p][i] \in Fetches
    BY GraphTypes DEF Indices
  <2>2. shown' = [shown EXCEPT ![p] = Land(p, fetches[p][i])]
    BY <1>2 DEF FetchLands
  <2>3. \A k, j \in DOMAIN Land(p, fetches[p][i]) :
          Land(p, fetches[p][i])[k].id = Land(p, fetches[p][i])[j].id => k = j
    BY <2>1, LandsOnce DEF NoNodeTwice
  <2>4. QED
    BY <2>2, <2>3 DEF NoNodeTwice, GraphTypeOK
<1>3. ASSUME NEW p \in Pages, Hydrate(p) PROVE NoNodeTwice'
  BY <1>3, HydratedType DEF NoNodeTwice
<1>4. ASSUME NEW p \in Pages, Reload(p) PROVE NoNodeTwice'
  BY <1>4 DEF Reload, NoNodeTwice, GraphTypeOK
<1>5. QED
  BY <1>1, <1>2, <1>3, <1>4 DEF GraphNext, Create, CreateUntold, ResolveElsewhere, Resolve, Connect,
    ReadState, Deliver, Answered, Drop, SnapshotFails, PostFails, ReadNode, FetchFails, Decide,
    graphVars

\* A page shows no node twice, for any number of pages, nodes and requests under way.
THEOREM NoNodeIsShownTwice == GraphSpec => []NoNodeTwice
<1>1. GraphInit => NoNodeTwice
  BY DEF GraphInit, NoNodeTwice
<1>2. QED
  BY <1>1, OnceNext, GraphIsTyped, PTL DEF GraphSpec

-------------------------------------------------------------------------------
\* What is on its way to a page about a gate item is a decision of it; about any other
\* node, that it is stored.
SoundEvents ==
  {e \in Events : /\ e.id \in Gates => e.kind = "node_updated" /\ node[e.id] \in Decisions
                  /\ e.id \in Items => e.kind = "node_created" /\ node[e.id] = "stored"}
SoundFetches ==
  {f \in Fetches : /\ f.id \in Gates => /\ f.kind = "node_updated" /\ node[f.id] \in Decisions
                                        /\ f.got \in Decisions \cup {Unread}
                   /\ f.id \in Items => /\ f.kind = "node_created" /\ node[f.id] = "stored"
                                        /\ f.got \in {"stored", Unread}}

SoundTravel ==
  \A p \in Pages : /\ stream[p] \in Seq(SoundEvents)
                   /\ fetches[p] \in Seq(SoundFetches)

\* A gate item comes to a page with the snapshot only: it is never new.
GatesComeBySnapshot ==
  \A p \in Pages : snapshot[p].at # "landed" =>
    \A i \in DOMAIN shown[p] : shown[p][i].id \notin Gates

\* The steps that change a node.
LEMMA NodeMoves ==
  ASSUME GraphNext
  PROVE  \/ \E n \in Items : Create(n) \/ CreateUntold(n)
         \/ \E g \in Gates, d \in Decisions : ResolveElsewhere(g, d)
         \/ \E p \in Pages : Resolve(p)
         \/ UNCHANGED node
<1>1. ASSUME NEW p \in Pages
      PROVE  /\ Connect(p) \/ ReadState(p) \/ Deliver(p) \/ Hydrate(p) \/ Answered(p)
                  => UNCHANGED node
             /\ Drop(p) \/ SnapshotFails(p) \/ PostFails(p) \/ Reload(p) => UNCHANGED node
             /\ \A i \in Indices(p) :
                  ReadNode(p, i) \/ FetchLands(p, i) \/ FetchFails(p, i) => UNCHANGED node
             /\ \A i \in DOMAIN shown[p], d \in Decisions : Decide(p, i, d) => UNCHANGED node
  BY DEF Connect, ReadState, Deliver, Hydrate, Answered, Drop, SnapshotFails, PostFails,
    Reload, ReadNode, FetchLands, FetchFails, Decide
<1>2. QED
  BY <1>1, Zenon DEF GraphNext

LEMMA NodesStay ==
  ASSUME GraphTypeOK, GraphNext
  PROVE  /\ \A g \in Gates : node[g] \in Decisions => node'[g] \in Decisions
         /\ \A n \in Items : node[n] = "stored" => node'[n] = "stored"
<1>1. /\ \A g \in Gates : g \in Nodes /\ g \notin Items
      /\ \A n \in Items : n \in Nodes /\ n \notin Gates
  BY NodeSets
<1>2. node \in [Nodes -> Values]
  BY DEF GraphTypeOK
<1>3. CASE \E n \in Items : Create(n) \/ CreateUntold(n)
  BY <1>1, <1>2, <1>3 DEF Create, CreateUntold
<1>4. CASE \E g \in Gates, d \in Decisions : Settle(g, d)
  BY <1>1, <1>2, <1>4 DEF Settle
<1>5. CASE UNCHANGED node
  BY <1>5
<1>6. CASE \E p \in Pages : Resolve(p)
  BY <1>4, <1>6, SentType DEF Resolve
<1>7. CASE \E g \in Gates, d \in Decisions : ResolveElsewhere(g, d)
  BY <1>4, <1>7 DEF ResolveElsewhere
<1>8. QED
  BY <1>3, <1>5, <1>6, <1>7, NodeMoves

LEMMA SoundGrow ==
  ASSUME GraphTypeOK, GraphNext
  PROVE  SoundEvents \subseteq SoundEvents' /\ SoundFetches \subseteq SoundFetches'
BY NodesStay DEF SoundEvents, SoundFetches

LEMMA EventsNext ==
  ASSUME GraphTypeOK, SoundTravel, GraphNext, NEW p \in Pages
  PROVE  stream'[p] \in Seq(SoundEvents')
<1>1. stream[p] \in Seq(SoundEvents') /\ SoundEvents \subseteq SoundEvents'
  BY SoundGrow, SubsetSeq, Zenon DEF SoundTravel
<1>2. <<>> \in Seq(SoundEvents')
  OBVIOUS
<1>3. ASSUME NEW kind, NEW n, Publish(kind, n), [kind |-> kind, id |-> n] \in SoundEvents'
      PROVE  stream'[p] \in Seq(SoundEvents')
  <2>1. Append(stream[p], [kind |-> kind, id |-> n]) \in Seq(SoundEvents')
    BY <1>1, <1>3, QueueFacts
  <2>2. QED
    BY <1>2, <1>3, <2>1 DEF Publish
<1>4. ASSUME NEW n \in Items, Create(n) PROVE stream'[p] \in Seq(SoundEvents')
  <2>1. node'[n] = "stored" /\ n \in Nodes /\ n \notin Gates
    BY <1>4, NodeSets DEF Create, GraphTypeOK
  <2>2. [kind |-> "node_created", id |-> n] \in SoundEvents'
    BY <2>1 DEF SoundEvents, Events
  <2>3. QED
    BY <1>3, <1>4, <2>2 DEF Create
<1>5. ASSUME NEW g \in Gates, NEW d \in Decisions, Settle(g, d)
      PROVE  stream'[p] \in Seq(SoundEvents')
  <2>1. node'[g] = d /\ g \in Nodes /\ g \notin Items
    BY <1>5, NodeSets DEF Settle, GraphTypeOK
  <2>2. [kind |-> "node_updated", id |-> g] \in SoundEvents'
    BY <2>1 DEF SoundEvents, Events
  <2>3. QED
    BY <1>3, <1>5, <2>2 DEF Settle
<1>6. ASSUME NEW q \in Pages, Deliver(q) PROVE stream'[p] \in Seq(SoundEvents')
  <2>1. stream[q] \in Seq(SoundEvents) /\ stream[q] # <<>>
    BY <1>6 DEF SoundTravel, Deliver
  <2>2. Tail(stream[q]) \in Seq(SoundEvents)
    BY <2>1, QueueFacts
  <2>3. Tail(stream[q]) \in Seq(SoundEvents')
    BY <1>1, <2>2, SubsetSeq, Zenon
  <2>4. stream' = [stream EXCEPT ![q] = Tail(stream[q])] /\ stream \in [Pages -> Seq(Events)]
    BY <1>6 DEF Deliver, GraphTypeOK
  <2>5. QED
    BY <1>1, <2>3, <2>4
<1>7. ASSUME NEW q \in Pages, Drop(q) \/ Reload(q) PROVE stream'[p] \in Seq(SoundEvents')
  BY <1>1, <1>2, <1>7 DEF Drop, Reload, GraphTypeOK
<1>8. ASSUME UNCHANGED stream PROVE stream'[p] \in Seq(SoundEvents')
  BY <1>1, <1>8
<1>9. QED
  BY <1>4, <1>5, <1>6, <1>7, <1>8, SentType DEF GraphNext, CreateUntold, ResolveElsewhere, Resolve,
    Connect, ReadState, Hydrate, Answered, SnapshotFails, PostFails, ReadNode, FetchLands, FetchFails,
    Decide

LEMMA SoundFetchesNext ==
  ASSUME GraphTypeOK, SoundTravel, GraphNext, NEW p \in Pages
  PROVE  fetches'[p] \in Seq(SoundFetches')
<1>1. /\ \A q \in Pages : fetches[q] \in Seq(SoundFetches')
      /\ SoundFetches \subseteq SoundFetches' /\ fetches \in [Pages -> Seq(Fetches)]
  BY SoundGrow, SubsetSeq, Zenon DEF SoundTravel, GraphTypeOK
<1>2. <<>> \in Seq(SoundFetches')
  OBVIOUS
<1>3. ASSUME NEW q \in Pages, NEW i \in Indices(q), ReadNode(q, i)
      PROVE  fetches'[p] \in Seq(SoundFetches')
  <2> DEFINE f == [fetches[q][i] EXCEPT !.got = node[fetches[q][i].id]]
  <2>1. /\ i \in DOMAIN fetches[q] /\ fetches[q][i] \in Fetches
        /\ fetches[q][i] \in SoundFetches /\ node \in [Nodes -> Values]
    BY GraphTypes, QueueFacts DEF Indices, SoundTravel
  <2>2. f \in SoundFetches
    BY <2>1 DEF SoundFetches, Fetches
  <2>3. [fetches[q] EXCEPT ![i] = f] \in Seq(SoundFetches')
    BY <1>1, <2>1, <2>2, QueueFacts
  <2>4. fetches' = [fetches EXCEPT ![q] = [fetches[q] EXCEPT ![i] = f]]
    BY <1>3 DEF ReadNode
  <2>5. QED
    BY <1>1, <2>3, <2>4
<1>4. ASSUME NEW q \in Pages, Deliver(q) PROVE fetches'[p] \in Seq(SoundFetches')
  <2> DEFINE e == Head(stream[q])
             f == [kind |-> e.kind, id |-> e.id, got |-> Unread]
  <2>1. e \in SoundEvents
    BY <1>4, QueueFacts DEF Deliver, SoundTravel
  <2>2. f \in SoundFetches
    BY <2>1 DEF SoundEvents, Events, SoundFetches, Fetches
  <2>3. Append(fetches[q], f) \in Seq(SoundFetches')
    BY <1>1, <2>2, QueueFacts
  <2>4. fetches' = [fetches EXCEPT ![q] = Append(fetches[q], f)]
    BY <1>4 DEF Deliver
  <2>5. QED
    BY <1>1, <2>3, <2>4
<1>5. ASSUME NEW q \in Pages, NEW i \in Indices(q), FetchLands(q, i) \/ FetchFails(q, i)
      PROVE  fetches'[p] \in Seq(SoundFetches')
  <2>1. RemoveAt(fetches[q], i) \in Seq(SoundFetches')
    BY <1>1, RemovedType DEF Indices
  <2>2. fetches' = [fetches EXCEPT ![q] = RemoveAt(fetches[q], i)]
    BY <1>5 DEF FetchLands, FetchFails
  <2>3. QED
    BY <1>1, <2>1, <2>2
<1>6. ASSUME NEW q \in Pages, Reload(q) PROVE fetches'[p] \in Seq(SoundFetches')
  BY <1>1, <1>2, <1>6 DEF Reload
<1>7. ASSUME UNCHANGED fetches PROVE fetches'[p] \in Seq(SoundFetches')
  BY <1>1, <1>7
<1>8. QED
  BY <1>3, <1>4, <1>5, <1>6, <1>7 DEF GraphNext, Create, CreateUntold, ResolveElsewhere, Resolve, Connect,
    ReadState, Hydrate, Answered, Drop, SnapshotFails, PostFails, Decide

LEMMA TravelNext ==
  GraphTypeOK /\ SoundTravel /\ [GraphNext]_graphVars => SoundTravel'
<1> SUFFICES ASSUME GraphTypeOK, SoundTravel, [GraphNext]_graphVars
             PROVE  SoundTravel'
  OBVIOUS
<1>1. CASE UNCHANGED graphVars
  BY <1>1 DEF graphVars, SoundTravel, SoundEvents, SoundFetches
<1>2. CASE GraphNext
  BY <1>2, EventsNext, SoundFetchesNext DEF SoundTravel
<1>3. QED
  BY <1>1, <1>2

\* How the answer to a fetch changes what a page shows.
LEMMA LandsSound ==
  ASSUME GraphTypeOK, SoundTravel, NEW p \in Pages, NEW i \in Indices(p), FetchLands(p, i)
  PROVE  /\ \A q \in Pages : q # p => shown'[q] = shown[q]
         /\ shown'[p] = Land(p, fetches[p][i]) /\ UNCHANGED snapshot
         /\ fetches[p][i] \in SoundFetches /\ fetches[p][i].got # Unread
BY QueueFacts DEF FetchLands, GraphTypeOK, SoundTravel, Indices

LEMMA LandFacts ==
  ASSUME GraphTypeOK, NEW p \in Pages, NEW f \in Fetches
  PROVE  /\ \A k \in DOMAIN shown[p] : k \in DOMAIN Land(p, f)
         /\ \A k \in DOMAIN shown[p] :
              \/ Land(p, f)[k] = shown[p][k]
              \/ /\ f.kind = "node_updated" /\ shown[p][k].id = f.id
                 /\ Land(p, f)[k] = [id |-> f.id, val |-> f.got]
         /\ \A k \in DOMAIN Land(p, f) : k \notin DOMAIN shown[p] =>
              f.kind = "node_created" /\ Land(p, f)[k] = [id |-> f.id, val |-> f.got]
<1> DEFINE new == [id |-> f.id, val |-> f.got]
<1>1. CASE f.kind # "node_created"
  BY <1>1 DEF Land, Fetches
<1>2. CASE f.kind = "node_created"
  <2>1. shown[p] \in Seq(ShownType \cup {new}) /\ new \in ShownType \cup {new}
    BY GraphTypes, SubsetSeq
  <2>2. /\ DOMAIN Append(shown[p], new) = 1 .. Len(shown[p]) + 1
        /\ DOMAIN shown[p] = 1 .. Len(shown[p]) /\ Len(shown[p]) \in Nat
        /\ Append(shown[p], new)[Len(shown[p]) + 1] = new
        /\ \A k \in DOMAIN shown[p] : Append(shown[p], new)[k] = shown[p][k]
    BY <2>1, QueueFacts
  <2>3. Land(p, f) = shown[p] \/ Land(p, f) = Append(shown[p], new)
    BY <1>2 DEF Land
  <2>4. QED
    BY <1>2, <2>2, <2>3
<1>3. QED
  BY <1>1, <1>2

LEMMA SnapshotNext ==
  GraphTypeOK /\ SoundTravel /\ GatesComeBySnapshot /\ [GraphNext]_graphVars
    => GatesComeBySnapshot'
<1> SUFFICES ASSUME GraphTypeOK, SoundTravel, GatesComeBySnapshot, [GraphNext]_graphVars
             PROVE  GatesComeBySnapshot'
  OBVIOUS
<1>1. snapshot \in [Pages -> SnapshotType] /\ shown \in [Pages -> Seq(ShownType)]
  BY DEF GraphTypeOK, SnapshotType, ShownType
<1>2. ASSUME NEW p \in Pages, NEW i \in Indices(p), FetchLands(p, i)
      PROVE  GatesComeBySnapshot'
  <2>1. PICK f \in Fetches : f = fetches[p][i] /\ (f.id \in Gates => f.kind = "node_updated")
    BY <1>2, LandsSound DEF SoundFetches
  <2>2. shown'[p] = Land(p, f)
    BY <1>2, <2>1, LandsSound
  <2>3. /\ \A k \in DOMAIN shown[p] :
             \/ Land(p, f)[k] = shown[p][k]
             \/ shown[p][k].id = f.id /\ Land(p, f)[k] = [id |-> f.id, val |-> f.got]
        /\ \A k \in DOMAIN Land(p, f) : k \notin DOMAIN shown[p] =>
             f.kind = "node_created" /\ Land(p, f)[k] = [id |-> f.id, val |-> f.got]
    <3>1. f \in Fetches
      OBVIOUS
    <3>2. QED
      BY <3>1, LandFacts, ZenonT(30)
  <2>4. [id |-> f.id, val |-> f.got].id = f.id
    OBVIOUS
  <2>5. ASSUME NEW k \in DOMAIN shown'[p], snapshot[p].at # "landed"
        PROVE  shown'[p][k].id \notin Gates
    <3>1. CASE k \in DOMAIN shown[p]
      <4>1. shown'[p][k].id = shown[p][k].id
        BY <2>2, <2>3, <2>4, <3>1
      <4>2. QED
        BY <2>5, <3>1, <4>1 DEF GatesComeBySnapshot
    <3>2. CASE k \notin DOMAIN shown[p]
      <4>1. shown'[p][k].id = f.id /\ f.kind = "node_created"
        BY <2>2, <2>3, <2>4, <3>2
      <4>2. QED
        BY <2>1, <4>1
    <3>3. QED
      BY <3>1, <3>2
  <2>6. QED
    BY <1>2, <2>5, LandsSound DEF GatesComeBySnapshot
<1>3. ASSUME NEW p \in Pages, Hydrate(p) PROVE GatesComeBySnapshot'
  <2>1. snapshot' = [snapshot EXCEPT ![p] = [Asked EXCEPT !.at = "landed"]]
    BY <1>3 DEF Hydrate
  <2>2. [Asked EXCEPT !.at = "landed"].at = "landed"
    BY DEF Asked
  <2>3. \A q \in Pages : q # p => shown'[q] = shown[q]
    BY <1>3, HydratedType
  <2>4. QED
    BY <1>1, <2>1, <2>2, <2>3 DEF GatesComeBySnapshot
<1>4. ASSUME NEW p \in Pages, SnapshotFails(p) \/ ReadState(p) PROVE GatesComeBySnapshot'
  BY <1>1, <1>4 DEF SnapshotFails, ReadState, GatesComeBySnapshot, Asked
<1>5. ASSUME NEW p \in Pages, Reload(p) PROVE GatesComeBySnapshot'
  BY <1>1, <1>5 DEF Reload, GatesComeBySnapshot
<1>6. ASSUME UNCHANGED <<snapshot, shown>> PROVE GatesComeBySnapshot'
  BY <1>6 DEF GatesComeBySnapshot
<1>7. QED
  BY <1>2, <1>3, <1>4, <1>5, <1>6 DEF GraphNext, Create, CreateUntold, ResolveElsewhere, Resolve, Connect,
    Deliver, Answered, Drop, PostFails, ReadNode, FetchFails, Decide, graphVars

LEMMA DecidedStep ==
  ASSUME GraphTypeOK, SoundTravel, GatesComeBySnapshot, [GraphNext]_graphVars,
         NEW p \in Pages, NEW g \in Gates, DecidedOn(p, g), snapshot'[p] # Asked
  PROVE  DecidedOn(p, g)'
<1>1. PICK k \in DOMAIN shown[p], d \in Decisions : shown[p][k] = [id |-> g, val |-> d]
  BY DEF DecidedOn, ShownAs
<1>2. snapshot \in [Pages -> SnapshotType] /\ shown \in [Pages -> Seq(ShownType)]
  BY DEF GraphTypeOK, SnapshotType, ShownType
<1>3. snapshot[p].at = "landed"
  BY <1>1 DEF GatesComeBySnapshot
<1>4. ASSUME shown'[p] = shown[p] PROVE DecidedOn(p, g)'
  BY <1>1, <1>4 DEF DecidedOn, ShownAs
<1>5. ASSUME NEW q \in Pages, NEW i \in Indices(q), FetchLands(q, i), q = p
      PROVE  DecidedOn(p, g)'
  <2> DEFINE f == fetches[p][i]
  <2>1. f \in SoundFetches /\ f \in Fetches /\ f.got # Unread /\ shown'[p] = Land(p, f)
    BY <1>5, LandsSound DEF SoundFetches
  <2>2. k \in DOMAIN shown'[p]
    BY <1>1, <2>1, LandFacts
  <2>3. CASE shown'[p][k] = shown[p][k]
    BY <1>1, <2>2, <2>3 DEF DecidedOn, ShownAs
  <2>4. CASE shown[p][k].id = f.id /\ shown'[p][k] = [id |-> f.id, val |-> f.got]
    <3>1. f.id = g /\ f.got \in Decisions
      BY <1>1, <2>1, <2>4 DEF SoundFetches
    <3>2. QED
      BY <2>2, <2>4, <3>1 DEF DecidedOn, ShownAs
  <2>5. QED
    BY <1>1, <2>1, <2>3, <2>4, LandFacts
<1>6. ASSUME NEW q \in Pages, NEW i \in Indices(q), FetchLands(q, i), q # p
      PROVE  DecidedOn(p, g)'
  BY <1>4, <1>6, LandsSound
<1>7. ASSUME NEW q \in Pages, Hydrate(q) PROVE DecidedOn(p, g)'
  <2>1. q # p
    BY <1>2, <1>3, <1>7 DEF Hydrate
  <2>2. QED
    BY <1>4, <1>7, <2>1, HydratedType
<1>8. ASSUME NEW q \in Pages, Reload(q) PROVE DecidedOn(p, g)'
  <2>1. snapshot' = [snapshot EXCEPT ![q] = Asked] /\ shown' = [shown EXCEPT ![q] = <<>>]
    BY <1>8 DEF Reload
  <2>2. q # p
    BY <1>2, <2>1
  <2>3. QED
    BY <1>2, <1>4, <2>1, <2>2
<1>9. QED
  BY <1>4, <1>5, <1>6, <1>7, <1>8 DEF GraphNext, Create, CreateUntold, ResolveElsewhere, Resolve, Connect,
    ReadState, Deliver, Answered, Drop, SnapshotFails, PostFails, ReadNode, FetchFails, Decide,
    graphVars

\* A page takes no decision back: only when it is loaded again does it show a gate item as
\* open again, whatever overtakes what.
THEOREM DecisionsAreKept == GraphSpec => DecidedStaysDecided
<1>1. GraphInit => SoundTravel /\ GatesComeBySnapshot
  BY DEF GraphInit, SoundTravel, GatesComeBySnapshot
<1>2. GraphTypeOK /\ SoundTravel /\ GatesComeBySnapshot /\ [GraphNext]_graphVars
        => [\A p \in Pages, g \in Gates :
              DecidedOn(p, g) => DecidedOn(p, g)' \/ snapshot'[p] = Asked]_graphVars
  BY DecidedStep
<1>3. QED
  BY <1>1, <1>2, TravelNext, SnapshotNext, GraphIsTyped, PTL DEF GraphSpec, DecidedStaysDecided

-------------------------------------------------------------------------------
(* A page that has missed nothing and has nothing under way is current.    *)

LEMMA TailFacts ==
  ASSUME NEW S, NEW s \in Seq(S), s # <<>>
  PROVE  /\ \A i \in DOMAIN s : s[i] = Head(s) \/ \E j \in DOMAIN Tail(s) : Tail(s)[j] = s[i]
         /\ \A j \in DOMAIN Tail(s) : \E i \in DOMAIN s : s[i] = Tail(s)[j]
<1>1. /\ Len(s) \in Nat /\ DOMAIN s = 1 .. Len(s) /\ DOMAIN Tail(s) = 1 .. Len(s) - 1
      /\ Head(s) = s[1] /\ \A j \in 1 .. Len(s) - 1 : Tail(s)[j] = s[j + 1]
  OBVIOUS
<1>2. ASSUME NEW i \in DOMAIN s, i # 1 PROVE \E j \in DOMAIN Tail(s) : Tail(s)[j] = s[i]
  <2>1. i - 1 \in 1 .. Len(s) - 1 /\ (i - 1) + 1 = i
    BY <1>1, <1>2
  <2>2. QED
    BY <1>1, <2>1
<1>3. ASSUME NEW j \in DOMAIN Tail(s) PROVE \E i \in DOMAIN s : s[i] = Tail(s)[j]
  <2>1. j + 1 \in DOMAIN s /\ s[j + 1] = Tail(s)[j]
    BY <1>1, <1>3
  <2>2. QED
    BY <2>1
<1>4. QED
  BY <1>1, <1>2, <1>3

LEMMA RemovedFacts ==
  ASSUME NEW S, NEW s \in Seq(S), NEW i \in DOMAIN s
  PROVE  /\ \A j \in DOMAIN s : j = i \/ \E k \in DOMAIN RemoveAt(s, i) : RemoveAt(s, i)[k] = s[j]
         /\ \A k \in DOMAIN RemoveAt(s, i) : \E j \in DOMAIN s : s[j] = RemoveAt(s, i)[k]
<1> DEFINE a == SubSeq(s, 1, i - 1)
           b == SubSeq(s, i + 1, Len(s))
<1>1. Len(s) \in Nat /\ DOMAIN s = 1 .. Len(s) /\ i \in 1 .. Len(s)
  OBVIOUS
<1>2. /\ a \in Seq(S) /\ Len(a) = i - 1 /\ \A k \in 1 .. i - 1 : a[k] = s[k]
      /\ b \in Seq(S) /\ Len(b) = Len(s) - i /\ \A k \in 1 .. Len(s) - i : b[k] = s[i + k]
  <2>1. \A k \in DOMAIN s : s[k] \in S
    OBVIOUS
  <2>2. /\ a \in Seq(S) /\ Len(a) = (IF 1 <= i - 1 THEN (i - 1) - 1 + 1 ELSE 0)
        /\ \A k \in 1 .. (i - 1) - 1 + 1 : a[k] = s[1 + k - 1]
    BY <1>1, <2>1, SubSeqProperties
  <2>3. /\ b \in Seq(S) /\ Len(b) = (IF i + 1 <= Len(s) THEN Len(s) - (i + 1) + 1 ELSE 0)
        /\ \A k \in 1 .. Len(s) - (i + 1) + 1 : b[k] = s[(i + 1) + k - 1]
    BY <1>1, <2>1, SubSeqProperties
  <2> HIDE DEF a, b
  <2>4. Len(a) = i - 1 /\ \A k \in 1 .. i - 1 : a[k] = s[k]
    BY <1>1, <2>2
  <2>5. Len(b) = Len(s) - i /\ \A k \in 1 .. Len(s) - i : b[k] = s[i + k]
    <3>1. Len(b) = Len(s) - i /\ Len(s) - (i + 1) + 1 = Len(s) - i
      BY <1>1, <2>3
    <3>2. ASSUME NEW k \in 1 .. Len(s) - i PROVE b[k] = s[i + k]
      <4>1. (i + 1) + k - 1 = i + k
        BY <1>1
      <4>2. b[k] = s[(i + 1) + k - 1]
        BY <2>3, <3>1
      <4>3. QED
        BY <4>1, <4>2
    <3>3. QED
      BY <3>1, <3>2
  <2>6. QED
    BY <2>2, <2>3, <2>4, <2>5
<1>3. RemoveAt(s, i) = a \o b
  BY DEF RemoveAt
<1> HIDE DEF a, b
<1>4. /\ DOMAIN RemoveAt(s, i) = 1 .. Len(s) - 1
      /\ \A k \in 1 .. Len(s) - 1 : RemoveAt(s, i)[k] = IF k < i THEN s[k] ELSE s[k + 1]
  <2>1. /\ DOMAIN (a \o b) = 1 .. Len(a) + Len(b)
        /\ \A k \in 1 .. Len(a) + Len(b) :
             (a \o b)[k] = IF k <= Len(a) THEN a[k] ELSE b[k - Len(a)]
    <3>1. /\ a \o b \in Seq(S) /\ Len(a \o b) = Len(a) + Len(b)
          /\ \A k \in 1 .. Len(a) + Len(b) :
               (a \o b)[k] = IF k <= Len(a) THEN a[k] ELSE b[k - Len(a)]
      BY <1>2, ConcatProperties, Zenon
    <3>2. QED
      BY <3>1, QueueFacts
  <2>2. ASSUME NEW k \in 1 .. Len(s) - 1
        PROVE  (a \o b)[k] = IF k < i THEN s[k] ELSE s[k + 1]
    <3>1. CASE k < i
      BY <1>1, <1>2, <2>1, <3>1
    <3>2. CASE ~(k < i)
      <4> DEFINE m == k - Len(a)
      <4>1. m \in 1 .. Len(s) - i /\ i + m = k + 1
        BY <1>1, <1>2, <3>2
      <4>2. (a \o b)[k] = b[m]
        <5>1. k \in 1 .. Len(a) + Len(b) /\ ~(k <= Len(a))
          BY <1>1, <1>2, <3>2
        <5>2. QED
          BY <2>1, <5>1
      <4> HIDE DEF m
      <4>3. b[m] = s[i + m]
        BY <1>2, <4>1
      <4>4. (a \o b)[k] = s[k + 1]
        BY <4>1, <4>2, <4>3
      <4>5. QED
        BY <3>2, <4>4
    <3>3. QED
      BY <3>1, <3>2
  <2>3. QED
    BY <1>1, <1>2, <1>3, <2>1, <2>2
<1>5. ASSUME NEW j \in DOMAIN s, j # i
      PROVE  \E k \in DOMAIN RemoveAt(s, i) : RemoveAt(s, i)[k] = s[j]
  <2>1. CASE j < i
    BY <1>1, <1>4, <2>1
  <2>2. CASE j > i
    <3>1. j - 1 \in 1 .. Len(s) - 1 /\ ~(j - 1 < i) /\ (j - 1) + 1 = j
      BY <1>1, <2>2
    <3>2. RemoveAt(s, i)[j - 1] = s[j]
      BY <1>4, <3>1
    <3>3. QED
      BY <1>4, <3>1, <3>2
  <2>3. QED
    BY <1>1, <1>5, <2>1, <2>2
<1>6. ASSUME NEW k \in DOMAIN RemoveAt(s, i)
      PROVE  \E j \in DOMAIN s : s[j] = RemoveAt(s, i)[k]
  <2>1. k \in DOMAIN s /\ k + 1 \in DOMAIN s
    BY <1>1, <1>4
  <2>2. QED
    BY <1>4, <2>1
<1>7. QED
  BY <1>5, <1>6

\* A snapshot lists every node there is.
LEMMA ListedAll ==
  ASSUME NEW S, IsFiniteSet(S), NEW x \in S
  PROVE  \E i \in DOMAIN SetToSeq(S) : SetToSeq(S)[i] = x
<1>1. Cardinality(S) \in Nat /\ ExistsBijection(1 .. Cardinality(S), S)
  BY FS_CardinalityType
<1>2. PICK f \in [1 .. Cardinality(S) -> S] : IsInjective(f)
  BY <1>1 DEF ExistsBijection, Bijection, Injection
<1>3. SetToSeq(S) \in [1 .. Cardinality(S) -> S] /\ IsInjective(SetToSeq(S))
  BY <1>2 DEF SetToSeq
<1>4. SetToSeq(S) \in Injection(1 .. Cardinality(S), S)
  BY <1>3 DEF Injection
<1>5. Cardinality(1 .. Cardinality(S)) = Cardinality(S)
  BY <1>1, FS_Interval
<1>6. SetToSeq(S) \in Surjection(1 .. Cardinality(S), S)
  BY <1>4, <1>5, FS_Injection
<1>7. QED
  BY <1>3, <1>6 DEF Surjection

\* Nodes other than gate items are stored and nothing more; a gate item is always there.
PlainNodes ==
  /\ \A n \in Items : node[n] \in {"absent", "stored"}
  /\ \A g \in Gates : node[g] # "absent"

\* A stream that is closed has nothing in its queue.
ClosedIsEmpty == \A p \in Pages \ open : stream[p] = <<>>

\* The page will still be told of n, or is fetching what n is now.
Told(p, n) == \E i \in DOMAIN stream[p] : stream[p][i].id = n
Fetched(p, n) ==
  \E i \in DOMAIN fetches[p] : fetches[p][i].id = n /\ fetches[p][i].got \in {Unread, node[n]}
Coming(p, n) == Told(p, n) \/ Fetched(p, n)

\* What the page has been answered and shows is of a plain state of the nodes.
PlainAnswers(p) ==
  /\ \A n \in Items : snapshot[p].of[n] \in {"absent", "stored"}
  /\ snapshot[p].at = "read" => \A g \in Gates : snapshot[p].of[g] # "absent"
  /\ \A i \in DOMAIN shown[p] : shown[p][i].id \in Items => shown[p][i].val = "stored"

\* A page that has missed nothing knows every gate item once its snapshot has landed, is
\* told again of what it fetched too early, and what its snapshot or its state does not
\* have of the nodes is on its way.
FreshFetches(p) ==
  \A i \in DOMAIN fetches[p] :
    fetches[p][i].got \in {Unread, node[fetches[p][i].id]} \/ Told(p, fetches[p][i].id)
SnapshotKeepsUp(p) ==
  snapshot[p].at = "read" =>
    \A n \in Nodes : node[n] # "absent" => snapshot[p].of[n] = node[n] \/ Coming(p, n)
PageKeepsUp(p) ==
  snapshot[p].at = "landed" =>
    /\ \A g \in Gates : Known(p, g)
    /\ \A n \in Nodes : node[n] # "absent" => ShownAs(p, n, node[n]) \/ Coming(p, n)
KeepsUp(p) == ~missed[p] => FreshFetches(p) /\ SnapshotKeepsUp(p) /\ PageKeepsUp(p)

GraphInv ==
  /\ GraphTypeOK /\ SoundTravel /\ PlainNodes /\ ClosedIsEmpty
  /\ \A p \in Pages : PlainAnswers(p) /\ KeepsUp(p)

LEMMA PlainNodesNext ==
  ASSUME GraphTypeOK, PlainNodes, GraphNext
  PROVE  PlainNodes'
<1>1. /\ \A g \in Gates : g \in Nodes /\ g \notin Items
      /\ \A n \in Items : n \in Nodes /\ n \notin Gates
      /\ "absent" \notin Decisions
  BY NodeSets DEF Decisions
<1>2. node \in [Nodes -> Values]
  BY DEF GraphTypeOK
<1>3. CASE \E n \in Items : Create(n) \/ CreateUntold(n)
  BY <1>1, <1>2, <1>3 DEF Create, CreateUntold, PlainNodes
<1>4. CASE \E g \in Gates, d \in Decisions : Settle(g, d)
  BY <1>1, <1>2, <1>4 DEF Settle, PlainNodes
<1>5. CASE UNCHANGED node
  BY <1>5 DEF PlainNodes
<1>6. CASE \E p \in Pages : Resolve(p)
  BY <1>4, <1>6, SentType DEF Resolve
<1>7. CASE \E g \in Gates, d \in Decisions : ResolveElsewhere(g, d)
  BY <1>4, <1>7 DEF ResolveElsewhere
<1>8. QED
  BY <1>3, <1>5, <1>6, <1>7, NodeMoves

LEMMA ClosedNext ==
  ASSUME GraphTypeOK, ClosedIsEmpty, GraphNext
  PROVE  ClosedIsEmpty'
<1>1. stream \in [Pages -> Seq(Events)] /\ open \subseteq Pages
  BY DEF GraphTypeOK
<1>2. ASSUME NEW kind, NEW n, Publish(kind, n), open' = open PROVE ClosedIsEmpty'
  BY <1>2 DEF Publish, ClosedIsEmpty
<1>3. ASSUME NEW p \in Pages, Deliver(p) PROVE ClosedIsEmpty'
  <2>1. p \in open
    BY <1>3 DEF Deliver, ClosedIsEmpty
  <2>2. stream' = [stream EXCEPT ![p] = Tail(stream[p])] /\ open' = open
    BY <1>3 DEF Deliver
  <2>3. QED
    BY <1>1, <2>1, <2>2 DEF ClosedIsEmpty
<1>4. ASSUME NEW p \in Pages, Drop(p) \/ Reload(p) PROVE ClosedIsEmpty'
  BY <1>1, <1>4 DEF Drop, Reload, ClosedIsEmpty
<1>5. ASSUME NEW p \in Pages, Connect(p) PROVE ClosedIsEmpty'
  BY <1>5 DEF Connect, ClosedIsEmpty
<1>6. ASSUME UNCHANGED <<stream, open>> PROVE ClosedIsEmpty'
  BY <1>6 DEF ClosedIsEmpty
<1>7. \/ \E kind, n : Publish(kind, n) /\ open' = open
      \/ \E p \in Pages : Deliver(p) \/ Drop(p) \/ Reload(p) \/ Connect(p)
      \/ UNCHANGED <<stream, open>>
  <2>1. ASSUME NEW n, Create(n) \/ (\E d : ResolveElsewhere(n, d)) \/ Resolve(n)
        PROVE  \E kind, m : Publish(kind, m) /\ open' = open
    BY <2>1 DEF Create, ResolveElsewhere, Resolve, Settle
  <2>4. \A n \in Items : CreateUntold(n) => UNCHANGED <<stream, open>>
    BY DEF CreateUntold
  <2>2. ASSUME NEW p \in Pages
        PROVE  /\ ReadState(p) \/ Hydrate(p) \/ Answered(p) \/ SnapshotFails(p) \/ PostFails(p)
                    => UNCHANGED <<stream, open>>
               /\ \A i \in Indices(p) : ReadNode(p, i) \/ FetchLands(p, i) \/ FetchFails(p, i)
                    => UNCHANGED <<stream, open>>
               /\ \A i \in DOMAIN shown[p], d \in Decisions :
                    Decide(p, i, d) => UNCHANGED <<stream, open>>
    BY DEF ReadState, Hydrate, Answered, SnapshotFails, PostFails, ReadNode, FetchLands,
      FetchFails, Decide
  <2>3. QED
    BY <2>1, <2>2, <2>4, Zenon DEF GraphNext
<1>8. QED
  BY <1>2, <1>3, <1>4, <1>5, <1>6, <1>7

\* A page that nothing happens to.
LEMMA SamePage ==
  ASSUME NEW p \in Pages, UNCHANGED node, stream'[p] = stream[p], snapshot'[p] = snapshot[p],
         fetches'[p] = fetches[p], shown'[p] = shown[p], missed'[p] = missed[p],
         PlainAnswers(p), KeepsUp(p)
  PROVE  PlainAnswers(p)' /\ KeepsUp(p)'
<1>1. \A n : Coming(p, n)' <=> Coming(p, n)
  BY DEF Coming, Told, Fetched
<1>2. \A n : Told(p, n)' <=> Told(p, n)
  BY DEF Told
<1>3. \A n : /\ Known(p, n)' <=> Known(p, n)
             /\ ShownAs(p, n, node[n])' <=> ShownAs(p, n, node[n])
  BY DEF Known, ShownAs
<1>4. QED
  BY <1>1, <1>2, <1>3 DEF PlainAnswers, KeepsUp, FreshFetches, SnapshotKeepsUp, PageKeepsUp

\* A node changes and the open streams are told.
LEMMA PublishKeepsUp ==
  ASSUME GraphTypeOK, ClosedIsEmpty, NEW p \in Pages, PlainAnswers(p), KeepsUp(p),
         NEW kind \in {"node_created", "node_updated"}, NEW n \in Nodes, NEW v,
         node' = [node EXCEPT ![n] = v], Publish(kind, n), UNCHANGED <<snapshot, fetches, shown>>
  PROVE  PlainAnswers(p)' /\ KeepsUp(p)'
<1>1. PlainAnswers(p)'
  BY DEF PlainAnswers
<1>2. /\ \A m \in Nodes \ {n} : node'[m] = node[m]
      /\ \A i \in DOMAIN fetches[p] : fetches[p][i].id \in Nodes
  BY GraphTypes DEF Fetches
<1> SUFFICES ASSUME ~missed'[p]
             PROVE  FreshFetches(p)' /\ SnapshotKeepsUp(p)' /\ PageKeepsUp(p)'
  BY <1>1 DEF KeepsUp
<1>3. /\ ~missed[p] /\ (p \in open \/ ~LossMatters(p, {n}))
      /\ FreshFetches(p) /\ SnapshotKeepsUp(p) /\ PageKeepsUp(p)
  BY DEF Publish, KeepsUp
<1>4. CASE p \in open
  <2> DEFINE e == [kind |-> kind, id |-> n]
  <2>1. stream'[p] = Append(stream[p], e) /\ e \in Events /\ e.id = n
    BY <1>4 DEF Publish, Events
  <2> HIDE DEF e
  <2>2. /\ DOMAIN stream'[p] = 1 .. Len(stream[p]) + 1 /\ Len(stream[p]) \in Nat
        /\ stream'[p][Len(stream[p]) + 1].id = n
        /\ \A i \in DOMAIN stream[p] : i \in DOMAIN stream'[p] /\ stream'[p][i] = stream[p][i]
    BY <2>1, GraphTypes, QueueFacts
  <2>3. Told(p, n)' /\ \A m : Told(p, m) => Told(p, m)'
    BY <2>2 DEF Told
  <2>4. \A m \in Nodes : Coming(p, m) => Coming(p, m)'
    BY <1>2, <2>3 DEF Coming, Fetched
  <2>5. FreshFetches(p)'
    BY <1>2, <1>3, <2>3 DEF FreshFetches
  <2>6. SnapshotKeepsUp(p)'
    BY <1>2, <1>3, <2>3, <2>4 DEF SnapshotKeepsUp, Coming
  <2>7. PageKeepsUp(p)'
    BY <1>2, <1>3, <2>3, <2>4 DEF PageKeepsUp, Coming, ShownAs, Known
  <2>8. QED
    BY <2>5, <2>6, <2>7
<1>5. CASE p \notin open
  <2>1. snapshot[p].at = "asked" /\ \A i \in DOMAIN fetches[p] : fetches[p][i].id # n
    BY <1>3, <1>5 DEF LossMatters, Fetching
  <2>2. stream'[p] = stream[p]
    BY <1>5 DEF Publish, ClosedIsEmpty
  <2>3. FreshFetches(p)'
    BY <1>2, <1>3, <2>1, <2>2 DEF FreshFetches, Told
  <2>4. QED
    BY <2>1, <2>3 DEF SnapshotKeepsUp, PageKeepsUp
<1>6. QED
  BY <1>4, <1>5

\* A node is stored and nobody is told: only pages that have still to read their snapshot
\* have not missed it.
LEMMA UntoldKeepsUp ==
  ASSUME GraphTypeOK, NEW p \in Pages, PlainAnswers(p), KeepsUp(p), NEW n \in Items,
         CreateUntold(n)
  PROVE  PlainAnswers(p)' /\ KeepsUp(p)'
<1>1. /\ node' = [node EXCEPT ![n] = "stored"]
      /\ UNCHANGED <<stream, snapshot, fetches, shown>>
      /\ ~missed'[p] => ~missed[p] /\ ~LossMatters(p, {n})
  BY DEF CreateUntold
<1>2. /\ \A m \in Nodes \ {n} : node'[m] = node[m]
      /\ \A i \in DOMAIN fetches[p] : fetches[p][i].id \in Nodes
  BY <1>1, GraphTypes DEF Fetches
<1>3. PlainAnswers(p)'
  BY <1>1 DEF PlainAnswers
<1>4. ASSUME ~missed'[p] PROVE FreshFetches(p)' /\ SnapshotKeepsUp(p)' /\ PageKeepsUp(p)'
  <2>1. /\ FreshFetches(p) /\ snapshot[p].at = "asked"
        /\ \A i \in DOMAIN fetches[p] : fetches[p][i].id # n
    BY <1>1, <1>4 DEF KeepsUp, LossMatters, Fetching
  <2>2. FreshFetches(p)'
    BY <1>1, <1>2, <2>1 DEF FreshFetches, Told
  <2>3. QED
    BY <1>1, <2>1, <2>2 DEF SnapshotKeepsUp, PageKeepsUp
<1>5. QED
  BY <1>3, <1>4 DEF KeepsUp

\* The snapshot is of the nodes as they are when it is read.
LEMMA ReadStateKeepsUp ==
  ASSUME GraphTypeOK, PlainNodes, NEW p \in Pages, PlainAnswers(p), KeepsUp(p), ReadState(p)
  PROVE  PlainAnswers(p)' /\ KeepsUp(p)'
<1>1. /\ snapshot'[p] = [at |-> "read", of |-> node]
      /\ UNCHANGED <<node, stream, fetches, shown, missed>>
  BY DEF ReadState, GraphTypeOK
<1>2. snapshot'[p].at = "read" /\ snapshot'[p].of = node
  BY <1>1
<1>3. PlainAnswers(p)'
  BY <1>1, <1>2 DEF PlainAnswers, PlainNodes
<1>4. FreshFetches(p) => FreshFetches(p)'
  BY <1>1 DEF FreshFetches, Told
<1>5. SnapshotKeepsUp(p)' /\ PageKeepsUp(p)'
  BY <1>1, <1>2 DEF SnapshotKeepsUp, PageKeepsUp
<1>6. QED
  BY <1>1, <1>3, <1>4, <1>5 DEF KeepsUp

\* A fetch is answered with the node as it is.
LEMMA ReadNodeKeepsUp ==
  ASSUME GraphTypeOK, NEW p \in Pages, PlainAnswers(p), KeepsUp(p),
         NEW i \in Indices(p), ReadNode(p, i)
  PROVE  PlainAnswers(p)' /\ KeepsUp(p)'
<1>1. UNCHANGED <<node, stream, snapshot, shown, missed>>
  BY DEF ReadNode
<1>2. /\ i \in DOMAIN fetches[p] /\ fetches[p][i] \in Fetches /\ fetches[p] \in Seq(Fetches)
      /\ fetches' = [fetches EXCEPT ![p][i].got = node[fetches[p][i].id]]
      /\ fetches \in [Pages -> Seq(Fetches)]
  BY GraphTypes DEF ReadNode, Indices, GraphTypeOK
<1>3. /\ DOMAIN fetches'[p] = DOMAIN fetches[p]
      /\ \A j \in DOMAIN fetches[p] : fetches'[p][j].id = fetches[p][j].id
      /\ \A j \in DOMAIN fetches[p] : j # i => fetches'[p][j].got = fetches[p][j].got
      /\ fetches'[p][i].got = node[fetches[p][i].id]
  <2>1. fetches'[p] = [fetches[p] EXCEPT ![i].got = node[fetches[p][i].id]]
    BY <1>2
  <2>2. fetches'[p][i] = [fetches[p][i] EXCEPT !.got = node[fetches[p][i].id]]
    BY <1>2, <2>1
  <2>3. \A j \in DOMAIN fetches[p] : j # i => fetches'[p][j] = fetches[p][j]
    BY <1>2, <2>1
  <2>4. fetches'[p][i].id = fetches[p][i].id /\ fetches'[p][i].got = node[fetches[p][i].id]
    BY <1>2, <2>2 DEF Fetches
  <2>5. QED
    BY <2>1, <2>3, <2>4
<1>4. \A n : Told(p, n)' <=> Told(p, n)
  BY <1>1 DEF Told
<1>5. \A n : Coming(p, n) => Coming(p, n)'
  BY <1>1, <1>3, <1>4 DEF Coming, Fetched
<1>6. PlainAnswers(p)'
  BY <1>1 DEF PlainAnswers
<1>7. FreshFetches(p) => FreshFetches(p)'
  BY <1>1, <1>3, <1>4 DEF FreshFetches
<1>8. SnapshotKeepsUp(p) => SnapshotKeepsUp(p)'
  BY <1>1, <1>5 DEF SnapshotKeepsUp
<1>9. PageKeepsUp(p) => PageKeepsUp(p)'
  BY <1>1, <1>5 DEF PageKeepsUp, ShownAs, Known
<1>10. QED
  BY <1>1, <1>6, <1>7, <1>8, <1>9 DEF KeepsUp

\* The page hears of a node it is not fetching, and fetches it.
LEMMA DeliverKeepsUp ==
  ASSUME GraphTypeOK, NEW p \in Pages, PlainAnswers(p), KeepsUp(p), Deliver(p)
  PROVE  PlainAnswers(p)' /\ KeepsUp(p)'
<1>1. PICK e \in Events : e = Head(stream[p])
  BY GraphTypes, QueueFacts DEF Deliver
<1> DEFINE f == [kind |-> e.kind, id |-> e.id, got |-> Unread]
<1>2. /\ stream[p] # <<>> /\ UNCHANGED <<node, snapshot, shown>>
      /\ fetches'[p] = Append(fetches[p], f) /\ stream'[p] = Tail(stream[p])
      /\ missed'[p] = (missed[p] \/ Fetching(p, e.id))
  <2>1. /\ stream[p] # <<>> /\ UNCHANGED <<node, snapshot, shown>>
        /\ fetches' = [fetches EXCEPT ![p] = Append(fetches[p], f)]
        /\ stream' = [stream EXCEPT ![p] = Tail(stream[p])]
        /\ missed' = [missed EXCEPT ![p] = missed[p] \/ Fetching(p, e.id)]
    BY <1>1, Zenon DEF Deliver
  <2>2. QED
    BY <2>1, Zenon DEF GraphTypeOK
<1>3. fetches[p] \in Seq(Fetches) /\ stream[p] \in Seq(Events)
  BY GraphTypes
<1>4. f \in Fetches /\ f.id = e.id /\ f.got = Unread
  BY DEF Events, Fetches
<1> HIDE DEF f
<1>5. /\ DOMAIN fetches'[p] = 1 .. Len(fetches[p]) + 1 /\ Len(fetches[p]) \in Nat
      /\ DOMAIN fetches[p] = 1 .. Len(fetches[p])
      /\ fetches'[p][Len(fetches[p]) + 1] = f
      /\ \A i \in DOMAIN fetches[p] : i \in DOMAIN fetches'[p] /\ fetches'[p][i] = fetches[p][i]
  BY <1>2, <1>3, <1>4, QueueFacts
<1>6. \A n : Told(p, n) => Told(p, n)' \/ n = e.id
  BY <1>1, <1>2, <1>3, TailFacts DEF Told
<1>7. \A n : Fetched(p, n) => Fetched(p, n)'
  BY <1>2, <1>5 DEF Fetched
<1>8. Fetched(p, e.id)'
  BY <1>4, <1>5 DEF Fetched
<1>9. \A n : Coming(p, n) => Coming(p, n)'
  BY <1>6, <1>7, <1>8 DEF Coming
<1>10. PlainAnswers(p)'
  BY <1>2 DEF PlainAnswers
<1>11. SnapshotKeepsUp(p) => SnapshotKeepsUp(p)'
  BY <1>2, <1>9 DEF SnapshotKeepsUp
<1>12. PageKeepsUp(p) => PageKeepsUp(p)'
  BY <1>2, <1>9 DEF PageKeepsUp, ShownAs, Known
<1>13. ASSUME FreshFetches(p), ~Fetching(p, e.id) PROVE FreshFetches(p)'
  <2>1. ASSUME NEW i \in DOMAIN fetches'[p]
        PROVE  (fetches[p][i].got \in {Unread, node[fetches[p][i].id]}
                  \/ Told(p, fetches[p][i].id))'
    <3>1. CASE i \in DOMAIN fetches[p]
      <4>1. fetches'[p][i] = fetches[p][i] /\ fetches[p][i].id # e.id
        BY <1>5, <1>13, <3>1 DEF Fetching
      <4>2. Told(p, fetches[p][i].id) => Told(p, fetches[p][i].id)'
        BY <1>6, <4>1 DEF Told
      <4>3. QED
        BY <1>2, <1>13, <3>1, <4>1, <4>2 DEF FreshFetches
    <3>2. CASE i = Len(fetches[p]) + 1
      BY <1>4, <1>5, <3>2
    <3>3. QED
      BY <1>5, <3>1, <3>2
  <2>2. QED
    BY <2>1 DEF FreshFetches
<1>14. QED
  BY <1>2, <1>10, <1>11, <1>12, <1>13 DEF KeepsUp

\* What a page shows once a fetch has landed.
LEMMA LandShows ==
  ASSUME GraphTypeOK, NEW p \in Pages, NEW f \in Fetches, shown'[p] = Land(p, f)
  PROVE  /\ \A n, v : ShownAs(p, n, v) /\ (n # f.id \/ f.kind = "node_created")
                        => ShownAs(p, n, v)'
         /\ Known(p, f.id) /\ f.kind = "node_updated" => ShownAs(p, f.id, f.got)'
         /\ ~Known(p, f.id) /\ f.kind = "node_created" => ShownAs(p, f.id, f.got)'
         /\ \A n : Known(p, n) => Known(p, n)'
<1> DEFINE new == [id |-> f.id, val |-> f.got]
           L == Land(p, f)
<1>1. \A k \in DOMAIN shown[p] : /\ k \in DOMAIN L
                                 /\ \/ L[k] = shown[p][k]
                                    \/ /\ f.kind = "node_updated" /\ shown[p][k].id = f.id
                                       /\ L[k] = new
  BY LandFacts
<1>2. new.id = f.id
  OBVIOUS
<1>3. ASSUME NEW n, NEW v, ShownAs(p, n, v), n # f.id \/ f.kind = "node_created"
      PROVE  \E k \in DOMAIN L : L[k] = [id |-> n, val |-> v]
  <2>1. PICK k \in DOMAIN shown[p] : shown[p][k] = [id |-> n, val |-> v]
    BY <1>3 DEF ShownAs
  <2>2. shown[p][k].id = n
    BY <2>1
  <2> HIDE DEF L, new
  <2>3. QED
    BY <1>1, <1>3, <2>1, <2>2
<1>4. ASSUME Known(p, f.id), f.kind = "node_updated" PROVE \E k \in DOMAIN L : L[k] = new
  <2>1. PICK k \in DOMAIN shown[p] : shown[p][k].id = f.id
    BY <1>4 DEF Known
  <2>2. L = [i \in DOMAIN shown[p] |-> IF shown[p][i].id = f.id THEN new ELSE shown[p][i]]
    BY <1>4 DEF Land
  <2> HIDE DEF L, new
  <2>3. k \in DOMAIN L /\ L[k] = new
    BY <2>1, <2>2
  <2>4. QED
    BY <2>3
<1>5. ASSUME ~Known(p, f.id), f.kind = "node_created" PROVE \E k \in DOMAIN L : L[k] = new
  <2>1. L = Append(shown[p], new)
    BY <1>5 DEF Land
  <2>2. shown[p] \in Seq(ShownType \cup {new}) /\ new \in ShownType \cup {new}
    BY GraphTypes, SubsetSeq
  <2> HIDE DEF L, new
  <2>3. Len(shown[p]) + 1 \in DOMAIN L /\ L[Len(shown[p]) + 1] = new
    BY <2>1, <2>2, QueueFacts
  <2>4. QED
    BY <2>3
<1>6. ASSUME NEW n, Known(p, n) PROVE \E k \in DOMAIN L : L[k].id = n
  <2>1. PICK k \in DOMAIN shown[p] : shown[p][k].id = n
    BY <1>6 DEF Known
  <2> HIDE DEF L, new
  <2>2. k \in DOMAIN L /\ L[k].id = n
    BY <1>1, <1>2, <2>1
  <2>3. QED
    BY <2>2
<1> HIDE DEF L
<1>7. shown'[p] = L
  BY DEF L
<1>8. QED
  BY <1>3, <1>4, <1>5, <1>6, <1>7 DEF ShownAs, Known

\* A fetch lands: what is lost with it was too old, and the page is told again.
LEMMA FetchLandsKeepsUp ==
  ASSUME GraphTypeOK, SoundTravel, NEW p \in Pages, PlainAnswers(p), KeepsUp(p),
         NEW i \in Indices(p), FetchLands(p, i)
  PROVE  PlainAnswers(p)' /\ KeepsUp(p)'
<1>1. PICK f \in SoundFetches : f = fetches[p][i]
  BY LandsSound
<1>2. f \in Fetches /\ f.got # Unread /\ f.id \in Nodes
  BY <1>1, LandsSound DEF SoundFetches, Fetches
<1>3. /\ UNCHANGED <<node, stream, snapshot>>
      /\ shown'[p] = Land(p, f) /\ fetches'[p] = RemoveAt(fetches[p], i)
      /\ ~missed'[p] => ~missed[p] /\ (snapshot[p].at = "read" => snapshot[p].of[f.id] = f.got)
  BY <1>1 DEF FetchLands, GraphTypeOK
<1>4. fetches[p] \in Seq(Fetches) /\ i \in DOMAIN fetches[p]
  BY GraphTypes DEF Indices
<1>5. /\ \A j \in DOMAIN fetches[p] :
           j = i \/ \E k \in DOMAIN fetches'[p] : fetches'[p][k] = fetches[p][j]
      /\ \A k \in DOMAIN fetches'[p] : \E j \in DOMAIN fetches[p] : fetches[p][j] = fetches'[p][k]
  BY <1>3, <1>4, RemovedFacts
<1>6. \A n : Told(p, n)' <=> Told(p, n)
  BY <1>3 DEF Told
<1>7. \A n : Fetched(p, n) => Fetched(p, n)' \/ (n = f.id /\ f.got = node[n])
  BY <1>1, <1>2, <1>3, <1>5 DEF Fetched
<1>8. FreshFetches(p) => FreshFetches(p)' /\ (f.got = node[f.id] \/ Told(p, f.id))
  <2>1. FreshFetches(p) => (f.got = node[f.id] \/ Told(p, f.id))
    BY <1>1, <1>2, <1>4 DEF FreshFetches
  <2>2. ASSUME FreshFetches(p), NEW k \in DOMAIN fetches'[p]
        PROVE  (fetches[p][k].got \in {Unread, node[fetches[p][k].id]}
                  \/ Told(p, fetches[p][k].id))'
    <3>1. PICK j \in DOMAIN fetches[p] : fetches[p][j] = fetches'[p][k]
      BY <1>5
    <3>2. \/ fetches[p][j].got \in {Unread, node[fetches[p][j].id]}
          \/ Told(p, fetches[p][j].id)
      BY <2>2 DEF FreshFetches
    <3>3. QED
      BY <1>3, <3>1, <3>2 DEF Told
  <2>3. QED
    BY <2>1, <2>2 DEF FreshFetches
<1>9. PlainAnswers(p)'
  <2>1. /\ \A k \in DOMAIN shown[p] :
             \/ Land(p, f)[k] = shown[p][k]
             \/ Land(p, f)[k] = [id |-> f.id, val |-> f.got]
        /\ \A k \in DOMAIN Land(p, f) : k \notin DOMAIN shown[p] =>
             Land(p, f)[k] = [id |-> f.id, val |-> f.got]
    <3>1. f \in Fetches
      BY <1>2
    <3>2. QED
      BY <3>1, LandFacts, ZenonT(30)
  <2>2. f.id \in Items => f.got = "stored"
    BY <1>2 DEF SoundFetches
  <2>3. ASSUME NEW k \in DOMAIN shown'[p], shown'[p][k].id \in Items
        PROVE  shown'[p][k].val = "stored"
    <3>1. \/ k \in DOMAIN shown[p] /\ shown'[p][k] = shown[p][k]
          \/ shown'[p][k] = [id |-> f.id, val |-> f.got]
      BY <1>3, <2>1, <2>3
    <3>2. QED
      BY <2>2, <2>3, <3>1 DEF PlainAnswers
  <2>4. QED
    BY <1>3, <2>3 DEF PlainAnswers
<1>10. FreshFetches(p) /\ SnapshotKeepsUp(p) /\ ~missed'[p] => SnapshotKeepsUp(p)'
  BY <1>3, <1>6, <1>7 DEF SnapshotKeepsUp, Coming
<1>11. ASSUME FreshFetches(p), PageKeepsUp(p) PROVE PageKeepsUp(p)'
  <2> SUFFICES ASSUME snapshot[p].at = "landed"
               PROVE  /\ \A g \in Gates : Known(p, g)'
                      /\ \A n \in Nodes :
                           node[n] # "absent" => ShownAs(p, n, node[n])' \/ Coming(p, n)'
    BY <1>3 DEF PageKeepsUp
  <2>1. \A n : Known(p, n) => Known(p, n)'
    BY <1>2, <1>3, LandShows, Zenon
  <2>2. /\ \A n, v : ShownAs(p, n, v) /\ (n # f.id \/ f.kind = "node_created") => ShownAs(p, n, v)'
        /\ Known(p, f.id) /\ f.kind = "node_updated" => ShownAs(p, f.id, f.got)'
        /\ ~Known(p, f.id) /\ f.kind = "node_created" => ShownAs(p, f.id, f.got)'
    BY <1>2, <1>3, LandShows, Zenon
  <2>3. /\ \A g \in Gates : Known(p, g)
        /\ \A n \in Nodes : node[n] # "absent" => ShownAs(p, n, node[n]) \/ Coming(p, n)
    BY <1>11 DEF PageKeepsUp
  <2>4. /\ f.kind = "node_updated" => f.id \in Gates
        /\ f.kind # "node_updated" => f.id \in Items /\ node[f.id] = "stored"
        /\ f.kind = "node_updated" \/ f.kind = "node_created"
    BY <1>2, NodeSets DEF SoundFetches, Fetches
  <2>5. f.kind = "node_updated" => ShownAs(p, f.id, f.got)'
    BY <2>2, <2>3, <2>4
  <2>6. f.kind = "node_created" => ShownAs(p, f.id, f.got)' \/ ShownAs(p, f.id, node[f.id])'
    <3>1. CASE f.kind = "node_created" /\ ~Known(p, f.id)
      BY <2>2, <3>1
    <3>2. CASE f.kind = "node_created" /\ Known(p, f.id)
      <4>1. PICK k \in DOMAIN shown[p] : shown[p][k].id = f.id
        BY <3>2 DEF Known
      <4>2. shown[p][k] \in ShownType /\ shown[p][k].val = "stored" /\ node[f.id] = "stored"
        BY <2>4, <3>2, <4>1, GraphTypes DEF PlainAnswers
      <4>3. shown[p][k] = [id |-> f.id, val |-> node[f.id]]
        BY <4>1, <4>2 DEF ShownType
      <4>4. ShownAs(p, f.id, node[f.id])
        BY <4>3 DEF ShownAs
      <4>5. QED
        BY <1>3, <2>2, <3>2, <4>4
    <3>3. QED
      BY <3>1, <3>2
  <2>7. ASSUME NEW n \in Nodes, node[n] # "absent" PROVE ShownAs(p, n, node[n])' \/ Coming(p, n)'
    <3>1. CASE n = f.id
      <4>1. f.got = node[n] \/ Told(p, n)'
        BY <1>6, <1>8, <1>11, <3>1
      <4>2. ShownAs(p, n, f.got)' \/ ShownAs(p, n, node[n])'
        BY <2>4, <2>5, <2>6, <3>1
      <4>3. f.got = node[n] => (ShownAs(p, n, f.got)' => ShownAs(p, n, node[n])')
        BY <1>3 DEF ShownAs
      <4>4. QED
        BY <4>1, <4>2, <4>3 DEF Coming
    <3>2. CASE n # f.id
      <4>1. ShownAs(p, n, node[n]) => ShownAs(p, n, node[n])'
        BY <1>3, <2>2, <3>2
      <4>2. Coming(p, n) => Coming(p, n)'
        BY <1>6, <1>7, <3>2 DEF Coming
      <4>3. QED
        BY <2>3, <2>7, <4>1, <4>2
    <3>3. QED
      BY <3>1, <3>2
  <2>8. QED
    BY <2>1, <2>3, <2>7
<1>12. QED
  BY <1>3, <1>8, <1>9, <1>10, <1>11 DEF KeepsUp

\* What a page shows once its snapshot has landed.
LEMMA HydratedShows ==
  ASSUME GraphTypeOK, NEW p \in Pages, Hydrate(p), NEW of, of = snapshot[p].of
  PROVE  /\ \A n \in Nodes : of[n] # "absent" => ShownAs(p, n, of[n])'
         /\ \A i \in DOMAIN shown'[p] :
              \E n \in Nodes : of[n] # "absent" /\ shown'[p][i] = [id |-> n, val |-> of[n]]
<1> DEFINE S == {n \in Nodes : of[n] # "absent"}
           s == SetToSeq(S)
           F == [i \in DOMAIN s |-> [id |-> s[i], val |-> of[s[i]]]]
<1>1. IsFiniteSet(S)
  BY NodeSets, FS_Subset
<1>2. s \in Seq(S) /\ \A n \in S : \E i \in DOMAIN s : s[i] = n
  BY <1>1, ListedOnce, ListedAll
<1>3. shown'[p] = F
  BY DEF Hydrate, GraphTypeOK
<1> HIDE DEF s
<1>4. \A i \in DOMAIN s : s[i] \in S
  <2> HIDE DEF S
  <2>1. QED
    BY <1>2, QueueFacts
<1>5. ASSUME NEW n \in Nodes, of[n] # "absent"
      PROVE  \E i \in DOMAIN F : F[i] = [id |-> n, val |-> of[n]]
  BY <1>2, <1>5
<1>6. ASSUME NEW i \in DOMAIN F
      PROVE  \E n \in Nodes : of[n] # "absent" /\ F[i] = [id |-> n, val |-> of[n]]
  BY <1>4, <1>6
<1> HIDE DEF F
<1>7. QED
  BY <1>3, <1>5, <1>6 DEF ShownAs

\* The snapshot lands: what it has not is on its way.
LEMMA HydrateKeepsUp ==
  ASSUME GraphTypeOK, NEW p \in Pages, PlainAnswers(p), KeepsUp(p), Hydrate(p)
  PROVE  PlainAnswers(p)' /\ KeepsUp(p)'
<1>0. PICK of : of = snapshot[p].of
  OBVIOUS
<1>1. /\ snapshot[p].at = "read" /\ UNCHANGED <<node, stream, fetches, missed>>
      /\ snapshot'[p] = [Asked EXCEPT !.at = "landed"]
  BY DEF Hydrate, GraphTypeOK
<1>2. snapshot'[p].at = "landed" /\ \A n \in Nodes : snapshot'[p].of[n] = "absent"
  BY <1>1 DEF Asked
<1>3. PlainAnswers(p)'
  <2>1. ASSUME NEW i \in DOMAIN shown'[p], shown'[p][i].id \in Items
        PROVE  shown'[p][i].val = "stored"
    <3>1. PICK n \in Nodes : of[n] # "absent" /\ shown'[p][i] = [id |-> n, val |-> of[n]]
      BY <1>0, HydratedShows
    <3>2. n \in Items /\ shown'[p][i].val = of[n]
      BY <2>1, <3>1
    <3>3. QED
      BY <1>0, <3>1, <3>2 DEF PlainAnswers
  <2>2. QED
    BY <1>2, <2>1, NodeSets DEF PlainAnswers
<1>4. FreshFetches(p) => FreshFetches(p)'
  BY <1>1 DEF FreshFetches, Told
<1>5. SnapshotKeepsUp(p)'
  BY <1>2 DEF SnapshotKeepsUp
<1>6. ASSUME SnapshotKeepsUp(p) PROVE PageKeepsUp(p)'
  <2>1. ASSUME NEW g \in Gates PROVE Known(p, g)'
    <3>1. g \in Nodes /\ of[g] # "absent"
      BY <1>0, <1>1, NodeSets DEF PlainAnswers
    <3>2. ShownAs(p, g, of[g])'
      BY <1>0, <3>1, HydratedShows
    <3>3. QED
      BY <3>2 DEF ShownAs, Known
  <2>2. ASSUME NEW n \in Nodes, node[n] # "absent"
        PROVE  (ShownAs(p, n, node[n]) \/ Coming(p, n))'
    <3>1. of[n] = node[n] \/ Coming(p, n)
      BY <1>0, <1>1, <1>6, <2>2 DEF SnapshotKeepsUp
    <3>2. Coming(p, n) => Coming(p, n)'
      BY <1>1 DEF Coming, Told, Fetched
    <3>3. ASSUME of[n] = node[n] PROVE ShownAs(p, n, node[n])'
      <4>1. ShownAs(p, n, of[n])'
        BY <1>0, <2>2, <3>3, HydratedShows
      <4>2. QED
        BY <1>1, <3>3, <4>1 DEF ShownAs
    <3>4. QED
      BY <3>1, <3>2, <3>3
  <2>3. QED
    BY <1>1, <2>1, <2>2 DEF PageKeepsUp
<1>7. QED
  BY <1>1, <1>3, <1>4, <1>5, <1>6 DEF KeepsUp

\* The stream breaks: what its queue held and nothing makes good, the page has missed.
LEMMA DropKeepsUp ==
  ASSUME GraphTypeOK, NEW p \in Pages, PlainAnswers(p), KeepsUp(p), Drop(p)
  PROVE  PlainAnswers(p)' /\ KeepsUp(p)'
<1>1. /\ UNCHANGED <<node, snapshot, fetches, shown>> /\ stream'[p] = <<>>
      /\ ~missed'[p] =>
           /\ ~missed[p]
           /\ \A n : Told(p, n) => snapshot[p].at = "asked" /\ ~Fetching(p, n)
  <2>1. /\ UNCHANGED <<node, snapshot, fetches, shown>> /\ stream'[p] = <<>>
        /\ missed'[p] =
             (missed[p] \/ LossMatters(p, {stream[p][i].id : i \in DOMAIN stream[p]}))
    BY DEF Drop, GraphTypeOK
  <2>2. \A n : Told(p, n) => n \in {stream[p][i].id : i \in DOMAIN stream[p]}
    BY DEF Told
  <2>3. QED
    BY <2>1, <2>2 DEF LossMatters
<1>2. PlainAnswers(p)'
  BY <1>1 DEF PlainAnswers
<1>3. ASSUME ~missed'[p] PROVE FreshFetches(p)'
  <2>1. FreshFetches(p) /\ \A i \in DOMAIN fetches[p] : ~Told(p, fetches[p][i].id)
    BY <1>1, <1>3 DEF KeepsUp, Fetching
  <2>2. QED
    BY <1>1, <2>1 DEF FreshFetches
<1>4. ASSUME ~missed'[p] PROVE SnapshotKeepsUp(p)' /\ PageKeepsUp(p)'
  <2>1. CASE snapshot[p].at = "asked"
    BY <1>1, <2>1 DEF SnapshotKeepsUp, PageKeepsUp
  <2>2. CASE snapshot[p].at # "asked"
    <3>1. SnapshotKeepsUp(p) /\ PageKeepsUp(p) /\ \A n : ~Told(p, n)
      BY <1>1, <1>4, <2>2 DEF KeepsUp
    <3>2. \A n : Coming(p, n) => Coming(p, n)'
      BY <1>1, <3>1 DEF Coming, Fetched
    <3>3. SnapshotKeepsUp(p)'
      BY <1>1, <3>1, <3>2 DEF SnapshotKeepsUp
    <3>4. PageKeepsUp(p)'
      BY <1>1, <3>1, <3>2 DEF PageKeepsUp, Known, ShownAs
    <3>5. QED
      BY <3>3, <3>4
  <2>3. QED
    BY <2>1, <2>2
<1>5. QED
  BY <1>2, <1>3, <1>4 DEF KeepsUp

\* The page starts again from nothing.
LEMMA ReloadKeepsUp ==
  ASSUME GraphTypeOK, NEW p \in Pages, Reload(p)
  PROVE  PlainAnswers(p)' /\ KeepsUp(p)'
<1>1. snapshot'[p] = Asked /\ fetches'[p] = <<>> /\ shown'[p] = <<>>
  BY DEF Reload, GraphTypeOK
<1>2. Asked.at = "asked" /\ \A n \in Nodes : Asked.of[n] = "absent"
  BY DEF Asked
<1>3. PlainAnswers(p)'
  BY <1>1, <1>2, NodeSets DEF PlainAnswers
<1>4. QED
  BY <1>1, <1>2, <1>3 DEF KeepsUp, FreshFetches, SnapshotKeepsUp, PageKeepsUp

\* A request fails: the page has missed something.
LEMMA FailsKeepsUp ==
  ASSUME GraphTypeOK, NEW p \in Pages, PlainAnswers(p),
         SnapshotFails(p) \/ \E i \in Indices(p) : FetchFails(p, i)
  PROVE  PlainAnswers(p)' /\ KeepsUp(p)'
<1>1. /\ missed'[p] = TRUE /\ UNCHANGED shown
      /\ snapshot'[p] = [Asked EXCEPT !.at = "landed"] \/ snapshot'[p] = snapshot[p]
  BY DEF SnapshotFails, FetchFails, GraphTypeOK
<1> DEFINE a == [Asked EXCEPT !.at = "landed"]
<1>2. a.at = "landed" /\ \A n \in Nodes : a.of[n] = "absent"
  BY DEF Asked
<1> HIDE DEF a
<1>3. PlainAnswers(p)'
  BY <1>1, <1>2, NodeSets DEF PlainAnswers, a
<1>4. QED
  BY <1>1, <1>3 DEF KeepsUp

\* A step of one page leaves the others alone.
LEMMA OthersKeepUp ==
  ASSUME GraphTypeOK, NEW p \in Pages, PlainAnswers(p), KeepsUp(p), NEW q \in Pages, q # p,
         \/ ReadState(q) \/ Deliver(q) \/ Hydrate(q) \/ Drop(q) \/ SnapshotFails(q) \/ Reload(q)
         \/ \E i \in Indices(q) : ReadNode(q, i) \/ FetchLands(q, i) \/ FetchFails(q, i)
  PROVE  PlainAnswers(p)' /\ KeepsUp(p)'
<1>1. /\ UNCHANGED node
      /\ stream'[p] = stream[p] /\ snapshot'[p] = snapshot[p] /\ fetches'[p] = fetches[p]
      /\ shown'[p] = shown[p] /\ missed'[p] = missed[p]
  <2>1. CASE ReadState(q) \/ SnapshotFails(q) \/ Drop(q) \/ Reload(q)
    BY <2>1 DEF ReadState, SnapshotFails, Drop, Reload, GraphTypeOK
  <2>2. CASE Deliver(q)
    BY <2>2 DEF Deliver, GraphTypeOK
  <2>3. CASE Hydrate(q)
    BY <2>3 DEF Hydrate, GraphTypeOK
  <2>4. ASSUME NEW i \in Indices(q), ReadNode(q, i) \/ FetchFails(q, i)
        PROVE  /\ UNCHANGED node
               /\ stream'[p] = stream[p] /\ snapshot'[p] = snapshot[p]
               /\ fetches'[p] = fetches[p] /\ shown'[p] = shown[p] /\ missed'[p] = missed[p]
    BY <2>4 DEF ReadNode, FetchFails, GraphTypeOK
  <2>5. ASSUME NEW i \in Indices(q), FetchLands(q, i)
        PROVE  /\ UNCHANGED node
               /\ stream'[p] = stream[p] /\ snapshot'[p] = snapshot[p]
               /\ fetches'[p] = fetches[p] /\ shown'[p] = shown[p] /\ missed'[p] = missed[p]
    BY <2>5 DEF FetchLands, GraphTypeOK
  <2>6. QED
    BY <2>1, <2>2, <2>3, <2>4, <2>5
<1>2. QED
  BY <1>1, SamePage

LEMMA GraphInvInit == GraphInit => GraphInv
<1> SUFFICES ASSUME GraphInit PROVE GraphInv
  OBVIOUS
<1>1. GraphTypeOK /\ SoundTravel /\ ClosedIsEmpty
  BY GraphTypeInit DEF GraphInit, SoundTravel, ClosedIsEmpty
<1>2. PlainNodes
  BY NodeSets DEF GraphInit, PlainNodes
<1>3. ASSUME NEW p \in Pages PROVE PlainAnswers(p) /\ KeepsUp(p)
  <2>1. snapshot[p] = Asked /\ fetches[p] = <<>> /\ shown[p] = <<>>
    BY DEF GraphInit
  <2>2. Asked.at = "asked" /\ \A n \in Nodes : Asked.of[n] = "absent"
    BY DEF Asked
  <2>3. QED
    BY <2>1, <2>2, NodeSets
      DEF PlainAnswers, KeepsUp, FreshFetches, SnapshotKeepsUp, PageKeepsUp
<1>4. QED
  BY <1>1, <1>2, <1>3 DEF GraphInv

LEMMA GraphInvNext == GraphInv /\ [GraphNext]_graphVars => GraphInv'
<1> SUFFICES ASSUME GraphInv, [GraphNext]_graphVars PROVE GraphInv'
  OBVIOUS
<1>1. /\ GraphTypeOK /\ SoundTravel /\ PlainNodes /\ ClosedIsEmpty
      /\ \A p \in Pages : PlainAnswers(p) /\ KeepsUp(p)
  BY DEF GraphInv
<1>2. GraphTypeOK' /\ SoundTravel'
  BY <1>1, GraphTypeNext, TravelNext
<1>3. PlainNodes' /\ ClosedIsEmpty'
  <2>1. CASE GraphNext
    BY <1>1, <2>1, PlainNodesNext, ClosedNext
  <2>2. CASE UNCHANGED graphVars
    BY <1>1, <2>2 DEF graphVars, PlainNodes, ClosedIsEmpty
  <2>3. QED
    BY <2>1, <2>2
<1>4. ASSUME NEW p \in Pages PROVE PlainAnswers(p)' /\ KeepsUp(p)'
  <2> DEFINE Kept == PlainAnswers(p)' /\ KeepsUp(p)'
  <2>1. PlainAnswers(p) /\ KeepsUp(p)
    BY <1>1
  <2>2. ASSUME NEW n \in Items, Create(n) PROVE Kept
    BY <1>1, <2>1, <2>2, NodeSets, PublishKeepsUp DEF Create
  <2>12. ASSUME NEW n \in Items, CreateUntold(n) PROVE Kept
    BY <1>1, <2>1, <2>12, UntoldKeepsUp
  <2>3. ASSUME NEW g \in Gates, NEW d \in Decisions, Settle(g, d),
               UNCHANGED <<snapshot, fetches, shown>>
        PROVE  Kept
    BY <1>1, <2>1, <2>3, NodeSets, PublishKeepsUp DEF Settle
  <2>4. ASSUME NEW g \in Gates, NEW d \in Decisions, ResolveElsewhere(g, d) PROVE Kept
    BY <2>3, <2>4 DEF ResolveElsewhere
  <2>5. ASSUME NEW q \in Pages, Resolve(q) PROVE Kept
    BY <1>1, <2>3, <2>5, SentType DEF Resolve
  <2>6. ASSUME UNCHANGED <<node, stream, snapshot, fetches, shown, missed>> PROVE Kept
    BY <2>1, <2>6, SamePage
  <2>7. ASSUME NEW q \in Pages,
               \/ ReadState(q) \/ Deliver(q) \/ Hydrate(q) \/ Drop(q) \/ SnapshotFails(q)
               \/ Reload(q)
               \/ \E i \in Indices(q) : ReadNode(q, i) \/ FetchLands(q, i) \/ FetchFails(q, i)
        PROVE  Kept
    <3>1. CASE q # p
      BY <1>1, <2>1, <2>7, <3>1, OthersKeepUp
    <3>2. CASE q = p
      <4>1. \/ ReadState(p) \/ Deliver(p) \/ Hydrate(p) \/ Drop(p) \/ SnapshotFails(p)
            \/ Reload(p)
            \/ \E i \in Indices(p) : ReadNode(p, i) \/ FetchLands(p, i) \/ FetchFails(p, i)
        BY <2>7, <3>2
      <4>2. QED
        BY <1>1, <2>1, <4>1, ReadStateKeepsUp, DeliverKeepsUp, HydrateKeepsUp, DropKeepsUp,
          FailsKeepsUp, ReloadKeepsUp, ReadNodeKeepsUp, FetchLandsKeepsUp, Zenon
    <3>3. QED
      BY <3>1, <3>2
  <2>8. ASSUME NEW q \in Pages,
               \/ Connect(q) \/ Answered(q) \/ PostFails(q)
               \/ \E i \in DOMAIN shown[q], d \in Decisions : Decide(q, i, d)
        PROVE  UNCHANGED <<node, stream, snapshot, fetches, shown, missed>>
    BY <2>8 DEF Connect, Answered, PostFails, Decide
  <2>9. CASE UNCHANGED graphVars
    BY <2>6, <2>9 DEF graphVars
  <2> HIDE DEF Kept
  <2>10. ASSUME GraphNext PROVE Kept
    BY <2>2, <2>4, <2>5, <2>6, <2>7, <2>8, <2>10, <2>12, Zenon DEF GraphNext
  <2>11. QED
    BY <2>9, <2>10 DEF Kept
<1>5. QED
  BY <1>2, <1>3, <1>4 DEF GraphInv

\* The page has its snapshot, no event to hear of and no fetch under way, and has missed
\* nothing.
AtRest(p) ==
  snapshot[p].at = "landed" /\ stream[p] = <<>> /\ fetches[p] = <<>> /\ ~missed[p]

CurrentAtRest == \A p \in Pages : AtRest(p) => Current(p)

\* A page at rest shows every node, and every gate item as it was decided last, whatever
\* overtook what, whichever streams broke and whatever was stored without an event: what it
\* misses, it misses in one of the ways of CurrentUnlessMissed.
THEOREM PageAtRestIsCurrent == GraphSpec => []CurrentAtRest
<1>1. ASSUME GraphInv, NEW p \in Pages, AtRest(p) PROVE Current(p)
  <2>1. \A n : ~Coming(p, n)
    BY <1>1 DEF AtRest, Coming, Told, Fetched
  <2>2. PageKeepsUp(p) /\ snapshot[p].at = "landed"
    BY <1>1 DEF AtRest, GraphInv, KeepsUp
  <2>3. QED
    BY <2>1, <2>2 DEF PageKeepsUp, Current
<1>2. GraphInv => CurrentAtRest
  BY <1>1 DEF CurrentAtRest, GraphInv
<1>3. QED
  BY <1>2, GraphInvInit, GraphInvNext, PTL DEF GraphSpec

===============================================================================
