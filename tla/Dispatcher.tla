------------------------------ MODULE Dispatcher ------------------------------
(***************************************************************************)
(* The bounded-concurrency dispatcher of agent runs                        *)
(* (backend/app/agents/dispatcher.py).  Every dispatch() call is a task of *)
(* one asyncio event loop.  It takes the gate of its role first and the    *)
(* global semaphore second, runs run_fn, and gives both back.  A step of   *)
(* this module is what a task does between two points where it really      *)
(* suspends: a wait in a gate, or the await of run_fn.  EventBus.publish   *)
(* only creates tasks and never suspends the publisher.                    *)
(*                                                                         *)
(* Gates are modelled at the level of the asyncio sources (CPython 3.11):  *)
(* releasing a permit hands it to the first waiter, which resumes in a     *)
(* later turn of the loop; until then it still sits in the waiters' deque, *)
(* so a newcomer queues behind it even if a permit is free.                *)
(***************************************************************************)
EXTENDS Integers, Sequences, FiniteSets

CONSTANTS Roles,        \* agent roles
          GlobalSem,    \* names the gate _global_sem
          MaxParallel,  \* dispatch.max_parallel
          PerRole,      \* dispatch.per_role, a function on some of the roles
          MaxCalls      \* bound: how many dispatch() calls a behaviour holds

\* DispatchConfig validates both limits to be at least 1.
ASSUME DispatchConfig ==
  /\ GlobalSem \notin Roles
  /\ MaxParallel \in Nat \ {0}
  /\ DOMAIN PerRole \subseteq Roles
  /\ \A r \in DOMAIN PerRole : PerRole[r] \in Nat \ {0}
  /\ MaxCalls \in Nat

Calls == 1 .. MaxCalls            \* call d is the d-th call made
Gates == Roles \cup {GlobalSem}

VARIABLES
  role,       \* role[d]: the role call d asks for (an input)
  calls,      \* how many calls have been made
  pc,         \* pc[d]: where the task of call d is suspended
  gate,       \* gate[g]: the lock or semaphore g
  inflight,   \* the firings registered in _inflight
  started,    \* calls whose AgentRunStarted was published
  completed,  \* completed[d]: outcome in the AgentRunCompleted of d, or "none"
  stopping    \* the loop is shutting down and has cancelled every task

eventVars == <<inflight, started, completed>>
vars == <<role, calls, pc, gate, inflight, started, completed, stopping>>

PCs == {"absent", "role_wait", "global_wait", "running", "done"}
Outcomes == {"success", "failed"}

-------------------------------------------------------------------------------
(* Gates.  permits is Semaphore._value; a plain Lock is a gate of one      *)
(* permit.  woken \o waiting is the deque of waiters: woken ones have been *)
(* given a permit and have not resumed yet.                                *)

Gate == [permits : Nat, woken : Seq(Calls), waiting : Seq(Calls)]

\* _role_gate(role): the per_role semaphore if there is one, else the role's Lock.
Capacity(g) ==
  IF g = GlobalSem THEN MaxParallel
  ELSE IF g \in DOMAIN PerRole THEN PerRole[g] ELSE 1

NewGate(g) == [permits |-> Capacity(g), woken |-> <<>>, waiting |-> <<>>]

\* acquire() returns at once: a permit is free and nobody is in the deque.
Open(q) == q.permits > 0 /\ q.woken = <<>> /\ q.waiting = <<>>

Taken(q) == [q EXCEPT !.permits = @ - 1]

Queued(q, d) == [q EXCEPT !.waiting = Append(@, d)]

\* Mutant: waking a waiter does not take the permit it is given.
WokenNextForFree(q) ==
  IF q.waiting = <<>> THEN q
  ELSE [permits |-> q.permits,
        woken   |-> Append(q.woken, Head(q.waiting)),
        waiting |-> Tail(q.waiting)]

\* Mutant: the newest waiter is woken first.
WokenNewest(q) ==
  IF q.waiting = <<>> THEN q
  ELSE [permits |-> q.permits - 1,
        woken   |-> Append(q.woken, q.waiting[Len(q.waiting)]),
        waiting |-> SubSeq(q.waiting, 1, Len(q.waiting) - 1)]

\* _wake_up_next(): the first waiter gets a permit.
WokenNext(q) ==
  IF q.waiting = <<>> THEN q
  ELSE [permits |-> q.permits - 1,
        woken   |-> Append(q.woken, Head(q.waiting)),
        waiting |-> Tail(q.waiting)]

Released(q) == WokenNext([q EXCEPT !.permits = @ + 1])

\* Mutant: a waiter that resumes does not pass on a free permit.
ResumedAlone(q) == [q EXCEPT !.woken = Tail(@)]

\* The woken waiter leaves the deque, and passes on a permit nobody was woken for.
Resumed(q) ==
  LET p == [q EXCEPT !.woken = Tail(@)]
  IN  IF p.permits > 0 THEN WokenNext(p) ELSE p

\* CancelledError reaches a waiter that had been woken: it gives the permit back.
GivenBack(q) == Released([q EXCEPT !.woken = Tail(@)])

IsWoken(d, g) == gate[g].woken # <<>> /\ Head(gate[g].woken) = d
AmongWoken(d, g) == \E i \in DOMAIN gate[g].woken : gate[g].woken[i] = d

-------------------------------------------------------------------------------
Init ==
  /\ role \in [Calls -> Roles]
  /\ calls = 0
  /\ pc = [d \in Calls |-> "absent"]
  /\ gate = [g \in Gates |-> NewGate(g)]
  /\ inflight = {}
  /\ started = {}
  /\ completed = [d \in Calls |-> "none"]
  /\ stopping = FALSE

\* With the role gate held (G is the gates' state then), the task goes on to
\* the global semaphore: it runs at once, or it queues.
EnterGlobal(d, G) ==
  \/ /\ Open(G[GlobalSem])
     /\ gate' = [G EXCEPT ![GlobalSem] = Taken(@)]
     /\ pc' = [pc EXCEPT ![d] = "running"]
     /\ inflight' = inflight \cup {d}
     /\ started' = started \cup {d}
     /\ UNCHANGED completed
  \/ /\ ~Open(G[GlobalSem])
     /\ gate' = [G EXCEPT ![GlobalSem] = Queued(@, d)]
     /\ pc' = [pc EXCEPT ![d] = "global_wait"]
     /\ UNCHANGED eventVars

\* dispatch() is called: its task runs up to its first real suspension.
Dispatch(d) ==
  /\ ~stopping
  /\ d = calls + 1
  /\ calls' = d
  /\ \/ /\ Open(gate[role[d]])
        /\ EnterGlobal(d, [gate EXCEPT ![role[d]] = Taken(@)])
     \/ /\ ~Open(gate[role[d]])
        /\ gate' = [gate EXCEPT ![role[d]] = Queued(@, d)]
        /\ pc' = [pc EXCEPT ![d] = "role_wait"]
        /\ UNCHANGED eventVars
  /\ UNCHANGED <<role, stopping>>

\* A waiter of the role gate resumes with the gate in hand.
ResumeRole(d) ==
  /\ ~stopping
  /\ pc[d] = "role_wait"
  /\ IsWoken(d, role[d])
  /\ EnterGlobal(d, [gate EXCEPT ![role[d]] = Resumed(@)])
  /\ UNCHANGED <<role, calls, stopping>>

\* A waiter of the global semaphore resumes and starts its run.
ResumeGlobal(d) ==
  /\ ~stopping
  /\ pc[d] = "global_wait"
  /\ IsWoken(d, GlobalSem)
  /\ gate' = [gate EXCEPT ![GlobalSem] = Resumed(@)]
  /\ pc' = [pc EXCEPT ![d] = "running"]
  /\ inflight' = inflight \cup {d}
  /\ started' = started \cup {d}
  /\ UNCHANGED <<role, calls, completed, stopping>>

\* Mutant: the role gate is not released.
LeaveKeepsRole(d, outcome) ==
  /\ pc[d] = "running"
  /\ pc' = [pc EXCEPT ![d] = "done"]
  /\ inflight' = inflight \ {d}
  /\ completed' = [completed EXCEPT ![d] = outcome]
  /\ gate' = [gate EXCEPT ![GlobalSem] = Released(@)]
  /\ UNCHANGED <<role, calls, started, stopping>>

\* Mutant: the firing is dropped from _inflight only when the run succeeded.
LeaveForgetsPop(d, outcome) ==
  /\ pc[d] = "running"
  /\ pc' = [pc EXCEPT ![d] = "done"]
  /\ inflight' = IF outcome = "success" THEN inflight \ {d} ELSE inflight
  /\ completed' = [completed EXCEPT ![d] = outcome]
  /\ gate' = [gate EXCEPT ![GlobalSem] = Released(@), ![role[d]] = Released(@)]
  /\ UNCHANGED <<role, calls, started, stopping>>

\* The finally block and the exit of both `async with`: the global permit is
\* released first, the role gate second.
Leave(d, outcome) ==
  /\ pc[d] = "running"
  /\ pc' = [pc EXCEPT ![d] = "done"]
  /\ inflight' = inflight \ {d}
  /\ completed' = [completed EXCEPT ![d] = outcome]
  /\ gate' = [gate EXCEPT ![GlobalSem] = Released(@), ![role[d]] = Released(@)]
  /\ UNCHANGED <<role, calls, started, stopping>>

\* run_fn returns, or raises an Exception, which is logged and swallowed.
Finish(d, outcome) == ~stopping /\ Leave(d, outcome)

\* The runner of the loop cancels every task when the process stops.  The
\* futures of the waiters that had not been woken are cancelled with them.
CancelAll ==
  /\ ~stopping
  /\ stopping' = TRUE
  /\ gate' = [g \in Gates |-> [gate[g] EXCEPT !.waiting = <<>>]]
  /\ UNCHANGED <<role, calls, pc, inflight, started, completed>>

\* CancelledError is not an Exception: the finally block of a cancelled run
\* still sees the initial outcome.
UnwindRun(d) == stopping /\ Leave(d, "success")

\* A cancelled waiter leaves without running; what it holds goes back.
UnwindRole(d) ==
  /\ stopping
  /\ pc[d] = "role_wait"
  /\ \/ IsWoken(d, role[d]) /\ gate' = [gate EXCEPT ![role[d]] = GivenBack(@)]
     \/ ~AmongWoken(d, role[d]) /\ UNCHANGED gate
  /\ pc' = [pc EXCEPT ![d] = "done"]
  /\ UNCHANGED <<role, calls, stopping, inflight, started, completed>>

UnwindGlobal(d) ==
  /\ stopping
  /\ pc[d] = "global_wait"
  /\ \/ /\ IsWoken(d, GlobalSem)
        /\ gate' = [gate EXCEPT ![GlobalSem] = GivenBack(@), ![role[d]] = Released(@)]
     \/ /\ ~AmongWoken(d, GlobalSem)
        /\ gate' = [gate EXCEPT ![role[d]] = Released(@)]
  /\ pc' = [pc EXCEPT ![d] = "done"]
  /\ UNCHANGED <<role, calls, stopping, inflight, started, completed>>

Unwind(d) == UnwindRun(d) \/ UnwindRole(d) \/ UnwindGlobal(d)

Next ==
  \/ \E d \in Calls :
       \/ Dispatch(d)
       \/ ResumeRole(d)
       \/ ResumeGlobal(d)
       \/ \E outcome \in Outcomes : Finish(d, outcome)
       \/ Unwind(d)
  \/ CancelAll

\* The loop runs every ready task, and every run ends (an assumption on
\* run_fn).  Nothing makes a caller call or the process stop.
Fairness ==
  \A d \in Calls :
    /\ WF_vars(ResumeRole(d))
    /\ WF_vars(ResumeGlobal(d))
    /\ WF_vars(\E outcome \in Outcomes : Finish(d, outcome))
    /\ WF_vars(Unwind(d))

Spec == Init /\ [][Next]_vars
FairSpec == Spec /\ Fairness
-------------------------------------------------------------------------------
(* Properties.                                                             *)

Running == {d \in Calls : pc[d] = "running"}
RunningAs(r) == {d \in Running : role[d] = r}

\* The tasks that have acquired gate g and not released it.
Holding(g) ==
  IF g = GlobalSem THEN Running
  ELSE {d \in Calls : role[d] = g /\ pc[d] \in {"global_wait", "running"}}

\* Every variable has its type; a gate never goes below zero permits.
TypeOK ==
  /\ role \in [Calls -> Roles]
  /\ calls \in 0 .. MaxCalls
  /\ pc \in [Calls -> PCs]
  /\ gate \in [Gates -> Gate]
  /\ inflight \subseteq Calls
  /\ started \subseteq Calls
  /\ completed \in [Calls -> Outcomes \cup {"none"}]
  /\ stopping \in BOOLEAN

\* No permit is lost or made: what is free, what was handed to a waiter that
\* has not resumed, and what is held add up to the gate's capacity, through
\* waits, failures of run_fn and the cancellation of everything at shutdown.
PermitsConserved ==
  \A g \in Gates :
    gate[g].permits + Len(gate[g].woken) + Cardinality(Holding(g)) = Capacity(g)

\* The dispatcher's contract (class docstring): at most max_parallel runs at
\* a time, and of one role at most per_role[role], or one if not listed.
RunsWithinCaps ==
  /\ Cardinality(Running) <= MaxParallel
  /\ \A r \in Roles : Cardinality(RunningAs(r)) <= Capacity(r)

\* A task never waits for a permit that is free unless a waiter ahead of it
\* is about to resume (and will pass the free permit on).
NoLostWakeup ==
  \A g \in Gates :
    gate[g].waiting # <<>> /\ gate[g].permits > 0 => gate[g].woken # <<>>

\* GET /agents/inflight and the event stream tell the same story at every
\* suspension: the registered firings are those announced as started and not
\* as completed, and they are the ones that run.
InflightIsEventBalance ==
  /\ inflight = {d \in started : completed[d] = "none"}
  /\ inflight = Running

\* Runs of a role that its Lock serializes happen in the order of the calls:
\* one starts only when every earlier one of the role is over.
SerialRoleInOrder ==
  \A d, e \in Calls :
    /\ d < e
    /\ role[d] = role[e]
    /\ Capacity(role[d]) = 1
    /\ e \in started
    => pc[d] = "done"

\* No deadlock between the two levels of gates and no starvation: a call that
\* was made ends, whatever the others do, if runs end.
EveryCallEnds == \A d \in Calls : pc[d] # "absent" ~> pc[d] = "done"

\* The dispatcher implements the abstract bounded runner: both kinds of wait
\* are "pending", and holding a gate without running is not visible.
AbstractStatus ==
  [d \in Calls |->
     CASE pc[d] \in {"role_wait", "global_wait"} -> "pending"
       [] pc[d] = "done" -> "ended"
       [] OTHER -> pc[d]]

Abstract == INSTANCE BoundedRuns
  WITH Runs <- Calls, RoleCap <- [r \in Roles |-> Capacity(r)], status <- AbstractStatus

ImplementsBoundedRuns == Abstract!Spec
===============================================================================
