----------------------------- MODULE BoundedRuns -----------------------------
(***************************************************************************)
(* What the agent dispatcher promises, with no word on how: a submitted    *)
(* run waits, is admitted while fewer than MaxParallel runs are going on   *)
(* and fewer than RoleCap[r] of its own role, and ends; a run that still   *)
(* waits when the process stops is dropped without having begun.           *)
(* Dispatcher.tla, which has the two levels of asyncio gates, implements   *)
(* this specification.                                                     *)
(***************************************************************************)
EXTENDS Naturals, FiniteSets

CONSTANTS Runs,         \* identities of the runs
          Roles,        \* agent roles
          MaxParallel,  \* how many runs may go on at the same time
          RoleCap       \* how many of one role, a function on Roles

VARIABLES status,  \* [Runs -> {"absent", "pending", "running", "ended"}]
          role     \* [Runs -> Roles]

vars == <<status, role>>

Running == {r \in Runs : status[r] = "running"}
RunningAs(x) == {r \in Running : role[r] = x}

\* There is room for one more run of r's role.
Admissible(r) ==
  /\ Cardinality(Running) < MaxParallel
  /\ Cardinality(RunningAs(role[r])) < RoleCap[role[r]]

Move(r, from, to) ==
  /\ status[r] = from
  /\ status' = [status EXCEPT ![r] = to]
  /\ UNCHANGED role

Submit(r)    == Move(r, "absent", "pending")
SubmitNow(r) == Admissible(r) /\ Move(r, "absent", "running")
Begin(r)     == Admissible(r) /\ Move(r, "pending", "running")
End(r)       == Move(r, "running", "ended")
Drop(r)      == Move(r, "pending", "ended")

Init ==
  /\ status = [r \in Runs |-> "absent"]
  /\ role \in [Runs -> Roles]

Next == \E r \in Runs : Submit(r) \/ SubmitNow(r) \/ Begin(r) \/ End(r) \/ Drop(r)

Spec == Init /\ [][Next]_vars
==============================================================================
