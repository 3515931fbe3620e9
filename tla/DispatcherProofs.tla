--------------------------- MODULE DispatcherProofs ---------------------------
(***************************************************************************)
(* Proofs about Dispatcher.tla, for every set of roles, every limit and    *)
(* every number of calls: permits and wakeups, the order of a serial role, *)
(* the refinement of BoundedRuns, and that the two levels of gates never   *)
(* leave everybody waiting for everybody.                                  *)
(***************************************************************************)
EXTENDS Dispatcher, FiniteSetTheorems, SequenceTheorems, TLAPS

\* The permits of a gate that no task holds: free, or on their way to a waiter.
Unheld(q) == q.permits + Len(q.woken)

\* NoLostWakeup of one gate.
WakesUp(q) == q.waiting # <<>> /\ q.permits > 0 => q.woken # <<>>

-------------------------------------------------------------------------------
(* The gates.                                                              *)

\* What holds of a sequence of calls when one is appended or removed.
LEMMA SeqFacts ==
  ASSUME NEW s \in Seq(Calls), NEW d \in Calls
  PROVE  /\ Append(s, d) \in Seq(Calls)
         /\ Len(Append(s, d)) = Len(s) + 1
         /\ Append(s, d) # <<>>
         /\ Len(s) \in Nat
         /\ s # <<>> => /\ Head(s) \in Calls
                        /\ Tail(s) \in Seq(Calls)
                        /\ Len(Tail(s)) = Len(s) - 1
                        /\ Len(s) > 0
OBVIOUS

LEMMA UnheldNat ==
  ASSUME NEW q \in Gate
  PROVE  Unheld(q) \in Nat
BY SeqFacts DEF Gate, Unheld

\* A gate from which every permit is free is a gate.
LEMMA NewGateOK ==
  ASSUME NEW g \in Gates
  PROVE  /\ NewGate(g) \in Gate
         /\ Unheld(NewGate(g)) = Capacity(g)
         /\ WakesUp(NewGate(g))
<1>1. Capacity(g) \in Nat
  BY DispatchConfig DEF Capacity, Gates
<1>2. QED
  BY <1>1 DEF NewGate, Gate, Unheld, WakesUp

\* Waking the next waiter keeps what is unheld, when there is a permit for it.
LEMMA WokenNextOK ==
  ASSUME NEW q \in Gate, q.permits > 0
  PROVE  /\ WokenNext(q) \in Gate
         /\ Unheld(WokenNext(q)) = Unheld(q)
         /\ WakesUp(WokenNext(q))
<1> DEFINE next == [permits |-> q.permits - 1,
                    woken   |-> Append(q.woken, Head(q.waiting)),
                    waiting |-> Tail(q.waiting)]
<1>1. /\ q.permits \in Nat
      /\ q.woken \in Seq(Calls)
      /\ q.waiting \in Seq(Calls)
  BY DEF Gate
<1>2. CASE q.waiting = <<>>
  BY <1>2 DEF WokenNext, WakesUp
<1>3. CASE q.waiting # <<>>
  <2>1. WokenNext(q) = next
    BY <1>3 DEF WokenNext
  <2>2. Head(q.waiting) \in Calls /\ Tail(q.waiting) \in Seq(Calls)
    BY <1>1, <1>3
  <2>3. /\ Append(q.woken, Head(q.waiting)) \in Seq(Calls)
        /\ Len(Append(q.woken, Head(q.waiting))) = Len(q.woken) + 1
        /\ Append(q.woken, Head(q.waiting)) # <<>>
        /\ Len(q.woken) \in Nat
    BY <1>1, <2>2, SeqFacts
  <2>4. next \in Gate
    BY <1>1, <2>2, <2>3 DEF Gate
  <2>5. Unheld(next) = Unheld(q) /\ WakesUp(next)
    BY <1>1, <2>3 DEF Unheld, WakesUp
  <2>6. QED
    BY <2>1, <2>4, <2>5
<1>4. QED
  BY <1>2, <1>3

\* release(): one more permit is unheld.
LEMMA ReleasedOK ==
  ASSUME NEW q \in Gate
  PROVE  /\ Released(q) \in Gate
         /\ Unheld(Released(q)) = Unheld(q) + 1
         /\ WakesUp(Released(q))
<1> DEFINE p == [q EXCEPT !.permits = @ + 1]
<1>1. p \in Gate /\ p.permits > 0 /\ Unheld(p) = Unheld(q) + 1
  BY DEF Gate, Unheld
<1>2. QED
  BY <1>1, WokenNextOK DEF Released

\* acquire() of an open gate: one permit less is unheld.
LEMMA TakenOK ==
  ASSUME NEW q \in Gate, Open(q)
  PROVE  /\ Taken(q) \in Gate
         /\ Unheld(Taken(q)) = Unheld(q) - 1
         /\ WakesUp(Taken(q))
<1>1. /\ q.permits \in Nat /\ q.permits > 0
      /\ q.woken \in Seq(Calls) /\ Len(q.woken) \in Nat
      /\ q.waiting = <<>>
  BY SeqFacts DEF Open, Gate
<1>2. Taken(q) \in Gate
  BY <1>1 DEF Taken, Gate
<1>3. /\ Taken(q).permits = q.permits - 1
      /\ Taken(q).woken = q.woken
      /\ Taken(q).waiting = q.waiting
  BY DEF Taken, Gate
<1>4. QED
  BY <1>1, <1>2, <1>3 DEF Unheld, WakesUp

\* A newcomer that has to queue changes no permit.
LEMMA QueuedOK ==
  ASSUME NEW q \in Gate, NEW d \in Calls, ~Open(q)
  PROVE  /\ Queued(q, d) \in Gate
         /\ Unheld(Queued(q, d)) = Unheld(q)
         /\ WakesUp(q) => WakesUp(Queued(q, d))
<1>1. Queued(q, d) \in Gate
  BY SeqFacts DEF Queued, Gate
<1>2. QED
  BY <1>1 DEF Queued, Gate, Unheld, WakesUp, Open

\* The first woken waiter leaves the deque with its permit.
LEMMA WithoutHeadOK ==
  ASSUME NEW q \in Gate, q.woken # <<>>
  PROVE  LET p == [q EXCEPT !.woken = Tail(@)]
         IN  p \in Gate /\ Unheld(p) = Unheld(q) - 1
<1> DEFINE p == [q EXCEPT !.woken = Tail(@)]
<1>1. /\ q.permits \in Nat
      /\ q.woken \in Seq(Calls)
      /\ Tail(q.woken) \in Seq(Calls)
      /\ Len(Tail(q.woken)) = Len(q.woken) - 1
      /\ Len(q.woken) \in Nat
  <2>1. q.permits \in Nat /\ q.woken \in Seq(Calls)
    BY DEF Gate
  <2>2. QED
    BY <2>1
<1>2. /\ p.permits = q.permits
      /\ p.woken = Tail(q.woken)
      /\ p.waiting = q.waiting
  BY DEF Gate
<1>3. p \in Gate
  BY <1>1 DEF Gate
<1>4. QED
  BY <1>1, <1>2, <1>3 DEF Unheld

\* A woken waiter that resumes holds its permit from then on.
LEMMA ResumedOK ==
  ASSUME NEW q \in Gate, q.woken # <<>>
  PROVE  /\ Resumed(q) \in Gate
         /\ Unheld(Resumed(q)) = Unheld(q) - 1
         /\ WakesUp(Resumed(q))
<1> DEFINE p == [q EXCEPT !.woken = Tail(@)]
<1>1. p \in Gate /\ Unheld(p) = Unheld(q) - 1
  BY WithoutHeadOK
<1>2. CASE p.permits > 0
  BY <1>1, <1>2, WokenNextOK DEF Resumed
<1>3. CASE ~(p.permits > 0)
  BY <1>1, <1>3 DEF Resumed, WakesUp
<1>4. QED
  BY <1>2, <1>3

\* A woken waiter that is cancelled gives its permit back.
LEMMA GivenBackOK ==
  ASSUME NEW q \in Gate, q.woken # <<>>
  PROVE  /\ GivenBack(q) \in Gate
         /\ Unheld(GivenBack(q)) = Unheld(q)
         /\ WakesUp(GivenBack(q))
<1> DEFINE p == [q EXCEPT !.woken = Tail(@)]
<1>1. p \in Gate /\ Unheld(p) = Unheld(q) - 1
  BY WithoutHeadOK
<1>2. Unheld(q) \in Int
  BY SeqFacts DEF Gate, Unheld
<1>3. Unheld(Released(p)) = Unheld(p) + 1 /\ Released(p) \in Gate /\ WakesUp(Released(p))
  BY <1>1, ReleasedOK
<1>4. GivenBack(q) = Released(p)
  BY DEF GivenBack
<1>5. QED
  BY <1>1, <1>2, <1>3, <1>4

-------------------------------------------------------------------------------
(* What the tasks hold.                                                    *)

\* A task suspended at x holds gate g.
HoldsAt(d, g, x) ==
  IF g = GlobalSem THEN x = "running"
  ELSE role[d] = g /\ x \in {"global_wait", "running"}

One(b) == IF b THEN 1 ELSE 0

\* Everything there is of gate g: PermitsConserved says it is the capacity.
Total(g) == Unheld(gate[g]) + Cardinality(Holding(g))

LEMMA HoldingFinite ==
  ASSUME NEW g \in Gates
  PROVE  IsFiniteSet(Holding(g)) /\ Cardinality(Holding(g)) \in Nat
<1>1. IsFiniteSet(Calls)
  BY FS_Interval, DispatchConfig DEF Calls
<1>2. Holding(g) \subseteq Calls
  BY DEF Holding, Running
<1>3. QED
  BY <1>1, <1>2, FS_Subset, FS_CardinalityType

\* When one task moves, it alone enters or leaves the holders of a gate.
LEMMA HoldingMoves ==
  ASSUME TypeOK, NEW g \in Gates, NEW d \in Calls, NEW x \in PCs,
         pc' = [pc EXCEPT ![d] = x], UNCHANGED role
  PROVE  Cardinality(Holding(g))' =
           Cardinality(Holding(g)) + One(HoldsAt(d, g, x)) - One(HoldsAt(d, g, pc[d]))
<1>1. IsFiniteSet(Holding(g)) /\ Cardinality(Holding(g)) \in Nat
  BY HoldingFinite
<1>2. /\ Holding(g) = {e \in Calls : HoldsAt(e, g, pc[e])}
      /\ Holding(g)' = {e \in Calls : HoldsAt(e, g, pc'[e])}
  BY DEF Holding, HoldsAt, Running
<1>3. pc'[d] = x /\ \A e \in Calls \ {d} : pc'[e] = pc[e]
  BY DEF TypeOK
<1>4. CASE HoldsAt(d, g, x)
  <2>1. Holding(g)' = Holding(g) \cup {d}
    BY <1>2, <1>3, <1>4
  <2>2. d \in Holding(g) <=> HoldsAt(d, g, pc[d])
    BY <1>2
  <2>3. CASE HoldsAt(d, g, pc[d])
    <3>1. Holding(g)' = Holding(g)
      BY <2>1, <2>2, <2>3
    <3>2. QED
      BY <1>1, <1>4, <2>3, <3>1 DEF One
  <2>4. CASE ~HoldsAt(d, g, pc[d])
    <3>1. Cardinality(Holding(g))' = Cardinality(Holding(g)) + 1
      BY <1>1, <2>1, <2>2, <2>4, FS_AddElement
    <3>2. QED
      BY <1>1, <1>4, <2>4, <3>1 DEF One
  <2>5. QED
    BY <2>3, <2>4
<1>5. CASE ~HoldsAt(d, g, x)
  <2>1. Holding(g)' = Holding(g) \ {d}
    BY <1>2, <1>3, <1>5
  <2>2. d \in Holding(g) <=> HoldsAt(d, g, pc[d])
    BY <1>2
  <2>3. Cardinality(Holding(g) \ {d}) =
          IF d \in Holding(g) THEN Cardinality(Holding(g)) - 1 ELSE Cardinality(Holding(g))
    BY <1>1, FS_RemoveElement
  <2>4. Cardinality(Holding(g))' = Cardinality(Holding(g) \ {d}) /\ One(HoldsAt(d, g, x)) = 0
    BY <1>5, <2>1 DEF One
  <2>5. QED
    BY <1>1, <2>2, <2>3, <2>4 DEF One
<1>6. QED
  BY <1>4, <1>5

\* From the role gate on: whichever branch the task takes, the gates stay
\* gates, and it now holds its role gate and what it took of the global one.
LEMMA EnterGlobalOK ==
  ASSUME TypeOK, NEW d \in Calls, NEW G \in [Gates -> Gate],
         pc[d] \in {"absent", "role_wait"}, UNCHANGED role, EnterGlobal(d, G)
  PROVE  /\ gate' \in [Gates -> Gate]
         /\ pc' \in [Calls -> PCs]
         /\ \A g \in Gates : WakesUp(G[g]) => WakesUp(gate'[g])
         /\ \A g \in Gates : Total(g)' =
              Unheld(G[g]) + Cardinality(Holding(g)) + One(g = role[d])
<1> role[d] \in Roles /\ role[d] # GlobalSem /\ GlobalSem \in Gates /\ G[GlobalSem] \in Gate
  BY DispatchConfig DEF TypeOK, Gates
<1>1. CASE Open(G[GlobalSem]) /\ gate' = [G EXCEPT ![GlobalSem] = Taken(@)]
           /\ pc' = [pc EXCEPT ![d] = "running"]
  <2>1. /\ Taken(G[GlobalSem]) \in Gate
        /\ Unheld(Taken(G[GlobalSem])) = Unheld(G[GlobalSem]) - 1
        /\ WakesUp(Taken(G[GlobalSem]))
    BY <1>1, TakenOK
  <2>2. gate' \in [Gates -> Gate] /\ pc' \in [Calls -> PCs]
    BY <1>1, <2>1 DEF TypeOK, PCs
  <2>3. ASSUME NEW g \in Gates
        PROVE  Total(g)' = Unheld(G[g]) + Cardinality(Holding(g)) + One(g = role[d])
    <3>1. Cardinality(Holding(g))' = Cardinality(Holding(g)) + One(HoldsAt(d, g, "running"))
                                     - One(HoldsAt(d, g, pc[d]))
      BY <1>1, HoldingMoves DEF PCs
    <3>2. One(HoldsAt(d, g, pc[d])) = 0
      BY DEF One, HoldsAt
    <3>3. One(HoldsAt(d, g, "running")) = One(g = GlobalSem) + One(g = role[d])
      BY DEF One, HoldsAt
    <3>4. Unheld(gate'[g]) = Unheld(G[g]) - One(g = GlobalSem)
      BY <1>1, <2>1, UnheldNat DEF One
    <3>5. Total(g)' = Unheld(gate'[g]) + Cardinality(Holding(g))'
      BY DEF Total
    <3>6. Unheld(G[g]) \in Nat /\ Cardinality(Holding(g)) \in Nat
      BY HoldingFinite, UnheldNat
    <3>7. One(g = GlobalSem) \in Nat /\ One(g = role[d]) \in Nat
      BY DEF One
    <3>8. QED
      BY <3>1, <3>2, <3>3, <3>4, <3>5, <3>6, <3>7
  <2>4. \A g \in Gates : WakesUp(G[g]) => WakesUp(gate'[g])
    BY <1>1, <2>1
  <2>5. QED
    BY <2>2, <2>3, <2>4
<1>2. CASE ~Open(G[GlobalSem]) /\ gate' = [G EXCEPT ![GlobalSem] = Queued(@, d)]
           /\ pc' = [pc EXCEPT ![d] = "global_wait"]
  <2>1. /\ Queued(G[GlobalSem], d) \in Gate
        /\ Unheld(Queued(G[GlobalSem], d)) = Unheld(G[GlobalSem])
        /\ WakesUp(G[GlobalSem]) => WakesUp(Queued(G[GlobalSem], d))
    BY <1>2, QueuedOK
  <2>2. gate' \in [Gates -> Gate] /\ pc' \in [Calls -> PCs]
    BY <1>2, <2>1 DEF TypeOK, PCs
  <2>3. ASSUME NEW g \in Gates
        PROVE  Total(g)' = Unheld(G[g]) + Cardinality(Holding(g)) + One(g = role[d])
    <3>1. Cardinality(Holding(g))' = Cardinality(Holding(g)) + One(HoldsAt(d, g, "global_wait"))
                                     - One(HoldsAt(d, g, pc[d]))
      BY <1>2, HoldingMoves DEF PCs
    <3>2. One(HoldsAt(d, g, pc[d])) = 0 /\ One(HoldsAt(d, g, "global_wait")) = One(g = role[d])
      BY DEF One, HoldsAt
    <3>3. Unheld(gate'[g]) = Unheld(G[g])
      BY <1>2, <2>1
    <3>4. Total(g)' = Unheld(gate'[g]) + Cardinality(Holding(g))'
      BY DEF Total
    <3>5. One(g = role[d]) \in Nat /\ Unheld(G[g]) \in Nat /\ Cardinality(Holding(g)) \in Nat
      BY HoldingFinite, UnheldNat DEF One
    <3>6. QED
      BY <3>1, <3>2, <3>3, <3>4, <3>5
  <2>4. \A g \in Gates : WakesUp(G[g]) => WakesUp(gate'[g])
    BY <1>2, <2>1
  <2>5. QED
    BY <2>2, <2>3, <2>4
<1>3. QED
  BY <1>1, <1>2 DEF EnterGlobal

-------------------------------------------------------------------------------
(* The steps.                                                              *)

\* What every step of the dispatcher does to its gates: nothing wrong.
GatesKept ==
  /\ gate' \in [Gates -> Gate]
  /\ pc' \in [Calls -> PCs]
  /\ \A g \in Gates : WakesUp(gate[g]) => WakesUp(gate'[g])
  /\ \A g \in Gates : Total(g)' = Total(g)

\* A step of one task keeps the totals if each gate gains what the task gives up.
LEMMA MoveKeepsTotals ==
  ASSUME TypeOK, NEW d \in Calls, NEW x \in PCs,
         pc' = [pc EXCEPT ![d] = x], UNCHANGED role,
         gate' \in [Gates -> Gate],
         \A g \in Gates : Unheld(gate'[g]) =
           Unheld(gate[g]) + One(HoldsAt(d, g, pc[d])) - One(HoldsAt(d, g, x))
  PROVE  /\ pc' \in [Calls -> PCs]
         /\ \A g \in Gates : Total(g)' = Total(g)
<1>1. pc' \in [Calls -> PCs]
  BY DEF TypeOK
<1>2. ASSUME NEW g \in Gates
      PROVE  Total(g)' = Total(g)
  <2>1. Cardinality(Holding(g))' =
          Cardinality(Holding(g)) + One(HoldsAt(d, g, x)) - One(HoldsAt(d, g, pc[d]))
    BY HoldingMoves
  <2>2. /\ Total(g)' = Unheld(gate'[g]) + Cardinality(Holding(g))'
        /\ Total(g) = Unheld(gate[g]) + Cardinality(Holding(g))
    BY DEF Total
  <2>3. /\ Unheld(gate[g]) \in Nat /\ Cardinality(Holding(g)) \in Nat
        /\ One(HoldsAt(d, g, x)) \in Nat /\ One(HoldsAt(d, g, pc[d])) \in Nat
    BY HoldingFinite, UnheldNat DEF TypeOK, One
  <2>4. QED
    BY <2>1, <2>2, <2>3
<1>3. QED
  BY <1>1, <1>2

\* The task goes through a role gate that becomes q, one permit poorer.
LEMMA EnterKeepsGates ==
  ASSUME TypeOK, NEW d \in Calls, pc[d] \in {"absent", "role_wait"}, UNCHANGED role,
         NEW q \in Gate, Unheld(q) = Unheld(gate[role[d]]) - 1, WakesUp(q),
         EnterGlobal(d, [gate EXCEPT ![role[d]] = q])
  PROVE  GatesKept
<1> DEFINE G == [gate EXCEPT ![role[d]] = q]
<1>1. role[d] \in Gates /\ gate \in [Gates -> Gate]
  BY DEF TypeOK, Gates
<1>2. G \in [Gates -> Gate]
  BY <1>1
<1>3. /\ gate' \in [Gates -> Gate]
      /\ pc' \in [Calls -> PCs]
      /\ \A g \in Gates : WakesUp(G[g]) => WakesUp(gate'[g])
      /\ \A g \in Gates : Total(g)' =
           Unheld(G[g]) + Cardinality(Holding(g)) + One(g = role[d])
  BY <1>2, EnterGlobalOK
<1>4. \A g \in Gates : WakesUp(gate[g]) => WakesUp(G[g])
  BY <1>1
<1>5. ASSUME NEW g \in Gates
      PROVE  Total(g)' = Total(g)
  <2>1. Unheld(G[g]) = Unheld(gate[g]) - One(g = role[d])
    BY <1>1, UnheldNat DEF One
  <2>2. Total(g) = Unheld(gate[g]) + Cardinality(Holding(g))
    BY DEF Total
  <2>3. Unheld(gate[g]) \in Nat /\ Cardinality(Holding(g)) \in Nat /\ One(g = role[d]) \in Nat
    BY <1>1, HoldingFinite, UnheldNat DEF One
  <2>4. QED
    BY <1>3, <2>1, <2>2, <2>3
<1>6. QED
  BY <1>3, <1>4, <1>5 DEF GatesKept

LEMMA DispatchKeeps ==
  ASSUME TypeOK, NEW d \in Calls, pc[d] = "absent", Dispatch(d)
  PROVE  GatesKept
<1>1. role[d] \in Gates /\ role[d] # GlobalSem /\ gate \in [Gates -> Gate] /\ UNCHANGED role
  BY DispatchConfig DEF TypeOK, Gates, Dispatch
<1>2. CASE Open(gate[role[d]]) /\ EnterGlobal(d, [gate EXCEPT ![role[d]] = Taken(@)])
  BY <1>1, <1>2, TakenOK, EnterKeepsGates
<1>3. CASE /\ ~Open(gate[role[d]])
           /\ gate' = [gate EXCEPT ![role[d]] = Queued(@, d)]
           /\ pc' = [pc EXCEPT ![d] = "role_wait"]
  <2>1. /\ Queued(gate[role[d]], d) \in Gate
        /\ Unheld(Queued(gate[role[d]], d)) = Unheld(gate[role[d]])
        /\ WakesUp(gate[role[d]]) => WakesUp(Queued(gate[role[d]], d))
    BY <1>1, <1>3, QueuedOK
  <2>2. gate' \in [Gates -> Gate] /\ \A g \in Gates : WakesUp(gate[g]) => WakesUp(gate'[g])
    BY <1>1, <1>3, <2>1
  <2>3. ASSUME NEW g \in Gates
        PROVE  Unheld(gate'[g]) =
                 Unheld(gate[g]) + One(HoldsAt(d, g, pc[d])) - One(HoldsAt(d, g, "role_wait"))
    BY <1>1, <1>3, <2>1, UnheldNat DEF One, HoldsAt
  <2>4. QED
    BY <1>1, <1>3, <2>2, <2>3, MoveKeepsTotals DEF GatesKept, PCs
<1>4. QED
  BY <1>2, <1>3 DEF Dispatch

LEMMA ResumeRoleKeeps ==
  ASSUME TypeOK, NEW d \in Calls, ResumeRole(d)
  PROVE  GatesKept
<1>1. role[d] \in Gates /\ gate \in [Gates -> Gate]
  BY DEF TypeOK, Gates
<1>2. gate[role[d]].woken # <<>> /\ pc[d] = "role_wait" /\ UNCHANGED role
  BY DEF ResumeRole, IsWoken
<1>3. QED
  BY <1>1, <1>2, ResumedOK, EnterKeepsGates DEF ResumeRole

LEMMA ResumeGlobalKeeps ==
  ASSUME TypeOK, NEW d \in Calls, ResumeGlobal(d)
  PROVE  GatesKept
<1>1. GlobalSem \in Gates /\ gate \in [Gates -> Gate] /\ role[d] # GlobalSem
  BY DispatchConfig DEF TypeOK, Gates
<1>2. /\ gate[GlobalSem].woken # <<>> /\ pc[d] = "global_wait" /\ UNCHANGED role
      /\ gate' = [gate EXCEPT ![GlobalSem] = Resumed(@)]
      /\ pc' = [pc EXCEPT ![d] = "running"]
  BY DEF ResumeGlobal, IsWoken
<1>3. /\ Resumed(gate[GlobalSem]) \in Gate
      /\ Unheld(Resumed(gate[GlobalSem])) = Unheld(gate[GlobalSem]) - 1
      /\ WakesUp(Resumed(gate[GlobalSem]))
  BY <1>1, <1>2, ResumedOK
<1>4. gate' \in [Gates -> Gate] /\ \A g \in Gates : WakesUp(gate[g]) => WakesUp(gate'[g])
  BY <1>1, <1>2, <1>3
<1>5. ASSUME NEW g \in Gates
      PROVE  Unheld(gate'[g]) =
               Unheld(gate[g]) + One(HoldsAt(d, g, pc[d])) - One(HoldsAt(d, g, "running"))
  BY <1>1, <1>2, <1>3, UnheldNat DEF One, HoldsAt
<1>6. QED
  BY <1>2, <1>4, <1>5, MoveKeepsTotals DEF GatesKept, PCs

LEMMA LeaveKeeps ==
  ASSUME TypeOK, NEW d \in Calls, NEW outcome, Leave(d, outcome)
  PROVE  GatesKept
<1>1. /\ GlobalSem \in Gates /\ role[d] \in Gates /\ role[d] # GlobalSem
      /\ gate \in [Gates -> Gate]
  BY DispatchConfig DEF TypeOK, Gates
<1>2. /\ pc[d] = "running" /\ UNCHANGED role
      /\ gate' = [gate EXCEPT ![GlobalSem] = Released(@), ![role[d]] = Released(@)]
      /\ pc' = [pc EXCEPT ![d] = "done"]
  BY DEF Leave
<1>3. \A g \in Gates : /\ Released(gate[g]) \in Gate
                       /\ Unheld(Released(gate[g])) = Unheld(gate[g]) + 1
                       /\ WakesUp(Released(gate[g]))
  BY <1>1, ReleasedOK
<1>4. \A g \in Gates : gate'[g] = IF g \in {GlobalSem, role[d]} THEN Released(gate[g]) ELSE gate[g]
  BY <1>1, <1>2
<1>5. gate' \in [Gates -> Gate] /\ \A g \in Gates : WakesUp(gate[g]) => WakesUp(gate'[g])
  BY <1>1, <1>2, <1>3
<1>6. ASSUME NEW g \in Gates
      PROVE  Unheld(gate'[g]) =
               Unheld(gate[g]) + One(HoldsAt(d, g, pc[d])) - One(HoldsAt(d, g, "done"))
  BY <1>1, <1>2, <1>3, <1>4, UnheldNat DEF One, HoldsAt
<1>7. QED
  BY <1>2, <1>5, <1>6, MoveKeepsTotals DEF GatesKept, PCs

LEMMA CancelAllKeeps ==
  ASSUME TypeOK, CancelAll
  PROVE  GatesKept
<1>1. gate \in [Gates -> Gate] /\ pc \in [Calls -> PCs]
  BY DEF TypeOK
<1>2. gate' = [g \in Gates |-> [gate[g] EXCEPT !.waiting = <<>>]] /\ UNCHANGED <<role, pc>>
  BY DEF CancelAll
<1>3. ASSUME NEW g \in Gates
      PROVE  /\ gate'[g] \in Gate
             /\ Unheld(gate'[g]) = Unheld(gate[g])
             /\ WakesUp(gate'[g])
  <2>1. gate[g] \in Gate /\ gate'[g] = [gate[g] EXCEPT !.waiting = <<>>]
    BY <1>1, <1>2
  <2>2. /\ gate'[g].permits = gate[g].permits
        /\ gate'[g].woken = gate[g].woken
        /\ gate'[g].waiting = <<>>
    BY <2>1 DEF Gate
  <2>3. gate'[g] \in Gate
    <3>1. <<>> \in Seq(Calls) /\ gate[g].permits \in Nat /\ gate[g].woken \in Seq(Calls)
      BY <2>1 DEF Gate
    <3>2. gate'[g] = [permits |-> gate[g].permits, woken |-> gate[g].woken, waiting |-> <<>>]
      BY <2>1 DEF Gate
    <3>3. QED
      BY <3>1, <3>2 DEF Gate
  <2>4. QED
    BY <2>2, <2>3 DEF Unheld, WakesUp
<1>4. \A g \in Gates : Holding(g)' = Holding(g)
  BY <1>2 DEF Holding, Running
<1>5. QED
  BY <1>1, <1>2, <1>3, <1>4 DEF GatesKept, Total

LEMMA UnwindRoleKeeps ==
  ASSUME TypeOK, NEW d \in Calls, UnwindRole(d)
  PROVE  GatesKept
<1>1. role[d] \in Gates /\ gate \in [Gates -> Gate] /\ gate[role[d]] \in Gate
  BY DEF TypeOK, Gates
<1>2. pc[d] = "role_wait" /\ UNCHANGED role /\ pc' = [pc EXCEPT ![d] = "done"]
  BY DEF UnwindRole
<1>3. \A g \in Gates : HoldsAt(d, g, pc[d]) = FALSE /\ HoldsAt(d, g, "done") = FALSE
  BY <1>2 DEF HoldsAt
<1>4. CASE IsWoken(d, role[d]) /\ gate' = [gate EXCEPT ![role[d]] = GivenBack(@)]
  <2>1. /\ GivenBack(gate[role[d]]) \in Gate
        /\ Unheld(GivenBack(gate[role[d]])) = Unheld(gate[role[d]])
        /\ WakesUp(GivenBack(gate[role[d]]))
    BY <1>1, <1>4, GivenBackOK DEF IsWoken
  <2>2. gate' \in [Gates -> Gate] /\ \A g \in Gates : WakesUp(gate[g]) => WakesUp(gate'[g])
    BY <1>1, <1>4, <2>1
  <2>3. \A g \in Gates : Unheld(gate'[g]) = Unheld(gate[g]) /\ Unheld(gate[g]) \in Nat
    BY <1>1, <1>4, <2>1, UnheldNat
  <2>4. \A g \in Gates : Unheld(gate'[g]) =
          Unheld(gate[g]) + One(HoldsAt(d, g, pc[d])) - One(HoldsAt(d, g, "done"))
    BY <1>3, <2>3 DEF One
  <2>5. QED
    BY <1>2, <2>2, <2>4, MoveKeepsTotals DEF GatesKept, PCs
<1>5. CASE UNCHANGED gate
  <2>1. \A g \in Gates : Unheld(gate'[g]) =
          Unheld(gate[g]) + One(HoldsAt(d, g, pc[d])) - One(HoldsAt(d, g, "done"))
    BY <1>1, <1>3, <1>5, UnheldNat DEF One
  <2>2. QED
    BY <1>1, <1>2, <1>5, <2>1, MoveKeepsTotals DEF GatesKept, PCs
<1>6. QED
  BY <1>4, <1>5 DEF UnwindRole

LEMMA UnwindGlobalKeeps ==
  ASSUME TypeOK, NEW d \in Calls, UnwindGlobal(d)
  PROVE  GatesKept
<1>1. /\ role[d] \in Gates /\ GlobalSem \in Gates /\ role[d] # GlobalSem
      /\ gate \in [Gates -> Gate]
  BY DispatchConfig DEF TypeOK, Gates
<1>2. pc[d] = "global_wait" /\ UNCHANGED role /\ pc' = [pc EXCEPT ![d] = "done"]
  BY DEF UnwindGlobal
<1>3. \A g \in Gates : One(HoldsAt(d, g, pc[d])) = One(g = role[d]) /\ One(HoldsAt(d, g, "done")) = 0
  BY <1>1, <1>2 DEF HoldsAt, One
<1>4. /\ Released(gate[role[d]]) \in Gate
      /\ Unheld(Released(gate[role[d]])) = Unheld(gate[role[d]]) + 1
      /\ WakesUp(Released(gate[role[d]]))
  BY <1>1, ReleasedOK
<1>5. CASE /\ IsWoken(d, GlobalSem)
           /\ gate' = [gate EXCEPT ![GlobalSem] = GivenBack(@), ![role[d]] = Released(@)]
  <2>1. /\ GivenBack(gate[GlobalSem]) \in Gate
        /\ Unheld(GivenBack(gate[GlobalSem])) = Unheld(gate[GlobalSem])
        /\ WakesUp(GivenBack(gate[GlobalSem]))
    BY <1>1, <1>5, GivenBackOK DEF IsWoken
  <2>2. \A g \in Gates : gate'[g] = IF g = role[d] THEN Released(gate[g])
                                    ELSE IF g = GlobalSem THEN GivenBack(gate[g]) ELSE gate[g]
    BY <1>1, <1>5
  <2>3. gate' \in [Gates -> Gate] /\ \A g \in Gates : WakesUp(gate[g]) => WakesUp(gate'[g])
    BY <1>1, <1>4, <1>5, <2>1, <2>2
  <2>4. \A g \in Gates : Unheld(gate'[g]) = Unheld(gate[g]) + One(g = role[d])
    BY <1>1, <1>4, <2>1, <2>2, UnheldNat DEF One
  <2>5. \A g \in Gates : Unheld(gate'[g]) =
          Unheld(gate[g]) + One(HoldsAt(d, g, pc[d])) - One(HoldsAt(d, g, "done"))
    BY <1>1, <1>3, <2>4, UnheldNat DEF One
  <2>6. QED
    BY <1>2, <2>3, <2>5, MoveKeepsTotals DEF GatesKept, PCs
<1>6. CASE gate' = [gate EXCEPT ![role[d]] = Released(@)]
  <2>1. gate' \in [Gates -> Gate] /\ \A g \in Gates : WakesUp(gate[g]) => WakesUp(gate'[g])
    BY <1>1, <1>4, <1>6
  <2>2. \A g \in Gates : Unheld(gate'[g]) = Unheld(gate[g]) + One(g = role[d])
    BY <1>1, <1>4, <1>6, UnheldNat DEF One
  <2>3. \A g \in Gates : Unheld(gate'[g]) =
          Unheld(gate[g]) + One(HoldsAt(d, g, pc[d])) - One(HoldsAt(d, g, "done"))
    BY <1>1, <1>3, <2>2, UnheldNat DEF One
  <2>4. QED
    BY <1>2, <2>1, <2>3, MoveKeepsTotals DEF GatesKept, PCs
<1>7. QED
  BY <1>5, <1>6 DEF UnwindGlobal

-------------------------------------------------------------------------------
(* The theorems.                                                           *)

\* The calls made are the first ones: what makes the next call a fresh one.
CallsMade == \A d \in Calls : pc[d] = "absent" <=> d > calls

LEMMA StepKeepsGates ==
  ASSUME TypeOK, CallsMade, Next
  PROVE  GatesKept
<1>1. ASSUME NEW d \in Calls, Dispatch(d)
      PROVE  GatesKept
  <2>1. pc[d] = "absent"
    BY <1>1 DEF CallsMade, Dispatch, TypeOK, Calls
  <2>2. QED
    BY <1>1, <2>1, DispatchKeeps
<1>2. ASSUME NEW d \in Calls, ResumeRole(d)
      PROVE  GatesKept
  BY <1>2, ResumeRoleKeeps
<1>3. ASSUME NEW d \in Calls, ResumeGlobal(d)
      PROVE  GatesKept
  BY <1>3, ResumeGlobalKeeps
<1>4. ASSUME NEW d \in Calls, NEW outcome \in Outcomes, Finish(d, outcome)
      PROVE  GatesKept
  BY <1>4, LeaveKeeps DEF Finish
<1>5. ASSUME NEW d \in Calls, Unwind(d)
      PROVE  GatesKept
  BY <1>5, LeaveKeeps, UnwindRoleKeeps, UnwindGlobalKeeps DEF Unwind, UnwindRun
<1>6. ASSUME CancelAll
      PROVE  GatesKept
  BY <1>6, CancelAllKeeps
<1>7. QED
  BY <1>1, <1>2, <1>3, <1>4, <1>5, <1>6 DEF Next

\* The types, with the numbering of the calls, are inductive.
Typed == TypeOK /\ CallsMade

LEMMA InitTyped == Init => Typed
<1> SUFFICES ASSUME Init PROVE Typed
  OBVIOUS
<1>1. gate \in [Gates -> Gate]
  <2>1. \A g \in Gates : NewGate(g) \in Gate
    BY NewGateOK
  <2>2. QED
    BY <2>1 DEF Init
<1>2. role \in [Calls -> Roles] /\ pc \in [Calls -> PCs] /\ stopping \in BOOLEAN
  BY DEF Init, PCs
<1>3. completed \in [Calls -> Outcomes \cup {"none"}] /\ calls \in 0 .. MaxCalls
  BY DispatchConfig DEF Init
<1>4. CallsMade
  BY DispatchConfig DEF Init, CallsMade, Calls
<1>5. QED
  BY <1>1, <1>2, <1>3, <1>4 DEF Init, Typed, TypeOK

LEMMA StepTyped ==
  ASSUME Typed, [Next]_vars
  PROVE  Typed'
<1>1. CASE Next
  <2>1. gate' \in [Gates -> Gate] /\ pc' \in [Calls -> PCs]
    BY <1>1, StepKeepsGates DEF Typed, GatesKept
  <2>2. ASSUME NEW d \in Calls, Dispatch(d)
        PROVE  Typed'
    <3>1. UNCHANGED completed /\ inflight' \subseteq Calls /\ started' \subseteq Calls
      BY <2>2 DEF Typed, TypeOK, Dispatch, EnterGlobal, eventVars
    <3>2. calls' = d /\ d = calls + 1 /\ UNCHANGED <<role, stopping>>
      BY <2>2 DEF Dispatch
    <3>3. \E x \in PCs \ {"absent"} : pc' = [pc EXCEPT ![d] = x]
      BY <2>2 DEF Dispatch, EnterGlobal, PCs
    <3>4. CallsMade'
      BY <3>2, <3>3 DEF Typed, TypeOK, CallsMade, Calls
    <3>5. QED
      BY <2>1, <3>1, <3>2, <3>4 DEF Typed, TypeOK, Calls
  <2>3. ASSUME NEW d \in Calls, NEW x \in PCs \ {"absent"},
               pc[d] # "absent", pc' = [pc EXCEPT ![d] = x],
               inflight' \subseteq Calls, started' \subseteq Calls,
               completed' \in [Calls -> Outcomes \cup {"none"}],
               UNCHANGED <<role, calls, stopping>>
        PROVE  Typed'
    BY <2>1, <2>3 DEF Typed, TypeOK, CallsMade
  <2>4. ASSUME NEW d \in Calls, ResumeRole(d)
        PROVE  Typed'
    BY <2>3, <2>4 DEF ResumeRole, EnterGlobal, eventVars, Typed, TypeOK, PCs
  <2>5. ASSUME NEW d \in Calls, ResumeGlobal(d)
        PROVE  Typed'
    BY <2>3, <2>5 DEF ResumeGlobal, Typed, TypeOK, PCs
  <2>6. ASSUME NEW d \in Calls, NEW outcome \in Outcomes, Leave(d, outcome)
        PROVE  Typed'
    BY <2>3, <2>6 DEF Leave, Typed, TypeOK, PCs
  <2>7. ASSUME NEW d \in Calls, Unwind(d)
        PROVE  Typed'
    <3>1. CASE UnwindRun(d)
      BY <2>6, <3>1 DEF UnwindRun, Outcomes
    <3>2. CASE UnwindRole(d)
      BY <2>3, <3>2 DEF UnwindRole, Typed, TypeOK, PCs
    <3>3. CASE UnwindGlobal(d)
      BY <2>3, <3>3 DEF UnwindGlobal, Typed, TypeOK, PCs
    <3>4. QED
      BY <2>7, <3>1, <3>2, <3>3 DEF Unwind
  <2>8. ASSUME CancelAll
        PROVE  Typed'
    BY <2>1, <2>8 DEF CancelAll, Typed, TypeOK, CallsMade
  <2>9. QED
    BY <1>1, <2>2, <2>4, <2>5, <2>6, <2>7, <2>8 DEF Next, Finish
<1>2. CASE UNCHANGED vars
  BY <1>2 DEF Typed, TypeOK, CallsMade, vars
<1>3. QED
  BY <1>1, <1>2

\* Every variable keeps its type, whatever the roles and the limits.
THEOREM TypeCorrect == Spec => []TypeOK
<1>1. Spec => []Typed
  BY InitTyped, StepTyped, PTL DEF Spec
<1>2. Typed => TypeOK
  BY DEF Typed
<1>3. QED
  BY <1>1, <1>2, PTL

LEMMA TypedAlways == Spec => []Typed
BY InitTyped, StepTyped, PTL DEF Spec

\* No permit of any gate is ever lost or made.
THEOREM PermitsAreConserved == Spec => []PermitsConserved
<1> DEFINE Conserved == \A g \in Gates : Total(g) = Capacity(g)
<1>1. Conserved <=> PermitsConserved
  BY DEF PermitsConserved, Total, Unheld
<1>2. Init => Conserved
  <2> SUFFICES ASSUME Init, NEW g \in Gates
               PROVE  Total(g) = Capacity(g)
    OBVIOUS
  <2>1. Holding(g) = {}
    BY DEF Init, Holding, Running
  <2>2. Unheld(gate[g]) = Capacity(g) /\ Unheld(gate[g]) \in Nat
    BY NewGateOK, UnheldNat DEF Init
  <2>3. QED
    BY <2>1, <2>2, FS_EmptySet DEF Total
<1>3. Typed /\ Conserved /\ [Next]_vars => Conserved'
  <2> SUFFICES ASSUME Typed, Conserved, [Next]_vars
               PROVE  Conserved'
    OBVIOUS
  <2>1. CASE Next
    <3>1. \A g \in Gates : Total(g)' = Total(g)
      BY <2>1, StepKeepsGates DEF Typed, GatesKept
    <3>2. QED
      BY <3>1
  <2>2. CASE UNCHANGED vars
    BY <2>2 DEF vars, Total, Holding, Running, Unheld
  <2>3. QED
    BY <2>1, <2>2
<1>4. Spec => []Conserved
  BY <1>2, <1>3, TypedAlways, PTL DEF Spec
<1>5. QED
  BY <1>1, <1>4, PTL

\* What conservation says of the runs: they stay within the limits.
LEMMA ConservedWithinCaps ==
  ASSUME TypeOK, PermitsConserved
  PROVE  RunsWithinCaps
<1>1. ASSUME NEW g \in Gates
      PROVE  Cardinality(Holding(g)) <= Capacity(g)
  <2>1. gate[g].permits \in Nat /\ Len(gate[g].woken) \in Nat
    BY SeqFacts DEF TypeOK, Gate
  <2>2. Cardinality(Holding(g)) \in Nat
    BY HoldingFinite
  <2>3. gate[g].permits + Len(gate[g].woken) + Cardinality(Holding(g)) = Capacity(g)
    BY DEF PermitsConserved
  <2>4. QED
    BY <2>1, <2>2, <2>3
<1>2. Cardinality(Running) <= MaxParallel
  <2>1. GlobalSem \in Gates /\ Holding(GlobalSem) = Running /\ Capacity(GlobalSem) = MaxParallel
    BY DEF Gates, Holding, Capacity
  <2>2. QED
    BY <1>1, <2>1
<1>3. ASSUME NEW r \in Roles
      PROVE  Cardinality(RunningAs(r)) <= Capacity(r)
  <2>1. r \in Gates /\ RunningAs(r) \subseteq Holding(r)
    BY DispatchConfig DEF Gates, Holding, RunningAs, Running
  <2>2. IsFiniteSet(Holding(r)) /\ Cardinality(Holding(r)) \in Nat
    BY <2>1, HoldingFinite
  <2>3. Cardinality(RunningAs(r)) <= Cardinality(Holding(r)) /\ Cardinality(RunningAs(r)) \in Nat
    BY <2>1, <2>2, FS_Subset, FS_CardinalityType
  <2>4. Capacity(r) \in Nat
    BY DispatchConfig DEF Capacity
  <2>5. QED
    BY <1>1, <2>1, <2>2, <2>3, <2>4
<1>4. QED
  BY <1>2, <1>3 DEF RunsWithinCaps

\* At most MaxParallel runs at a time, and of a role at most its capacity.
THEOREM CapsHold == Spec => []RunsWithinCaps
BY TypeCorrect, PermitsAreConserved, ConservedWithinCaps, PTL

\* No task waits at a gate with a free permit that nobody will pass on to it.
THEOREM WakeupsAreNotLost == Spec => []NoLostWakeup
<1>1. NoLostWakeup <=> \A g \in Gates : WakesUp(gate[g])
  BY DEF NoLostWakeup, WakesUp
<1>2. Init => NoLostWakeup
  BY <1>1, NewGateOK DEF Init
<1>3. Typed /\ NoLostWakeup /\ [Next]_vars => NoLostWakeup'
  <2> SUFFICES ASSUME Typed, NoLostWakeup, [Next]_vars
               PROVE  NoLostWakeup'
    OBVIOUS
  <2>1. CASE Next
    <3>1. \A g \in Gates : WakesUp(gate[g]) => WakesUp(gate'[g])
      BY <2>1, StepKeepsGates DEF Typed, GatesKept
    <3>2. QED
      BY <3>1 DEF NoLostWakeup, WakesUp
  <2>2. CASE UNCHANGED vars
    BY <2>2 DEF vars, NoLostWakeup
  <2>3. QED
    BY <2>1, <2>2
<1>4. QED
  BY <1>2, <1>3, TypedAlways, PTL DEF Spec

\* Only a call that is over has an outcome announced.
OutcomesLast == \A d \in Calls : completed[d] # "none" => pc[d] = "done"

\* What /agents/inflight lists is what the events announced, and what runs.
THEOREM InflightMatchesEvents == Spec => []InflightIsEventBalance
<1> DEFINE Balance == InflightIsEventBalance /\ OutcomesLast
<1>1. Init => Balance
  BY DEF Init, InflightIsEventBalance, OutcomesLast, Running
<1>2. Typed /\ Balance /\ [Next]_vars => Balance'
  <2> SUFFICES ASSUME Typed, Balance, [Next]_vars
               PROVE  Balance'
    OBVIOUS
  <2>1. ASSUME NEW d \in Calls, pc[d] \notin {"running", "done"},
               pc' = [pc EXCEPT ![d] = "running"],
               inflight' = inflight \cup {d}, started' = started \cup {d},
               UNCHANGED completed
        PROVE  Balance'
    BY <2>1 DEF InflightIsEventBalance, OutcomesLast, Running, Typed, TypeOK
  <2>2. ASSUME NEW d \in Calls, NEW x \in {"role_wait", "global_wait", "done"},
               pc[d] \notin {"running", "done"}, pc' = [pc EXCEPT ![d] = x],
               UNCHANGED eventVars
        PROVE  Balance'
    BY <2>2 DEF InflightIsEventBalance, OutcomesLast, Running, Typed, TypeOK, eventVars
  <2>3. ASSUME NEW d \in Calls, NEW outcome \in Outcomes, Leave(d, outcome)
        PROVE  Balance'
    BY <2>3 DEF Leave, InflightIsEventBalance, OutcomesLast, Running, Typed, TypeOK, Outcomes
  <2>4. ASSUME NEW d \in Calls, NEW G, EnterGlobal(d, G), pc[d] \notin {"running", "done"}
        PROVE  Balance'
    BY <2>1, <2>2, <2>4 DEF EnterGlobal
  <2>5. ASSUME NEW d \in Calls, Dispatch(d)
        PROVE  Balance'
    <3>1. pc[d] = "absent"
      BY <2>5 DEF Typed, CallsMade, Dispatch, TypeOK, Calls
    <3>2. QED
      BY <2>2, <2>4, <2>5, <3>1 DEF Dispatch
  <2>6. ASSUME NEW d \in Calls, ResumeRole(d) \/ ResumeGlobal(d)
        PROVE  Balance'
    BY <2>1, <2>4, <2>6 DEF ResumeRole, ResumeGlobal
  <2>7. ASSUME NEW d \in Calls, Unwind(d)
        PROVE  Balance'
    BY <2>2, <2>3, <2>7 DEF Unwind, UnwindRun, UnwindRole, UnwindGlobal, Outcomes, eventVars
  <2>8. ASSUME CancelAll \/ UNCHANGED vars
        PROVE  Balance'
    BY <2>8 DEF CancelAll, vars, InflightIsEventBalance, OutcomesLast, Running
  <2>9. QED
    BY <2>3, <2>5, <2>6, <2>7, <2>8 DEF Next, Finish
<1>3. QED
  BY <1>1, <1>2, TypedAlways, PTL DEF Spec

-------------------------------------------------------------------------------
(* Refinement.                                                             *)

\* A run that begins was admissible: with it the limits still hold.
LEMMA BeginsWithinCaps ==
  ASSUME Typed, RunsWithinCaps', NEW d \in Calls, pc[d] # "running",
         pc' = [pc EXCEPT ![d] = "running"], UNCHANGED role
  PROVE  /\ Cardinality(Running) < MaxParallel
         /\ Cardinality(RunningAs(role[d])) < Capacity(role[d])
<1>1. role[d] \in Roles /\ MaxParallel \in Nat /\ Capacity(role[d]) \in Nat
  BY DispatchConfig DEF Typed, TypeOK, Capacity
<1>2. IsFiniteSet(Calls)
  BY FS_Interval, DispatchConfig DEF Calls
<1>3. /\ Running' = Running \cup {d} /\ d \notin Running
      /\ RunningAs(role[d])' = RunningAs(role[d]) \cup {d} /\ d \notin RunningAs(role[d])
  BY DEF Running, RunningAs, Typed, TypeOK
<1>4. /\ IsFiniteSet(Running) /\ IsFiniteSet(RunningAs(role[d]))
      /\ Running \subseteq Calls /\ RunningAs(role[d]) \subseteq Calls
  BY <1>2, FS_Subset DEF Running, RunningAs
<1>5. /\ Cardinality(Running) \in Nat /\ Cardinality(RunningAs(role[d])) \in Nat
      /\ Cardinality(Running)' = Cardinality(Running) + 1
      /\ Cardinality(RunningAs(role[d]))' = Cardinality(RunningAs(role[d])) + 1
  BY <1>3, <1>4, FS_AddElement, FS_CardinalityType
<1>6. /\ Cardinality(Running)' <= MaxParallel
      /\ Cardinality(RunningAs(role[d]))' <= Capacity(role[d])
  BY <1>1 DEF RunsWithinCaps
<1>7. QED
  BY <1>1, <1>5, <1>6

\* The abstract status of a task that is suspended at x.
StatusAt(x) ==
  CASE x \in {"role_wait", "global_wait"} -> "pending"
    [] x = "done" -> "ended"
    [] OTHER -> x

LEMMA StatusOf ==
  /\ AbstractStatus = [d \in Calls |-> StatusAt(pc[d])]
  /\ Abstract!Running = Running
  /\ \A r \in Roles : Abstract!RunningAs(r) = RunningAs(r)
<1>1. AbstractStatus = [d \in Calls |-> StatusAt(pc[d])]
  BY DEF AbstractStatus, StatusAt
<1>2. \A x : (StatusAt(x) = "running") <=> (x = "running")
  BY DEF StatusAt
<1>3. Abstract!Running = Running
  BY <1>1, <1>2 DEF Abstract!Running, Running
<1>4. QED
  BY <1>1, <1>3 DEF Abstract!RunningAs, RunningAs

\* A task that moves from one wait to another place moves its abstract run.
LEMMA MoveMaps ==
  ASSUME Typed, NEW d \in Calls, NEW x \in PCs, pc' = [pc EXCEPT ![d] = x], UNCHANGED role
  PROVE  /\ StatusAt(pc[d]) = StatusAt(x) => UNCHANGED <<AbstractStatus, role>>
         /\ Abstract!Move(d, StatusAt(pc[d]), StatusAt(x))
<1>1. /\ AbstractStatus = [e \in Calls |-> StatusAt(pc[e])]
      /\ AbstractStatus' = [e \in Calls |-> StatusAt(pc'[e])]
  BY DEF AbstractStatus, StatusAt
<1>2. pc'[d] = x /\ \A e \in Calls \ {d} : pc'[e] = pc[e]
  BY DEF Typed, TypeOK
<1>3. AbstractStatus' = [AbstractStatus EXCEPT ![d] = StatusAt(x)]
  BY <1>1, <1>2
<1>4. QED
  BY <1>1, <1>3 DEF Abstract!Move

\* A task that begins its run takes an abstract step that has room for it.
LEMMA BeginMaps ==
  ASSUME Typed, RunsWithinCaps', NEW d \in Calls, pc[d] \notin {"running", "done"},
         pc' = [pc EXCEPT ![d] = "running"], UNCHANGED role
  PROVE  Abstract!Next
<1>1. Abstract!Admissible(d)
  <2>1. role[d] \in Roles
    BY DEF Typed, TypeOK
  <2>2. /\ Cardinality(Abstract!Running) < MaxParallel
        /\ Cardinality(Abstract!RunningAs(role[d])) < Capacity(role[d])
    BY <2>1, BeginsWithinCaps, StatusOf
  <2>3. \A S : Abstract!Cardinality(S) = Cardinality(S)
    BY DEF Abstract!Cardinality, Cardinality
  <2>4. QED
    BY <2>1, <2>2, <2>3 DEF Abstract!Admissible
<1>2. Abstract!Move(d, StatusAt(pc[d]), StatusAt("running"))
  BY MoveMaps DEF PCs
<1>3. StatusAt("running") = "running" /\ StatusAt(pc[d]) \in {"absent", "pending"}
  BY DEF StatusAt, Typed, TypeOK, PCs
<1>4. QED
  BY <1>1, <1>2, <1>3 DEF Abstract!Next, Abstract!Begin, Abstract!SubmitNow

\* Any other move of a task is a submission, the end of a run, a drop, or no
\* abstract step at all.
LEMMA OtherMoveMaps ==
  ASSUME Typed, NEW d \in Calls, NEW x \in PCs \ {"absent", "running"},
         x = "done" => pc[d] # "absent", x # "done" => pc[d] \in {"absent", "role_wait"},
         pc[d] # "done",
         pc' = [pc EXCEPT ![d] = x], UNCHANGED role
  PROVE  [Abstract!Next]_<<AbstractStatus, role>>
<1>1. /\ StatusAt(pc[d]) = StatusAt(x) => UNCHANGED <<AbstractStatus, role>>
      /\ Abstract!Move(d, StatusAt(pc[d]), StatusAt(x))
  BY MoveMaps
<1>2. \/ StatusAt(pc[d]) = StatusAt(x)
      \/ StatusAt(pc[d]) = "absent" /\ StatusAt(x) = "pending"
      \/ StatusAt(pc[d]) = "running" /\ StatusAt(x) = "ended"
      \/ StatusAt(pc[d]) = "pending" /\ StatusAt(x) = "ended"
  BY DEF StatusAt, Typed, TypeOK, PCs
<1>3. QED
  BY <1>1, <1>2 DEF Abstract!Next, Abstract!Submit, Abstract!End, Abstract!Drop

LEMMA StepMaps ==
  ASSUME Typed, RunsWithinCaps', [Next]_vars
  PROVE  [Abstract!Next]_<<AbstractStatus, role>>
<1>1. ASSUME NEW d \in Calls, NEW G, EnterGlobal(d, G), UNCHANGED role,
             pc[d] \in {"absent", "role_wait"}
      PROVE  [Abstract!Next]_<<AbstractStatus, role>>
  BY <1>1, BeginMaps, OtherMoveMaps DEF EnterGlobal, PCs
<1>2. ASSUME NEW d \in Calls, Dispatch(d)
      PROVE  [Abstract!Next]_<<AbstractStatus, role>>
  <2>1. pc[d] = "absent"
    BY <1>2 DEF Typed, CallsMade, Dispatch, TypeOK, Calls
  <2>2. QED
    BY <1>1, <1>2, <2>1, OtherMoveMaps DEF Dispatch, PCs
<1>3. ASSUME NEW d \in Calls, ResumeRole(d)
      PROVE  [Abstract!Next]_<<AbstractStatus, role>>
  BY <1>1, <1>3 DEF ResumeRole
<1>4. ASSUME NEW d \in Calls, ResumeGlobal(d)
      PROVE  [Abstract!Next]_<<AbstractStatus, role>>
  BY <1>4, BeginMaps DEF ResumeGlobal
<1>5. ASSUME NEW d \in Calls, NEW outcome, Leave(d, outcome)
      PROVE  [Abstract!Next]_<<AbstractStatus, role>>
  BY <1>5, OtherMoveMaps DEF Leave, PCs
<1>6. ASSUME NEW d \in Calls, Unwind(d)
      PROVE  [Abstract!Next]_<<AbstractStatus, role>>
  BY <1>5, <1>6, OtherMoveMaps DEF Unwind, UnwindRun, UnwindRole, UnwindGlobal, PCs
<1>7. ASSUME CancelAll \/ UNCHANGED vars
      PROVE  [Abstract!Next]_<<AbstractStatus, role>>
  BY <1>7 DEF CancelAll, vars, AbstractStatus
<1>8. QED
  BY <1>2, <1>3, <1>4, <1>5, <1>6, <1>7 DEF Next, Finish

\* The dispatcher implements the abstract bounded runner.
THEOREM Refines == Spec => ImplementsBoundedRuns
<1>1. Init => Abstract!Init
  BY StatusOf DEF Init, Abstract!Init, StatusAt
<1>2. Typed /\ RunsWithinCaps' /\ [Next]_vars => [Abstract!Next]_<<AbstractStatus, role>>
  BY StepMaps
<1>3. QED
  BY <1>1, <1>2, TypedAlways, CapsHold, PTL
    DEF Spec, ImplementsBoundedRuns, Abstract!Spec, Abstract!vars

-------------------------------------------------------------------------------
(* The order of a role's calls.                                            *)

\* The deque of waiters of a gate, who is in it, and that they came in this order.
Deque(q) == q.woken \o q.waiting
In(d, s) == \E i \in 1 .. Len(s) : s[i] = d
Ordered(s) == \A i, j \in 1 .. Len(s) : i < j => s[i] < s[j]

\* Concatenation of waiters may be regrouped.
LEMMA Regroup ==
  \A s, t, u \in Seq(Calls) : (s \o t) \o u = s \o (t \o u)
BY ConcatAssociative

\* A deque is its head and then its tail.
LEMMA HeadBeforeTail ==
  ASSUME NEW s \in Seq(Calls), s # <<>>
  PROVE  <<Head(s)>> \o Tail(s) = s
<1>1. Head(s) \in Calls /\ Tail(s) \in Seq(Calls) /\ Len(Tail(s)) = Len(s) - 1
      /\ \A i \in 1 .. Len(Tail(s)) : Tail(s)[i] = s[i + 1]
  BY HeadTailProperties
<1>2. <<Head(s)>> \in Seq(Calls) /\ Len(<<Head(s)>>) = 1 /\ <<Head(s)>>[1] = s[1]
  BY <1>1
<1>3. Len(s) \in Nat /\ Len(s) > 0
  BY LenProperties, EmptySeq
<1> DEFINE t == <<Head(s)>> \o Tail(s)
<1>4. t \in Seq(Calls) /\ Len(t) = Len(s)
      /\ \A i \in 1 .. Len(s) : t[i] = IF i <= 1 THEN <<Head(s)>>[i] ELSE Tail(s)[i - 1]
  BY <1>1, <1>2, <1>3, ConcatProperties
<1>5. ASSUME NEW i \in 1 .. Len(s) PROVE t[i] = s[i]
  <2>1. CASE i = 1
    BY <1>2, <1>4, <2>1
  <2>2. CASE i # 1
    <3>1. i - 1 \in 1 .. Len(Tail(s)) /\ (i - 1) + 1 = i
      BY <1>1, <1>3, <2>2
    <3>2. QED
      BY <1>1, <1>4, <2>2, <3>1
  <2>3. QED
    BY <2>1, <2>2
<1> HIDE DEF t
<1>6. t = s
  BY <1>4, <1>5, SeqEqual
<1>7. QED
  BY <1>6 DEF t

\* The head of two sequences together is the head of the first.
LEMMA TailOfConcat ==
  ASSUME NEW s \in Seq(Calls), NEW t \in Seq(Calls), s # <<>>
  PROVE  s \o t # <<>> /\ Head(s \o t) = Head(s) /\ Tail(s \o t) = Tail(s) \o t
<1>1. Head(s) \in Calls /\ Tail(s) \in Seq(Calls)
  BY HeadTailProperties
<1>2. <<Head(s)>> \in Seq(Calls)
  BY <1>1
<1>3. s \o t = <<Head(s)>> \o (Tail(s) \o t)
  BY <1>1, <1>2, HeadBeforeTail, ConcatAssociative
<1>4. Tail(s) \o t \in Seq(Calls)
  BY <1>1, ConcatProperties
<1>5. \A u \in Seq(Calls), d \in Calls :
        <<d>> \o u # <<>> /\ Head(<<d>> \o u) = d /\ Tail(<<d>> \o u) = u
  OBVIOUS
<1>6. QED
  BY <1>1, <1>3, <1>4, <1>5

\* What is woken stays at the head of the deque, in the order of the waiters.
LEMMA WokenNextDeque ==
  ASSUME NEW q \in Gate
  PROVE  Deque(WokenNext(q)) = Deque(q)
<1> DEFINE w == q.woken
           v == q.waiting
<1>1. w \in Seq(Calls) /\ v \in Seq(Calls)
  BY DEF Gate
<1>2. CASE v = <<>>
  BY <1>2 DEF WokenNext
<1>3. CASE v # <<>>
  <2>1. Head(v) \in Calls /\ Tail(v) \in Seq(Calls)
    BY <1>1, <1>3, HeadTailProperties
  <2>2. Deque(WokenNext(q)) = Append(w, Head(v)) \o Tail(v)
    BY <1>3 DEF WokenNext, Deque
  <2>3. Append(w, Head(v)) = w \o <<Head(v)>>
    BY <1>1, <2>1, AppendIsConcat
  <2>4. <<Head(v)>> \in Seq(Calls)
    BY <2>1
  <2>5. (w \o <<Head(v)>>) \o Tail(v) = w \o (<<Head(v)>> \o Tail(v))
    BY <1>1, <2>1, <2>4, Regroup, Zenon
  <2>6. <<Head(v)>> \o Tail(v) = v
    BY <1>1, <1>3, HeadBeforeTail
  <2>7. QED
    BY <2>2, <2>3, <2>5, <2>6 DEF Deque
<1>4. QED
  BY <1>2, <1>3

\* What the operations of a gate do to its deque.
LEMMA DequeFacts ==
  ASSUME NEW q \in Gate
  PROVE  /\ Deque(q) \in Seq(Calls)
         /\ Deque(Released(q)) = Deque(q)
         /\ Deque(Taken(q)) = Deque(q)
         /\ Open(q) => Deque(q) = <<>>
         /\ \A d \in Calls : Deque(Queued(q, d)) = Append(Deque(q), d)
         /\ q.woken # <<>> => /\ Deque(q) # <<>>
                              /\ Head(Deque(q)) = Head(q.woken)
                              /\ Deque(Resumed(q)) = Tail(Deque(q))
<1>1. q.woken \in Seq(Calls) /\ q.waiting \in Seq(Calls) /\ q.permits \in Nat
  BY DEF Gate
<1>2. Deque(q) \in Seq(Calls)
  BY <1>1, ConcatProperties DEF Deque
<1>3. Deque(Released(q)) = Deque(q)
  <2> DEFINE p == [q EXCEPT !.permits = @ + 1]
  <2>1. p \in Gate /\ Deque(p) = Deque(q)
    BY <1>1 DEF Gate, Deque
  <2>2. QED
    BY <2>1, WokenNextDeque DEF Released
<1>4. Deque(Taken(q)) = Deque(q)
  BY DEF Taken, Deque, Gate
<1>5. Open(q) => Deque(q) = <<>>
  BY <1>1, ConcatEmptySeq DEF Open, Deque
<1>6. ASSUME NEW d \in Calls PROVE Deque(Queued(q, d)) = Append(Deque(q), d)
  <2>1. Deque(Queued(q, d)) = q.woken \o Append(q.waiting, d)
    BY DEF Queued, Deque, Gate
  <2>2. Append(q.waiting, d) = q.waiting \o <<d>> /\ Append(Deque(q), d) = Deque(q) \o <<d>>
    BY <1>1, <1>2, AppendIsConcat
  <2>3. <<d>> \in Seq(Calls)
    OBVIOUS
  <2>4. (q.woken \o q.waiting) \o <<d>> = q.woken \o (q.waiting \o <<d>>)
    BY <1>1, <2>3, Regroup, Zenon
  <2>5. QED
    BY <2>1, <2>2, <2>4 DEF Deque
<1>7. ASSUME q.woken # <<>>
      PROVE  Deque(q) # <<>> /\ Head(Deque(q)) = Head(q.woken)
             /\ Deque(Resumed(q)) = Tail(Deque(q))
  <2> DEFINE p == [q EXCEPT !.woken = Tail(@)]
  <2>1. p \in Gate
    BY <1>7, WithoutHeadOK
  <2>2. Deque(p) = Tail(q.woken) \o q.waiting
    BY DEF Deque, Gate
  <2>3. Deque(Resumed(q)) = Deque(p)
    BY <2>1, WokenNextDeque DEF Resumed
  <2>4. QED
    BY <1>1, <1>7, <2>2, <2>3, TailOfConcat DEF Deque
<1>8. QED
  BY <1>2, <1>3, <1>4, <1>5, <1>6, <1>7

\* A later call joins an ordered deque; the first one leaves it.
LEMMA OrderedFacts ==
  ASSUME NEW s \in Seq(Calls), Ordered(s)
  PROVE  /\ \A d \in Calls : (\A e \in Calls : In(e, s) => e < d) =>
              /\ Ordered(Append(s, d))
              /\ \A e \in Calls : In(e, Append(s, d)) <=> In(e, s) \/ e = d
         /\ s # <<>> =>
              /\ Ordered(Tail(s))
              /\ \A e \in Calls : In(e, s) => Head(s) <= e
              /\ \A e \in Calls : In(e, Tail(s)) <=> In(e, s) /\ e # Head(s)
<1>1. Len(s) \in Nat /\ Calls \subseteq Nat /\ \A i \in 1 .. Len(s) : s[i] \in Calls
  BY LenProperties, ElementOfSeq, DispatchConfig DEF Calls
<1>2. ASSUME NEW d \in Calls, \A e \in Calls : In(e, s) => e < d
      PROVE  /\ Ordered(Append(s, d))
             /\ \A e \in Calls : In(e, Append(s, d)) <=> In(e, s) \/ e = d
  <2> DEFINE t == Append(s, d)
  <2>1. Len(t) = Len(s) + 1 /\ t[Len(s) + 1] = d /\ \A i \in 1 .. Len(s) : t[i] = s[i]
    BY AppendProperties
  <2>2. \A i \in 1 .. Len(s) : s[i] < d
    BY <1>1, <1>2 DEF In
  <2> HIDE DEF t
  <2>3. Ordered(t)
    BY <1>1, <2>1, <2>2 DEF Ordered
  <2>4. \A i \in 1 .. Len(t) : i \in 1 .. Len(s) \/ i = Len(s) + 1
    BY <1>1, <2>1
  <2>5. 1 .. Len(s) \subseteq 1 .. Len(t) /\ Len(s) + 1 \in 1 .. Len(t)
    BY <1>1, <2>1
  <2>6. ASSUME NEW e \in Calls PROVE In(e, t) <=> In(e, s) \/ e = d
    BY <2>1, <2>4, <2>5 DEF In
  <2>7. QED
    BY <2>3, <2>6 DEF t
<1>3. ASSUME s # <<>>
      PROVE  /\ Ordered(Tail(s))
             /\ \A e \in Calls : In(e, s) => Head(s) <= e
             /\ \A e \in Calls : In(e, Tail(s)) <=> In(e, s) /\ e # Head(s)
  <2> DEFINE t == Tail(s)
  <2>1. Len(t) = Len(s) - 1 /\ \A i \in 1 .. Len(t) : t[i] = s[i + 1]
    BY <1>3, HeadTailProperties
  <2>2. Len(s) > 0 /\ Head(s) = s[1]
    BY <1>3, <1>1, EmptySeq
  <2> HIDE DEF t
  <2>3. Ordered(t)
    BY <1>1, <2>1 DEF Ordered
  <2>4. \A i \in 2 .. Len(s) : s[1] < s[i]
    BY <1>1, <2>2 DEF Ordered
  <2>5. \A i \in 1 .. Len(s) : i = 1 \/ i \in 2 .. Len(s)
    BY <1>1
  <2>6. ASSUME NEW e \in Calls, In(e, s) PROVE Head(s) <= e
    <3>1. PICK i \in 1 .. Len(s) : s[i] = e
      BY <2>6 DEF In
    <3>2. s[1] = s[i] \/ s[1] < s[i]
      BY <2>4, <2>5
    <3>3. s[1] \in Nat /\ e \in Nat
      <4>1. 1 \in 1 .. Len(s)
        BY <1>1, <2>2
      <4>2. QED
        BY <1>1, <4>1
    <3>4. QED
      BY <2>2, <3>1, <3>2, <3>3
  <2>7. \A i \in 2 .. Len(s) : i - 1 \in 1 .. Len(t) /\ t[i - 1] = s[i]
    BY <1>1, <2>1
  <2>8. \A i \in 1 .. Len(t) : i + 1 \in 2 .. Len(s) /\ t[i] = s[i + 1]
    BY <1>1, <2>1
  <2>9. 1 \in 1 .. Len(s) /\ 2 .. Len(s) \subseteq 1 .. Len(s)
    BY <1>1, <2>2
  <2>10. ASSUME NEW e \in Calls, In(e, t) PROVE In(e, s) /\ e # Head(s)
    <3>1. PICK i \in 1 .. Len(t) : t[i] = e
      BY <2>10 DEF In
    <3>2. i + 1 \in 2 .. Len(s) /\ s[i + 1] = e
      BY <2>8, <3>1
    <3>3. s[1] < s[i + 1] /\ s[1] \in Nat /\ s[i + 1] \in Nat
      BY <1>1, <2>4, <2>9, <3>2
    <3>4. QED
      BY <2>2, <2>9, <3>2, <3>3 DEF In
  <2>11. ASSUME NEW e \in Calls, In(e, s), e # Head(s) PROVE In(e, t)
    <3>1. PICK i \in 1 .. Len(s) : s[i] = e
      BY <2>11 DEF In
    <3>2. i \in 2 .. Len(s)
      BY <2>2, <2>5, <2>11, <3>1
    <3>3. QED
      BY <2>7, <3>1, <3>2 DEF In
  <2>12. QED
    BY <2>3, <2>6, <2>10, <2>11 DEF t
<1>4. QED
  BY <1>2, <1>3

\* Who waits for a role sits in its deque, in the order of the calls; the calls that
\* have gone on from there leave no earlier one behind.
WaitsInOrder(r) ==
  /\ Ordered(Deque(gate[r]))
  /\ \A d \in Calls : In(d, Deque(gate[r])) <=> role[d] = r /\ pc[d] = "role_wait"

AllWaitInOrder == ~stopping => \A r \in Roles : WaitsInOrder(r)

Entered(d) == d \in started \/ pc[d] = "global_wait"

EnteredInOrder ==
  \A d, e \in Calls :
    d < e /\ role[d] = role[e] /\ Capacity(role[d]) = 1 /\ Entered(e) => pc[d] = "done"

\* A task that takes the gate of its role leaves the deques as G has them.
LEMMA EnterGlobalDeque ==
  ASSUME NEW d \in Calls, NEW G \in [Gates -> Gate], EnterGlobal(d, G), TypeOK
  PROVE  /\ \A r \in Roles : gate'[r] = G[r]
         /\ \E x \in {"global_wait", "running"} : pc' = [pc EXCEPT ![d] = x]
         /\ \A e \in Calls \ {d} : Entered(e)' <=> Entered(e)
  BY DispatchConfig DEF EnterGlobal, Gates, Entered, TypeOK, eventVars

\* A gate of one permit that has it to spare is held by nobody.
LEMMA SpareMeansFree ==
  ASSUME TypeOK, PermitsConserved, NEW r \in Roles, Capacity(r) = 1,
         gate[r].permits > 0 \/ gate[r].woken # <<>>
  PROVE  \A d \in Calls : role[d] = r => pc[d] \notin {"global_wait", "running"}
<1>1. r \in Gates /\ r # GlobalSem /\ gate[r] \in Gate
  BY DispatchConfig DEF Gates, TypeOK
<1>2. gate[r].permits \in Nat /\ gate[r].woken \in Seq(Calls)
  BY <1>1 DEF Gate
<1>3. Len(gate[r].woken) \in Nat /\ (gate[r].woken # <<>> => Len(gate[r].woken) > 0)
  BY <1>2, SeqFacts
<1>4. IsFiniteSet(Holding(r)) /\ Cardinality(Holding(r)) \in Nat
  BY <1>1, HoldingFinite
<1>5. gate[r].permits + Len(gate[r].woken) + Cardinality(Holding(r)) = 1
  BY <1>1 DEF PermitsConserved
<1>6. Cardinality(Holding(r)) = 0
  BY <1>2, <1>3, <1>4, <1>5
<1>7. Holding(r) = {}
  BY <1>4, <1>6, FS_EmptySet
<1>8. QED
  BY <1>1, <1>7 DEF Holding

\* Steps that move no call into or out of a deque.
LEMMA SameDeques ==
  ASSUME AllWaitInOrder, stopping' \/ ~stopping, UNCHANGED role,
         ~stopping' => /\ \A r \in Roles : Deque(gate'[r]) = Deque(gate[r])
                       /\ \A d \in Calls : pc'[d] = "role_wait" <=> pc[d] = "role_wait"
  PROVE  AllWaitInOrder'
  BY DEF AllWaitInOrder, WaitsInOrder

\* A call is made: it finds its gate open, or it joins the deque as the latest.
LEMMA DispatchInOrder ==
  ASSUME Typed, AllWaitInOrder, NEW d \in Calls, Dispatch(d)
  PROVE  AllWaitInOrder'
<1> DEFINE r == role[d]
<1>1. /\ TypeOK /\ r \in Roles /\ r \in Gates /\ gate \in [Gates -> Gate]
      /\ pc \in [Calls -> PCs] /\ Roles \subseteq Gates
  BY DEF Typed, TypeOK, Gates
<1>2. pc[d] = "absent" /\ UNCHANGED <<role, stopping>> /\ ~stopping
  BY DEF Typed, CallsMade, Dispatch, TypeOK, Calls
<1>3. \A s \in Roles : WaitsInOrder(s)
  BY <1>2 DEF AllWaitInOrder
<1>4. CASE Open(gate[r])
  <2> DEFINE G == [gate EXCEPT ![r] = Taken(@)]
  <2>1. EnterGlobal(d, G)
    BY <1>4 DEF Dispatch
  <2>2. Taken(gate[r]) \in Gate
    BY <1>1, <1>4, TakenOK
  <2>3. G \in [Gates -> Gate] /\ G[r] = Taken(gate[r]) /\ \A s \in Roles \ {r} : G[s] = gate[s]
    BY <1>1, <2>2
  <2> HIDE DEF G
  <2>4. \A s \in Roles : gate'[s] = G[s]
    BY <1>1, <2>1, <2>3, EnterGlobalDeque
  <2>5. ASSUME NEW s \in Roles PROVE Deque(gate'[s]) = Deque(gate[s])
    <3>1. gate[s] \in Gate /\ gate'[s] = G[s]
      BY <1>1, <2>4
    <3>2. CASE s = r
      BY <2>3, <3>1, <3>2, DequeFacts
    <3>3. CASE s # r
      BY <2>3, <3>1, <3>3
    <3>4. QED
      BY <3>2, <3>3
  <2>6. \A e \in Calls : pc'[e] = "role_wait" <=> pc[e] = "role_wait"
    BY <1>1, <1>2, <2>1, <2>3, EnterGlobalDeque
  <2>7. QED
    BY <1>2, <2>5, <2>6, SameDeques
<1>5. CASE ~Open(gate[r])
  <2>1. /\ gate' = [gate EXCEPT ![r] = Queued(@, d)]
        /\ pc' = [pc EXCEPT ![d] = "role_wait"]
    BY <1>5 DEF Dispatch
  <2>2. \A e \in Calls : pc[e] = "role_wait" => e < d
    BY DEF Typed, TypeOK, CallsMade, Dispatch, Calls
  <2>3. /\ Deque(gate[r]) \in Seq(Calls)
        /\ Deque(gate'[r]) = Append(Deque(gate[r]), d)
    BY <1>1, <2>1, DequeFacts
  <2>4. \A e \in Calls : In(e, Deque(gate[r])) => e < d
    BY <1>1, <1>3, <2>2 DEF WaitsInOrder
  <2>5. /\ Ordered(Deque(gate'[r]))
        /\ \A e \in Calls : In(e, Deque(gate'[r])) <=> In(e, Deque(gate[r])) \/ e = d
    BY <1>1, <1>3, <2>3, <2>4, OrderedFacts DEF WaitsInOrder
  <2>6. ASSUME NEW s \in Roles PROVE WaitsInOrder(s)'
    <3>1. CASE s = r
      BY <1>1, <1>2, <1>3, <2>1, <2>5, <3>1 DEF WaitsInOrder
    <3>2. CASE s # r
      BY <1>1, <1>2, <1>3, <2>1, <3>2 DEF WaitsInOrder
    <3>3. QED
      BY <3>1, <3>2
  <2>7. QED
    BY <2>6 DEF AllWaitInOrder
<1>6. QED
  BY <1>4, <1>5

\* The first of the deque resumes with the gate.
LEMMA ResumeRoleInOrder ==
  ASSUME Typed, AllWaitInOrder, NEW d \in Calls, ResumeRole(d)
  PROVE  AllWaitInOrder'
<1> DEFINE r == role[d]
           G == [gate EXCEPT ![r] = Resumed(@)]
<1>1. /\ TypeOK /\ r \in Roles /\ r \in Gates /\ gate \in [Gates -> Gate]
      /\ pc \in [Calls -> PCs] /\ Roles \subseteq Gates
  BY DEF Typed, TypeOK, Gates
<1>2. /\ ~stopping /\ pc[d] = "role_wait" /\ UNCHANGED <<role, stopping>>
      /\ gate[r].woken # <<>> /\ Head(gate[r].woken) = d /\ EnterGlobal(d, G)
  BY DEF ResumeRole, IsWoken
<1>3. Resumed(gate[r]) \in Gate
  BY <1>1, <1>2, ResumedOK
<1>4. G \in [Gates -> Gate] /\ G[r] = Resumed(gate[r]) /\ \A s \in Roles \ {r} : G[s] = gate[s]
  BY <1>1, <1>3
<1> HIDE DEF G
<1>5. /\ \A s \in Roles : gate'[s] = G[s]
      /\ pc'[d] # "role_wait" /\ \A e \in Calls \ {d} : pc'[e] = pc[e]
  BY <1>1, <1>2, <1>4, EnterGlobalDeque
<1>6. /\ Deque(gate[r]) \in Seq(Calls) /\ Deque(gate[r]) # <<>> /\ Head(Deque(gate[r])) = d
      /\ Deque(gate'[r]) = Tail(Deque(gate[r]))
  <2>1. gate[r] \in Gate /\ gate'[r] = Resumed(gate[r])
    BY <1>1, <1>4, <1>5
  <2>2. QED
    BY <1>2, <2>1, DequeFacts
<1>7. \A s \in Roles : WaitsInOrder(s)
  BY <1>2 DEF AllWaitInOrder
<1>8. /\ Ordered(Deque(gate'[r]))
      /\ \A e \in Calls : In(e, Deque(gate'[r])) <=> In(e, Deque(gate[r])) /\ e # d
  BY <1>1, <1>6, <1>7, OrderedFacts DEF WaitsInOrder
<1>9. ASSUME NEW s \in Roles PROVE WaitsInOrder(s)'
  <2>1. CASE s = r
    BY <1>1, <1>2, <1>5, <1>7, <1>8, <2>1 DEF WaitsInOrder
  <2>2. CASE s # r
    <3>1. gate'[s] = gate[s]
      BY <1>4, <1>5, <2>2
    <3>2. QED
      BY <1>2, <1>5, <1>7, <2>2, <3>1 DEF WaitsInOrder
  <2>3. QED
    BY <2>1, <2>2
<1>10. QED
  BY <1>9 DEF AllWaitInOrder

\* Every step keeps the deques of the roles in the order of the calls.
LEMMA StepInOrder ==
  ASSUME Typed, AllWaitInOrder, [Next]_vars
  PROVE  AllWaitInOrder'
<1>1. /\ gate \in [Gates -> Gate] /\ role \in [Calls -> Roles] /\ pc \in [Calls -> PCs]
      /\ Roles \subseteq Gates /\ GlobalSem \notin Roles
  BY DispatchConfig DEF Typed, TypeOK, Gates
<1>2. ASSUME NEW d \in Calls, ResumeGlobal(d) PROVE AllWaitInOrder'
  <2>1. \A r \in Roles : gate'[r] = gate[r]
    BY <1>1, <1>2 DEF ResumeGlobal
  <2>2. \A e \in Calls : pc'[e] = "role_wait" <=> pc[e] = "role_wait"
    BY <1>1, <1>2 DEF ResumeGlobal
  <2>3. QED
    BY <1>2, <2>1, <2>2, SameDeques DEF ResumeGlobal
<1>3. ASSUME NEW d \in Calls, NEW outcome \in Outcomes, Finish(d, outcome) PROVE AllWaitInOrder'
  <2>1. \A r \in Roles : gate'[r] = gate[r] \/ gate'[r] = Released(gate[r])
    BY <1>1, <1>3 DEF Finish, Leave
  <2>2. \A r \in Roles : Deque(gate'[r]) = Deque(gate[r])
    BY <1>1, <2>1, DequeFacts
  <2>3. \A e \in Calls : pc'[e] = "role_wait" <=> pc[e] = "role_wait"
    BY <1>1, <1>3 DEF Finish, Leave
  <2>4. QED
    BY <1>3, <2>2, <2>3, SameDeques DEF Finish, Leave
<1>4. ASSUME NEW d \in Calls, Unwind(d) PROVE AllWaitInOrder'
  BY <1>4 DEF Unwind, UnwindRun, UnwindRole, UnwindGlobal, Leave, AllWaitInOrder
<1>5. ASSUME CancelAll PROVE AllWaitInOrder'
  BY <1>5 DEF CancelAll, AllWaitInOrder
<1>6. CASE UNCHANGED vars
  BY <1>6 DEF vars, AllWaitInOrder, WaitsInOrder
<1>7. QED
  BY <1>2, <1>3, <1>4, <1>5, <1>6, DispatchInOrder, ResumeRoleInOrder DEF Next

\* All earlier calls of a role that d's call shares, if its gate has one permit, are over.
NoneAhead(d) ==
  \A c \in Calls : c < d /\ role[c] = role[d] /\ Capacity(role[c]) = 1 => pc[c] = "done"

\* A step that ends nothing that is over, and lets a call enter with none ahead of it.
LEMMA EnteringKeeps ==
  ASSUME EnteredInOrder, UNCHANGED role,
         \A d \in Calls : pc[d] = "done" => pc'[d] = "done",
         \A d \in Calls : Entered(d)' => Entered(d) \/ NoneAhead(d)
  PROVE  EnteredInOrder'
  BY DEF EnteredInOrder, NoneAhead

\* A call that finds the gate of its role open, or heads its deque, has none ahead.
LEMMA FirstHasNoneAhead ==
  ASSUME Typed, PermitsConserved, NEW d \in Calls, WaitsInOrder(role[d]),
         \/ Open(gate[role[d]]) /\ d = calls + 1
         \/ IsWoken(d, role[d]) /\ pc[d] = "role_wait"
  PROVE  NoneAhead(d)
<1> DEFINE r == role[d]
<1>1. TypeOK /\ r \in Roles /\ r \in Gates /\ gate[r] \in Gate /\ calls \in Nat
  BY DEF Typed, TypeOK, Gates
<1> SUFFICES ASSUME NEW c \in Calls, c < d, role[c] = r, Capacity(r) = 1
             PROVE  pc[c] = "done"
  BY DEF NoneAhead
<1>2. pc[c] # "absent"
  BY <1>1 DEF Typed, CallsMade, Calls
<1>3. pc[c] \notin {"global_wait", "running"}
  <2>1. gate[r].permits > 0 \/ gate[r].woken # <<>>
    BY DEF Open, IsWoken
  <2>2. QED
    BY <1>1, <2>1, SpareMeansFree
<1>4. Deque(gate[r]) \in Seq(Calls)
  BY <1>1, DequeFacts
<1>5. ~In(c, Deque(gate[r]))
  <2>1. CASE Open(gate[r])
    <3>1. Deque(gate[r]) = <<>>
      BY <1>1, <2>1, DequeFacts
    <3>2. QED
      BY <3>1 DEF In
  <2>2. CASE IsWoken(d, r)
    <3>1. Deque(gate[r]) # <<>> /\ Head(Deque(gate[r])) = d
      BY <1>1, <2>2, DequeFacts DEF IsWoken
    <3>2. \A e \in Calls : In(e, Deque(gate[r])) => d <= e
      BY <1>4, <3>1, OrderedFacts DEF WaitsInOrder
    <3>3. c \in Nat /\ d \in Nat
      BY DEF Calls
    <3>4. QED
      BY <3>2, <3>3
  <2>3. QED
    BY <2>1, <2>2
<1>6. pc[c] # "role_wait"
  BY <1>5 DEF WaitsInOrder
<1>7. QED
  BY <1>1, <1>2, <1>3, <1>6 DEF TypeOK, PCs

\* Every step lets calls of a serial role enter with none ahead.
LEMMA StepEntersInOrder ==
  ASSUME Typed, PermitsConserved, AllWaitInOrder, EnteredInOrder, [Next]_vars
  PROVE  EnteredInOrder'
<1>1. TypeOK /\ role \in [Calls -> Roles] /\ pc \in [Calls -> PCs] /\ gate \in [Gates -> Gate]
      /\ Roles \subseteq Gates
  BY DEF Typed, TypeOK, Gates
<1>2. ASSUME NEW d \in Calls, Dispatch(d) PROVE EnteredInOrder'
  <2>1. pc[d] = "absent" /\ ~stopping /\ UNCHANGED role /\ d = calls + 1
    BY <1>2 DEF Typed, CallsMade, Dispatch, TypeOK, Calls
  <2>2. CASE Open(gate[role[d]])
    <3> DEFINE G == [gate EXCEPT ![role[d]] = Taken(@)]
    <3>1. EnterGlobal(d, G)
      BY <1>2, <2>2 DEF Dispatch
    <3>2. G \in [Gates -> Gate]
      BY <1>1, <2>2, TakenOK
    <3> HIDE DEF G
    <3>3. NoneAhead(d)
      BY <1>1, <2>1, <2>2, FirstHasNoneAhead DEF AllWaitInOrder
    <3>4. /\ \A e \in Calls : pc[e] = "done" => pc'[e] = "done"
          /\ \A e \in Calls \ {d} : Entered(e)' <=> Entered(e)
      BY <1>1, <2>1, <3>1, <3>2, EnterGlobalDeque
    <3>5. QED
      BY <2>1, <3>3, <3>4, EnteringKeeps
  <2>3. CASE ~Open(gate[role[d]])
    <3>1. pc' = [pc EXCEPT ![d] = "role_wait"] /\ UNCHANGED started
      BY <1>2, <2>3 DEF Dispatch, eventVars
    <3>2. QED
      BY <1>1, <2>1, <3>1, EnteringKeeps DEF Entered
  <2>4. QED
    BY <2>2, <2>3
<1>3. ASSUME NEW d \in Calls, ResumeRole(d) PROVE EnteredInOrder'
  <2> DEFINE G == [gate EXCEPT ![role[d]] = Resumed(@)]
  <2>1. /\ ~stopping /\ pc[d] = "role_wait" /\ IsWoken(d, role[d]) /\ UNCHANGED role
        /\ EnterGlobal(d, G)
    BY <1>3 DEF ResumeRole
  <2>2. G \in [Gates -> Gate]
    BY <1>1, <2>1, ResumedOK DEF IsWoken
  <2> HIDE DEF G
  <2>3. NoneAhead(d)
    BY <1>1, <2>1, FirstHasNoneAhead DEF AllWaitInOrder
  <2>4. /\ \A e \in Calls : pc[e] = "done" => pc'[e] = "done"
        /\ \A e \in Calls \ {d} : Entered(e)' <=> Entered(e)
    BY <1>1, <2>1, <2>2, EnterGlobalDeque
  <2>5. QED
    BY <2>1, <2>3, <2>4, EnteringKeeps
<1>4. ASSUME NEW d \in Calls, ResumeGlobal(d) PROVE EnteredInOrder'
  BY <1>1, <1>4, EnteringKeeps DEF ResumeGlobal, Entered
<1>5. ASSUME NEW d \in Calls, NEW outcome, Leave(d, outcome) PROVE EnteredInOrder'
  BY <1>1, <1>5, EnteringKeeps DEF Leave, Entered
<1>6. ASSUME NEW d \in Calls, UnwindRole(d) \/ UnwindGlobal(d) PROVE EnteredInOrder'
  BY <1>1, <1>6, EnteringKeeps DEF UnwindRole, UnwindGlobal, Entered
<1>7. ASSUME CancelAll \/ UNCHANGED vars PROVE EnteredInOrder'
  BY <1>7, EnteringKeeps DEF CancelAll, vars, Entered
<1>8. QED
  BY <1>2, <1>3, <1>4, <1>5, <1>6, <1>7 DEF Next, Finish, Unwind, UnwindRun

\* The runs of a role with one permit start in the order of the calls, each when all
\* before it are over.
THEOREM SerialRolesRunInOrder == Spec => []SerialRoleInOrder
<1>1. Init => AllWaitInOrder /\ EnteredInOrder
  <2> SUFFICES ASSUME Init PROVE AllWaitInOrder /\ EnteredInOrder
    OBVIOUS
  <2>1. \A r \in Roles : Deque(gate[r]) = <<>>
    BY DEF Init, Gates, NewGate, Deque
  <2>2. \A d \in Calls : pc[d] = "absent" /\ started = {}
    BY DEF Init
  <2>3. QED
    BY <2>1, <2>2 DEF AllWaitInOrder, WaitsInOrder, Ordered, In, EnteredInOrder, Entered
<1>2. EnteredInOrder => SerialRoleInOrder
  BY DEF EnteredInOrder, SerialRoleInOrder, Entered
<1>3. QED
  BY <1>1, <1>2, StepInOrder, StepEntersInOrder, TypedAlways, PermitsAreConserved, PTL
    DEF Spec


-------------------------------------------------------------------------------
(* Nobody waits for ever on everybody, and nothing is left behind.         *)

Distinct(s) == \A i, j \in 1 .. Len(s) : i < j => s[i] # s[j]

\* The task of call d is suspended in the acquire() of gate g.
WaitsAt(d, g) ==
  IF g = GlobalSem THEN pc[d] = "global_wait" ELSE role[d] = g /\ pc[d] = "role_wait"

\* A deque holds tasks that wait at its gate, each once; while the process is not
\* stopping, all of them.  After that only woken ones are left in it.
QueuedRight(g) ==
  /\ Distinct(Deque(gate[g]))
  /\ \A d \in Calls : In(d, Deque(gate[g])) => WaitsAt(d, g)
  /\ ~stopping => \A d \in Calls : WaitsAt(d, g) => In(d, Deque(gate[g]))
  /\ stopping => gate[g].waiting = <<>>

AllQueuedRight == \A g \in Gates : QueuedRight(g)

\* Who joins a deque, or leaves it from its head, is in it once.
LEMMA DistinctFacts ==
  ASSUME NEW s \in Seq(Calls), Distinct(s)
  PROVE  /\ \A d \in Calls : ~In(d, s) =>
              /\ Distinct(Append(s, d))
              /\ \A e \in Calls : In(e, Append(s, d)) <=> In(e, s) \/ e = d
         /\ s # <<>> =>
              /\ Distinct(Tail(s))
              /\ In(Head(s), s)
              /\ \A e \in Calls : In(e, Tail(s)) <=> In(e, s) /\ e # Head(s)
<1>1. Len(s) \in Nat /\ \A i \in 1 .. Len(s) : s[i] \in Calls
  BY LenProperties, ElementOfSeq
<1>2. ASSUME NEW d \in Calls, ~In(d, s)
      PROVE  /\ Distinct(Append(s, d))
             /\ \A e \in Calls : In(e, Append(s, d)) <=> In(e, s) \/ e = d
  <2> DEFINE t == Append(s, d)
  <2>1. Len(t) = Len(s) + 1 /\ t[Len(s) + 1] = d /\ \A i \in 1 .. Len(s) : t[i] = s[i]
    BY AppendProperties
  <2>2. \A i \in 1 .. Len(s) : s[i] # d
    BY <1>2 DEF In
  <2> HIDE DEF t
  <2>3. Distinct(t)
    BY <1>1, <2>1, <2>2 DEF Distinct
  <2>4. /\ \A i \in 1 .. Len(t) : i \in 1 .. Len(s) \/ i = Len(s) + 1
        /\ 1 .. Len(s) \subseteq 1 .. Len(t) /\ Len(s) + 1 \in 1 .. Len(t)
    BY <1>1, <2>1
  <2>5. ASSUME NEW e \in Calls PROVE In(e, t) <=> In(e, s) \/ e = d
    BY <2>1, <2>4 DEF In
  <2>6. QED
    BY <2>3, <2>5 DEF t
<1>3. ASSUME s # <<>>
      PROVE  /\ Distinct(Tail(s))
             /\ In(Head(s), s)
             /\ \A e \in Calls : In(e, Tail(s)) <=> In(e, s) /\ e # Head(s)
  <2> DEFINE t == Tail(s)
  <2>1. Len(t) = Len(s) - 1 /\ \A i \in 1 .. Len(t) : t[i] = s[i + 1]
    BY <1>3, HeadTailProperties
  <2>2. Len(s) > 0 /\ Head(s) = s[1] /\ 1 \in 1 .. Len(s)
    BY <1>3, <1>1, EmptySeq
  <2> HIDE DEF t
  <2>3. Distinct(t)
    BY <1>1, <2>1 DEF Distinct
  <2>4. /\ \A i \in 1 .. Len(s) : i = 1 \/ (i - 1 \in 1 .. Len(t) /\ t[i - 1] = s[i])
        /\ \A i \in 1 .. Len(t) : i + 1 \in 1 .. Len(s) /\ 1 < i + 1
    <3>1. ASSUME NEW i \in 1 .. Len(s), i # 1 PROVE i - 1 \in 1 .. Len(t) /\ t[i - 1] = s[i]
      <4>1. i - 1 \in 1 .. Len(t) /\ (i - 1) + 1 = i
        BY <1>1, <2>1, <3>1
      <4>2. QED
        BY <2>1, <4>1
    <3>2. \A i \in 1 .. Len(t) : i + 1 \in 1 .. Len(s) /\ 1 < i + 1
      BY <1>1, <2>1
    <3>3. QED
      BY <3>1, <3>2
  <2>5. ASSUME NEW e \in Calls, In(e, t) PROVE In(e, s) /\ e # Head(s)
    <3>1. PICK i \in 1 .. Len(t) : t[i] = e
      BY <2>5 DEF In
    <3>2. i + 1 \in 1 .. Len(s) /\ s[i + 1] = e /\ s[1] # s[i + 1]
      BY <2>1, <2>2, <2>4, <3>1 DEF Distinct
    <3>3. QED
      BY <2>2, <3>2 DEF In
  <2>6. ASSUME NEW e \in Calls, In(e, s), e # Head(s) PROVE In(e, t)
    BY <2>2, <2>4, <2>6 DEF In
  <2>7. QED
    BY <2>2, <2>3, <2>5, <2>6 DEF In, t
<1>4. QED
  BY <1>2, <1>3

\* Giving back what a woken waiter was given takes it off the deque; a gate without
\* waiters that were not woken gets none by a release.
LEMMA GivenBackDeque ==
  ASSUME NEW q \in Gate
  PROVE  /\ q.woken # <<>> => Deque(GivenBack(q)) = Tail(Deque(q))
         /\ q.waiting = <<>> => Released(q).waiting = <<>> /\ GivenBack(q).waiting = <<>>
<1>1. q.woken \in Seq(Calls) /\ q.waiting \in Seq(Calls)
  BY DEF Gate
<1>2. ASSUME q.woken # <<>> PROVE Deque(GivenBack(q)) = Tail(Deque(q))
  <2> DEFINE p == [q EXCEPT !.woken = Tail(@)]
  <2>1. p \in Gate
    BY <1>2, WithoutHeadOK
  <2>2. Deque(p) = Tail(q.woken) \o q.waiting
    BY DEF Deque, Gate
  <2>3. Deque(GivenBack(q)) = Deque(p)
    BY <2>1, DequeFacts DEF GivenBack
  <2>4. QED
    BY <1>1, <1>2, <2>2, <2>3, TailOfConcat DEF Deque
<1>3. ASSUME q.waiting = <<>> PROVE Released(q).waiting = <<>> /\ GivenBack(q).waiting = <<>>
  BY <1>3 DEF Released, GivenBack, WokenNext, Gate
<1>4. QED
  BY <1>2, <1>3

\* A step that leaves the deque of g as it is, and takes none of its tasks from there.
LEMMA SameQueue ==
  ASSUME NEW g \in Gates, QueuedRight(g), UNCHANGED stopping,
         Deque(gate'[g]) = Deque(gate[g]), stopping => gate'[g].waiting = <<>>,
         \A d \in Calls : In(d, Deque(gate[g])) /\ WaitsAt(d, g) => WaitsAt(d, g)',
         ~stopping => \A d \in Calls : WaitsAt(d, g)' => WaitsAt(d, g)
  PROVE  QueuedRight(g)'
  BY DEF QueuedRight

\* A step in which d comes to wait at g and joins its deque.
LEMMA JoinsQueue ==
  ASSUME TypeOK, NEW g \in Gates, QueuedRight(g), ~stopping, ~stopping', NEW d \in Calls,
         Deque(gate'[g]) = Append(Deque(gate[g]), d),
         ~WaitsAt(d, g), WaitsAt(d, g)',
         \A e \in Calls \ {d} : WaitsAt(e, g)' <=> WaitsAt(e, g)
  PROVE  QueuedRight(g)'
<1>1. Deque(gate[g]) \in Seq(Calls) /\ Distinct(Deque(gate[g])) /\ ~In(d, Deque(gate[g]))
  BY DequeFacts DEF TypeOK, QueuedRight
<1>2. /\ Distinct(Deque(gate'[g]))
      /\ \A e \in Calls : In(e, Deque(gate'[g])) <=> In(e, Deque(gate[g])) \/ e = d
  BY <1>1, DistinctFacts
<1>3. QED
  BY <1>2 DEF QueuedRight

\* A step in which d, woken first, waits at g no longer and leaves its deque.
LEMMA LeavesQueue ==
  ASSUME TypeOK, NEW g \in Gates, QueuedRight(g), UNCHANGED stopping, NEW d \in Calls,
         IsWoken(d, g), Deque(gate'[g]) = Tail(Deque(gate[g])),
         stopping => gate'[g].waiting = <<>>,
         ~WaitsAt(d, g)', \A e \in Calls \ {d} : WaitsAt(e, g)' <=> WaitsAt(e, g)
  PROVE  QueuedRight(g)'
<1>1. /\ Deque(gate[g]) \in Seq(Calls) /\ Distinct(Deque(gate[g]))
      /\ Deque(gate[g]) # <<>> /\ Head(Deque(gate[g])) = d
  BY DequeFacts DEF TypeOK, QueuedRight, IsWoken
<1>2. /\ Distinct(Deque(gate'[g]))
      /\ \A e \in Calls : In(e, Deque(gate'[g])) <=> In(e, Deque(gate[g])) /\ e # d
  BY <1>1, DistinctFacts
<1>3. QED
  BY <1>2 DEF QueuedRight

\* The moves of one task change where it waits, and where nobody else does.
LEMMA WaitsMove ==
  ASSUME TypeOK, NEW d \in Calls, NEW x \in PCs,
         pc' = [pc EXCEPT ![d] = x], UNCHANGED role
  PROVE  /\ \A g \in Gates : \A e \in Calls \ {d} : WaitsAt(e, g)' <=> WaitsAt(e, g)
         /\ \A g \in Gates : WaitsAt(d, g)' <=>
              IF g = GlobalSem THEN x = "global_wait" ELSE role[d] = g /\ x = "role_wait"
  BY DEF TypeOK, WaitsAt

\* From the role gate on: the task may join the deque of the global semaphore.
LEMMA EnterQueues ==
  ASSUME TypeOK, NEW d \in Calls, pc[d] \in {"absent", "role_wait"}, ~stopping,
         UNCHANGED <<role, stopping>>, NEW G \in [Gates -> Gate],
         G[GlobalSem] = gate[GlobalSem], EnterGlobal(d, G), QueuedRight(GlobalSem)
  PROVE  /\ QueuedRight(GlobalSem)'
         /\ \A r \in Roles : gate'[r] = G[r]
         /\ \A r \in Roles : ~WaitsAt(d, r)'
         /\ \A g \in Gates : \A e \in Calls \ {d} : WaitsAt(e, g)' <=> WaitsAt(e, g)
<1>1. GlobalSem \in Gates /\ GlobalSem \notin Roles /\ Roles \subseteq Gates
      /\ gate[GlobalSem] \in Gate /\ {"running", "global_wait"} \subseteq PCs
  BY DispatchConfig DEF TypeOK, Gates, PCs
<1>2. ~WaitsAt(d, GlobalSem)
  BY DEF WaitsAt
<1>3. CASE Open(G[GlobalSem]) /\ gate' = [G EXCEPT ![GlobalSem] = Taken(@)]
           /\ pc' = [pc EXCEPT ![d] = "running"]
  <2>1. /\ \A g \in Gates : \A e \in Calls \ {d} : WaitsAt(e, g)' <=> WaitsAt(e, g)
        /\ \A g \in Gates : ~WaitsAt(d, g)'
    <3>1. "running" \in PCs /\ pc' = [pc EXCEPT ![d] = "running"] /\ UNCHANGED role
      BY <1>1, <1>3
    <3>2. /\ \A g \in Gates : \A e \in Calls \ {d} : WaitsAt(e, g)' <=> WaitsAt(e, g)
          /\ \A g \in Gates : WaitsAt(d, g)' <=>
               IF g = GlobalSem THEN "running" = "global_wait"
               ELSE role[d] = g /\ "running" = "role_wait"
      BY <3>1, WaitsMove
    <3>3. QED
      BY <3>2
  <2>2. gate'[GlobalSem] = Taken(gate[GlobalSem]) /\ \A r \in Roles : gate'[r] = G[r]
    BY <1>1, <1>3
  <2>3. Deque(gate'[GlobalSem]) = Deque(gate[GlobalSem])
    BY <1>1, <2>2, DequeFacts
  <2>4. \A e \in Calls : WaitsAt(e, GlobalSem)' <=> WaitsAt(e, GlobalSem)
    BY <1>1, <1>2, <2>1
  <2>5. QueuedRight(GlobalSem)'
    BY <1>1, <2>3, <2>4, SameQueue
  <2>6. QED
    BY <1>1, <2>1, <2>2, <2>5
<1>4. CASE ~Open(G[GlobalSem]) /\ gate' = [G EXCEPT ![GlobalSem] = Queued(@, d)]
           /\ pc' = [pc EXCEPT ![d] = "global_wait"]
  <2>1. /\ \A g \in Gates : \A e \in Calls \ {d} : WaitsAt(e, g)' <=> WaitsAt(e, g)
        /\ WaitsAt(d, GlobalSem)' /\ \A r \in Roles : ~WaitsAt(d, r)'
    BY <1>1, <1>4, WaitsMove
  <2>2. gate'[GlobalSem] = Queued(gate[GlobalSem], d) /\ \A r \in Roles : gate'[r] = G[r]
    BY <1>1, <1>4
  <2>3. Deque(gate'[GlobalSem]) = Append(Deque(gate[GlobalSem]), d)
    BY <1>1, <2>2, DequeFacts
  <2>4. QueuedRight(GlobalSem)'
    BY <1>1, <1>2, <2>1, <2>3, JoinsQueue
  <2>5. QED
    BY <2>1, <2>2, <2>4
<1>5. QED
  BY <1>3, <1>4 DEF EnterGlobal

\* A call is made.
LEMMA DispatchQueues ==
  ASSUME Typed, AllQueuedRight, NEW d \in Calls, Dispatch(d)
  PROVE  AllQueuedRight'
<1> DEFINE r == role[d]
<1>1. /\ TypeOK /\ r \in Roles /\ r \in Gates /\ gate \in [Gates -> Gate] /\ r # GlobalSem
      /\ GlobalSem \in Gates /\ Gates = Roles \cup {GlobalSem} /\ "role_wait" \in PCs
  BY DispatchConfig DEF Typed, TypeOK, Gates, PCs
<1>2. pc[d] = "absent" /\ UNCHANGED <<role, stopping>> /\ ~stopping
  BY DEF Typed, CallsMade, Dispatch, TypeOK, Calls
<1>3. \A g \in Gates : QueuedRight(g) /\ ~WaitsAt(d, g) /\ gate[g] \in Gate
  BY <1>1, <1>2 DEF AllQueuedRight, WaitsAt
<1>4. CASE Open(gate[r])
  <2> DEFINE G == [gate EXCEPT ![r] = Taken(@)]
  <2>1. EnterGlobal(d, G)
    BY <1>4 DEF Dispatch
  <2>2. Taken(gate[r]) \in Gate
    BY <1>1, <1>4, TakenOK
  <2>3. G \in [Gates -> Gate] /\ G[r] = Taken(gate[r]) /\ \A g \in Gates \ {r} : G[g] = gate[g]
    BY <1>1, <2>2
  <2> HIDE DEF G
  <2>4. /\ QueuedRight(GlobalSem)'
        /\ \A s \in Roles : gate'[s] = G[s] /\ ~WaitsAt(d, s)'
        /\ \A g \in Gates : \A e \in Calls \ {d} : WaitsAt(e, g)' <=> WaitsAt(e, g)
    BY <1>1, <1>2, <1>3, <2>1, <2>3, EnterQueues
  <2>5. ASSUME NEW s \in Roles PROVE QueuedRight(s)'
    <3>1. s \in Gates /\ gate'[s] = G[s] /\ \A e \in Calls : WaitsAt(e, s)' <=> WaitsAt(e, s)
      BY <1>1, <1>3, <2>4
    <3>2. Deque(gate'[s]) = Deque(gate[s])
      <4>1. CASE s = r
        BY <1>3, <2>3, <3>1, <4>1, DequeFacts
      <4>2. CASE s # r
        BY <2>3, <3>1, <4>2
      <4>3. QED
        BY <4>1, <4>2
    <3>3. QED
      BY <1>2, <1>3, <3>1, <3>2, SameQueue
  <2>6. QED
    BY <1>1, <2>4, <2>5 DEF AllQueuedRight
<1>5. CASE ~Open(gate[r])
  <2>1. /\ gate' = [gate EXCEPT ![r] = Queued(@, d)]
        /\ pc' = [pc EXCEPT ![d] = "role_wait"]
    BY <1>5 DEF Dispatch
  <2>2. /\ \A g \in Gates : \A e \in Calls \ {d} : WaitsAt(e, g)' <=> WaitsAt(e, g)
        /\ \A g \in Gates : WaitsAt(d, g)' <=> g = r
    BY <1>1, <1>2, <2>1, WaitsMove
  <2>3. ASSUME NEW g \in Gates PROVE QueuedRight(g)'
    <3>1. CASE g = r
      <4>1. Deque(gate'[g]) = Append(Deque(gate[g]), d)
        BY <1>1, <2>1, <3>1, DequeFacts
      <4>2. QED
        BY <1>1, <1>2, <1>3, <2>2, <3>1, <4>1, JoinsQueue
    <3>2. CASE g # r
      <4>1. gate'[g] = gate[g] /\ \A e \in Calls : WaitsAt(e, g)' <=> WaitsAt(e, g)
        BY <1>1, <1>3, <2>1, <2>2, <3>2
      <4>2. QED
        BY <1>2, <1>3, <4>1, SameQueue
    <3>3. QED
      BY <3>1, <3>2
  <2>4. QED
    BY <2>3 DEF AllQueuedRight
<1>6. QED
  BY <1>4, <1>5

\* The first of a role's deque resumes with the gate.
LEMMA ResumeRoleQueues ==
  ASSUME Typed, AllQueuedRight, NEW d \in Calls, ResumeRole(d)
  PROVE  AllQueuedRight'
<1> DEFINE r == role[d]
           G == [gate EXCEPT ![r] = Resumed(@)]
<1>1. /\ TypeOK /\ r \in Roles /\ r \in Gates /\ gate \in [Gates -> Gate] /\ r # GlobalSem
      /\ GlobalSem \in Gates /\ Gates = Roles \cup {GlobalSem}
  BY DispatchConfig DEF Typed, TypeOK, Gates
<1>2. /\ ~stopping /\ pc[d] = "role_wait" /\ UNCHANGED <<role, stopping>>
      /\ gate[r].woken # <<>> /\ IsWoken(d, r) /\ EnterGlobal(d, G)
  BY DEF ResumeRole, IsWoken
<1>3. \A g \in Gates : QueuedRight(g) /\ gate[g] \in Gate
  BY <1>1 DEF AllQueuedRight
<1>4. Resumed(gate[r]) \in Gate
  BY <1>1, <1>2, ResumedOK
<1>5. G \in [Gates -> Gate] /\ G[r] = Resumed(gate[r]) /\ \A g \in Gates \ {r} : G[g] = gate[g]
  BY <1>1, <1>4
<1> HIDE DEF G
<1>6. /\ QueuedRight(GlobalSem)'
      /\ \A s \in Roles : gate'[s] = G[s] /\ ~WaitsAt(d, s)'
      /\ \A g \in Gates : \A e \in Calls \ {d} : WaitsAt(e, g)' <=> WaitsAt(e, g)
  BY <1>1, <1>2, <1>3, <1>5, EnterQueues
<1>7. ASSUME NEW s \in Roles PROVE QueuedRight(s)'
  <2>1. CASE s = r
    <3>1. s \in Gates /\ gate[s] \in Gate /\ gate[s].woken # <<>> /\ IsWoken(d, s)
      BY <1>1, <1>2, <1>3, <2>1
    <3>2. gate'[s] = Resumed(gate[s]) /\ ~WaitsAt(d, s)'
      BY <1>5, <1>6, <2>1
    <3>3. Deque(gate'[s]) = Tail(Deque(gate[s]))
      BY <3>1, <3>2, DequeFacts
    <3>4. QED
      BY <1>1, <1>2, <1>3, <1>6, <3>1, <3>2, <3>3, LeavesQueue
  <2>2. CASE s # r
    <3>1. s \in Gates /\ s \in Gates \ {r} /\ ~WaitsAt(d, s)'
      BY <1>1, <1>6, <2>2
    <3>2. gate'[s] = gate[s]
      BY <1>5, <1>6, <3>1
    <3>3. ~WaitsAt(d, s)
      BY <2>2, DispatchConfig DEF WaitsAt
    <3>4. \A e \in Calls : WaitsAt(e, s)' <=> WaitsAt(e, s)
      BY <1>6, <3>1, <3>3
    <3>5. QED
      BY <1>2, <1>3, <3>1, <3>2, <3>4, SameQueue
  <2>3. QED
    BY <2>1, <2>2
<1>8. QED
  BY <1>1, <1>6, <1>7 DEF AllQueuedRight

\* A waiter of the global semaphore resumes and runs.
LEMMA ResumeGlobalQueues ==
  ASSUME Typed, AllQueuedRight, NEW d \in Calls, ResumeGlobal(d)
  PROVE  AllQueuedRight'
<1>1. /\ TypeOK /\ gate \in [Gates -> Gate] /\ "running" \in PCs /\ GlobalSem \in Gates
      /\ ~stopping /\ pc[d] = "global_wait" /\ IsWoken(d, GlobalSem)
      /\ gate[GlobalSem].woken # <<>> /\ UNCHANGED <<role, stopping>>
      /\ gate' = [gate EXCEPT ![GlobalSem] = Resumed(@)] /\ pc' = [pc EXCEPT ![d] = "running"]
  BY DEF Typed, TypeOK, ResumeGlobal, PCs, Gates, IsWoken
<1>2. /\ \A g \in Gates : \A e \in Calls \ {d} : WaitsAt(e, g)' <=> WaitsAt(e, g)
      /\ \A g \in Gates : WaitsAt(d, g)' <=>
           IF g = GlobalSem THEN "running" = "global_wait"
           ELSE role[d] = g /\ "running" = "role_wait"
  BY <1>1, WaitsMove
<1>3. ASSUME NEW g \in Gates PROVE QueuedRight(g)'
  <2>1. QueuedRight(g) /\ gate[g] \in Gate /\ ~WaitsAt(d, g)'
    BY <1>1, <1>2 DEF AllQueuedRight
  <2>2. CASE g = GlobalSem
    <3>1. gate'[g] = Resumed(gate[g])
      BY <1>1, <2>2
    <3>2. Deque(gate'[g]) = Tail(Deque(gate[g]))
      BY <1>1, <2>1, <2>2, <3>1, DequeFacts
    <3>3. QED
      BY <1>1, <1>2, <2>1, <2>2, <3>2, LeavesQueue
  <2>3. CASE g # GlobalSem
    <3>1. gate'[g] = gate[g] /\ ~WaitsAt(d, g)
      BY <1>1, <2>3 DEF WaitsAt
    <3>2. \A e \in Calls : WaitsAt(e, g)' <=> WaitsAt(e, g)
      BY <1>2, <2>1, <3>1
    <3>3. QED
      BY <1>1, <2>1, <3>1, <3>2, SameQueue
  <2>4. QED
    BY <2>2, <2>3
<1>4. QED
  BY <1>3 DEF AllQueuedRight

\* A release, or nothing, leaves the queue of g right, when no one moves from or to it.
LEMMA ReleaseQueues ==
  ASSUME TypeOK, NEW g \in Gates, QueuedRight(g), UNCHANGED stopping,
         gate'[g] = Released(gate[g]) \/ gate'[g] = gate[g],
         \A e \in Calls : WaitsAt(e, g)' <=> WaitsAt(e, g)
  PROVE  QueuedRight(g)'
<1>1. gate[g] \in Gate
  BY DEF TypeOK
<1>2. Deque(gate'[g]) = Deque(gate[g])
  BY <1>1, DequeFacts
<1>3. stopping => gate'[g].waiting = <<>>
  BY <1>1, GivenBackDeque DEF QueuedRight
<1>4. QED
  BY <1>2, <1>3, SameQueue

\* A run ends and releases both gates.
LEMMA LeaveQueues ==
  ASSUME Typed, AllQueuedRight, NEW d \in Calls, NEW outcome, Leave(d, outcome)
  PROVE  AllQueuedRight'
<1>1. /\ TypeOK /\ gate \in [Gates -> Gate] /\ "done" \in PCs /\ pc[d] = "running"
      /\ UNCHANGED <<role, stopping>> /\ pc' = [pc EXCEPT ![d] = "done"]
      /\ gate' = [gate EXCEPT ![GlobalSem] = Released(@), ![role[d]] = Released(@)]
      /\ role[d] # GlobalSem
  BY DispatchConfig DEF Typed, TypeOK, Leave, PCs, Gates
<1>2. /\ \A g \in Gates : \A e \in Calls \ {d} : WaitsAt(e, g)' <=> WaitsAt(e, g)
      /\ \A g \in Gates : WaitsAt(d, g)' <=>
           IF g = GlobalSem THEN "done" = "global_wait" ELSE role[d] = g /\ "done" = "role_wait"
  BY <1>1, WaitsMove
<1>3. ASSUME NEW g \in Gates PROVE QueuedRight(g)'
  <2>1. QueuedRight(g) /\ ~WaitsAt(d, g)' /\ ~WaitsAt(d, g)
    BY <1>1, <1>2 DEF AllQueuedRight, WaitsAt
  <2>2. gate'[g] = Released(gate[g]) \/ gate'[g] = gate[g]
    BY <1>1
  <2>3. QED
    BY <1>1, <1>2, <2>1, <2>2, ReleaseQueues
<1>4. QED
  BY <1>3 DEF AllQueuedRight

\* A cancelled waiter gives back what it was given, or has already left the deque.
LEMMA UnwindWait ==
  ASSUME TypeOK, NEW g \in Gates, QueuedRight(g), stopping, UNCHANGED stopping, NEW d \in Calls,
         \/ IsWoken(d, g) /\ gate'[g] = GivenBack(gate[g])
         \/ ~AmongWoken(d, g) /\ gate'[g] = gate[g],
         ~WaitsAt(d, g)', \A e \in Calls \ {d} : WaitsAt(e, g)' <=> WaitsAt(e, g)
  PROVE  QueuedRight(g)'
<1>1. gate[g] \in Gate /\ gate[g].waiting = <<>> /\ gate[g].woken \in Seq(Calls)
  BY DEF TypeOK, QueuedRight, Gate
<1>2. CASE IsWoken(d, g) /\ gate'[g] = GivenBack(gate[g])
  <2>1. Deque(gate'[g]) = Tail(Deque(gate[g])) /\ gate'[g].waiting = <<>>
    BY <1>1, <1>2, GivenBackDeque DEF IsWoken
  <2>2. QED
    BY <1>2, <2>1, LeavesQueue
<1>3. CASE ~AmongWoken(d, g) /\ gate'[g] = gate[g]
  <2>1. Deque(gate[g]) = gate[g].woken
    BY <1>1, ConcatEmptySeq DEF Deque
  <2>2. ~In(d, Deque(gate[g]))
    BY <1>1, <1>3, <2>1 DEF In, AmongWoken
  <2>3. \A e \in Calls : In(e, Deque(gate[g])) /\ WaitsAt(e, g) => WaitsAt(e, g)'
    BY <2>2
  <2>4. QED
    BY <1>1, <1>3, <2>3, SameQueue
<1>4. QED
  BY <1>2, <1>3

\* The exits of cancelled waiters.
LEMMA UnwindQueues ==
  ASSUME Typed, AllQueuedRight, NEW d \in Calls, UnwindRole(d) \/ UnwindGlobal(d)
  PROVE  AllQueuedRight'
<1>1. /\ TypeOK /\ gate \in [Gates -> Gate] /\ "done" \in PCs
      /\ stopping /\ UNCHANGED <<role, stopping>> /\ pc' = [pc EXCEPT ![d] = "done"]
      /\ role[d] # GlobalSem /\ role[d] \in Gates /\ GlobalSem \in Gates
  BY DispatchConfig DEF Typed, TypeOK, UnwindRole, UnwindGlobal, PCs, Gates
<1>2. /\ \A g \in Gates : \A e \in Calls \ {d} : WaitsAt(e, g)' <=> WaitsAt(e, g)
      /\ \A g \in Gates : WaitsAt(d, g)' <=>
           IF g = GlobalSem THEN "done" = "global_wait" ELSE role[d] = g /\ "done" = "role_wait"
  BY <1>1, WaitsMove
<1>3. ASSUME NEW g \in Gates PROVE QueuedRight(g)'
  <2>1. QueuedRight(g) /\ ~WaitsAt(d, g)'
    BY <1>1, <1>2 DEF AllQueuedRight
  <2>2. CASE UnwindRole(d)
    <3>1. CASE g = role[d]
      <4>1. \/ IsWoken(d, g) /\ gate'[g] = GivenBack(gate[g])
            \/ ~AmongWoken(d, g) /\ gate'[g] = gate[g]
        BY <1>1, <2>2, <3>1 DEF UnwindRole
      <4>2. QED
        BY <1>1, <1>2, <2>1, <4>1, UnwindWait
    <3>2. CASE g # role[d]
      <4>1. gate'[g] = gate[g] /\ ~WaitsAt(d, g)
        BY <1>1, <2>2, <3>2 DEF UnwindRole, WaitsAt
      <4>2. QED
        BY <1>1, <1>2, <2>1, <4>1, ReleaseQueues
    <3>3. QED
      BY <3>1, <3>2
  <2>3. CASE UnwindGlobal(d)
    <3>1. CASE g = GlobalSem
      <4>1. \/ IsWoken(d, g) /\ gate'[g] = GivenBack(gate[g])
            \/ ~AmongWoken(d, g) /\ gate'[g] = gate[g]
        BY <1>1, <2>3, <3>1 DEF UnwindGlobal
      <4>2. QED
        BY <1>1, <1>2, <2>1, <4>1, UnwindWait
    <3>2. CASE g # GlobalSem
      <4>1. gate'[g] = Released(gate[g]) \/ gate'[g] = gate[g]
        BY <1>1, <2>3, <3>2 DEF UnwindGlobal
      <4>2. ~WaitsAt(d, g)
        BY <1>1, <2>3, <3>2 DEF UnwindGlobal, WaitsAt
      <4>3. QED
        BY <1>1, <1>2, <2>1, <4>1, <4>2, ReleaseQueues
    <3>3. QED
      BY <3>1, <3>2
  <2>4. QED
    BY <2>2, <2>3
<1>4. QED
  BY <1>3 DEF AllQueuedRight

\* The cancellation empties the deques but for those that were woken.
LEMMA CancelAllQueues ==
  ASSUME Typed, AllQueuedRight, CancelAll
  PROVE  AllQueuedRight'
<1> SUFFICES ASSUME NEW g \in Gates PROVE QueuedRight(g)'
  BY DEF AllQueuedRight
<1> DEFINE w == gate[g].woken
           v == gate[g].waiting
<1>1. /\ QueuedRight(g) /\ stopping' /\ UNCHANGED <<role, pc>>
      /\ w \in Seq(Calls) /\ v \in Seq(Calls)
      /\ gate'[g].woken = w /\ gate'[g].waiting = <<>>
  BY DEF Typed, TypeOK, Gate, CancelAll, AllQueuedRight
<1> HIDE DEF w, v
<1>2. Deque(gate[g]) = w \o v /\ Deque(gate'[g]) = w
  BY <1>1, ConcatEmptySeq DEF Deque, w, v
<1>3. /\ Len(w) \in Nat /\ Len(v) \in Nat /\ Len(w \o v) = Len(w) + Len(v)
      /\ \A i \in 1 .. Len(w) : (w \o v)[i] = w[i]
  BY <1>1, ConcatProperties, LenProperties
<1>4. 1 .. Len(w) \subseteq 1 .. Len(w \o v)
  BY <1>3
<1>5. Distinct(w) /\ \A d \in Calls : In(d, w) => In(d, w \o v)
  <2> DEFINE x == w \o v
  <2>1. Distinct(x)
    BY <1>1, <1>2 DEF QueuedRight
  <2>2. 1 .. Len(w) \subseteq 1 .. Len(x) /\ \A i \in 1 .. Len(w) : x[i] = w[i]
    BY <1>3, <1>4
  <2> HIDE DEF x
  <2>3. Distinct(w)
    BY <2>1, <2>2 DEF Distinct
  <2>4. \A d \in Calls : In(d, w) => In(d, x)
    BY <2>2 DEF In
  <2>5. QED
    BY <2>3, <2>4 DEF x
<1>6. \A d \in Calls : WaitsAt(d, g)' <=> WaitsAt(d, g)
  BY <1>1 DEF WaitsAt
<1>7. QED
  BY <1>1, <1>2, <1>5, <1>6 DEF QueuedRight

\* The deques of the gates hold just who waits there, and once.
LEMMA QueuesAlwaysRight == Spec => []AllQueuedRight
<1>1. Init => AllQueuedRight
  <2> SUFFICES ASSUME Init, NEW g \in Gates PROVE QueuedRight(g)
    BY DEF AllQueuedRight
  <2>1. Deque(gate[g]) = <<>> /\ ~stopping
    BY DEF Init, NewGate, Deque
  <2>2. \A d \in Calls : ~WaitsAt(d, g)
    BY DEF Init, WaitsAt
  <2>3. QED
    BY <2>1, <2>2 DEF QueuedRight, Distinct, In
<1>2. Typed /\ AllQueuedRight /\ [Next]_vars => AllQueuedRight'
  <2> SUFFICES ASSUME Typed, AllQueuedRight, [Next]_vars PROVE AllQueuedRight'
    OBVIOUS
  <2>1. CASE UNCHANGED vars
    BY <2>1 DEF vars, AllQueuedRight, QueuedRight, WaitsAt
  <2>2. QED
    BY <2>1, DispatchQueues, ResumeRoleQueues, ResumeGlobalQueues, LeaveQueues, UnwindQueues,
       CancelAllQueues
    DEF Next, Finish, Unwind, UnwindRun
<1>3. QED
  BY <1>1, <1>2, TypedAlways, PTL DEF Spec

\* The task of call d can take its next step now: it runs, or the gate it waits at has
\* woken it, or it was cancelled there (the guards of the task's own actions).
GoesOn(d) ==
  \/ pc[d] = "running"
  \/ \E g \in Gates :
       /\ WaitsAt(d, g)
       /\ IsWoken(d, g) \/ (stopping /\ ~AmongWoken(d, g))

SomebodyGoesOn ==
  (\E d \in Calls : pc[d] \notin {"absent", "done"}) => \E d \in Calls : GoesOn(d)

\* A gate that somebody waits at has woken a task that waits, or is held by one.
LEMMA WaitsForSomebody ==
  ASSUME TypeOK, AllQueuedRight, PermitsConserved, NoLostWakeup,
         NEW g \in Gates, NEW d \in Calls, WaitsAt(d, g)
  PROVE  (\E e \in Calls : GoesOn(e)) \/ Holding(g) # {}
<1>1. /\ QueuedRight(g) /\ gate[g] \in Gate /\ gate[g].permits \in Nat
      /\ gate[g].woken \in Seq(Calls) /\ gate[g].waiting \in Seq(Calls)
  BY DEF AllQueuedRight, TypeOK, Gate
<1>2. CASE gate[g].woken # <<>>
  <2>1. PICK e \in Calls : e = Head(gate[g].woken)
    BY <1>1, <1>2, SeqFacts
  <2>2. IsWoken(e, g)
    BY <1>2, <2>1 DEF IsWoken
  <2>3. Deque(gate[g]) \in Seq(Calls) /\ Deque(gate[g]) # <<>> /\ Head(Deque(gate[g])) = e
    BY <1>1, <1>2, <2>1, DequeFacts
  <2>4. In(e, Deque(gate[g]))
    BY <1>1, <2>3, DistinctFacts DEF QueuedRight
  <2>5. WaitsAt(e, g)
    BY <1>1, <2>4 DEF QueuedRight
  <2>6. QED
    BY <2>2, <2>5 DEF GoesOn
<1>3. CASE gate[g].woken = <<>> /\ stopping
  BY <1>3 DEF GoesOn, AmongWoken
<1>4. CASE gate[g].woken = <<>> /\ ~stopping
  <2>1. In(d, Deque(gate[g]))
    BY <1>1, <1>4 DEF QueuedRight
  <2>2. gate[g].waiting # <<>>
    <3>1. SUFFICES ASSUME gate[g].waiting = <<>> PROVE FALSE
      OBVIOUS
    <3>2. Deque(gate[g]) = <<>>
      BY <1>4, <3>1 DEF Deque
    <3>3. QED
      BY <2>1, <3>2 DEF In
  <2>3. gate[g].permits = 0
    BY <1>1, <1>4, <2>2 DEF NoLostWakeup
  <2>4. Cardinality(Holding(g)) = Capacity(g)
    BY <1>4, <2>3, HoldingFinite DEF PermitsConserved
  <2>5. Capacity(g) # 0
    BY DispatchConfig DEF Capacity, Gates
  <2>6. QED
    BY <2>4, <2>5, FS_EmptySet
<1>5. QED
  BY <1>2, <1>3, <1>4

\* No set of calls waits for each other at the two levels of gates: as long as a call is
\* not over, some task runs or can go on, also while everything is being cancelled.
THEOREM SomebodyAlwaysGoesOn == Spec => []SomebodyGoesOn
<1>1. Typed /\ AllQueuedRight /\ PermitsConserved /\ NoLostWakeup => SomebodyGoesOn
  <2> SUFFICES ASSUME Typed, AllQueuedRight, PermitsConserved, NoLostWakeup,
                      NEW d \in Calls, pc[d] \notin {"absent", "done"}
               PROVE  \E e \in Calls : GoesOn(e)
    BY DEF SomebodyGoesOn
  <2>1. /\ TypeOK /\ role[d] \in Roles /\ role[d] \in Gates /\ GlobalSem \in Gates
        /\ role[d] # GlobalSem /\ pc[d] \in {"role_wait", "global_wait", "running"}
    BY DispatchConfig DEF Typed, TypeOK, Gates, PCs
  <2>2. ASSUME NEW e \in Calls, pc[e] = "running" PROVE GoesOn(e)
    BY <2>2 DEF GoesOn
  <2>3. ASSUME NEW e \in Calls, pc[e] = "global_wait" PROVE \E c \in Calls : GoesOn(c)
    <3>1. WaitsAt(e, GlobalSem)
      BY <2>3 DEF WaitsAt
    <3>2. CASE Holding(GlobalSem) # {}
      BY <2>2, <3>2 DEF Holding, Running
    <3>3. QED
      BY <2>1, <3>1, <3>2, WaitsForSomebody
  <2>4. CASE pc[d] = "role_wait"
    <3>1. WaitsAt(d, role[d])
      BY <2>1, <2>4 DEF WaitsAt
    <3>2. CASE Holding(role[d]) # {}
      <4>1. PICK e \in Calls : pc[e] \in {"global_wait", "running"}
        BY <2>1, <3>2 DEF Holding
      <4>2. QED
        BY <2>2, <2>3, <4>1
    <3>3. QED
      BY <2>1, <3>1, <3>2, WaitsForSomebody
  <2>5. QED
    BY <2>1, <2>2, <2>3, <2>4
<1>2. QED
  BY <1>1, TypedAlways, QueuesAlwaysRight, PermitsAreConserved, WakeupsAreNotLost, PTL

IdleIsNew ==
  (\A d \in Calls : pc[d] \in {"absent", "done"}) => \A g \in Gates : gate[g] = NewGate(g)

\* When all calls are over, every gate is as it was made: whatever was woken, failed or
\* was cancelled on the way left neither a permit taken nor a waiter behind.
THEOREM IdleIsAlwaysNew == Spec => []IdleIsNew
<1>1. Typed /\ AllQueuedRight /\ PermitsConserved => IdleIsNew
  <2> SUFFICES ASSUME Typed, AllQueuedRight, PermitsConserved,
                      \A d \in Calls : pc[d] \in {"absent", "done"}, NEW g \in Gates
               PROVE  gate[g] = NewGate(g)
    BY DEF IdleIsNew
  <2>1. /\ QueuedRight(g) /\ gate[g] \in Gate /\ gate[g].permits \in Nat
        /\ gate[g].woken \in Seq(Calls) /\ gate[g].waiting \in Seq(Calls)
    BY DEF Typed, AllQueuedRight, TypeOK, Gate
  <2>2. Deque(gate[g]) \in Seq(Calls) /\ \A d \in Calls : ~In(d, Deque(gate[g]))
    BY <2>1, DequeFacts DEF QueuedRight, WaitsAt
  <2>3. Deque(gate[g]) = <<>>
    <3>1. SUFFICES ASSUME Deque(gate[g]) # <<>> PROVE FALSE
      OBVIOUS
    <3>2. In(Head(Deque(gate[g])), Deque(gate[g])) /\ Head(Deque(gate[g])) \in Calls
      BY <2>1, <2>2, <3>1, DistinctFacts, SeqFacts DEF QueuedRight
    <3>3. QED
      BY <2>2, <3>2
  <2>4. gate[g].woken = <<>> /\ gate[g].waiting = <<>>
    <3>1. gate[g].woken = <<>>
      <4>1. gate[g].woken # <<>> => Deque(gate[g]) # <<>>
        BY <2>1, DequeFacts
      <4>2. QED
        BY <2>3, <4>1
    <3>2. Deque(gate[g]) = gate[g].waiting
      BY <2>1, <3>1, ConcatEmptySeq DEF Deque
    <3>3. QED
      BY <2>3, <3>1, <3>2
  <2>5. Holding(g) = {}
    BY DEF Holding, Running
  <2>6. gate[g].permits = Capacity(g)
    <3>1. gate[g].permits + Len(gate[g].woken) + Cardinality(Holding(g)) = Capacity(g)
      BY DEF PermitsConserved
    <3>2. Len(gate[g].woken) = 0 /\ Cardinality(Holding(g)) = 0
      BY <2>4, <2>5, FS_EmptySet
    <3>3. QED
      BY <2>1, <3>1, <3>2
  <2>7. QED
    BY <2>1, <2>4, <2>6 DEF Gate, NewGate
<1>2. QED
  BY <1>1, TypedAlways, QueuesAlwaysRight, PermitsAreConserved, PTL
===============================================================================
