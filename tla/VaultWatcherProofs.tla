-------------------------- MODULE VaultWatcherProofs --------------------------
(***************************************************************************)
(* Proofs about VaultWatcher.  Each of the safety properties is inductive  *)
(* once the types are known; the drain at shutdown needs in addition that  *)
(* a closed debouncer gets no more pushes, from which it also follows that *)
(* the shutdown never stalls.                                              *)
(***************************************************************************)
EXTENDS VaultWatcher, TLAPS

LEMMA TypeInit == Init => TypeOK
<1> SUFFICES ASSUME Init PROVE TypeOK
  OBVIOUS
<1>1. Pending = {} /\ last \in [Pending -> 0 .. Window]
  BY DEF Init, Pending
<1>2. edits \in 0 .. MaxEdits /\ content \in 0 .. MaxEdits /\ timer \in 0 .. Window
  BY WatcherAssumption DEF Init
<1>3. disk \in [Paths -> 0 .. MaxEdits]
  BY WatcherAssumption DEF Init
<1>4. wake \in BOOLEAN /\ closed \in BOOLEAN
  BY DEF Init
<1>5. QED
  BY <1>1, <1>2, <1>3, <1>4 DEF Init, TypeOK

LEMMA AfterType == ASSUME NEW left PROVE After(left) \in {"running", "yielding"}
BY DEF After

\* What the debouncer is left with after each kind of step.
LEMMA LastNext ==
  ASSUME TypeOK, Next
  PROVE  Pending' \subseteq Paths /\ last' \in [Pending' -> 0 .. Window]
<1>1. /\ Window \in Nat \ {0} /\ Pending \subseteq Paths /\ last \in [Pending -> 0 .. Window]
      /\ changed \subseteq Paths
  BY WatcherAssumption DEF TypeOK
<1>2. CASE \E S \in SUBSET changed : Deliver(S)
  <2>1. PICK S \in SUBSET changed : last' = [p \in Pending \cup S |-> IF p \in S THEN 0 ELSE last[p]]
    BY <1>2 DEF Deliver, Pushed
  <2>2. QED
    BY <1>1, <2>1 DEF Pending
<1>3. CASE Tick
  <2>1. last' = [p \in Pending |-> IF last[p] < Window THEN last[p] + 1 ELSE Window]
    BY <1>3 DEF Tick
  <2>2. QED
    BY <1>1, <2>1 DEF Pending
<1>4. CASE \E p \in Paths : Yield(p)
  <2>1. PICK p \in Paths : last' = [q \in Pending \ {p} |-> last[q]]
    BY <1>4 DEF Yield
  <2>2. QED
    BY <1>1, <2>1 DEF Pending
<1>5. CASE UNCHANGED last
  BY <1>1, <1>5 DEF Pending
<1>6. QED
  BY <1>2, <1>3, <1>4, <1>5 DEF Next, Consumer, Write, Remove, End, SleepEmpty, SleepPending,
    Sleep, Collect, Captured, CaptureFails, WakeUp, Stop, CloseStores

LEMMA TimerNext ==
  ASSUME TypeOK, Next
  PROVE  timer' \in 0 .. Window
<1>1. Window \in Nat \ {0} /\ timer \in 0 .. Window /\ last \in [Pending -> 0 .. Window]
  BY WatcherAssumption DEF TypeOK
<1>2. CASE Tick
  BY <1>1, <1>2 DEF Tick
<1>3. CASE SleepEmpty
  BY <1>1, <1>3 DEF SleepEmpty, Sleep
<1>4. CASE SleepPending
  <2>1. PICK p \in Pending : timer' = Window - last[p]
    BY <1>4 DEF SleepPending, Sleep
  <2>2. last[p] \in 0 .. Window
    BY <1>1
  <2>3. QED
    BY <1>1, <2>1, <2>2
<1>5. CASE UNCHANGED timer
  BY <1>1, <1>5
<1>6. QED
  BY <1>2, <1>3, <1>4, <1>5 DEF Next, Consumer, Write, Remove, Deliver, End, Collect, Yield,
    Captured, CaptureFails, WakeUp, Stop, CloseStores, streamVars

\* While a capture goes on, there is a content.
CapturingSome == pc = "capturing" => content \in Contents /\ path \in Paths

LEMMA TypeNext ==
  TypeOK /\ CapturingSome /\ [Next]_vars => TypeOK' /\ CapturingSome'
<1> SUFFICES ASSUME TypeOK, CapturingSome, [Next]_vars
             PROVE  TypeOK' /\ CapturingSome'
  OBVIOUS
<1>0. MaxEdits \in Nat
  BY WatcherAssumption
<1>1. CASE UNCHANGED vars
  BY <1>1 DEF vars, TypeOK, CapturingSome, Pending
<1>2. CASE Next
  <2>1. Pending' \subseteq Paths /\ last' \in [Pending' -> 0 .. Window] /\ timer' \in 0 .. Window
    BY <1>2, LastNext, TimerNext
  <2>2. ASSUME NEW p \in Paths, Write(p)
        PROVE  TypeOK' /\ CapturingSome'
    <3>1. edits' \in 0 .. MaxEdits /\ disk' \in [Paths -> 0 .. MaxEdits] /\ changed' \subseteq Paths
      BY <1>0, <2>2 DEF Write, TypeOK
    <3>2. QED
      BY <2>1, <2>2, <3>1 DEF Write, TypeOK, CapturingSome, streamVars, captureVars
  <2>3. ASSUME NEW p \in Paths, Remove(p)
        PROVE  TypeOK' /\ CapturingSome'
    <3>1. disk' \in [Paths -> 0 .. MaxEdits]
      BY <1>0, <2>3 DEF Remove, TypeOK
    <3>2. QED
      BY <2>1, <2>3, <3>1 DEF Remove, TypeOK, CapturingSome, streamVars, captureVars
  <2>4. ASSUME NEW S \in SUBSET changed, Deliver(S)
        PROVE  TypeOK' /\ CapturingSome'
    BY <2>1, <2>4 DEF Deliver, TypeOK, CapturingSome, fileVars, streamVars, captureVars
  <2>5. ASSUME NEW p \in Paths, Yield(p)
        PROVE  TypeOK' /\ CapturingSome'
    <3>1. disk[p] \in 0 .. MaxEdits /\ rest' \subseteq Paths
      BY <2>5 DEF Yield, TypeOK
    <3>2. \/ pc' \in {"running", "yielding"} /\ UNCHANGED <<path, content>>
          \/ pc' = "capturing" /\ path' = p /\ content' \in Contents /\ content' \in 0 .. MaxEdits
      BY <1>0, <2>5, <3>1, AfterType DEF Yield, Contents
    <3>3. QED
      BY <2>1, <2>5, <3>1, <3>2 DEF Yield, TypeOK, CapturingSome, fileVars
  <2>6. ASSUME Captured \/ CaptureFails
        PROVE  TypeOK' /\ CapturingSome'
    <3>1. stored' \subseteq Contents /\ lost' \subseteq Contents
      BY <2>6 DEF Captured, CaptureFails, TypeOK, CapturingSome
    <3>2. pc' \in {"running", "yielding"} /\ path' = NoPath /\ content' = 0
      BY <2>6, AfterType DEF Captured, CaptureFails
    <3>3. QED
      BY <1>0, <2>1, <2>6, <3>1, <3>2 DEF Captured, CaptureFails, TypeOK, CapturingSome, fileVars
  <2>7. ASSUME Tick \/ WakeUp \/ End \/ SleepEmpty \/ SleepPending
        PROVE  TypeOK' /\ CapturingSome'
    BY <2>1, <2>7 DEF Tick, WakeUp, End, SleepEmpty, SleepPending, Sleep, TypeOK,
      CapturingSome, fileVars, captureVars
  <2>8. ASSUME Collect
        PROVE  TypeOK' /\ CapturingSome'
    BY <2>1, <2>8 DEF Collect, Ready, TypeOK, CapturingSome, fileVars, captureVars
  <2>9. ASSUME Stop \/ CloseStores
        PROVE  TypeOK' /\ CapturingSome'
    BY <2>1, <2>9 DEF Stop, CloseStores, TypeOK, CapturingSome, fileVars, streamVars, captureVars
  <2>10. QED
    BY <1>2, <2>2, <2>3, <2>4, <2>5, <2>6, <2>7, <2>8, <2>9 DEF Next, Consumer
<1>3. QED
  BY <1>1, <1>2

\* Every state of the watcher is well typed.
THEOREM WatcherTypes == Spec => []TypeOK
<1>1. Init => TypeOK /\ CapturingSome
  BY TypeInit DEF Init, CapturingSome
<1>2. QED
  BY <1>1, TypeNext, PTL DEF Spec

-------------------------------------------------------------------------------
\* The generator's list only holds paths that are still pending, so that it
\* never deletes a key that is not there.
LEMMA RestNext == TypeOK /\ RestIsPending /\ [Next]_vars => RestIsPending'
<1> SUFFICES ASSUME TypeOK, RestIsPending, [Next]_vars
             PROVE  RestIsPending'
  OBVIOUS
<1>1. CASE \E S \in SUBSET changed : Deliver(S)
  BY <1>1 DEF Deliver, Pushed, RestIsPending, Pending, streamVars
<1>2. CASE \E p \in Paths : Yield(p)
  BY <1>2 DEF Yield, RestIsPending, Pending
<1>3. CASE Collect
  BY <1>3 DEF Collect, Ready, RestIsPending, Pending
<1>4. CASE Tick
  BY <1>4 DEF Tick, RestIsPending, Pending
<1>5. CASE UNCHANGED <<last, rest>>
  BY <1>5 DEF RestIsPending, Pending
<1>6. QED
  BY <1>1, <1>2, <1>3, <1>4, <1>5 DEF Next, Consumer, Write, Remove, End, SleepEmpty, SleepPending,
    Sleep, Captured, CaptureFails, WakeUp, Stop, CloseStores, streamVars, vars

\* `del self._last[p]` never meets a path that is not there.
THEOREM RestIsAlwaysPending == Spec => []RestIsPending
<1>1. Init => RestIsPending
  BY DEF Init, RestIsPending
<1>2. QED
  BY <1>1, RestNext, WatcherTypes, PTL DEF Spec

-------------------------------------------------------------------------------
LEMMA OversleepNext == TypeOK /\ NoOversleep /\ [Next]_vars => NoOversleep'
<1> SUFFICES ASSUME TypeOK, NoOversleep, [Next]_vars,
                    pc' = "asleep", ~wake', NEW p \in Pending'
             PROVE  timer' + last'[p] <= Window
  BY DEF NoOversleep
<1>0. /\ Window \in Nat \ {0} /\ timer \in 0 .. Window
      /\ last \in [Pending -> 0 .. Window]
  BY WatcherAssumption DEF TypeOK
<1>1. CASE Tick
  <2>1. p \in Pending /\ pc = "asleep" /\ ~wake
    BY <1>1 DEF Tick, Pending
  <2>2. timer + last[p] <= Window /\ last[p] \in 0 .. Window
    BY <1>0, <2>1 DEF NoOversleep
  <2>3. /\ last'[p] = IF last[p] < Window THEN last[p] + 1 ELSE Window
        /\ timer' = IF timer > 0 THEN timer - 1 ELSE 0
    BY <1>1, <2>1 DEF Tick
  <2>4. QED
    BY <1>0, <2>2, <2>3
<1>2. CASE SleepEmpty
  BY <1>2 DEF SleepEmpty, Sleep, Pending
<1>3. CASE SleepPending
  <2>1. PICK q \in Pending : (\A r \in Pending : last[q] >= last[r]) /\ Sleep(Window - last[q])
    BY <1>3 DEF SleepPending
  <2>2. p \in Pending /\ timer' = Window - last[q] /\ last'[p] = last[p]
    BY <2>1 DEF Sleep, Pending
  <2>3. last[p] \in 0 .. Window /\ last[q] \in 0 .. Window /\ last[q] >= last[p]
    BY <1>0, <2>1, <2>2
  <2>4. QED
    BY <1>0, <2>2, <2>3
<1>4. CASE (\E S \in SUBSET changed : Deliver(S)) \/ Stop
  BY <1>4 DEF Deliver, Stop
<1>5. CASE \E q \in Paths : Yield(q)
  BY <1>5 DEF Yield, After
<1>6. CASE Captured \/ CaptureFails \/ End \/ Collect \/ WakeUp
  BY <1>6 DEF Captured, CaptureFails, End, Collect, WakeUp, After
<1>7. CASE UNCHANGED <<pc, wake, timer, last>>
  BY <1>7 DEF NoOversleep, Pending
<1>8. QED
  BY <1>1, <1>2, <1>3, <1>4, <1>5, <1>6, <1>7 DEF Next, Consumer, Write, Remove, CloseStores,
    streamVars, vars

\* The consumer never sleeps past the moment a pending path is old enough,
\* unless a push has set the event.
THEOREM NeverOversleeps == Spec => []NoOversleep
<1>1. Init => NoOversleep
  BY DEF Init, NoOversleep
<1>2. QED
  BY <1>1, OversleepNext, WatcherTypes, PTL DEF Spec

-------------------------------------------------------------------------------
LEMMA AccountNext ==
  TypeOK /\ EditIsAccountedFor /\ [Next]_vars => EditIsAccountedFor'
<1> SUFFICES ASSUME TypeOK, EditIsAccountedFor, [Next]_vars,
                    NEW p \in Paths, disk'[p] # 0, disk'[p] \notin stored' \cup lost'
             PROVE  \/ p \in changed'
                    \/ p \in Pending'
                    \/ pc' = "capturing" /\ path' = p /\ content' = disk'[p]
  BY DEF EditIsAccountedFor
<1>0. disk \in [Paths -> 0 .. MaxEdits]
  BY DEF TypeOK
<1>1. ASSUME NEW q \in Paths, Write(q)
      PROVE  p \in changed' \/ p \in Pending' \/ (pc' = "capturing" /\ path' = p /\ content' = disk'[p])
  BY <1>0, <1>1 DEF Write, EditIsAccountedFor, Pending, streamVars, captureVars
<1>2. ASSUME NEW q \in Paths, Remove(q)
      PROVE  p \in changed' \/ p \in Pending' \/ (pc' = "capturing" /\ path' = p /\ content' = disk'[p])
  BY <1>0, <1>2 DEF Remove, EditIsAccountedFor, Pending, streamVars, captureVars
<1>3. ASSUME NEW S \in SUBSET changed, Deliver(S)
      PROVE  p \in changed' \/ p \in Pending' \/ (pc' = "capturing" /\ path' = p /\ content' = disk'[p])
  BY <1>3 DEF Deliver, Pushed, EditIsAccountedFor, Pending, fileVars, streamVars, captureVars
<1>4. ASSUME NEW q \in Paths, Yield(q)
      PROVE  p \in changed' \/ p \in Pending' \/ (pc' = "capturing" /\ path' = p /\ content' = disk'[p])
  <2>1. pc = "yielding" /\ changed' = changed /\ disk' = disk /\ stored' = stored /\ lost' = lost
    BY <1>4 DEF Yield, fileVars
  <2>2. Pending' = Pending \ {q}
    BY <1>4 DEF Yield, Pending
  <2>3. p \in changed \/ p \in Pending
    BY <2>1 DEF EditIsAccountedFor
  <2>4. CASE p = q
    BY <1>4, <2>1, <2>4 DEF Yield
  <2>5. QED
    BY <2>1, <2>2, <2>3, <2>4
<1>5. CASE Captured \/ CaptureFails
  BY <1>5 DEF Captured, CaptureFails, EditIsAccountedFor, Pending, fileVars
<1>6. CASE Tick
  BY <1>6 DEF Tick, EditIsAccountedFor, Pending, fileVars, captureVars
<1>7. CASE End \/ SleepEmpty \/ SleepPending \/ Collect \/ WakeUp
  BY <1>7 DEF End, SleepEmpty, SleepPending, Sleep, Collect, WakeUp, EditIsAccountedFor,
    Pending, fileVars, captureVars
<1>8. CASE Stop \/ CloseStores \/ UNCHANGED vars
  BY <1>8 DEF Stop, CloseStores, vars, EditIsAccountedFor, Pending, fileVars, streamVars, captureVars
<1>9. QED
  BY <1>1, <1>2, <1>3, <1>4, <1>5, <1>6, <1>7, <1>8 DEF Next, Consumer

\* No edit is lost between the file system, the debouncer and the capture.
THEOREM EditsAreAccountedFor == Spec => []EditIsAccountedFor
<1>1. Init => EditIsAccountedFor
  BY DEF Init, EditIsAccountedFor
<1>2. QED
  BY <1>1, AccountNext, WatcherTypes, PTL DEF Spec

-------------------------------------------------------------------------------
\* A closed debouncer gets no more pushes, and the stream ends empty.
Drain ==
  /\ closed => lifespan # "up"
  /\ pc = "ended" => closed /\ Pending = {}
  /\ lifespan = "over" => pc = "ended"

LEMMA DrainNext == Drain /\ [Next]_vars => Drain'
<1> SUFFICES ASSUME Drain, [Next]_vars PROVE Drain'
  OBVIOUS
<1>1. CASE \E S \in SUBSET changed : Deliver(S)
  BY <1>1 DEF Deliver, Drain, Pending, streamVars
<1>2. CASE \E p \in Paths : Yield(p)
  BY <1>2 DEF Yield, After, Drain
<1>3. CASE Tick
  BY <1>3 DEF Tick, Drain, Pending
<1>4. CASE Captured \/ CaptureFails \/ Collect \/ WakeUp \/ SleepEmpty \/ SleepPending
  BY <1>4 DEF Captured, CaptureFails, Collect, WakeUp, SleepEmpty, SleepPending, Sleep, After, Drain
<1>5. CASE End
  BY <1>5 DEF End, Drain, Pending
<1>6. CASE Stop \/ CloseStores
  BY <1>6 DEF Stop, CloseStores, Drain, Pending, streamVars
<1>7. CASE UNCHANGED <<closed, lifespan, pc, last>>
  BY <1>7 DEF Drain, Pending
<1>8. QED
  BY <1>1, <1>2, <1>3, <1>4, <1>5, <1>6, <1>7 DEF Next, Consumer, Write, Remove, streamVars, vars

\* When the stores are closed the consumer has ended and left nothing behind.
THEOREM StoresCloseAfterDrain == Spec => []ClosedAfterDrain
<1>1. Init => Drain
  BY DEF Init, Drain
<1>2. Drain => ClosedAfterDrain
  BY DEF Drain, ClosedAfterDrain
<1>3. QED
  BY <1>1, <1>2, DrainNext, PTL DEF Spec

-------------------------------------------------------------------------------
\* What keeps the shutdown going.  A consumer that has not ended is on its way, or it
\* has a path left to yield, or it sleeps and was woken or has a path to wait for; and
\* in its sleep the generator holds no list.
DrainGoesOn ==
  closed /\ pc # "ended" =>
    \/ pc \in {"running", "capturing"}
    \/ pc = "yielding" /\ rest # {}
    \/ pc = "asleep" /\ (wake \/ Pending # {})

\* The same while the debouncer is open: only the list matters then, since an empty
\* sleep is ended by its timeout.
Goes == DrainGoesOn /\ (pc = "yielding" => rest # {})

\* One step.  The two that could stall it are a sleep that begins when close() has
\* already been called, which needs a pending path, and close() itself, which wakes.
LEMMA GoesNext == Drain /\ Goes /\ [Next]_vars => Goes'
<1> SUFFICES ASSUME Drain, Goes, [Next]_vars PROVE Goes'
  OBVIOUS
<1>1. CASE \E S \in SUBSET changed : Deliver(S)
  BY <1>1 DEF Deliver, Goes, DrainGoesOn, Suspended, streamVars
<1>2. CASE \E p \in Paths : Yield(p)
  BY <1>2 DEF Yield, After, Goes, DrainGoesOn
<1>3. CASE Tick
  BY <1>3 DEF Tick, Goes, DrainGoesOn, Pending
<1>4. CASE Captured \/ CaptureFails
  BY <1>4 DEF Captured, CaptureFails, After, Goes, DrainGoesOn
<1>5. CASE Collect
  BY <1>5 DEF Collect, Goes, DrainGoesOn
<1>6. CASE SleepEmpty \/ SleepPending
  BY <1>6 DEF SleepEmpty, SleepPending, Sleep, Goes, DrainGoesOn, Pending
<1>7. CASE WakeUp \/ End
  BY <1>7 DEF WakeUp, End, Goes, DrainGoesOn
<1>8. CASE Stop
  BY <1>8 DEF Stop, Suspended, Goes, DrainGoesOn, streamVars
<1>9. CASE UNCHANGED <<closed, pc, rest, wake, last>>
  BY <1>9 DEF Goes, DrainGoesOn, Pending
<1>10. QED
  BY <1>1, <1>2, <1>3, <1>4, <1>5, <1>6, <1>7, <1>8, <1>9 DEF Next, Consumer, Write, Remove,
    CloseStores, streamVars, vars

\* The shutdown never stalls: run() awaits a consumer that always has something to do
\* or a sleep that ends, close() racing the start of a sleep included.
THEOREM ShutdownNeverStalls == Spec => []DrainGoesOn
<1>1. Init => Drain /\ Goes
  BY DEF Init, Drain, Goes, DrainGoesOn
<1>2. Goes => DrainGoesOn
  BY DEF Goes
<1>3. QED
  BY <1>1, <1>2, DrainNext, GoesNext, PTL DEF Spec

\* What is pending when the debouncer closes only shrinks, each file going out at most
\* once more, and nobody opens it again.
ClosedTakesNoMore ==
  [][closed => closed' /\ Pending' \subseteq Pending
               /\ (pc = "yielding" /\ pc' # "yielding" => Pending' # Pending)]_vars

\* The drain at shutdown is finite: nothing is pushed any more, and every pass over
\* the list takes paths out of it.
THEOREM ClosedDrains == Spec => ClosedTakesNoMore
<1>1. Drain /\ RestIsPending /\ [Next]_vars
      => [closed => closed' /\ Pending' \subseteq Pending
                    /\ (pc = "yielding" /\ pc' # "yielding" => Pending' # Pending)]_vars
  <2> SUFFICES ASSUME Drain, RestIsPending, Next, closed
               PROVE  /\ closed' /\ Pending' \subseteq Pending
                      /\ pc = "yielding" /\ pc' # "yielding" => Pending' # Pending
    OBVIOUS
  <2>1. \A S \in SUBSET changed : ~Deliver(S)
    BY DEF Deliver, Drain
  <2>2. CASE \E p \in Paths : Yield(p)
    <3>1. PICK p \in Paths : Yield(p)
      BY <2>2
    <3>2. p \in Pending /\ Pending' = Pending \ {p} /\ closed'
      BY <3>1 DEF Yield, RestIsPending, Pending
    <3>3. QED
      BY <3>2
  <2>3. CASE Tick
    BY <2>3 DEF Tick, Suspended, Pending
  <2>4. CASE UNCHANGED <<closed, last>> /\ (pc = "yielding" => pc' = pc)
    BY <2>4 DEF Pending
  <2>5. CASE Stop
    BY <2>5 DEF Stop, Pending, streamVars
  <2>6. QED
    BY <2>1, <2>2, <2>3, <2>4, <2>5 DEF Next, Consumer, Write, Remove, End, SleepEmpty,
      SleepPending, Sleep, Collect, Captured, CaptureFails, WakeUp, CloseStores, streamVars
<1>2. Init => Drain
  BY DEF Init, Drain
<1>3. QED
  BY <1>1, <1>2, DrainNext, RestIsAlwaysPending, PTL DEF Spec, ClosedTakesNoMore
===============================================================================
