----------------------------- MODULE VaultWatcher -----------------------------
(***************************************************************************)
(* The watcher of the Obsidian vault (backend/app/watchers): the task that *)
(* receives file changes and pushes them into PerPathDebouncer, the task   *)
(* that consumes the debouncer's stream and captures each path, and the    *)
(* end of the lifespan that stops both and closes the stores.              *)
(*                                                                         *)
(* The two tasks share one event loop: while the consumer is between two   *)
(* suspensions (pc is "running" or "yielding") nothing else of the process *)
(* moves and no time passes.  Files are edited by other programs at any    *)
(* time.  Time is counted in ticks; _last keeps the age of a path's latest *)
(* push instead of the moment of it, and an age stops at the window.       *)
(***************************************************************************)
EXTENDS Integers, FiniteSets

CONSTANTS Paths,        \* the files that should_capture lets through
          Window,       \* debounce_seconds, in ticks
          MaxEdits,     \* bound: how many times a file is written
          MaxFailures   \* bound: how many captures fail

ASSUME WatcherAssumption ==
  /\ Window \in Nat \ {0}
  /\ MaxEdits \in Nat
  /\ MaxFailures \in Nat

Contents == 1 .. MaxEdits   \* the n-th write produces content n

VARIABLES
  edits,     \* how many writes there were
  disk,      \* disk[p]: the content of file p, or 0 if there is no such file
  changed,   \* the paths with a change that awatch has not delivered
  last,      \* _last: a function from the pending paths to their ages
  wake,      \* the event _wake is set
  closed,    \* _closed
  pc,        \* where the consumer's task is
  timer,     \* what is left of the timeout of its sleep
  rest,      \* the paths of `ready` that are still to be yielded
  path,      \* the path it captures
  content,   \* the content it has read from there
  stored,    \* the contents that have a thought in the graph
  lost,      \* the contents whose capture raised
  lifespan   \* "up", "stopping" (run() has left its loop), or "over" (stores closed)

fileVars == <<edits, disk>>
streamVars == <<pc, timer, rest>>
captureVars == <<path, content, stored, lost>>
vars == <<edits, disk, changed, last, wake, closed, pc, timer, rest, path, content,
          stored, lost, lifespan>>

Pending == DOMAIN last
Suspended == pc \in {"asleep", "capturing", "ended"}
Ready == {p \in Pending : last[p] >= Window}

NoPath == "none"

-------------------------------------------------------------------------------
Init ==
  /\ edits = 0
  /\ disk = [p \in Paths |-> 0]
  /\ changed = {}
  /\ last = [p \in {} |-> 0]
  /\ wake = FALSE
  /\ closed = FALSE
  /\ pc = "running"
  /\ timer = 0
  /\ rest = {}
  /\ path = NoPath
  /\ content = 0
  /\ stored = {}
  /\ lost = {}
  /\ lifespan = "up"

\* Another program writes file p.
Write(p) ==
  /\ edits < MaxEdits
  /\ edits' = edits + 1
  /\ disk' = [disk EXCEPT ![p] = edits']
  /\ changed' = changed \cup {p}
  /\ UNCHANGED <<last, wake, closed, streamVars, captureVars, lifespan>>

\* Another program removes it; run() skips the change.
Remove(p) ==
  /\ disk[p] # 0
  /\ disk' = [disk EXCEPT ![p] = 0]
  /\ UNCHANGED <<edits, changed, last, wake, closed, streamVars, captureVars, lifespan>>

\* push() of each path in S.
Pushed(S) == [p \in Pending \cup S |-> IF p \in S THEN 0 ELSE last[p]]

\* awatch yields a set of changes, and run() pushes their paths.
Deliver(S) ==
  /\ Suspended
  /\ lifespan = "up"
  /\ S # {}
  /\ changed' = changed \ S
  /\ last' = Pushed(S)
  /\ wake' = TRUE
  /\ UNCHANGED <<fileVars, closed, streamVars, captureVars, lifespan>>

Tick ==
  /\ Suspended
  /\ last' = [p \in Pending |-> IF last[p] < Window THEN last[p] + 1 ELSE Window]
  /\ timer' = IF timer > 0 THEN timer - 1 ELSE 0
  /\ UNCHANGED <<fileVars, changed, wake, closed, pc, rest, captureVars, lifespan>>

-------------------------------------------------------------------------------
(* stream(), from one pass through its `while` to the next suspension.     *)

End ==
  /\ pc = "running"
  /\ closed /\ Pending = {}
  /\ pc' = "ended"
  /\ UNCHANGED <<fileVars, changed, last, wake, closed, timer, rest, captureVars, lifespan>>

Sleep(ticks) ==
  /\ wake' = FALSE
  /\ pc' = "asleep"
  /\ timer' = ticks
  /\ UNCHANGED <<fileVars, changed, last, closed, rest, captureVars, lifespan>>

SleepEmpty ==
  /\ pc = "running"
  /\ ~closed /\ Pending = {}
  /\ Sleep(Window)

\* Nothing is ready: it sleeps until the oldest push is old enough.
SleepPending ==
  /\ pc = "running"
  /\ Pending # {} /\ Ready = {}
  /\ \E p \in Pending :
       /\ \A q \in Pending : last[p] >= last[q]
       /\ Sleep(Window - last[p])

\* The list `ready` is computed once; its paths are yielded one by one.
Collect ==
  /\ pc = "running"
  /\ Ready # {}
  /\ rest' = Ready
  /\ pc' = "yielding"
  /\ UNCHANGED <<fileVars, changed, last, wake, closed, timer, captureVars, lifespan>>

\* Where the consumer goes on when a path has been dealt with.
After(left) == IF left = {} THEN "running" ELSE "yielding"

\* The next path is yielded, and _handle_path reads the file.  A file that is
\* gone and a content that is stored already take no await.  (The order of the
\* paths in `ready` is left open.)
Yield(p) ==
  /\ pc = "yielding"
  /\ p \in rest
  /\ last' = [q \in Pending \ {p} |-> last[q]]
  /\ rest' = rest \ {p}
  /\ \/ /\ disk[p] = 0 \/ disk[p] \in stored
        /\ pc' = After(rest')
        /\ UNCHANGED <<path, content>>
     \/ /\ disk[p] # 0 /\ disk[p] \notin stored
        /\ pc' = "capturing"
        /\ path' = p
        /\ content' = disk[p]
  /\ UNCHANGED <<fileVars, changed, wake, closed, timer, stored, lost, lifespan>>

\* Mutant: the path is dropped from _last when it has been captured.
CapturedDrops ==
  /\ pc = "capturing"
  /\ stored' = stored \cup {content}
  /\ last' = [q \in Pending \ {path} |-> last[q]]
  /\ pc' = After(rest)
  /\ path' = NoPath /\ content' = 0
  /\ UNCHANGED <<fileVars, changed, wake, closed, timer, rest, lost, lifespan>>

Captured ==
  /\ pc = "capturing"
  /\ stored' = stored \cup {content}
  /\ pc' = After(rest)
  /\ path' = NoPath /\ content' = 0
  /\ UNCHANGED <<fileVars, changed, last, wake, closed, timer, rest, lost, lifespan>>

\* normalize_and_persist raises, before or after it has created the thought;
\* emit_loop logs the exception.
CaptureFails ==
  /\ pc = "capturing"
  /\ Cardinality(lost) < MaxFailures
  /\ lost' = lost \cup {content}
  /\ stored' \in {stored, stored \cup {content}}
  /\ pc' = After(rest)
  /\ path' = NoPath /\ content' = 0
  /\ UNCHANGED <<fileVars, changed, last, wake, closed, timer, rest, lifespan>>

\* Mutant: the sleep has no timeout.
WakeUpOnPush ==
  /\ pc = "asleep"
  /\ wake
  /\ pc' = "running"
  /\ UNCHANGED <<fileVars, changed, last, wake, closed, timer, rest, captureVars, lifespan>>

\* wait_for returns: the event was set, or the timeout is over.
WakeUp ==
  /\ pc = "asleep"
  /\ wake \/ timer = 0
  /\ pc' = "running"
  /\ UNCHANGED <<fileVars, changed, last, wake, closed, timer, rest, captureVars, lifespan>>

-------------------------------------------------------------------------------
\* The watcher's task is cancelled, or awatch raises: run() closes the debouncer
\* and awaits the consumer.
Stop ==
  /\ Suspended
  /\ lifespan = "up"
  /\ lifespan' = "stopping"
  /\ closed' = TRUE
  /\ wake' = TRUE
  /\ UNCHANGED <<fileVars, changed, last, streamVars, captureVars>>

\* Mutant: run() does not await the consumer.
CloseStoresEarly ==
  /\ Suspended
  /\ lifespan = "stopping"
  /\ lifespan' = "over"
  /\ UNCHANGED <<fileVars, changed, last, wake, closed, streamVars, captureVars>>

\* run() is over, and the lifespan closes the stores.
CloseStores ==
  /\ lifespan = "stopping"
  /\ pc = "ended"
  /\ lifespan' = "over"
  /\ UNCHANGED <<fileVars, changed, last, wake, closed, streamVars, captureVars>>

Consumer ==
  \/ End \/ SleepEmpty \/ SleepPending \/ Collect
  \/ \E p \in Paths : Yield(p)
  \/ Captured \/ CaptureFails \/ WakeUp

Next ==
  \/ \E p \in Paths : Write(p) \/ Remove(p)
  \/ \E S \in SUBSET changed : Deliver(S)
  \/ Tick
  \/ Consumer
  \/ Stop \/ CloseStores

\* The loop runs the consumer whenever it can go on, and captures end; time
\* passes.  The file system reports every change; the watcher's task gets its
\* turn between those of the consumer, hence the strong fairness.
Fairness ==
  /\ WF_vars(Consumer)
  /\ WF_vars(Tick)
  /\ \A p \in Paths : SF_vars(\E S \in SUBSET changed : p \in S /\ Deliver(S))
  /\ WF_vars(CloseStores)

Spec == Init /\ [][Next]_vars
FairSpec == Spec /\ Fairness

-------------------------------------------------------------------------------
(* Properties.                                                             *)

TypeOK ==
  /\ edits \in 0 .. MaxEdits
  /\ disk \in [Paths -> 0 .. MaxEdits]
  /\ changed \subseteq Paths
  /\ Pending \subseteq Paths
  /\ last \in [Pending -> 0 .. Window]
  /\ wake \in BOOLEAN
  /\ closed \in BOOLEAN
  /\ pc \in {"running", "asleep", "yielding", "capturing", "ended"}
  /\ timer \in 0 .. Window
  /\ rest \subseteq Paths
  /\ path \in Paths \cup {NoPath}
  /\ content \in 0 .. MaxEdits
  /\ stored \subseteq Contents
  /\ lost \subseteq Contents
  /\ lifespan \in {"up", "stopping", "over"}

\* A path in the list the generator goes through is still in _last when its
\* turn comes, whatever was pushed in between: `del` never raises a KeyError,
\* which would end the consumer for good.
RestIsPending == rest \subseteq Pending

\* The consumer never sleeps past the moment a pending path gets old enough,
\* although the event is cleared after _last was read: a push that the timeout
\* does not know of has set the event again.
NoOversleep ==
  pc = "asleep" /\ ~wake => \A p \in Pending : timer + last[p] <= Window

\* No edit falls between the tasks: until its content is stored or its capture
\* has failed, the file's change is on its way from the file system, pending in
\* the debouncer, or being captured with this very content.
EditIsAccountedFor ==
  \A p \in Paths :
    disk[p] # 0 /\ disk[p] \notin stored \cup lost
    => \/ p \in changed
       \/ p \in Pending
       \/ pc = "capturing" /\ path = p /\ content = disk[p]

\* A shutdown drains: the stores are closed under nobody's hands, and nothing
\* that was pushed is left behind.
ClosedAfterDrain ==
  lifespan = "over" => pc = "ended" /\ Pending = {}

\* The content a file comes to rest with is stored in the end, unless its
\* capture fails or the service stops.
EditIsCaptured ==
  \A p \in Paths : \A c \in Contents :
    disk[p] = c ~> c \in stored \cup lost \/ disk[p] # c \/ lifespan # "up"

\* The shutdown does not hang: once the debouncer is closed the consumer
\* drains what is pending, ends, and the stores are closed.
StopEnds == closed ~> lifespan = "over"
===============================================================================
