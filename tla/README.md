# A verification of cns and gigabrain

The repository holds two programs that share a vault of markdown files. **cns** is
a command line tool with an Obsidian plugin: it detects conflicts between the
*bets* of a team of leaders, plans dispatches of bets to agents under budgets,
stages what the agents write and lets a leader accept or reject it.
**gigabrain** (`backend/`, `frontend/`) is an asyncio service: it captures
thoughts from the vault, webhooks and HTTP into a graph database, compares them
(detectors), puts conflicts before a leader (gate), and fires agents at thoughts
through a bounded dispatcher.

The modules in this directory model the parts of it that keep state, check them
with TLC on small instances and prove the main invariants with TLAPS.

    tlc -workers 2 -config Dispatcher.cfg MCDispatcher.tla     # and so on
    tlapm DispatcherProofs.tla                                 # and so on

`PROJECT.json` lists the components, the runs, the source lines behind each
definition, the hazards of the code, the theorems, and for each checked property
a mutation of the code's model that violates it.

## Inventory

| component | state | operations | what is hard | what must hold |
|---|---|---|---|---|
| agent dispatcher `agents/dispatcher.py` | role gates, global semaphore, `_inflight` | `dispatch` | two levels of waits, failures, cancellation at shutdown | caps, no lost permit or wakeup, every call ends |
| agent worker, registry, pause/resume `agents/worker.py`, `registry.py`, `api.py`, `main.py` | Agent and AgentFiring rows and edges (Kuzu), fleet | handle FireNeuron, sync, pause, resume, start, shutdown | crash between row, edges and run; paused state over restarts; swallowed errors | a run is traceable, a firing is settled once, a pause sticks |
| budgets `cns/costs.py` | running totals of a dispatch | `enforce_budgets` | three caps, order of checks, rounding, final refusals | nothing let through exceeds a cap |
| capture and detectors `capture/`, `sparring/`, `detectors/`, `db/vector.py` | thoughts, vectors, edges, gate items | capture, compare | awaits between lookup and insert; partial failure; two comparisons at once | no similar pair is missed by both sides |
| vault watcher `watchers/` | pending paths and their deadlines | push, stream, close | a push while a batch is yielded, wakeups | no push is lost; close ends the stream |
| review queue `cns/reviews.py` | review directories and their brief | write, list, accept, reject | crash between status and move; two accepts | a review is archived once, with what was reviewed |
| execution `cns/execute.py`, `roles.py` | queue, staging directory, sub-dispatch chain | build queue, dispatch, sub-dispatch | in-flight runs are invisible; session spend is threaded by callers | depth and cycles are bounded; the calls of one leader keep within the ceiling |
| tool hook `cns/hooks.py`, `hook_executor.py`, `cns hook-active` | descriptor, sentinel and tombstone files | describe, set, clear, remove; a hook process per tool call | one sentinel per vault; a reader between two accesses of a writer; leftovers of runs given up | a call is judged by the descriptor of its own run; nothing is left behind |
| bets, conflicts, signals `cns/bet.py`, `conflicts.py`, `detector.py`, `signals.py`, `skills/spar` | bet files, `CONFLICTS.md`, git's commits | create, detect, merge, decide, remove | read-modify-write of files by several processes, kills, days | ages are kept, what was settled stays settled, a detection finds what there is |
| plugin `obsidian-plugin/`, `cns reindex` | debounce timers, in-flight flag, child process, index, sidebar | on modify, check, reindex, scan, unload | a timer during a reindex; files that change while they are read; unloading | one process at a time, none left behind; index and sidebar come to be current |
| event bus, stream, gate, frontend `events/bus.py`, `api/stream.py`, `api/graph.py`, `gate/`, `frontend/src/state`, `GateResolvePanel` | queues of the streams, gate items, the page's graph | publish, connect, snapshot, fetch, decide | snapshot, events and fetches overtake each other; streams break; deciding twice | a page shows no node twice, takes no decision back, and comes to be current |
| webhooks, tickets, daily note, embeddings, UMAP, telemetry | little or none | format, post, number | two spawns take one number | see "Not modelled" |

Interactions: the watcher and the webhooks call capture, which publishes
`ThoughtCreated` on the bus; the sparring engine hears it and runs the detectors;
`FireNeuron` goes over the same bus to the worker, which calls the dispatcher,
which awaits the agent runtime. The worker, the registry and the HTTP handlers
share the graph database. On the cns side the command line reads bets, plans a
queue, lets the budgets cut it, and the reviews it writes are what later
dispatches and budgets read back (`_has_pending_review`, `role_spend_last_24h`).

## Modules

| module | models | checked by |
|---|---|---|
| `BoundedRuns.tla` | the dispatcher's promise: runs are admitted within two caps | refined by `Dispatcher` |
| `Dispatcher.tla` | `AgentDispatcher` at the level of the asyncio gates | `Dispatcher.cfg`, `DispatcherProofs.tla` |
| `AgentWorker.tla` | worker, registry, pause/resume, process life; instantiates `BoundedRuns` | `AgentWorker.cfg`, `GraphProofs.tla` |
| `Caps.tla` | what a cap is and when an amount exceeds it | extended by `Budgets` and `SubDispatch` |
| `Budgets.tla` | `enforce_budgets` over one batch | `Budgets.cfg`, `SpendProofs.tla` |
| `VaultWatcher.tla` | the debouncer, the consumer of its stream, the watcher's task, the end of the lifespan | `VaultWatcher.cfg`, `VaultWatcherProofs.tla` |
| `SubDispatch.tla` | the tree of agent runs below one plan: chain, depth, cycles, threaded total | `SubDispatch.cfg`, `SpendProofs.tla` |
| `Reviews.tla` | the review of one bet: runs, staging directory, brief, accept, reject, archive | `Reviews.cfg`, `VaultProofs.tla` |
| `Capture.tla` | capturing a thought, the sparring engine and its two detectors | `Capture.cfg`, `CaptureProofs.tla` |
| `Hooks.tla` | the runs' descriptors, sentinel and tombstone, and the hook processes that read them | `Hooks.cfg`, `HooksProofs.tla` |
| `Detect.tla` | conflict detection, the merge with the queue, `/spar`, bets, signals and commits | `Detect.cfg`, `DetectProofs.tla` |
| `Plugin.tla` | the plugin's watcher and scan, the processes it starts, `cns reindex` | `Plugin.cfg`, `PluginSkips.cfg`, `VaultProofs.tla` |
| `LiveGraph.tla` | bus, stream, gate, and the graph a browser shows | `LiveGraph.cfg`, `GraphProofs.tla` |

The `MC*.tla` modules give the constants their values. A proof module may be about two
components, which it extends together; `Budgets`, `Plugin` and `LiveGraph` therefore
name their specifications `BudgetSpec`, `PluginSpec` and `GraphSpec`.

### Dispatcher

A step is what a task does between two points where it really suspends: waiting
in a gate, or awaiting `run_fn`. `publish` awaits nothing, so that
registering in `_inflight` and announcing the start belong to the step that
acquired the global permit. A gate is an `asyncio.Lock` or `Semaphore`
(`Capacity`); its deque of waiters is split into those that were woken and have
not resumed (`woken`) and the rest (`waiting`). `Open`, `Released`, `Resumed`
and `GivenBack` are the `acquire`, `release` and cancellation paths of the
standard library, which is why the model shows what a newcomer, a woken waiter
and a cancelled waiter do to each other. `CancelAll` is what `asyncio.run` does
when the process ends; `Unwind*` are the tasks' exits under `CancelledError`.

Checked: the permits of a gate are conserved (`PermitsConserved`), a free permit is
never slept on (`NoLostWakeup`), `/agents/inflight` and the events agree
(`InflightIsEventBalance`), a role without an entry in `per_role` runs its firings
in order (`SerialRoleInOrder`), every call ends (`EveryCallEnds`), and the whole
implements `BoundedRuns` (`ImplementsBoundedRuns`). That the caps hold
(`RunsWithinCaps`) follows from the permits and is proved.

Bounds: five calls, two roles (one with a semaphore of two, one with a lock) and
two global permits: enough for both gates to have woken and waiting tasks at
once, and for a cancellation to meet each of the kinds of waiter. The roles of
the calls are an input, all combinations are checked.

Fairness: the event loop runs each ready task (weak fairness of the resumptions
and the unwinding), and `run_fn` ends (weak fairness of `Finish`); the latter is
an assumption about the agent, since the code sets no timeout. Nothing makes a
caller call or the process stop.

### AgentWorker

`HandleFireNeuron` is the handler up to the dispatcher's first wait: agent lookup,
fleet lookup, row, the two edges, hand-over. Any enabled agent of the role may be
the query's first row, because the query has no `ORDER BY`. A database error
after the row leaves the firing undispatched. `RunEnds` is `_run` with the
exception it swallows, so that the dispatcher completes with "success" whatever
the outcome is; `RuntimeRejected` is the constructor's error, which only the
dispatcher sees. `Start`, `Close`, `CancelAll`, `Unwind`, `Exit`, `Crash` are the
lifespan. The graph (agents, rows, edges) survives; the fleet may differ at every
start.

Checked: `LiveFiringIsTraceable`, `SettledOnceByItsOwnRun`, `OpenMeansUnderWay`,
`PauseSticks`, `FiringIsSettled`; the comments in the module say what each means.
`OpenMeansUnderWay` holds in a first process without faults only: after a crash,
nothing recovers the rows the dead process left open, which is how the code is.

Bounds: two firings, one global permit (so that the second may wait), two starts
with a fleet that may lose, gain or disable an agent, one database fault.
`FiringIsSettled` needs strong fairness of `BeginRun`, which stands for
`EveryCallEnds` of the dispatcher, and runs that end.

### Budgets

One step per bet of the loop; the arguments of `enforce_budgets` are variables
that Init chooses. Money is counted in 1/10000 USD so that the rounding to cents
is visible. The three caps are sets of at most one amount (None is empty).

Checked: the session's cap holds over what is let through (`SessionCapHolds`), and
the loop agrees with a definition of each verdict from the bets before it
(`VerdictsFollowCaps`). That the roles' caps hold (`RoleCapHolds`) and that a
session refusal is final (`SessionRefusalIsFinal`) is proved.

Bounds: batches of up to three bets, with costs below, at and above the border of
rounding, and caps that some sums meet exactly. A refusal, a bet after it and a
further one that would fit need three bets.

### VaultWatcher

The consumer runs without interruption between two suspensions (`pc` is `running`
or `yielding`), as a task of the event loop does; `Sleep`, `WakeUp`, `Collect`,
`Yield`, `Captured` and `CaptureFails` are its steps, with `stream()` and the
body of `emit_loop` read as one program, since an async generator runs in its
consumer's task. `Deliver` is one batch of `awatch`, `Stop` the cancellation of
the watcher's task, `CloseStores` the rest of the lifespan. `Write` and `Remove`
are other programs. Time is kept as the age of each path's latest push.

Checked: between disk and graph an edit is always somewhere
(`EditIsAccountedFor`); the stores outlive the consumer (`ClosedAfterDrain`); the
content a file comes to rest with is stored (`EditIsCaptured`); the shutdown ends
(`StopEnds`). That the generator never deletes a path that is gone
(`RestIsPending`) and that no sleep outlasts the oldest push (`NoOversleep`) is
proved.

Bounds: two paths, a window of two ticks, three writes, one failing capture. A
batch of two with a push of the second path while the first is being captured
needs two paths and three writes, a push between the reading of `_last` and the
sleep needs one more tick than the window has left.

Fairness: the loop runs the consumer whenever it can go on and captures end,
time passes, and the lifespan goes on. A change that `awatch` has seen is
delivered under strong fairness: the watcher's task only gets a turn when the
consumer is suspended, which it is again and again.

### SubDispatch

`DispatchPlanned` is `cns execute` for one bet of the plan, `DispatchSubordinate`
is `cns execute --from-leader` with `dispatch_subordinate` below it. What the code
keeps of the tree of runs is only what the callers pass back, the chain of roles
and the total; the model gives every run the chain of its envelope, and its
leader the latest total that a call of its own printed (`told`). No envelope has a
total, so that the leader of a new run has been told nothing, planned or not. The
leaders keep to the contract of `skills/execute/SKILL.md`. The total is printed in cents (`format_usd`), which
loses nothing because estimates are whole cents. The role tree may be edited
between any two calls, and is any tree `validate_role_tree` accepts.

Checked: the chain tells the true path of runs and its length is bounded
(`DepthIsBounded`); no role is started below itself (`NoRoleBelowItself`), which
only the chain can ensure once the tree is edited; what one caller starts is within
the session cap, in however many calls (`TeamWithinCap`). That the cap is one for a
run and all that is above it, as the documents say, does not hold, and no property
claims it: three levels of one run each exceed it (see the disagreements below).

Bounds: four roles in a line, and the line with its two middle leaders swapped;
a depth of three, four runs, estimates of 2 or 3 against a cap of 7. An edited
tree puts a role below itself with three hops, the depth is exceeded with four,
and the cap with three estimates.

### Reviews

A step is one access to the file system. A command (`cns reviews accept` or
`reject`) is a process of its own and any two of them may be under way at once,
since the plugin starts one per click; its steps are `Load` (find and parse the
brief), one `Promote` per listed file, `Mark` (write the brief back) and
`MoveToArchive`, or `MoveFails` where `shutil.move` raises. The plugin kills a
command after 30 s: `Kill` between two steps, `KillInWrite` inside the writing of
the brief. (A copy cut short is taken for no copy: the file stays staged.) A run
stages files and reports (`Stage`, `Report`); then the skill reads the brief and
writes it back with the cost (`ReadForCost`, `WriteCost`). `Dispatch` looks for a
pending brief only, so that two runs may be at work on one directory. The content
of a file is the number of the run that staged it.

A run that writes into the directory while commands are under way can mix
anything up: nothing locks the directory, and an archived review can be undecided
then. The ghost `disturbed` says that this happened; `ArchivedIsDecided` and
`AcceptedIsPromoted` are about commands that were not disturbed, in whatever state
earlier runs, commands and kills left the review. `StagedIsKept` has no such
condition. Two commands alone can go wrong in two ways, and both are in the model.
One is killed inside the writing of the brief while the other is between its mark
and its move, and what is archived is a brief cut short: the ghost `cut` names
exactly this case, and `ArchivedIsDecided` allows no other. And one loads the brief
to accept it, the other rejects the review and moves it away: the first finds no
staged copy, skips every file, and archives an accepted brief with nothing promoted.
`AcceptedIsPromoted` asks of a file that the command finds no copy of only that it left
with a review archived before, and so says how far the code's promise goes.

Checked: what is archived is decided (`ArchivedIsDecided`), but for `cut`. If it is
accepted, every delivered file (`Delivered`: listed by the brief and staged by its
run, so that deleted files are left aside) is in the workspaces in the version that is
archived, so that the status is never ahead of the files; a delivered file that is no
longer staged has left with a review archived earlier (`AcceptedIsPromoted`). No
staged file is lost, in particular not when two reviews get the same archive name
(`StagedIsKept`).

Bounds: two files, two runs, two commands, which may be under way at the same
time. A race of two commands needs two, a kill followed by another attempt needs
two, a collision of archive names two reviews in one second; a run over the review
of another needs two runs. No fairness is assumed and nothing is promised to
happen: every step waits for a person or an agent.

### Capture

Everything runs in one event loop, and only the embedder and the language models
are awaited, so that a step goes from one of these awaits to the next. A call of
`normalize_and_persist` looks for the content (`Known`, `Unknown`), awaits the
embedding and stores (`Store`, with `StoreFails` and `CaptureFails` as its error
paths); it does not look again, so that the same content captured twice at once
becomes two thoughts. Each stored thought has one handler of the engine
(`sparring`): it embeds again (`Embedded`, `EmbedFails`), the duplicate detector
searches and judges its candidates one by one (`JudgeNegative`, `JudgePositive`),
then the conflict detector does. The search of a detector belongs to the step
before its first await, wherever that is: `RunDuplicate`, `RunConflict` and
`RunNext` compose what the engine runs without a suspension. `DetectorFails` is a
graph write that raises, after any of the earlier writes for that candidate;
`SidecarFails` the file write that is only logged; `ProcessEnds` loses the tasks.
An embedding is represented by its distance from the others; ties between
distances are broken in any way.

Checked: near thoughts meet (`NearPairsMeet`), which is what makes the missing
second lookup harmless for the detectors and needs the vector to be stored before
the search, in one step with the announcement, and one embedding more than
`top_k` to be asked for; no verdict is written twice, and a conflict is written in
order (`OneVerdict`); every stored thought is compared (`StoredIsCompared`), with
the exceptions the code has: `lost` records that the upsert failed after the
thought was stored (a retry then finds the thought and never compares it), that
the second embedding failed, or that the process ended.

Two near thoughts captured together may each be a candidate of the other, and
both handlers may then write a verdict, one in each direction; `OneVerdict`
counts per direction, since the code promises no more.

Bounds: three contents (two within the duplicate threshold, the third within the
conflict threshold of one of them), three calls, `top_k` of one, one fault. With
three thoughts a search has more near ones than `top_k` and fewer, and two
handlers and a capture overlap. Left out: a search of the vector store that
raises, and a configuration with a detector switched off.

Fairness: the event loop runs a handler that can go on, and the embedder and the
models answer or fail; an agent without a timeout makes the latter an assumption.
Nothing makes anybody capture.

### Hooks

A step is one access to the file system; a file that is being written is empty
between its truncation and the write (`torn`). A run of a bet goes through
`Describe`, `Described`, `Mark`, `Marked`, `DropTombstone` (write_hook_config and
`cns hook-active set`), lets its agent work, and ends with `Unmark`,
`WriteTombstone`, `RemoveDescriptor` (`cns hook-active clear` and the skill's
last step). A run that tells its agent the bet by the environment skips the
sentinel; `Discard` is the end of a dry run, `Abort` a run given up anywhere. The
hook process of a tool call reads in the order of `locate_descriptor`: `EnvLook`
and `EnvRead`, `SentinelRead` and `TargetRead`, `TombstoneLook`, `Glob` and
`CandidateRead`; a file that is removed between the look and the read ends the
process with an exception (`died`), which writes no decision and so blocks nothing.
`Evaluate` and `Allows` are `evaluate` and `run`, with the patterns abstracted to the
set of what they match.

Checked: a call whose environment names its bet gets no more than that bet's role
may do, or is refused, unless the descriptor was removed between the hook's look and
its read (`EnvCallIsScoped`; the flag `lost` of a call is set by that removal, which
only another run or a dry run of the same bet can make; such a call is not refused,
against what the documents say, see below). The calls of a run that no other one is
under way with are judged by exactly its descriptor, whatever runs
given up before it left behind (`LoneRunIsScoped`); after a `clear` that no `set` overlapped or
followed, a call that names no bet is in open mode (`ClearMeansOpen`); runs that
all came to their ends leave neither sentinel nor descriptor (`EndsClean`). Two
runs of a parallel dispatch that use the one sentinel do judge each other's calls,
which is why `LoneRunIsScoped` asks for a run of its own; the skill's way out is
the environment.

Bounds: two bets, two sessions, three runs and one call that is made again and
again; a run, another that overlaps it, and one after a run that was given up need
three. Nothing is promised to happen, and no fairness is assumed.

### Detect

`cns detect` is a process that may be killed anywhere and overlap another:
`StartDetect`, one `ReadBet` per file, `Collect` (the signals, then
`DetectConflicts` over what was read), `ParseQueue`, `GitLog`, `OpenQueue`,
`WriteQueue`. `DetectConflicts` is the pure part: `PhraseMatch`,
`SignalContradictsBet`, `StructuralCrossBetConflict`, staleness and missing kill
criteria, with the deferral and the review date as the code has them; a text is a
sequence of words. `MergeDetected` is the merge with the queue, which forgets the
age of the conflicts of any bet committed within the window. `/spar` walks what
it read, oldest first (`BeginSpar`, `Decide`, `Remove`, `Quit`). `CreateBet`,
`BetCreated`, `Commit`, `Signal` and `NextDay` are everything else.

Checked: a detection keeps every conflict of the queue, with its age, if its bet
was not committed lately, nobody wrote the queue in between and no kill had left it
torn (`AgeIsKept`; `before` remembers what the queue said when it was whole last, and
whether it was torn since; a kill in the middle of writing does lose what was there,
see the disagreements below); what a kill or a deferral settled does not come back
while the bet is dead or deferred, if no detection was under way then (`SettledStaysOff`); a detection in a vault that
nobody else writes leaves exactly what holds now, plus what it has to keep
(`QuietDetectionIsExact`, also with a torn queue, of which there is nothing to keep:
`Left`). The conditions are what the code needs: nothing locks
the queue, and two overlapping detections, or one that overlaps `/spar`, overwrite
each other.

Bounds: two bets with the same owner and topic and different dates, one of them
still to be written; a signal that triggers both a kill criterion and the
contradiction rule; two detections, one decision, one change of the day. An
overwrite needs two detections, a deferral that ends one change of day. The run begins
with an empty queue (`Queued`), so that of its two detections one fills the queue and
the other has ages to lose, or one tears it and the other finds it torn; a kill that
tears a queue with conflicts on it and a detection after that would be a third, and are
left to the proofs, which have any queue at first and any number of detections.

### Plugin

The callbacks of the plugin are steps of one thread: `Deliver` (the handlers of
`modify`), `TimerFires`, `Checked` and `Reindexed` (runReindex around its two
awaits), `ScanFires`, `ScanReads`, `ScanDone`, `Unload`. The child process is
another: `Check` compares time stamps, `ReadBet`, `OpenIndex` and `WriteIndex` are
`cns reindex`, `Timeout` and `Dies` what can end it early. `newer` stands for the
comparison of a bet's time stamp with the index's.

Checked: the watcher never has two processes (`OneProcess`); none goes on after the
plugin is unloaded without having been told to stop (`NoneOutlivesPlugin`); when
the edits have ended, the sidebar comes to show every file as it is
(`ShownIsCurrent`), and the index comes to list every bet as it is unless an edit
was missed in one of the ways `missed` names (`IndexedUnlessMissed`): it was made
behind a running reindex, its timer ran out under a process or without the binary,
or a process failed or was stopped. `PluginSkips.cfg` shows that the first two
happen although nothing fails.

Bounds: two bets and another file, two edits, one failure. An edit behind a
reindex needs two edits, one to start it. Fairness: timers run out, events are
delivered, processes and reads go on, each by weak fairness; a process that hangs
is ended by the runner's timer, which is one of the failures.

### LiveGraph

A page is loaded: its snapshot (`ReadState`, `Hydrate`) and its stream (`Connect`)
are requests of their own. `Publish` puts an event into the queue of every open
stream, `Deliver` starts the page's fetch of that node, `ReadNode` and `FetchLands`
are the two ends of it, several fetches may overtake each other, and `Land` is the
reducer. `Decide`, `Resolve`, `Answered` are a decision at the gate, which the
server accepts any number of times, `ResolveElsewhere` one from another browser.
`Drop`, `FetchFails`, `SnapshotFails`, `PostFails` and `Reload` are what fails; a
broken stream is opened again without a new snapshot. `CreateUntold` is a failure
between the store and the event: a capture whose vector is not written
(`normalizer.py:37-40`), a conflict whose edge is not (`conflict.py:127-161`), an agent
that a restarted backend adds from an edited fleet. Such a node is never told of
afterwards.

Checked: no page shows a node twice (`NoNodeTwice`); a gate item shown as decided
goes back to the inbox only when the page is loaded again (`DecidedStaysDecided`): gate
items come with the snapshot, which lands once, so that an older one cannot bring back
what was decided since; a page comes to show every node as it is, unless it fell behind in one of the ways
`missed` names (`CurrentUnlessMissed`): an event was lost with its stream or not sent
after a failure behind the store, a fetch or the snapshot failed, two fetches of one
node were under way together, or the snapshot landed after an event it did not know of.

Bounds: one page (pages do not see each other; the other browser is
`ResolveElsewhere`), one node that comes up, one gate item, three decisions, two
failures. Two fetches of a node that overtake each other need two decisions, a
third makes the last one differ from the first. Fairness: requests are answered
and events delivered, by weak fairness; nothing makes a page connect.

## Disagreements between the documents and the code

Shown by a run:

* `PluginSkips.cfg`: `betWatcher.ts:111-112` says of a reindex that is skipped
  because one is under way: "the in-flight one will pick up any new changes that
  landed after it started — and a fresh modify event will retrigger us anyway". The
  process may have read past the bet, its edit is then older than the index that is
  written, and `cns reindex --check` calls that index fresh; without another edit
  the bet is never indexed as it is.

Found while modelling:

* `execute.py:597-599` says that what the ancestors of a run have spent
  "counts against the global `per_session_usd_max` cap so a deep recursive run can't
  multiply the session ceiling", `costs.py:196-199` that the cap "stays global across
  the full call tree", and `skills/execute/SKILL.md:181-182` that a leader passes on
  `envelope["new_session_spend"]`. No envelope has that key
  (`execute.py:531-538`): the new total goes to the caller only, the leader of the
  new run starts from 0, and its own estimate is in no total. The cap is one for each
  caller (`TeamWithinCap`).
* `README.md:133` says "Accept promotes staged files into the role's
  workspaces; reject discards them", the docstring of `accept_review`
  (`reviews.py:348`) "Promote staged files into workspaces, mark brief accepted, archive
  the review". A command that accepts skips a file without a staged copy
  (`reviews.py:378-381`); when another command has rejected the review and moved it
  away meanwhile, it archives an accepted brief with nothing promoted.
* `docs/installing-hook-executor.md:86-89` says "If the env var is set
  but the descriptor [...] is missing or unreadable, the hook **denies all gated tool
  calls**", `hook_executor.py:44` "Exit code is always 0 — the JSON carries the verdict".
  The hook looks for the file and then reads it (`hook_executor.py:197-199`); when
  another run or a dry run of the bet removes it in between, nothing catches the
  exception, and the process exits with 1 and without a decision.
* `skills/cns-detect/SKILL.md:45` says "The detector is idempotent —
  running it multiple times in a day is safe (existing conflict IDs are preserved with
  their `first_detected` date)". `CONFLICTS.md` is truncated and then written
  (`cli.py:274`); after a kill in between, the next run takes it for a queue without
  conflicts, enters what it finds with its own date and drops the rest.
* The docstring of `dispatch` says that `AgentRunCompleted` has the outcome
  `success` or `failed`, and `docs/self-hosting.md` announces both the failure and
  the event. The worker swallows the runtime's exception (`worker.py`, `_run`), the
  dispatcher sees a normal return, and the event says `success` while the graph
  says `failed`.
* `cns/costs.py` says estimates are rounded up; it rounds to nearest, so that an
  estimate may be below the projected cost.
* `debounce.py` says a path is emitted after the window has elapsed "with no further
  pushes for that path". A path pushed again while an earlier path of the same
  batch is captured is emitted early. Nothing is lost (`EditIsAccountedFor`): the
  file is read when it is emitted.
* `execute.py` says of a dispatch with `--all` that "the new run will replace the
  staged dir". The directory is kept with all that is in it; where the new brief
  lists a path it deleted, accepting it promotes the old run's copy of that path.
* `cns/hooks.py:5-10` says the hook lets Edit and Write into a read-write workspace
  or the staging directory, and checks reads; the executor lets writes into the
  staging directory only and does not look at reads.
* `docs/installing-hook-executor.md:114-117` says that anything outside a dispatch is
  unaffected. A descriptor left by a run that was given up applies to every call in
  the vault, as long as it is the only one and there is no tombstone
  (`hook_executor.py:23-28`); `ClearMeansOpen` is what `clear` makes of that.
* `detector.py:54` says that deferred bets "are skipped entirely", and
  `skills/spar/SKILL.md:52` that a deferred conflict is detected again after the
  date. The loop over pairs of bets does not look at deferrals, so that a cross-bet
  conflict comes back at once (`OpenTo` takes it as it is).
* `models.py:294`, `conflicts.py:9` and `skills/spar/SKILL.md:16` give conflicts ids
  with a date (`C-YYYY-MM-DD-<slug>`); the code makes `C-<slug>`. The plugin's
  `vaultState.ts:178` looks for the date, and so shows none of the conflicts that
  `cns detect` writes.
* Any commit of a bet within the window starts the age of its conflicts anew, be it
  a change of what the conflict is about or not.
* `docs/superpowers/specs/2026-05-06-gigabrain-cns-v2-design.md:176` says new nodes
  and edges appear live. No event is published for an edge, nor when a firing
  completes; and a page whose stream was broken asks for no new snapshot.

## Proofs

The theorems hold for every value of the constants that satisfies the named
assumptions (`DispatchConfig`, `FleetAssumption`, `BudgetAssumption`,
`WatcherAssumption`, `SubDispatchAssumption`, `ReviewsAssumption`,
`CaptureAssumption`, `HooksAssumption`, `DetectAssumption`, `PluginAssumption`,
`LiveGraphAssumption`), which are what the code's configuration validates;
`CaptureAssumption` says of distances that they are symmetric and that equal
contents are at distance zero, `HooksAssumption` that names do not collide,
`DetectAssumption` that a directory lists a file once and that what is on the queue at
first is about bets that exist, `LiveGraphAssumption` that the
database holds finitely many nodes. TLC evaluates each of them on a run.

* **Dispatcher.** The inductive invariant is `Typed` (the types, and that the calls
  made are numbered without gaps). Of every gate, the permits no task holds
  (`Unheld`: free, or on their way to a woken waiter) and those held add up to a
  `Total` that no step changes, and no step leaves a waiting deque with a free permit
  and nobody woken (`WakesUp`): `GatesKept`. One lemma per gate operation (`ReleasedOK`,
  `TakenOK`, `ResumedOK`, `GivenBackOK`, ...) says what it does to one gate, one per
  action that the step keeps `GatesKept`, and `HoldingMoves` does the counting. From
  it follow `TypeCorrect`, `PermitsAreConserved`, `CapsHold`, `WakeupsAreNotLost`, and
  with `InflightMatchesEvents` the refinement `Refines`: a task starts only when it
  has taken permits of both gates, which leaves room in both caps.
  `SerialRolesRunInOrder` is an argument about the queues: a role's deque, woken
  waiters first, holds exactly the tasks that wait for the role, in the order of
  their calls (`AllWaitInOrder`), no gate operation reorders it (`DequeFacts`), and a
  gate of one permit that has it to spare is held by nobody (`SpareMeansFree`), so
  that the task that enters has none ahead (`FirstHasNoneAhead`).
  `SomebodyAlwaysGoesOn` is the absence of deadlock: as long as a call is not over,
  some task runs, was woken where it waits, or was cancelled there, and so can take
  its next step. It needs `AllQueuedRight`: each gate's deque holds exactly the tasks
  suspended at it, each once, and under cancellation only woken ones of those. Then a gate
  at which somebody waits has woken a waiter or is held (`WaitsForSomebody`, from the
  permits and the wakeups); whoever holds the global gate runs; and whoever holds a
  role's gate runs or waits at the global one, which is asked in turn. The same
  invariant with the count of permits gives `IdleIsAlwaysNew`: when all calls are over
  the gates are as they were made, which is why a role can be used again after any
  failures and cancellations.
* **AgentWorker.** `TraceableAlways`, `SettledOnce` and `PauseAlwaysSticks` follow
  from the types and `LiveFiringIsTraceable`, which is inductive;
  `OpenAlwaysMeansUnderWay` adds that the counters of starts and faults never go
  back, so that a first process without faults was never anything else.
  `WorkerKeepsCaps` carries the caps of the dispatcher's promise through crashes and
  restarts: `Crash` ends everything that was live, and no other step starts a run than
  those that `Admissible` guards (`AdmitsWithin`, `NoneBeginsWithin`).
* **Budgets.** The caps are inductive together with the types. `SessionRefusalStaysFinal`
  needs in addition that `session_capped` is TRUE once a session refusal is
  among the verdicts (`FlagRemembers`). `VerdictsAlwaysFollowCaps` rests on `Tally`:
  the running totals are what the reference definition sums up over the bets let
  through so far (a sum is the size of a set of units, `SpentAdds`), and what it says of
  a bet depends on the verdicts before that bet only (`ReferenceStays`).
  `SessionCapAlwaysNearlyHolds` says what the rounding of `costs.py:107` may cost: the
  unrounded sum exceeds the session's cap by less than half a cent for each bet let
  through.
* **VaultWatcher.** `RestIsAlwaysPending`, `NeverOversleeps` and
  `EditsAreAccountedFor` are each inductive once the types are known: nothing but
  the generator removes a key of `_last`; a push sets the event in the same step;
  a path leaves `_last` only in the step that reads its file.
  `StoresCloseAfterDrain` adds that the consumer ends only with nothing pending, and
  that a closed debouncer gets no more pushes (`Drain`). On that rest the two safety
  halves of `StopEnds`: `ShutdownNeverStalls`, that the consumer the shutdown awaits
  has something to do or sleeps for a reason (a `close()` just before the sleep is
  noticed, one during it wakes), and `ClosedDrains`, that what is pending then only
  gets less.
* **SubDispatch.** A run's chain is written once, so that each invariant is shown for
  the new run from what it says of the run that started it. `TeamsStayWithinCap` needs
  in addition that a leader has been told exactly what the runs it started come to
  (`ToldTeam`), which each call preserves because only the caller's team grows
  (`TeamGrows`).
* **Reviews.** `StagedStaysSomewhere` is inductive once the types are known.
  `ArchivesDecided` and `AcceptsPromote` rest on `Decided`: what an accepting
  command has taken off its list is in the workspaces as far as a copy is staged, and
  as long as a command has marked the review, the brief says so, or was cut short, and
  its files are promoted, unless the commands are disturbed. `WriteDisturbs` covers
  every write of a run at once. That a delivered file is in the queue or in the
  archive (`CopiesSomewhere`) is what tells a copy taken along by another command from
  one that never was.
* **Capture.** `CaptureMeets` is inductive together with the types and `Fresh` (a
  thought that is not stored has no handler). Its core is `CandidatesAll`: when no
  more than `top_k` thoughts are near, the nearest `top_k + 1` embeddings contain
  them all, by counting, the thought's own being the one more. `Later` says what a
  handler's steps between two awaits may change. `CaptureOnce` rests on `Once`:
  nothing is written of a candidate that is still to be judged, nor any part of a
  conflict while the duplicate detector runs. `StoredIsAlwaysAttended` is the safety
  half of `StoredIsCompared`: a handler in a detector has searched and has a candidate
  left, and one that is over has searched for both detectors or has recorded what kept
  it from that (`OnTrack`). That it can go on is the choice of the least candidate
  left, which exists because the naturals are well founded (`HasLeast`).
* **Hooks.** The inductive invariant `IInv` adds to the types: what `last` says of
  sentinel and tombstone (`Marks`), that a run without others under way has its
  descriptor and, where it uses it, the sentinel (`Alone`), that whatever lies
  around belongs to a run under way unless one was given up (`Owned`), and for every
  call what it may have found so far, in each of its steps (`CallsOK`), for one that
  has seen its descriptor that it is there or was lost (`SeenMeansThere`). `LookKeeps`
  goes through the steps of the hook, `Assemble` through those of the runs. From it
  follow `EnvCallsAreScoped`, `LoneRunsAreScoped`, `ClearsMeanOpen` and
  `EndsAreClean`, for any number of bets, sessions, calls and runs.
* **Detect.** Each step of a detection has a lemma that says what it does to its own
  record and that it leaves the others but for the flags it clears (`ReadStep` to
  `WriteStep`, `KillStep`); everything that is no step of a detection is covered by
  `Outside`. `SettledAlwaysStaysOff` rests on `Closed`: of a settled conflict nothing
  that a detection has read, found or taken from the queue tells, and neither does the
  queue, so that no later write can bring it back. `AgeIsAlwaysKept` rests on
  `DetectInv`: a detection that is still current took from the queue what there was of
  it (`Alone`), which is what it said when it was whole last unless it is torn
  (`BeforeIsQueue`), what it takes for changed was committed within the window
  (`ModifiedLately`), and `MergedItems` reads off the merge what is kept.
  `QuietDetectionIsAlwaysExact` rests on `QuietIsExact`: while nobody else writes, what
  has been read is what the files before the next one say, and what was found holds of
  the bets as they are.
* **Plugin.** `NeverTwoProcesses` needs that the kind of the child follows from where
  `runReindex` is (`ChildFollowsJob`), `NoneIsLeftBehind` that nothing is started after
  `Unload` and what was there has been signalled (`QuietOnceUnloaded`).
  `SidebarIsCurrent` and `IndexIsCurrentUnlessMissed` are the safety halves of
  `ShownIsCurrent` and `IndexedUnlessMissed`: what the sidebar does not show yet is
  still to be heard of, to be scanned or was read as it is (`SidebarCatchesUp`), and
  what the index does not have yet is newer than the index, with an event, a timer or a
  process on its way that will find that, as long as nothing was missed
  (`IndexCatchesUp`).
* **LiveGraph.** `NoNodeIsShownTwice` is inductive with the types, since `Land` and
  `Hydrate` replace a node that is there (`LandsOnce`). `DecisionsAreKept` rests on
  `SoundTravel` and `GatesComeBySnapshot`: an event or a fetch about a gate item carries a
  decision of it, never that it is open, and a page has no gate item before its
  snapshot. `PageAtRestIsCurrent` is the safety half of
  `CurrentUnlessMissed`: for a page that has missed nothing, what its state or its
  snapshot does not have as it is will come with an event or a fetch (`KeepsUp`), so
  that a page to which nothing is on its way shows everything as it is.

Left to TLC: the eight liveness properties, which are out of the prover's reach as
soon as fairness is used. What they say beyond fairness is proved where it can be said
of one state or one step:

| checked by TLC | proved for every value of the constants |
|---|---|
| `EveryCallEnds` | `SomebodyAlwaysGoesOn`, `WakeupsAreNotLost` |
| `FiringIsSettled` | `OpenAlwaysMeansUnderWay`, `SettledOnce` |
| `EditIsCaptured` | `EditsAreAccountedFor`, `NeverOversleeps` |
| `StopEnds` | `ShutdownNeverStalls`, `ClosedDrains` |
| `StoredIsCompared` | `StoredIsAlwaysAttended` |
| `ShownIsCurrent` | `SidebarIsCurrent` |
| `IndexedUnlessMissed` | `IndexIsCurrentUnlessMissed` |
| `CurrentUnlessMissed` | `PageAtRestIsCurrent` |

Every invariant and every action property that a run checks is stated by a theorem.
What is not proved in these, besides the progress itself, is that a task which can go
on is not overtaken for ever: `EveryCallEnds` for a role with several permits, for one,
is no consequence of `SomebodyAlwaysGoesOn`.

## Not modelled

* Prompts, markdown layout, HTTP serialisation, the language models and embedding
  providers, UMAP, telemetry, rendering in the plugin and the frontend: they hold no
  state another part depends on, or they are numeric.
* The webhooks: they check a signature, format the payload and call
  `normalize_and_persist`, which `Capture` models.
* The walk over past briefs behind the daily cap of a role (`role_spend_last_24h`),
  which needs the reviews of all bets and a clock of 24 hours; `Budgets` takes the
  amount as an input. Runs in flight have no brief and do not count.
* `create_bet` with `--supersedes` (a second file is written) and two bets created
  with one slug; the numbers of tickets; the daily note.
* The chat view's bridge to the agent process, and the processors that draw
  buttons: a button starts a command of `Reviews`.
* `GET /agents/inflight` reading `_inflight` from a thread of the pool, a read only;
  a pause, which is looked at when the event is handled and not again when a queued
  firing starts.
* In `Capture`: a search of the vector store that raises, detectors switched off. In
  `Reviews`: the directory the queue is in, and its migration. In `Hooks`: the empty
  review directory that a dry run removes. In `Detect`: the Linear source of signals.

What would come next: the reviews of a role together with the clock of its daily
cap, and the supersession of a bet as two writes.
