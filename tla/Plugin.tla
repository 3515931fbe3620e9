--------------------------------- MODULE Plugin --------------------------------
(***************************************************************************)
(* The Obsidian plugin's watchers and the processes they start             *)
(* (obsidian-plugin/src: main.ts, vaultState.ts, watchers/betWatcher.ts,   *)
(* cnsRunner.ts; `cns reindex` of cns/cli.py).                             *)
(*                                                                         *)
(* A change of a file reaches the plugin as an event, some time later.  It *)
(* restarts the timer of the sidebar's scan and, for a bet, the timer of   *)
(* the index.  When that runs out the plugin starts `cns reindex --check`, *)
(* and `cns reindex` if that finds a bet newer than the index.  The vault  *)
(* is read file by file, by the scan and by the process, while it changes. *)
(* The callbacks of the plugin are steps of one thread.                    *)
(***************************************************************************)
EXTENDS Integers, FiniteSets

CONSTANTS Bets,
          Others,                 \* other files the sidebar shows: briefs, conflicts
          MaxEdits, MaxFailures   \* bounds

VaultFiles == Bets \cup Others

ASSUME PluginAssumption ==
  Bets \cap Others = {} /\ MaxEdits \in Nat /\ MaxFailures \in Nat

VARIABLES
  loaded,    \* the plugin is loaded
  hasCns,    \* discoverCns found the binary
  file,      \* file[f]: which version of f the vault has
  newer,     \* the bets whose time stamp is later than the index's
  index,     \* BETS.md: [whole, of], of[b] is the version it was made from
  events,    \* the files whose change the plugin is still to hear of
  timer,     \* the watcher's debounce timer is running
  job,       \* where runReindex is at
  child,     \* the process it has started
  scanTimer, \* the debounce timer of the scan is running
  scan,      \* [under, left, got]: the scan under way, the files to read, the read
  shown,     \* what the sidebar and the status bar show
  edits, failures,
  missed     \* an edit whose index was lost on a known way: see IndexedUnlessMissed

watcher == <<timer, job, child>>
sidebar == <<scanTimer, scan, shown>>
counts == <<edits, failures>>
pluginVars == <<loaded, hasCns, file, newer, index, events, timer, job, child, scanTimer,
                scan, shown, edits, failures, missed>>

NoChild == [what |-> "none", at |-> "none", left |-> {}, of |-> [b \in Bets |-> 0],
            killed |-> FALSE, late |-> FALSE, code |-> 0]
NoScan == [under |-> FALSE, left |-> {}, got |-> [f \in VaultFiles |-> 0]]

PluginInit ==
  /\ loaded = TRUE
  /\ hasCns \in BOOLEAN
  /\ file = [f \in VaultFiles |-> 0]
  /\ newer = {}
  /\ index = [whole |-> TRUE, of |-> [b \in Bets |-> 0]]
  /\ events = {}
  /\ timer = FALSE
  /\ job = "idle"
  /\ child = NoChild
  /\ scanTimer = TRUE
  /\ scan = NoScan
  /\ shown = [f \in VaultFiles |-> 0]
  /\ edits = 0
  /\ failures = 0
  /\ missed = FALSE

-------------------------------------------------------------------------------
(* The vault and its events.                                               *)

\* An edit that a running reindex has read past, or cannot be sure to have read, is
\* older than the index when that is written.
Edit(f) ==
  /\ edits < MaxEdits
  /\ edits' = edits + 1
  /\ file' = [file EXCEPT ![f] = @ + 1]
  /\ newer' = IF f \in Bets THEN newer \cup {f} ELSE newer
  /\ events' = IF loaded THEN events \cup {f} ELSE events
  /\ missed' = (missed \/ (f \in Bets /\ child.what = "reindex" /\ child.at # "ended"
                          /\ f \notin child.left))
  /\ UNCHANGED <<loaded, hasCns, index, watcher, sidebar, failures>>

\* Mutant: only the first event starts the timer, and it is not remembered when it
\* comes while a process is there.
DeliverUnlessBusy(f) ==
  /\ f \in events
  /\ events' = events \ {f}
  /\ scanTimer' = TRUE
  /\ timer' = (timer \/ (f \in Bets /\ job = "idle"))
  /\ UNCHANGED <<loaded, hasCns, file, newer, index, job, child, scan, shown, counts, missed>>

\* The handlers of `modify`: scheduleScan, and handleModify for a bet.
Deliver(f) ==
  /\ f \in events
  /\ events' = events \ {f}
  /\ scanTimer' = TRUE
  /\ timer' = (timer \/ f \in Bets)
  /\ UNCHANGED <<loaded, hasCns, file, newer, index, job, child, scan, shown, counts, missed>>

-------------------------------------------------------------------------------
(* The watcher of the bets.                                                *)

Start(what) == [NoChild EXCEPT !.what = what, !.at = "running",
                               !.left = IF what = "reindex" THEN Bets ELSE {}]

\* The timer runs out; nothing is started over a process that is still there, or
\* without the binary.
TimerFires ==
  /\ timer
  /\ timer' = FALSE
  /\ IF job # "idle" \/ ~hasCns THEN UNCHANGED <<job, child>>
     ELSE job' = "checking" /\ child' = Start("check")
  /\ missed' = (missed \/ ~hasCns \/ child.what # "none")
  /\ UNCHANGED <<loaded, hasCns, file, newer, index, events, sidebar, counts>>

\* The check has ended: fresh, too late, or followed by the reindex.
Checked ==
  /\ job = "checking" /\ child.at = "ended"
  /\ IF ~loaded \/ child.late \/ child.code = 0 THEN job' = "idle" /\ child' = NoChild
     ELSE job' = "reindexing" /\ child' = Start("reindex")
  /\ UNCHANGED <<loaded, hasCns, file, newer, index, events, timer, sidebar, counts, missed>>

Reindexed ==
  /\ job = "reindexing" /\ child.at = "ended"
  /\ job' = "idle" /\ child' = NoChild
  /\ UNCHANGED <<loaded, hasCns, file, newer, index, events, timer, sidebar, counts, missed>>

\* Mutant: the promise is rejected before the process has ended.
TimeoutRejects ==
  /\ child.at \in {"running", "open"} /\ ~child.killed /\ failures < MaxFailures
  /\ failures' = failures + 1
  /\ child' = [child EXCEPT !.killed = TRUE, !.late = TRUE]
  /\ job' = "idle"
  /\ missed' = TRUE
  /\ UNCHANGED <<loaded, hasCns, file, newer, index, events, timer, sidebar, edits>>

\* The runner's own timer runs out; the promise is rejected when the process ends.
Timeout ==
  /\ child.at \in {"running", "open"} /\ ~child.killed /\ failures < MaxFailures
  /\ failures' = failures + 1
  /\ child' = [child EXCEPT !.killed = TRUE, !.late = TRUE]
  /\ missed' = TRUE
  /\ UNCHANGED <<loaded, hasCns, file, newer, index, events, timer, job, sidebar, edits>>

\* Mutant: the process is not told.
UnloadSilently ==
  /\ loaded
  /\ loaded' = FALSE
  /\ events' = {} /\ timer' = FALSE /\ scanTimer' = FALSE
  /\ UNCHANGED <<hasCns, file, newer, index, job, child, scan, shown, counts, missed>>

\* onunload: the timers are stopped and the process gets a signal.
Unload ==
  /\ loaded
  /\ loaded' = FALSE
  /\ events' = {} /\ timer' = FALSE /\ scanTimer' = FALSE
  /\ child' = IF child.at \in {"running", "open"} THEN [child EXCEPT !.killed = TRUE] ELSE child
  /\ UNCHANGED <<hasCns, file, newer, index, job, scan, shown, counts, missed>>

-------------------------------------------------------------------------------
(* The process: `cns reindex --check` and `cns reindex`.                   *)

\* The check compares time stamps.
Check ==
  /\ child.what = "check" /\ child.at = "running"
  /\ child' = [child EXCEPT !.at = "ended", !.code = IF newer = {} THEN 0 ELSE 1]
  /\ UNCHANGED <<loaded, hasCns, file, newer, index, events, timer, job, sidebar, counts, missed>>

ReadBet(b) ==
  /\ child.at = "running" /\ b \in child.left
  /\ child' = [child EXCEPT !.left = @ \ {b}, !.of[b] = file[b]]
  /\ UNCHANGED <<loaded, hasCns, file, newer, index, events, timer, job, sidebar, counts, missed>>

OpenIndex ==
  /\ child.what = "reindex" /\ child.at = "running" /\ child.left = {}
  /\ child' = [child EXCEPT !.at = "open"]
  /\ index' = [index EXCEPT !.whole = FALSE]
  /\ newer' = {}
  /\ UNCHANGED <<loaded, hasCns, file, events, timer, job, sidebar, counts, missed>>

WriteIndex ==
  /\ child.at = "open"
  /\ child' = [child EXCEPT !.at = "ended"]
  /\ index' = [whole |-> TRUE, of |-> child.of]
  /\ newer' = {}
  /\ UNCHANGED <<loaded, hasCns, file, events, timer, job, sidebar, counts, missed>>

\* A signal takes effect wherever the process is; a process may also fail by itself
\* before it writes.
Dies ==
  /\ child.at \in {"running", "open"}
  /\ child.killed \/ (child.at = "running" /\ failures < MaxFailures)
  /\ child' = [child EXCEPT !.at = "ended", !.code = 2]
  /\ failures' = IF child.killed THEN failures ELSE failures + 1
  /\ missed' = TRUE
  /\ UNCHANGED <<loaded, hasCns, file, newer, index, events, timer, job, sidebar, edits>>

-------------------------------------------------------------------------------
(* The scan of the sidebar.                                                *)

\* Mutant: a scan that would overlap another is left out.
ScanFiresOrSkips ==
  /\ scanTimer
  /\ scanTimer' = FALSE
  /\ scan' = IF scan.under THEN scan ELSE [NoScan EXCEPT !.under = TRUE, !.left = VaultFiles]
  /\ UNCHANGED <<loaded, hasCns, file, newer, index, events, watcher, shown, counts, missed>>

\* runScan, or its timer again while one is under way.
ScanFires ==
  /\ scanTimer
  /\ scanTimer' = scan.under
  /\ scan' = IF scan.under THEN scan ELSE [NoScan EXCEPT !.under = TRUE, !.left = VaultFiles]
  /\ UNCHANGED <<loaded, hasCns, file, newer, index, events, watcher, shown, counts, missed>>

ScanReads(f) ==
  /\ f \in scan.left
  /\ scan' = [scan EXCEPT !.left = @ \ {f}, !.got[f] = file[f]]
  /\ UNCHANGED <<loaded, hasCns, file, newer, index, events, watcher, scanTimer, shown,
                 counts, missed>>

ScanDone ==
  /\ scan.under /\ scan.left = {}
  /\ shown' = scan.got
  /\ scan' = NoScan
  /\ UNCHANGED <<loaded, hasCns, file, newer, index, events, watcher, scanTimer, counts, missed>>

-------------------------------------------------------------------------------
Progress ==
  \/ \E f \in VaultFiles : Deliver(f) \/ ScanReads(f)
  \/ \E b \in Bets : ReadBet(b)
  \/ TimerFires \/ Checked \/ Reindexed \/ Check \/ OpenIndex \/ WriteIndex
  \/ ScanFires \/ ScanDone

PluginNext == Progress \/ Timeout \/ Dies \/ Unload \/ \E f \in VaultFiles : Edit(f)

\* Timers run out, processes and reads go on, events are delivered.
PluginFairness ==
  /\ \A f \in VaultFiles : WF_pluginVars(Deliver(f)) /\ WF_pluginVars(ScanReads(f))
  /\ \A b \in Bets : WF_pluginVars(ReadBet(b))
  /\ WF_pluginVars(TimerFires) /\ WF_pluginVars(Checked) /\ WF_pluginVars(Reindexed)
  /\ WF_pluginVars(Check) /\ WF_pluginVars(OpenIndex) /\ WF_pluginVars(WriteIndex)
  /\ WF_pluginVars(ScanFires) /\ WF_pluginVars(ScanDone)

PluginSpec == PluginInit /\ [][PluginNext]_pluginVars /\ PluginFairness

-------------------------------------------------------------------------------
(* Properties.                                                             *)

Processes ==
  [what : {"none", "check", "reindex"}, at : {"none", "running", "open", "ended"},
   left : SUBSET Bets, of : [Bets -> Nat], killed : BOOLEAN, late : BOOLEAN, code : Nat]

PluginTypeOK ==
  /\ loaded \in BOOLEAN /\ hasCns \in BOOLEAN
  /\ file \in [VaultFiles -> Nat]
  /\ newer \subseteq Bets
  /\ index \in [whole : BOOLEAN, of : [Bets -> Nat]]
  /\ events \subseteq VaultFiles
  /\ timer \in BOOLEAN
  /\ job \in {"idle", "checking", "reindexing"}
  /\ child \in Processes
  /\ scanTimer \in BOOLEAN
  /\ scan \in [under : BOOLEAN, left : SUBSET VaultFiles, got : [VaultFiles -> Nat]]
  /\ shown \in [VaultFiles -> Nat]
  /\ edits \in Nat /\ failures \in Nat
  /\ missed \in BOOLEAN

\* Two processes of the watcher never run at the same time: while one is there, timed
\* out or not, the watcher starts no other.
OneProcess == child.at \in {"running", "open"} => job # "idle"

\* No process goes on after the plugin was unloaded: one that is left has been told to
\* stop, whenever in the check, the reindex, or between them the unload came.
NoneOutlivesPlugin == ~loaded /\ child.at \in {"running", "open"} => child.killed

\* When the edits have ended, the sidebar comes to show every file as it is, however
\* the edits, their events and the scans overlapped.
ShownIsCurrent == <>[](~loaded \/ shown = file)

IndexIsCurrent == index.whole /\ \A b \in Bets : index.of[b] = file[b]

\* When the edits have ended, the index comes to list every bet as it is, unless an
\* edit was made behind a running reindex, the timer ran out under a process, or a
\* process failed or was stopped: these are the only ways to miss one.
IndexedUnlessMissed == <>[](~loaded \/ missed \/ IndexIsCurrent)

\* "the in-flight one will pick up any new changes that landed after it started - and
\* a fresh modify event will retrigger us anyway": without failures, every edit comes
\* to be indexed.
EditIsIndexed == <>[](~loaded \/ ~hasCns \/ failures > 0 \/ IndexIsCurrent)
===============================================================================
