--------------------------------- MODULE Hooks ---------------------------------
(***************************************************************************)
(* The tool hook of the agents' runs (cns/hook_executor.py, cns/hooks.py,  *)
(* `cns hook-active`, skills/execute/SKILL.md).                            *)
(*                                                                         *)
(* A run of a bet writes the bet's descriptor, names the bet in the        *)
(* sentinel (or in its environment), lets the agent work, and takes all of *)
(* it back.  The hook is a process of its own per tool call, of any agent  *)
(* or person in the vault: it looks for the descriptor that applies to it, *)
(* file by file, and lets the call pass or not.  Nothing locks these files.*)
(*                                                                         *)
(* A step is one access to the file system; a file that is being written   *)
(* is empty between its truncation and the write.  What a call asks for is *)
(* left open: what the hook found decides about every request.             *)
(***************************************************************************)
EXTENDS Integers, FiniteSets

CONSTANTS Bets, Sessions, Calls, Outsider,
          Rules,     \* Rules[b]: what the descriptor of bet b lets its role do
          Requests,  \* what a tool call may ask for
          MaxRuns    \* bound: runs that are started

Kept == {"none", "torn", "whole"}
Gated == {"write", "fetch", "search", "bash"}

ASSUME HooksAssumption ==
  /\ Bets \cap {"none", "torn", "open", "unresolvable", "died"} = {}
  /\ Outsider \notin Sessions
  /\ \A b \in Bets : Rules[b].web \in BOOLEAN
  /\ MaxRuns \in Nat

VARIABLES
  descriptor, \* descriptor[b]: the file <b>.json
  sentinel,   \* what the file .active says: a bet, "torn", or "none" without it
  tombstone,  \* the file .cleared exists
  session,    \* session[s]: where the run is that session s is at, and of which bet
  runs,       \* how many runs were started
  call,       \* call[c]: where a hook process is, and what it found
  alone,      \* the sessions that no other one was under way with
  last,       \* the last of `set` and `clear`: see Mark and WriteTombstone
  aborted     \* a run was given up somewhere on its way

files == <<descriptor, sentinel, tombstone>>
vars == <<descriptor, sentinel, tombstone, session, runs, call, alone, last, aborted>>

NoRun == [at |-> "idle", bet |-> "none", how |-> "none"]
NoCall == [at |-> "idle", from |-> Outsider, env |-> "none", vault |-> TRUE,
           bet |-> "none", found |-> "none", cleared |-> FALSE, lost |-> FALSE]

Init ==
  /\ descriptor = [b \in Bets |-> "none"]
  /\ sentinel = "none"
  /\ tombstone = FALSE
  /\ session = [s \in Sessions |-> NoRun]
  /\ runs = 0
  /\ call = [c \in Calls |-> NoCall]
  /\ alone = {}
  /\ last = "none"
  /\ aborted = FALSE

-------------------------------------------------------------------------------
(* A run of a bet, from `cns execute` to the end of the skill.             *)

UnderWay == {s \in Sessions : session[s].at # "idle"}
WithoutCallsOf(s) == [c \in Calls |-> IF call[c].from = s THEN NoCall ELSE call[c]]

\* A call that has seen the descriptor of its bet and is still to read it loses it
\* when that is removed.
Lose(b) == [c \in Calls |-> [call[c] EXCEPT
              !.lost = @ \/ (call[c].at = "environment" /\ call[c].env = b)]]

Goes(s, from, to) ==
  /\ session[s].at = from
  /\ session' = [session EXCEPT ![s].at = to]

\* write_hook_config opens the descriptor; how the agent will be told its bet is
\* the dispatcher's choice, "dry" is `cns execute --from-leader --dry-run`.
Describe(s, b, how) ==
  /\ session[s].at = "idle" /\ runs < MaxRuns
  /\ session' = [session EXCEPT ![s] = [at |-> "describing", bet |-> b, how |-> how]]
  /\ runs' = runs + 1
  /\ descriptor' = [descriptor EXCEPT ![b] = "torn"]
  /\ alone' = IF UnderWay = {} THEN {s} ELSE {}
  /\ UNCHANGED <<sentinel, tombstone, call, last, aborted>>

\* A run that is told by its environment starts its agent at once.
Described(s) ==
  /\ Goes(s, "describing", IF session[s].how = "env" THEN "running" ELSE "described")
  /\ descriptor' = [descriptor EXCEPT ![session[s].bet] = "whole"]
  /\ UNCHANGED <<sentinel, tombstone, runs, call, alone, last, aborted>>

\* A dry run removes the descriptor again, whoever has written it.
Discard(s) ==
  /\ session[s].at = "described" /\ session[s].how = "dry"
  /\ session' = [session EXCEPT ![s] = NoRun]
  /\ descriptor' = [descriptor EXCEPT ![session[s].bet] = "none"]
  /\ call' = Lose(session[s].bet)
  /\ UNCHANGED <<sentinel, tombstone, runs, alone, last, aborted>>

\* `cns hook-active set`: write_active_sentinel opens the sentinel, writes it, and
\* then drops the tombstone.
Mark(s) ==
  /\ session[s].how = "sentinel" /\ Goes(s, "described", "marking")
  /\ sentinel' = "torn"
  /\ last' = "set"
  /\ call' = [c \in Calls |-> [call[c] EXCEPT !.cleared = FALSE]]
  /\ UNCHANGED <<descriptor, tombstone, runs, alone, aborted>>

Marked(s) ==
  /\ Goes(s, "marking", "marked")
  /\ sentinel' = session[s].bet
  /\ UNCHANGED <<descriptor, tombstone, runs, call, alone, last, aborted>>

DropTombstone(s) ==
  /\ Goes(s, "marked", "running")
  /\ tombstone' = FALSE
  /\ UNCHANGED <<descriptor, sentinel, runs, call, alone, last, aborted>>

\* The agent has returned: none of its calls is still under way.  The skill runs
\* `cns hook-active clear`: clear_active_sentinel removes the sentinel, ...
Unmark(s) ==
  /\ \A c \in Calls : call[c].from = s => call[c].at \in {"idle", "decided"}
  /\ Goes(s, "running", "unmarked")
  /\ sentinel' = "none"
  /\ last' = IF \E t \in Sessions : session[t].at \in {"marking", "marked"} THEN last ELSE "clearing"
  /\ call' = WithoutCallsOf(s)
  /\ UNCHANGED <<descriptor, tombstone, runs, alone, aborted>>

\* Mutant: what `clear` did before there was a tombstone.
WriteNoTombstone(s, fails) ==
  /\ Goes(s, "unmarked", "cleared")
  /\ last' = IF last = "clearing" /\ ~fails THEN "clear" ELSE last
  /\ UNCHANGED <<descriptor, sentinel, tombstone, runs, call, alone, aborted>>

\* ... and then writes the tombstone; an error of that is ignored.
WriteTombstone(s, fails) ==
  /\ Goes(s, "unmarked", "cleared")
  /\ tombstone' = (tombstone \/ ~fails)
  /\ last' = IF last = "clearing" /\ ~fails THEN "clear" ELSE last
  /\ UNCHANGED <<descriptor, sentinel, runs, call, alone, aborted>>

\* Mutant: the descriptor is kept while a bet is active.
RemoveUnlessActive(s) ==
  /\ session[s].at = "cleared"
  /\ session' = [session EXCEPT ![s] = NoRun]
  /\ descriptor' = [descriptor EXCEPT ![session[s].bet] = IF sentinel = "none" THEN "none" ELSE @]
  /\ call' = IF sentinel = "none" THEN Lose(session[s].bet) ELSE call
  /\ UNCHANGED <<sentinel, tombstone, runs, alone, last, aborted>>

\* The skill removes the descriptor.
RemoveDescriptor(s) ==
  /\ session[s].at = "cleared"
  /\ session' = [session EXCEPT ![s] = NoRun]
  /\ descriptor' = [descriptor EXCEPT ![session[s].bet] = "none"]
  /\ call' = Lose(session[s].bet)
  /\ UNCHANGED <<sentinel, tombstone, runs, alone, last, aborted>>

\* A run is given up, by a person or with its session; its agent goes with it.
Abort(s) ==
  /\ session[s].at # "idle"
  /\ session' = [session EXCEPT ![s] = NoRun]
  /\ call' = WithoutCallsOf(s)
  /\ aborted' = TRUE
  /\ UNCHANGED <<files, runs, alone, last>>

-------------------------------------------------------------------------------
(* The hook process of a tool call: locate_descriptor.                     *)

Reads(c, from, to) ==
  /\ call[c].at = from
  /\ call' = [call EXCEPT ![c] = to]
  /\ UNCHANGED <<files, session, runs, alone, last, aborted>>

At(c, step) == [call[c] EXCEPT !.at = step]
Found(c, what) == [call[c] EXCEPT !.at = "decided", !.found = what, !.bet = "none"]

\* A tool call of a run's agent, or of somebody else in the vault; vault says
\* whether CNS_VAULT_ROOT or the working directory leads to the vault.
Start(c, from, vault) ==
  /\ call[c].at \in {"idle", "decided"}
  /\ from # Outsider => session[from].at = "running"
  /\ call' = [call EXCEPT ![c] =
                [NoCall EXCEPT !.at = "start", !.from = from, !.vault = vault,
                   !.env = IF from # Outsider /\ session[from].how = "env"
                           THEN session[from].bet ELSE "none",
                   !.cleared = (last = "clear")]]
  /\ UNCHANGED <<files, session, runs, alone, last, aborted>>

\* Mutant: an unresolvable bet in the environment is ignored.
EnvLookOrFallThrough(c) ==
  /\ call[c].env # "none"
  /\ Reads(c, "start", IF call[c].vault /\ descriptor[call[c].env] # "none"
                       THEN At(c, "environment") ELSE At(c, "tombstone"))

\* $CNS_ACTIVE_BET names a bet: it is that one or, without its descriptor, none.
EnvLook(c) ==
  /\ call[c].env # "none"
  /\ Reads(c, "start", IF call[c].vault /\ descriptor[call[c].env] # "none"
                       THEN At(c, "environment") ELSE Found(c, "unresolvable"))

\* The file is read after the look: a removal in between ends the process with an
\* exception.
EnvRead(c) ==
  Reads(c, "environment",
        Found(c, CASE descriptor[call[c].env] = "whole" -> call[c].env
                   [] descriptor[call[c].env] = "torn" -> "unresolvable"
                   [] OTHER -> "died"))

OutsideVault(c) ==
  /\ call[c].env = "none" /\ ~call[c].vault
  /\ Reads(c, "start", Found(c, "open"))

\* The sentinel, if it can be read, names a bet.
SentinelRead(c) ==
  /\ call[c].env = "none" /\ call[c].vault
  /\ Reads(c, "start", IF sentinel \in Bets THEN [At(c, "target") EXCEPT !.bet = sentinel]
                       ELSE At(c, "tombstone"))

\* Mutant: with more than one descriptor, none applies.
TargetReadIfOnly(c) ==
  Reads(c, "target", IF {b \in Bets : descriptor[b] = "whole"} = {call[c].bet}
                     THEN Found(c, call[c].bet) ELSE At(c, "tombstone"))

\* Its descriptor, if that can be read, applies.
TargetRead(c) ==
  Reads(c, "target", IF descriptor[call[c].bet] = "whole" THEN Found(c, call[c].bet)
                     ELSE At(c, "tombstone"))

TombstoneLook(c) == Reads(c, "tombstone", IF tombstone THEN Found(c, "open") ELSE At(c, "glob"))

\* Without a sentinel and a tombstone, the only descriptor applies ...
Glob(c) ==
  LET there == {b \in Bets : descriptor[b] # "none"} IN
  \/ \E b \in Bets : there = {b} /\ Reads(c, "glob", [At(c, "candidate") EXCEPT !.bet = b])
  \/ Cardinality(there) # 1 /\ Reads(c, "glob", Found(c, "open"))

\* ... if it can be read; again a removal in between ends the process.
CandidateRead(c) ==
  Reads(c, "candidate",
        Found(c, CASE descriptor[call[c].bet] = "whole" -> call[c].bet
                   [] descriptor[call[c].bet] = "torn" -> "open"
                   [] OTHER -> "died"))

Look(c) ==
  \/ EnvLook(c) \/ EnvRead(c) \/ OutsideVault(c) \/ SentinelRead(c) \/ TargetRead(c)
  \/ TombstoneLook(c) \/ Glob(c) \/ CandidateRead(c)

Next ==
  \/ \E s \in Sessions :
       \/ \E b \in Bets, how \in {"sentinel", "env", "dry"} : Describe(s, b, how)
       \/ Described(s) \/ Discard(s) \/ Mark(s) \/ Marked(s) \/ DropTombstone(s)
       \/ Unmark(s) \/ RemoveDescriptor(s) \/ Abort(s)
       \/ \E fails \in BOOLEAN : WriteTombstone(s, fails)
  \/ \E c \in Calls :
       \/ \E from \in Sessions \cup {Outsider}, vault \in BOOLEAN : Start(c, from, vault)
       \/ Look(c)

Spec == Init /\ [][Next]_vars

-------------------------------------------------------------------------------
(* What the hook answers: evaluate, run, main.                             *)

\* The patterns of the allowlists are abstracted to what they match; a request
\* without an argument matches none.
Evaluate(r, rules) ==
  CASE r.arg = "malformed" -> FALSE
    [] r.tool = "write" -> r.arg = rules.staging
    [] r.tool = "fetch" -> rules.web /\ r.arg \in rules.hosts
    [] r.tool = "search" -> rules.web
    [] r.tool = "bash" -> r.arg \in rules.commands
    [] OTHER -> TRUE

\* A process that ends with an exception has written no decision, and its exit code
\* is that of an error: nothing blocks the call.
Allows(found, r) ==
  CASE r.tool = "garbled" -> FALSE
    [] found \in {"open", "died"} -> TRUE
    [] found = "unresolvable" -> r.tool \notin Gated
    [] OTHER -> Evaluate(r, Rules[found])

-------------------------------------------------------------------------------
(* Properties.                                                             *)

Steps == {"idle", "describing", "described", "marking", "marked", "running",
          "unmarked", "cleared"}

RunStates == [at : Steps, bet : Bets \cup {"none"}, how : {"none", "sentinel", "env", "dry"}]

CallStates ==
  [at : {"idle", "start", "environment", "target", "tombstone", "glob", "candidate", "decided"},
   from : Sessions \cup {Outsider}, env : Bets \cup {"none"}, vault : BOOLEAN,
   bet : Bets \cup {"none"}, found : Bets \cup {"none", "open", "unresolvable", "died"},
   cleared : BOOLEAN, lost : BOOLEAN]

TypeOK ==
  /\ descriptor \in [Bets -> Kept]
  /\ sentinel \in Bets \cup {"none", "torn"}
  /\ tombstone \in BOOLEAN
  /\ session \in [Sessions -> RunStates]
  /\ \A s \in Sessions : session[s].at # "idle" => session[s].bet \in Bets
  /\ runs \in 0 .. MaxRuns
  /\ call \in [Calls -> CallStates]
  /\ \A c \in Calls : call[c].at \in {"target", "candidate"} => call[c].bet \in Bets
  /\ alone \subseteq Sessions
  /\ last \in {"none", "set", "clearing", "clear"}
  /\ aborted \in BOOLEAN

\* A call whose environment names its bet gets no more than that bet's role may do,
\* whatever other runs, dry runs and clears do to the files while the hook looks at
\* them, and never the open mode: at worst it is refused.  One thing only gives it
\* more: another run or dry run of that bet removes the descriptor after the hook has
\* seen it and before it has read it; the hook process then ends with an exception and
\* denies nothing.
EnvCallIsScoped ==
  \A c \in Calls : call[c].at = "decided" /\ call[c].env # "none" /\ ~call[c].lost =>
    \A r \in Requests : Allows(call[c].found, r) =>
      r.tool \notin Gated \/ Evaluate(r, Rules[call[c].env])

\* The calls of a run that no other run was under way with are judged by its own
\* descriptor, exactly, whatever aborted runs before it have left behind.
LoneRunIsScoped ==
  \A c \in Calls : \A s \in alone :
    call[c].from = s /\ call[c].vault /\ call[c].at = "decided"
      => call[c].found = session[s].bet

\* After a `clear` that no `set` overlapped or followed, a call that names no bet is
\* in open mode, whatever descriptors have been left or are being written.
ClearMeansOpen ==
  \A c \in Calls : call[c].cleared /\ call[c].at = "decided" /\ call[c].env = "none"
    => call[c].found = "open"

\* When all runs have come to their ends nothing is left that a later call could
\* be judged by, however they overlapped, unless one was given up on its way.
EndsClean ==
  UnderWay = {} /\ ~aborted =>
    sentinel = "none" /\ \A b \in Bets : descriptor[b] = "none"
===============================================================================
