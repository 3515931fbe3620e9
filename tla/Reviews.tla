-------------------------------- MODULE Reviews --------------------------------
(***************************************************************************)
(* The review of one bet (cns/reviews.py, cns/execute.py): its directory   *)
(* in the leader's queue, the agent runs that stage files and leave a      *)
(* brief there, the commands `cns reviews accept` and `reject`, and the    *)
(* archive.                                                                *)
(*                                                                         *)
(* Each command is a process of its own; the plugin starts one per click   *)
(* on the brief's buttons and kills it when it takes too long.  A step is  *)
(* one access to the file system.  A kill falls between two of them, or    *)
(* inside the writing of the brief, which leaves a file that does not      *)
(* parse.  (A write that is not cut short is one step: a brief moved while *)
(* it is empty is completed where it was moved to.)  A run does what its   *)
(* prompt and skills/execute/SKILL.md say: it stages files and then writes *)
(* the brief, and the skill then reads the brief and writes it back with   *)
(* the cost.                                                               *)
(*                                                                         *)
(* A run that dies just takes no further step.  What a file contains is    *)
(* abstracted to the run that staged it.                                   *)
(***************************************************************************)
EXTENDS Integers, Sequences, FiniteSets

CONSTANTS Files,        \* the workspace paths a brief may list
          MaxRuns,      \* bound: runs of the bet's agent
          Ops,          \* the commands that may be under way at once
          MaxCommands   \* bound: commands in all

ASSUME ReviewsAssumption == MaxRuns \in Nat /\ MaxCommands \in Nat

Runs == 1 .. MaxRuns
NoRun == 0

Malformed == [run |-> NoRun, status |-> "malformed", touched |-> {}]
NoBrief == [run |-> NoRun, status |-> "none", touched |-> {}]
Nothing == [f \in Files |-> NoRun]

VARIABLES
  dir,        \* the review's directory exists
  brief,      \* what brief.md in it says
  files,      \* files[f]: the run whose copy of f is staged in it, or NoRun
  archive,    \* the archived reviews, the oldest first
  thisSecond, \* how many of them were archived in the current second
  workspace,  \* workspace[f]: the run whose copy of f was promoted last, or NoRun
  run,        \* run[r]: where run r is, what it has staged, what the skill has read
  cmd,        \* cmd[o]: where command o is, and what it has read
  commands,   \* how many commands were started
  disturbed,  \* see Disturbs
  cut         \* see KillInWrite

dirVars == <<dir, brief, files, cut>>
archiveVars == <<archive, thisSecond>>
cmdVars == <<cmd, commands>>
vars == <<dir, brief, files, archive, thisSecond, workspace, run, cmd, commands, disturbed,
          cut>>

UnderWay == {o \in Ops : cmd[o].pc # "idle"}

\* A dispatch or a run writes into the directory: it disturbs the commands that
\* are under way.
Disturbs == disturbed' = (disturbed \/ UnderWay # {})

Idle == [pc |-> "idle", verb |-> "none", read |-> NoBrief, todo |-> {}]

-------------------------------------------------------------------------------
Init ==
  /\ dir = FALSE
  /\ brief = NoBrief
  /\ files = Nothing
  /\ archive = <<>>
  /\ thisSecond = 0
  /\ workspace = Nothing
  /\ run = [r \in Runs |-> [pc |-> "none", staged |-> {}, read |-> NoBrief]]
  /\ cmd = [o \in Ops |-> Idle]
  /\ commands = 0
  /\ disturbed = FALSE
  /\ cut = FALSE

-------------------------------------------------------------------------------
(* The runs.                                                               *)

\* _has_pending_review: a brief that does not parse is not pending.
HasPendingReview == brief.status = "pending"

\* build_dispatch_queue plans the bet, with --all (include_pending) also over a
\* pending review, and build_agent_envelope makes the directory if it is not
\* there.  A run that is still at work is not looked for.
Dispatch(r, include_pending) ==
  /\ run[r].pc = "none"
  /\ \A q \in Runs : q < r => run[q].pc # "none"
  /\ include_pending \/ ~HasPendingReview
  /\ run' = [run EXCEPT ![r].pc = "working"]
  /\ dir' = TRUE
  /\ Disturbs
  /\ UNCHANGED <<brief, files, cut, archiveVars, workspace, cmdVars>>

\* The agent of run r stages its copy of file f, once.
Stage(r, f) ==
  /\ run[r].pc = "working" /\ f \notin run[r].staged
  /\ dir' = TRUE
  /\ files' = [files EXCEPT ![f] = r]
  /\ run' = [run EXCEPT ![r].staged = @ \cup {f}]
  /\ Disturbs
  /\ UNCHANGED <<brief, cut, archiveVars, workspace, cmdVars>>

\* It writes its brief, which lists what it has staged and what it has deleted.
Report(r, deleted) ==
  /\ run[r].pc = "working"
  /\ dir' = TRUE
  /\ brief' = [run |-> r, status |-> "pending", touched |-> run[r].staged \cup deleted]
  /\ cut' = FALSE
  /\ run' = [run EXCEPT ![r].pc = "reported"]
  /\ Disturbs
  /\ UNCHANGED <<files, archiveVars, workspace, cmdVars>>

Readable == dir /\ brief.status \notin {"none", "malformed"}

\* The skill reads the brief ...
ReadForCost(r) ==
  /\ run[r].pc = "reported"
  /\ Readable
  /\ run' = [run EXCEPT ![r].pc = "costing", ![r].read = brief]
  /\ UNCHANGED <<dirVars, archiveVars, workspace, cmdVars, disturbed>>

\* ... and writes it back with the cost; write_brief makes the directory.
WriteCost(r) ==
  /\ run[r].pc = "costing"
  /\ dir' = TRUE
  /\ brief' = run[r].read
  /\ cut' = FALSE
  /\ run' = [run EXCEPT ![r].pc = "over", ![r].read = NoBrief]
  /\ Disturbs
  /\ UNCHANGED <<files, archiveVars, workspace, cmdVars>>

-------------------------------------------------------------------------------
(* accept_review and reject_review.                                        *)

Verbs == {"accepted", "rejected"}

\* A command finds the brief and loads it, whatever its status is; the files to
\* promote are those that this brief lists.
Load(o, verb) ==
  /\ cmd[o].pc = "idle"
  /\ commands < MaxCommands
  /\ Readable
  /\ cmd' = [cmd EXCEPT ![o] = [pc |-> "loaded", verb |-> verb, read |-> brief,
                                todo |-> IF verb = "accepted" THEN brief.touched ELSE {}]]
  /\ commands' = commands + 1
  /\ disturbed' = (disturbed /\ UnderWay # {})
  /\ UNCHANGED <<dirVars, archiveVars, workspace, run>>

\* A listed file is promoted if a copy is staged, whatever the brief says was
\* done to it.  (The order of the list is left open.)
Promote(o, f) ==
  /\ cmd[o].pc = "loaded"
  /\ f \in cmd[o].todo
  /\ cmd' = [cmd EXCEPT ![o].todo = @ \ {f}]
  /\ workspace' = [workspace EXCEPT ![f] = IF files[f] = NoRun THEN @ ELSE files[f]]
  /\ UNCHANGED <<dirVars, archiveVars, run, commands, disturbed>>

\* Mutant: it is marked before its files are promoted.
MarkFirst(o) ==
  /\ cmd[o].pc = "loaded"
  /\ dir' = TRUE
  /\ brief' = [cmd[o].read EXCEPT !.status = cmd[o].verb]
  /\ cut' = FALSE
  /\ cmd' = [cmd EXCEPT ![o].pc = "marked"]
  /\ UNCHANGED <<files, archiveVars, workspace, run, commands, disturbed>>

\* The brief that was read is written back with its new status; write_brief makes
\* the directory when it is gone.
Mark(o) ==
  /\ cmd[o].pc = "loaded" /\ cmd[o].todo = {}
  /\ dir' = TRUE
  /\ brief' = [cmd[o].read EXCEPT !.status = cmd[o].verb]
  /\ cut' = FALSE
  /\ cmd' = [cmd EXCEPT ![o].pc = "marked"]
  /\ UNCHANGED <<files, archiveVars, workspace, run, commands, disturbed>>

\* What matters of a review in the archive.
Archived == [status |-> brief.status, files |-> files]

\* Mutant: a review that is already archived under the same name is replaced.
ArchiveReplaces ==
  archive' = IF thisSecond = 0 THEN Append(archive, Archived)
             ELSE [archive EXCEPT ![Len(archive)] = Archived]

\* _archive_path names the second only: a second review of that second is moved
\* into the first one's directory.
Archive == archive' = Append(archive, Archived)

\* Mutant: it is moved before it is marked.
MoveUnmarked(o) ==
  /\ cmd[o].pc \in {"loaded", "marked"} /\ cmd[o].todo = {}
  /\ dir /\ thisSecond < 2
  /\ Archive
  /\ thisSecond' = thisSecond + 1
  /\ dir' = FALSE /\ brief' = NoBrief /\ files' = Nothing /\ cut' = FALSE
  /\ cmd' = [cmd EXCEPT ![o] = Idle]
  /\ UNCHANGED <<workspace, run, commands, disturbed>>

\* shutil.move into .archive.
MoveToArchive(o) ==
  /\ cmd[o].pc = "marked"
  /\ dir /\ thisSecond < 2
  /\ Archive
  /\ thisSecond' = thisSecond + 1
  /\ dir' = FALSE /\ brief' = NoBrief /\ files' = Nothing /\ cut' = FALSE
  /\ cmd' = [cmd EXCEPT ![o] = Idle]
  /\ UNCHANGED <<workspace, run, commands, disturbed>>

\* The move raises: the directory is gone, or a third review of this second
\* finds both names taken.
MoveFails(o) ==
  /\ cmd[o].pc = "marked"
  /\ ~dir \/ thisSecond >= 2
  /\ cmd' = [cmd EXCEPT ![o] = Idle]
  /\ UNCHANGED <<dirVars, archiveVars, workspace, run, commands, disturbed>>

\* The process is killed between two accesses.
Kill(o) ==
  /\ o \in UnderWay
  /\ cmd' = [cmd EXCEPT ![o] = Idle]
  /\ UNCHANGED <<dirVars, archiveVars, workspace, run, commands, disturbed>>

\* It is killed while it writes the brief.  What it leaves may be cut short
\* behind the back of a command that has marked the brief and is about to move
\* the directory.
KillInWrite(o) ==
  /\ cmd[o].pc = "loaded" /\ cmd[o].todo = {}
  /\ dir' = TRUE
  /\ brief' = Malformed
  /\ cmd' = [cmd EXCEPT ![o] = Idle]
  /\ cut' = (\E p \in Ops \ {o} : cmd[p].pc = "marked")
  /\ UNCHANGED <<files, archiveVars, workspace, run, commands, disturbed>>

\* The clock moves on to the next second.
Tick ==
  /\ thisSecond > 0
  /\ thisSecond' = 0
  /\ UNCHANGED <<dirVars, archive, workspace, run, cmdVars, disturbed>>

Next ==
  \/ \E r \in Runs :
       \/ \E all \in BOOLEAN : Dispatch(r, all)
       \/ \E f \in Files : Stage(r, f)
       \/ \E deleted \in SUBSET Files : Report(r, deleted)
       \/ ReadForCost(r) \/ WriteCost(r)
  \/ \E o \in Ops :
       \/ \E verb \in Verbs : Load(o, verb)
       \/ \E f \in Files : Promote(o, f)
       \/ Mark(o) \/ MoveToArchive(o) \/ MoveFails(o) \/ Kill(o) \/ KillInWrite(o)
  \/ Tick

Spec == Init /\ [][Next]_vars

-------------------------------------------------------------------------------
(* Properties.                                                             *)

Statuses == {"none", "malformed", "pending"} \cup Verbs
Briefs == [run : Runs, status : {"pending"} \cup Verbs, touched : SUBSET Files]

RunStates == [pc : {"none", "working", "reported", "costing", "over"},
              staged : SUBSET Files, read : Briefs \cup {NoBrief}]
CmdStates == [pc : {"idle", "loaded", "marked"}, verb : Verbs \cup {"none"},
              read : Briefs \cup {NoBrief}, todo : SUBSET Files]
Reviewed == [status : Statuses, files : [Files -> 0 .. MaxRuns]]

TypeOK ==
  /\ dir \in BOOLEAN
  /\ brief \in Briefs \cup {NoBrief, Malformed}
  /\ files \in [Files -> 0 .. MaxRuns]
  /\ archive \in Seq(Reviewed)
  /\ thisSecond \in 0 .. 2
  /\ workspace \in [Files -> 0 .. MaxRuns]
  /\ run \in [Runs -> RunStates]
  /\ cmd \in [Ops -> CmdStates]
  /\ commands \in 0 .. MaxCommands
  /\ disturbed \in BOOLEAN
  /\ cut \in BOOLEAN
  /\ ~dir => brief = NoBrief /\ files = Nothing

\* Commands on one review, however they meet, and wherever they are killed but in
\* one place, archive it decided, and reviews of one second do not spoil each
\* other.  The one place is inside the writing of the brief while another command
\* is between its mark and its move: that one archives a brief cut short.  And a
\* run that writes into the directory meanwhile can mix anything up.
ArchivedIsDecided ==
  [][\A i \in DOMAIN archive' \ DOMAIN archive :
       disturbed \/ cut \/ archive'[i].status \in Verbs]_vars

\* The files that a brief lists and that its run did not just delete.
Delivered(b) == {f \in b.touched : b.run \in Runs /\ f \in run[b.run].staged}

\* Of a review that commands alone archive as accepted, every delivered file is
\* in the workspaces in the version that is archived: the status is not set before
\* the last of them, whatever was killed or decided before.  A file whose copy is
\* not there any more has left the queue with a review archived earlier, which may
\* have been rejected: the command comes too late for it, skips the file, and
\* archives an accepted brief without it.
AcceptedIsPromoted ==
  [][\A i \in DOMAIN archive' \ DOMAIN archive :
       archive'[i].status = "accepted" /\ ~disturbed =>
         \A f \in Delivered(brief) :
           \/ archive'[i].files[f] # NoRun /\ workspace[f] = archive'[i].files[f]
           \/ /\ archive'[i].files[f] = NoRun
              /\ \E j \in DOMAIN archive : archive[j].files[f] # NoRun]_vars

\* No staged file is lost, however commands, kills and collisions of archive
\* names meet: it is in the queue or in the archive, unless another run has
\* staged that file, too.
StagedIsKept ==
  \A r \in Runs : \A f \in run[r].staged :
    \/ files[f] = r
    \/ \E i \in DOMAIN archive : archive[i].files[f] = r
    \/ \E q \in Runs \ {r} : f \in run[q].staged
===============================================================================
