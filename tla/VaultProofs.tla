------------------------------ MODULE VaultProofs ------------------------------
(***************************************************************************)
(* The commands in the vault and the plugin that starts them (Reviews,     *)
(* Plugin), for any number of files, runs, commands and changes.           *)
(*                                                                         *)
(* What a run has staged stays somewhere until it is decided, only what    *)
(* was decided is archived, and what was accepted has been promoted.  The  *)
(* plugin never has two processes of one watcher and leaves none behind;   *)
(* at rest its sidebar is what the vault holds, and so is its index unless *)
(* an event was missed.                                                    *)
(***************************************************************************)
EXTENDS Reviews, Plugin, TLAPS

-------------------------------------------------------------------------------
(* Reviews.                                                                *)

\* What the proofs need of sequences, for one opaque set of elements.
LEMMA ArchiveFacts ==
  ASSUME NEW S, NEW s \in Seq(S), NEW e \in S
  PROVE  /\ Len(s) \in Nat /\ DOMAIN s = 1 .. Len(s)
         /\ Append(s, e) \in Seq(S)
         /\ DOMAIN Append(s, e) = 1 .. Len(s) + 1
         /\ Append(s, e)[Len(s) + 1] = e
         /\ \A i \in 1 .. Len(s) : Append(s, e)[i] = s[i]
OBVIOUS

\* A command that is under way has read a brief, and so has the skill when it is
\* about to write the cost.
HasRead ==
  /\ \A o \in Ops : cmd[o].pc # "idle" => cmd[o].read \in Briefs /\ cmd[o].verb \in Verbs
  /\ \A r \in Runs : run[r].pc = "costing" => run[r].read \in Briefs

Typed == TypeOK /\ HasRead

LEMMA IdleType == Idle \in CmdStates
BY DEF Idle, CmdStates

LEMMA TypeInit == Init => Typed
<1> SUFFICES ASSUME Init PROVE Typed
  OBVIOUS
<1>1. MaxRuns \in Nat /\ MaxCommands \in Nat
  BY ReviewsAssumption
<1>2. Nothing \in [Files -> 0 .. MaxRuns]
  BY <1>1 DEF Nothing, NoRun
<1>3. archive \in Seq(Reviewed)
  BY DEF Init
<1>4. run \in [Runs -> RunStates]
  BY DEF Init, RunStates
<1>5. cmd \in [Ops -> CmdStates]
  BY IdleType DEF Init
<1>6. /\ dir = FALSE /\ disturbed = FALSE /\ cut = FALSE /\ brief = NoBrief /\ files = Nothing
      /\ workspace = Nothing
  BY DEF Init
<1>7. thisSecond \in 0 .. 2 /\ commands \in 0 .. MaxCommands
  BY <1>1 DEF Init
<1>8. TypeOK
  BY <1>2, <1>3, <1>4, <1>5, <1>6, <1>7 DEF TypeOK
<1>9. HasRead
  BY DEF Init, Idle, HasRead
<1>10. QED
  BY <1>8, <1>9 DEF Typed

\* A brief that can be read is a brief.
LEMMA ReadableBrief == TypeOK /\ Readable => brief \in Briefs
BY DEF TypeOK, Readable, NoBrief, Malformed

\* A brief with a new status is a brief.
LEMMA MarkedBrief ==
  ASSUME NEW b \in Briefs, NEW v \in Verbs
  PROVE  [b EXCEPT !.status = v] \in Briefs
BY DEF Briefs

RunRead(x) == x.pc = "costing" => x.read \in Briefs
CmdRead(c) == c.pc # "idle" => c.read \in Briefs /\ c.verb \in Verbs

\* A step changes one run, or one command; the others have read what they had.
LEMMA OneRun ==
  ASSUME TypeOK, HasRead, NEW r \in Runs, NEW x \in RunStates,
         run' = [run EXCEPT ![r] = x], cmd' = cmd, RunRead(x)
  PROVE  run' \in [Runs -> RunStates] /\ HasRead'
<1>1. run \in [Runs -> RunStates]
  BY DEF TypeOK
<1>2. run' \in [Runs -> RunStates] /\ run'[r] = x /\ \A q \in Runs \ {r} : run'[q] = run[q]
  BY <1>1
<1>3. ASSUME NEW q \in Runs PROVE RunRead(run'[q])
  BY <1>2 DEF HasRead, RunRead
<1>4. HasRead'
  BY <1>3 DEF HasRead, RunRead
<1>5. QED
  BY <1>2, <1>4

LEMMA OneCommand ==
  ASSUME TypeOK, HasRead, NEW o \in Ops, NEW c \in CmdStates,
         cmd' = [cmd EXCEPT ![o] = c], run' = run, CmdRead(c)
  PROVE  cmd' \in [Ops -> CmdStates] /\ HasRead'
<1>1. cmd \in [Ops -> CmdStates]
  BY DEF TypeOK
<1>2. cmd' \in [Ops -> CmdStates] /\ cmd'[o] = c /\ \A p \in Ops \ {o} : cmd'[p] = cmd[p]
  BY <1>1
<1>3. ASSUME NEW p \in Ops PROVE CmdRead(cmd'[p])
  BY <1>2 DEF HasRead, CmdRead
<1>4. HasRead'
  BY <1>3 DEF HasRead, CmdRead
<1>5. QED
  BY <1>2, <1>4

LEMMA RunTypes ==
  ASSUME Typed, NEW r \in Runs,
         \/ \E all \in BOOLEAN : Dispatch(r, all)
         \/ \E f \in Files : Stage(r, f)
         \/ \E deleted \in SUBSET Files : Report(r, deleted)
         \/ ReadForCost(r)
         \/ WriteCost(r)
  PROVE  Typed'
<1>0. TypeOK /\ HasRead /\ run[r] \in RunStates
  BY DEF Typed, TypeOK
<1>1. ASSUME NEW all \in BOOLEAN, Dispatch(r, all) PROVE Typed'
  <2> DEFINE x == [run[r] EXCEPT !.pc = "working"]
  <2>1. HasPendingReview \in BOOLEAN
    BY DEF HasPendingReview
  <2>2. x \in RunStates /\ RunRead(x)
    BY <1>0, <2>1 DEF RunStates, RunRead
  <2>3. run' = [run EXCEPT ![r] = x] /\ cmd' = cmd
    BY <1>1 DEF Dispatch, cmdVars
  <2> HIDE DEF x
  <2>4. run' \in [Runs -> RunStates] /\ HasRead'
    BY <1>0, <2>2, <2>3, OneRun
  <2>5. TypeOK'
    BY <1>0, <1>1, <2>4 DEF TypeOK, Dispatch, archiveVars, cmdVars, Disturbs
  <2>6. QED
    BY <2>4, <2>5 DEF Typed
<1>2. ASSUME NEW f \in Files, Stage(r, f) PROVE Typed'
  <2> DEFINE x == [run[r] EXCEPT !.staged = @ \cup {f}]
  <2>1. x \in RunStates /\ RunRead(x)
    BY <1>0, <1>2 DEF RunStates, RunRead, Stage
  <2>2. run' = [run EXCEPT ![r] = x] /\ cmd' = cmd
    BY <1>2 DEF Stage, cmdVars
  <2> HIDE DEF x
  <2>3. run' \in [Runs -> RunStates] /\ HasRead'
    BY <1>0, <2>1, <2>2, OneRun
  <2>4. files' \in [Files -> 0 .. MaxRuns]
    BY <1>0, <1>2, ReviewsAssumption DEF TypeOK, Stage, Runs
  <2>5. TypeOK'
    BY <1>0, <1>2, <2>3, <2>4 DEF TypeOK, Stage, archiveVars, cmdVars, Disturbs
  <2>6. QED
    BY <2>3, <2>5 DEF Typed
<1>3. ASSUME NEW deleted \in SUBSET Files, Report(r, deleted) PROVE Typed'
  <2> DEFINE x == [run[r] EXCEPT !.pc = "reported"]
  <2>1. x \in RunStates /\ RunRead(x)
    BY <1>0 DEF RunStates, RunRead
  <2>2. run' = [run EXCEPT ![r] = x] /\ cmd' = cmd
    BY <1>3 DEF Report, cmdVars
  <2> HIDE DEF x
  <2>3. run' \in [Runs -> RunStates] /\ HasRead'
    BY <1>0, <2>1, <2>2, OneRun
  <2>4. brief' \in Briefs
    BY <1>0, <1>3 DEF Report, Briefs, RunStates
  <2>5. TypeOK'
    BY <1>0, <1>3, <2>3, <2>4 DEF TypeOK, Report, archiveVars, cmdVars, Disturbs
  <2>6. QED
    BY <2>3, <2>5 DEF Typed
<1>4. CASE ReadForCost(r)
  <2> DEFINE x == [run[r] EXCEPT !.pc = "costing", !.read = brief]
  <2>1. brief \in Briefs
    BY <1>0, <1>4, ReadableBrief DEF ReadForCost
  <2>2. x \in RunStates /\ RunRead(x)
    BY <1>0, <2>1 DEF RunStates, RunRead
  <2>3. run' = [run EXCEPT ![r] = x] /\ cmd' = cmd
    BY <1>4 DEF ReadForCost, cmdVars
  <2> HIDE DEF x
  <2>4. run' \in [Runs -> RunStates] /\ HasRead'
    BY <1>0, <2>2, <2>3, OneRun
  <2>5. TypeOK'
    BY <1>0, <1>4, <2>4 DEF TypeOK, ReadForCost, dirVars, archiveVars, cmdVars
  <2>6. QED
    BY <2>4, <2>5 DEF Typed
<1>5. CASE WriteCost(r)
  <2> DEFINE x == [run[r] EXCEPT !.pc = "over", !.read = NoBrief]
  <2>1. x \in RunStates /\ RunRead(x)
    BY <1>0 DEF RunStates, RunRead
  <2>2. run' = [run EXCEPT ![r] = x] /\ cmd' = cmd
    BY <1>5 DEF WriteCost, cmdVars
  <2> HIDE DEF x
  <2>3. run' \in [Runs -> RunStates] /\ HasRead'
    BY <1>0, <2>1, <2>2, OneRun
  <2>4. brief' \in Briefs
    BY <1>0, <1>5 DEF HasRead, WriteCost
  <2>5. TypeOK'
    BY <1>0, <1>5, <2>3, <2>4 DEF TypeOK, WriteCost, archiveVars, cmdVars, Disturbs
  <2>6. QED
    BY <2>3, <2>5 DEF Typed
<1>6. QED
  BY <1>1, <1>2, <1>3, <1>4, <1>5

LEMMA CommandTypes ==
  ASSUME Typed, NEW o \in Ops,
         \/ \E verb \in Verbs : Load(o, verb)
         \/ \E f \in Files : Promote(o, f)
         \/ Mark(o) \/ MoveToArchive(o) \/ MoveFails(o) \/ Kill(o) \/ KillInWrite(o)
  PROVE  Typed'
<1>0. /\ TypeOK /\ HasRead /\ MaxCommands \in Nat /\ MaxRuns \in Nat
      /\ cmd[o] \in CmdStates /\ CmdRead(cmd[o])
  BY ReviewsAssumption DEF Typed, TypeOK, HasRead, CmdRead
<1>1. ASSUME NEW verb \in Verbs, Load(o, verb) PROVE Typed'
  <2> DEFINE c == [pc |-> "loaded", verb |-> verb, read |-> brief,
                   todo |-> IF verb = "accepted" THEN brief.touched ELSE {}]
  <2>1. brief \in Briefs /\ brief.touched \in SUBSET Files
    BY <1>0, <1>1, ReadableBrief DEF Load, Briefs
  <2>2. c \in CmdStates /\ CmdRead(c)
    BY <2>1 DEF CmdStates, CmdRead
  <2>3. cmd' = [cmd EXCEPT ![o] = c] /\ run' = run
    BY <1>1 DEF Load
  <2> HIDE DEF c
  <2>4. cmd' \in [Ops -> CmdStates] /\ HasRead'
    BY <1>0, <2>2, <2>3, OneCommand
  <2>5. commands' \in 0 .. MaxCommands
    BY <1>0, <1>1 DEF TypeOK, Load
  <2>6. TypeOK'
    BY <1>0, <1>1, <2>4, <2>5 DEF TypeOK, Load, dirVars, archiveVars
  <2>7. QED
    BY <2>4, <2>6 DEF Typed
<1>2. ASSUME NEW f \in Files, Promote(o, f) PROVE Typed'
  <2> DEFINE c == [cmd[o] EXCEPT !.todo = @ \ {f}]
  <2>1. c \in CmdStates /\ CmdRead(c)
    BY <1>0 DEF CmdStates, CmdRead
  <2>2. cmd' = [cmd EXCEPT ![o] = c] /\ run' = run
    BY <1>2 DEF Promote
  <2> HIDE DEF c
  <2>3. cmd' \in [Ops -> CmdStates] /\ HasRead'
    BY <1>0, <2>1, <2>2, OneCommand
  <2>4. workspace' \in [Files -> 0 .. MaxRuns]
    BY <1>0, <1>2 DEF TypeOK, Promote
  <2>5. TypeOK'
    BY <1>0, <1>2, <2>3, <2>4 DEF TypeOK, Promote, dirVars, archiveVars
  <2>6. QED
    BY <2>3, <2>5 DEF Typed
<1>3. CASE Mark(o)
  <2> DEFINE c == [cmd[o] EXCEPT !.pc = "marked"]
  <2>1. c \in CmdStates /\ CmdRead(c)
    BY <1>0, <1>3 DEF CmdStates, CmdRead, Mark
  <2>2. cmd' = [cmd EXCEPT ![o] = c] /\ run' = run
    BY <1>3 DEF Mark
  <2> HIDE DEF c
  <2>3. cmd' \in [Ops -> CmdStates] /\ HasRead'
    BY <1>0, <2>1, <2>2, OneCommand
  <2>4. brief' \in Briefs
    BY <1>0, <1>3, MarkedBrief DEF Mark, CmdRead
  <2>5. TypeOK'
    BY <1>0, <1>3, <2>3, <2>4 DEF TypeOK, Mark, archiveVars
  <2>6. QED
    BY <2>3, <2>5 DEF Typed
<1>4. ASSUME cmd' = [cmd EXCEPT ![o] = Idle], run' = run
      PROVE  cmd' \in [Ops -> CmdStates] /\ HasRead'
  <2>1. CmdRead(Idle)
    BY DEF CmdRead, Idle
  <2>2. QED
    BY <1>0, <1>4, <2>1, IdleType, OneCommand
<1>5. CASE MoveToArchive(o)
  <2>1. Archived \in Reviewed
    BY <1>0 DEF TypeOK, Archived, Reviewed, Statuses, Briefs, NoBrief, Malformed
  <2>2. archive' \in Seq(Reviewed)
    BY <1>0, <1>5, <2>1, ArchiveFacts DEF TypeOK, MoveToArchive, Archive
  <2>3. Nothing \in [Files -> 0 .. MaxRuns]
    BY <1>0 DEF Nothing, NoRun
  <2>4. thisSecond' \in 0 .. 2
    BY <1>0, <1>5 DEF TypeOK, MoveToArchive
  <2>5. cmd' \in [Ops -> CmdStates] /\ HasRead'
    BY <1>4, <1>5 DEF MoveToArchive
  <2>6. TypeOK'
    BY <1>0, <1>5, <2>2, <2>3, <2>4, <2>5 DEF TypeOK, MoveToArchive
  <2>7. QED
    BY <2>5, <2>6 DEF Typed
<1>6. CASE MoveFails(o) \/ Kill(o)
  <2>1. cmd' \in [Ops -> CmdStates] /\ HasRead'
    BY <1>4, <1>6 DEF MoveFails, Kill
  <2>2. TypeOK'
    BY <1>0, <1>6, <2>1 DEF TypeOK, MoveFails, Kill, dirVars, archiveVars
  <2>3. QED
    BY <2>1, <2>2 DEF Typed
<1>7. CASE KillInWrite(o)
  <2>1. cmd' \in [Ops -> CmdStates] /\ HasRead'
    BY <1>4, <1>7 DEF KillInWrite
  <2>2. TypeOK'
    BY <1>0, <1>7, <2>1 DEF TypeOK, KillInWrite, archiveVars
  <2>3. QED
    BY <2>1, <2>2 DEF Typed
<1>8. QED
  BY <1>1, <1>2, <1>3, <1>5, <1>6, <1>7

LEMMA TypedNext == Typed /\ [Next]_vars => Typed'
<1> SUFFICES ASSUME Typed, [Next]_vars PROVE Typed'
  OBVIOUS
<1>1. CASE UNCHANGED vars
  BY <1>1 DEF vars, Typed, TypeOK, HasRead
<1>2. CASE Tick
  BY <1>2 DEF Tick, dirVars, cmdVars, Typed, TypeOK, HasRead
<1>3. QED
  BY <1>1, <1>2, RunTypes, CommandTypes DEF Next

\* Every state of a review is well typed.
THEOREM ReviewTypes == Spec => []TypeOK
<1>1. Typed => TypeOK
  BY DEF Typed
<1>2. QED
  BY <1>1, TypeInit, TypedNext, PTL DEF Spec

-------------------------------------------------------------------------------
(* Staged files.                                                           *)

\* What a step does to the staged files: a run stages one more, a command moves
\* them into the archive, or nothing happens to them.
StagesOne(r, f) ==
  /\ run'[r].staged = run[r].staged \cup {f}
  /\ \A q \in Runs \ {r} : run'[q].staged = run[q].staged
  /\ files'[f] = r /\ \A g \in Files \ {f} : files'[g] = files[g]
  /\ archive' = archive

MovesAll ==
  /\ run' = run
  /\ DOMAIN archive \subseteq DOMAIN archive'
  /\ \A i \in DOMAIN archive : archive'[i] = archive[i]
  /\ \E i \in DOMAIN archive' : archive'[i].files = files

StagesNone ==
  /\ \A q \in Runs : run'[q].staged = run[q].staged
  /\ files' = files /\ archive' = archive

LEMMA StagingSteps ==
  ASSUME Typed, [Next]_vars
  PROVE  (\E r \in Runs, f \in Files : StagesOne(r, f)) \/ MovesAll \/ StagesNone
<1>0. TypeOK /\ run \in [Runs -> RunStates]
  BY DEF Typed, TypeOK
<1>1. CASE UNCHANGED vars \/ Tick
  BY <1>1 DEF vars, Tick, dirVars, StagesNone
<1>2. ASSUME NEW r \in Runs, NEW x \in RunStates, x.staged = run[r].staged,
             run' = [run EXCEPT ![r] = x], files' = files, archive' = archive
      PROVE  StagesNone
  <2>1. run'[r] = x /\ \A q \in Runs \ {r} : run'[q] = run[q]
    BY <1>0, <1>2
  <2>2. QED
    BY <1>2, <2>1 DEF StagesNone
<1>3. ASSUME NEW r \in Runs, NEW all \in BOOLEAN, Dispatch(r, all) PROVE StagesNone
  <2> DEFINE x == [run[r] EXCEPT !.pc = "working"]
  <2>1. HasPendingReview \in BOOLEAN
    BY DEF HasPendingReview
  <2>2. x \in RunStates /\ x.staged = run[r].staged
    BY <1>0, <2>1 DEF RunStates
  <2>3. run' = [run EXCEPT ![r] = x] /\ files' = files /\ archive' = archive
    BY <1>3 DEF Dispatch, archiveVars
  <2> HIDE DEF x
  <2>4. QED
    BY <1>2, <2>2, <2>3
<1>4. ASSUME NEW r \in Runs, NEW deleted \in SUBSET Files, Report(r, deleted) PROVE StagesNone
  <2> DEFINE x == [run[r] EXCEPT !.pc = "reported"]
  <2>1. x \in RunStates /\ x.staged = run[r].staged
    BY <1>0 DEF RunStates
  <2>2. run' = [run EXCEPT ![r] = x] /\ files' = files /\ archive' = archive
    BY <1>4 DEF Report, archiveVars
  <2> HIDE DEF x
  <2>3. QED
    BY <1>2, <2>1, <2>2
<1>5. ASSUME NEW r \in Runs, ReadForCost(r) PROVE StagesNone
  <2> DEFINE x == [run[r] EXCEPT !.pc = "costing", !.read = brief]
  <2>1. brief \in Briefs
    BY <1>0, <1>5, ReadableBrief DEF ReadForCost
  <2>2. x \in RunStates /\ x.staged = run[r].staged
    BY <1>0, <2>1 DEF RunStates
  <2>3. run' = [run EXCEPT ![r] = x] /\ files' = files /\ archive' = archive
    BY <1>5 DEF ReadForCost, dirVars, archiveVars
  <2> HIDE DEF x
  <2>4. QED
    BY <1>2, <2>2, <2>3
<1>6. ASSUME NEW r \in Runs, WriteCost(r) PROVE StagesNone
  <2> DEFINE x == [run[r] EXCEPT !.pc = "over", !.read = NoBrief]
  <2>1. x \in RunStates /\ x.staged = run[r].staged
    BY <1>0 DEF RunStates
  <2>2. run' = [run EXCEPT ![r] = x] /\ files' = files /\ archive' = archive
    BY <1>6 DEF WriteCost, archiveVars
  <2> HIDE DEF x
  <2>3. QED
    BY <1>2, <2>1, <2>2
<1>7. ASSUME NEW r \in Runs, NEW f \in Files, Stage(r, f) PROVE StagesOne(r, f)
  <2>1. run'[r].staged = run[r].staged \cup {f} /\ \A q \in Runs \ {r} : run'[q] = run[q]
    <3> DEFINE x == [run[r] EXCEPT !.staged = @ \cup {f}]
    <3>1. x.staged = run[r].staged \cup {f}
      BY <1>0 DEF RunStates
    <3>2. run' = [run EXCEPT ![r] = x]
      BY <1>7 DEF Stage
    <3> HIDE DEF x
    <3>3. QED
      BY <1>0, <3>1, <3>2
  <2>2. files'[f] = r /\ (\A g \in Files \ {f} : files'[g] = files[g]) /\ archive' = archive
    BY <1>0, <1>7 DEF TypeOK, Stage, archiveVars
  <2>3. QED
    BY <2>1, <2>2 DEF StagesOne
<1>8. ASSUME NEW o \in Ops, MoveToArchive(o) PROVE MovesAll
  <2>1. Archived \in Reviewed /\ archive \in Seq(Reviewed)
    BY <1>0, ReviewsAssumption
    DEF TypeOK, Archived, Reviewed, Statuses, Briefs, NoBrief, Malformed
  <2>2. archive' = Append(archive, Archived) /\ run' = run
    BY <1>8 DEF MoveToArchive, Archive
  <2>3. /\ Len(archive) \in Nat /\ DOMAIN archive = 1 .. Len(archive)
        /\ DOMAIN archive' = 1 .. Len(archive) + 1
        /\ archive'[Len(archive) + 1] = Archived
        /\ \A i \in 1 .. Len(archive) : archive'[i] = archive[i]
    BY <2>1, <2>2, ArchiveFacts
  <2>4. Len(archive) + 1 \in DOMAIN archive' /\ archive'[Len(archive) + 1].files = files
    BY <2>3 DEF Archived
  <2>5. QED
    BY <2>2, <2>3, <2>4 DEF MovesAll
<1>9. ASSUME NEW o \in Ops,
             \/ \E verb \in Verbs : Load(o, verb)
             \/ \E f \in Files : Promote(o, f)
             \/ Mark(o) \/ MoveFails(o) \/ Kill(o) \/ KillInWrite(o)
      PROVE  StagesNone
  BY <1>9 DEF Load, Promote, Mark, MoveFails, Kill, KillInWrite, dirVars, archiveVars, StagesNone
<1>10. QED
  BY <1>1, <1>3, <1>4, <1>5, <1>6, <1>7, <1>8, <1>9 DEF Next

LEMMA KeptNext == Typed /\ StagedIsKept /\ [Next]_vars => StagedIsKept'
<1> SUFFICES ASSUME Typed, StagedIsKept, [Next]_vars PROVE StagedIsKept'
  OBVIOUS
<1>0. \A q \in Runs : run[q].staged \subseteq Files
  BY DEF Typed, TypeOK, RunStates
<1>1. ASSUME NEW r \in Runs, NEW f \in Files, StagesOne(r, f) PROVE StagedIsKept'
  <2>1. ASSUME NEW q \in Runs, NEW g \in run'[q].staged
        PROVE  \/ files'[g] = q
               \/ \E i \in DOMAIN archive' : archive'[i].files[g] = q
               \/ \E p \in Runs \ {q} : g \in run'[p].staged
    <3>1. CASE g = f /\ q = r
      BY <1>1, <3>1 DEF StagesOne
    <3>2. CASE g = f /\ q # r
      BY <1>1, <3>2 DEF StagesOne
    <3>3. CASE g # f
      <4>1. g \in run[q].staged
        BY <1>1, <2>1, <3>3 DEF StagesOne
      <4>2. g \in Files
        BY <1>0, <4>1
      <4>3. CASE files[g] = q
        BY <1>1, <3>3, <4>2, <4>3 DEF StagesOne
      <4>4. CASE \E i \in DOMAIN archive : archive[i].files[g] = q
        BY <1>1, <4>4 DEF StagesOne
      <4>5. CASE \E p \in Runs \ {q} : g \in run[p].staged
        BY <1>1, <4>5 DEF StagesOne
      <4>6. QED
        BY <4>1, <4>3, <4>4, <4>5 DEF StagedIsKept
    <3>4. QED
      BY <3>1, <3>2, <3>3
  <2>2. QED
    BY <2>1 DEF StagedIsKept
<1>2. CASE MovesAll
  <2>1. ASSUME NEW q \in Runs, NEW g \in run[q].staged
        PROVE  \/ files'[g] = q
               \/ \E i \in DOMAIN archive' : archive'[i].files[g] = q
               \/ \E p \in Runs \ {q} : g \in run[p].staged
    BY <1>2 DEF MovesAll, StagedIsKept
  <2>2. QED
    BY <1>2, <2>1 DEF MovesAll, StagedIsKept
<1>3. CASE StagesNone
  BY <1>3 DEF StagesNone, StagedIsKept
<1>4. QED
  BY <1>1, <1>2, <1>3, StagingSteps

\* What a run staged is in the queue or in the archive, unless another run has
\* staged that file, too, whatever commands, kills and name collisions there were.
THEOREM StagedStaysSomewhere == Spec => []StagedIsKept
<1>1. Init => StagedIsKept
  BY DEF Init, StagedIsKept
<1>2. QED
  BY <1>1, TypeInit, TypedNext, KeptNext, PTL DEF Spec

\* Of a file that was staged some copy is in the queue or in the archive.
SomeCopy(f) == files[f] # NoRun \/ \E i \in DOMAIN archive : archive[i].files[f] # NoRun

CopiesSomewhere == \A r \in Runs : \A f \in run[r].staged : SomeCopy(f)

LEMMA CopiesNext == Typed /\ CopiesSomewhere /\ [Next]_vars => CopiesSomewhere'
<1> SUFFICES ASSUME Typed, CopiesSomewhere, [Next]_vars PROVE CopiesSomewhere'
  OBVIOUS
<1>0. \A q \in Runs : run[q].staged \subseteq Files /\ q # NoRun
  BY DEF Typed, TypeOK, RunStates, Runs, NoRun
<1>1. ASSUME NEW r \in Runs, NEW f \in Files, StagesOne(r, f) PROVE CopiesSomewhere'
  <2>1. ASSUME NEW q \in Runs, NEW g \in run'[q].staged PROVE SomeCopy(g)'
    <3>1. CASE g = f
      BY <1>0, <1>1, <3>1 DEF StagesOne, SomeCopy
    <3>2. CASE g # f
      <4>1. g \in run[q].staged /\ g \in Files
        BY <1>0, <1>1, <2>1, <3>2 DEF StagesOne
      <4>2. SomeCopy(g)
        BY <4>1 DEF CopiesSomewhere
      <4>3. QED
        BY <1>1, <3>2, <4>1, <4>2 DEF StagesOne, SomeCopy
    <3>3. QED
      BY <3>1, <3>2
  <2>2. QED
    BY <2>1 DEF CopiesSomewhere
<1>2. CASE MovesAll
  <2>1. ASSUME NEW q \in Runs, NEW g \in run[q].staged PROVE SomeCopy(g)'
    <3>1. SomeCopy(g)
      BY DEF CopiesSomewhere
    <3>2. QED
      BY <1>2, <3>1 DEF MovesAll, SomeCopy
  <2>2. QED
    BY <1>2, <2>1 DEF MovesAll, CopiesSomewhere
<1>3. CASE StagesNone
  BY <1>3 DEF StagesNone, CopiesSomewhere, SomeCopy
<1>4. QED
  BY <1>1, <1>2, <1>3, StagingSteps

-------------------------------------------------------------------------------
(* What commands decide, while no run writes into the directory.           *)

Promoted(F) == \A f \in F : files[f] # NoRun => workspace[f] = files[f]

\* What a command that accepts has promoted so far is in the workspaces.
LoadedPromotes(o) ==
  cmd[o].pc = "loaded" /\ cmd[o].verb = "accepted" /\ ~disturbed
    => Promoted(cmd[o].read.touched \ cmd[o].todo)

\* As long as a command has marked the review, the review is decided or another
\* command has cut its brief short, and it is promoted if it is accepted; the
\* command that marked it last did that.
MarkedDecided(o) ==
  cmd[o].pc = "marked" /\ dir /\ ~disturbed
    => /\ brief.status \in Verbs \/ cut
       /\ brief.status = "accepted" => Promoted(brief.touched)

Decided == \A o \in Ops : LoadedPromotes(o) /\ MarkedDecided(o)

\* What a run writes disturbs every command it could matter to.
LEMMA WriteDisturbs ==
  ASSUME cmd' = cmd, Disturbs PROVE Decided'
<1>1. ASSUME NEW o \in Ops, cmd'[o].pc # "idle" PROVE disturbed'
  BY <1>1 DEF Disturbs, UnderWay
<1>2. ASSUME NEW o \in Ops PROVE LoadedPromotes(o)' /\ MarkedDecided(o)'
  BY <1>1 DEF LoadedPromotes, MarkedDecided
<1>3. QED
  BY <1>2 DEF Decided

\* A step that changes neither the review nor what the commands have read, but
\* may end some of them, decides nothing.
LEMMA NothingDecided ==
  ASSUME Decided, NEW S \in SUBSET Ops, dir' = dir, brief' = brief, files' = files,
         workspace' = workspace, disturbed' = disturbed, cut' = cut,
         \A p \in Ops \ S : cmd'[p] = cmd[p],
         \A p \in S : cmd'[p].pc = "idle"
  PROVE  Decided'
<1>1. ASSUME NEW p \in S PROVE LoadedPromotes(p)' /\ MarkedDecided(p)'
  BY <1>1 DEF LoadedPromotes, MarkedDecided
<1>2. ASSUME NEW p \in Ops \ S PROVE LoadedPromotes(p)' /\ MarkedDecided(p)'
  BY <1>2 DEF LoadedPromotes, MarkedDecided, Promoted, Decided
<1>3. QED
  BY <1>1, <1>2 DEF Decided

LEMMA DecidedNext == Typed /\ Decided /\ [Next]_vars => Decided'
<1> SUFFICES ASSUME Typed, Decided, [Next]_vars PROVE Decided'
  OBVIOUS
<1>0. TypeOK /\ HasRead /\ cmd \in [Ops -> CmdStates]
  BY DEF Typed, TypeOK
<1>1. CASE UNCHANGED vars \/ Tick \/ \E r \in Runs : ReadForCost(r)
  <2>1. /\ dir' = dir /\ brief' = brief /\ files' = files /\ workspace' = workspace
        /\ disturbed' = disturbed /\ cut' = cut /\ cmd' = cmd
    BY <1>1 DEF vars, Tick, ReadForCost, dirVars, cmdVars
  <2>2. /\ {} \in SUBSET Ops
        /\ \A p \in Ops \ {} : cmd'[p] = cmd[p]
        /\ \A p \in {} : cmd'[p].pc = "idle"
    BY <2>1
  <2>3. QED
    BY <2>1, <2>2, NothingDecided
<1>2. ASSUME NEW r \in Runs,
             \/ \E all \in BOOLEAN : Dispatch(r, all)
             \/ \E f \in Files : Stage(r, f)
             \/ \E deleted \in SUBSET Files : Report(r, deleted)
             \/ WriteCost(r)
      PROVE  Decided'
  BY <1>2, WriteDisturbs DEF Dispatch, Stage, Report, WriteCost, cmdVars
<1>3. ASSUME NEW o \in Ops, NEW verb \in Verbs, Load(o, verb) PROVE Decided'
  <2>1. /\ dir' = dir /\ brief' = brief /\ files' = files /\ workspace' = workspace
        /\ disturbed' = (disturbed /\ UnderWay # {}) /\ cut' = cut
    BY <1>3 DEF Load, dirVars
  <2>2. /\ cmd'[o].pc = "loaded" /\ cmd'[o].verb = verb /\ cmd'[o].read = brief
        /\ cmd'[o].todo = (IF verb = "accepted" THEN brief.touched ELSE {})
        /\ \A p \in Ops \ {o} : cmd'[p] = cmd[p]
    BY <1>0, <1>3 DEF Load
  <2>3. LoadedPromotes(o)' /\ MarkedDecided(o)'
    BY <2>2 DEF LoadedPromotes, MarkedDecided, Promoted
  <2>4. ASSUME NEW p \in Ops \ {o} PROVE LoadedPromotes(p)' /\ MarkedDecided(p)'
    <3>1. CASE cmd[p].pc = "idle"
      BY <2>2, <3>1 DEF LoadedPromotes, MarkedDecided
    <3>2. CASE cmd[p].pc # "idle"
      <4>1. UnderWay # {}
        BY <3>2 DEF UnderWay
      <4>2. disturbed' <=> disturbed
        BY <2>1, <4>1
      <4>3. QED
        BY <2>1, <2>2, <4>2 DEF LoadedPromotes, MarkedDecided, Promoted, Decided
    <3>3. QED
      BY <3>1, <3>2
  <2>5. QED
    BY <2>3, <2>4 DEF Decided
<1>4. ASSUME NEW o \in Ops, NEW f \in Files, Promote(o, f) PROVE Decided'
  <2>1. /\ dir' = dir /\ brief' = brief /\ files' = files /\ disturbed' = disturbed /\ cut' = cut
        /\ cmd[o].pc = "loaded" /\ f \in cmd[o].todo
    BY <1>4 DEF Promote, dirVars
  <2>2. /\ workspace'[f] = IF files[f] = NoRun THEN workspace[f] ELSE files[f]
        /\ \A g \in Files \ {f} : workspace'[g] = workspace[g]
    BY <1>0, <1>4 DEF TypeOK, Promote
  <2>3. /\ \A p \in Ops \ {o} : cmd'[p] = cmd[p]
        /\ cmd'[o].pc = "loaded" /\ cmd'[o].verb = cmd[o].verb
        /\ cmd'[o].read = cmd[o].read /\ cmd'[o].todo = cmd[o].todo \ {f}
    <3> DEFINE c == [cmd[o] EXCEPT !.todo = @ \ {f}]
    <3>1. /\ c.pc = cmd[o].pc /\ c.verb = cmd[o].verb /\ c.read = cmd[o].read
          /\ c.todo = cmd[o].todo \ {f}
      BY <1>0 DEF CmdStates
    <3>2. cmd' = [cmd EXCEPT ![o] = c]
      BY <1>4 DEF Promote
    <3> HIDE DEF c
    <3>3. QED
      BY <1>0, <2>1, <3>1, <3>2
  <2>4. ASSUME NEW F, F \subseteq Files, Promoted(F \ {f}) PROVE Promoted(F)'
    BY <2>1, <2>2, <2>4 DEF Promoted
  <2>5. \A p \in Ops : cmd[p].pc # "idle" => cmd[p].read.touched \subseteq Files
    BY <1>0 DEF HasRead, Briefs
  <2>6. ASSUME NEW p \in Ops PROVE LoadedPromotes(p)'
    <3> SUFFICES ASSUME cmd'[p].pc = "loaded", cmd'[p].verb = "accepted", ~disturbed'
                 PROVE  Promoted(cmd[p].read.touched \ cmd[p].todo)'
      BY DEF LoadedPromotes
    <3>1. /\ cmd[p].pc = "loaded" /\ cmd[p].verb = "accepted" /\ ~disturbed
          /\ cmd'[p].read = cmd[p].read /\ cmd'[p].todo \subseteq cmd[p].todo
          /\ cmd[p].todo \ {f} \subseteq cmd'[p].todo
      BY <2>1, <2>3
    <3>2. Promoted(cmd[p].read.touched \ cmd[p].todo)
      BY <3>1 DEF Decided, LoadedPromotes
    <3>3. Promoted((cmd'[p].read.touched \ cmd'[p].todo) \ {f})
      BY <3>1, <3>2 DEF Promoted
    <3>4. cmd'[p].read.touched \ cmd'[p].todo \subseteq Files
      BY <2>5, <3>1
    <3> DEFINE F == cmd'[p].read.touched \ cmd'[p].todo
    <3>5. F \subseteq Files /\ Promoted(F \ {f})
      BY <3>3, <3>4
    <3> HIDE DEF F
    <3>6. \A g \in F : files'[g] # NoRun => workspace'[g] = files'[g]
      BY <2>1, <2>2, <3>5 DEF Promoted
    <3>7. QED
      BY <3>6 DEF F, Promoted
  <2>7. ASSUME NEW p \in Ops PROVE MarkedDecided(p)'
    <3> SUFFICES ASSUME cmd'[p].pc = "marked", dir', ~disturbed'
                 PROVE  /\ brief'.status \in Verbs \/ cut'
                        /\ brief'.status = "accepted" => Promoted(brief.touched)'
      BY DEF MarkedDecided
    <3>1. cmd[p].pc = "marked" /\ dir /\ ~disturbed
      BY <2>1, <2>3
    <3>2. (brief.status \in Verbs \/ cut) /\ (brief.status = "accepted" => Promoted(brief.touched))
      BY <3>1 DEF Decided, MarkedDecided
    <3>3. brief.touched \subseteq Files
      BY <1>0 DEF TypeOK, Briefs, NoBrief, Malformed
    <3>4. QED
      BY <2>1, <2>2, <3>2, <3>3 DEF Promoted
  <2>8. QED
    BY <2>6, <2>7 DEF Decided
<1>5. ASSUME NEW o \in Ops, Mark(o) PROVE Decided'
  <2> DEFINE b == [cmd[o].read EXCEPT !.status = cmd[o].verb]
  <2>1. /\ files' = files /\ workspace' = workspace /\ disturbed' = disturbed /\ brief' = b
        /\ cmd[o].pc = "loaded" /\ cmd[o].todo = {}
    BY <1>5 DEF Mark
  <2>2. /\ b.status = cmd[o].verb /\ b.touched = cmd[o].read.touched
        /\ cmd[o].verb \in Verbs
    BY <1>0, <2>1 DEF HasRead, Briefs
  <2> HIDE DEF b
  <2>3. cmd'[o].pc = "marked" /\ \A p \in Ops \ {o} : cmd'[p] = cmd[p]
    BY <1>0, <1>5 DEF Mark, CmdStates
  <2>4. ASSUME ~disturbed, brief'.status = "accepted" PROVE Promoted(brief.touched)'
    <3>1. Promoted(cmd[o].read.touched \ cmd[o].todo)
      BY <2>1, <2>2, <2>4 DEF Decided, LoadedPromotes
    <3>2. \A f \in brief'.touched : files[f] # NoRun => workspace[f] = files[f]
      BY <2>1, <2>2, <3>1 DEF Promoted
    <3>3. QED
      BY <2>1, <3>2 DEF Promoted
  <2>5. ASSUME NEW p \in Ops PROVE MarkedDecided(p)'
    BY <2>1, <2>2, <2>4 DEF MarkedDecided
  <2>6. ASSUME NEW p \in Ops PROVE LoadedPromotes(p)'
    <3>1. CASE p = o
      BY <2>3, <3>1 DEF LoadedPromotes
    <3>2. CASE p # o
      BY <2>1, <2>3, <3>2 DEF Decided, LoadedPromotes, Promoted
    <3>3. QED
      BY <3>1, <3>2
  <2>7. QED
    BY <2>5, <2>6 DEF Decided
<1>6. ASSUME NEW o \in Ops, cmd' = [cmd EXCEPT ![o] = Idle]
      PROVE  cmd'[o].pc = "idle" /\ \A p \in Ops \ {o} : cmd'[p] = cmd[p]
  BY <1>0, <1>6 DEF Idle
<1>7. ASSUME NEW o \in Ops, MoveToArchive(o) PROVE Decided'
  <2>1. dir' = FALSE /\ files' = Nothing
    BY <1>7 DEF MoveToArchive
  <2>2. \A F \in SUBSET Files : Promoted(F)'
    BY <2>1 DEF Promoted, Nothing
  <2>3. cmd'[o].pc = "idle" /\ \A p \in Ops \ {o} : cmd'[p] = cmd[p]
    BY <1>6, <1>7 DEF MoveToArchive
  <2>4. ASSUME NEW p \in Ops PROVE LoadedPromotes(p)' /\ MarkedDecided(p)'
    <3>1. MarkedDecided(p)'
      BY <2>1 DEF MarkedDecided
    <3>2. ASSUME cmd'[p].pc = "loaded" PROVE cmd'[p].read.touched \subseteq Files
      BY <1>0, <2>3, <3>2 DEF HasRead, Briefs
    <3>3. LoadedPromotes(p)'
      BY <2>2, <3>2 DEF LoadedPromotes, Promoted
    <3>4. QED
      BY <3>1, <3>3
  <2>5. QED
    BY <2>4 DEF Decided
<1>8. ASSUME NEW o \in Ops, MoveFails(o) \/ Kill(o) PROVE Decided'
  <2>1. /\ dir' = dir /\ brief' = brief /\ files' = files /\ workspace' = workspace
        /\ disturbed' = disturbed /\ cut' = cut /\ cmd' = [cmd EXCEPT ![o] = Idle]
    BY <1>8 DEF MoveFails, Kill, dirVars
  <2>2. cmd'[o].pc = "idle" /\ \A p \in Ops \ {o} : cmd'[p] = cmd[p]
    BY <1>6, <2>1
  <2>3. {o} \in SUBSET Ops /\ \A p \in {o} : cmd'[p].pc = "idle"
    BY <2>2
  <2>4. QED
    BY <2>1, <2>2, <2>3, NothingDecided
<1>9. ASSUME NEW o \in Ops, KillInWrite(o) PROVE Decided'
  <2>1. cmd'[o].pc = "idle" /\ \A p \in Ops \ {o} : cmd'[p] = cmd[p]
    BY <1>6, <1>9 DEF KillInWrite
  <2>2. /\ files' = files /\ workspace' = workspace /\ disturbed' = disturbed
        /\ brief'.status = "malformed"
        /\ cut' = (\E p \in Ops \ {o} : cmd[p].pc = "marked")
    BY <1>9 DEF KillInWrite, Malformed
  <2>3. ASSUME NEW p \in Ops \ {o} PROVE LoadedPromotes(p)'
    BY <2>1, <2>2 DEF Decided, LoadedPromotes, Promoted
  <2>4. ASSUME NEW p \in Ops \ {o} PROVE MarkedDecided(p)'
    <3>1. cmd'[p].pc = "marked" => cut'
      BY <2>1, <2>2
    <3>2. QED
      BY <2>2, <3>1 DEF MarkedDecided
  <2>5. LoadedPromotes(o)' /\ MarkedDecided(o)'
    BY <2>1 DEF LoadedPromotes, MarkedDecided
  <2>6. QED
    BY <2>3, <2>4, <2>5 DEF Decided
<1>10. QED
  BY <1>1, <1>2, <1>3, <1>4, <1>5, <1>7, <1>8, <1>9 DEF Next

\* A step that archives a review archives the one in the queue, which the command
\* has marked.
LEMMA ArchivesMarked ==
  ASSUME Typed, [Next]_vars, NEW i \in DOMAIN archive' \ DOMAIN archive
  PROVE  archive'[i] = Archived /\ dir /\ \E o \in Ops : cmd[o].pc = "marked"
<1>1. PICK o \in Ops : MoveToArchive(o)
  BY DEF Next, vars, Dispatch, Stage, Report, ReadForCost, WriteCost, Load, Promote, Mark,
         MoveFails, Kill, KillInWrite, Tick, archiveVars
<1>2. Archived \in Reviewed /\ archive \in Seq(Reviewed)
  BY ReviewsAssumption
  DEF Typed, TypeOK, Archived, Reviewed, Statuses, Briefs, NoBrief, Malformed
<1>3. archive' = Append(archive, Archived) /\ dir /\ cmd[o].pc = "marked"
  BY <1>1 DEF MoveToArchive, Archive
<1>4. /\ Len(archive) \in Nat /\ DOMAIN archive = 1 .. Len(archive)
      /\ DOMAIN archive' = 1 .. Len(archive) + 1
      /\ archive'[Len(archive) + 1] = Archived
  BY <1>2, <1>3, ArchiveFacts
<1>5. i = Len(archive) + 1
  BY <1>4
<1>6. QED
  BY <1>3, <1>4, <1>5

LEMMA DecidedInit == Init => Decided
BY DEF Init, Idle, Decided, LoadedPromotes, MarkedDecided

\* Commands alone archive no review that is not decided, however they meet and
\* wherever they are killed, save that one killed inside its writing of the brief
\* may cut it short for another that has marked it and is about to move it.
THEOREM ArchivesDecided == Spec => ArchivedIsDecided
<1>1. Typed /\ Decided /\ [Next]_vars
        => \A i \in DOMAIN archive' \ DOMAIN archive :
             disturbed \/ cut \/ archive'[i].status \in Verbs
  BY ArchivesMarked DEF Decided, MarkedDecided, Archived
<1>2. Typed /\ Decided /\ [Next]_vars
        => [\A i \in DOMAIN archive' \ DOMAIN archive :
              disturbed \/ cut \/ archive'[i].status \in Verbs]_vars
  BY <1>1
<1>3. QED
  BY <1>2, TypeInit, TypedNext, DecidedInit, DecidedNext, PTL DEF Spec, ArchivedIsDecided

\* A review that commands alone archive as accepted has the files its run delivered
\* in the workspaces, except those whose copies left with an earlier review.
THEOREM AcceptsPromote == Spec => AcceptedIsPromoted
<1> DEFINE Came(i) ==
      archive'[i].status = "accepted" /\ ~disturbed =>
        \A f \in Delivered(brief) :
          \/ archive'[i].files[f] # NoRun /\ workspace[f] = archive'[i].files[f]
          \/ /\ archive'[i].files[f] = NoRun
             /\ \E j \in DOMAIN archive : archive[j].files[f] # NoRun
<1>1. ASSUME Typed, Decided, CopiesSomewhere, [Next]_vars,
             NEW i \in DOMAIN archive' \ DOMAIN archive
      PROVE  Came(i)
  <2>1. /\ archive'[i].status = brief.status /\ archive'[i].files = files
        /\ dir /\ \E o \in Ops : cmd[o].pc = "marked"
    BY <1>1, ArchivesMarked DEF Archived
  <2>2. brief.status = "accepted" /\ ~disturbed => Promoted(brief.touched)
    BY <1>1, <2>1 DEF Decided, MarkedDecided
  <2>3. \A f \in Delivered(brief) : f \in brief.touched /\ SomeCopy(f)
    BY <1>1 DEF Delivered, CopiesSomewhere
  <2>4. QED
    BY <2>1, <2>2, <2>3 DEF Promoted, SomeCopy
<1>2. Typed /\ Decided /\ CopiesSomewhere /\ [Next]_vars
        => [\A i \in DOMAIN archive' \ DOMAIN archive : Came(i)]_vars
  BY <1>1
<1>3. Init => CopiesSomewhere
  BY DEF Init, CopiesSomewhere
<1>4. QED
  BY <1>2, <1>3, TypeInit, TypedNext, DecidedInit, DecidedNext, CopiesNext, PTL
  DEF Spec, AcceptedIsPromoted

-------------------------------------------------------------------------------
(* Plugin.                                                                 *)

LEMMA NothingYet ==
  /\ NoChild \in Processes
  /\ NoScan \in [under : BOOLEAN, left : SUBSET VaultFiles, got : [VaultFiles -> Nat]]
BY DEF NoChild, NoScan, Processes

LEMMA StartType ==
  ASSUME NEW what \in {"check", "reindex"}
  PROVE  Start(what) \in Processes
BY DEF Start, NoChild, Processes

LEMMA PluginTypeInit == PluginInit => PluginTypeOK
<1> SUFFICES ASSUME PluginInit PROVE PluginTypeOK
  OBVIOUS
<1>1. /\ loaded \in BOOLEAN /\ hasCns \in BOOLEAN /\ timer \in BOOLEAN
      /\ scanTimer \in BOOLEAN /\ missed \in BOOLEAN
  BY DEF PluginInit
<1>2. index \in [whole : BOOLEAN, of : [Bets -> Nat]]
  BY DEF PluginInit
<1>3. QED
  BY <1>1, <1>2, NothingYet DEF PluginInit, PluginTypeOK

\* What the proofs need of the updates of a process, of a scan and of the index.
LEMMA ProcessUpdates ==
  ASSUME NEW c \in Processes
  PROVE  /\ \A at \in {"running", "open", "ended"} : [c EXCEPT !.at = at] \in Processes
         /\ [c EXCEPT !.killed = TRUE] \in Processes
         /\ [c EXCEPT !.killed = TRUE, !.late = TRUE] \in Processes
         /\ \A code \in Nat : [c EXCEPT !.at = "ended", !.code = code] \in Processes
         /\ \A left \in SUBSET Bets, of \in [Bets -> Nat] :
              [c EXCEPT !.left = left, !.of = of] \in Processes
BY DEF Processes

\* What a step may do to the process.
LEMMA ChildTypeNext ==
  ASSUME PluginTypeOK, PluginNext
  PROVE  child' \in Processes
<1>1. child \in Processes /\ file \in [VaultFiles -> Nat] /\ Bets \subseteq VaultFiles
  BY DEF PluginTypeOK, VaultFiles
<1>2. CASE UNCHANGED child
  BY <1>1, <1>2
<1>3. CASE child' = NoChild \/ \E what \in {"check", "reindex"} : child' = Start(what)
  BY <1>3, NothingYet, StartType
<1>4. CASE \E b \in Bets : ReadBet(b)
  <2>1. PICK b \in Bets : ReadBet(b)
    BY <1>4
  <2>2. child.left \in SUBSET Bets /\ child.of \in [Bets -> Nat] /\ file[b] \in Nat
    BY <1>1 DEF Processes
  <2>3. child' = [child EXCEPT !.left = child.left \ {b}, !.of = [child.of EXCEPT ![b] = file[b]]]
    BY <2>1 DEF ReadBet
  <2>4. child.left \ {b} \in SUBSET Bets /\ [child.of EXCEPT ![b] = file[b]] \in [Bets -> Nat]
    BY <2>2
  <2>5. QED
    BY <1>1, <2>3, <2>4, ProcessUpdates
<1>5. CASE Check \/ Timeout \/ Dies \/ Unload \/ OpenIndex \/ WriteIndex
  <2>1. CASE Check \/ Dies
    <3>1. PICK code \in Nat : child' = [child EXCEPT !.at = "ended", !.code = code]
      BY <2>1 DEF Check, Dies
    <3>2. QED
      BY <1>1, <3>1, ProcessUpdates
  <2>2. CASE Timeout \/ Unload
    BY <1>1, <2>2, ProcessUpdates DEF Timeout, Unload
  <2>3. CASE OpenIndex \/ WriteIndex
    BY <1>1, <2>3, ProcessUpdates DEF OpenIndex, WriteIndex
  <2>4. QED
    BY <1>5, <2>1, <2>2, <2>3
<1>6. QED
  BY <1>2, <1>3, <1>4, <1>5 DEF PluginNext, Progress, Deliver, ScanReads, TimerFires, Checked,
    Reindexed, ScanFires, ScanDone, Edit, watcher

LEMMA ScanTypeNext ==
  ASSUME PluginTypeOK, PluginNext
  PROVE  /\ scan' \in [under : BOOLEAN, left : SUBSET VaultFiles, got : [VaultFiles -> Nat]]
         /\ shown' \in [VaultFiles -> Nat]
<1>1. /\ scan \in [under : BOOLEAN, left : SUBSET VaultFiles, got : [VaultFiles -> Nat]]
      /\ shown \in [VaultFiles -> Nat] /\ file \in [VaultFiles -> Nat]
  BY DEF PluginTypeOK
<1>2. CASE UNCHANGED <<scan, shown>>
  BY <1>1, <1>2
<1>3. CASE \E f \in VaultFiles : ScanReads(f)
  <2>1. PICK f \in VaultFiles : ScanReads(f)
    BY <1>3
  <2>2. scan.left \ {f} \in SUBSET VaultFiles /\ [scan.got EXCEPT ![f] = file[f]] \in [VaultFiles -> Nat]
    BY <1>1
  <2>3. scan' = [scan EXCEPT !.left = scan.left \ {f}, !.got = [scan.got EXCEPT ![f] = file[f]]]
    BY <2>1 DEF ScanReads
  <2>4. shown' = shown
    BY <2>1 DEF ScanReads
  <2>5. QED
    BY <1>1, <2>2, <2>3, <2>4
<1>4. CASE ScanFires
  BY <1>1, <1>4 DEF ScanFires, NoScan
<1>5. CASE ScanDone
  BY <1>1, <1>5, NothingYet DEF ScanDone
<1>6. QED
  BY <1>2, <1>3, <1>4, <1>5 DEF PluginNext, Progress, Deliver, TimerFires, Checked, Reindexed,
    Check, ReadBet, OpenIndex, WriteIndex, Timeout, Dies, Unload, Edit, sidebar

LEMMA VaultTypeNext ==
  ASSUME PluginTypeOK, PluginNext
  PROVE  /\ file' \in [VaultFiles -> Nat] /\ newer' \subseteq Bets
         /\ index' \in [whole : BOOLEAN, of : [Bets -> Nat]]
         /\ events' \subseteq VaultFiles /\ edits' \in Nat /\ failures' \in Nat
<1>1. /\ file \in [VaultFiles -> Nat] /\ newer \subseteq Bets
      /\ index \in [whole : BOOLEAN, of : [Bets -> Nat]]
      /\ events \subseteq VaultFiles /\ edits \in Nat /\ failures \in Nat
      /\ child.of \in [Bets -> Nat]
  BY DEF PluginTypeOK, Processes
<1>2. CASE \E f \in VaultFiles : Edit(f)
  BY <1>1, <1>2 DEF Edit
<1>3. CASE OpenIndex \/ WriteIndex
  <2>1. ASSUME NEW i \in [whole : BOOLEAN, of : [Bets -> Nat]]
        PROVE  [i EXCEPT !.whole = FALSE] \in [whole : BOOLEAN, of : [Bets -> Nat]]
    OBVIOUS
  <2>2. index' \in [whole : BOOLEAN, of : [Bets -> Nat]]
    <3>1. CASE OpenIndex
      BY <1>1, <2>1, <3>1 DEF OpenIndex
    <3>2. CASE WriteIndex
      BY <1>1, <3>2 DEF WriteIndex
    <3>3. QED
      BY <1>3, <3>1, <3>2
  <2>3. newer' = {} /\ UNCHANGED <<file, events, edits, failures>>
    BY <1>3 DEF OpenIndex, WriteIndex, counts
  <2>4. QED
    BY <1>1, <2>2, <2>3
<1>4. CASE Unload \/ \E f \in VaultFiles : Deliver(f)
  BY <1>1, <1>4 DEF Unload, Deliver, counts
<1>5. CASE Timeout \/ Dies
  BY <1>1, <1>5 DEF Timeout, Dies
<1>6. CASE UNCHANGED <<file, newer, index, events, edits, failures>>
  BY <1>1, <1>6
<1>7. QED
  BY <1>2, <1>3, <1>4, <1>5, <1>6 DEF PluginNext, Progress, ScanReads, TimerFires, Checked,
    Reindexed, Check, ReadBet, ScanFires, ScanDone, counts

LEMMA FlagTypeNext ==
  ASSUME PluginTypeOK, PluginNext
  PROVE  /\ loaded' \in BOOLEAN /\ hasCns' \in BOOLEAN /\ timer' \in BOOLEAN
         /\ scanTimer' \in BOOLEAN /\ missed' \in BOOLEAN
         /\ job' \in {"idle", "checking", "reindexing"}
<1>1. /\ loaded \in BOOLEAN /\ hasCns \in BOOLEAN /\ timer \in BOOLEAN
      /\ scanTimer \in BOOLEAN /\ missed \in BOOLEAN /\ scan.under \in BOOLEAN
      /\ job \in {"idle", "checking", "reindexing"}
  BY DEF PluginTypeOK
<1>2. hasCns' = hasCns /\ (loaded' = loaded \/ loaded' = FALSE)
  BY DEF PluginNext, Progress, Deliver, ScanReads, TimerFires, Checked, Reindexed, Check,
    ReadBet, OpenIndex, WriteIndex, Timeout, Dies, Unload, Edit, ScanFires, ScanDone
<1>3. job' \in {"idle", "checking", "reindexing"}
  BY <1>1 DEF PluginNext, Progress, Deliver, ScanReads, TimerFires, Checked, Reindexed, Check,
    ReadBet, OpenIndex, WriteIndex, Timeout, Dies, Unload, Edit, ScanFires, ScanDone, watcher
<1>4. timer' \in BOOLEAN
  BY <1>1 DEF PluginNext, Progress, Deliver, ScanReads, TimerFires, Checked, Reindexed, Check,
    ReadBet, OpenIndex, WriteIndex, Timeout, Dies, Unload, Edit, ScanFires, ScanDone, watcher
<1>5. scanTimer' \in BOOLEAN
  BY <1>1 DEF PluginNext, Progress, Deliver, ScanReads, TimerFires, Checked, Reindexed, Check,
    ReadBet, OpenIndex, WriteIndex, Timeout, Dies, Unload, Edit, ScanFires, ScanDone, sidebar
<1>6. missed' \in BOOLEAN
  BY <1>1 DEF PluginNext, Progress, Deliver, ScanReads, TimerFires, Checked, Reindexed, Check,
    ReadBet, OpenIndex, WriteIndex, Timeout, Dies, Unload, Edit, ScanFires, ScanDone
<1>7. QED
  BY <1>1, <1>2, <1>3, <1>4, <1>5, <1>6

LEMMA PluginTypeNext == PluginTypeOK /\ [PluginNext]_pluginVars => PluginTypeOK'
<1> SUFFICES ASSUME PluginTypeOK, [PluginNext]_pluginVars PROVE PluginTypeOK'
  OBVIOUS
<1>1. CASE UNCHANGED pluginVars
  BY <1>1 DEF pluginVars, PluginTypeOK
<1>2. CASE PluginNext
  BY <1>2, ChildTypeNext, ScanTypeNext, VaultTypeNext, FlagTypeNext DEF PluginTypeOK
<1>3. QED
  BY <1>1, <1>2

\* Every state of the plugin, the vault and the process is well typed.
THEOREM PluginTypes == PluginSpec => []PluginTypeOK
  BY PluginTypeInit, PluginTypeNext, PTL DEF PluginSpec

-------------------------------------------------------------------------------
\* The flag of the watcher and the process agree, whatever becomes of the process.
ChildFollowsJob ==
  /\ child.what = "none" <=> child.at = "none"
  /\ job = "idle" <=> child.what = "none"
  /\ job = "checking" <=> child.what = "check"
  /\ child.at = "open" => child.what = "reindex"

\* Once unloaded, nothing is on its way that could start a process.
QuietOnceUnloaded ==
  ~loaded => /\ ~timer /\ events = {}
             /\ child.at \in {"running", "open"} => child.killed

LEMMA StartFields ==
  /\ \A what \in {"check", "reindex"} :
       /\ Start(what).what = what /\ Start(what).at = "running"
       /\ Start(what).left = IF what = "reindex" THEN Bets ELSE {}
       /\ Start(what).late = FALSE /\ Start(what).killed = FALSE /\ Start(what).code = 0
  /\ NoChild.what = "none" /\ NoChild.at = "none" /\ NoChild.late = FALSE /\ NoChild.code = 0
BY DEF Start, NoChild

LEMMA JobNext ==
  PluginTypeOK /\ ChildFollowsJob /\ [PluginNext]_pluginVars => ChildFollowsJob'
<1> SUFFICES ASSUME PluginTypeOK, ChildFollowsJob, [PluginNext]_pluginVars
             PROVE  ChildFollowsJob'
  OBVIOUS
<1>1. child \in Processes /\ job \in {"idle", "checking", "reindexing"}
  BY DEF PluginTypeOK
<1>2. CASE UNCHANGED <<job, child>>
  BY <1>2 DEF ChildFollowsJob
<1>3. CASE TimerFires
  BY <1>3, StartFields DEF TimerFires, ChildFollowsJob
<1>4. CASE Checked \/ Reindexed
  BY <1>4, StartFields DEF Checked, Reindexed, ChildFollowsJob
<1>5. CASE Check \/ OpenIndex \/ WriteIndex \/ Timeout \/ Dies \/ Unload
  BY <1>1, <1>5 DEF Check, OpenIndex, WriteIndex, Timeout, Dies, Unload, Processes, ChildFollowsJob
<1>6. CASE \E b \in Bets : ReadBet(b)
  BY <1>1, <1>6 DEF ReadBet, Processes, ChildFollowsJob
<1>7. QED
  BY <1>2, <1>3, <1>4, <1>5, <1>6 DEF PluginNext, Progress, Deliver, ScanReads, ScanFires,
    ScanDone, Edit, watcher, pluginVars

LEMMA UnloadedNext ==
  PluginTypeOK /\ QuietOnceUnloaded /\ [PluginNext]_pluginVars => QuietOnceUnloaded'
<1> SUFFICES ASSUME PluginTypeOK, QuietOnceUnloaded, [PluginNext]_pluginVars
             PROVE  QuietOnceUnloaded'
  OBVIOUS
<1>1. child \in Processes
  BY DEF PluginTypeOK
<1>2. CASE UNCHANGED <<loaded, timer, events, child>>
  BY <1>2 DEF QuietOnceUnloaded
<1>3. CASE TimerFires
  BY <1>3 DEF TimerFires, QuietOnceUnloaded
<1>4. CASE Checked \/ Reindexed
  BY <1>4, StartFields DEF Checked, Reindexed, QuietOnceUnloaded
<1>5. CASE Check \/ OpenIndex \/ WriteIndex \/ Timeout \/ Dies \/ Unload
  BY <1>1, <1>5 DEF Check, OpenIndex, WriteIndex, Timeout, Dies, Unload, Processes, QuietOnceUnloaded
<1>6. CASE \E b \in Bets : ReadBet(b)
  BY <1>1, <1>6 DEF ReadBet, Processes, QuietOnceUnloaded
<1>7. CASE \E f \in VaultFiles : Edit(f) \/ Deliver(f)
  BY <1>7 DEF Edit, Deliver, QuietOnceUnloaded, watcher
<1>8. QED
  BY <1>2, <1>3, <1>4, <1>5, <1>6, <1>7 DEF PluginNext, Progress, ScanReads, ScanFires,
    ScanDone, watcher, pluginVars

\* The watcher never has two processes: it starts one only when it is idle, and it is
\* idle only when the last one has ended.
THEOREM NeverTwoProcesses == PluginSpec => []OneProcess
<1>1. PluginInit => ChildFollowsJob
  BY StartFields DEF PluginInit, ChildFollowsJob
<1>2. ChildFollowsJob => OneProcess
  BY DEF ChildFollowsJob, OneProcess
<1>3. QED
  BY <1>1, <1>2, JobNext, PluginTypes, PTL DEF PluginSpec

\* A process that is there after the plugin was unloaded has been told to stop.
THEOREM NoneIsLeftBehind == PluginSpec => []NoneOutlivesPlugin
<1>1. PluginInit => QuietOnceUnloaded
  BY DEF PluginInit, QuietOnceUnloaded
<1>2. QuietOnceUnloaded => NoneOutlivesPlugin
  BY DEF QuietOnceUnloaded, NoneOutlivesPlugin
<1>3. QED
  BY <1>1, <1>2, UnloadedNext, PluginTypes, PTL DEF PluginSpec

-------------------------------------------------------------------------------
\* What the sidebar does not show yet is still to be heard of, or to be scanned.
SidebarCatchesUp ==
  loaded => \A f \in VaultFiles :
    \/ f \in events \/ scanTimer
    \/ scan.under /\ (f \in scan.left \/ scan.got[f] = file[f])
    \/ ~scan.under /\ shown[f] = file[f]

LEMMA SidebarNext ==
  PluginTypeOK /\ SidebarCatchesUp /\ [PluginNext]_pluginVars => SidebarCatchesUp'
<1> SUFFICES ASSUME PluginTypeOK, SidebarCatchesUp, [PluginNext]_pluginVars
             PROVE  SidebarCatchesUp'
  OBVIOUS
<1>1. /\ scan \in [under : BOOLEAN, left : SUBSET VaultFiles, got : [VaultFiles -> Nat]]
      /\ shown \in [VaultFiles -> Nat] /\ file \in [VaultFiles -> Nat]
  BY DEF PluginTypeOK
<1>2. CASE UNCHANGED <<loaded, events, scanTimer, scan, shown, file>>
  BY <1>2 DEF SidebarCatchesUp
<1>3. CASE \E f \in VaultFiles : Edit(f)
  BY <1>1, <1>3 DEF Edit, SidebarCatchesUp, sidebar
<1>4. CASE Unload \/ \E f \in VaultFiles : Deliver(f)
  BY <1>4 DEF Unload, Deliver, SidebarCatchesUp
<1>5. CASE ScanFires
  BY <1>1, <1>5 DEF ScanFires, SidebarCatchesUp, NoScan
<1>6. ASSUME NEW f \in VaultFiles, ScanReads(f) PROVE SidebarCatchesUp'
  <2>1. /\ scan'.under = scan.under /\ scan'.left = scan.left \ {f}
        /\ scan'.got = [scan.got EXCEPT ![f] = file[f]]
    BY <1>1, <1>6 DEF ScanReads
  <2>2. UNCHANGED <<loaded, events, scanTimer, shown, file>>
    BY <1>6 DEF ScanReads
  <2>3. QED
    BY <1>1, <2>1, <2>2 DEF SidebarCatchesUp
<1>7. CASE ScanDone
  BY <1>1, <1>7 DEF ScanDone, SidebarCatchesUp, NoScan
<1>8. QED
  BY <1>2, <1>3, <1>4, <1>5, <1>6, <1>7 DEF PluginNext, Progress, TimerFires, Checked,
    Reindexed, Check, ReadBet, OpenIndex, WriteIndex, Timeout, Dies, sidebar, pluginVars

\* When no event is on its way and no scan is due or under way, the sidebar shows every
\* file as it is, however files changed while they were read.
SidebarIsCurrentAtRest ==
  loaded /\ events = {} /\ ~scanTimer /\ ~scan.under => shown = file

THEOREM SidebarIsCurrent == PluginSpec => []SidebarIsCurrentAtRest
<1>1. PluginInit => SidebarCatchesUp
  BY DEF PluginInit, SidebarCatchesUp
<1>2. PluginTypeOK /\ SidebarCatchesUp => SidebarIsCurrentAtRest
  BY DEF PluginTypeOK, SidebarCatchesUp, SidebarIsCurrentAtRest
<1>3. QED
  BY <1>1, <1>2, SidebarNext, PluginTypes, PTL DEF PluginSpec

-------------------------------------------------------------------------------
Reindexing == child.what = "reindex" /\ child.at \in {"running", "open"}

\* Where bet b is between the vault and the index, if no edit was missed: what the
\* process has read is current, what the index has not is newer than it, and something
\* is on its way that will find that.
Indexing(b) ==
  /\ Reindexing => b \in child.left \/ child.of[b] = file[b]
  /\ index.of[b] = file[b] \/ b \in newer \/ child.at = "open"
  /\ loaded => \/ index.of[b] = file[b] \/ b \in events \/ timer \/ Reindexing
               \/ child.what = "check" /\ (child.at = "running" \/ child.code # 0)

IndexCatchesUp ==
  ~missed => /\ ~child.late
             /\ index.whole \/ child.at = "open"
             /\ child.at = "open" => child.left = {}
             /\ \A b \in Bets : Indexing(b)

LEMMA IndexNext ==
  PluginTypeOK /\ ChildFollowsJob /\ IndexCatchesUp /\ [PluginNext]_pluginVars => IndexCatchesUp'
<1> SUFFICES ASSUME PluginTypeOK, ChildFollowsJob, IndexCatchesUp, [PluginNext]_pluginVars,
                    ~missed'
             PROVE  /\ ~child'.late
                    /\ index'.whole \/ child'.at = "open"
                    /\ child'.at = "open" => child'.left = {}
                    /\ \A b \in Bets : Indexing(b)'
  BY DEF IndexCatchesUp
<1>1. /\ child \in Processes /\ file \in [VaultFiles -> Nat] /\ Bets \subseteq VaultFiles
      /\ index \in [whole : BOOLEAN, of : [Bets -> Nat]] /\ newer \subseteq Bets
  BY DEF PluginTypeOK, VaultFiles
<1>2. ~missed /\ ~Timeout /\ ~Dies
  <2>1. ~Timeout /\ ~Dies
    BY DEF Timeout, Dies
  <2>2. missed => missed'
    BY DEF PluginNext, Progress, Deliver, ScanReads, TimerFires, Checked, Reindexed, Check,
      ReadBet, OpenIndex, WriteIndex, Timeout, Dies, Unload, Edit, ScanFires, ScanDone, pluginVars
  <2>3. QED
    BY <2>1, <2>2
<1>3. /\ ~child.late /\ (index.whole \/ child.at = "open")
      /\ child.at = "open" => child.left = {}
      /\ \A b \in Bets : Indexing(b)
  BY <1>2 DEF IndexCatchesUp
<1>4. CASE UNCHANGED <<loaded, file, newer, index, events, timer, child>>
  BY <1>3, <1>4 DEF Indexing, Reindexing
<1>5. CASE \E f \in VaultFiles : Edit(f)
  <2>1. PICK f \in VaultFiles : Edit(f)
    BY <1>5
  <2>2. UNCHANGED <<loaded, index, timer, child>>
    BY <2>1 DEF Edit, watcher
  <2>3. ASSUME NEW b \in Bets, b # f PROVE Indexing(b)'
    <3>1. file'[b] = file[b] /\ newer \subseteq newer' /\ events \subseteq events'
      BY <1>1, <2>1, <2>3 DEF Edit
    <3>2. QED
      BY <1>3, <2>2, <3>1 DEF Indexing, Reindexing
  <2>4. ASSUME NEW b \in Bets, b = f PROVE Indexing(b)'
    <3>1. b \in newer' /\ (loaded => b \in events')
      BY <2>1, <2>4 DEF Edit
    <3>2. child.what = "reindex" /\ child.at # "ended" => b \in child.left
      BY <2>1, <2>4 DEF Edit
    <3>3. QED
      BY <2>2, <3>1, <3>2 DEF Indexing, Reindexing
  <2>5. QED
    BY <1>3, <2>2, <2>3, <2>4
<1>6. CASE \E f \in VaultFiles : Deliver(f)
  <2>1. PICK f \in VaultFiles : Deliver(f)
    BY <1>6
  <2>2. UNCHANGED <<loaded, file, newer, index, child>>
    BY <2>1 DEF Deliver
  <2>3. \A b \in Bets : b \in events \/ timer => b \in events' \/ timer'
    BY <2>1 DEF Deliver
  <2>4. QED
    BY <1>3, <2>2, <2>3 DEF Indexing, Reindexing
<1>7. CASE TimerFires
  BY <1>3, <1>7, StartFields DEF TimerFires, ChildFollowsJob, Indexing, Reindexing
<1>8. CASE Checked \/ Reindexed
  BY <1>1, <1>3, <1>8, StartFields DEF Checked, Reindexed, ChildFollowsJob, Indexing, Reindexing
<1>9. CASE Check
  BY <1>1, <1>3, <1>9 DEF Check, Indexing, Reindexing, Processes
<1>10. CASE \E b \in Bets : ReadBet(b)
  <2>1. PICK b \in Bets : ReadBet(b)
    BY <1>10
  <2>2. child' = [child EXCEPT !.left = child.left \ {b}, !.of = [child.of EXCEPT ![b] = file[b]]]
    BY <2>1 DEF ReadBet
  <2>3. /\ child'.what = child.what /\ child'.at = child.at /\ child'.late = child.late
        /\ child'.code = child.code /\ child'.left = child.left \ {b}
        /\ child'.of = [child.of EXCEPT ![b] = file[b]] /\ child.of \in [Bets -> Nat]
    BY <1>1, <2>2 DEF Processes
  <2>4. UNCHANGED <<loaded, file, newer, index, events, timer>>
    BY <2>1 DEF ReadBet
  <2>5. QED
    BY <1>1, <1>3, <2>3, <2>4 DEF Indexing, Reindexing
<1>11. CASE OpenIndex
  BY <1>1, <1>3, <1>11 DEF OpenIndex, Indexing, Reindexing, Processes
<1>12. CASE WriteIndex
  BY <1>1, <1>3, <1>12 DEF WriteIndex, ChildFollowsJob, Indexing, Reindexing, Processes
<1>13. CASE Unload
  BY <1>1, <1>3, <1>13 DEF Unload, Indexing, Reindexing, Processes
<1>14. QED
  BY <1>2, <1>4, <1>5, <1>6, <1>7, <1>8, <1>9, <1>10, <1>11, <1>12, <1>13 DEF PluginNext,
    Progress, ScanReads, ScanFires, ScanDone, watcher, pluginVars

\* When the watcher is at rest and nothing was missed, the index lists every bet as it
\* is: an edit is never forgotten between its event, the check and the reindex.
IndexIsCurrentAtRest ==
  loaded /\ ~missed /\ ~timer /\ events \cap Bets = {} /\ job = "idle" => IndexIsCurrent

THEOREM IndexIsCurrentUnlessMissed == PluginSpec => []IndexIsCurrentAtRest
<1>1. PluginInit => IndexCatchesUp
  BY StartFields DEF PluginInit, IndexCatchesUp, Indexing, Reindexing, VaultFiles
<1>2. ChildFollowsJob /\ IndexCatchesUp => IndexIsCurrentAtRest
  BY DEF ChildFollowsJob, IndexCatchesUp, Indexing, Reindexing, IndexIsCurrentAtRest,
    IndexIsCurrent
<1>3. PluginInit => ChildFollowsJob
  BY StartFields DEF PluginInit, ChildFollowsJob
<1>4. QED
  BY <1>1, <1>2, <1>3, IndexNext, JobNext, PluginTypes, PTL DEF PluginSpec

===============================================================================
