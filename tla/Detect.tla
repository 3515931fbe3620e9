--------------------------------- MODULE Detect --------------------------------
(***************************************************************************)
(* Conflict detection (cns/detector.py, cns/conflicts.py, cns/signals.py,  *)
(* `cns detect`) and the resolution of conflicts (skills/spar/SKILL.md).   *)
(*                                                                         *)
(* `cns detect` is a process of its own, started by a schedule, a git hook *)
(* or a person: it reads the bets one file after another, collects the     *)
(* signals of the last hours, reads the queue CONFLICTS.md, asks git which *)
(* bets were committed lately, and writes the queue.  /spar walks the      *)
(* queue and writes bets and queue.  Nothing locks any of these files.     *)
(*                                                                         *)
(* A step is one access to the file system; a file that is being written   *)
(* is empty between its truncation and the write.  A text is a sequence of *)
(* words, and distances in it are counted in words.                        *)
(***************************************************************************)
EXTENDS Integers, Sequences, FiniteSets

CONSTANTS
  Files,       \* the bet files, in the order of their names
  Detectors,
  Drafts,      \* what a bet may say, see MCDetect
  Written,     \* Written[b]: what bet b says first
  Unwritten,   \* the bets that do not exist at first
  Queued,      \* the conflicts that are on the queue at first, of the day before
  Text,        \* Text[s]: the words of signal s
  Distinctive, \* words of five letters and more that are not in _GENERIC_NOUNS
  Long,        \* words of six letters and more
  Markers,     \* the contradiction markers, in the order they are tried
  PhraseWindow, MarkerWindow,
  Checks,      \* which of "stale" and "cross" the configuration asks for
  MaxDay, MaxDetections, MaxDecisions  \* bounds

FirstDay == 2
Bets == {Files[i] : i \in DOMAIN Files}
Signals == DOMAIN Text
Kinds == {"needs-sparring", "killed-trigger", "signal-contradiction", "stale", "cross"}
Conflicts == Kinds \X Bets \X Bets

ASSUME DetectAssumption ==
  /\ Files \in Seq(Bets)
  /\ MaxDay \in Nat /\ MaxDay >= FirstDay
  /\ \A i, j \in DOMAIN Files : Files[i] = Files[j] => i = j
  /\ Checks \subseteq {"stale", "cross"}
  /\ Queued \subseteq Conflicts
  /\ \A id \in Queued : {id[2], id[3]} \cap Unwritten = {}

VARIABLES
  today,
  bet,        \* bet[b]: the file of bet b
  dirty,      \* the bets changed since the last commit
  committed,  \* committed[b]: the day of the last commit of bet b
  signal,     \* signal[s]: the days it was made on and is dated with, 0 before
  queue,      \* CONFLICTS.md: [whole, items]
  detector,   \* detector[d]: where a detection is at, and what it has read
  spar,       \* where the session of /spar is at, and what it has still to walk
  detections, decisions,
  before,     \* what the queue said when it was whole last, and whether it was torn
              \* by a kill since then
  settled     \* conflicts taken off the queue for good: see Remove

bets == <<bet, dirty, committed>>
counts == <<detections, decisions>>
vars == <<today, bet, dirty, committed, signal, queue, detector, spar, detections,
          decisions, before, settled>>

-------------------------------------------------------------------------------
(* detect_conflicts.                                                       *)

Words(text) == {text[i] : i \in DOMAIN text}
First(w, text) == CHOOSE i \in DOMAIN text :
                    text[i] = w /\ \A j \in DOMAIN text : text[j] = w => i <= j
Apart(i, j) == IF i < j THEN j - i ELSE i - j

\* A phrase with one distinctive word matches by it; one with more by two of them
\* whose first occurrences are near each other.
PhraseMatch(criteria, text) ==
  \E phrase \in criteria :
    LET clear == {i \in DOMAIN phrase : phrase[i] \in Distinctive}
        present == {i \in clear : phrase[i] \in Words(text)}
    IN \/ Cardinality(clear) = 1 /\ present # {}
       \/ \E i, j \in present :
            i # j /\ Apart(First(phrase[i], text), First(phrase[j], text)) <= PhraseWindow

\* The first marker that the signal has, and words it shares with the bet: three
\* anywhere, two of them near the marker.
SignalContradictsBet(body, text) ==
  LET shared == Words(body) \cap Words(text) \cap Long
      has == {k \in DOMAIN Markers : Markers[k] \in Words(text)}
      marker == First(Markers[CHOOSE k \in has : \A l \in has : k <= l], text)
      near == {text[i] : i \in {i \in DOMAIN text : Apart(i, marker) <= MarkerWindow}}
  IN has # {} /\ Cardinality(shared) >= 3 /\ Cardinality(shared \cap near) >= 2

Differ(s, t) == s # {} /\ t # {} /\ s # t

StructuralCrossBetConflict(a, b) ==
  /\ a.owner = b.owner /\ a.name \cap b.name # {}
  /\ Differ(a.quarters, b.quarters) \/ Differ(a.months, b.months)

\* What is found for one bet alone; s.dated is the day of the signal s.
OwnConflicts(b, file, signals) ==
  LET draft == file.draft
      reviewed == file.reviewed >= today
      visible == {s \in signals : ~(reviewed /\ s.dated < file.reviewed)}
      found(kind) == <<kind, b, b>>
  IN UNION {
       IF draft.criteria = {} /\ ~reviewed THEN {found("needs-sparring")} ELSE {},
       IF \E s \in visible : PhraseMatch(draft.criteria, Text[s.id])
         THEN {found("killed-trigger")} ELSE {},
       IF \E s \in visible : SignalContradictsBet(draft.body, Text[s.id])
         THEN {found("signal-contradiction")} ELSE {},
       IF "stale" \in Checks /\ draft.threshold # 0
            /\ today - file.reviewed > draft.threshold
         THEN {found("stale")} ELSE {}}

Position(b) == CHOOSE i \in DOMAIN Files : Files[i] = b

\* What is found for two bets, filed under the first of them.
CrossConflicts(read) ==
  IF "cross" \in Checks
  THEN {<<"cross", p[1].bet, p[2].bet>> : p \in
          {p \in read \X read : /\ Position(p[1].bet) < Position(p[2].bet)
                               /\ StructuralCrossBetConflict(p[1].file.draft, p[2].file.draft)}}
  ELSE {}

\* Mutant: a deferral is not looked at.
DetectEvenDeferred(read, signals) ==
  CrossConflicts(read) \cup UNION {OwnConflicts(r.bet, r.file, signals) : r \in read}

\* A conflict is known by its kind and the one or two bets it is about.
DetectConflicts(read, signals) ==
  CrossConflicts(read)
  \cup UNION {OwnConflicts(r.bet, r.file, signals) : r \in {r \in read : r.file.deferred <= today}}

\* Mutant: what is found again is entered again.
MergeFoundFirst(existing, found, modified) ==
  LET kept == {c \in existing : c.id[2] \notin modified /\ c.id \notin found} IN
  kept \cup {[id |-> i, first |-> today] : i \in found}

\* Mutant: all conflicts of the bets committed lately are left out.
MergeWithoutModified(existing, found, modified) ==
  LET kept == {c \in existing : c.id[2] \notin modified} IN
  kept \cup {[id |-> i, first |-> today] :
               i \in {i \in found : i[2] \notin modified} \ {c.id : c \in kept}}

\* A conflict is kept with its age unless its own bet was committed lately.
MergeDetected(existing, found, modified) ==
  LET kept == {c \in existing : c.id[2] \notin modified} IN
  kept \cup {[id |-> i, first |-> today] : i \in found \ {c.id : c \in kept}}

-------------------------------------------------------------------------------
(* The detector.                                                           *)

Idle == [at |-> "idle", next |-> 1, read |-> {}, found |-> {}, existing |-> {},
         modified |-> {}, current |-> FALSE, quiet |-> TRUE]

Old == {[id |-> i, first |-> FirstDay - 1] : i \in Queued}

Init ==
  /\ today = FirstDay
  /\ bet = [b \in Bets |-> [status |-> IF b \in Unwritten THEN "none" ELSE "active",
                          draft |-> Written[b], reviewed |-> 0, deferred |-> 0]]
  /\ dirty = {}
  /\ committed = [b \in Bets |-> 0]
  /\ signal = [s \in Signals |-> [made |-> 0, dated |-> 0]]
  /\ queue = [whole |-> TRUE, items |-> Old]
  /\ detector = [d \in Detectors |-> Idle]
  /\ spar = [at |-> "idle", walk |-> {}]
  /\ detections = 0
  /\ decisions = 0
  /\ before = [items |-> Old, torn |-> FALSE]
  /\ settled = {}

\* Others that have read the queue no longer know what it says.
Overtaken(d) ==
  [e \in Detectors |-> IF e = d THEN detector[e] ELSE [detector[e] EXCEPT !.current = FALSE]]

\* The bets or the signals are no longer as a detection under way has found them.
Disturbs ==
  detector' = [d \in Detectors |->
                 IF detector[d].at = "idle" THEN Idle ELSE [detector[d] EXCEPT !.quiet = FALSE]]

Goes(d, from, to) ==
  /\ detector[d].at = from
  /\ detector' = [detector EXCEPT ![d] = to]

StartDetect(d) ==
  /\ detections < MaxDetections
  /\ Goes(d, "idle", [Idle EXCEPT !.at = "reading"])
  /\ detections' = detections + 1
  /\ UNCHANGED <<today, bets, signal, queue, spar, decisions, before, settled>>

\* A file that cannot be parsed is skipped, as is a bet that is not active.
ReadBet(d) ==
  LET n == detector[d].next
      b == Files[n]
  IN /\ n <= Len(Files)
     /\ Goes(d, "reading",
             [detector[d] EXCEPT !.next = n + 1,
                !.read = IF bet[b].status = "active"
                         THEN @ \cup {[bet |-> b, file |-> bet[b]]} ELSE @])
     /\ UNCHANGED <<today, bets, signal, queue, spar, counts, before, settled>>

\* git and gh give what was made within the window of a day, which takes in a part
\* of yesterday; a source whose command fails gives nothing.
Collect(d, yesterdays, failed) ==
  LET made == {s \in Signals \ failed : signal[s].made # 0}
      got == {s \in made : signal[s].made = today \/ (signal[s].made = today - 1 /\ yesterdays)}
      signals == {[id |-> s, dated |-> signal[s].dated] : s \in got}
  IN /\ detector[d].next > Len(Files)
     /\ Goes(d, "reading", [detector[d] EXCEPT !.at = "detected", !.next = 1, !.read = {},
                              !.found = DetectConflicts(detector[d].read, signals)])
     /\ UNCHANGED <<today, bets, signal, queue, spar, counts, before, settled>>

\* A queue that is being written has no conflicts.
ParseQueue(d) ==
  /\ Goes(d, "detected", [detector[d] EXCEPT !.at = "parsed", !.existing = queue.items,
                            !.current = \A e \in Detectors : detector[e].at # "writing"])
  /\ UNCHANGED <<today, bets, signal, queue, spar, counts, before, settled>>

\* git log: the bets committed within the window; none when git fails.
GitLog(d, yesterdays, fails) ==
  LET within == {b \in Bets : \/ committed[b] = today
                              \/ committed[b] = today - 1 /\ yesterdays}
  IN /\ Goes(d, "parsed", [detector[d] EXCEPT !.at = "logged",
                             !.modified = IF fails THEN {} ELSE within])
     /\ UNCHANGED <<today, bets, signal, queue, spar, counts, before, settled>>

OpenQueue(d) ==
  /\ detector[d].at = "logged"
  /\ detector' = [Overtaken(d) EXCEPT ![d].at = "writing"]
  /\ queue' = [whole |-> FALSE, items |-> {}]
  /\ UNCHANGED <<today, bets, signal, spar, counts, before, settled>>

Merged(d) == MergeDetected(detector[d].existing, detector[d].found, detector[d].modified)

WriteQueue(d) ==
  /\ detector[d].at = "writing"
  /\ detector' = [Overtaken(d) EXCEPT ![d] = Idle]
  /\ queue' = [whole |-> TRUE, items |-> Merged(d)]
  /\ before' = [items |-> Merged(d), torn |-> FALSE]
  /\ UNCHANGED <<today, bets, signal, spar, counts, settled>>

\* A detection is killed, at any point; in the middle of its writing the queue is
\* left torn, with no conflict in it.
KillDetect(d) ==
  /\ detector[d].at # "idle"
  /\ detector' = [detector EXCEPT ![d] = Idle]
  /\ before' = IF detector[d].at = "writing" THEN [before EXCEPT !.torn = ~queue.whole]
               ELSE before
  /\ UNCHANGED <<today, bets, signal, queue, spar, counts, settled>>

-------------------------------------------------------------------------------
(* /spar, new bets, commits, signals, and the days.                        *)

\* Detection may find the conflict on that day, as far as its bet goes.
OpenTo(id, day) ==
  bet[id[2]].status = "active" /\ (id[1] = "cross" \/ bet[id[2]].deferred <= day)

Writes(b, file) ==
  /\ bet' = [bet EXCEPT ![b] = file]
  /\ dirty' = dirty \cup {b}
  /\ Disturbs
  /\ UNCHANGED committed

\* A session reads the queue; conflicts of deferred bets are passed over.
BeginSpar ==
  /\ spar.at = "idle" /\ queue.whole
  /\ spar' = [at |-> "asking",
              walk |-> {c \in queue.items : bet[c.id[2]].deferred <= today}]
  /\ spar'.walk # {}
  /\ UNCHANGED <<today, bets, signal, queue, detector, counts, before, settled>>

Current(c) == c \in spar.walk /\ \A other \in spar.walk : c.first <= other.first

\* The bet is written: confirmed, edited, killed (or superseded) or deferred.
Decide(c, how, draft, until) ==
  LET file == bet[c.id[2]] IN
  /\ spar.at = "asking" /\ Current(c) /\ decisions < MaxDecisions
  /\ file.status \in {"active", "dead"}
  /\ how # "edit" => draft = file.draft
  /\ how = "defer" => until > today
  /\ how # "defer" => until = file.deferred
  /\ Writes(c.id[2], [status |-> IF how = "kill" THEN "dead" ELSE file.status,
                      draft |-> draft, deferred |-> until,
                      reviewed |-> IF how \in {"confirm", "edit"} THEN today ELSE file.reviewed])
  /\ spar' = [spar EXCEPT !.at = "decided"]
  /\ decisions' = decisions + 1
  /\ UNCHANGED <<today, signal, queue, detections, before, settled>>

\* Then the conflict is taken off the queue.  That settles it if its bet is not up
\* for detection, and no detection that may have read it before is under way.
Remove(c) ==
  /\ spar.at = "decided" /\ Current(c) /\ queue.whole
  /\ spar' = [spar EXCEPT !.at = IF spar.walk = {c} THEN "idle" ELSE "asking",
                          !.walk = @ \ {c}]
  /\ queue' = [whole |-> TRUE, items |-> {other \in queue.items : other.id # c.id}]
  /\ before' = [items |-> queue'.items, torn |-> FALSE]
  /\ detector' = [d \in Detectors |-> [detector[d] EXCEPT !.current = FALSE]]
  /\ settled' = IF OpenTo(c.id, today) \/ \E d \in Detectors : detector[d].at # "idle"
                THEN settled ELSE settled \cup {c.id}
  /\ UNCHANGED <<today, bets, signal, counts>>

Quit ==
  /\ spar.at # "idle"
  /\ spar' = [at |-> "idle", walk |-> {}]
  /\ UNCHANGED <<today, bets, signal, queue, detector, counts, before, settled>>

Commit ==
  /\ dirty # {}
  /\ committed' = [b \in Bets |-> IF b \in dirty THEN today ELSE committed[b]]
  /\ dirty' = {}
  /\ Disturbs
  /\ UNCHANGED <<today, bet, signal, queue, spar, counts, before, settled>>

\* create_bet opens a new file, and writes it.
CreateBet(b) ==
  /\ bet[b].status = "none"
  /\ Writes(b, [bet[b] EXCEPT !.status = "torn"])
  /\ UNCHANGED <<today, signal, queue, spar, counts, before, settled>>

BetCreated(b) ==
  /\ bet[b].status = "torn"
  /\ Writes(b, [bet[b] EXCEPT !.status = "active", !.reviewed = today])
  /\ UNCHANGED <<today, signal, queue, spar, counts, before, settled>>

\* Its date may be that of another time zone, or an older mtime of the file.
Signal(s, dated) ==
  /\ signal[s].made = 0
  /\ dated \in {today - 1, today}
  /\ signal' = [signal EXCEPT ![s] = [made |-> today, dated |-> dated]]
  /\ Disturbs
  /\ UNCHANGED <<today, bets, queue, spar, counts, before, settled>>

\* A detection takes its date when it starts and does not last into the next day.
NextDay ==
  /\ today < MaxDay
  /\ \A d \in Detectors : detector[d].at = "idle"
  /\ today' = today + 1
  /\ settled' = {id \in settled : ~OpenTo(id, today')}
  /\ UNCHANGED <<bets, signal, queue, detector, spar, counts, before>>

Next ==
  \/ \E d \in Detectors :
       \/ StartDetect(d) \/ ReadBet(d) \/ ParseQueue(d) \/ OpenQueue(d) \/ WriteQueue(d)
       \/ KillDetect(d)
       \/ \E yesterdays \in BOOLEAN, failed \in SUBSET Signals : Collect(d, yesterdays, failed)
       \/ \E yesterdays \in BOOLEAN, fails \in BOOLEAN : GitLog(d, yesterdays, fails)
  \/ BeginSpar \/ Quit \/ Commit \/ NextDay
  \/ \E c \in spar.walk :
       \/ Remove(c)
       \/ \E how \in {"confirm", "edit", "kill", "defer"}, draft \in Drafts,
             until \in 0 .. MaxDay : Decide(c, how, draft, until)
  \/ \E b \in Bets : CreateBet(b) \/ BetCreated(b)
  \/ \E s \in Signals, dated \in 0 .. MaxDay : Signal(s, dated)

Spec == Init /\ [][Next]_vars

-------------------------------------------------------------------------------
(* Properties.                                                             *)

Statuses == {"none", "torn", "active", "dead"}
Says == Drafts \cup {Written[b] : b \in Bets}
BetFiles == [status : Statuses, draft : Says, reviewed : Nat, deferred : Nat]
Items == [id : Conflicts, first : Nat]
Detections ==
  [at : {"idle", "reading", "detected", "parsed", "logged", "writing"}, next : Nat \ {0},
   read : SUBSET [bet : Bets, file : BetFiles], found : SUBSET Conflicts,
   existing : SUBSET Items, modified : SUBSET Bets, current : BOOLEAN, quiet : BOOLEAN]

TypeOK ==
  /\ today \in Nat \ {0} /\ detections \in Nat /\ decisions \in Nat
  /\ bet \in [Bets -> BetFiles] /\ dirty \subseteq Bets /\ committed \in [Bets -> Nat]
  /\ signal \in [Signals -> [made : Nat, dated : Nat]]
  /\ queue \in [whole : BOOLEAN, items : SUBSET Items]
  /\ detector \in [Detectors -> Detections]
  /\ spar \in [at : {"idle", "asking", "decided"}, walk : SUBSET Items]
  /\ before \in [items : SUBSET Items, torn : BOOLEAN] /\ settled \subseteq Conflicts

IdsOf(items) == {c.id : c \in items}
Wrote(d) == detector[d].at = "writing" /\ queue'.whole

\* A detection keeps every conflict of the queue, with the day it was first found, if
\* its bet was not committed lately, nobody wrote the queue in between, and the queue is
\* not torn: days pass, conflicts are found again or not any more, and detections before
\* it are killed.  A kill between the truncation of the queue and the write tears it; the
\* detection that follows has lost what was on it, with every age, and is excepted here.
AgeIsKept ==
  [][\A d \in Detectors : Wrote(d) /\ detector[d].current /\ ~before.torn =>
       \A c \in before.items : committed[c.id[2]] < today - 1 => c \in queue'.items]_vars

\* What there is left of the queue: nothing of a torn one.
Left == IF before.torn THEN {} ELSE before.items

\* The active bets and all signals, as they are now.
Now == {[bet |-> b, file |-> bet[b]] : b \in {b \in Bets : bet[b].status = "active"}}
AllSignals == {[id |-> s, dated |-> signal[s].dated] : s \in {s \in Signals : signal[s].made # 0}}

\* What /spar has settled by a kill or a deferral does not come back, for as long as
\* the bet is dead or deferred, if no detection was under way when it was settled.
SettledStaysOff == settled \cap IdsOf(queue.items) = {}

\* A detection in a vault that nobody else writes leaves what holds of the bets now
\* and, of what the queue said, nothing of a bet it knows to be changed: a killed bet
\* is off the queue, and a changed one is judged anew.
QuietDetectionIsExact ==
  [][\A d \in Detectors : Wrote(d) /\ detector[d].current /\ detector[d].quiet =>
       LET kept == {i \in IdsOf(Left) : i[2] \notin detector[d].modified} IN
       /\ DetectConflicts(Now, {}) \subseteq IdsOf(queue'.items)
       /\ IdsOf(queue'.items) \subseteq DetectConflicts(Now, AllSignals) \cup kept]_vars
===============================================================================
