------------------------------ MODULE HooksProofs ------------------------------
(***************************************************************************)
(* Proofs about Hooks, for any number of bets, sessions and tool calls.    *)
(***************************************************************************)
EXTENDS Hooks, TLAPS

-------------------------------------------------------------------------------
(* The inductive invariant.                                                *)

\* What a `set` and a `clear` have left: a `set` on its way is the last of them, and
\* after a `clear` there is no sentinel, and at its end a tombstone.
Marks ==
  /\ \A s \in Sessions : session[s].at \in {"marking", "marked"} => last = "set"
  /\ last \in {"clearing", "clear"} => sentinel = "none"
  /\ last = "clear" => tombstone

\* A run that is alone has its own descriptor and, if it uses it, the sentinel.
AloneRun(s) ==
  /\ \A t \in Sessions \ {s} : session[t].at = "idle"
  /\ session[s].at \in {"described", "marking", "marked", "running"}
       => descriptor[session[s].bet] = "whole"
  /\ session[s].at \in {"marked", "running"} /\ session[s].how # "env"
       => sentinel = session[s].bet

Alone == \A s \in alone : AloneRun(s)

\* What is left of a run belongs to a run that is under way.
Owned ==
  ~aborted =>
    /\ \A b \in Bets : descriptor[b] # "none" =>
         \E s \in Sessions : session[s].at # "idle" /\ session[s].bet = b
    /\ sentinel # "none" => \E s \in Sessions : session[s].at \in {"marking", "marked", "running"}

\* A call that is told its bet by the environment looks at nothing else.
EnvOnly(x) ==
  /\ x.at = "environment" => x.env # "none"
  /\ x.env # "none" => x.at \in {"start", "environment", "decided"}
  /\ x.env # "none" /\ x.at = "decided" => x.found \in {x.env, "unresolvable", "died"}

\* A call that began after a `clear` finds no sentinel and a tombstone.
AfterClear(x) ==
  x.cleared =>
    /\ sentinel = "none" /\ tombstone /\ last \in {"clearing", "clear"}
    /\ x.env = "none" => x.at \in {"start", "tombstone", "decided"}
    /\ x.env = "none" /\ x.at = "decided" => x.found = "open"

\* A call of a run is made while that runs; of one that is alone it finds the bet.
OfItsRun(x) ==
  x.from # Outsider =>
    /\ session[x.from].at = "running"
    /\ x.from \in alone /\ x.vault =>
         /\ x.env = IF session[x.from].how = "env" THEN session[x.from].bet ELSE "none"
         /\ x.at \in {"start", "environment", "target", "decided"}
         /\ x.at = "target" => x.bet = session[x.from].bet
         /\ x.at = "decided" => x.found = session[x.from].bet

\* A call that has seen the descriptor of its bet finds it, unless it has lost it.
SeenMeansThere(x) ==
  /\ x.at = "environment" => x.lost \/ descriptor[x.env] # "none"
  /\ x.env # "none" /\ x.at = "decided" /\ x.found = "died" => x.lost

CallsOK ==
  \A c \in Calls :
    EnvOnly(call[c]) /\ AfterClear(call[c]) /\ OfItsRun(call[c]) /\ SeenMeansThere(call[c])

IInv == TypeOK /\ Marks /\ Alone /\ Owned /\ CallsOK

-------------------------------------------------------------------------------
LEMMA Names ==
  /\ \A b \in Bets : b \notin {"none", "torn", "open", "unresolvable", "died"}
  /\ \A s \in Sessions : s # Outsider
  /\ MaxRuns \in Nat
BY HooksAssumption

LEMMA NoCallOK ==
  /\ NoCall \in CallStates /\ NoCall.at = "idle" /\ NoCall.from = Outsider
  /\ EnvOnly(NoCall) /\ NoCall.cleared = FALSE /\ NoCall.env = "none"
BY DEF NoCall, CallStates, EnvOnly

LEMMA InvInit == Init => IInv
<1> SUFFICES ASSUME Init PROVE IInv
  OBVIOUS
<1> USE DEF Init
<1>1. NoRun \in RunStates /\ NoRun.at = "idle"
  BY DEF NoRun, RunStates, Steps
<1>2. TypeOK
  <2>1. descriptor \in [Bets -> Kept]
    BY DEF Kept
  <2>2. session \in [Sessions -> RunStates] /\ \A s \in Sessions : session[s].at = "idle"
    BY <1>1
  <2>3. call \in [Calls -> CallStates] /\ \A c \in Calls : call[c].at = "idle"
    BY NoCallOK
  <2>4. runs \in 0 .. MaxRuns
    BY Names
  <2>5. tombstone \in BOOLEAN /\ aborted \in BOOLEAN
    OBVIOUS
  <2>6. QED
    BY <2>1, <2>2, <2>3, <2>4, <2>5 DEF TypeOK
<1>3. Marks /\ Alone /\ Owned
  BY <1>1 DEF Marks, Alone, Owned
<1>4. CallsOK
  BY NoCallOK DEF CallsOK, AfterClear, OfItsRun, SeenMeansThere
<1>5. QED
  BY <1>2, <1>3, <1>4 DEF IInv

-------------------------------------------------------------------------------
(* The steps of a hook process change one call.                            *)

LEMMA CallStep ==
  ASSUME IInv, NEW c \in Calls, NEW x \in CallStates,
         call' = [call EXCEPT ![c] = x],
         UNCHANGED <<files, session, runs, alone, last, aborted>>,
         x.at \in {"target", "candidate"} => x.bet \in Bets,
         EnvOnly(x), AfterClear(x), OfItsRun(x), SeenMeansThere(x)
  PROVE  IInv'
<1>0. /\ UNCHANGED <<descriptor, sentinel, tombstone, session, runs, alone, last, aborted>>
      /\ call \in [Calls -> CallStates]
  BY DEF files, IInv, TypeOK
<1>1. /\ call' \in [Calls -> CallStates] /\ call'[c] = x
      /\ \A d \in Calls \ {c} : call'[d] = call[d]
  BY <1>0
<1>2. TypeOK'
  BY <1>0, <1>1 DEF IInv, TypeOK
<1>3. Marks' /\ Owned'
  BY <1>0 DEF IInv, Marks, Owned
<1>4. Alone'
  BY <1>0 DEF IInv, Alone, AloneRun
<1>5. ASSUME NEW d \in Calls
      PROVE  (EnvOnly(call[d]) /\ AfterClear(call[d]) /\ OfItsRun(call[d])
                /\ SeenMeansThere(call[d]))'
  <2>1. CASE d = c
    BY <2>1, <1>0, <1>1 DEF EnvOnly, AfterClear, OfItsRun, SeenMeansThere
  <2>2. CASE d # c
    <3>1. call'[d] = call[d] /\ EnvOnly(call[d]) /\ AfterClear(call[d]) /\ OfItsRun(call[d])
          /\ SeenMeansThere(call[d])
      BY <2>2, <1>1 DEF IInv, CallsOK
    <3>2. QED
      BY <3>1, <1>0 DEF EnvOnly, AfterClear, OfItsRun, SeenMeansThere
  <2>3. QED
    BY <2>1, <2>2
<1>6. CallsOK'
  BY <1>5 DEF CallsOK
<1>7. QED
  BY <1>2, <1>3, <1>4, <1>6 DEF IInv

\* The shapes a call comes to have.
Alike(x, y) ==
  /\ x.from = y.from /\ x.env = y.env /\ x.vault = y.vault
  /\ x.cleared = y.cleared /\ x.lost = y.lost

LEMMA AtShape ==
  ASSUME NEW c, call[c] \in CallStates, NEW a \in {"environment", "tombstone", "glob"}
  PROVE  At(c, a) \in CallStates /\ At(c, a).at = a /\ Alike(At(c, a), call[c])
BY DEF CallStates, At, Alike

LEMMA FoundShape ==
  ASSUME NEW c, call[c] \in CallStates, NEW w \in Bets \cup {"open", "unresolvable", "died"}
  PROVE  /\ Found(c, w) \in CallStates /\ Found(c, w).at = "decided" /\ Found(c, w).found = w
         /\ Alike(Found(c, w), call[c])
BY DEF CallStates, Found, Alike

NextBet(c, a, b) == [At(c, a) EXCEPT !.bet = b]

LEMMA NextBetShape ==
  ASSUME NEW c, call[c] \in CallStates, NEW a \in {"target", "candidate"}, NEW b \in Bets
  PROVE  /\ NextBet(c, a, b) \in CallStates /\ NextBet(c, a, b).at = a
         /\ NextBet(c, a, b).bet = b /\ Alike(NextBet(c, a, b), call[c])
BY DEF CallStates, NextBet, At, Alike

\* The facts about a call that a step of its process starts from.
LEMMA CallFacts ==
  ASSUME IInv, NEW c \in Calls
  PROVE  /\ call[c] \in CallStates
         /\ call[c].env \in Bets \cup {"none"}
         /\ call[c].at \in {"target", "candidate"} => call[c].bet \in Bets
         /\ EnvOnly(call[c]) /\ AfterClear(call[c]) /\ OfItsRun(call[c])
         /\ SeenMeansThere(call[c])
<1>1. call[c] \in CallStates
  BY DEF IInv, TypeOK
<1>2. call[c].env \in Bets \cup {"none"}
  BY <1>1 DEF CallStates
<1>3. QED
  BY <1>1, <1>2 DEF IInv, TypeOK, CallsOK

\* The run of a call that is its run's, as far as the call can see it.
LEMMA RunFacts ==
  ASSUME IInv, NEW c \in Calls, call[c].from # Outsider, call[c].from \in alone,
         call[c].vault
  PROVE  LET s == call[c].from IN
         /\ session[s].bet \in Bets
         /\ descriptor[session[s].bet] = "whole"
         /\ session[s].how # "env" => sentinel = session[s].bet
         /\ call[c].env = IF session[s].how = "env" THEN session[s].bet ELSE "none"
         /\ call[c].at \in {"start", "environment", "target", "decided"}
         /\ call[c].at = "target" => call[c].bet = session[s].bet
<1> DEFINE s == call[c].from
<1>1. s \in Sessions
  BY DEF IInv, TypeOK
<1>2. session[s].at = "running"
  BY CallFacts DEF OfItsRun
<1>3. session[s].bet \in Bets
  BY <1>1, <1>2 DEF IInv, TypeOK
<1>4. AloneRun(s)
  BY DEF IInv, Alone
<1>5. QED
  BY <1>2, <1>3, <1>4, CallFacts DEF AloneRun, OfItsRun

LEMMA LookKeeps ==
  ASSUME IInv, NEW c \in Calls, Look(c)
  PROVE  IInv'
<1> DEFINE y == call[c]
<1>0. y \in CallStates /\ EnvOnly(y) /\ AfterClear(y) /\ OfItsRun(y) /\ SeenMeansThere(y)
      /\ y.env \in Bets \cup {"none"}
      /\ (y.at \in {"target", "candidate"} => y.bet \in Bets)
  BY CallFacts
<1>a. descriptor \in [Bets -> Kept]
  BY DEF IInv, TypeOK
<1>b. ASSUME y.from # Outsider, y.from \in alone, y.vault
      PROVE  /\ session[y.from].bet \in Bets
             /\ descriptor[session[y.from].bet] = "whole"
             /\ session[y.from].how # "env" => sentinel = session[y.from].bet
             /\ y.env = IF session[y.from].how = "env" THEN session[y.from].bet ELSE "none"
             /\ y.at \in {"start", "environment", "target", "decided"}
             /\ y.at = "target" => y.bet = session[y.from].bet
  BY <1>b, RunFacts
<1>1. ASSUME NEW w \in Bets \cup {"open", "unresolvable", "died"}, call' = [call EXCEPT ![c] = Found(c, w)],
             UNCHANGED <<files, session, runs, alone, last, aborted>>,
             y.env # "none" => w \in {y.env, "unresolvable", "died"},
             y.env # "none" /\ w = "died" => y.lost,
             y.cleared /\ y.env = "none" => w = "open",
             y.from # Outsider /\ y.from \in alone /\ y.vault => w = session[y.from].bet
      PROVE  IInv'
  <2> DEFINE z == Found(c, w)
  <2>1. z \in CallStates /\ z.at = "decided" /\ z.found = w
        /\ z.from = y.from /\ z.env = y.env /\ z.vault = y.vault /\ z.cleared = y.cleared
        /\ z.lost = y.lost
    BY <1>0, FoundShape DEF Alike
  <2>2. EnvOnly(z)
    BY <2>1, <1>1 DEF EnvOnly
  <2>3. AfterClear(z)
    BY <2>1, <1>0, <1>1 DEF AfterClear
  <2>4. OfItsRun(z)
    BY <2>1, <1>0, <1>1, <1>b DEF OfItsRun
  <2>5. z.at \notin {"target", "candidate"} /\ SeenMeansThere(z)
    BY <2>1, <1>1 DEF SeenMeansThere
  <2> HIDE DEF z
  <2>6. call' = [call EXCEPT ![c] = z]
    BY <1>1 DEF z
  <2>7. QED
    BY <2>1, <2>2, <2>3, <2>4, <2>5, <2>6, <1>1, CallStep
<1>2. ASSUME NEW a \in {"environment", "tombstone", "glob"}, call' = [call EXCEPT ![c] = At(c, a)],
             UNCHANGED <<files, session, runs, alone, last, aborted>>,
             (a = "environment") <=> (y.env # "none"),
             a = "environment" => descriptor[y.env] # "none",
             y.cleared /\ y.env = "none" => a = "tombstone",
             y.from # Outsider /\ y.from \in alone /\ y.vault => a = "environment"
      PROVE  IInv'
  <2> DEFINE z == At(c, a)
  <2>1. z \in CallStates /\ z.at = a
        /\ z.from = y.from /\ z.env = y.env /\ z.vault = y.vault /\ z.cleared = y.cleared
        /\ z.lost = y.lost
    BY <1>0, AtShape DEF Alike
  <2>2. EnvOnly(z)
    BY <2>1, <1>2 DEF EnvOnly
  <2>3. AfterClear(z)
    BY <2>1, <1>0, <1>2 DEF AfterClear
  <2>4. OfItsRun(z)
    BY <2>1, <1>0, <1>2, <1>b DEF OfItsRun
  <2>5. z.at \notin {"target", "candidate"} /\ SeenMeansThere(z)
    BY <2>1, <1>2 DEF SeenMeansThere
  <2> HIDE DEF z
  <2>6. call' = [call EXCEPT ![c] = z]
    BY <1>2 DEF z
  <2>7. QED
    BY <2>1, <2>2, <2>3, <2>4, <2>5, <2>6, <1>2, CallStep
<1>3. ASSUME NEW a \in {"target", "candidate"}, NEW b \in Bets,
             call' = [call EXCEPT ![c] = [At(c, a) EXCEPT !.bet = b]],
             UNCHANGED <<files, session, runs, alone, last, aborted>>,
             y.env = "none", ~y.cleared,
             y.from # Outsider /\ y.from \in alone /\ y.vault
               => a = "target" /\ b = session[y.from].bet
      PROVE  IInv'
  <2> DEFINE z == NextBet(c, a, b)
  <2>1. z \in CallStates /\ z.at = a /\ z.bet = b
        /\ z.from = y.from /\ z.env = y.env /\ z.vault = y.vault /\ z.cleared = y.cleared
        /\ z.lost = y.lost
    BY <1>0, NextBetShape DEF Alike
  <2>2. EnvOnly(z)
    BY <2>1, <1>3 DEF EnvOnly
  <2>3. AfterClear(z)
    BY <2>1, <1>0, <1>3 DEF AfterClear
  <2>4. OfItsRun(z)
    BY <2>1, <1>0, <1>3, <1>b DEF OfItsRun
  <2>5. SeenMeansThere(z)
    BY <2>1 DEF SeenMeansThere
  <2> HIDE DEF z
  <2>6. call' = [call EXCEPT ![c] = z]
    BY <1>3 DEF z, NextBet
  <2>7. QED
    BY <2>1, <2>2, <2>3, <2>4, <2>5, <2>6, <1>3, CallStep
<1>n. \A b \in Bets : b \notin {"none", "torn", "open", "unresolvable", "died"}
  BY Names
<1> HIDE DEF y
<1>4. CASE EnvLook(c)
  <2>1. y.env # "none" /\ y.at = "start"
    BY <1>4 DEF EnvLook, Reads, y
  <2>2. CASE y.vault /\ descriptor[y.env] # "none"
    <3>1. call' = [call EXCEPT ![c] = At(c, "environment")]
          /\ UNCHANGED <<files, session, runs, alone, last, aborted>>
      BY <2>2, <1>4 DEF EnvLook, Reads, y
    <3>2. QED
      BY <3>1, <2>1, <2>2, <1>2
  <2>3. CASE ~(y.vault /\ descriptor[y.env] # "none")
    <3>1. call' = [call EXCEPT ![c] = Found(c, "unresolvable")]
          /\ UNCHANGED <<files, session, runs, alone, last, aborted>>
      BY <2>3, <1>4 DEF EnvLook, Reads, y
    <3>2. ~(y.from # Outsider /\ y.from \in alone /\ y.vault)
      BY <2>3, <2>1, <1>b, <1>n
    <3>3. QED
      BY <3>1, <3>2, <2>1, <1>1, <1>n
  <2>4. QED
    BY <2>2, <2>3
<1>5. CASE EnvRead(c)
  <2> DEFINE w == CASE descriptor[call[c].env] = "whole" -> call[c].env
                    [] descriptor[call[c].env] = "torn" -> "unresolvable"
                    [] OTHER -> "died"
  <2>1. y.at = "environment" /\ call' = [call EXCEPT ![c] = Found(c, w)]
        /\ UNCHANGED <<files, session, runs, alone, last, aborted>>
    BY <1>5 DEF EnvRead, Reads, y
  <2>2. y.env \in Bets
    BY <2>1, <1>0 DEF EnvOnly
  <2>3. w \in {y.env, "unresolvable", "died"} /\ (descriptor[y.env] = "whole" => w = y.env)
    BY DEF y
  <2>6. w = "died" => y.lost
    <3>1. descriptor[y.env] \in Kept
      BY <2>2, <1>a
    <3>2. w = "died" => descriptor[y.env] = "none"
      BY <3>1, <2>2, <1>n DEF Kept, y
    <3>3. QED
      BY <3>2, <2>1, <1>0 DEF SeenMeansThere
  <2>4. y.from # Outsider /\ y.from \in alone /\ y.vault => w = session[y.from].bet
    BY <2>2, <2>3, <1>b, <1>n
  <2> HIDE DEF w
  <2>5. QED
    BY <2>1, <2>2, <2>3, <2>4, <2>6, <1>1, <1>n
<1>6. CASE OutsideVault(c)
  <2>1. y.env = "none" /\ ~y.vault /\ call' = [call EXCEPT ![c] = Found(c, "open")]
        /\ UNCHANGED <<files, session, runs, alone, last, aborted>>
    BY <1>6 DEF OutsideVault, Reads, y
  <2>2. QED
    BY <2>1, <1>1
<1>7. CASE SentinelRead(c)
  <2>1. y.env = "none" /\ y.vault /\ y.at = "start"
    BY <1>7 DEF SentinelRead, Reads, y
  <2>2. CASE sentinel \in Bets
    <3>1. call' = [call EXCEPT ![c] = [At(c, "target") EXCEPT !.bet = sentinel]]
          /\ UNCHANGED <<files, session, runs, alone, last, aborted>>
      BY <2>2, <1>7 DEF SentinelRead, Reads, y
    <3>2. ~y.cleared
      BY <2>2, <1>0, <1>n DEF AfterClear
    <3>3. y.from # Outsider /\ y.from \in alone /\ y.vault => sentinel = session[y.from].bet
      BY <2>1, <1>b, <1>n
    <3>4. QED
      BY <3>1, <3>2, <3>3, <2>1, <2>2, <1>3
  <2>3. CASE sentinel \notin Bets
    <3>1. call' = [call EXCEPT ![c] = At(c, "tombstone")]
          /\ UNCHANGED <<files, session, runs, alone, last, aborted>>
      BY <2>3, <1>7 DEF SentinelRead, Reads, y
    <3>2. ~(y.from # Outsider /\ y.from \in alone)
      BY <2>1, <2>3, <1>b, <1>n
    <3>3. QED
      BY <3>1, <3>2, <2>1, <1>2
  <2>4. QED
    BY <2>2, <2>3
<1>8. CASE TargetRead(c)
  <2>1. y.at = "target" /\ y.bet \in Bets /\ y.env = "none"
    BY <1>8, <1>0 DEF TargetRead, Reads, EnvOnly, y
  <2>2. ~y.cleared
    BY <2>1, <1>0 DEF AfterClear
  <2>3. CASE descriptor[y.bet] = "whole"
    <3>1. call' = [call EXCEPT ![c] = Found(c, y.bet)]
          /\ UNCHANGED <<files, session, runs, alone, last, aborted>>
      BY <2>3, <1>8 DEF TargetRead, Reads, y
    <3>2. QED
      BY <3>1, <2>1, <2>2, <1>1, <1>b
  <2>4. CASE descriptor[y.bet] # "whole"
    <3>1. call' = [call EXCEPT ![c] = At(c, "tombstone")]
          /\ UNCHANGED <<files, session, runs, alone, last, aborted>>
      BY <2>4, <1>8 DEF TargetRead, Reads, y
    <3>2. QED
      BY <3>1, <2>1, <2>4, <1>2, <1>b
  <2>5. QED
    BY <2>3, <2>4
<1>9. CASE TombstoneLook(c)
  <2>1. y.at = "tombstone" /\ y.env = "none"
    BY <1>9, <1>0 DEF TombstoneLook, Reads, EnvOnly, y
  <2>2. ~(y.from # Outsider /\ y.from \in alone /\ y.vault)
    BY <2>1, <1>b
  <2>3. CASE tombstone
    <3>1. call' = [call EXCEPT ![c] = Found(c, "open")]
          /\ UNCHANGED <<files, session, runs, alone, last, aborted>>
      BY <2>3, <1>9 DEF TombstoneLook, Reads
    <3>2. QED
      BY <3>1, <2>1, <2>2, <1>1
  <2>4. CASE ~tombstone
    <3>1. call' = [call EXCEPT ![c] = At(c, "glob")]
          /\ UNCHANGED <<files, session, runs, alone, last, aborted>>
      BY <2>4, <1>9 DEF TombstoneLook, Reads
    <3>2. ~y.cleared
      BY <2>4, <1>0 DEF AfterClear
    <3>3. QED
      BY <3>1, <3>2, <2>1, <2>2, <1>2
  <2>5. QED
    BY <2>3, <2>4
<1>10. CASE Glob(c)
  <2>1. y.at = "glob" /\ y.env = "none"
    BY <1>10, <1>0 DEF Glob, Reads, EnvOnly, y
  <2>2. ~(y.from # Outsider /\ y.from \in alone /\ y.vault) /\ ~y.cleared
    BY <2>1, <1>b, <1>0 DEF AfterClear
  <2>3. UNCHANGED <<files, session, runs, alone, last, aborted>>
    BY <1>10 DEF Glob, Reads
  <2>4. CASE \E b \in Bets : call' = [call EXCEPT ![c] = [At(c, "candidate") EXCEPT !.bet = b]]
    BY <2>4, <2>1, <2>2, <2>3, <1>3
  <2>5. CASE call' = [call EXCEPT ![c] = Found(c, "open")]
    BY <2>5, <2>1, <2>2, <2>3, <1>1
  <2>6. QED
    BY <1>10, <2>4, <2>5 DEF Glob, Reads
<1>11. CASE CandidateRead(c)
  <2> DEFINE w == CASE descriptor[call[c].bet] = "whole" -> call[c].bet
                    [] descriptor[call[c].bet] = "torn" -> "open"
                    [] OTHER -> "died"
  <2>1. y.at = "candidate" /\ call' = [call EXCEPT ![c] = Found(c, w)]
        /\ UNCHANGED <<files, session, runs, alone, last, aborted>>
    BY <1>11 DEF CandidateRead, Reads, y
  <2>2. y.env = "none" /\ y.bet \in Bets
    BY <2>1, <1>0 DEF EnvOnly
  <2>3. ~(y.from # Outsider /\ y.from \in alone /\ y.vault) /\ ~y.cleared
    BY <2>1, <2>2, <1>b, <1>0 DEF AfterClear
  <2>4. w \in {y.bet, "open", "died"}
    BY DEF y
  <2> HIDE DEF w
  <2>5. QED
    BY <2>1, <2>2, <2>3, <2>4, <1>1
<1>12. QED
  BY <1>4, <1>5, <1>6, <1>7, <1>8, <1>9, <1>10, <1>11 DEF Look
LEMMA StartKeeps ==
  ASSUME IInv, NEW c \in Calls, NEW from \in Sessions \cup {Outsider}, NEW vault \in BOOLEAN,
         Start(c, from, vault)
  PROVE  IInv'
<1> DEFINE e == IF from # Outsider /\ session[from].how = "env" THEN session[from].bet ELSE "none"
           cl == (last = "clear")
           x == [NoCall EXCEPT !.at = "start", !.from = from, !.vault = vault,
                               !.env = e, !.cleared = cl]
<1>1. call' = [call EXCEPT ![c] = x] /\ UNCHANGED <<files, session, runs, alone, last, aborted>>
      /\ (from # Outsider => session[from].at = "running")
  BY DEF Start
<1>2. e \in Bets \cup {"none"}
  BY DEF IInv, TypeOK, RunStates
<1>3. cl \in BOOLEAN
  OBVIOUS
<1>m. cl => sentinel = "none" /\ tombstone /\ last \in {"clearing", "clear"}
  BY DEF IInv, Marks
<1>h. from # Outsider => e = IF session[from].how = "env" THEN session[from].bet ELSE "none"
  OBVIOUS
<1> HIDE DEF e, cl
<1>4. x \in CallStates /\ x.at = "start" /\ x.from = from /\ x.vault = vault
      /\ x.env = e /\ x.cleared = cl
  BY <1>2, <1>3 DEF NoCall, CallStates
<1> HIDE DEF x
<1>5. EnvOnly(x)
  BY <1>4 DEF EnvOnly
<1>6. AfterClear(x)
  BY <1>4, <1>m DEF AfterClear
<1>7. OfItsRun(x)
  BY <1>4, <1>1, <1>h DEF OfItsRun
<1>8. x.at \notin {"target", "candidate"} /\ SeenMeansThere(x)
  BY <1>4 DEF SeenMeansThere
<1>9. QED
  BY <1>1, <1>4, <1>5, <1>6, <1>7, <1>8, CallStep

-------------------------------------------------------------------------------
(* The steps of a session.                                                 *)

\* The calls of the other sessions stay, but for what they know of a `clear`.
Kin(x, y) ==
  /\ x.at = y.at /\ x.from = y.from /\ x.env = y.env /\ x.vault = y.vault
  /\ x.bet = y.bet /\ x.found = y.found
  /\ x.cleared => y.cleared
  /\ y.lost => x.lost

\* The calls after a step of session s.
CallsAfter(s) ==
  /\ call' \in [Calls -> CallStates]
  /\ \A c \in Calls : call'[c] = NoCall \/ (call[c].from # s /\ Kin(call'[c], call[c]))

\* A descriptor that is removed is lost by those who have seen it.
LostIfGone(c) ==
  call'[c].at = "environment" /\ descriptor[call'[c].env] # "none"
    => call'[c].lost \/ descriptor'[call'[c].env] # "none"

LEMMA NoCallsLeft ==
  ASSUME IInv, NEW s \in Sessions, session[s].at # "running", call' = call
  PROVE  CallsAfter(s)
<1>1. call \in [Calls -> CallStates]
  BY DEF IInv, TypeOK
<1>2. ASSUME NEW c \in Calls PROVE call[c].from # s
  BY Names DEF IInv, CallsOK, OfItsRun
<1>3. QED
  BY <1>1, <1>2 DEF CallsAfter, Kin

LEMMA CallsTaken ==
  ASSUME IInv, NEW s \in Sessions, call' = WithoutCallsOf(s)
  PROVE  CallsAfter(s)
<1>1. call \in [Calls -> CallStates]
  BY DEF IInv, TypeOK
<1>2. ASSUME NEW c \in Calls
      PROVE  /\ call'[c] \in CallStates
             /\ call'[c] = NoCall \/ (call[c].from # s /\ Kin(call'[c], call[c]))
  BY <1>1, NoCallOK DEF WithoutCallsOf, Kin
<1>3. call' \in [Calls -> CallStates]
  BY <1>2 DEF WithoutCallsOf
<1>4. QED
  BY <1>2, <1>3 DEF CallsAfter

LEMMA CallsStay ==
  ASSUME IInv, NEW s \in Sessions, CallsAfter(s), alone' \subseteq alone \cup {s},
         \A t \in Sessions \ {s} : session'[t] = session[t],
         \/ \A c \in Calls : ~call'[c].cleared
         \/ /\ sentinel = "none" /\ tombstone /\ last \in {"clearing", "clear"}
               => sentinel' = "none" /\ tombstone' /\ last' \in {"clearing", "clear"},
         \A c \in Calls : LostIfGone(c)
  PROVE  /\ CallsOK'
         /\ \A c \in Calls : call'[c].at \in {"target", "candidate"} => call'[c].bet \in Bets
<1> SUFFICES ASSUME NEW c \in Calls
             PROVE  /\ EnvOnly(call'[c]) /\ AfterClear(call[c])' /\ OfItsRun(call[c])'
                    /\ SeenMeansThere(call[c])'
                    /\ call'[c].at \in {"target", "candidate"} => call'[c].bet \in Bets
  BY DEF CallsOK, EnvOnly
<1>1. CASE call'[c] = NoCall
  BY <1>1, NoCallOK DEF AfterClear, OfItsRun, SeenMeansThere
<1>2. CASE call[c].from # s /\ Kin(call'[c], call[c])
  <2>1. EnvOnly(call[c]) /\ AfterClear(call[c]) /\ OfItsRun(call[c])
        /\ (call[c].at \in {"target", "candidate"} => call[c].bet \in Bets)
        /\ SeenMeansThere(call[c])
    BY CallFacts
  <2>2. EnvOnly(call'[c]) /\ (call'[c].at \in {"target", "candidate"} => call'[c].bet \in Bets)
    BY <2>1, <1>2 DEF Kin, EnvOnly
  <2>3. AfterClear(call[c])'
    BY <2>1, <1>2 DEF Kin, AfterClear
  <2>4. OfItsRun(call[c])'
    <3>1. SUFFICES ASSUME call[c].from # Outsider PROVE OfItsRun(call[c])'
      BY <1>2 DEF Kin, OfItsRun
    <3>2. call[c].from \in Sessions \ {s}
      BY <3>1, <1>2 DEF IInv, TypeOK, CallStates
    <3>3. session'[call[c].from] = session[call[c].from]
          /\ (call[c].from \in alone' => call[c].from \in alone)
      BY <3>2
    <3>4. QED
      BY <3>3, <2>1, <1>2 DEF Kin, OfItsRun
  <2>5. SeenMeansThere(call[c])'
    BY <2>1, <1>2 DEF Kin, SeenMeansThere, LostIfGone
  <2>6. QED
    BY <2>2, <2>3, <2>4, <2>5
<1>3. QED
  BY <1>1, <1>2 DEF CallsAfter

\* A step of session s changes no other session and leaves every variable its type.
Moves(s) ==
  /\ session' \in [Sessions -> RunStates]
  /\ \A t \in Sessions \ {s} : session'[t] = session[t]
  /\ session'[s].at # "idle" => session'[s].bet \in Bets
  /\ descriptor' \in [Bets -> Kept]
  /\ sentinel' \in Bets \cup {"none", "torn"}
  /\ tombstone' \in BOOLEAN
  /\ runs' \in 0 .. MaxRuns
  /\ last' \in {"none", "set", "clearing", "clear"}
  /\ aborted' \in BOOLEAN
  /\ alone' \subseteq alone \cup {s}

LEMMA Assemble ==
  ASSUME IInv, NEW s \in Sessions, Moves(s), CallsAfter(s),
         \/ \A c \in Calls : ~call'[c].cleared
         \/ /\ sentinel = "none" /\ tombstone /\ last \in {"clearing", "clear"}
               => sentinel' = "none" /\ tombstone' /\ last' \in {"clearing", "clear"},
         \A c \in Calls : LostIfGone(c),
         Marks', Alone', Owned'
  PROVE  IInv'
<1>1. CallsOK' /\ \A c \in Calls : call'[c].at \in {"target", "candidate"} => call'[c].bet \in Bets
  BY CallsStay DEF Moves
<1>2. \A t \in Sessions : session'[t].at # "idle" => session'[t].bet \in Bets
  BY DEF Moves, IInv, TypeOK
<1>3. alone' \subseteq Sessions
  BY DEF Moves, IInv, TypeOK
<1>4. TypeOK'
  BY <1>1, <1>2, <1>3 DEF Moves, CallsAfter, TypeOK
<1>5. QED
  BY <1>1, <1>4 DEF IInv

LEMMA Types ==
  ASSUME IInv
  PROVE  /\ descriptor \in [Bets -> Kept] /\ sentinel \in Bets \cup {"none", "torn"}
         /\ tombstone \in BOOLEAN /\ session \in [Sessions -> RunStates]
         /\ runs \in 0 .. MaxRuns /\ alone \subseteq Sessions
         /\ last \in {"none", "set", "clearing", "clear"} /\ aborted \in BOOLEAN
         /\ \A s \in Sessions : session[s].at # "idle" => session[s].bet \in Bets
         /\ Marks /\ Alone /\ Owned
BY DEF IInv, TypeOK

LEMMA GoesFacts ==
  ASSUME IInv, NEW s \in Sessions, NEW from \in Steps \ {"idle"}, NEW to \in Steps,
         Goes(s, from, to)
  PROVE  /\ session[s].at = from /\ session' \in [Sessions -> RunStates]
         /\ session'[s].at = to /\ session'[s].bet = session[s].bet
         /\ session'[s].how = session[s].how /\ session[s].bet \in Bets
         /\ \A t \in Sessions \ {s} : session'[t] = session[t]
<1>1. session \in [Sessions -> RunStates] /\ session[s] \in RunStates
  BY Types
<1>2. [session[s] EXCEPT !.at = to] \in RunStates
  BY <1>1 DEF RunStates
<1>3. session' = [session EXCEPT ![s] = [session[s] EXCEPT !.at = to]] /\ session[s].at = from
  BY DEF Goes
<1>4. session' \in [Sessions -> RunStates] /\ session'[s] = [session[s] EXCEPT !.at = to]
      /\ \A t \in Sessions \ {s} : session'[t] = session[t]
  BY <1>1, <1>2, <1>3
<1>5. session'[s].at = to /\ session'[s].bet = session[s].bet /\ session'[s].how = session[s].how
  BY <1>1, <1>4 DEF RunStates
<1>6. session[s].bet \in Bets
  BY <1>3, Types
<1>7. QED
  BY <1>3, <1>4, <1>5, <1>6

\* A step that removes no descriptor and ends no call.
LEMMA NoneRemoved ==
  ASSUME IInv,
         \A c \in Calls : call'[c].at = call[c].at /\ call'[c].env = call[c].env,
         \/ descriptor' = descriptor
         \/ \E b \in Bets, w \in {"torn", "whole"} : descriptor' = [descriptor EXCEPT ![b] = w]
  PROVE  \A c \in Calls : LostIfGone(c)
<1> SUFFICES ASSUME NEW c \in Calls, call'[c].at = "environment", descriptor[call'[c].env] # "none"
             PROVE  descriptor'[call'[c].env] # "none"
  BY DEF LostIfGone
<1>1. call'[c].env \in Bets
  BY CallFacts, NoCallOK DEF EnvOnly
<1>2. QED
  BY <1>1, Types

LEMMA TakenLoseNone ==
  ASSUME IInv, NEW s \in Sessions, call' = WithoutCallsOf(s), descriptor' = descriptor
  PROVE  \A c \in Calls : LostIfGone(c)
BY DEF LostIfGone

LEMMA DescribeKeeps ==
  ASSUME IInv, NEW s \in Sessions, NEW b \in Bets, NEW how \in {"sentinel", "env", "dry"},
         Describe(s, b, how)
  PROVE  IInv'
<1> DEFINE x == [at |-> "describing", bet |-> b, how |-> how]
<1>1. x \in RunStates /\ x.at = "describing" /\ x.bet = b
  BY DEF RunStates, Steps
<1>2. session[s].at = "idle" /\ session' = [session EXCEPT ![s] = x]
      /\ UNCHANGED <<sentinel, tombstone, call, last, aborted>>
      /\ runs < MaxRuns /\ runs' = runs + 1
      /\ descriptor' = [descriptor EXCEPT ![b] = "torn"]
      /\ alone' = IF UnderWay = {} THEN {s} ELSE {}
  BY DEF Describe
<1> HIDE DEF x
<1>3. session' \in [Sessions -> RunStates] /\ session'[s] = x
      /\ \A t \in Sessions \ {s} : session'[t] = session[t]
  BY <1>1, <1>2, Types
<1>4. Moves(s)
  <2>1. runs' \in 0 .. MaxRuns
    BY <1>2, Types, Names
  <2>2. descriptor' \in [Bets -> Kept]
    BY <1>2, Types DEF Kept
  <2>3. QED
    BY <1>1, <1>2, <1>3, <2>1, <2>2, Types DEF Moves
<1>5. CallsAfter(s) /\ \A c \in Calls : LostIfGone(c)
  BY <1>2, NoCallsLeft, NoneRemoved
<1>6. Marks'
  BY <1>1, <1>2, <1>3, Types DEF Marks
<1>7. Alone'
  <2>1. CASE UnderWay = {}
    <3>1. alone' = {s} /\ \A t \in Sessions \ {s} : session'[t].at = "idle"
      BY <2>1, <1>2, <1>3 DEF UnderWay
    <3>2. QED
      BY <3>1, <1>1, <1>3 DEF Alone, AloneRun
  <2>2. CASE UnderWay # {}
    BY <2>2, <1>2 DEF Alone
  <2>3. QED
    BY <2>1, <2>2
<1>8. Owned'
  <2>1. ASSUME ~aborted', NEW d \in Bets, descriptor'[d] # "none"
        PROVE  \E t \in Sessions : session'[t].at # "idle" /\ session'[t].bet = d
    <3>1. CASE d = b
      BY <3>1, <1>1, <1>3
    <3>2. CASE d # b
      <4>1. descriptor[d] # "none" /\ ~aborted
        BY <2>1, <3>2, <1>2, Types
      <4>2. PICK t \in Sessions : session[t].at # "idle" /\ session[t].bet = d
        BY <4>1, Types DEF Owned
      <4>3. QED
        BY <4>2, <1>2, <1>3
    <3>3. QED
      BY <3>1, <3>2
  <2>2. ASSUME ~aborted', sentinel' # "none"
        PROVE  \E t \in Sessions : session'[t].at \in {"marking", "marked", "running"}
    <3>1. PICK t \in Sessions : session[t].at \in {"marking", "marked", "running"}
      BY <2>2, <1>2, Types DEF Owned
    <3>2. QED
      BY <3>1, <1>2, <1>3
  <2>3. QED
    BY <2>1, <2>2 DEF Owned
<1>9. QED
  BY <1>2, <1>4, <1>5, <1>6, <1>7, <1>8, Assemble
\* A run that goes on still owns what it owned; one that ends leaves nothing of its own.
LEMMA StillOwned ==
  ASSUME IInv, NEW s \in Sessions, ~aborted,
         session[s].at # "idle",
         \A t \in Sessions \ {s} : session'[t] = session[t],
         \A b \in Bets : b # session[s].bet => descriptor'[b] = descriptor[b],
         \/ session'[s].at # "idle" /\ session'[s].bet = session[s].bet
         \/ descriptor'[session[s].bet] = "none"
  PROVE  \A b \in Bets : descriptor'[b] # "none" =>
           \E t \in Sessions : session'[t].at # "idle" /\ session'[t].bet = b
<1> SUFFICES ASSUME NEW b \in Bets, descriptor'[b] # "none"
             PROVE  \E t \in Sessions : session'[t].at # "idle" /\ session'[t].bet = b
  OBVIOUS
<1>1. CASE b = session[s].bet
  BY <1>1
<1>2. CASE b # session[s].bet
  <2>1. PICK t \in Sessions : session[t].at # "idle" /\ session[t].bet = b
    BY <1>2, Types DEF Owned
  <2>2. QED
    BY <2>1, <1>2
<1>3. QED
  BY <1>1, <1>2

LEMMA SentinelOwned ==
  ASSUME IInv, NEW s \in Sessions, ~aborted, sentinel # "none",
         \A t \in Sessions \ {s} : session'[t] = session[t],
         session[s].at \in {"marking", "marked", "running"}
           => session'[s].at \in {"marking", "marked", "running"}
  PROVE  \E t \in Sessions : session'[t].at \in {"marking", "marked", "running"}
<1>1. PICK t \in Sessions : session[t].at \in {"marking", "marked", "running"}
  BY Types DEF Owned
<1>2. CASE t = s
  BY <1>1, <1>2
<1>3. CASE t # s
  BY <1>1, <1>3
<1>4. QED
  BY <1>2, <1>3

LEMMA DescribedKeeps ==
  ASSUME IInv, NEW s \in Sessions, Described(s)
  PROVE  IInv'
<1> DEFINE to == IF session[s].how = "env" THEN "running" ELSE "described"
<1>1. Goes(s, "describing", to) /\ descriptor' = [descriptor EXCEPT ![session[s].bet] = "whole"]
      /\ UNCHANGED <<sentinel, tombstone, runs, call, alone, last, aborted>>
  BY DEF Described
<1>2. to \in Steps /\ to \in {"running", "described"} /\ (to = "running" => session[s].how = "env")
  BY DEF Steps
<1> HIDE DEF to
<1>3. /\ session[s].at = "describing" /\ session' \in [Sessions -> RunStates]
      /\ session'[s].at = to /\ session'[s].bet = session[s].bet
      /\ session'[s].how = session[s].how /\ session[s].bet \in Bets
      /\ \A t \in Sessions \ {s} : session'[t] = session[t]
  BY <1>1, <1>2, GoesFacts DEF Steps
<1>4. descriptor' \in [Bets -> Kept] /\ descriptor'[session[s].bet] = "whole"
      /\ \A b \in Bets : b # session[s].bet => descriptor'[b] = descriptor[b]
  BY <1>1, <1>3, Types DEF Kept
<1>5. Moves(s)
  BY <1>1, <1>3, <1>4, Types DEF Moves
<1>6. CallsAfter(s) /\ \A c \in Calls : LostIfGone(c)
  BY <1>1, <1>3, NoCallsLeft, NoneRemoved
<1>7. Marks'
  BY <1>1, <1>2, <1>3, Types DEF Marks
<1>8. Alone'
  <2>1. ASSUME NEW a \in alone PROVE AloneRun(a)'
    <3>1. AloneRun(a) /\ a \in Sessions
      BY Types DEF Alone
    <3>2. a = s
      BY <3>1, <1>3 DEF AloneRun
    <3>3. QED
      BY <3>1, <3>2, <1>2, <1>3, <1>4 DEF AloneRun
  <2>2. QED
    BY <2>1, <1>1 DEF Alone
<1>9. Owned'
  <2>1. ASSUME ~aborted PROVE \A b \in Bets : descriptor'[b] # "none" =>
           \E t \in Sessions : session'[t].at # "idle" /\ session'[t].bet = b
    BY <2>1, <1>2, <1>3, <1>4, StillOwned
  <2>2. ASSUME ~aborted, sentinel # "none"
        PROVE  \E t \in Sessions : session'[t].at \in {"marking", "marked", "running"}
    BY <2>2, <1>3, SentinelOwned
  <2>3. QED
    BY <2>1, <2>2, <1>1 DEF Owned
<1>10. QED
  BY <1>1, <1>5, <1>6, <1>7, <1>8, <1>9, Assemble

LEMMA MarkKeeps ==
  ASSUME IInv, NEW s \in Sessions, Mark(s)
  PROVE  IInv'
<1>1. Goes(s, "described", "marking") /\ sentinel' = "torn" /\ last' = "set"
      /\ call' = [c \in Calls |-> [call[c] EXCEPT !.cleared = FALSE]]
      /\ UNCHANGED <<descriptor, tombstone, runs, alone, aborted>>
  BY DEF Mark
<1>3. /\ session[s].at = "described" /\ session' \in [Sessions -> RunStates]
      /\ session'[s].at = "marking" /\ session'[s].bet = session[s].bet
      /\ session'[s].how = session[s].how /\ session[s].bet \in Bets
      /\ \A t \in Sessions \ {s} : session'[t] = session[t]
  BY <1>1, GoesFacts DEF Steps
<1>5. Moves(s)
  BY <1>1, <1>3, Types DEF Moves
<1>n. \A c \in Calls : LostIfGone(c)
  BY <1>1 DEF LostIfGone
<1>6. CallsAfter(s) /\ \A c \in Calls : ~call'[c].cleared
  <2>1. ASSUME NEW c \in Calls
        PROVE  /\ call'[c] \in CallStates /\ ~call'[c].cleared
               /\ call[c].from # s /\ Kin(call'[c], call[c])
    <3>1. call[c] \in CallStates /\ OfItsRun(call[c])
      BY CallFacts
    <3>2. call'[c] = [call[c] EXCEPT !.cleared = FALSE]
      BY <1>1
    <3>3. call'[c] \in CallStates /\ ~call'[c].cleared /\ Kin(call'[c], call[c])
      BY <3>1, <3>2 DEF CallStates, Kin
    <3>4. call[c].from # s
      BY <3>1, <1>3, Names DEF OfItsRun
    <3>5. QED
      BY <3>3, <3>4
  <2>2. call' \in [Calls -> CallStates]
    BY <2>1, <1>1
  <2>3. QED
    BY <2>1, <2>2 DEF CallsAfter
<1>7. Marks'
  BY <1>1 DEF Marks
<1>8. Alone'
  <2>1. ASSUME NEW a \in alone PROVE AloneRun(a)'
    <3>1. AloneRun(a) /\ a \in Sessions
      BY Types DEF Alone
    <3>2. a = s
      BY <3>1, <1>3 DEF AloneRun
    <3>3. QED
      BY <3>1, <3>2, <1>1, <1>3 DEF AloneRun
  <2>2. QED
    BY <2>1, <1>1 DEF Alone
<1>9. Owned'
  <2>1. ASSUME ~aborted PROVE \A b \in Bets : descriptor'[b] # "none" =>
           \E t \in Sessions : session'[t].at # "idle" /\ session'[t].bet = b
    BY <2>1, <1>1, <1>3, StillOwned
  <2>2. \E t \in Sessions : session'[t].at \in {"marking", "marked", "running"}
    BY <1>3
  <2>3. QED
    BY <2>1, <2>2, <1>1 DEF Owned
<1>10. QED
  BY <1>5, <1>6, <1>n, <1>7, <1>8, <1>9, Assemble

LEMMA MarkedKeeps ==
  ASSUME IInv, NEW s \in Sessions, Marked(s)
  PROVE  IInv'
<1>1. Goes(s, "marking", "marked") /\ sentinel' = session[s].bet
      /\ UNCHANGED <<descriptor, tombstone, runs, call, alone, last, aborted>>
  BY DEF Marked
<1>3. /\ session[s].at = "marking" /\ session' \in [Sessions -> RunStates]
      /\ session'[s].at = "marked" /\ session'[s].bet = session[s].bet
      /\ session'[s].how = session[s].how /\ session[s].bet \in Bets
      /\ \A t \in Sessions \ {s} : session'[t] = session[t]
  BY <1>1, GoesFacts DEF Steps
<1>4. last = "set"
  BY <1>3, Types DEF Marks
<1>5. Moves(s)
  BY <1>1, <1>3, Types DEF Moves
<1>6. CallsAfter(s) /\ \A c \in Calls : LostIfGone(c)
  BY <1>1, <1>3, NoCallsLeft, NoneRemoved
<1>7. Marks'
  BY <1>1, <1>4 DEF Marks
<1>8. Alone'
  <2>1. ASSUME NEW a \in alone PROVE AloneRun(a)'
    <3>1. AloneRun(a) /\ a \in Sessions
      BY Types DEF Alone
    <3>2. a = s
      BY <3>1, <1>3 DEF AloneRun
    <3>3. QED
      BY <3>1, <3>2, <1>1, <1>3 DEF AloneRun
  <2>2. QED
    BY <2>1, <1>1 DEF Alone
<1>9. Owned'
  <2>1. ASSUME ~aborted PROVE \A b \in Bets : descriptor'[b] # "none" =>
           \E t \in Sessions : session'[t].at # "idle" /\ session'[t].bet = b
    BY <2>1, <1>1, <1>3, StillOwned
  <2>2. \E t \in Sessions : session'[t].at \in {"marking", "marked", "running"}
    BY <1>3
  <2>3. QED
    BY <2>1, <2>2, <1>1 DEF Owned
<1>10. QED
  BY <1>1, <1>4, <1>5, <1>6, <1>7, <1>8, <1>9, Assemble

LEMMA DropTombstoneKeeps ==
  ASSUME IInv, NEW s \in Sessions, DropTombstone(s)
  PROVE  IInv'
<1>1. Goes(s, "marked", "running") /\ tombstone' = FALSE
      /\ UNCHANGED <<descriptor, sentinel, runs, call, alone, last, aborted>>
  BY DEF DropTombstone
<1>3. /\ session[s].at = "marked" /\ session' \in [Sessions -> RunStates]
      /\ session'[s].at = "running" /\ session'[s].bet = session[s].bet
      /\ session'[s].how = session[s].how /\ session[s].bet \in Bets
      /\ \A t \in Sessions \ {s} : session'[t] = session[t]
  BY <1>1, GoesFacts DEF Steps
<1>4. last = "set"
  BY <1>3, Types DEF Marks
<1>5. Moves(s)
  BY <1>1, <1>3, Types DEF Moves
<1>6. CallsAfter(s) /\ \A c \in Calls : LostIfGone(c)
  BY <1>1, <1>3, NoCallsLeft, NoneRemoved
<1>7. Marks'
  BY <1>1, <1>4 DEF Marks
<1>8. Alone'
  <2>1. ASSUME NEW a \in alone PROVE AloneRun(a)'
    <3>1. AloneRun(a) /\ a \in Sessions
      BY Types DEF Alone
    <3>2. a = s
      BY <3>1, <1>3 DEF AloneRun
    <3>3. QED
      BY <3>1, <3>2, <1>1, <1>3 DEF AloneRun
  <2>2. QED
    BY <2>1, <1>1 DEF Alone
<1>9. Owned'
  <2>1. ASSUME ~aborted PROVE \A b \in Bets : descriptor'[b] # "none" =>
           \E t \in Sessions : session'[t].at # "idle" /\ session'[t].bet = b
    BY <2>1, <1>1, <1>3, StillOwned
  <2>2. \E t \in Sessions : session'[t].at \in {"marking", "marked", "running"}
    BY <1>3
  <2>3. QED
    BY <2>1, <2>2, <1>1 DEF Owned
<1>10. QED
  BY <1>1, <1>4, <1>5, <1>6, <1>7, <1>8, <1>9, Assemble
LEMMA UnmarkKeeps ==
  ASSUME IInv, NEW s \in Sessions, Unmark(s)
  PROVE  IInv'
<1> DEFINE marking == \E t \in Sessions : session[t].at \in {"marking", "marked"}
<1>1. Goes(s, "running", "unmarked") /\ sentinel' = "none" /\ call' = WithoutCallsOf(s)
      /\ last' = (IF marking THEN last ELSE "clearing")
      /\ UNCHANGED <<descriptor, tombstone, runs, alone, aborted>>
  BY DEF Unmark
<1>2. marking => last = "set"
  BY Types DEF Marks
<1>3. /\ session[s].at = "running" /\ session' \in [Sessions -> RunStates]
      /\ session'[s].at = "unmarked" /\ session'[s].bet = session[s].bet
      /\ session'[s].how = session[s].how /\ session[s].bet \in Bets
      /\ \A t \in Sessions \ {s} : session'[t] = session[t]
  BY <1>1, GoesFacts DEF Steps
<1>4. \A t \in Sessions : session'[t].at \in {"marking", "marked"} => marking
  BY <1>3
<1> HIDE DEF marking
<1>5. Moves(s)
  BY <1>1, <1>2, <1>3, Types DEF Moves
<1>6. CallsAfter(s) /\ \A c \in Calls : LostIfGone(c)
  BY <1>1, CallsTaken, TakenLoseNone
<1>7. Marks'
  <2>1. \A t \in Sessions : session'[t].at \in {"marking", "marked"} => last' = "set"
    BY <1>1, <1>2, <1>4
  <2>2. last' # "clear" \/ tombstone'
    BY <1>1, <1>2
  <2>3. QED
    BY <2>1, <2>2, <1>1 DEF Marks
<1>8. Alone'
  <2>1. ASSUME NEW a \in alone PROVE AloneRun(a)'
    <3>1. AloneRun(a) /\ a \in Sessions
      BY Types DEF Alone
    <3>2. a = s
      BY <3>1, <1>3 DEF AloneRun
    <3>3. QED
      BY <3>1, <3>2, <1>3 DEF AloneRun
  <2>2. QED
    BY <2>1, <1>1 DEF Alone
<1>9. Owned'
  <2>1. ASSUME ~aborted PROVE \A b \in Bets : descriptor'[b] # "none" =>
           \E t \in Sessions : session'[t].at # "idle" /\ session'[t].bet = b
    BY <2>1, <1>1, <1>3, StillOwned
  <2>2. QED
    BY <2>1, <1>1 DEF Owned
<1>10. last \in {"clearing", "clear"} => last' \in {"clearing", "clear"}
  BY <1>1, <1>2
<1>11. QED
  BY <1>1, <1>5, <1>6, <1>7, <1>8, <1>9, <1>10, Assemble

LEMMA WriteTombstoneKeeps ==
  ASSUME IInv, NEW s \in Sessions, NEW fails \in BOOLEAN, WriteTombstone(s, fails)
  PROVE  IInv'
<1>1. Goes(s, "unmarked", "cleared")
      /\ tombstone' = (tombstone \/ ~fails)
      /\ last' = (IF last = "clearing" /\ ~fails THEN "clear" ELSE last)
      /\ UNCHANGED <<descriptor, sentinel, runs, call, alone, aborted>>
  BY DEF WriteTombstone
<1>2. tombstone' \in BOOLEAN /\ (tombstone => tombstone') /\ (~fails => tombstone')
  BY <1>1, Types
<1>3. /\ session[s].at = "unmarked" /\ session' \in [Sessions -> RunStates]
      /\ session'[s].at = "cleared" /\ session'[s].bet = session[s].bet
      /\ session'[s].how = session[s].how /\ session[s].bet \in Bets
      /\ \A t \in Sessions \ {s} : session'[t] = session[t]
  BY <1>1, GoesFacts DEF Steps
<1>4. /\ last' \in {"none", "set", "clearing", "clear"}
      /\ last = "set" => last' = "set"
      /\ last' \in {"clearing", "clear"} <=> last \in {"clearing", "clear"}
      /\ last' = "clear" => last = "clear" \/ ~fails
  BY <1>1, Types
<1>5. Moves(s)
  BY <1>1, <1>2, <1>3, <1>4, Types DEF Moves
<1>6. CallsAfter(s) /\ \A c \in Calls : LostIfGone(c)
  BY <1>1, <1>3, NoCallsLeft, NoneRemoved
<1>7. Marks'
  <2>1. \A t \in Sessions : session'[t].at \in {"marking", "marked"} => last' = "set"
    BY <1>3, <1>4, Types DEF Marks
  <2>2. last' \in {"clearing", "clear"} => sentinel' = "none"
    BY <1>1, <1>4, Types DEF Marks
  <2>3. last' = "clear" => tombstone'
    BY <1>2, <1>4, Types DEF Marks
  <2>4. QED
    BY <2>1, <2>2, <2>3 DEF Marks
<1>8. Alone'
  <2>1. ASSUME NEW a \in alone PROVE AloneRun(a)'
    <3>1. AloneRun(a) /\ a \in Sessions
      BY Types DEF Alone
    <3>2. a = s
      BY <3>1, <1>3 DEF AloneRun
    <3>3. QED
      BY <3>1, <3>2, <1>3 DEF AloneRun
  <2>2. QED
    BY <2>1, <1>1 DEF Alone
<1>9. Owned'
  <2>1. ASSUME ~aborted PROVE \A b \in Bets : descriptor'[b] # "none" =>
           \E t \in Sessions : session'[t].at # "idle" /\ session'[t].bet = b
    BY <2>1, <1>1, <1>3, StillOwned
  <2>2. ASSUME ~aborted, sentinel # "none"
        PROVE  \E t \in Sessions : session'[t].at \in {"marking", "marked", "running"}
    BY <2>2, <1>3, SentinelOwned
  <2>3. QED
    BY <2>1, <2>2, <1>1 DEF Owned
<1>10. QED
  BY <1>1, <1>2, <1>4, <1>5, <1>6, <1>7, <1>8, <1>9, Assemble

\* The calls that have seen a descriptor lose it with its removal.
LEMMA CallsLose ==
  ASSUME IInv, NEW s \in Sessions, session[s].at # "running", session[s].bet \in Bets,
         call' = Lose(session[s].bet),
         \A b \in Bets : b # session[s].bet => descriptor'[b] = descriptor[b]
  PROVE  CallsAfter(s) /\ \A c \in Calls : LostIfGone(c)
<1>1. ASSUME NEW c \in Calls
      PROVE  /\ call'[c] \in CallStates /\ call[c].from # s /\ Kin(call'[c], call[c])
             /\ LostIfGone(c)
  <2> DEFINE gone == call[c].lost \/ (call[c].at = "environment" /\ call[c].env = session[s].bet)
  <2>1. call[c] \in CallStates /\ OfItsRun(call[c]) /\ EnvOnly(call[c])
        /\ call[c].env \in Bets \cup {"none"}
    BY CallFacts
  <2>2. call'[c] = [call[c] EXCEPT !.lost = gone]
    BY DEF Lose
  <2>3. gone \in BOOLEAN /\ (call[c].lost => gone)
    BY <2>1 DEF CallStates
  <2> HIDE DEF gone
  <2>4. call'[c] \in CallStates /\ Kin(call'[c], call[c]) /\ call'[c].lost = gone
    BY <2>1, <2>2, <2>3 DEF CallStates, Kin
  <2>5. call[c].from # s
    BY <2>1, Names DEF OfItsRun
  <2>6. LostIfGone(c)
    BY <2>1, <2>4 DEF gone, Kin, LostIfGone, EnvOnly
  <2>7. QED
    BY <2>4, <2>5, <2>6
<1>2. call' \in [Calls -> CallStates]
  BY <1>1 DEF Lose
<1>3. QED
  BY <1>1, <1>2 DEF CallsAfter

\* A run ends, by a dry run's or the skill's removal of the descriptor.
LEMMA EndKeeps ==
  ASSUME IInv, NEW s \in Sessions, session[s].at \in {"described", "cleared"},
         session' = [session EXCEPT ![s] = NoRun],
         descriptor' = [descriptor EXCEPT ![session[s].bet] = "none"],
         call' = Lose(session[s].bet),
         UNCHANGED <<sentinel, tombstone, runs, alone, last, aborted>>
  PROVE  IInv'
<1>1. NoRun \in RunStates /\ NoRun.at = "idle"
  BY DEF NoRun, RunStates, Steps
<1>2. /\ session' \in [Sessions -> RunStates] /\ session'[s].at = "idle"
      /\ \A t \in Sessions \ {s} : session'[t] = session[t]
  BY <1>1, Types
<1>3. session[s].bet \in Bets
  BY Types
<1>4. descriptor' \in [Bets -> Kept] /\ descriptor'[session[s].bet] = "none"
      /\ \A b \in Bets : b # session[s].bet => descriptor'[b] = descriptor[b]
  BY <1>3, Types DEF Kept
<1>5. Moves(s)
  BY <1>2, <1>4, Types DEF Moves
<1>6. CallsAfter(s) /\ \A c \in Calls : LostIfGone(c)
  BY <1>3, <1>4, CallsLose
<1>7. Marks'
  BY <1>2, Types DEF Marks
<1>8. Alone'
  <2>1. ASSUME NEW a \in alone PROVE AloneRun(a)'
    <3>1. AloneRun(a) /\ a \in Sessions
      BY Types DEF Alone
    <3>2. a = s
      BY <3>1 DEF AloneRun
    <3>3. QED
      BY <3>1, <3>2, <1>2 DEF AloneRun
  <2>2. QED
    BY <2>1 DEF Alone
<1>9. Owned'
  <2>1. ASSUME ~aborted PROVE \A b \in Bets : descriptor'[b] # "none" =>
           \E t \in Sessions : session'[t].at # "idle" /\ session'[t].bet = b
    BY <2>1, <1>2, <1>4, StillOwned
  <2>2. ASSUME ~aborted, sentinel # "none"
        PROVE  \E t \in Sessions : session'[t].at \in {"marking", "marked", "running"}
    BY <2>2, <1>2, SentinelOwned
  <2>3. QED
    BY <2>1, <2>2 DEF Owned
<1>10. QED
  BY <1>5, <1>6, <1>7, <1>8, <1>9, Assemble

LEMMA AbortKeeps ==
  ASSUME IInv, NEW s \in Sessions, Abort(s)
  PROVE  IInv'
<1>1. NoRun \in RunStates /\ NoRun.at = "idle"
  BY DEF NoRun, RunStates, Steps
<1>2. session[s].at # "idle" /\ session' = [session EXCEPT ![s] = NoRun]
      /\ call' = WithoutCallsOf(s) /\ aborted' = TRUE
      /\ UNCHANGED <<descriptor, sentinel, tombstone, runs, alone, last>>
  BY DEF Abort, files
<1>3. /\ session' \in [Sessions -> RunStates] /\ session'[s].at = "idle"
      /\ \A t \in Sessions \ {s} : session'[t] = session[t]
  BY <1>1, <1>2, Types
<1>4. Moves(s)
  BY <1>2, <1>3, Types DEF Moves
<1>5. CallsAfter(s) /\ \A c \in Calls : LostIfGone(c)
  BY <1>2, CallsTaken, TakenLoseNone
<1>6. Marks'
  BY <1>2, <1>3, Types DEF Marks
<1>7. Alone'
  <2>1. ASSUME NEW a \in alone PROVE AloneRun(a)'
    <3>1. AloneRun(a) /\ a \in Sessions
      BY Types DEF Alone
    <3>2. a = s
      BY <3>1, <1>2 DEF AloneRun
    <3>3. QED
      BY <3>1, <3>2, <1>3 DEF AloneRun
  <2>2. QED
    BY <2>1, <1>2 DEF Alone
<1>8. Owned'
  BY <1>2 DEF Owned
<1>9. QED
  BY <1>2, <1>4, <1>5, <1>6, <1>7, <1>8, Assemble

-------------------------------------------------------------------------------
LEMMA InvStutter ==
  ASSUME IInv, UNCHANGED vars
  PROVE  IInv'
<1>1. UNCHANGED <<descriptor, sentinel, tombstone, session, runs, call, alone, last, aborted>>
  BY DEF vars
<1>2. TypeOK'
  BY <1>1 DEF IInv, TypeOK
<1>3. Marks' /\ Owned'
  BY <1>1 DEF IInv, Marks, Owned
<1>4. Alone'
  BY <1>1 DEF IInv, Alone, AloneRun
<1>5. CallsOK'
  BY <1>1 DEF IInv, CallsOK, EnvOnly, AfterClear, OfItsRun, SeenMeansThere
<1>6. QED
  BY <1>2, <1>3, <1>4, <1>5 DEF IInv

LEMMA InvNext == IInv /\ [Next]_vars => IInv'
<1> SUFFICES ASSUME IInv, [Next]_vars PROVE IInv'
  OBVIOUS
<1>1. ASSUME NEW s \in Sessions, NEW b \in Bets, NEW how \in {"sentinel", "env", "dry"},
             Describe(s, b, how)
      PROVE  IInv'
  BY <1>1, DescribeKeeps
<1>2. ASSUME NEW s \in Sessions, Described(s) PROVE IInv'
  BY <1>2, DescribedKeeps
<1>3. ASSUME NEW s \in Sessions, Discard(s) \/ RemoveDescriptor(s) PROVE IInv'
  BY <1>3, EndKeeps DEF Discard, RemoveDescriptor
<1>4. ASSUME NEW s \in Sessions, Mark(s) \/ Marked(s) \/ DropTombstone(s) PROVE IInv'
  BY <1>4, MarkKeeps, MarkedKeeps, DropTombstoneKeeps
<1>5. ASSUME NEW s \in Sessions, Unmark(s) \/ Abort(s) PROVE IInv'
  BY <1>5, UnmarkKeeps, AbortKeeps
<1>6. ASSUME NEW s \in Sessions, NEW fails \in BOOLEAN, WriteTombstone(s, fails) PROVE IInv'
  BY <1>6, WriteTombstoneKeeps
<1>7. ASSUME NEW c \in Calls, NEW from \in Sessions \cup {Outsider}, NEW vault \in BOOLEAN,
             Start(c, from, vault)
      PROVE  IInv'
  BY <1>7, StartKeeps
<1>8. ASSUME NEW c \in Calls, Look(c) PROVE IInv'
  BY <1>8, LookKeeps
<1>9. CASE UNCHANGED vars
  BY <1>9, InvStutter
<1>10. QED
  BY <1>1, <1>2, <1>3, <1>4, <1>5, <1>6, <1>7, <1>8, <1>9 DEF Next

LEMMA InvAlways == Spec => []IInv
BY InvInit, InvNext, PTL DEF Spec

-------------------------------------------------------------------------------
(* The theorems.                                                           *)

\* Every variable keeps its type, and a run that is under way has a bet.
THEOREM HookTypes == Spec => []TypeOK
<1>1. IInv => TypeOK
  BY DEF IInv
<1>2. QED
  BY <1>1, InvAlways, PTL

\* What a call that is told its bet by the environment may do is at most what that
\* bet's descriptor allows, unless this was removed between the hook's look and its
\* read: for any number of runs and calls, any rules and requests.
THEOREM EnvCallsAreScoped == Spec => []EnvCallIsScoped
<1>1. IInv => EnvCallIsScoped
  <2> SUFFICES ASSUME IInv, NEW c \in Calls, call[c].at = "decided", call[c].env # "none",
                      ~call[c].lost,
                      NEW r \in Requests, Allows(call[c].found, r), r.tool \in Gated
               PROVE  Evaluate(r, Rules[call[c].env])
    BY DEF EnvCallIsScoped
  <2>1. call[c].env \in Bets /\ call[c].found \in {call[c].env, "unresolvable"}
    BY CallFacts DEF EnvOnly, SeenMeansThere
  <2>2. CASE call[c].found = "unresolvable"
    BY <2>2 DEF Allows, Gated
  <2>3. CASE call[c].found = call[c].env
    <3>1. call[c].found \notin {"open", "unresolvable", "died"}
      BY <2>1, <2>3, Names
    <3>2. r.tool # "garbled"
      BY DEF Gated
    <3>3. QED
      BY <2>3, <3>1, <3>2 DEF Allows
  <2>4. QED
    BY <2>1, <2>2, <2>3
<1>2. QED
  BY <1>1, InvAlways, PTL

\* The calls of a run that is alone are judged by its own descriptor.
THEOREM LoneRunsAreScoped == Spec => []LoneRunIsScoped
<1>1. IInv => LoneRunIsScoped
  <2> SUFFICES ASSUME IInv, NEW c \in Calls, NEW s \in alone,
                      call[c].from = s, call[c].vault, call[c].at = "decided"
               PROVE  call[c].found = session[s].bet
    BY DEF LoneRunIsScoped
  <2>1. s # Outsider
    BY Types, Names
  <2>2. QED
    BY <2>1, CallFacts DEF OfItsRun
<1>2. QED
  BY <1>1, InvAlways, PTL

\* After an undisturbed `clear` the hook is in open mode.
THEOREM ClearsMeanOpen == Spec => []ClearMeansOpen
<1>1. IInv => ClearMeansOpen
  BY CallFacts DEF ClearMeansOpen, AfterClear
<1>2. QED
  BY <1>1, InvAlways, PTL

\* Runs that come to their ends leave neither a sentinel nor a descriptor.
THEOREM EndsAreClean == Spec => []EndsClean
<1>1. IInv => EndsClean
  BY DEF IInv, Owned, EndsClean, UnderWay
<1>2. QED
  BY <1>1, InvAlways, PTL
===============================================================================
