------------------------------ MODULE DetectProofs -----------------------------
(***************************************************************************)
(* Conflict detection and /spar, for any number of bets, signals,          *)
(* detectors, days and decisions: what a detection may lose of the queue,  *)
(* what it finds when nobody disturbs it, and that a settled conflict does *)
(* not come back.                                                          *)
(***************************************************************************)
EXTENDS Detect, TLAPS

-------------------------------------------------------------------------------
(* The record of a detection, field by field.                              *)

LEMMA IdleType == Idle \in Detections
BY DEF Idle, Detections

LEMMA Forgets ==
  ASSUME NEW r \in Detections
  PROVE  LET s == [r EXCEPT !.current = FALSE] IN
         /\ s \in Detections /\ s.current = FALSE
         /\ s.at = r.at /\ s.next = r.next /\ s.read = r.read /\ s.found = r.found
         /\ s.existing = r.existing /\ s.modified = r.modified /\ s.quiet = r.quiet
BY DEF Detections

LEMMA Stirs ==
  ASSUME NEW r \in Detections
  PROVE  LET s == [r EXCEPT !.quiet = FALSE] IN
         /\ s \in Detections /\ s.quiet = FALSE
         /\ s.at = r.at /\ s.next = r.next /\ s.read = r.read /\ s.found = r.found
         /\ s.existing = r.existing /\ s.modified = r.modified /\ s.current = r.current
BY DEF Detections

LEMMA Moves ==
  ASSUME NEW r \in Detections,
         NEW a \in {"reading", "detected", "parsed", "logged", "writing"}
  PROVE  LET s == [r EXCEPT !.at = a] IN
         /\ s \in Detections /\ s.at = a
         /\ s.next = r.next /\ s.read = r.read /\ s.found = r.found /\ s.existing = r.existing
         /\ s.modified = r.modified /\ s.current = r.current /\ s.quiet = r.quiet
BY DEF Detections

LEMMA Starts ==
  LET s == [Idle EXCEPT !.at = "reading"] IN
  /\ s \in Detections /\ s.at = "reading" /\ s.next = 1 /\ s.read = {} /\ s.found = {}
  /\ s.existing = {} /\ s.modified = {} /\ s.current = FALSE /\ s.quiet = TRUE
<1>1. /\ Idle.next = 1 /\ Idle.read = {} /\ Idle.found = {} /\ Idle.existing = {}
      /\ Idle.modified = {} /\ Idle.current = FALSE /\ Idle.quiet = TRUE
  BY DEF Idle
<1>2. QED
  BY <1>1, IdleType, Moves

LEMMA Turns ==
  ASSUME NEW r \in Detections, NEW n \in Nat \ {0}
  PROVE  LET s == [r EXCEPT !.next = n] IN
         /\ s \in Detections /\ s.next = n
         /\ s.at = r.at /\ s.read = r.read /\ s.found = r.found /\ s.existing = r.existing
         /\ s.modified = r.modified /\ s.current = r.current /\ s.quiet = r.quiet
BY DEF Detections

LEMMA Holds ==
  ASSUME NEW r \in Detections, NEW more \in SUBSET [bet : Bets, file : BetFiles]
  PROVE  LET s == [r EXCEPT !.read = more] IN
         /\ s \in Detections /\ s.read = more
         /\ s.at = r.at /\ s.next = r.next /\ s.found = r.found /\ s.existing = r.existing
         /\ s.modified = r.modified /\ s.current = r.current /\ s.quiet = r.quiet
BY DEF Detections

LEMMA Finds ==
  ASSUME NEW r \in Detections, NEW ids \in SUBSET Conflicts
  PROVE  LET s == [r EXCEPT !.found = ids] IN
         /\ s \in Detections /\ s.found = ids
         /\ s.at = r.at /\ s.next = r.next /\ s.read = r.read /\ s.existing = r.existing
         /\ s.modified = r.modified /\ s.current = r.current /\ s.quiet = r.quiet
BY DEF Detections

LEMMA Detects ==
  ASSUME NEW r \in Detections, NEW ids \in SUBSET Conflicts
  PROVE  LET s == [r EXCEPT !.at = "detected", !.next = 1, !.read = {}, !.found = ids] IN
         /\ s \in Detections /\ s.at = "detected" /\ s.next = 1 /\ s.read = {} /\ s.found = ids
         /\ s.existing = r.existing /\ s.modified = r.modified /\ s.current = r.current
         /\ s.quiet = r.quiet
<1> DEFINE s1 == [r EXCEPT !.at = "detected"]
           s2 == [s1 EXCEPT !.next = 1]
           s3 == [s2 EXCEPT !.read = {}]
           s4 == [s3 EXCEPT !.found = ids]
<1>1. /\ s1 \in Detections /\ s1.at = "detected" /\ s1.existing = r.existing
      /\ s1.modified = r.modified /\ s1.current = r.current /\ s1.quiet = r.quiet
  BY Moves
<1> HIDE DEF s1
<1>2. /\ s2 \in Detections /\ s2.next = 1 /\ s2.at = s1.at
      /\ s2.existing = s1.existing /\ s2.modified = s1.modified /\ s2.current = s1.current
      /\ s2.quiet = s1.quiet
  <2>1. 1 \in Nat \ {0}
    OBVIOUS
  <2>2. QED
    BY <1>1, <2>1, Turns
<1> HIDE DEF s2
<1>3. /\ s3 \in Detections /\ s3.read = {} /\ s3.next = s2.next /\ s3.at = s2.at
      /\ s3.existing = s2.existing /\ s3.modified = s2.modified /\ s3.current = s2.current
      /\ s3.quiet = s2.quiet
  <2>1. {} \in SUBSET [bet : Bets, file : BetFiles]
    OBVIOUS
  <2>2. QED
    BY <1>2, <2>1, Holds
<1> HIDE DEF s3
<1>4. /\ s4 \in Detections /\ s4.found = ids /\ s4.next = s3.next /\ s4.read = s3.read
      /\ s4.at = s3.at /\ s4.existing = s3.existing /\ s4.modified = s3.modified
      /\ s4.current = s3.current /\ s4.quiet = s3.quiet
  BY <1>3, Finds
<1>5. s4 = [r EXCEPT !.at = "detected", !.next = 1, !.read = {}, !.found = ids]
  BY DEF s1, s2, s3
<1>6. QED
  BY <1>1, <1>2, <1>3, <1>4, <1>5

LEMMA Parses ==
  ASSUME NEW r \in Detections, NEW items \in SUBSET Items
  PROVE  LET s == [r EXCEPT !.existing = items] IN
         /\ s \in Detections /\ s.existing = items
         /\ s.at = r.at /\ s.next = r.next /\ s.read = r.read /\ s.found = r.found
         /\ s.modified = r.modified /\ s.current = r.current /\ s.quiet = r.quiet
BY DEF Detections

LEMMA Tells ==
  ASSUME NEW r \in Detections, NEW alone \in BOOLEAN
  PROVE  LET s == [r EXCEPT !.current = alone] IN
         /\ s \in Detections /\ s.current = alone
         /\ s.at = r.at /\ s.next = r.next /\ s.read = r.read /\ s.found = r.found
         /\ s.existing = r.existing /\ s.modified = r.modified /\ s.quiet = r.quiet
BY DEF Detections

LEMMA Logs ==
  ASSUME NEW r \in Detections, NEW b \in SUBSET Bets
  PROVE  LET s == [r EXCEPT !.at = "logged", !.modified = b] IN
         /\ s \in Detections /\ s.at = "logged" /\ s.modified = b
         /\ s.next = r.next /\ s.read = r.read /\ s.found = r.found /\ s.existing = r.existing
         /\ s.current = r.current /\ s.quiet = r.quiet
BY DEF Detections

-------------------------------------------------------------------------------
(* What detection finds.                                                   *)

\* A conflict that is found is filed under a bet that was read, and under a deferred
\* one only if it is about two bets.
LEMMA FoundShape ==
  ASSUME NEW read \in SUBSET [bet : Bets, file : BetFiles], NEW signals,
         NEW id \in DetectConflicts(read, signals)
  PROVE  /\ id \in Conflicts
         /\ \E r \in read : id[2] = r.bet /\ (id[1] = "cross" \/ r.file.deferred <= today)
<1>1. CASE id \in CrossConflicts(read)
  <2>1. PICK p \in read \X read : id = <<"cross", p[1].bet, p[2].bet>>
    BY <1>1 DEF CrossConflicts
  <2>2. p[1] \in read /\ p[2] \in read /\ p[1].bet \in Bets /\ p[2].bet \in Bets
    BY <2>1
  <2>3. QED
    BY <2>1, <2>2 DEF Conflicts, Kinds
<1>2. ASSUME NEW r \in read, r.file.deferred <= today, id \in OwnConflicts(r.bet, r.file, signals)
      PROVE  /\ id \in Conflicts
             /\ \E q \in read : id[2] = q.bet /\ (id[1] = "cross" \/ q.file.deferred <= today)
  <2>1. r.bet \in Bets
    OBVIOUS
  <2>2. PICK kind \in Kinds : id = <<kind, r.bet, r.bet>>
    BY <1>2 DEF OwnConflicts, Kinds
  <2>3. QED
    BY <1>2, <2>1, <2>2 DEF Conflicts
<1>3. QED
  BY <1>1, <1>2 DEF DetectConflicts

\* More signals find more.
LEMMA MoreSignals ==
  ASSUME NEW read, NEW some, NEW all, some \subseteq all
  PROVE  DetectConflicts(read, some) \subseteq DetectConflicts(read, all)
<1>1. ASSUME NEW b, NEW file
      PROVE  OwnConflicts(b, file, some) \subseteq OwnConflicts(b, file, all)
  BY DEF OwnConflicts
<1>2. QED
  BY <1>1 DEF DetectConflicts
-------------------------------------------------------------------------------
(* How a step changes the detections.                                      *)

\* What a step of another leaves of a detection: it may no longer be current or quiet.
Same(r, s) ==
  /\ s \in Detections /\ s.at = r.at /\ s.next = r.next /\ s.read = r.read /\ s.found = r.found
  /\ s.existing = r.existing /\ s.modified = r.modified /\ (s.current => r.current)
  /\ (s.quiet => r.quiet)

LEMMA SameSelf == ASSUME NEW r \in Detections PROVE Same(r, r)
BY DEF Same

LEMMA GoesOn ==
  ASSUME TypeOK, NEW d \in Detectors, NEW from, NEW to \in Detections, Goes(d, from, to)
  PROVE  /\ detector[d].at = from /\ detector'[d] = to /\ detector' \in [Detectors -> Detections]
         /\ \A e \in Detectors : e # d => detector'[e] = detector[e] /\ Same(detector[e], detector'[e])
<1>1. detector \in [Detectors -> Detections] /\ detector' = [detector EXCEPT ![d] = to]
  BY DEF TypeOK, Goes
<1>2. \A e \in Detectors : e # d => detector'[e] = detector[e] /\ detector[e] \in Detections
  BY <1>1
<1>3. QED
  BY <1>1, <1>2, SameSelf DEF Goes

\* Whoever writes the queue makes all others forget that they know it.
LEMMA OvertakesOthers ==
  ASSUME TypeOK, NEW d \in Detectors, NEW to \in Detections,
         detector' = [Overtaken(d) EXCEPT ![d] = to]
  PROVE  /\ detector'[d] = to /\ detector' \in [Detectors -> Detections]
         /\ \A e \in Detectors : e # d => Same(detector[e], detector'[e]) /\ ~detector'[e].current
<1>1. ASSUME NEW e \in Detectors
      PROVE  /\ detector'[e] = IF e = d THEN to ELSE [detector[e] EXCEPT !.current = FALSE]
             /\ detector[e] \in Detections
  BY DEF Overtaken, TypeOK
<1>2. ASSUME NEW e \in Detectors, e # d
      PROVE  Same(detector[e], detector'[e]) /\ ~detector'[e].current
  <2> DEFINE s == [detector[e] EXCEPT !.current = FALSE]
  <2>1. /\ s \in Detections /\ s.current = FALSE /\ s.at = detector[e].at
        /\ s.next = detector[e].next /\ s.read = detector[e].read /\ s.found = detector[e].found
        /\ s.existing = detector[e].existing /\ s.modified = detector[e].modified
        /\ s.quiet = detector[e].quiet
    BY <1>1, Forgets
  <2>2. detector'[e] = s
    BY <1>1, <1>2
  <2> HIDE DEF s
  <2>3. QED
    BY <2>1, <2>2 DEF Same
<1>3. detector' = [e \in Detectors |-> detector'[e]]
  <2> DEFINE forgotten == Overtaken(d)
  <2>1. forgotten = [e \in Detectors |-> forgotten[e]]
    BY DEF Overtaken
  <2> HIDE DEF forgotten
  <2>2. detector' = [forgotten EXCEPT ![d] = to]
    BY DEF forgotten
  <2>3. QED
    BY <2>1, <2>2
<1>4. detector'[d] = to
  BY <1>1
<1>5. ASSUME NEW e \in Detectors PROVE detector'[e] \in Detections
  <2>1. CASE e = d
    BY <1>4, <2>1
  <2>2. CASE e # d
    BY <1>2, <2>2 DEF Same
  <2>3. QED
    BY <2>1, <2>2
<1>6. QED
  BY <1>2, <1>3, <1>4, <1>5

\* A change of the bets or the signals.
LEMMA DisturbsAll ==
  ASSUME TypeOK, Disturbs
  PROVE  /\ detector' \in [Detectors -> Detections]
         /\ \A d \in Detectors :
              \/ detector[d].at = "idle" /\ detector'[d] = Idle
              \/ Same(detector[d], detector'[d]) /\ ~detector'[d].quiet
<1>1. ASSUME NEW e \in Detectors
      PROVE  /\ detector'[e] = IF detector[e].at = "idle" THEN Idle
                              ELSE [detector[e] EXCEPT !.quiet = FALSE]
             /\ detector[e] \in Detections
  BY DEF Disturbs, TypeOK
<1>2. ASSUME NEW e \in Detectors
      PROVE  \/ detector[e].at = "idle" /\ detector'[e] = Idle
             \/ Same(detector[e], detector'[e]) /\ ~detector'[e].quiet
  <2> DEFINE s == [detector[e] EXCEPT !.quiet = FALSE]
  <2>1. /\ s \in Detections /\ s.quiet = FALSE
        /\ s.at = detector[e].at /\ s.next = detector[e].next /\ s.read = detector[e].read
        /\ s.found = detector[e].found /\ s.existing = detector[e].existing
        /\ s.modified = detector[e].modified /\ s.current = detector[e].current
    BY <1>1, Stirs
  <2>2. detector'[e] = IF detector[e].at = "idle" THEN Idle ELSE s
    BY <1>1
  <2> HIDE DEF s
  <2>3. QED
    BY <2>1, <2>2 DEF Same
<1>3. detector' = [e \in Detectors |-> detector'[e]]
  BY DEF Disturbs
<1>4. \A e \in Detectors : detector'[e] \in Detections
  BY <1>2, IdleType DEF Same
<1>5. QED
  BY <1>2, <1>3, <1>4

\* Nothing is left of a detection that is over.
IsBlank(r) ==
  /\ r.next = 1 /\ r.read = {} /\ r.found = {} /\ r.existing = {} /\ r.modified = {}
  /\ r.current = FALSE

LEMMA IdleIsBlank == IsBlank(Idle) /\ Idle.at = "idle"
BY DEF IsBlank, Idle

\* What the steps of one detection leave alone.
others == <<today, bet, dirty, committed, signal, spar, decisions, settled>>

\* How the steps of one detection change its record.
LEMMA StartStep ==
  ASSUME TypeOK, NEW d \in Detectors, StartDetect(d)
  PROVE  /\ detector[d].at = "idle" /\ detector'[d].at = "reading" /\ IsBlank(detector'[d])
         /\ detector'[d] \in Detections /\ detector' \in [Detectors -> Detections]
         /\ \A e \in Detectors : e # d => Same(detector[e], detector'[e])
         /\ UNCHANGED <<others, queue, before>> /\ detections' \in Nat
<1> DEFINE to == [Idle EXCEPT !.at = "reading"]
<1>1. to \in Detections /\ to.at = "reading" /\ IsBlank(to)
  BY Starts DEF IsBlank
<1> HIDE DEF to
<1>2. Goes(d, "idle", to)
  BY DEF StartDetect, to
<1>3. /\ detector[d].at = "idle" /\ detector'[d] = to /\ detector' \in [Detectors -> Detections]
      /\ \A e \in Detectors : e # d => Same(detector[e], detector'[e])
  BY <1>1, <1>2, GoesOn
<1>4. UNCHANGED <<others, queue, before>> /\ detections' \in Nat
  BY DEF StartDetect, others, bets, TypeOK
<1>5. QED
  BY <1>1, <1>3, <1>4

LEMMA ReadStep ==
  ASSUME TypeOK, NEW d \in Detectors, ReadBet(d)
  PROVE  LET n == detector[d].next
             b == Files[n]
         IN /\ n \in 1 .. Len(Files) /\ b \in Bets /\ detector[d].at = "reading"
            /\ detector'[d] \in Detections /\ detector'[d].at = "reading" /\ detector'[d].next = n + 1
            /\ detector'[d].read = IF bet[b].status = "active"
                                  THEN detector[d].read \cup {[bet |-> b, file |-> bet[b]]}
                                  ELSE detector[d].read
            /\ detector'[d].found = detector[d].found /\ detector'[d].existing = detector[d].existing
            /\ detector'[d].modified = detector[d].modified /\ detector'[d].current = detector[d].current
            /\ detector'[d].quiet = detector[d].quiet /\ detector' \in [Detectors -> Detections]
            /\ \A e \in Detectors : e # d => Same(detector[e], detector'[e])
            /\ UNCHANGED <<others, queue, detections, before>>
<1> DEFINE n == detector[d].next
           b == Files[n]
           more == IF bet[b].status = "active"
                   THEN detector[d].read \cup {[bet |-> b, file |-> bet[b]]} ELSE detector[d].read
           to == [detector[d] EXCEPT !.next = n + 1, !.read = more]
<1>1. detector[d] \in Detections /\ n \in Nat \ {0}
      /\ detector[d].read \in SUBSET [bet : Bets, file : BetFiles]
  BY DEF TypeOK, Detections
<1>2. n \in 1 .. Len(Files) /\ b \in Bets /\ bet[b] \in BetFiles
  BY <1>1, DetectAssumption DEF ReadBet, TypeOK
<1>3. more \in SUBSET [bet : Bets, file : BetFiles] /\ n + 1 \in Nat \ {0}
  BY <1>1, <1>2
<1>4. Goes(d, "reading", to)
  BY DEF ReadBet
<1>5. /\ to \in Detections /\ to.next = n + 1 /\ to.read = more
      /\ to.at = detector[d].at /\ to.found = detector[d].found /\ to.existing = detector[d].existing
      /\ to.modified = detector[d].modified /\ to.current = detector[d].current
      /\ to.quiet = detector[d].quiet
  <2> HIDE DEF more, n
  <2> DEFINE s2 == [detector[d] EXCEPT !.next = n + 1]
             s3 == [s2 EXCEPT !.read = more]
  <2>1. /\ s2 \in Detections /\ s2.next = n + 1 /\ s2.at = detector[d].at
        /\ s2.found = detector[d].found
        /\ s2.existing = detector[d].existing /\ s2.modified = detector[d].modified
        /\ s2.current = detector[d].current /\ s2.quiet = detector[d].quiet
    BY <1>1, <1>3, Turns
  <2> HIDE DEF s2
  <2>2. /\ s3 \in Detections /\ s3.read = more /\ s3.next = s2.next /\ s3.at = s2.at
        /\ s3.found = s2.found
        /\ s3.existing = s2.existing /\ s3.modified = s2.modified /\ s3.current = s2.current
        /\ s3.quiet = s2.quiet
    BY <1>3, <2>1, Holds
  <2>3. to = s3
    BY DEF s2
  <2>4. QED
    BY <2>1, <2>2, <2>3
<1> HIDE DEF to
<1>6. /\ detector[d].at = "reading" /\ detector'[d] = to /\ detector' \in [Detectors -> Detections]
      /\ \A e \in Detectors : e # d => Same(detector[e], detector'[e])
  BY <1>4, <1>5, GoesOn
<1>7. UNCHANGED <<others, queue, detections, before>>
  BY DEF ReadBet, others, bets, counts
<1>8. QED
  BY <1>2, <1>5, <1>6, <1>7
LEMMA CollectStep ==
  ASSUME TypeOK, NEW d \in Detectors, NEW yesterdays \in BOOLEAN, NEW failed \in SUBSET Signals,
         Collect(d, yesterdays, failed)
  PROVE  /\ detector[d].at = "reading" /\ detector[d].next > Len(Files)
         /\ detector'[d] \in Detections /\ detector'[d].at = "detected" /\ detector'[d].read = {}
         /\ \E signals \in SUBSET AllSignals :
              detector'[d].found = DetectConflicts(detector[d].read, signals)
         /\ detector'[d].existing = detector[d].existing
         /\ detector'[d].modified = detector[d].modified
         /\ detector'[d].current = detector[d].current /\ detector'[d].quiet = detector[d].quiet
         /\ detector' \in [Detectors -> Detections]
         /\ \A e \in Detectors : e # d => Same(detector[e], detector'[e])
         /\ UNCHANGED <<others, queue, detections, before>>
<1> DEFINE got == {s \in {s \in Signals \ failed : signal[s].made # 0} :
                     signal[s].made = today \/ (signal[s].made = today - 1 /\ yesterdays)}
           signals == {[id |-> s, dated |-> signal[s].dated] : s \in got}
           ids == DetectConflicts(detector[d].read, signals)
           to == [detector[d] EXCEPT !.at = "detected", !.next = 1, !.read = {}, !.found = ids]
<1>1. detector[d] \in Detections /\ detector[d].read \in SUBSET [bet : Bets, file : BetFiles]
  BY DEF TypeOK, Detections
<1>2. signals \in SUBSET AllSignals
  BY DEF AllSignals
<1>3. detector[d].next > Len(Files) /\ Goes(d, "reading", to)
  BY DEF Collect
<1>4. UNCHANGED <<others, queue, detections, before>>
  BY DEF Collect, others, bets, counts
<1> HIDE DEF signals
<1>5. ids \in SUBSET Conflicts
  BY <1>1, FoundShape
<1> HIDE DEF ids
<1>6. /\ to \in Detections /\ to.at = "detected" /\ to.read = {} /\ to.found = ids
      /\ to.existing = detector[d].existing /\ to.modified = detector[d].modified
      /\ to.current = detector[d].current /\ to.quiet = detector[d].quiet
  BY <1>1, <1>5, Detects
<1> HIDE DEF to
<1>7. /\ detector[d].at = "reading" /\ detector'[d] = to /\ detector' \in [Detectors -> Detections]
      /\ \A e \in Detectors : e # d => Same(detector[e], detector'[e])
  BY <1>3, <1>6, GoesOn
<1>8. QED
  BY <1>2, <1>3, <1>4, <1>6, <1>7 DEF ids

LEMMA ParseStep ==
  ASSUME TypeOK, NEW d \in Detectors, ParseQueue(d)
  PROVE  /\ detector[d].at = "detected"
         /\ detector'[d] \in Detections /\ detector'[d].at = "parsed"
         /\ detector'[d].existing = queue.items
         /\ detector'[d].current <=> \A e \in Detectors : detector[e].at # "writing"
         /\ detector'[d].read = detector[d].read /\ detector'[d].found = detector[d].found
         /\ detector'[d].modified = detector[d].modified /\ detector'[d].quiet = detector[d].quiet
         /\ detector' \in [Detectors -> Detections]
         /\ \A e \in Detectors : e # d => Same(detector[e], detector'[e])
         /\ UNCHANGED <<others, queue, detections, before>>
<1> DEFINE alone == \A e \in Detectors : detector[e].at # "writing"
           to == [detector[d] EXCEPT !.at = "parsed", !.existing = queue.items, !.current = alone]
<1>1. detector[d] \in Detections /\ queue.items \in SUBSET Items /\ alone \in BOOLEAN
  BY DEF TypeOK
<1>2. Goes(d, "detected", to)
  BY DEF ParseQueue
<1>3. UNCHANGED <<others, queue, detections, before>>
  BY DEF ParseQueue, others, bets, counts
<1>4. to.current = alone /\ to \in Detections /\ to.at = "parsed" /\ to.existing = queue.items
      /\ to.read = detector[d].read /\ to.found = detector[d].found
      /\ to.modified = detector[d].modified /\ to.quiet = detector[d].quiet
  <2> DEFINE s1 == [detector[d] EXCEPT !.at = "parsed"]
             s2 == [s1 EXCEPT !.existing = queue.items]
             s3 == [s2 EXCEPT !.current = alone]
  <2> HIDE DEF alone
  <2>1. /\ s1 \in Detections /\ s1.at = "parsed" /\ s1.read = detector[d].read
        /\ s1.found = detector[d].found /\ s1.modified = detector[d].modified
        /\ s1.quiet = detector[d].quiet
    BY <1>1, Moves
  <2> HIDE DEF s1
  <2>2. /\ s2 \in Detections /\ s2.existing = queue.items /\ s2.at = s1.at
        /\ s2.read = s1.read /\ s2.found = s1.found /\ s2.modified = s1.modified
        /\ s2.quiet = s1.quiet
    BY <1>1, <2>1, Parses
  <2> HIDE DEF s2
  <2>3. /\ s3 \in Detections /\ s3.current = alone /\ s3.at = s2.at
        /\ s3.existing = s2.existing /\ s3.read = s2.read /\ s3.found = s2.found
        /\ s3.modified = s2.modified /\ s3.quiet = s2.quiet
    BY <1>1, <2>2, Tells
  <2>4. to = s3
    BY DEF s1, s2
  <2>5. QED
    BY <2>1, <2>2, <2>3, <2>4
<1> HIDE DEF to
<1>5. /\ detector[d].at = "detected" /\ detector'[d] = to /\ detector' \in [Detectors -> Detections]
      /\ \A e \in Detectors : e # d => Same(detector[e], detector'[e])
  BY <1>2, <1>4, GoesOn
<1>6. QED
  BY <1>3, <1>4, <1>5

LEMMA LogStep ==
  ASSUME TypeOK, NEW d \in Detectors, NEW yesterdays \in BOOLEAN, NEW fails \in BOOLEAN,
         GitLog(d, yesterdays, fails)
  PROVE  /\ detector[d].at = "parsed"
         /\ detector'[d] \in Detections /\ detector'[d].at = "logged"
         /\ \A b \in detector'[d].modified : committed[b] >= today - 1
         /\ detector'[d].read = detector[d].read /\ detector'[d].found = detector[d].found
         /\ detector'[d].existing = detector[d].existing
         /\ detector'[d].current = detector[d].current /\ detector'[d].quiet = detector[d].quiet
         /\ detector' \in [Detectors -> Detections]
         /\ \A e \in Detectors : e # d => Same(detector[e], detector'[e])
         /\ UNCHANGED <<others, queue, detections, before>>
<1> DEFINE within == {b \in Bets : committed[b] = today \/ (committed[b] = today - 1 /\ yesterdays)}
           lately == IF fails THEN {} ELSE within
           to == [detector[d] EXCEPT !.at = "logged", !.modified = lately]
<1>1. detector[d] \in Detections /\ lately \in SUBSET Bets
      /\ \A b \in lately : committed[b] >= today - 1
  BY DEF TypeOK
<1>2. Goes(d, "parsed", to)
  BY DEF GitLog
<1>3. UNCHANGED <<others, queue, detections, before>>
  BY DEF GitLog, others, bets, counts
<1> HIDE DEF lately
<1>4. /\ to \in Detections /\ to.at = "logged" /\ to.modified = lately
      /\ to.read = detector[d].read /\ to.found = detector[d].found
      /\ to.existing = detector[d].existing /\ to.current = detector[d].current
      /\ to.quiet = detector[d].quiet
  BY <1>1, Logs
<1> HIDE DEF to
<1>5. /\ detector[d].at = "parsed" /\ detector'[d] = to /\ detector' \in [Detectors -> Detections]
      /\ \A e \in Detectors : e # d => Same(detector[e], detector'[e])
  BY <1>2, <1>4, GoesOn
<1>6. QED
  BY <1>1, <1>3, <1>4, <1>5

LEMMA OpenStep ==
  ASSUME TypeOK, NEW d \in Detectors, OpenQueue(d)
  PROVE  /\ detector[d].at = "logged"
         /\ detector'[d] \in Detections /\ detector'[d].at = "writing"
         /\ detector'[d].read = detector[d].read /\ detector'[d].found = detector[d].found
         /\ detector'[d].existing = detector[d].existing
         /\ detector'[d].modified = detector[d].modified
         /\ detector'[d].current = detector[d].current /\ detector'[d].quiet = detector[d].quiet
         /\ detector' \in [Detectors -> Detections]
         /\ \A e \in Detectors : e # d => Same(detector[e], detector'[e]) /\ ~detector'[e].current
         /\ queue' = [whole |-> FALSE, items |-> {}]
         /\ UNCHANGED <<others, detections, before>>
<1> DEFINE to == [detector[d] EXCEPT !.at = "writing"]
<1>1. detector[d] \in Detections
  BY DEF TypeOK
<1>2. detector' = [Overtaken(d) EXCEPT ![d] = to]
  <2>1. Overtaken(d)[d] = detector[d]
    BY DEF Overtaken
  <2>2. QED
    BY <2>1 DEF OpenQueue
<1>3. UNCHANGED <<others, detections, before>> /\ queue' = [whole |-> FALSE, items |-> {}]
      /\ detector[d].at = "logged"
  BY DEF OpenQueue, others, bets, counts
<1>4. /\ to \in Detections /\ to.at = "writing"
      /\ to.read = detector[d].read /\ to.found = detector[d].found
      /\ to.existing = detector[d].existing /\ to.modified = detector[d].modified
      /\ to.current = detector[d].current /\ to.quiet = detector[d].quiet
  BY <1>1, Moves
<1> HIDE DEF to
<1>5. /\ detector'[d] = to /\ detector' \in [Detectors -> Detections]
      /\ \A e \in Detectors : e # d => Same(detector[e], detector'[e]) /\ ~detector'[e].current
  BY <1>2, <1>4, OvertakesOthers
<1>6. QED
  BY <1>3, <1>4, <1>5

LEMMA WriteStep ==
  ASSUME TypeOK, NEW d \in Detectors, WriteQueue(d)
  PROVE  /\ detector[d].at = "writing"
         /\ detector'[d].at = "idle" /\ IsBlank(detector'[d])
         /\ detector' \in [Detectors -> Detections]
         /\ \A e \in Detectors : e # d => Same(detector[e], detector'[e]) /\ ~detector'[e].current
         /\ queue' = [whole |-> TRUE, items |-> Merged(d)]
         /\ before' = [items |-> Merged(d), torn |-> FALSE]
         /\ UNCHANGED <<others, detections>>
<1>1. /\ detector'[d] = Idle /\ detector' \in [Detectors -> Detections]
      /\ \A e \in Detectors : e # d => Same(detector[e], detector'[e]) /\ ~detector'[e].current
  BY IdleType, OvertakesOthers DEF WriteQueue
<1>2. /\ queue' = [whole |-> TRUE, items |-> Merged(d)]
      /\ before' = [items |-> Merged(d), torn |-> FALSE]
      /\ UNCHANGED <<others, detections>> /\ detector[d].at = "writing"
  BY DEF WriteQueue, others, bets, counts
<1>3. QED
  BY <1>1, <1>2, IdleIsBlank

LEMMA KillStep ==
  ASSUME TypeOK, NEW d \in Detectors, KillDetect(d)
  PROVE  /\ detector[d].at # "idle"
         /\ detector'[d].at = "idle" /\ IsBlank(detector'[d])
         /\ detector' \in [Detectors -> Detections]
         /\ \A e \in Detectors : e # d => Same(detector[e], detector'[e])
         /\ before' = IF detector[d].at = "writing" THEN [before EXCEPT !.torn = ~queue.whole] ELSE before
         /\ UNCHANGED <<others, queue, detections>>
<1>1. Goes(d, detector[d].at, Idle)
  BY DEF KillDetect, Goes
<1>2. /\ detector'[d] = Idle /\ detector' \in [Detectors -> Detections]
      /\ \A e \in Detectors : e # d => Same(detector[e], detector'[e])
  BY <1>1, IdleType, GoesOn
<1>3. /\ before' = IF detector[d].at = "writing" THEN [before EXCEPT !.torn = ~queue.whole] ELSE before
      /\ UNCHANGED <<others, queue, detections>> /\ detector[d].at # "idle"
  BY DEF KillDetect, others, bets, counts
<1>4. QED
  BY <1>2, <1>3, IdleIsBlank

\* /spar takes a conflict off the queue.
LEMMA RemoveStep ==
  ASSUME TypeOK, NEW c \in spar.walk, Remove(c)
  PROVE  /\ queue.whole /\ c \in Items
         /\ queue' = [whole |-> TRUE, items |-> {other \in queue.items : other.id # c.id}]
         /\ before' = [items |-> queue'.items, torn |-> FALSE]
         /\ spar'.at \in {"idle", "asking"} /\ spar'.walk = spar.walk \ {c}
         /\ spar' \in [at : {"idle", "asking", "decided"}, walk : SUBSET Items]
         /\ detector' \in [Detectors -> Detections]
         /\ \A d \in Detectors : Same(detector[d], detector'[d]) /\ ~detector'[d].current
         /\ settled' \subseteq settled \cup {c.id}
         /\ c.id \in settled' \ settled =>
              ~OpenTo(c.id, today) /\ \A d \in Detectors : detector[d].at = "idle"
         /\ UNCHANGED <<today, bet, dirty, committed, signal, detections, decisions>>
<1>1. ASSUME NEW d \in Detectors PROVE Same(detector[d], detector'[d]) /\ ~detector'[d].current
  <2> DEFINE s == [detector[d] EXCEPT !.current = FALSE]
  <2>1. detector[d] \in Detections
    BY DEF TypeOK
  <2>2. /\ s \in Detections /\ s.current = FALSE /\ s.at = detector[d].at
        /\ s.next = detector[d].next /\ s.read = detector[d].read /\ s.found = detector[d].found
        /\ s.existing = detector[d].existing /\ s.modified = detector[d].modified
        /\ s.quiet = detector[d].quiet
    BY <2>1, Forgets
  <2>3. detector'[d] = s
    BY DEF Remove
  <2> HIDE DEF s
  <2>4. QED
    BY <2>2, <2>3 DEF Same
<1>2. detector' \in [Detectors -> Detections]
  <2>1. detector' = [d \in Detectors |-> detector'[d]]
    BY DEF Remove
  <2>2. QED
    BY <1>1, <2>1 DEF Same
<1>3. /\ queue.whole /\ c \in Items
      /\ queue' = [whole |-> TRUE, items |-> {other \in queue.items : other.id # c.id}]
      /\ before' = [items |-> queue'.items, torn |-> FALSE]
      /\ UNCHANGED <<today, bet, dirty, committed, signal, detections, decisions>>
  BY DEF Remove, TypeOK, bets, counts
<1>4. /\ spar'.at \in {"idle", "asking"} /\ spar'.walk = spar.walk \ {c}
      /\ spar' \in [at : {"idle", "asking", "decided"}, walk : SUBSET Items]
  BY DEF Remove, TypeOK
<1>5. /\ settled' \subseteq settled \cup {c.id}
      /\ c.id \in settled' \ settled =>
           ~OpenTo(c.id, today) /\ \A d \in Detectors : detector[d].at = "idle"
  BY DEF Remove
<1>6. QED
  BY <1>1, <1>2, <1>3, <1>4, <1>5
-------------------------------------------------------------------------------
(* The steps that are no detection's: /spar, new bets, commits, signals,   *)
(* and the days.                                                           *)

\* The bet of a conflict exists, and will exist.
Known(id) == bet[id[2]].status \in {"active", "dead"}

\* What such a step may do to the detections and to what they have read.
Outside ==
  /\ TypeOK' /\ UNCHANGED <<queue, before>>
  /\ \A d \in Detectors :
       \/ detector[d].at = "idle" /\ detector'[d] = Idle
       \/ Same(detector[d], detector'[d])
  /\ \A d \in Detectors :
       detector'[d].quiet /\ detector[d].at # "idle" => UNCHANGED <<today, bet, signal>>
  /\ spar'.walk \subseteq spar.walk \cup queue.items /\ settled' \subseteq settled
  /\ \A id \in Conflicts : Known(id) => Known(id)'
  /\ \A id \in settled' : Known(id) /\ ~OpenTo(id, today) => ~OpenTo(id, today)'
  /\ today' = today \/ \A d \in Detectors : detector[d].at = "idle"
  /\ \A b \in Bets : committed'[b] = committed[b] \/ committed'[b] = today

\* A bet that is written stays known, and does not open a conflict that is closed.
LEMMA WritesOutside ==
  ASSUME TypeOK, NEW b \in Bets, NEW file \in BetFiles, Writes(b, file),
         UNCHANGED <<today, signal, queue, detections, before, settled>>,
         spar' \in [at : {"idle", "asking", "decided"}, walk : SUBSET Items],
         spar'.walk = spar.walk, decisions' \in Nat,
         bet[b].status \in {"active", "dead"} =>
           /\ file.status = bet[b].status \/ file.status = "dead"
           /\ file.deferred = bet[b].deferred \/ file.deferred > today
  PROVE  Outside
<1>1. /\ bet' = [bet EXCEPT ![b] = file] /\ dirty' = dirty \cup {b} /\ committed' = committed
      /\ Disturbs
  BY DEF Writes
<1>2. /\ bet' \in [Bets -> BetFiles]
      /\ \A a \in Bets : bet'[a] = IF a = b THEN file ELSE bet[a]
      /\ bet[b] \in BetFiles
  BY <1>1 DEF TypeOK
<1>3. /\ detector' \in [Detectors -> Detections]
      /\ \A d \in Detectors :
           \/ detector[d].at = "idle" /\ detector'[d] = Idle
           \/ Same(detector[d], detector'[d]) /\ ~detector'[d].quiet
  BY <1>1, DisturbsAll
<1>4. TypeOK'
  BY <1>1, <1>2, <1>3 DEF TypeOK
<1>5. ASSUME NEW id \in Conflicts, Known(id)
      PROVE  Known(id)' /\ (~OpenTo(id, today) => ~OpenTo(id, today)')
  <2>1. id[2] \in Bets
    BY DEF Conflicts
  <2>2. CASE id[2] # b
    BY <1>2, <1>5, <2>1, <2>2 DEF Known, OpenTo
  <2>3. CASE id[2] = b
    <3>1. today \in Nat /\ file.deferred \in Nat
      BY DEF TypeOK, BetFiles
    <3>2. bet'[b] = file /\ today' = today /\ bet[b].status \in {"active", "dead"}
      BY <1>2, <1>5, <2>3 DEF Known
    <3>3. QED
      BY <2>3, <3>1, <3>2 DEF Known, OpenTo
  <2>4. QED
    BY <2>2, <2>3
<1>6. \A id \in settled' : id \in Conflicts
  BY DEF TypeOK
<1>7. QED
  BY <1>1, <1>3, <1>4, <1>5, <1>6 DEF Outside

LEMMA DecideOutside ==
  ASSUME TypeOK, NEW c \in spar.walk, NEW how \in {"confirm", "edit", "kill", "defer"},
         NEW draft \in Drafts, NEW until \in 0 .. MaxDay, Decide(c, how, draft, until)
  PROVE  Outside
<1> DEFINE b == c.id[2]
           file == [status |-> IF how = "kill" THEN "dead" ELSE bet[b].status,
                    draft |-> draft, deferred |-> until,
                    reviewed |-> IF how \in {"confirm", "edit"} THEN today ELSE bet[b].reviewed]
<1>1. b \in Bets
  BY DEF TypeOK, Items, Conflicts
<1>2. bet[b] \in BetFiles /\ today \in Nat /\ until \in Nat
  BY <1>1, DetectAssumption DEF TypeOK
<1>3. file \in BetFiles
  BY <1>2 DEF BetFiles, Statuses, Says
<1>4. Writes(b, file)
  BY DEF Decide
<1>5. UNCHANGED <<today, signal, queue, detections, before, settled>>
  BY DEF Decide
<1>6. /\ spar' \in [at : {"idle", "asking", "decided"}, walk : SUBSET Items]
      /\ spar'.walk = spar.walk /\ decisions' \in Nat
  BY DEF Decide, TypeOK
<1>7. /\ file.status = bet[b].status \/ file.status = "dead"
      /\ file.deferred = bet[b].deferred \/ file.deferred > today
  BY DEF Decide
<1> HIDE DEF b, file
<1>8. QED
  BY <1>1, <1>3, <1>4, <1>5, <1>6, <1>7, WritesOutside

LEMMA CreateOutside ==
  ASSUME TypeOK, NEW b \in Bets, CreateBet(b) \/ BetCreated(b)
  PROVE  Outside
<1>1. bet[b] \in BetFiles /\ today \in Nat
  BY DEF TypeOK
<1>2. /\ UNCHANGED <<today, signal, queue, detections, before, settled>>
      /\ spar' \in [at : {"idle", "asking", "decided"}, walk : SUBSET Items]
      /\ spar'.walk = spar.walk /\ decisions' \in Nat
      /\ bet[b].status \notin {"active", "dead"}
  BY DEF CreateBet, BetCreated, TypeOK, counts
<1>3. \E file \in BetFiles : Writes(b, file)
  <2>1. CASE CreateBet(b)
    <3>1. [bet[b] EXCEPT !.status = "torn"] \in BetFiles
      BY <1>1 DEF BetFiles, Statuses
    <3>2. QED
      BY <2>1, <3>1 DEF CreateBet
  <2>2. CASE BetCreated(b)
    <3>1. [bet[b] EXCEPT !.status = "active", !.reviewed = today] \in BetFiles
      BY <1>1 DEF BetFiles, Statuses
    <3>2. QED
      BY <2>2, <3>1 DEF BetCreated
  <2>3. QED
    BY <2>1, <2>2
<1>4. QED
  BY <1>2, <1>3, WritesOutside

LEMMA CommitOutside == ASSUME TypeOK, Commit PROVE Outside
<1>1. /\ dirty' = {} /\ Disturbs /\ committed' = [b \in Bets |-> IF b \in dirty THEN today ELSE committed[b]]
      /\ UNCHANGED <<today, bet, signal, queue, spar, detections, decisions, before, settled>>
  BY DEF Commit, counts
<1>2. /\ detector' \in [Detectors -> Detections]
      /\ \A d \in Detectors :
           \/ detector[d].at = "idle" /\ detector'[d] = Idle
           \/ Same(detector[d], detector'[d]) /\ ~detector'[d].quiet
  BY <1>1, DisturbsAll
<1>3. committed' \in [Bets -> Nat]
  BY <1>1 DEF TypeOK
<1>4. TypeOK'
  BY <1>1, <1>2, <1>3 DEF TypeOK
<1>5. QED
  BY <1>1, <1>2, <1>4 DEF Outside, Known, OpenTo

LEMMA SignalOutside ==
  ASSUME TypeOK, NEW s \in Signals, NEW dated \in 0 .. MaxDay, Signal(s, dated)
  PROVE  Outside
<1>1. /\ signal' = [signal EXCEPT ![s] = [made |-> today, dated |-> dated]] /\ Disturbs
      /\ UNCHANGED <<today, bet, dirty, committed, queue, spar, detections, decisions, before, settled>>
  BY DEF Signal, counts, bets
<1>2. /\ detector' \in [Detectors -> Detections]
      /\ \A d \in Detectors :
           \/ detector[d].at = "idle" /\ detector'[d] = Idle
           \/ Same(detector[d], detector'[d]) /\ ~detector'[d].quiet
  BY <1>1, DisturbsAll
<1>3. signal' \in [Signals -> [made : Nat, dated : Nat]]
  <2>1. dated \in Nat /\ today \in Nat
    BY DetectAssumption DEF TypeOK
  <2>2. QED
    BY <1>1, <2>1 DEF TypeOK
<1>4. TypeOK'
  BY <1>1, <1>2, <1>3 DEF TypeOK
<1>5. QED
  BY <1>1, <1>2, <1>4 DEF Outside, Known, OpenTo

LEMMA OtherOutside ==
  ASSUME TypeOK, BeginSpar \/ Quit \/ NextDay \/ UNCHANGED vars
  PROVE  Outside
<1>1. /\ UNCHANGED <<queue, before, bet, signal, committed, dirty, detections, decisions, detector>>
      /\ settled' \subseteq settled
  BY DEF BeginSpar, Quit, NextDay, vars, bets, counts
<1>2. today' = today \/ (today' = today + 1 /\ \A d \in Detectors : detector[d].at = "idle")
  BY DEF BeginSpar, Quit, NextDay, vars
<1>3. spar' \in [at : {"idle", "asking", "decided"}, walk : SUBSET Items]
      /\ spar'.walk \subseteq spar.walk \cup queue.items
  <2>1. CASE BeginSpar
    <3>1. spar' = [at |-> "asking", walk |-> {c \in queue.items : bet[c.id[2]].deferred <= today}]
      BY <2>1 DEF BeginSpar
    <3>2. QED
      BY <3>1 DEF TypeOK
  <2>2. CASE Quit
    BY <2>2 DEF Quit, TypeOK
  <2>3. CASE NextDay \/ UNCHANGED vars
    BY <2>3 DEF NextDay, vars, TypeOK
  <2>4. QED
    BY <2>1, <2>2, <2>3
<1>4. today' \in Nat \ {0}
  BY <1>2 DEF TypeOK
<1>5. TypeOK'
  BY <1>1, <1>3, <1>4 DEF TypeOK
<1>6. \A d \in Detectors : Same(detector[d], detector'[d])
  BY <1>1, SameSelf DEF TypeOK
<1>7. \A id \in settled' : ~OpenTo(id, today) => ~OpenTo(id, today)'
  BY <1>1 DEF BeginSpar, Quit, NextDay, vars, OpenTo
<1>8. \A d \in Detectors :
        detector'[d].quiet /\ detector[d].at # "idle" => UNCHANGED <<today, bet, signal>>
  BY <1>1, <1>2
<1>9. QED
  BY <1>1, <1>2, <1>3, <1>5, <1>6, <1>7, <1>8 DEF Outside, Known
-------------------------------------------------------------------------------
(* Every step, and the types.                                              *)

LEMMA StepCases ==
  ASSUME TypeOK, [Next]_vars
  PROVE  \/ \E d \in Detectors :
              \/ StartDetect(d) \/ ReadBet(d) \/ ParseQueue(d) \/ OpenQueue(d) \/ WriteQueue(d)
              \/ KillDetect(d)
              \/ \E yesterdays \in BOOLEAN, failed \in SUBSET Signals : Collect(d, yesterdays, failed)
              \/ \E yesterdays \in BOOLEAN, fails \in BOOLEAN : GitLog(d, yesterdays, fails)
         \/ \E c \in spar.walk : Remove(c)
         \/ Outside
<1>1. ASSUME NEW c \in spar.walk, NEW how \in {"confirm", "edit", "kill", "defer"},
             NEW draft \in Drafts, NEW until \in 0 .. MaxDay, Decide(c, how, draft, until)
      PROVE  Outside
  BY <1>1, DecideOutside
<1>2. ASSUME NEW b \in Bets, CreateBet(b) \/ BetCreated(b) PROVE Outside
  BY <1>2, CreateOutside
<1>3. ASSUME NEW s \in Signals, NEW dated \in 0 .. MaxDay, Signal(s, dated) PROVE Outside
  BY <1>3, SignalOutside
<1>4. CASE Commit
  BY <1>4, CommitOutside
<1>5. CASE BeginSpar \/ Quit \/ NextDay \/ UNCHANGED vars
  BY <1>5, OtherOutside
<1>6. QED
  BY <1>1, <1>2, <1>3, <1>4, <1>5, Zenon DEF Next

\* What a detection leaves in the queue: what it keeps, and what it has found.
LEMMA MergedItems ==
  ASSUME TypeOK, NEW d \in Detectors
  PROVE  /\ Merged(d) \in SUBSET Items
         /\ IdsOf(Merged(d)) = detector[d].found \cup
              IdsOf({c \in detector[d].existing : c.id[2] \notin detector[d].modified})
         /\ \A c \in detector[d].existing :
              c.id[2] \notin detector[d].modified => c \in Merged(d)
<1> DEFINE found == detector[d].found
           kept == {c \in detector[d].existing : c.id[2] \notin detector[d].modified}
           new == {[id |-> i, first |-> today] : i \in found \ {c.id : c \in kept}}
<1>1. /\ detector[d] \in Detections /\ found \in SUBSET Conflicts /\ kept \in SUBSET Items
      /\ today \in Nat
  BY DEF TypeOK, Detections
<1>2. Merged(d) = kept \cup new
  BY DEF Merged, MergeDetected
<1>3. new \in SUBSET Items /\ IdsOf(new) = found \ IdsOf(kept)
  <2> DEFINE fresh == found \ {c.id : c \in kept}
  <2>1. fresh = found \ IdsOf(kept) /\ \A i \in fresh : i \in Conflicts
    BY <1>1 DEF IdsOf
  <2> HIDE DEF fresh
  <2>2. \A i \in fresh : [id |-> i, first |-> today] \in Items /\ [id |-> i, first |-> today].id = i
    BY <1>1, <2>1 DEF Items
  <2>3. {c.id : c \in {[id |-> i, first |-> today] : i \in fresh}} = fresh
    BY <2>2
  <2>4. new = {[id |-> i, first |-> today] : i \in fresh}
    BY DEF fresh
  <2> HIDE DEF new
  <2>5. QED
    BY <2>1, <2>2, <2>3, <2>4 DEF IdsOf
<1>4. IdsOf(kept \cup new) = IdsOf(kept) \cup IdsOf(new)
  BY DEF IdsOf
<1> HIDE DEF new
<1>5. QED
  BY <1>1, <1>2, <1>3, <1>4

LEMMA TypeInit == Init => TypeOK
<1> SUFFICES ASSUME Init PROVE TypeOK
  OBVIOUS
<1>1. bet \in [Bets -> BetFiles]
  BY DEF Init, BetFiles, Statuses, Says
<1>2. detector \in [Detectors -> Detections]
  BY IdleType DEF Init
<1>3. /\ today \in Nat \ {0} /\ detections \in Nat /\ decisions \in Nat /\ dirty \subseteq Bets
      /\ committed \in [Bets -> Nat] /\ signal \in [Signals -> [made : Nat, dated : Nat]]
  BY DEF Init, FirstDay
<1>4. /\ queue \in [whole : BOOLEAN, items : SUBSET Items]
      /\ spar \in [at : {"idle", "asking", "decided"}, walk : SUBSET Items]
      /\ before \in [items : SUBSET Items, torn : BOOLEAN] /\ settled \subseteq Conflicts
  <2>1. Old \in SUBSET Items
    BY DetectAssumption DEF Old, Items, FirstDay
  <2>2. QED
    BY <2>1 DEF Init
<1>5. QED
  BY <1>1, <1>2, <1>3, <1>4 DEF TypeOK

LEMMA TypeNext == TypeOK /\ [Next]_vars => TypeOK'
<1> SUFFICES ASSUME TypeOK, [Next]_vars PROVE TypeOK'
  OBVIOUS
<1>1. ASSUME UNCHANGED others, detector' \in [Detectors -> Detections], detections' \in Nat,
             queue' \in [whole : BOOLEAN, items : SUBSET Items], before' \in [items : SUBSET Items, torn : BOOLEAN]
      PROVE  TypeOK'
  BY <1>1 DEF others, TypeOK
<1>2. /\ queue \in [whole : BOOLEAN, items : SUBSET Items] /\ detections \in Nat
      /\ before \in [items : SUBSET Items, torn : BOOLEAN]
  BY DEF TypeOK
<1>3. ASSUME NEW d \in Detectors, StartDetect(d) PROVE TypeOK'
  BY <1>1, <1>2, <1>3, StartStep
<1>4. ASSUME NEW d \in Detectors, ReadBet(d) PROVE TypeOK'
  BY <1>1, <1>2, <1>4, ReadStep
<1>5. ASSUME NEW d \in Detectors, NEW yesterdays \in BOOLEAN, NEW failed \in SUBSET Signals,
             Collect(d, yesterdays, failed)
      PROVE  TypeOK'
  BY <1>1, <1>2, <1>5, CollectStep
<1>6. ASSUME NEW d \in Detectors, ParseQueue(d) PROVE TypeOK'
  BY <1>1, <1>2, <1>6, ParseStep
<1>7. ASSUME NEW d \in Detectors, NEW yesterdays \in BOOLEAN, NEW fails \in BOOLEAN,
             GitLog(d, yesterdays, fails)
      PROVE  TypeOK'
  BY <1>1, <1>2, <1>7, LogStep
<1>8. ASSUME NEW d \in Detectors, OpenQueue(d) PROVE TypeOK'
  <2>1. [whole |-> FALSE, items |-> {}] \in [whole : BOOLEAN, items : SUBSET Items]
    OBVIOUS
  <2>2. QED
    BY <1>1, <1>2, <1>8, <2>1, OpenStep
<1>9. ASSUME NEW d \in Detectors, WriteQueue(d) PROVE TypeOK'
  <2>1. Merged(d) \in SUBSET Items
    BY MergedItems
  <2>2. /\ UNCHANGED others /\ detector' \in [Detectors -> Detections] /\ detections' = detections
        /\ queue' = [whole |-> TRUE, items |-> Merged(d)]
        /\ before' = [items |-> Merged(d), torn |-> FALSE]
    BY <1>9, WriteStep
  <2>3. /\ queue' \in [whole : BOOLEAN, items : SUBSET Items]
        /\ before' \in [items : SUBSET Items, torn : BOOLEAN]
    BY <2>1, <2>2
  <2>4. QED
    BY <1>1, <1>2, <2>1, <2>2, <2>3
<1>10. ASSUME NEW d \in Detectors, KillDetect(d) PROVE TypeOK'
  <2>1. before' \in [items : SUBSET Items, torn : BOOLEAN]
    <3>1. [before EXCEPT !.torn = ~queue.whole] \in [items : SUBSET Items, torn : BOOLEAN]
      BY <1>2
    <3>2. QED
      BY <1>2, <1>10, <3>1, KillStep
  <2>2. QED
    BY <1>1, <1>2, <1>10, <2>1, KillStep
<1>11. ASSUME NEW c \in spar.walk, Remove(c) PROVE TypeOK'
  <2>1. /\ queue' \in [whole : BOOLEAN, items : SUBSET Items]
        /\ before' \in [items : SUBSET Items, torn : BOOLEAN]
    <3>1. {other \in queue.items : other.id # c.id} \in SUBSET Items
      BY <1>2
    <3>2. /\ queue' = [whole |-> TRUE, items |-> {other \in queue.items : other.id # c.id}]
          /\ before' = [items |-> queue'.items, torn |-> FALSE]
      BY <1>11, RemoveStep
    <3>3. QED
      BY <3>1, <3>2
  <2>2. settled' \subseteq Conflicts
    BY <1>11, RemoveStep DEF TypeOK, Items
  <2>3. QED
    BY <1>11, <2>1, <2>2, RemoveStep DEF TypeOK
<1>12. CASE Outside
  BY <1>12 DEF Outside
<1>13. QED
  BY <1>3, <1>4, <1>5, <1>6, <1>7, <1>8, <1>9, <1>10, <1>11, <1>12, StepCases

\* Every state of detection and /spar is well typed.
THEOREM DetectTypes == Spec => []TypeOK
BY TypeInit, TypeNext, PTL DEF Spec
-------------------------------------------------------------------------------
(* A settled conflict stays off the queue.                                 *)

\* What is read, found and taken from the queue by a step of one detection.
Learns(d) ==
  LET r == detector[d]
      s == detector'[d]
  IN /\ UNCHANGED others
     /\ \A e \in Detectors : e # d => Same(detector[e], detector'[e])
     /\ queue'.items \in {queue.items, {}, Merged(d)}
     /\ s.at = "idle" => IsBlank(s)
     /\ \/ IsBlank(s)
        \/ /\ s.found = r.found /\ s.existing = r.existing
           /\ \/ s.read = r.read
              \/ \E b \in Bets : /\ bet[b].status = "active"
                                /\ s.read = r.read \cup {[bet |-> b, file |-> bet[b]]}
        \/ /\ s.read = {} /\ s.existing = r.existing
           /\ \E signals \in SUBSET AllSignals : s.found = DetectConflicts(r.read, signals)
        \/ s.read = r.read /\ s.found = r.found /\ s.existing = queue.items

LEMMA OwnStep ==
  ASSUME TypeOK, [Next]_vars
  PROVE  (\E d \in Detectors : Learns(d)) \/ (\E c \in spar.walk : Remove(c)) \/ Outside
<1>1. ASSUME NEW d \in Detectors, StartDetect(d) PROVE Learns(d)
  BY <1>1, StartStep DEF Learns
<1>2. ASSUME NEW d \in Detectors, ReadBet(d) PROVE Learns(d)
  <2> DEFINE b == Files[detector[d].next]
             r == detector[d]
             s == detector'[d]
  <2>1. /\ b \in Bets /\ s.at = "reading" /\ s.found = r.found /\ s.existing = r.existing
        /\ s.read = IF bet[b].status = "active" THEN r.read \cup {[bet |-> b, file |-> bet[b]]}
                    ELSE r.read
        /\ UNCHANGED <<others, queue>>
        /\ \A e \in Detectors : e # d => Same(detector[e], detector'[e])
    BY <1>2, ReadStep
  <2> HIDE DEF b
  <2>2. QED
    BY <2>1 DEF Learns
<1>3. ASSUME NEW d \in Detectors, NEW yesterdays \in BOOLEAN, NEW failed \in SUBSET Signals,
             Collect(d, yesterdays, failed)
      PROVE  Learns(d)
  BY <1>3, CollectStep DEF Learns
<1>4. ASSUME NEW d \in Detectors, ParseQueue(d) PROVE Learns(d)
  BY <1>4, ParseStep DEF Learns
<1>5. ASSUME NEW d \in Detectors, NEW yesterdays \in BOOLEAN, NEW fails \in BOOLEAN,
             GitLog(d, yesterdays, fails)
      PROVE  Learns(d)
  BY <1>5, LogStep DEF Learns
<1>6. ASSUME NEW d \in Detectors, OpenQueue(d) PROVE Learns(d)
  BY <1>6, OpenStep DEF Learns
<1>7. ASSUME NEW d \in Detectors, WriteQueue(d) PROVE Learns(d)
  BY <1>7, WriteStep DEF Learns
<1>8. ASSUME NEW d \in Detectors, KillDetect(d) PROVE Learns(d)
  BY <1>8, KillStep DEF Learns
<1>9. QED
  BY <1>1, <1>2, <1>3, <1>4, <1>5, <1>6, <1>7, <1>8, StepCases

IdleIsEmpty == \A d \in Detectors : detector[d].at = "idle" => IsBlank(detector[d])

LEMMA SameBlank == ASSUME NEW r, NEW s, Same(r, s), IsBlank(r) PROVE IsBlank(s)
BY DEF Same, IsBlank, Detections

LEMMA EmptyNext == TypeOK /\ IdleIsEmpty /\ [Next]_vars => IdleIsEmpty'
<1> SUFFICES ASSUME TypeOK, IdleIsEmpty, [Next]_vars, NEW e \in Detectors, detector'[e].at = "idle"
             PROVE  IsBlank(detector'[e])
  BY DEF IdleIsEmpty
<1>1. ASSUME Same(detector[e], detector'[e]) PROVE IsBlank(detector'[e])
  BY <1>1, SameBlank DEF IdleIsEmpty, Same
<1>2. ASSUME NEW d \in Detectors, Learns(d) PROVE IsBlank(detector'[e])
  BY <1>1, <1>2 DEF Learns
<1>3. ASSUME NEW c \in spar.walk, Remove(c) PROVE IsBlank(detector'[e])
  BY <1>1, <1>3, RemoveStep
<1>4. CASE Outside
  BY <1>1, <1>4, IdleIsBlank DEF Outside
<1>5. QED
  BY <1>2, <1>3, <1>4, OwnStep

\* Conflicts are about bets that exist: a bet is never removed, and never torn again.
KnowsBets(r) ==
  /\ \A id \in r.found : Known(id)
  /\ \A c \in r.existing : Known(c.id)
  /\ \A q \in r.read : bet[q.bet].status \in {"active", "dead"}

AllKnown ==
  /\ \A id \in settled : Known(id)
  /\ \A c \in queue.items : Known(c.id)
  /\ \A c \in spar.walk : Known(c.id)
  /\ \A d \in Detectors : KnowsBets(detector[d])

LEMMA KnowsOnlyKnown ==
  ASSUME TypeOK, AllKnown, NEW d \in Detectors, Learns(d)
  PROVE  KnowsBets(detector'[d])
<1> DEFINE r == detector[d]
           s == detector'[d]
<1>1. KnowsBets(r) /\ r.read \in SUBSET [bet : Bets, file : BetFiles]
  BY DEF AllKnown, TypeOK, Detections
<1> HIDE DEF r, s
<1>2. ASSUME IsBlank(s) PROVE KnowsBets(s)
  BY <1>2 DEF IsBlank, KnowsBets
<1>3. ASSUME s.found = r.found /\ s.existing = r.existing /\ s.read = r.read
      PROVE  KnowsBets(s)
  BY <1>1, <1>3 DEF KnowsBets
<1>4. ASSUME NEW b \in Bets, bet[b].status = "active", s.found = r.found, s.existing = r.existing,
             s.read = r.read \cup {[bet |-> b, file |-> bet[b]]}
      PROVE  KnowsBets(s)
  BY <1>1, <1>4 DEF KnowsBets
<1>5. ASSUME NEW signals \in SUBSET AllSignals, s.found = DetectConflicts(r.read, signals),
             s.read = {}, s.existing = r.existing
      PROVE  KnowsBets(s)
  <2>1. ASSUME NEW id \in s.found PROVE Known(id)
    <3>1. \E q \in r.read : id[2] = q.bet
      BY <1>1, <1>5, <2>1, FoundShape
    <3>2. QED
      BY <1>1, <3>1 DEF KnowsBets, Known
  <2>2. QED
    BY <1>1, <1>5, <2>1 DEF KnowsBets
<1>6. ASSUME s.read = r.read /\ s.found = r.found /\ s.existing = queue.items
      PROVE  KnowsBets(s)
  BY <1>1, <1>6 DEF KnowsBets, AllKnown
<1>7. KnowsBets(s)
  BY <1>2, <1>3, <1>4, <1>5, <1>6 DEF Learns, r, s
<1>8. QED
  BY <1>7 DEF s

LEMMA KnownNext == TypeOK /\ AllKnown /\ [Next]_vars => AllKnown'
<1> SUFFICES ASSUME TypeOK, AllKnown, [Next]_vars PROVE AllKnown'
  OBVIOUS
<1>1. ASSUME NEW d \in Detectors, Learns(d) PROVE AllKnown'
  <2>1. UNCHANGED <<bet, settled, spar>>
    BY <1>1 DEF Learns, others
  <2>2. ASSUME NEW e \in Detectors PROVE KnowsBets(detector'[e])
    <3>1. CASE e = d
      BY <1>1, <3>1, KnowsOnlyKnown
    <3>2. CASE e # d
      BY <1>1, <3>2 DEF Learns, Same, AllKnown, KnowsBets
    <3>3. QED
      BY <3>1, <3>2
  <2>3. ASSUME NEW c \in queue'.items PROVE Known(c.id)
    <3>1. CASE c \in queue.items
      BY <3>1 DEF AllKnown
    <3>2. CASE c \in Merged(d)
      <4>1. c.id \in detector[d].found \/ \E x \in detector[d].existing : c.id = x.id
        <5>1. c.id \in IdsOf(Merged(d))
          BY <3>2 DEF IdsOf
        <5>2. QED
          BY <5>1, MergedItems DEF IdsOf
      <4>2. QED
        BY <4>1 DEF AllKnown, KnowsBets
    <3>3. QED
      BY <1>1, <2>3, <3>1, <3>2 DEF Learns
  <2>4. QED
    BY <2>1, <2>2, <2>3 DEF AllKnown, KnowsBets, Known
<1>2. ASSUME NEW c \in spar.walk, Remove(c) PROVE AllKnown'
  <2>1. /\ bet' = bet /\ settled' \subseteq settled \cup {c.id} /\ spar'.walk \subseteq spar.walk
        /\ queue'.items \subseteq queue.items
        /\ \A d \in Detectors : Same(detector[d], detector'[d])
    BY <1>2, RemoveStep
  <2>2. QED
    BY <2>1 DEF AllKnown, KnowsBets, Known, Same
<1>3. CASE Outside
  <2>1. /\ queue' = queue /\ settled' \subseteq settled
        /\ spar'.walk \subseteq spar.walk \cup queue.items
        /\ \A id \in Conflicts : Known(id) => Known(id)'
    BY <1>3 DEF Outside
  <2>2. ASSUME NEW b \in Bets, bet[b].status \in {"active", "dead"}
        PROVE  bet'[b].status \in {"active", "dead"}
    <3>1. <<"stale", b, b>> \in Conflicts /\ <<"stale", b, b>>[2] = b
      BY DEF Conflicts, Kinds
    <3>2. QED
      BY <2>1, <2>2, <3>1 DEF Known
  <2>3. ASSUME NEW d \in Detectors PROVE KnowsBets(detector[d])'
    <3>1. CASE Same(detector[d], detector'[d])
      <4>1. detector[d] \in Detections /\ KnowsBets(detector[d])
        BY DEF TypeOK, AllKnown
      <4>2. /\ \A id \in detector[d].found : id \in Conflicts
            /\ \A c \in detector[d].existing : c.id \in Conflicts
            /\ \A q \in detector[d].read : q.bet \in Bets
        BY <4>1 DEF Detections, Items
      <4>3. QED
        BY <2>1, <2>2, <3>1, <4>1, <4>2 DEF KnowsBets, Same
    <3>2. CASE detector'[d] = Idle
      BY <3>2, IdleIsBlank DEF IsBlank, KnowsBets
    <3>3. QED
      BY <1>3, <3>1, <3>2 DEF Outside
  <2>4. /\ \A id \in settled : id \in Conflicts
        /\ \A c \in queue.items \cup spar.walk : c.id \in Conflicts
    BY DEF TypeOK, Items
  <2>5. QED
    BY <2>1, <2>3, <2>4 DEF AllKnown
<1>4. QED
  BY <1>1, <1>2, <1>3, OwnStep

\* A detection knows nothing of the conflict, and of its bet only that it is not up.
Unheard(id, r) ==
  /\ id \notin r.found /\ id \notin IdsOf(r.existing)
  /\ \A q \in r.read : q.bet = id[2] => id[1] # "cross" /\ q.file.deferred > today

\* Whoever could write the queue does not know a settled conflict, and cannot find it.
Shut(id) ==
  /\ ~OpenTo(id, today) /\ id \notin IdsOf(queue.items)
  /\ \A d \in Detectors : Unheard(id, detector[d])

Closed == \A id \in settled : Shut(id)

LEMMA BlankIsUnheard == ASSUME NEW id, NEW r, IsBlank(r) PROVE Unheard(id, r)
BY DEF IsBlank, Unheard, IdsOf

\* What a detection learns does not contain a settled conflict.
LEMMA LearnsUnheard ==
  ASSUME TypeOK, Closed, NEW d \in Detectors, Learns(d), NEW id \in settled
  PROVE  Unheard(id, detector'[d])
<1> DEFINE r == detector[d]
           s == detector'[d]
<1>1. /\ Unheard(id, r) /\ ~OpenTo(id, today) /\ id \notin IdsOf(queue.items)
      /\ r.read \in SUBSET [bet : Bets, file : BetFiles] /\ today \in Nat
  BY DEF Closed, Shut, TypeOK, Detections
<1> HIDE DEF r, s
<1>2. ASSUME IsBlank(s) PROVE Unheard(id, s)
  BY <1>2, BlankIsUnheard
<1>3. ASSUME s.found = r.found, s.existing = r.existing, s.read = r.read PROVE Unheard(id, s)
  BY <1>1, <1>3 DEF Unheard
<1>4. ASSUME NEW b \in Bets, bet[b].status = "active", s.found = r.found, s.existing = r.existing,
             s.read = r.read \cup {[bet |-> b, file |-> bet[b]]}
      PROVE  Unheard(id, s)
  <2>1. bet[b].deferred \in Nat
    BY DEF TypeOK, BetFiles
  <2>2. ASSUME b = id[2] PROVE id[1] # "cross" /\ bet[b].deferred > today
    BY <1>1, <1>4, <2>1, <2>2 DEF OpenTo
  <2>3. QED
    BY <1>1, <1>4, <2>2 DEF Unheard
<1>5. ASSUME NEW signals \in SUBSET AllSignals, s.found = DetectConflicts(r.read, signals),
             s.read = {}, s.existing = r.existing
      PROVE  Unheard(id, s)
  <2>1. ASSUME id \in s.found PROVE FALSE
    <3>1. PICK q \in r.read : id[2] = q.bet /\ (id[1] = "cross" \/ q.file.deferred <= today)
      BY <1>1, <1>5, <2>1, FoundShape
    <3>2. id[1] # "cross" /\ q.file.deferred > today /\ q.file.deferred \in Nat
      BY <1>1, <3>1 DEF Unheard, BetFiles
    <3>3. QED
      BY <1>1, <3>1, <3>2
  <2>2. QED
    BY <1>1, <1>5, <2>1 DEF Unheard
<1>6. ASSUME s.read = r.read, s.found = r.found, s.existing = queue.items
      PROVE  Unheard(id, s)
  BY <1>1, <1>6 DEF Unheard
<1>7. Unheard(id, s)
  BY <1>2, <1>3, <1>4, <1>5, <1>6 DEF Learns, r, s
<1>8. QED
  BY <1>7 DEF s

LEMMA ClosedNext ==
  TypeOK /\ IdleIsEmpty /\ AllKnown /\ Closed /\ [Next]_vars => Closed'
<1> SUFFICES ASSUME TypeOK, IdleIsEmpty, AllKnown, Closed, [Next]_vars, NEW id \in settled'
             PROVE  Shut(id)'
  BY DEF Closed
<1>1. ASSUME NEW r, NEW s, Same(r, s), Unheard(id, r) PROVE Unheard(id, s)
  BY <1>1 DEF Same, Unheard
<1>2. ASSUME NEW d \in Detectors, Learns(d)
      PROVE  Shut(id)'
  <2>1. /\ today' = today /\ bet' = bet /\ id \in settled
        /\ \A e \in Detectors : e # d => Same(detector[e], detector'[e])
    BY <1>2 DEF Learns, others
  <2>2. ~OpenTo(id, today) /\ id \notin IdsOf(queue.items) /\ \A e \in Detectors : Unheard(id, detector[e])
    BY <2>1 DEF Closed, Shut
  <2>3. id \notin IdsOf(queue'.items)
    <3>1. id \notin IdsOf({}) /\ id \notin IdsOf(Merged(d))
      BY <2>2, MergedItems DEF IdsOf, Unheard
    <3>2. QED
      BY <1>2, <2>2, <3>1 DEF Learns
  <2>4. ASSUME NEW e \in Detectors PROVE Unheard(id, detector'[e])
    BY <1>1, <1>2, <2>1, <2>2, LearnsUnheard
  <2>5. QED
    BY <2>1, <2>2, <2>3, <2>4 DEF Shut, OpenTo, Unheard
<1>3. ASSUME NEW c \in spar.walk, Remove(c)
      PROVE  Shut(id)'
  <2>1. /\ today' = today /\ bet' = bet
        /\ queue'.items = {other \in queue.items : other.id # c.id}
        /\ \A d \in Detectors : Same(detector[d], detector'[d])
        /\ settled' \subseteq settled \cup {c.id}
        /\ c.id \in settled' \ settled =>
             ~OpenTo(c.id, today) /\ \A d \in Detectors : detector[d].at = "idle"
    BY <1>3, RemoveStep
  <2>2. /\ ~OpenTo(id, today) /\ id \notin IdsOf(queue'.items)
        /\ \A d \in Detectors : Unheard(id, detector[d])
    <3>1. CASE id \in settled
      BY <2>1, <3>1 DEF Closed, Shut, IdsOf
    <3>2. CASE id \notin settled
      <4>1. id = c.id /\ ~OpenTo(id, today) /\ \A d \in Detectors : detector[d].at = "idle"
        BY <2>1, <3>2
      <4>2. \A d \in Detectors : Unheard(id, detector[d])
        BY <4>1, BlankIsUnheard DEF IdleIsEmpty
      <4>3. QED
        BY <2>1, <4>1, <4>2 DEF IdsOf
    <3>3. QED
      BY <3>1, <3>2
  <2>3. \A d \in Detectors : Unheard(id, detector'[d])
    BY <1>1, <2>1, <2>2
  <2>4. QED
    BY <2>1, <2>2, <2>3 DEF Shut, OpenTo, Unheard
<1>4. ASSUME Outside
      PROVE  Shut(id)'
  <2>1. /\ id \in settled /\ queue' = queue
        /\ Known(id) /\ ~OpenTo(id, today) => ~OpenTo(id, today)'
        /\ today' = today \/ \A d \in Detectors : detector[d].at = "idle"
        /\ \A d \in Detectors : detector'[d] = Idle \/ Same(detector[d], detector'[d])
    BY <1>4 DEF Outside
  <2>2. /\ ~OpenTo(id, today) /\ id \notin IdsOf(queue.items) /\ Known(id)
        /\ \A d \in Detectors : Unheard(id, detector[d])
    BY <2>1 DEF Closed, Shut, AllKnown
  <2>3. ASSUME NEW d \in Detectors PROVE Unheard(id, detector[d])'
    <3>1. CASE IsBlank(detector'[d])
      BY <3>1 DEF IsBlank, Unheard, IdsOf
    <3>2. CASE today' = today /\ Same(detector[d], detector'[d])
      <4>1. Unheard(id, detector'[d])
        BY <1>1, <2>2, <3>2
      <4>2. QED
        BY <3>2, <4>1 DEF Unheard
    <3>3. CASE detector[d].at = "idle" /\ Same(detector[d], detector'[d])
      BY <3>1, <3>3, SameBlank DEF IdleIsEmpty
    <3>4. QED
      BY <2>1, <3>1, <3>2, <3>3, IdleIsBlank
  <2>4. QED
    BY <2>1, <2>2, <2>3 DEF Shut
<1>5. QED
  BY <1>2, <1>3, <1>4, OwnStep

\* What /spar has settled by a kill or a deferral is not on the queue for as long as the
\* bet is dead or deferred, whichever detections run, fail or overtake one another: what
\* a detection under way has read, found or taken from the queue does not contain it.
THEOREM SettledAlwaysStaysOff == Spec => []SettledStaysOff
<1>1. Init => IdleIsEmpty /\ AllKnown /\ Closed
  <2> SUFFICES ASSUME Init PROVE IdleIsEmpty /\ AllKnown /\ Closed
    OBVIOUS
  <2>1. /\ \A d \in Detectors : IsBlank(detector[d])
        /\ settled = {} /\ queue.items = Old /\ spar.walk = {}
    BY IdleIsBlank DEF Init
  <2>2. \A c \in Old : Known(c.id)
    <3>1. ASSUME NEW id \in Queued PROVE Known(id)
      <4>1. id[2] \in Bets /\ id[2] \notin Unwritten
        BY DetectAssumption DEF Conflicts
      <4>2. QED
        BY <4>1 DEF Init, Known
    <3>2. QED
      BY <3>1 DEF Old
  <2>3. QED
    BY <2>1, <2>2 DEF IdleIsEmpty, AllKnown, KnowsBets, Closed, IsBlank
<1>2. Closed => SettledStaysOff
  BY DEF Closed, Shut, SettledStaysOff
<1>3. QED
  BY <1>1, <1>2, TypeInit, TypeNext, EmptyNext, KnownNext, ClosedNext, PTL DEF Spec
-------------------------------------------------------------------------------
(* A conflict keeps its age.                                               *)

\* While a detection is current, what it has taken from the queue is what there is left of
\* it, and nobody else is writing the queue.
IsAlone(d) ==
  /\ detector[d].at \in {"parsed", "logged", "writing"} /\ detector[d].existing = Left
  /\ \A e \in Detectors : detector[e].at = "writing" => e = d
  /\ detector[d].at = "writing" => ~queue.whole

Alone == \A d \in Detectors : detector[d].current => IsAlone(d)

\* A queue that is not whole is empty; if nobody is writing it, it was torn by a kill.
BeforeIsQueue ==
  /\ queue.whole => before.items = queue.items /\ ~before.torn
  /\ ~queue.whole => /\ queue.items = {}
                     /\ before.torn \/ \E d \in Detectors : detector[d].at = "writing"

ModifiedLately ==
  \A d \in Detectors : \A b \in detector[d].modified : committed[b] >= today - 1

LEMMA AloneNext == TypeOK /\ Alone /\ BeforeIsQueue /\ [Next]_vars => Alone'
<1> SUFFICES ASSUME TypeOK, Alone, BeforeIsQueue, [Next]_vars, NEW f \in Detectors, detector'[f].current
             PROVE  IsAlone(f)'
  BY DEF Alone
<1>1. ASSUME NEW d \in Detectors, detector'[d].at # "writing", f # d, queue' = queue, before' = before,
             \A e \in Detectors : e # d => Same(detector[e], detector'[e])
      PROVE  IsAlone(f)'
  <2>1. detector[f].current /\ Same(detector[f], detector'[f])
    BY <1>1 DEF Same
  <2>2. IsAlone(f)
    BY <2>1 DEF Alone
  <2>3. QED
    BY <1>1, <2>1, <2>2 DEF IsAlone, Same, Left
<1>2. ASSUME NEW d \in Detectors, StartDetect(d) PROVE IsAlone(f)'
  <2>1. /\ detector'[d].at = "reading" /\ ~detector'[d].current /\ queue' = queue /\ before' = before
        /\ \A e \in Detectors : e # d => Same(detector[e], detector'[e])
    BY <1>2, StartStep DEF IsBlank
  <2>2. QED
    BY <1>1, <2>1
<1>3. ASSUME NEW d \in Detectors,
             \/ ReadBet(d)
             \/ \E yesterdays \in BOOLEAN, failed \in SUBSET Signals : Collect(d, yesterdays, failed)
      PROVE  IsAlone(f)'
  <2>1. /\ detector[d].at = "reading" /\ detector'[d].at \in {"reading", "detected"}
        /\ detector'[d].current = detector[d].current /\ queue' = queue /\ before' = before
        /\ \A e \in Detectors : e # d => Same(detector[e], detector'[e])
    <3>1. CASE ReadBet(d)
      BY <3>1, ReadStep
    <3>2. ASSUME NEW yesterdays \in BOOLEAN, NEW failed \in SUBSET Signals,
                 Collect(d, yesterdays, failed)
          PROVE  /\ detector[d].at = "reading" /\ detector'[d].at \in {"reading", "detected"}
                 /\ detector'[d].current = detector[d].current /\ queue' = queue
                 /\ before' = before
                 /\ \A e \in Detectors : e # d => Same(detector[e], detector'[e])
      BY <3>2, CollectStep
    <3>3. QED
      BY <1>3, <3>1, <3>2, Zenon
  <2>2. f # d
    <3>1. ~detector[d].current
      BY <2>1 DEF IsAlone, Alone
    <3>2. QED
      BY <2>1, <3>1
  <2>3. QED
    BY <1>1, <2>1, <2>2
<1>4. ASSUME NEW d \in Detectors, ParseQueue(d) PROVE IsAlone(f)'
  <2>1. /\ detector[d].at = "detected" /\ detector'[d].at = "parsed"
        /\ detector'[d].existing = queue.items
        /\ detector'[d].current <=> \A e \in Detectors : detector[e].at # "writing"
        /\ queue' = queue /\ before' = before
        /\ \A e \in Detectors : e # d => Same(detector[e], detector'[e])
    BY <1>4, ParseStep
  <2>2. CASE f = d
    BY <2>1, <2>2 DEF IsAlone, BeforeIsQueue, Same, Left
  <2>3. CASE f # d
    BY <1>1, <2>1, <2>3
  <2>4. QED
    BY <2>2, <2>3
<1>5. ASSUME NEW d \in Detectors, NEW yesterdays \in BOOLEAN, NEW fails \in BOOLEAN,
             GitLog(d, yesterdays, fails)
      PROVE  IsAlone(f)'
  <2>1. /\ detector[d].at = "parsed" /\ detector'[d].at = "logged"
        /\ detector'[d].existing = detector[d].existing
        /\ detector'[d].current = detector[d].current /\ queue' = queue /\ before' = before
        /\ \A e \in Detectors : e # d => Same(detector[e], detector'[e])
    BY <1>5, LogStep
  <2>2. CASE f = d
    BY <2>1, <2>2 DEF IsAlone, Alone, Same, Left
  <2>3. CASE f # d
    BY <1>1, <2>1, <2>3
  <2>4. QED
    BY <2>2, <2>3
<1>6. ASSUME NEW d \in Detectors, OpenQueue(d) PROVE IsAlone(f)'
  <2>1. /\ detector'[d].at = "writing" /\ detector'[d].existing = detector[d].existing
        /\ detector'[d].current = detector[d].current /\ ~queue'.whole /\ before' = before
        /\ \A e \in Detectors : e # d => Same(detector[e], detector'[e]) /\ ~detector'[e].current
    BY <1>6, OpenStep
  <2>2. f = d
    BY <2>1
  <2>3. QED
    BY <2>1, <2>2 DEF IsAlone, Alone, Same, Left
<1>7. ASSUME NEW d \in Detectors PROVE ~WriteQueue(d)
  BY <1>7, WriteStep DEF IsBlank
<1>8. ASSUME NEW d \in Detectors, KillDetect(d) PROVE IsAlone(f)'
  <2>1. /\ detector'[d].at = "idle" /\ ~detector'[d].current /\ queue' = queue
        /\ before' = IF detector[d].at = "writing" THEN [before EXCEPT !.torn = ~queue.whole] ELSE before
        /\ \A e \in Detectors : e # d => Same(detector[e], detector'[e])
    BY <1>8, KillStep DEF IsBlank
  <2>2. f # d /\ detector[d].at # "writing"
    BY <2>1 DEF IsAlone, Alone, Same, Left
  <2>3. QED
    BY <1>1, <2>1, <2>2
<1>9. ASSUME NEW c \in spar.walk PROVE ~Remove(c)
  BY <1>9, RemoveStep
<1>10. ASSUME Outside PROVE IsAlone(f)'
  <2>1. /\ queue' = queue /\ before' = before
        /\ \A d \in Detectors : detector'[d] = Idle \/ Same(detector[d], detector'[d])
    BY <1>10 DEF Outside
  <2>2. Same(detector[f], detector'[f]) /\ detector[f].current
    BY <2>1, IdleIsBlank DEF IsBlank, Same
  <2>3. ASSUME NEW e \in Detectors, detector'[e].at = "writing" PROVE detector[e].at = "writing"
    BY <2>1, <2>3, IdleIsBlank DEF Same
  <2>4. QED
    BY <2>1, <2>2, <2>3 DEF IsAlone, Alone, Same, Left
<1>11. QED
  BY <1>2, <1>3, <1>4, <1>5, <1>6, <1>7, <1>8, <1>9, <1>10, StepCases

LEMMA BeforeNext == TypeOK /\ BeforeIsQueue /\ [Next]_vars => BeforeIsQueue'
<1> SUFFICES ASSUME TypeOK, BeforeIsQueue, [Next]_vars PROVE BeforeIsQueue'
  OBVIOUS
<1>1. ASSUME NEW d \in Detectors, detector[d].at # "writing", queue' = queue, before' = before,
             \A e \in Detectors : e # d => Same(detector[e], detector'[e])
      PROVE  BeforeIsQueue'
  BY <1>1 DEF BeforeIsQueue, Same
<1>2. ASSUME NEW d \in Detectors, StartDetect(d) PROVE BeforeIsQueue'
  BY <1>1, <1>2, StartStep
<1>3. ASSUME NEW d \in Detectors, ReadBet(d) PROVE BeforeIsQueue'
  BY <1>1, <1>3, ReadStep
<1>4. ASSUME NEW d \in Detectors, NEW yesterdays \in BOOLEAN, NEW failed \in SUBSET Signals,
             Collect(d, yesterdays, failed)
      PROVE  BeforeIsQueue'
  BY <1>1, <1>4, CollectStep
<1>5. ASSUME NEW d \in Detectors, ParseQueue(d) PROVE BeforeIsQueue'
  BY <1>1, <1>5, ParseStep
<1>6. ASSUME NEW d \in Detectors, NEW yesterdays \in BOOLEAN, NEW fails \in BOOLEAN,
             GitLog(d, yesterdays, fails)
      PROVE  BeforeIsQueue'
  BY <1>1, <1>6, LogStep
<1>7. ASSUME NEW d \in Detectors, OpenQueue(d) PROVE BeforeIsQueue'
  BY <1>7, OpenStep DEF BeforeIsQueue
<1>8. ASSUME NEW d \in Detectors, WriteQueue(d) PROVE BeforeIsQueue'
  <2>1. /\ queue' = [whole |-> TRUE, items |-> Merged(d)]
        /\ before' = [items |-> Merged(d), torn |-> FALSE]
    BY <1>8, WriteStep
  <2>2. QED
    BY <2>1 DEF BeforeIsQueue
<1>9. ASSUME NEW d \in Detectors, KillDetect(d) PROVE BeforeIsQueue'
  <2>1. /\ before' = IF detector[d].at = "writing" THEN [before EXCEPT !.torn = ~queue.whole] ELSE before
        /\ queue' = queue
        /\ \A e \in Detectors : e # d => Same(detector[e], detector'[e])
    BY <1>9, KillStep
  <2>2. CASE detector[d].at = "writing"
    <3>1. before \in [items : SUBSET Items, torn : BOOLEAN] /\ queue.whole \in BOOLEAN
      BY DEF TypeOK
    <3>2. before'.items = before.items /\ before'.torn = ~queue.whole
      BY <2>1, <2>2, <3>1
    <3>3. QED
      BY <2>1, <3>2, Zenon DEF BeforeIsQueue
  <2>3. CASE detector[d].at # "writing"
    BY <1>1, <2>1, <2>3
  <2>4. QED
    BY <2>2, <2>3
<1>10. ASSUME NEW c \in spar.walk, Remove(c) PROVE BeforeIsQueue'
  BY <1>10, RemoveStep DEF BeforeIsQueue
<1>11. CASE Outside
  BY <1>11 DEF Outside, BeforeIsQueue, Same
<1>12. QED
  BY <1>2, <1>3, <1>4, <1>5, <1>6, <1>7, <1>8, <1>9, <1>10, <1>11, StepCases

LEMMA LatelyNext ==
  TypeOK /\ IdleIsEmpty /\ ModifiedLately /\ [Next]_vars => ModifiedLately'
<1> SUFFICES ASSUME TypeOK, IdleIsEmpty, ModifiedLately, [Next]_vars PROVE ModifiedLately'
  OBVIOUS
<1>1. ASSUME NEW d \in Detectors, today' = today, committed' = committed,
             \A e \in Detectors : e # d => Same(detector[e], detector'[e]),
             \A b \in detector'[d].modified : committed[b] >= today - 1
      PROVE  ModifiedLately'
  BY <1>1 DEF ModifiedLately, Same
<1>2. ASSUME NEW d \in Detectors, StartDetect(d) PROVE ModifiedLately'
  BY <1>1, <1>2, StartStep DEF IsBlank, others
<1>3. ASSUME NEW d \in Detectors, ReadBet(d) PROVE ModifiedLately'
  BY <1>1, <1>3, ReadStep DEF ModifiedLately, others
<1>4. ASSUME NEW d \in Detectors, NEW yesterdays \in BOOLEAN, NEW failed \in SUBSET Signals,
             Collect(d, yesterdays, failed)
      PROVE  ModifiedLately'
  BY <1>1, <1>4, CollectStep DEF ModifiedLately, others
<1>5. ASSUME NEW d \in Detectors, ParseQueue(d) PROVE ModifiedLately'
  BY <1>1, <1>5, ParseStep DEF ModifiedLately, others
<1>6. ASSUME NEW d \in Detectors, NEW yesterdays \in BOOLEAN, NEW fails \in BOOLEAN,
             GitLog(d, yesterdays, fails)
      PROVE  ModifiedLately'
  BY <1>1, <1>6, LogStep DEF others
<1>7. ASSUME NEW d \in Detectors, OpenQueue(d) PROVE ModifiedLately'
  BY <1>1, <1>7, OpenStep DEF ModifiedLately, others
<1>8. ASSUME NEW d \in Detectors, WriteQueue(d) PROVE ModifiedLately'
  BY <1>1, <1>8, WriteStep DEF IsBlank, others
<1>9. ASSUME NEW d \in Detectors, KillDetect(d) PROVE ModifiedLately'
  BY <1>1, <1>9, KillStep DEF IsBlank, others
<1>10. ASSUME NEW c \in spar.walk, Remove(c) PROVE ModifiedLately'
  BY <1>10, RemoveStep DEF ModifiedLately, Same
<1>11. ASSUME Outside, NEW d \in Detectors, NEW b \in detector'[d].modified
       PROVE  committed'[b] >= today' - 1
  <2>1. /\ detector'[d] = Idle \/ Same(detector[d], detector'[d])
        /\ today' = today \/ detector[d].at = "idle"
        /\ \A a \in Bets : committed'[a] = committed[a] \/ committed'[a] = today
    BY <1>11 DEF Outside
  <2>2. Same(detector[d], detector'[d]) /\ b \in detector[d].modified
    BY <1>11, <2>1, IdleIsBlank DEF IsBlank, Same
  <2>3. today' = today
    BY <2>1, <2>2 DEF IdleIsEmpty, IsBlank
  <2>4. b \in Bets /\ today \in Nat /\ committed[b] >= today - 1
    BY <2>2 DEF TypeOK, Detections, ModifiedLately
  <2>5. QED
    BY <2>1, <2>3, <2>4
<1>12. CASE Outside
  BY <1>11, <1>12 DEF ModifiedLately
<1>13. QED
  BY <1>2, <1>3, <1>4, <1>5, <1>6, <1>7, <1>8, <1>9, <1>10, <1>12, StepCases

\* The queue is whole again after a current detection has opened it: it has written it.
LEMMA OnlyItsOwnWrite ==
  ASSUME TypeOK, Alone, [Next]_vars, NEW d \in Detectors, Wrote(d), detector[d].current
  PROVE  WriteQueue(d)
<1>1. detector[d].at = "writing" /\ queue'.whole /\ ~queue.whole
  BY DEF Wrote, Alone, IsAlone
<1>2. queue' # queue
  BY <1>1
<1>3. ASSUME NEW e \in Detectors PROVE ~OpenQueue(e)
  BY <1>1, <1>3, OpenStep
<1>4. ASSUME NEW c \in spar.walk PROVE ~Remove(c)
  BY <1>1, <1>4, RemoveStep
<1>5. PICK e \in Detectors : WriteQueue(e)
  BY <1>2, <1>3, <1>4, StepCases, StartStep, ReadStep, ParseStep, KillStep, CollectStep, LogStep
     DEF Outside
<1>6. e = d
  BY <1>5, WriteStep DEF Alone, IsAlone
<1>7. QED
  BY <1>5, <1>6

DetectInv ==
  TypeOK /\ IdleIsEmpty /\ Alone /\ BeforeIsQueue /\ ModifiedLately

LEMMA DetectInvInit == Init => DetectInv
<1> SUFFICES ASSUME Init PROVE DetectInv
  OBVIOUS
<1>1. TypeOK
  BY TypeInit
<1>2. /\ \A d \in Detectors : IsBlank(detector[d]) /\ detector[d].at = "idle"
      /\ queue.whole /\ before.items = queue.items /\ ~before.torn
  BY IdleIsBlank DEF Init
<1>3. QED
  BY <1>1, <1>2 DEF DetectInv, IdleIsEmpty, Alone, BeforeIsQueue, ModifiedLately, IsBlank

LEMMA DetectInvNext == DetectInv /\ [Next]_vars => DetectInv'
BY TypeNext, EmptyNext, AloneNext, BeforeNext, LatelyNext DEF DetectInv

\* A detection that nobody has overtaken leaves every conflict of the queue in it, with the
\* day it was first found, unless its bet was committed today or yesterday or the queue had
\* been left torn: whatever detections failed, were killed or overtook one another before.
THEOREM AgeIsAlwaysKept == Spec => AgeIsKept
<1>1. ASSUME DetectInv, [Next]_vars
      PROVE  \A d \in Detectors : Wrote(d) /\ detector[d].current /\ ~before.torn =>
               \A c \in before.items : committed[c.id[2]] < today - 1 => c \in queue'.items
  <2> SUFFICES ASSUME NEW d \in Detectors, Wrote(d), detector[d].current, ~before.torn,
                      NEW c \in before.items, committed[c.id[2]] < today - 1
               PROVE  c \in queue'.items
    OBVIOUS
  <2>1. WriteQueue(d)
    BY <1>1, OnlyItsOwnWrite DEF DetectInv
  <2>2. queue'.items = Merged(d)
    BY <1>1, <2>1, WriteStep DEF DetectInv
  <2>3. c \in detector[d].existing
    BY <1>1 DEF DetectInv, Alone, IsAlone, Left
  <2>4. c.id[2] \notin detector[d].modified
    <3>1. c.id[2] \in Bets /\ committed[c.id[2]] \in Nat /\ today \in Nat
      BY <1>1 DEF DetectInv, TypeOK, Items, Conflicts
    <3>2. QED
      BY <1>1, <3>1 DEF DetectInv, ModifiedLately
  <2>5. QED
    BY <1>1, <2>2, <2>3, <2>4, MergedItems DEF DetectInv
<1>2. QED
  BY <1>1, DetectInvInit, DetectInvNext, PTL DEF Spec, AgeIsKept
-------------------------------------------------------------------------------
(* A detection that nobody disturbs finds what holds.                      *)

\* What the files before the n-th say.
ReadBefore(n) ==
  {[bet |-> Files[i], file |-> bet[Files[i]]] :
     i \in {i \in DOMAIN Files : i < n /\ bet[Files[i]].status = "active"}}

\* What a detection has read is still so, and what it has found holds of the bets now: all
\* that holds without a signal, and nothing that does not hold with all of them.
IsExact(r) ==
  /\ r.at = "reading" => r.read = ReadBefore(r.next)
  /\ r.at \in {"detected", "parsed", "logged", "writing"} =>
       /\ DetectConflicts(Now, {}) \subseteq r.found
       /\ r.found \subseteq DetectConflicts(Now, AllSignals)

QuietIsExact == \A d \in Detectors : detector[d].quiet => IsExact(detector[d])

LEMMA AllIsRead == ASSUME NEW n \in Nat, n > Len(Files) PROVE ReadBefore(n) = Now
<1>1. DOMAIN Files = 1 .. Len(Files) /\ Len(Files) \in Nat
  BY DetectAssumption
<1>2. ReadBefore(n) = {[bet |-> Files[i], file |-> bet[Files[i]]] :
                         i \in {i \in DOMAIN Files : bet[Files[i]].status = "active"}}
  BY <1>1 DEF ReadBefore
<1>3. QED
  BY <1>2 DEF Now, Bets

LEMMA OneMoreIsRead ==
  ASSUME NEW n \in 1 .. Len(Files)
  PROVE  ReadBefore(n + 1) =
           IF bet[Files[n]].status = "active"
           THEN ReadBefore(n) \cup {[bet |-> Files[n], file |-> bet[Files[n]]]} ELSE ReadBefore(n)
<1> DEFINE act(m) == {i \in DOMAIN Files : i < m /\ bet[Files[i]].status = "active"}
<1>1. DOMAIN Files = 1 .. Len(Files) /\ Len(Files) \in Nat
  BY DetectAssumption
<1>2. act(n + 1) = IF bet[Files[n]].status = "active" THEN act(n) \cup {n} ELSE act(n)
  BY <1>1
<1>3. \A m : ReadBefore(m) = {[bet |-> Files[i], file |-> bet[Files[i]]] : i \in act(m)}
  BY DEF ReadBefore
<1> HIDE DEF act
<1>4. QED
  BY <1>2, <1>3

\* As long as bets, signals and the day are the same, so is what holds.
LEMMA StillExact ==
  ASSUME UNCHANGED <<today, bet, signal>>, NEW e \in Detectors, IsExact(detector[e]),
         detector'[e].at = detector[e].at, detector'[e].next = detector[e].next,
         detector'[e].read = detector[e].read, detector'[e].found = detector[e].found
  PROVE  IsExact(detector[e])'
<1>1. UNCHANGED <<Now, AllSignals>>
  BY DEF Now, AllSignals
<1>2. /\ DetectConflicts(Now, {})' = DetectConflicts(Now, {})
      /\ DetectConflicts(Now, AllSignals)' = DetectConflicts(Now, AllSignals)
  BY <1>1 DEF DetectConflicts, OwnConflicts, CrossConflicts
<1>3. QED
  BY <1>2 DEF IsExact, ReadBefore

LEMMA QuietNext == TypeOK /\ QuietIsExact /\ [Next]_vars => QuietIsExact'
<1> SUFFICES ASSUME TypeOK, QuietIsExact, [Next]_vars, NEW f \in Detectors, detector'[f].quiet
             PROVE  IsExact(detector[f])'
  BY DEF QuietIsExact
<1>1. ASSUME UNCHANGED <<today, bet, signal>>, Same(detector[f], detector'[f])
      PROVE  IsExact(detector[f])'
  BY <1>1, StillExact DEF Same, QuietIsExact
<1>2. ASSUME NEW d \in Detectors, StartDetect(d) PROVE IsExact(detector[f])'
  <2>1. /\ detector'[d].at = "reading" /\ IsBlank(detector'[d]) /\ UNCHANGED others
        /\ \A e \in Detectors : e # d => Same(detector[e], detector'[e])
    BY <1>2, StartStep
  <2>2. CASE f = d
    <3>1. ReadBefore(1)' = {}
      BY DetectAssumption DEF ReadBefore
    <3>2. QED
      BY <2>1, <2>2, <3>1 DEF IsBlank, IsExact
  <2>3. QED
    BY <1>1, <2>1, <2>2 DEF others
<1>3. ASSUME NEW d \in Detectors, ReadBet(d) PROVE IsExact(detector[f])'
  <2> DEFINE n == detector[d].next
             b == Files[n]
  <2>1. /\ n \in 1 .. Len(Files) /\ detector[d].at = "reading"
        /\ detector'[d].at = "reading" /\ detector'[d].next = n + 1
        /\ detector'[d].read = IF bet[b].status = "active"
                              THEN detector[d].read \cup {[bet |-> b, file |-> bet[b]]}
                              ELSE detector[d].read
        /\ detector'[d].quiet = detector[d].quiet /\ UNCHANGED others
        /\ \A e \in Detectors : e # d => Same(detector[e], detector'[e])
    BY <1>3, ReadStep
  <2>2. CASE f = d
    <3>1. detector[d].read = ReadBefore(n)
      BY <2>1, <2>2 DEF QuietIsExact, IsExact
    <3>2. detector'[d].read = ReadBefore(n + 1)
      BY <2>1, <3>1, OneMoreIsRead
    <3>3. ReadBefore(detector[d].next)' = ReadBefore(n + 1)
      BY <2>1 DEF ReadBefore, others
    <3>4. QED
      BY <2>1, <2>2, <3>2, <3>3 DEF IsExact
  <2>3. QED
    BY <1>1, <2>1, <2>2 DEF others
<1>4. ASSUME NEW d \in Detectors, NEW yesterdays \in BOOLEAN, NEW failed \in SUBSET Signals,
             Collect(d, yesterdays, failed)
      PROVE  IsExact(detector[f])'
  <2>1. /\ detector[d].at = "reading" /\ detector[d].next > Len(Files)
        /\ detector'[d].at = "detected"
        /\ \E signals \in SUBSET AllSignals :
             detector'[d].found = DetectConflicts(detector[d].read, signals)
        /\ detector'[d].quiet = detector[d].quiet /\ UNCHANGED others
        /\ \A e \in Detectors : e # d => Same(detector[e], detector'[e])
    BY <1>4, CollectStep
  <2>2. CASE f = d
    <3>1. detector[d].read = Now
      <4>1. detector[d].next \in Nat
        BY DEF TypeOK, Detections
      <4>2. QED
        BY <2>1, <2>2, <4>1, AllIsRead DEF QuietIsExact, IsExact
    <3>2. /\ DetectConflicts(Now, {}) \subseteq detector'[d].found
          /\ detector'[d].found \subseteq DetectConflicts(Now, AllSignals)
      BY <2>1, <3>1, MoreSignals
    <3>3. /\ DetectConflicts(Now, {})' = DetectConflicts(Now, {})
          /\ DetectConflicts(Now, AllSignals)' = DetectConflicts(Now, AllSignals)
      <4>1. UNCHANGED <<Now, AllSignals, today>>
        BY <2>1 DEF Now, AllSignals, others
      <4>2. QED
        BY <4>1 DEF DetectConflicts, OwnConflicts, CrossConflicts
    <3>4. QED
      BY <2>1, <2>2, <3>2, <3>3 DEF IsExact
  <2>3. QED
    BY <1>1, <2>1, <2>2 DEF others
<1>5. ASSUME NEW d \in Detectors, detector[d].at \in {"detected", "parsed", "logged"},
             detector'[d].at \in {"parsed", "logged", "writing"},
             detector'[d].found = detector[d].found, detector'[d].quiet = detector[d].quiet,
             UNCHANGED <<today, bet, signal>>,
             \A e \in Detectors : e # d => Same(detector[e], detector'[e])
      PROVE  IsExact(detector[f])'
  <2>1. CASE f = d
    <3>1. /\ DetectConflicts(Now, {}) \subseteq detector[d].found
          /\ detector[d].found \subseteq DetectConflicts(Now, AllSignals)
      BY <1>5, <2>1 DEF QuietIsExact, IsExact
    <3>2. /\ DetectConflicts(Now, {})' = DetectConflicts(Now, {})
          /\ DetectConflicts(Now, AllSignals)' = DetectConflicts(Now, AllSignals)
      <4>1. UNCHANGED <<Now, AllSignals, today>>
        BY <1>5 DEF Now, AllSignals
      <4>2. QED
        BY <4>1 DEF DetectConflicts, OwnConflicts, CrossConflicts
    <3>3. QED
      BY <1>5, <2>1, <3>1, <3>2 DEF IsExact
  <2>2. QED
    BY <1>1, <1>5, <2>1
<1>6. ASSUME NEW d \in Detectors, ParseQueue(d) PROVE IsExact(detector[f])'
  BY <1>5, <1>6, ParseStep DEF others
<1>7. ASSUME NEW d \in Detectors, NEW yesterdays \in BOOLEAN, NEW fails \in BOOLEAN,
             GitLog(d, yesterdays, fails)
      PROVE  IsExact(detector[f])'
  BY <1>5, <1>7, LogStep DEF others
<1>8. ASSUME NEW d \in Detectors, OpenQueue(d) PROVE IsExact(detector[f])'
  BY <1>5, <1>8, OpenStep DEF others
<1>9. ASSUME NEW d \in Detectors, WriteQueue(d) \/ KillDetect(d) PROVE IsExact(detector[f])'
  <2>1. /\ detector'[d].at = "idle" /\ UNCHANGED others
        /\ \A e \in Detectors : e # d => Same(detector[e], detector'[e])
    BY <1>9, WriteStep, KillStep
  <2>2. CASE f = d
    BY <2>1, <2>2 DEF IsExact
  <2>3. QED
    BY <1>1, <2>1, <2>2 DEF others
<1>10. ASSUME NEW c \in spar.walk, Remove(c) PROVE IsExact(detector[f])'
  BY <1>1, <1>10, RemoveStep
<1>11. ASSUME Outside PROVE IsExact(detector[f])'
  <2>1. CASE detector'[f].at = "idle"
    BY <2>1 DEF IsExact
  <2>2. CASE detector'[f].at # "idle"
    <3>1. Same(detector[f], detector'[f]) /\ detector[f].at # "idle"
      BY <1>11, <2>2, IdleIsBlank DEF Outside, Same
    <3>2. UNCHANGED <<today, bet, signal>>
      BY <1>11, <3>1 DEF Outside
    <3>3. QED
      BY <1>1, <3>1, <3>2
  <2>3. QED
    BY <2>1, <2>2
<1>12. QED
  BY <1>2, <1>3, <1>4, <1>6, <1>7, <1>8, <1>9, <1>10, <1>11, StepCases

\* A detection that nobody overtakes, in a vault where no bet and no signal changes while it
\* runs, leaves on the queue what holds of the bets now, and of what the queue said nothing
\* about a bet it knows to be changed.
THEOREM QuietDetectionIsAlwaysExact == Spec => QuietDetectionIsExact
<1>1. ASSUME DetectInv, QuietIsExact, [Next]_vars
      PROVE  \A d \in Detectors : Wrote(d) /\ detector[d].current /\ detector[d].quiet =>
               LET kept == {i \in IdsOf(Left) : i[2] \notin detector[d].modified} IN
               /\ DetectConflicts(Now, {}) \subseteq IdsOf(queue'.items)
               /\ IdsOf(queue'.items) \subseteq DetectConflicts(Now, AllSignals) \cup kept
  <2> SUFFICES ASSUME NEW d \in Detectors, Wrote(d), detector[d].current, detector[d].quiet
               PROVE  /\ DetectConflicts(Now, {}) \subseteq IdsOf(queue'.items)
                      /\ IdsOf(queue'.items) \subseteq DetectConflicts(Now, AllSignals) \cup
                           {i \in IdsOf(Left) : i[2] \notin detector[d].modified}
    OBVIOUS
  <2>1. WriteQueue(d)
    BY <1>1, OnlyItsOwnWrite DEF DetectInv
  <2>2. queue'.items = Merged(d) /\ detector[d].at = "writing"
    BY <1>1, <2>1, WriteStep DEF DetectInv
  <2>3. detector[d].existing = Left
    BY <1>1 DEF DetectInv, Alone, IsAlone
  <2>4. /\ DetectConflicts(Now, {}) \subseteq detector[d].found
        /\ detector[d].found \subseteq DetectConflicts(Now, AllSignals)
    BY <1>1, <2>2 DEF QuietIsExact, IsExact
  <2>5. IdsOf(Merged(d)) = detector[d].found \cup
          IdsOf({c \in Left : c.id[2] \notin detector[d].modified})
    BY <1>1, <2>3, MergedItems DEF DetectInv
  <2>6. IdsOf({c \in Left : c.id[2] \notin detector[d].modified}) =
          {i \in IdsOf(Left) : i[2] \notin detector[d].modified}
    BY DEF IdsOf
  <2>7. QED
    BY <2>2, <2>4, <2>5, <2>6
<1>2. Init => QuietIsExact
  <2> SUFFICES ASSUME Init PROVE QuietIsExact
    OBVIOUS
  <2>1. \A d \in Detectors : detector[d].at = "idle"
    BY IdleIsBlank DEF Init
  <2>2. QED
    BY <2>1 DEF QuietIsExact, IsExact
<1>3. QED
  BY <1>1, <1>2, DetectInvInit, DetectInvNext, TypeNext, QuietNext, PTL
     DEF Spec, QuietDetectionIsExact, DetectInv
===============================================================================
