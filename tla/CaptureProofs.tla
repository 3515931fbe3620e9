----------------------------- MODULE CaptureProofs -----------------------------
(***************************************************************************)
(* Proofs about Capture, for any contents and distances, any thresholds    *)
(* and any top_k: near pairs meet, verdicts are written once, and no       *)
(* stored thought is forgotten.                                            *)
(***************************************************************************)
EXTENDS Capture, FiniteSetTheorems, WellFoundedInduction, TLAPS

\* What the proofs need of sequences, for one opaque set of elements.
LEMMA ThoughtFacts ==
  ASSUME NEW S, NEW s \in Seq(S), NEW i \in S
  PROVE  /\ Len(s) \in Nat /\ DOMAIN s = 1 .. Len(s)
         /\ \A k \in 1 .. Len(s) : s[k] \in S
         /\ Append(s, i) \in Seq(S)
         /\ Len(Append(s, i)) = Len(s) + 1
         /\ DOMAIN Append(s, i) = 1 .. Len(s) + 1
         /\ Append(s, i)[Len(s) + 1] = i
         /\ \A k \in 1 .. Len(s) : Append(s, i)[k] = s[k]
OBVIOUS

LEMMA Constants ==
  /\ MaxCalls \in Nat /\ MaxFaults \in Nat
  /\ Threshold \in [Detectors -> Nat] /\ TopK \in [Detectors -> Nat]
  /\ "duplicate" \in Detectors /\ "conflict" \in Detectors
BY CaptureAssumption DEF Detectors

LEMMA DistType ==
  ASSUME TypeOK, NEW t \in DOMAIN thoughts, NEW u \in DOMAIN thoughts
  PROVE  Dist(t, u) \in Nat /\ Dist(t, u) = Dist(u, t) /\ Dist(t, t) = 0
<1>1. thoughts[t] \in Items /\ thoughts[u] \in Items
  BY ThoughtFacts DEF TypeOK
<1>2. thoughts[t].content \in Contents /\ thoughts[u].content \in Contents
  BY <1>1 DEF Items
<1>3. QED
  BY <1>2, CaptureAssumption DEF Dist

\* A handler that has moved on: what it had searched for it still has, or it has
\* searched again just now.
Later(h, g, t) ==
  /\ g \in Handlers /\ g.lost = h.lost
  /\ \A d \in Detectors :
       \/ d \in g.searched /\ g.saw[d] \in Candidates(d, t)
       \/ (d \in g.searched <=> d \in h.searched) /\ g.saw[d] = h.saw[d]

LEMMA CandidatesType ==
  ASSUME NEW d, NEW t, NEW C \in Candidates(d, t)
  PROVE  C \subseteq vectors /\ \A u \in C : Near(d, t, u)
BY DEF Candidates, Nearest

LEMMA SearchedLater ==
  ASSUME TypeOK, NEW h \in Handlers, NEW t \in Ids, NEW d \in Detectors,
         NEW g \in Searched(h, t, d)
  PROVE  Later(h, g, t)
<1>1. PICK found \in Candidates(d, t) :
        g = [h EXCEPT !.at = d, !.todo = found, !.searched = @ \cup {d}, !.saw[d] = found]
  BY DEF Searched
<1>2. found \in SUBSET Ids
  <2>1. DOMAIN thoughts \subseteq Ids
    BY ThoughtFacts, Constants DEF TypeOK, Ids
  <2>2. QED
    BY <2>1, CandidatesType DEF TypeOK
<1>3. /\ g.at = d /\ g.todo = found /\ g.searched = h.searched \cup {d}
      /\ g.saw = [h.saw EXCEPT ![d] = found] /\ g.lost = h.lost
  BY <1>1 DEF Handlers
<1>4. g \in Handlers
  BY <1>1, <1>2 DEF Handlers
<1>5. g.saw[d] = found /\ \A e \in Detectors \ {d} : g.saw[e] = h.saw[e]
  BY <1>3 DEF Handlers
<1>6. QED
  BY <1>3, <1>4, <1>5 DEF Later

LEMMA EndedLater ==
  ASSUME NEW h \in Handlers, NEW t \in Ids
  PROVE  Later(h, Ended(h), t) /\ Ended(h) \in Handlers
<1>1. /\ Ended(h) \in Handlers /\ Ended(h).searched = h.searched /\ Ended(h).saw = h.saw
      /\ Ended(h).lost = h.lost
  BY DEF Ended, Handlers
<1>2. QED
  BY <1>1 DEF Later

LEMMA LaterTransitive ==
  ASSUME NEW h, NEW g, NEW f, NEW t, Later(h, g, t), Later(g, f, t)
  PROVE  Later(h, f, t)
BY DEF Later

LEMMA RunConflictLater ==
  ASSUME TypeOK, NEW h \in Handlers, NEW t \in Ids, NEW g \in RunConflict(h, t)
  PROVE  Later(h, g, t)
<1>1. PICK f \in Searched(h, t, "conflict") : g = IF f.todo = {} THEN Ended(f) ELSE f
  BY DEF RunConflict
<1>2. Later(h, f, t) /\ f \in Handlers
  BY SearchedLater, Constants DEF Later
<1>3. QED
  BY <1>1, <1>2, EndedLater, LaterTransitive

LEMMA RunDuplicateLater ==
  ASSUME TypeOK, NEW h \in Handlers, NEW t \in Ids, NEW g \in RunDuplicate(h, t)
  PROVE  Later(h, g, t)
<1>1. PICK f \in Searched(h, t, "duplicate") :
        g \in IF f.todo = {} THEN RunConflict(f, t) ELSE {f}
  BY DEF RunDuplicate
<1>2. Later(h, f, t) /\ f \in Handlers
  BY SearchedLater, Constants DEF Later
<1>3. QED
  BY <1>1, <1>2, RunConflictLater, LaterTransitive

LEMMA RunNextLater ==
  ASSUME TypeOK, NEW h \in Handlers, NEW t \in Ids, NEW g \in RunNext(h, t)
  PROVE  Later(h, g, t)
BY RunConflictLater, EndedLater DEF RunNext

Moves(t, g) ==
  /\ sparring' = [sparring EXCEPT ![t] = g]
  /\ \A d \in Detectors :
       \/ d \in g.searched /\ g.saw[d] \in Candidates(d, t)
       \/ (d \in g.searched <=> d \in sparring[t].searched) /\ g.saw[d] = sparring[t].saw[d]

\* A step of the handler of one thought.
LEMMA HandleStep ==
  ASSUME TypeOK, NEW t \in Ids, Handle(t)
  PROVE  /\ thoughts' = thoughts /\ vectors' = vectors /\ pending' = pending /\ calls' = calls
         /\ sparring[t].at # "none"
         /\ \E g \in Handlers : Moves(t, g)
<1>0. sparring[t] \in Handlers
  BY DEF TypeOK
<1>1. CASE Embedded(t)
  <2>1. PICK g \in RunDuplicate(sparring[t], t) : sparring' = [sparring EXCEPT ![t] = g]
    BY <1>1 DEF Embedded
  <2>2. Later(sparring[t], g, t)
    BY <1>0, <2>1, RunDuplicateLater
  <2>3. QED
    BY <1>1, <2>1, <2>2 DEF Embedded, Later, Moves
<1>2. CASE EmbedFails(t)
  <2> DEFINE g == [sparring[t] EXCEPT !.at = "over", !.lost = @ \cup {"embed"}]
  <2>1. g \in Handlers /\ g.searched = sparring[t].searched /\ g.saw = sparring[t].saw
    BY <1>0 DEF Handlers
  <2>2. sparring' = [sparring EXCEPT ![t] = g]
    BY <1>2 DEF EmbedFails
  <2> HIDE DEF g
  <2>3. Moves(t, g)
    BY <2>1, <2>2 DEF Moves
  <2>4. QED
    BY <1>2, <2>1, <2>3 DEF EmbedFails
<1>3. ASSUME NEW u \in Ids, GoesOn(t, u) PROVE \E g \in Handlers : Moves(t, g)
  <2> DEFINE h == [sparring[t] EXCEPT !.todo = @ \ {u}]
  <2>1. h \in Handlers /\ h.searched = sparring[t].searched /\ h.saw = sparring[t].saw
    BY <1>0 DEF Handlers
  <2>2. PICK g \in (IF h.todo = {} THEN RunNext(h, t) ELSE {h}) : sparring' = [sparring EXCEPT ![t] = g]
    BY <1>3 DEF GoesOn
  <2> HIDE DEF h
  <2>3. Later(h, g, t)
    <3>1. CASE h.todo = {}
      BY <2>1, <2>2, <3>1, RunNextLater
    <3>2. CASE h.todo # {}
      BY <2>1, <2>2, <3>2 DEF Later
    <3>3. QED
      BY <3>1, <3>2
  <2>4. g \in Handlers /\ Moves(t, g)
    BY <2>1, <2>2, <2>3 DEF Later, Moves
  <2>5. QED
    BY <2>4
<1>4. ASSUME NEW u \in Ids, JudgeNegative(t, u) \/ JudgePositive(t, u) \/ SidecarFails(t, u)
      PROVE  /\ thoughts' = thoughts /\ vectors' = vectors /\ pending' = pending /\ calls' = calls
             /\ sparring[t].at # "none" /\ GoesOn(t, u)
  BY <1>4 DEF JudgeNegative, JudgePositive, SidecarFails, Judges, Detectors
<1>5. ASSUME NEW u \in Ids, NEW n \in 0 .. 2, DetectorFails(t, u, n)
      PROVE  /\ thoughts' = thoughts /\ vectors' = vectors /\ pending' = pending /\ calls' = calls
             /\ sparring[t].at # "none" /\ \E g \in Handlers : Moves(t, g)
  <2>1. PICK g \in RunNext(sparring[t], t) : sparring' = [sparring EXCEPT ![t] = g]
    BY <1>5 DEF DetectorFails
  <2>2. Later(sparring[t], g, t)
    BY <1>0, <2>1, RunNextLater
  <2>3. g \in Handlers /\ Moves(t, g)
    BY <2>1, <2>2 DEF Later, Moves
  <2>4. QED
    BY <1>5, <2>3 DEF DetectorFails, Judges, Detectors
<1>6. QED
  BY <1>1, <1>2, <1>3, <1>4, <1>5 DEF Handle

-------------------------------------------------------------------------------
(* Types.                                                                  *)

\* A thought that is not stored has no handler yet.
Fresh == \A t \in Ids \ DOMAIN thoughts : sparring[t].at = "none" /\ sparring[t].searched = {}

LEMMA TypeInit == Init => TypeOK /\ Fresh
<1> SUFFICES ASSUME Init PROVE TypeOK /\ Fresh
  OBVIOUS
<1>1. thoughts \in Seq(Items) /\ Len(thoughts) <= MaxCalls /\ vectors \subseteq DOMAIN thoughts
  BY Constants DEF Init
<1>2. pending \in [Items -> Nat] /\ calls \in 0 .. MaxCalls /\ faults \in 0 .. MaxFaults
  BY Constants DEF Init
<1>3. NoSparring \in Handlers
  BY DEF NoSparring, Handlers
<1>4. sparring \in [Ids -> Handlers]
  BY <1>3 DEF Init
<1>5. written \in [Ids -> [Ids -> [Kinds -> Nat]]]
  BY DEF Init, Nothing
<1>6. Fresh
  BY DEF Init, Fresh, NoSparring
<1>7. QED
  BY <1>1, <1>2, <1>4, <1>5, <1>6 DEF TypeOK

\* A thought is stored.
LEMMA StoreFacts ==
  ASSUME TypeOK, NEW i \in Items, Id \in Ids, thoughts' = Append(thoughts, i)
  PROVE  /\ thoughts' \in Seq(Items) /\ Len(thoughts') <= MaxCalls
         /\ DOMAIN thoughts' = DOMAIN thoughts \cup {Id} /\ Id \notin DOMAIN thoughts
         /\ \A k \in DOMAIN thoughts : thoughts'[k] = thoughts[k]
<1>1. Len(thoughts) \in Nat /\ DOMAIN thoughts = 1 .. Len(thoughts) /\ thoughts \in Seq(Items)
  BY ThoughtFacts DEF TypeOK
<1>2. /\ thoughts' \in Seq(Items) /\ Len(thoughts') = Len(thoughts) + 1
      /\ DOMAIN thoughts' = 1 .. Len(thoughts) + 1
      /\ \A k \in 1 .. Len(thoughts) : thoughts'[k] = thoughts[k]
  BY <1>1, ThoughtFacts
<1>3. QED
  BY <1>1, <1>2, Constants DEF Id, Ids

LEMMA WritesType ==
  ASSUME TypeOK, NEW t \in Ids, NEW u \in Ids, NEW kinds, Writes(t, u, kinds)
  PROVE  written' \in [Ids -> [Ids -> [Kinds -> Nat]]]
<1> DEFINE w == [k \in Kinds |-> written[t][u][k] + IF k \in kinds THEN 1 ELSE 0]
<1>1. w \in [Kinds -> Nat]
  BY DEF TypeOK
<1>2. written' = [written EXCEPT ![t][u] = w]
  BY DEF Writes
<1> HIDE DEF w
<1>3. QED
  BY <1>1, <1>2 DEF TypeOK

LEMMA HandleTypes ==
  ASSUME TypeOK, Fresh, NEW t \in Ids, Handle(t)
  PROVE  TypeOK' /\ Fresh'
<1>1. PICK g \in Handlers : Moves(t, g)
  BY HandleStep
<1>2. /\ thoughts' = thoughts /\ vectors' = vectors /\ pending' = pending /\ calls' = calls
      /\ sparring[t].at # "none"
  BY HandleStep
<1>3. /\ sparring' \in [Ids -> Handlers] /\ \A u \in Ids \ {t} : sparring'[u] = sparring[u]
  BY <1>1 DEF Moves, TypeOK
<1>4. Fresh'
  BY <1>2, <1>3 DEF Fresh
<1>5. written' \in [Ids -> [Ids -> [Kinds -> Nat]]]
  <2>1. CASE written' = written
    BY <2>1 DEF TypeOK
  <2>2. CASE \E u \in Ids : \E kinds : Writes(t, u, kinds)
    BY <2>2, WritesType
  <2>3. CASE Embedded(t) \/ EmbedFails(t)
    BY <2>1, <2>3 DEF Embedded, EmbedFails
  <2>4. ASSUME NEW u \in Ids, JudgeNegative(t, u) \/ JudgePositive(t, u) \/ SidecarFails(t, u)
        PROVE  written' \in [Ids -> [Ids -> [Kinds -> Nat]]]
    BY <2>1, <2>2, <2>4 DEF JudgeNegative, JudgePositive, SidecarFails
  <2>5. ASSUME NEW u \in Ids, NEW n \in 0 .. 2, DetectorFails(t, u, n)
        PROVE  written' \in [Ids -> [Ids -> [Kinds -> Nat]]]
    BY <2>2, <2>5 DEF DetectorFails
  <2>6. QED
    BY <2>3, <2>4, <2>5 DEF Handle
<1>6. faults' \in 0 .. MaxFaults
  <2>1. CASE faults' = faults
    BY <2>1 DEF TypeOK
  <2>2. CASE faults < MaxFaults /\ faults' = faults + 1
    BY <2>2, Constants DEF TypeOK
  <2>3. CASE Embedded(t) \/ EmbedFails(t)
    BY <2>1, <2>3 DEF Embedded, EmbedFails
  <2>4. ASSUME NEW u \in Ids, JudgeNegative(t, u) \/ JudgePositive(t, u)
        PROVE  faults' \in 0 .. MaxFaults
    BY <2>1, <2>4 DEF JudgeNegative, JudgePositive
  <2>5. ASSUME NEW u \in Ids, NEW n \in 0 .. 2, SidecarFails(t, u) \/ DetectorFails(t, u, n)
        PROVE  faults' \in 0 .. MaxFaults
    BY <2>2, <2>5 DEF SidecarFails, DetectorFails
  <2>6. QED
    BY <2>3, <2>4, <2>5 DEF Handle
<1>7. QED
  BY <1>2, <1>3, <1>4, <1>5, <1>6 DEF TypeOK

\* The end of the process leaves of a handler what it has searched for and seen.
LEMMA EndedByProcess ==
  ASSUME TypeOK, NEW t \in Ids, ProcessEnds
  PROVE  /\ sparring'[t] \in Handlers
         /\ sparring'[t].searched = sparring[t].searched /\ sparring'[t].saw = sparring[t].saw
         /\ sparring[t].at = "none" => sparring'[t].at = "none"
<1>1. sparring[t] \in Handlers
  BY DEF TypeOK
<1>2. CASE sparring[t].at \in {"none", "over"}
  BY <1>1, <1>2 DEF ProcessEnds
<1>3. CASE sparring[t].at \notin {"none", "over"}
  <2> DEFINE h == Ended(sparring[t])
  <2>1. h \in Handlers /\ h.searched = sparring[t].searched /\ h.saw = sparring[t].saw
    BY <1>1 DEF Ended, Handlers
  <2>2. sparring'[t] = [h EXCEPT !.lost = @ \cup {"crash"}]
    BY <1>3 DEF ProcessEnds
  <2> HIDE DEF h
  <2>3. QED
    BY <1>3, <2>1, <2>2 DEF Handlers
<1>4. QED
  BY <1>2, <1>3

LEMMA TypedNext == TypeOK /\ Fresh /\ [Next]_vars => TypeOK' /\ Fresh'
<1> SUFFICES ASSUME TypeOK, Fresh, [Next]_vars PROVE TypeOK' /\ Fresh'
  OBVIOUS
<1>1. CASE UNCHANGED vars
  BY <1>1 DEF vars, TypeOK, Fresh
<1>2. ASSUME NEW i \in Items, Known(i) \/ Unknown(i) PROVE TypeOK' /\ Fresh'
  <2>1. /\ calls' \in 0 .. MaxCalls /\ pending' \in [Items -> Nat]
    BY <1>2, Constants DEF TypeOK, Known, Unknown
  <2>2. QED
    BY <1>2, <2>1 DEF TypeOK, Fresh, Known, Unknown
<1>3. ASSUME NEW i \in Items, EndsCall(i) PROVE pending' \in [Items -> Nat]
  BY <1>3 DEF TypeOK, EndsCall
<1>4. ASSUME NEW i \in Items, CaptureFails(i) PROVE TypeOK' /\ Fresh'
  <2>1. pending' \in [Items -> Nat]
    BY <1>3, <1>4 DEF CaptureFails
  <2>2. QED
    BY <1>4, <2>1 DEF TypeOK, Fresh, CaptureFails
<1>5. ASSUME NEW i \in Items, Store(i) PROVE TypeOK' /\ Fresh'
  <2>1. pending' \in [Items -> Nat] /\ Id \in Ids
    BY <1>3, <1>5 DEF Store
  <2>2. /\ thoughts' \in Seq(Items) /\ Len(thoughts') <= MaxCalls
        /\ DOMAIN thoughts' = DOMAIN thoughts \cup {Id}
    BY <1>5, <2>1, StoreFacts DEF Store
  <2>3. [sparring[Id] EXCEPT !.at = "embedding"] \in Handlers
    <3>1. sparring[Id] \in Handlers
      BY <2>1 DEF TypeOK
    <3>2. QED
      BY <3>1 DEF Handlers
  <2>4. /\ sparring' \in [Ids -> Handlers]
        /\ \A t \in Ids \ {Id} : sparring'[t] = sparring[t]
    BY <1>5, <2>1, <2>3 DEF TypeOK, Store
  <2>5. Fresh'
    BY <2>2, <2>4 DEF Fresh
  <2>6. vectors' \subseteq DOMAIN thoughts'
    BY <1>5, <2>2 DEF TypeOK, Store
  <2>7. QED
    BY <1>5, <2>1, <2>2, <2>4, <2>5, <2>6 DEF TypeOK, Store
<1>6. ASSUME NEW i \in Items, StoreFails(i) PROVE TypeOK' /\ Fresh'
  <2>1. pending' \in [Items -> Nat] /\ Id \in Ids /\ faults' \in 0 .. MaxFaults
    <3>1. pending' \in [Items -> Nat] /\ Id \in Ids
      BY <1>3, <1>6 DEF StoreFails
    <3>2. faults' \in 0 .. MaxFaults
      BY <1>6, Constants DEF StoreFails, TypeOK
    <3>3. QED
      BY <3>1, <3>2
  <2>2. /\ thoughts' \in Seq(Items) /\ Len(thoughts') <= MaxCalls
        /\ DOMAIN thoughts' = DOMAIN thoughts \cup {Id}
    BY <1>6, <2>1, StoreFacts DEF StoreFails
  <2> DEFINE h == [sparring[Id] EXCEPT !.at = "over", !.lost = {"upsert"}]
  <2>3. h \in Handlers
    <3>1. sparring[Id] \in Handlers
      BY <2>1 DEF TypeOK
    <3>2. QED
      BY <3>1 DEF Handlers
  <2>4. sparring' = [sparring EXCEPT ![Id] = h]
    BY <1>6, <2>1 DEF StoreFails, TypeOK
  <2> HIDE DEF h
  <2>5. /\ sparring' \in [Ids -> Handlers]
        /\ \A t \in Ids \ {Id} : sparring'[t] = sparring[t]
    BY <2>1, <2>3, <2>4 DEF TypeOK
  <2>6. Fresh'
    BY <2>2, <2>5 DEF Fresh
  <2>7. vectors' \subseteq DOMAIN thoughts'
    BY <1>6, <2>2 DEF TypeOK, StoreFails
  <2>8. QED
    BY <1>6, <2>1, <2>2, <2>5, <2>6, <2>7 DEF TypeOK, StoreFails
<1>7. CASE \E t \in Ids : Handle(t)
  BY <1>7, HandleTypes
<1>8. CASE ProcessEnds
  <2>1. ASSUME NEW t \in Ids
        PROVE  sparring'[t] \in Handlers /\ sparring'[t].searched = sparring[t].searched
               /\ (sparring[t].at = "none" => sparring'[t].at = "none")
    BY <1>8, EndedByProcess
  <2>2. sparring' \in [Ids -> Handlers]
    BY <1>8, <2>1 DEF ProcessEnds
  <2>3. faults' \in 0 .. MaxFaults /\ pending' \in [Items -> Nat]
    BY <1>8, Constants DEF TypeOK, ProcessEnds
  <2>4. Fresh'
    BY <1>8, <2>1 DEF Fresh, ProcessEnds
  <2>5. QED
    BY <1>8, <2>2, <2>3, <2>4 DEF TypeOK, ProcessEnds
<1>9. QED
  BY <1>1, <1>2, <1>4, <1>5, <1>6, <1>7, <1>8 DEF Next

\* Every state of the capture pipeline is well typed; no embedding is stored for a
\* thought that is not.
THEOREM CaptureTypes == Spec => []TypeOK
BY TypeInit, TypedNext, PTL DEF Spec

-------------------------------------------------------------------------------
(* Near thoughts meet.                                                     *)

LEMMA VectorsFinite ==
  ASSUME TypeOK
  PROVE  IsFiniteSet(vectors) /\ vectors \subseteq DOMAIN thoughts
<1>1. DOMAIN thoughts = 1 .. Len(thoughts) /\ Len(thoughts) \in Nat
  BY ThoughtFacts DEF TypeOK
<1>2. IsFiniteSet(1 .. Len(thoughts))
  BY <1>1, FS_Interval
<1>3. QED
  BY <1>1, <1>2, FS_Subset DEF TypeOK

\* A detector that takes as many as there are near ones gets them all.
LEMMA CandidatesAll ==
  ASSUME TypeOK, NEW d \in Detectors, NEW t \in vectors, NEW C \in Candidates(d, t),
         Cardinality(NearOnes(d, t)) <= TopK[d]
  PROVE  NearOnes(d, t) \subseteq C
<1> DEFINE N == NearOnes(d, t)
<1>0. /\ N \subseteq vectors /\ t \notin N
      /\ IsFiniteSet(vectors) /\ vectors \subseteq DOMAIN thoughts
      /\ IsFiniteSet(N) /\ Cardinality(N) \in Nat /\ Cardinality(N) <= TopK[d]
      /\ TopK[d] \in Nat /\ Threshold[d] \in Nat
  BY VectorsFinite, FS_Subset, FS_CardinalityType, Constants DEF NearOnes, Near
<1>1. PICK M \in Nearest(TopK[d] + 1, vectors, t) :
        C \in Nearest(TopK[d], {u \in M : Near(d, t, u)}, t)
  BY DEF Candidates
<1>2. M \subseteq vectors /\ IsFiniteSet(M)
  BY <1>0, <1>1, FS_Subset DEF Nearest
<1>3. N \subseteq M
  <2> SUFFICES ASSUME NEW y \in N, y \notin M PROVE FALSE
    OBVIOUS
  <2>1. Cardinality(M) = TopK[d] + 1 /\ \A x \in M : Dist(t, x) <= Dist(t, y)
    BY <1>0, <1>1 DEF Nearest
  <2>2. Dist(t, y) <= Threshold[d] /\ Dist(t, y) \in Nat
    BY <1>0, DistType DEF NearOnes, Near
  <2>3. \A x \in M : Dist(t, x) \in Nat
    BY <1>0, <1>2, DistType
  <2>4. \A x \in M : Dist(t, x) <= Threshold[d]
    BY <2>1, <2>2, <2>3, <1>0
  <2>5. M \cup {y} \subseteq N \cup {t}
    BY <1>2, <2>4 DEF NearOnes, Near
  <2>6. Cardinality(M \cup {y}) = Cardinality(M) + 1
    BY <1>2, FS_AddElement
  <2>7. IsFiniteSet(N \cup {t}) /\ Cardinality(N \cup {t}) = Cardinality(N) + 1
    BY <1>0, FS_AddElement
  <2>8. Cardinality(M \cup {y}) <= Cardinality(N \cup {t})
    BY <2>5, <2>7, FS_Subset
  <2>9. QED
    BY <1>0, <2>1, <2>6, <2>7, <2>8
<1>4. {u \in M : Near(d, t, u)} = N
  BY <1>2, <1>3 DEF NearOnes
<1>5. C \subseteq N /\ (C = N \/ Cardinality(C) = TopK[d])
  BY <1>1, <1>4 DEF Nearest
<1>6. C = N
  BY <1>0, <1>5, FS_Subset, FS_CardinalityType
<1>7. QED
  BY <1>6

LEMMA NearSymmetric ==
  ASSUME TypeOK, NEW d, NEW t \in vectors, NEW u \in vectors, Near(d, t, u)
  PROVE  Near(d, u, t) /\ u \in NearOnes(d, t) /\ t \in NearOnes(d, u)
BY VectorsFinite, DistType DEF Near, NearOnes

LEMMA HandleMeets ==
  ASSUME TypeOK, NearPairsMeet, NEW x \in Ids, Handle(x)
  PROVE  NearPairsMeet'
<1>1. PICK g \in Handlers : Moves(x, g)
  BY HandleStep
<1>2. thoughts' = thoughts /\ vectors' = vectors
  BY HandleStep
<1>3. \A t \in Ids : sparring'[t] = IF t = x THEN g ELSE sparring[t]
  BY <1>1 DEF Moves, TypeOK
<1>4. vectors \subseteq Ids
  BY ThoughtFacts, Constants DEF TypeOK, Ids
<1> SUFFICES ASSUME NEW d \in Detectors, NEW t \in vectors, NEW u \in vectors,
                    Near(d, t, u),
                    d \in sparring'[t].searched, d \in sparring'[u].searched,
                    Cardinality(NearOnes(d, t)) <= TopK[d],
                    Cardinality(NearOnes(d, u)) <= TopK[d]
             PROVE  u \in sparring'[t].saw[d] \/ t \in sparring'[u].saw[d]
  <2>1. /\ \A d, t, u : Near(d, t, u)' <=> Near(d, t, u)
        /\ \A d, t : NearOnes(d, t)' = NearOnes(d, t)
    BY <1>2 DEF NearOnes, Near, Dist
  <2>2. QED
    BY <1>2, <2>1 DEF NearPairsMeet
<1>5. u \in NearOnes(d, t) /\ t \in NearOnes(d, u) /\ t # u
  BY NearSymmetric DEF Near
<1>6. CASE d \in g.searched /\ g.saw[d] \in Candidates(d, x)
  <2>1. CASE x = t
    BY <1>3, <1>4, <1>5, <1>6, <2>1, CandidatesAll
  <2>2. CASE x = u
    BY <1>3, <1>4, <1>5, <1>6, <2>2, CandidatesAll
  <2>3. CASE x # t /\ x # u
    BY <1>3, <1>4, <2>3 DEF NearPairsMeet
  <2>4. QED
    BY <2>1, <2>2, <2>3
<1>7. CASE (d \in g.searched <=> d \in sparring[x].searched) /\ g.saw[d] = sparring[x].saw[d]
  <2>1. /\ d \in sparring[t].searched /\ d \in sparring[u].searched
        /\ sparring'[t].saw[d] = sparring[t].saw[d] /\ sparring'[u].saw[d] = sparring[u].saw[d]
    BY <1>3, <1>4, <1>7
  <2>2. QED
    BY <2>1 DEF NearPairsMeet
<1>8. QED
  BY <1>1, <1>6, <1>7 DEF Moves

\* A thought is stored, and perhaps its embedding: the handlers of the others are as
\* they were, its own has searched for nothing, and no distance changes.
LEMMA StoreMeets ==
  ASSUME TypeOK, Fresh, NearPairsMeet, NEW i \in Items, Store(i) \/ StoreFails(i)
  PROVE  NearPairsMeet'
<1>1. /\ Id \in Ids /\ Id \notin DOMAIN thoughts
      /\ \A k \in DOMAIN thoughts : thoughts'[k] = thoughts[k]
  BY StoreFacts DEF Store, StoreFails
<1>2. \A t \in Ids \ {Id} : sparring'[t] = sparring[t]
  BY DEF Store, StoreFails, TypeOK
<1>3. sparring'[Id].searched = {}
  <2>1. sparring[Id] \in Handlers /\ sparring[Id].searched = {}
    BY <1>1 DEF TypeOK, Fresh
  <2>2. CASE Store(i)
    BY <1>1, <2>1, <2>2 DEF Store, TypeOK, Handlers
  <2>3. CASE StoreFails(i)
    BY <1>1, <2>1, <2>3 DEF StoreFails, TypeOK, Handlers
  <2>4. QED
    BY <2>2, <2>3
<1>4. vectors \subseteq vectors' /\ vectors' \subseteq vectors \cup {Id}
  BY DEF Store, StoreFails
<1>5. vectors \subseteq DOMAIN thoughts /\ IsFiniteSet(vectors') /\ vectors \subseteq Ids
  <2>1. IsFiniteSet(vectors) /\ vectors \subseteq DOMAIN thoughts
    BY VectorsFinite
  <2>2. IsFiniteSet(vectors \cup {Id})
    BY <2>1, FS_AddElement
  <2>3. IsFiniteSet(vectors')
    BY <1>4, <2>2, FS_Subset
  <2>4. vectors \subseteq Ids
    BY <2>1, ThoughtFacts, Constants DEF TypeOK, Ids
  <2>5. QED
    BY <2>1, <2>3, <2>4
<1> SUFFICES ASSUME NEW d \in Detectors, NEW t \in vectors', NEW u \in vectors',
                    Near(d, t, u)',
                    d \in sparring'[t].searched, d \in sparring'[u].searched,
                    Cardinality(NearOnes(d, t)') <= TopK[d],
                    Cardinality(NearOnes(d, u)') <= TopK[d]
             PROVE  u \in sparring'[t].saw[d] \/ t \in sparring'[u].saw[d]
  BY DEF NearPairsMeet
<1>6. t \in vectors /\ u \in vectors /\ t # Id /\ u # Id
  BY <1>1, <1>3, <1>4, <1>5
<1>7. \A x, y \in vectors : Near(d, x, y)' <=> Near(d, x, y)
  BY <1>1, <1>5 DEF Near, Dist
<1>8. ASSUME NEW x \in vectors, Cardinality(NearOnes(d, x)') <= TopK[d]
      PROVE  Cardinality(NearOnes(d, x)) <= TopK[d]
  <2>1. NearOnes(d, x) \subseteq NearOnes(d, x)' /\ NearOnes(d, x)' \subseteq vectors'
    BY <1>4, <1>7 DEF NearOnes
  <2>2. IsFiniteSet(NearOnes(d, x)')
    BY <1>5, <2>1, FS_Subset
  <2>3. /\ Cardinality(NearOnes(d, x)) <= Cardinality(NearOnes(d, x)')
        /\ Cardinality(NearOnes(d, x)) \in Nat /\ Cardinality(NearOnes(d, x)') \in Nat
    BY <2>1, <2>2, FS_Subset, FS_CardinalityType
  <2>4. QED
    BY <1>8, <2>3, Constants
<1>9. Near(d, t, u) /\ Cardinality(NearOnes(d, t)) <= TopK[d] /\ Cardinality(NearOnes(d, u)) <= TopK[d]
  BY <1>6, <1>7, <1>8
<1>10. sparring'[t] = sparring[t] /\ sparring'[u] = sparring[u]
  BY <1>2, <1>5, <1>6
<1>11. QED
  BY <1>6, <1>9, <1>10 DEF NearPairsMeet

\* Two thoughts near each other never pass each other unseen: when both have been
\* searched for, one of them was a candidate of the other.
THEOREM CaptureMeets == Spec => []NearPairsMeet
<1> DEFINE Inv == TypeOK /\ Fresh /\ NearPairsMeet
<1>1. Init => Inv
  <2>1. Init => NearPairsMeet
    BY DEF Init, NearPairsMeet
  <2>2. QED
    BY <2>1, TypeInit
<1>2. Inv /\ [Next]_vars => Inv'
  <2> SUFFICES ASSUME TypeOK, Fresh, NearPairsMeet, [Next]_vars PROVE NearPairsMeet'
    BY TypedNext
  <2>1. CASE thoughts' = thoughts /\ vectors' = vectors /\ sparring' = sparring
    <3>1. \A d, t, u : Near(d, t, u)' <=> Near(d, t, u)
      BY <2>1, Zenon DEF Near, Dist
    <3>2. \A d, t : NearOnes(d, t)' = NearOnes(d, t)
      BY <2>1, <3>1, Zenon DEF NearOnes
    <3> QED
      BY <2>1, <3>1, <3>2, Zenon DEF NearPairsMeet
  <2>2. CASE \E i \in Items : Known(i) \/ Unknown(i) \/ CaptureFails(i)
    BY <2>1, <2>2 DEF Known, Unknown, CaptureFails
  <2>3. CASE \E i \in Items : Store(i) \/ StoreFails(i)
    BY <2>3, StoreMeets
  <2>4. CASE \E t \in Ids : Handle(t)
    BY <2>4, HandleMeets
  <2>5. CASE ProcessEnds
    <3>1. ASSUME NEW t \in Ids
          PROVE  sparring'[t].searched = sparring[t].searched /\ sparring'[t].saw = sparring[t].saw
      BY <2>5, <3>1, EndedByProcess
    <3>2. vectors \subseteq Ids
      BY ThoughtFacts, Constants DEF TypeOK, Ids
    <3>3. \A d, t, u : Near(d, t, u)' <=> Near(d, t, u)
      BY <2>5 DEF ProcessEnds, Near, Dist
    <3>4. \A d, t : NearOnes(d, t)' = NearOnes(d, t)
      BY <2>5, <3>3 DEF ProcessEnds, NearOnes
    <3>5. vectors' = vectors
      BY <2>5 DEF ProcessEnds
    <3>6. QED
      BY <3>1, <3>2, <3>3, <3>4, <3>5 DEF NearPairsMeet
  <2>6. CASE UNCHANGED vars
    BY <2>1, <2>6 DEF vars
  <2>7. QED
    BY <2>2, <2>3, <2>4, <2>5, <2>6 DEF Next
<1>3. QED
  BY <1>1, <1>2, PTL DEF Spec

-------------------------------------------------------------------------------
(* One verdict.                                                            *)

NoConflict(w) == w["contradicts"] = 0 /\ w["conflict"] = 0 /\ w["led_to"] = 0 /\ w["sidecar"] = 0

Verdict(w) ==
  /\ w["duplicate"] <= 1
  /\ w["sidecar"] <= w["led_to"] /\ w["led_to"] <= w["conflict"]
  /\ w["conflict"] <= w["contradicts"] /\ w["contradicts"] <= 1

\* What a handler of thought t still has to judge it has not written about, and what
\* the conflict detector has to judge is still untouched while the first one runs.
Unjudged(h, w, t) ==
  /\ h.at \in {"none", "embedding"} => \A u \in Ids : w[u] = Nothing
  /\ h.at = "duplicate" => \A u \in Ids : NoConflict(w[u])
  /\ h.at = "duplicate" => \A u \in h.todo : w[u]["duplicate"] = 0
  /\ h.at = "conflict" => \A u \in h.todo : NoConflict(w[u])
  /\ t \notin h.todo

Settled(w, t) == w[t] = Nothing /\ \A u \in Ids : Verdict(w[u])

Once == \A t \in Ids : Unjudged(sparring[t], written[t], t) /\ Settled(written[t], t)

LEMMA NothingFacts == NoConflict(Nothing) /\ Verdict(Nothing) /\ Nothing["duplicate"] = 0
BY DEF NoConflict, Verdict, Nothing, Kinds

LEMMA OnceIsEnough == Once => OneVerdict
BY DEF Once, Settled, Verdict, OneVerdict

LEMMA FirstPartsFacts ==
  ASSUME NEW n \in 0 .. 4
  PROVE  /\ "duplicate" \notin FirstParts(n)
         /\ "contradicts" \in FirstParts(n) <=> n >= 1
         /\ "conflict" \in FirstParts(n) <=> n >= 2
         /\ "led_to" \in FirstParts(n) <=> n >= 3
         /\ "sidecar" \in FirstParts(n) <=> n >= 4
<1>1. /\ Parts[1] = "contradicts" /\ Parts[2] = "conflict"
      /\ Parts[3] = "led_to" /\ Parts[4] = "sidecar"
  BY DEF Parts
<1>2. \A k \in 1 .. n : k = 1 \/ k = 2 \/ k = 3 \/ k = 4
  OBVIOUS
<1>3. QED
  BY <1>1, <1>2 DEF FirstParts

Plus(w, kinds) == [k \in Kinds |-> w[k] + IF k \in kinds THEN 1 ELSE 0]

\* A verdict on a candidate not judged before.
LEMMA PlusFacts ==
  ASSUME NEW w \in [Kinds -> Nat], Verdict(w)
  PROVE  /\ w["duplicate"] = 0 => Verdict(Plus(w, {"duplicate"}))
         /\ NoConflict(w) => NoConflict(Plus(w, {"duplicate"}))
         /\ Plus(w, {}) = w
         /\ \A n \in 0 .. 4 : NoConflict(w) => Verdict(Plus(w, FirstParts(n)))
<1>1. w["duplicate"] = 0 => Verdict(Plus(w, {"duplicate"}))
  BY DEF Verdict, Plus, Kinds
<1>2. NoConflict(w) => NoConflict(Plus(w, {"duplicate"}))
  BY DEF NoConflict, Plus, Kinds
<1>3. Plus(w, {}) = w
  BY DEF Plus
<1>4. ASSUME NEW n \in 0 .. 4, NoConflict(w) PROVE Verdict(Plus(w, FirstParts(n)))
  <2> DEFINE F == FirstParts(n)
  <2>1. /\ "duplicate" \notin F
        /\ "sidecar" \in F => "led_to" \in F
        /\ "led_to" \in F => "conflict" \in F
        /\ "conflict" \in F => "contradicts" \in F
    BY FirstPartsFacts
  <2> HIDE DEF F
  <2>2. Verdict(Plus(w, F))
    BY <1>4, <2>1 DEF Verdict, NoConflict, Plus, Kinds
  <2>3. QED
    BY <2>2 DEF F
<1>5. QED
  BY <1>1, <1>2, <1>3, <1>4

\* With its candidates searched for, or with none, a detector has not judged any.
LEMMA RunConflictShape ==
  ASSUME NEW h \in Handlers, NEW t \in Ids, NEW g \in RunConflict(h, t)
  PROVE  g.at \in {"conflict", "over"} /\ t \notin g.todo
<1>1. PICK f \in Searched(h, t, "conflict") : g = IF f.todo = {} THEN Ended(f) ELSE f
  BY DEF RunConflict
<1>2. PICK found \in Candidates("conflict", t) :
        f = [h EXCEPT !.at = "conflict", !.todo = found, !.searched = @ \cup {"conflict"},
                      !.saw["conflict"] = found]
  BY DEF Searched
<1>3. f.at = "conflict" /\ f.todo = found
  BY <1>2 DEF Handlers
<1>4. t \notin found
  BY CandidatesType DEF Near
<1>5. CASE f.todo = {}
  <2>1. DOMAIN f = DOMAIN h
    BY <1>2
  <2>2. g.at = "over" /\ g.todo = {}
    BY <1>1, <1>5, <2>1 DEF Ended, Handlers
  <2>3. QED
    BY <2>2
<1>6. QED
  BY <1>1, <1>3, <1>4, <1>5

LEMMA RunDuplicateShape ==
  ASSUME TypeOK, NEW h \in Handlers, NEW t \in Ids, NEW g \in RunDuplicate(h, t)
  PROVE  g.at \in {"duplicate", "conflict", "over"} /\ t \notin g.todo
<1>1. PICK f \in Searched(h, t, "duplicate") :
        g \in IF f.todo = {} THEN RunConflict(f, t) ELSE {f}
  BY DEF RunDuplicate
<1>2. f \in Handlers
  BY SearchedLater, Constants DEF Later
<1>3. PICK found \in Candidates("duplicate", t) :
        f = [h EXCEPT !.at = "duplicate", !.todo = found, !.searched = @ \cup {"duplicate"},
                      !.saw["duplicate"] = found]
  BY <1>1 DEF Searched
<1>4. f.at = "duplicate" /\ f.todo = found
  BY <1>3 DEF Handlers
<1>5. t \notin found
  BY CandidatesType DEF Near
<1>6. QED
  BY <1>1, <1>2, <1>4, <1>5, RunConflictShape

\* When a detector is done, the next one starts with nothing judged.
LEMMA NextUnjudged ==
  ASSUME NEW h \in Handlers, NEW t \in Ids, NEW w, h.at \in Detectors,
         h.at = "duplicate" => \A u \in Ids : NoConflict(w[u]),
         NEW g \in RunNext(h, t), g \in Handlers
  PROVE  Unjudged(g, w, t)
<1>1. CASE h.at = "duplicate"
  <2>1. g.at \in {"conflict", "over"} /\ t \notin g.todo
    BY <1>1, RunConflictShape DEF RunNext
  <2>2. g.todo \subseteq Ids
    BY DEF Handlers
  <2>3. QED
    BY <1>1, <2>1, <2>2 DEF Unjudged
<1>2. CASE h.at # "duplicate"
  <2>1. g.at = "over" /\ g.todo = {}
    BY <1>2 DEF RunNext, Ended, Handlers
  <2>2. QED
    BY <2>1 DEF Unjudged
<1>3. QED
  BY <1>1, <1>2

\* The candidate u of handler t is done with, after kinds were written of it.
LEMMA JudgedOnce ==
  ASSUME TypeOK, NEW t \in Ids, NEW u \in Ids, NEW kinds,
         Once, Judges(t, u), GoesOn(t, u),
         written' = [written EXCEPT ![t][u] = Plus(@, kinds)],
         \/ kinds = {}
         \/ sparring[t].at = "duplicate" /\ kinds = {"duplicate"}
         \/ sparring[t].at = "conflict" /\ \E n \in 0 .. 4 : kinds = FirstParts(n)
  PROVE  Once'
<1> DEFINE h == [sparring[t] EXCEPT !.todo = @ \ {u}]
           w == Plus(written[t][u], kinds)
<1>1. /\ sparring[t] \in Handlers /\ written[t] \in [Ids -> [Kinds -> Nat]]
      /\ written[t][u] \in [Kinds -> Nat]
  BY DEF TypeOK
<1>2. h \in Handlers /\ h.at = sparring[t].at /\ h.todo = sparring[t].todo \ {u}
  BY <1>1 DEF Handlers
<1>3. PICK g \in (IF h.todo = {} THEN RunNext(h, t) ELSE {h}) : sparring' = [sparring EXCEPT ![t] = g]
  BY DEF GoesOn
<1>4. /\ Unjudged(sparring[t], written[t], t) /\ Settled(written[t], t)
      /\ sparring[t].at \in Detectors /\ u \in sparring[t].todo /\ u # t
      /\ Verdict(written[t][u])
  BY DEF Once, Judges, Unjudged, Settled
<1>5. /\ Verdict(w)
      /\ sparring[t].at = "duplicate" => NoConflict(w)
  <2>1. CASE kinds = {}
    BY <1>1, <1>4, <2>1, PlusFacts DEF Unjudged
  <2>2. CASE sparring[t].at = "duplicate" /\ kinds = {"duplicate"}
    BY <1>1, <1>4, <2>2, PlusFacts DEF Unjudged
  <2>3. CASE sparring[t].at = "conflict" /\ \E n \in 0 .. 4 : kinds = FirstParts(n)
    BY <1>1, <1>4, <2>3, PlusFacts DEF Unjudged
  <2>4. QED
    BY <2>1, <2>2, <2>3
<1>6. \A v \in Ids : written'[t][v] = IF v = u THEN w ELSE written[t][v]
  BY <1>1 DEF TypeOK
<1> HIDE DEF h, w
<1>7. Settled(written'[t], t)
  BY <1>4, <1>5, <1>6 DEF Settled
<1>8. Unjudged(h, written'[t], t)
  <2>1. sparring[t].todo \subseteq Ids
    BY <1>1 DEF Handlers
  <2>2. h.at = "duplicate" => \A v \in Ids : NoConflict(written'[t][v])
    BY <1>2, <1>4, <1>5, <1>6 DEF Unjudged
  <2>3. h.at = "duplicate" => \A v \in h.todo : written'[t][v]["duplicate"] = 0
    BY <1>2, <1>4, <1>6, <2>1 DEF Unjudged
  <2>4. h.at = "conflict" => \A v \in h.todo : NoConflict(written'[t][v])
    BY <1>2, <1>4, <1>6, <2>1 DEF Unjudged
  <2>5. h.at \notin {"none", "embedding"} /\ t \notin h.todo
    BY <1>2, <1>4 DEF Unjudged, Detectors
  <2>6. QED
    BY <2>2, <2>3, <2>4, <2>5 DEF Unjudged
<1>9. Unjudged(g, written'[t], t)
  <2>1. CASE h.todo # {}
    BY <1>3, <1>8, <2>1
  <2>2. CASE h.todo = {}
    <3>1. g \in RunNext(h, t) /\ g \in Handlers
      BY <1>2, <1>3, <2>2, RunNextLater DEF Later
    <3>2. h.at \in Detectors /\ (h.at = "duplicate" => \A v \in Ids : NoConflict(written'[t][v]))
      BY <1>2, <1>4, <1>8 DEF Unjudged
    <3>3. QED
      BY <1>2, <3>1, <3>2, NextUnjudged
  <2>3. QED
    BY <2>1, <2>2
<1>10. ASSUME NEW x \in Ids
       PROVE  Unjudged(sparring'[x], written'[x], x) /\ Settled(written'[x], x)
  <2>1. CASE x = t
    <3>1. sparring'[x] = g
      BY <1>3, <2>1 DEF TypeOK
    <3>2. QED
      BY <1>7, <1>9, <2>1, <3>1
  <2>2. CASE x # t
    <3>1. sparring'[x] = sparring[x] /\ written'[x] = written[x]
      BY <1>3, <2>2 DEF TypeOK
    <3>2. QED
      BY <3>1 DEF Once
  <2>3. QED
    BY <2>1, <2>2
<1>11. QED
  BY <1>10 DEF Once, Unjudged, Settled

\* Nothing is written, and at most handler t moves on.
LEMMA UnwrittenOnce ==
  ASSUME TypeOK, Once, written' = written,
         \A x \in Ids : \/ sparring'[x] = sparring[x]
                       \/ Unjudged(sparring'[x], written[x], x)
  PROVE  Once'
BY DEF Once, Unjudged, Settled

\* A detector raises: what it wrote was of a candidate not judged before.
LEMMA FailedOnce ==
  ASSUME TypeOK, Once, NEW t \in Ids, NEW u \in Ids, NEW n \in 0 .. 2, DetectorFails(t, u, n)
  PROVE  Once'
<1> DEFINE kinds == IF sparring[t].at = "duplicate" THEN {} ELSE FirstParts(n)
           w == Plus(written[t][u], kinds)
<1>1. /\ sparring[t] \in Handlers /\ written[t][u] \in [Kinds -> Nat]
      /\ Unjudged(sparring[t], written[t], t) /\ Settled(written[t], t)
      /\ sparring[t].at \in Detectors /\ u \in sparring[t].todo /\ u # t
      /\ Verdict(written[t][u])
  BY DEF TypeOK, Once, DetectorFails, Judges, Unjudged, Settled
<1>2. PICK g \in RunNext(sparring[t], t) : sparring' = [sparring EXCEPT ![t] = g]
  BY DEF DetectorFails
<1>3. g \in Handlers
  BY <1>1, RunNextLater DEF Later
<1>4. written' = [written EXCEPT ![t][u] = w]
  BY DEF DetectorFails, Writes, Plus
<1>5. Verdict(w) /\ (sparring[t].at = "duplicate" => w = written[t][u])
  <2>1. CASE sparring[t].at = "duplicate"
    BY <1>1, <2>1, PlusFacts
  <2>2. CASE sparring[t].at # "duplicate"
    <3>1. NoConflict(written[t][u])
      BY <1>1, <2>2 DEF Unjudged, Detectors
    <3>2. n \in 0 .. 4
      OBVIOUS
    <3>3. QED
      BY <1>1, <2>2, <3>1, <3>2, PlusFacts
  <2>3. QED
    BY <2>1, <2>2
<1> HIDE DEF w
<1>6. \A v \in Ids : written'[t][v] = IF v = u THEN w ELSE written[t][v]
  BY <1>4 DEF TypeOK
<1>7. Settled(written'[t], t)
  BY <1>1, <1>5, <1>6 DEF Settled
<1>8. sparring[t].at = "duplicate" => \A v \in Ids : NoConflict(written'[t][v])
  BY <1>1, <1>5, <1>6 DEF Unjudged
<1>9. Unjudged(g, written'[t], t)
  BY <1>1, <1>2, <1>3, <1>8, NextUnjudged
<1>10. ASSUME NEW x \in Ids
       PROVE  Unjudged(sparring'[x], written'[x], x) /\ Settled(written'[x], x)
  <2>1. CASE x = t
    <3>1. sparring'[x] = g
      BY <1>2, <2>1 DEF TypeOK
    <3>2. QED
      BY <1>7, <1>9, <2>1, <3>1
  <2>2. CASE x # t
    <3>1. sparring'[x] = sparring[x] /\ written'[x] = written[x]
      BY <1>2, <1>4, <2>2 DEF TypeOK
    <3>2. QED
      BY <3>1 DEF Once
  <2>3. QED
    BY <2>1, <2>2
<1>11. QED
  BY <1>10 DEF Once, Unjudged, Settled

LEMMA HandleOnce ==
  ASSUME TypeOK, Once, NEW t \in Ids, Handle(t)
  PROVE  Once'
<1>1. /\ sparring[t] \in Handlers /\ written[t] \in [Ids -> [Kinds -> Nat]]
      /\ Unjudged(sparring[t], written[t], t)
  BY DEF TypeOK, Once
<1>0. \A m \in 0 .. 4 : \E n \in 0 .. 4 : FirstParts(m) = FirstParts(n)
  OBVIOUS
<1>2. CASE Embedded(t)
  <2>1. PICK g \in RunDuplicate(sparring[t], t) : sparring' = [sparring EXCEPT ![t] = g]
    BY <1>2 DEF Embedded
  <2>2. g.at \in {"duplicate", "conflict", "over"} /\ t \notin g.todo
    BY <1>1, <2>1, RunDuplicateShape
  <2>3. g.todo \subseteq Ids
    BY <1>1, <2>1, RunDuplicateLater DEF Later, Handlers
  <2>4. \A u \in Ids : NoConflict(written[t][u]) /\ written[t][u]["duplicate"] = 0
    BY <1>1, <1>2, NothingFacts DEF Embedded, Unjudged
  <2>5. Unjudged(g, written[t], t)
    BY <2>2, <2>3, <2>4 DEF Unjudged
  <2>6. \A x \in Ids : sparring'[x] = IF x = t THEN g ELSE sparring[x]
    BY <2>1 DEF TypeOK
  <2>7. written' = written
    BY <1>2 DEF Embedded
  <2>8. QED
    BY <2>5, <2>6, <2>7, UnwrittenOnce
<1>3. CASE EmbedFails(t)
  <2>1. sparring'[t].at = "over" /\ sparring'[t].todo = sparring[t].todo
    BY <1>1, <1>3 DEF EmbedFails, TypeOK, Handlers
  <2>2. Unjudged(sparring'[t], written[t], t)
    BY <1>1, <2>1 DEF Unjudged
  <2>3. \A x \in Ids \ {t} : sparring'[x] = sparring[x]
    BY <1>3 DEF EmbedFails, TypeOK
  <2>4. written' = written
    BY <1>3 DEF EmbedFails
  <2>5. QED
    BY <2>2, <2>3, <2>4, UnwrittenOnce
<1>4. ASSUME NEW u \in Ids, JudgeNegative(t, u) PROVE Once'
  <2>1. written[t][u] \in [Kinds -> Nat] /\ Verdict(written[t][u])
    BY <1>1 DEF Once, Settled
  <2>2. written' = [written EXCEPT ![t][u] = Plus(@, {})]
    BY <1>1, <1>4, <2>1, PlusFacts DEF JudgeNegative, TypeOK
  <2>3. QED
    BY <1>4, <2>2, JudgedOnce DEF JudgeNegative
<1>5. ASSUME NEW u \in Ids, JudgePositive(t, u) PROVE Once'
  <2>1. CASE sparring[t].at = "duplicate"
    <3>1. written' = [written EXCEPT ![t][u] = Plus(@, {"duplicate"})]
      BY <1>5, <2>1 DEF JudgePositive, Writes, Plus
    <3>2. QED
      BY <1>5, <2>1, <3>1, JudgedOnce DEF JudgePositive
  <2>2. CASE sparring[t].at # "duplicate"
    <3>1. sparring[t].at = "conflict"
      BY <1>5, <2>2 DEF JudgePositive, Judges, Detectors
    <3>2. written' = [written EXCEPT ![t][u] = Plus(@, FirstParts(4))]
      BY <1>5, <2>2 DEF JudgePositive, Writes, Plus
    <3>3. \E n \in 0 .. 4 : FirstParts(4) = FirstParts(n)
      BY <1>0
    <3>4. QED
      BY <1>5, <3>1, <3>2, <3>3, JudgedOnce DEF JudgePositive
  <2>3. QED
    BY <2>1, <2>2
<1>6. ASSUME NEW u \in Ids, SidecarFails(t, u) PROVE Once'
  <2>1. written' = [written EXCEPT ![t][u] = Plus(@, FirstParts(3))]
    BY <1>6 DEF SidecarFails, Writes, Plus
  <2>2. \E n \in 0 .. 4 : FirstParts(3) = FirstParts(n)
    BY <1>0
  <2>3. QED
    BY <1>6, <2>1, <2>2, JudgedOnce DEF SidecarFails
<1>7. ASSUME NEW u \in Ids, NEW n \in 0 .. 2, DetectorFails(t, u, n) PROVE Once'
  BY <1>7, FailedOnce
<1>8. QED
  BY <1>2, <1>3, <1>4, <1>5, <1>6, <1>7 DEF Handle

\* A detector writes at most one verdict on a thought against another, and the parts
\* of a conflict in order.
THEOREM CaptureOnce == Spec => []OneVerdict
<1> DEFINE Inv == TypeOK /\ Fresh /\ Once
<1>1. Init => Inv
  <2> SUFFICES ASSUME Init PROVE Once
    BY TypeInit
  <2>1. \A t, u \in Ids : written[t][u] = Nothing /\ sparring[t] = NoSparring
    BY DEF Init
  <2>2. QED
    BY <2>1, NothingFacts DEF Once, Unjudged, Settled, NoSparring
<1>2. Inv /\ [Next]_vars => Inv'
  <2> SUFFICES ASSUME TypeOK, Fresh, Once, [Next]_vars PROVE Once'
    BY TypedNext
  <2>1. CASE sparring' = sparring /\ written' = written
    BY <2>1, UnwrittenOnce
  <2>2. CASE \E i \in Items : Known(i) \/ Unknown(i) \/ CaptureFails(i)
    BY <2>1, <2>2 DEF Known, Unknown, CaptureFails
  <2>3. ASSUME NEW i \in Items, Store(i) \/ StoreFails(i) PROVE Once'
    <3>1. Id \in Ids /\ Id \notin DOMAIN thoughts /\ written' = written
      BY <2>3, StoreFacts DEF Store, StoreFails
    <3>2. sparring[Id] \in Handlers /\ sparring[Id].at = "none"
      BY <3>1 DEF TypeOK, Fresh
    <3>3. Unjudged(sparring[Id], written[Id], Id)
      BY <3>1 DEF Once
    <3>4. sparring'[Id].at \in {"embedding", "over"} /\ sparring'[Id].todo = sparring[Id].todo
      <4>1. CASE Store(i)
        BY <3>1, <3>2, <4>1 DEF Store, TypeOK, Handlers
      <4>2. CASE StoreFails(i)
        BY <3>1, <3>2, <4>2 DEF StoreFails, TypeOK, Handlers
      <4>3. QED
        BY <2>3, <4>1, <4>2
    <3>5. Unjudged(sparring'[Id], written[Id], Id)
      BY <3>2, <3>3, <3>4 DEF Unjudged
    <3>6. \A x \in Ids \ {Id} : sparring'[x] = sparring[x]
      BY <2>3 DEF Store, StoreFails, TypeOK
    <3>7. QED
      BY <3>1, <3>5, <3>6, UnwrittenOnce
  <2>4. CASE \E t \in Ids : Handle(t)
    BY <2>4, HandleOnce
  <2>5. CASE ProcessEnds
    <3>1. ASSUME NEW x \in Ids
          PROVE  sparring'[x] = sparring[x] \/ Unjudged(sparring'[x], written[x], x)
      <4>1. CASE sparring[x].at \in {"none", "over"}
        BY <2>5, <4>1 DEF ProcessEnds
      <4>2. CASE sparring[x].at \notin {"none", "over"}
        <5> DEFINE h == Ended(sparring[x])
        <5>1. h \in Handlers /\ h.at = "over" /\ h.todo = {}
          <6>1. sparring[x] \in Handlers
            BY DEF TypeOK
          <6>2. QED
            BY <6>1 DEF Ended, Handlers
        <5>2. sparring'[x] = [h EXCEPT !.lost = @ \cup {"crash"}]
          BY <2>5, <4>2 DEF ProcessEnds
        <5> HIDE DEF h
        <5>3. sparring'[x].at = "over" /\ sparring'[x].todo = {}
          BY <5>1, <5>2 DEF Handlers
        <5>4. QED
          BY <5>3 DEF Unjudged
      <4>3. QED
        BY <4>1, <4>2
    <3>2. written' = written
      BY <2>5 DEF ProcessEnds
    <3>3. QED
      BY <3>1, <3>2, UnwrittenOnce
  <2>6. CASE UNCHANGED vars
    BY <2>1, <2>6 DEF vars
  <2>7. QED
    BY <2>2, <2>3, <2>4, <2>5, <2>6 DEF Next
<1>3. Inv => OneVerdict
  BY OnceIsEnough
<1>4. QED
  BY <1>1, <1>2, <1>3, PTL DEF Spec

-------------------------------------------------------------------------------
(* No stored thought is forgotten.                                         *)

\* A handler that runs a detector has searched for its candidates and has some left;
\* one that is over has run both detectors, or it is known what kept it from that.
OnTrack(h, stored) ==
  /\ h.todo \subseteq stored
  /\ h.at = "duplicate" => "duplicate" \in h.searched /\ h.todo # {}
  /\ h.at = "conflict" => h.searched = Detectors /\ h.todo # {}
  /\ h.at = "over" => h.searched = Detectors \/ h.lost # {}

AllOnTrack ==
  /\ \A t \in Ids : OnTrack(sparring[t], DOMAIN thoughts)
  /\ \A t \in DOMAIN thoughts : sparring[t].at # "none"

\* A set of numbers has a least one.
LEMMA HasLeast ==
  ASSUME NEW S \in SUBSET Nat, S # {}
  PROVE  \E x \in S : \A y \in S : x <= y
<1> DEFINE R == OpToRel(<, Nat)
<1>1. IsWellFoundedOn(R, Nat)
  BY NatLessThanWellFounded, Zenon
<1>2. R = {ss \in Nat \X Nat : ss[1] < ss[2]}
  BY DEF OpToRel
<1> HIDE DEF R
<1>3. PICK x \in S : \A y \in S : ~(<<y, x>> \in R)
  BY <1>1, WFMin
<1>4. \A y \in S : ~(y < x)
  BY <1>2, <1>3
<1>5. QED
  BY <1>4

\* What a detector makes of a handler that begins its search.
LEMMA SearchedFields ==
  ASSUME TypeOK, NEW h \in Handlers, NEW t \in Ids, NEW d \in Detectors,
         NEW g \in Searched(h, t, d)
  PROVE  /\ g \in Handlers /\ g.at = d /\ g.searched = h.searched \cup {d} /\ g.lost = h.lost
         /\ g.todo \subseteq DOMAIN thoughts
<1>1. PICK found \in Candidates(d, t) :
        g = [h EXCEPT !.at = d, !.todo = found, !.searched = @ \cup {d}, !.saw[d] = found]
  BY DEF Searched
<1>2. g.at = d /\ g.todo = found /\ g.searched = h.searched \cup {d} /\ g.lost = h.lost
  BY <1>1 DEF Handlers
<1>3. found \subseteq DOMAIN thoughts
  BY CandidatesType DEF TypeOK
<1>4. g \in Handlers
  BY SearchedLater DEF Later
<1>5. QED
  BY <1>2, <1>3, <1>4

\* A handler that has ended.
LEMMA EndedFields ==
  ASSUME NEW h \in Handlers
  PROVE  Ended(h).at = "over" /\ Ended(h).todo = {} /\ Ended(h).searched = h.searched
         /\ Ended(h).lost = h.lost
  BY DEF Ended, Handlers

\* The conflict detector runs after the duplicate detector has searched.
LEMMA RunConflictOnTrack ==
  ASSUME TypeOK, NEW h \in Handlers, NEW t \in Ids, "duplicate" \in h.searched,
         NEW g \in RunConflict(h, t)
  PROVE  OnTrack(g, DOMAIN thoughts) /\ g.at # "none"
<1>1. PICK f \in Searched(h, t, "conflict") : g = IF f.todo = {} THEN Ended(f) ELSE f
  BY DEF RunConflict
<1>2. /\ f \in Handlers /\ f.at = "conflict" /\ f.searched = Detectors
      /\ f.todo \subseteq DOMAIN thoughts
  <2>1. /\ f \in Handlers /\ f.at = "conflict" /\ f.searched = h.searched \cup {"conflict"}
        /\ f.todo \subseteq DOMAIN thoughts
    BY SearchedFields, Constants
  <2>2. h.searched \subseteq Detectors
    BY DEF Handlers
  <2>3. QED
    BY <2>1, <2>2 DEF Detectors
<1>3. CASE f.todo = {}
  BY <1>1, <1>2, <1>3, EndedFields DEF OnTrack
<1>4. CASE f.todo # {}
  BY <1>1, <1>2, <1>4 DEF OnTrack
<1>5. QED
  BY <1>3, <1>4

\* The first detector, and the second if the first has nothing to judge.
LEMMA RunDuplicateOnTrack ==
  ASSUME TypeOK, NEW h \in Handlers, NEW t \in Ids, NEW g \in RunDuplicate(h, t)
  PROVE  OnTrack(g, DOMAIN thoughts) /\ g.at # "none"
<1>1. PICK f \in Searched(h, t, "duplicate") :
        g \in IF f.todo = {} THEN RunConflict(f, t) ELSE {f}
  BY DEF RunDuplicate
<1>2. /\ f \in Handlers /\ f.at = "duplicate" /\ "duplicate" \in f.searched
      /\ f.todo \subseteq DOMAIN thoughts
  BY SearchedFields, Constants
<1>3. CASE f.todo = {}
  BY <1>1, <1>2, <1>3, RunConflictOnTrack
<1>4. CASE f.todo # {}
  BY <1>1, <1>2, <1>4 DEF OnTrack
<1>5. QED
  BY <1>3, <1>4

\* When a detector is done, the engine runs the next one, or the handler is over.
LEMMA RunNextOnTrack ==
  ASSUME TypeOK, NEW h \in Handlers, NEW t \in Ids, h.at \in Detectors,
         h.at = "duplicate" => "duplicate" \in h.searched,
         h.at = "conflict" => h.searched = Detectors,
         NEW g \in RunNext(h, t)
  PROVE  OnTrack(g, DOMAIN thoughts) /\ g.at # "none"
<1>1. CASE h.at = "duplicate"
  BY <1>1, RunConflictOnTrack DEF RunNext
<1>2. CASE h.at = "conflict"
  BY <1>2, EndedFields DEF RunNext, OnTrack
<1>3. QED
  BY <1>1, <1>2 DEF Detectors

\* A step of a handler keeps it on track.
LEMMA HandleOnTrack ==
  ASSUME TypeOK, NEW t \in Ids, OnTrack(sparring[t], DOMAIN thoughts), Handle(t)
  PROVE  /\ OnTrack(sparring'[t], DOMAIN thoughts) /\ sparring'[t].at # "none"
         /\ \A x \in Ids \ {t} : sparring'[x] = sparring[x]
<1> DEFINE Goes(g) == OnTrack(g, DOMAIN thoughts) /\ g.at # "none"
<1>1. sparring[t] \in Handlers /\ \A g : sparring' = [sparring EXCEPT ![t] = g] =>
        sparring'[t] = g /\ \A x \in Ids \ {t} : sparring'[x] = sparring[x]
  BY DEF TypeOK
<1>2. CASE Embedded(t)
  <2>1. PICK g \in RunDuplicate(sparring[t], t) : sparring' = [sparring EXCEPT ![t] = g]
    BY <1>2 DEF Embedded
  <2>2. Goes(g)
    BY <1>1, <2>1, RunDuplicateOnTrack
  <2>3. QED
    BY <1>1, <2>1, <2>2
<1>3. CASE EmbedFails(t)
  <2> DEFINE g == [sparring[t] EXCEPT !.at = "over", !.lost = @ \cup {"embed"}]
  <2>1. g.at = "over" /\ g.todo = sparring[t].todo /\ "embed" \in g.lost
    BY <1>1 DEF Handlers
  <2>2. sparring' = [sparring EXCEPT ![t] = g]
    BY <1>3 DEF EmbedFails
  <2> HIDE DEF g
  <2>3. Goes(g)
    BY <2>1 DEF OnTrack
  <2>4. QED
    BY <1>1, <2>2, <2>3
<1>4. ASSUME NEW u \in Ids, Judges(t, u), GoesOn(t, u)
      PROVE  \E g : sparring' = [sparring EXCEPT ![t] = g] /\ Goes(g)
  <2> DEFINE h == [sparring[t] EXCEPT !.todo = @ \ {u}]
  <2>1. /\ h \in Handlers /\ h.searched = sparring[t].searched /\ h.at = sparring[t].at
        /\ h.todo \subseteq sparring[t].todo /\ h.at \in Detectors
    BY <1>1, <1>4 DEF Handlers, Judges
  <2>2. PICK g \in (IF h.todo = {} THEN RunNext(h, t) ELSE {h}) :
          sparring' = [sparring EXCEPT ![t] = g]
    BY <1>4 DEF GoesOn
  <2> HIDE DEF h
  <2>3. CASE h.todo = {}
    BY <2>1, <2>2, <2>3, RunNextOnTrack DEF OnTrack
  <2>4. CASE h.todo # {}
    BY <2>1, <2>2, <2>4 DEF OnTrack, Detectors
  <2>5. QED
    BY <2>3, <2>4
<1>5. ASSUME NEW u \in Ids, JudgeNegative(t, u) \/ JudgePositive(t, u) \/ SidecarFails(t, u)
      PROVE  Judges(t, u) /\ GoesOn(t, u)
  BY <1>5 DEF JudgeNegative, JudgePositive, SidecarFails
<1>6. ASSUME NEW u \in Ids, NEW n \in 0 .. 2, DetectorFails(t, u, n)
      PROVE  \E g : sparring' = [sparring EXCEPT ![t] = g] /\ Goes(g)
  <2>1. PICK g \in RunNext(sparring[t], t) : sparring' = [sparring EXCEPT ![t] = g]
    BY <1>6 DEF DetectorFails
  <2>2. Goes(g)
    BY <1>1, <1>6, <2>1, RunNextOnTrack DEF DetectorFails, Judges, OnTrack
  <2>3. QED
    BY <2>1, <2>2
<1> HIDE DEF Goes
<1>7. (\E g : sparring' = [sparring EXCEPT ![t] = g] /\ Goes(g)) =>
        Goes(sparring'[t]) /\ \A x \in Ids \ {t} : sparring'[x] = sparring[x]
  BY <1>1
<1>8. Goes(sparring'[t]) => OnTrack(sparring'[t], DOMAIN thoughts) /\ sparring'[t].at # "none"
  BY DEF Goes
<1>9. QED
  BY <1>2, <1>3, <1>4, <1>5, <1>6, <1>7, <1>8 DEF Handle

\* A handler on track stays so when more is stored.
LEMMA StoredMore ==
  ASSUME NEW h, NEW D, NEW E, D \subseteq E, OnTrack(h, D)
  PROVE  OnTrack(h, E)
  BY DEF OnTrack

\* Every step keeps all handlers on track.
LEMMA StepOnTrack ==
  ASSUME TypeOK, Fresh, AllOnTrack, [Next]_vars
  PROVE  AllOnTrack'
<1>1. CASE UNCHANGED <<thoughts, sparring>>
  BY <1>1 DEF AllOnTrack, OnTrack
<1>2. ASSUME NEW i \in Items, Store(i) \/ StoreFails(i) PROVE AllOnTrack'
  <2>1. Id \in Ids /\ thoughts' = Append(thoughts, i)
    BY <1>2 DEF Store, StoreFails
  <2>2. DOMAIN thoughts' = DOMAIN thoughts \cup {Id} /\ Id \notin DOMAIN thoughts
    BY <2>1, StoreFacts
  <2>3. sparring[Id] \in Handlers /\ OnTrack(sparring[Id], DOMAIN thoughts)
    BY <2>1 DEF TypeOK, AllOnTrack
  <2>4. /\ sparring'[Id].todo = sparring[Id].todo
        /\ \/ sparring'[Id].at = "embedding"
           \/ sparring'[Id].at = "over" /\ sparring'[Id].lost # {}
        /\ \A x \in Ids \ {Id} : sparring'[x] = sparring[x]
    <3>1. CASE Store(i)
      <4>1. sparring' = [sparring EXCEPT ![Id] = [sparring[Id] EXCEPT !.at = "embedding"]]
        BY <3>1 DEF Store
      <4>2. QED
        BY <2>1, <2>3, <4>1 DEF TypeOK, Handlers
    <3>2. CASE StoreFails(i)
      <4> DEFINE h == [sparring[Id] EXCEPT !.at = "over", !.lost = {"upsert"}]
      <4>1. h.todo = sparring[Id].todo /\ h.at = "over" /\ h.lost # {}
        BY <2>3 DEF Handlers
      <4>2. sparring' = [sparring EXCEPT ![Id] = h]
        BY <2>1, <3>2 DEF StoreFails, TypeOK
      <4> HIDE DEF h
      <4>3. QED
        BY <2>1, <4>1, <4>2 DEF TypeOK
    <3>3. QED
      BY <1>2, <3>1, <3>2
  <2>5. OnTrack(sparring'[Id], DOMAIN thoughts') /\ sparring'[Id].at # "none"
    BY <2>2, <2>3, <2>4 DEF OnTrack
  <2>6. \A x \in Ids : OnTrack(sparring'[x], DOMAIN thoughts')
    BY <2>2, <2>4, <2>5, StoredMore DEF AllOnTrack
  <2>7. \A x \in DOMAIN thoughts' : sparring'[x].at # "none"
    <3>1. DOMAIN thoughts \subseteq Ids
      BY ThoughtFacts, Constants DEF TypeOK, Ids
    <3>2. QED
      BY <2>2, <2>4, <2>5, <3>1 DEF AllOnTrack
  <2>8. QED
    BY <2>6, <2>7 DEF AllOnTrack
<1>3. ASSUME NEW t \in Ids, Handle(t) PROVE AllOnTrack'
  <2>1. thoughts' = thoughts
    BY <1>3, HandleStep
  <2>2. /\ OnTrack(sparring'[t], DOMAIN thoughts) /\ sparring'[t].at # "none"
        /\ \A x \in Ids \ {t} : sparring'[x] = sparring[x]
    BY <1>3, HandleOnTrack DEF AllOnTrack
  <2>3. DOMAIN thoughts \subseteq Ids
    BY ThoughtFacts, Constants DEF TypeOK, Ids
  <2>4. \A x \in Ids : OnTrack(sparring'[x], DOMAIN thoughts')
    BY <2>1, <2>2 DEF AllOnTrack
  <2>5. \A x \in DOMAIN thoughts' : sparring'[x].at # "none"
    BY <2>1, <2>2, <2>3 DEF AllOnTrack
  <2>6. QED
    BY <2>4, <2>5 DEF AllOnTrack
<1>4. CASE ProcessEnds
  <2>1. thoughts' = thoughts
    BY <1>4 DEF ProcessEnds
  <2>2. ASSUME NEW x \in Ids
        PROVE  /\ OnTrack(sparring'[x], DOMAIN thoughts)
               /\ sparring[x].at # "none" => sparring'[x].at # "none"
    <3>1. CASE sparring[x].at \in {"none", "over"}
      <4>1. sparring'[x] = sparring[x]
        BY <1>4, <3>1 DEF ProcessEnds
      <4>2. QED
        BY <4>1 DEF AllOnTrack
    <3>2. CASE sparring[x].at \notin {"none", "over"}
      <4> DEFINE h == Ended(sparring[x])
      <4>1. h \in Handlers /\ h.at = "over" /\ h.todo = {}
        <5>1. sparring[x] \in Handlers
          BY DEF TypeOK
        <5>2. QED
          BY <5>1, EndedFields, EndedLater
      <4>2. sparring'[x] = [h EXCEPT !.lost = @ \cup {"crash"}]
        BY <1>4, <3>2 DEF ProcessEnds
      <4> HIDE DEF h
      <4>3. sparring'[x].at = "over" /\ sparring'[x].todo = {} /\ sparring'[x].lost # {}
        BY <4>1, <4>2 DEF Handlers
      <4>4. QED
        BY <4>3 DEF OnTrack
    <3>3. QED
      BY <3>1, <3>2
  <2>3. DOMAIN thoughts \subseteq Ids
    BY ThoughtFacts, Constants DEF TypeOK, Ids
  <2>4. QED
    BY <2>1, <2>2, <2>3 DEF AllOnTrack
<1>5. QED
  BY <1>1, <1>2, <1>3, <1>4 DEF Next, vars, Known, Unknown, CaptureFails

\* What becomes of a stored thought: its handler embeds it, or judges a next candidate,
\* or it is over, having run both detectors unless something is known to be lost.
StoredIsAttended ==
  \A t \in DOMAIN thoughts :
    /\ sparring[t].at \in {"embedding", "over"} \/ \E u \in Ids : Judges(t, u)
    /\ sparring[t].at = "over" => sparring[t].searched = Detectors \/ sparring[t].lost # {}

\* No stored thought is forgotten: as long as its handler is not over it has a next step,
\* and it never ends without both searches unless an embedding failed or was not stored,
\* or the process ended (what StoredIsCompared needs besides fairness).
THEOREM StoredIsAlwaysAttended == Spec => []StoredIsAttended
<1>1. Init => AllOnTrack
  BY DEF Init, AllOnTrack, OnTrack, NoSparring
<1>2. TypeOK /\ AllOnTrack => StoredIsAttended
  <2> SUFFICES ASSUME TypeOK, AllOnTrack, NEW t \in DOMAIN thoughts
               PROVE  /\ sparring[t].at \in {"embedding", "over"} \/ \E u \in Ids : Judges(t, u)
                      /\ sparring[t].at = "over" =>
                           sparring[t].searched = Detectors \/ sparring[t].lost # {}
    BY DEF StoredIsAttended
  <2>1. DOMAIN thoughts \subseteq Ids
    BY ThoughtFacts, Constants DEF TypeOK, Ids
  <2>2. /\ sparring[t] \in Handlers /\ OnTrack(sparring[t], DOMAIN thoughts)
        /\ sparring[t].at # "none"
    BY <2>1 DEF TypeOK, AllOnTrack
  <2>3. CASE sparring[t].at \in Detectors
    <3> DEFINE C == sparring[t].todo
               S == {Dist(t, u) : u \in C}
    <3>1. C \subseteq DOMAIN thoughts /\ C # {}
      BY <2>2, <2>3 DEF OnTrack, Detectors
    <3>2. S \subseteq Nat /\ S # {}
      BY <3>1, DistType
    <3>3. PICK x \in S : \A y \in S : x <= y
      BY <3>2, HasLeast
    <3>4. PICK u \in C : x = Dist(t, u)
      OBVIOUS
    <3>5. Judges(t, u) /\ u \in Ids
      BY <2>1, <2>3, <3>1, <3>3, <3>4 DEF Judges
    <3>6. QED
      BY <2>3, <3>5 DEF Detectors
  <2>4. QED
    BY <2>2, <2>3 DEF Handlers, OnTrack
<1>3. QED
  BY <1>1, <1>2, TypeInit, TypedNext, StepOnTrack, PTL DEF Spec
===============================================================================
