-------------------------------- MODULE Capture --------------------------------
(***************************************************************************)
(* Capturing thoughts and comparing them (backend/app/capture, sparring,   *)
(* detectors, db): normalize_and_persist, called by POST /capture, the     *)
(* webhooks and the vault watcher, and the sparring engine, which hears of *)
(* each new thought on the event bus and runs its detectors on it.         *)
(*                                                                         *)
(* All of it runs in one event loop.  A step is what a task does between   *)
(* two awaits of the embedder or of a language model; everything else,     *)
(* the databases included, is called without a suspension.  A search of    *)
(* the vector store that raises, and a detector that is switched off, are  *)
(* left out.                                                               *)
(*                                                                         *)
(* A thought is known by its place in thoughts.  Equal contents have equal *)
(* hashes and equal embeddings; what an embedding is for is its distance   *)
(* from others.                                                            *)
(***************************************************************************)
EXTENDS Integers, Sequences, FiniteSets

CONSTANTS Contents, Sources,
          Distance,    \* Distance[a][b]: of the embeddings of two contents
          Threshold,   \* Threshold[d]: the distance_threshold of detector d
          TopK,        \* TopK[d]: the top_k of detector d
          MaxCalls,    \* bound: calls of normalize_and_persist, and so thoughts
          MaxFaults    \* bound: errors of a database or the file system, and ends
                       \* of the process

Detectors == {"duplicate", "conflict"}

ASSUME CaptureAssumption ==
  /\ Distance \in [Contents -> [Contents -> Nat]]
  /\ \A a \in Contents : Distance[a][a] = 0
  /\ \A a, b \in Contents : Distance[a][b] = Distance[b][a]
  /\ Threshold \in [Detectors -> Nat] /\ TopK \in [Detectors -> Nat]
  /\ MaxCalls \in Nat /\ MaxFaults \in Nat

Items == [content : Contents, source : Sources]
Ids == 1 .. MaxCalls

VARIABLES
  thoughts,  \* the Thought nodes in the graph, in the order of their creation
  vectors,   \* the thoughts that have an embedding in the vector store
  pending,   \* pending[i]: how many calls wait for the embedding of item i
  calls,     \* how many calls there were
  sparring,  \* sparring[t]: the engine's handler of the event of thought t
  written,   \* written[t][u]: what the detectors wrote of t against u
  faults     \* errors and ends of the process so far

vars == <<thoughts, vectors, pending, calls, sparring, written, faults>>

NoSparring == [at |-> "none", todo |-> {}, searched |-> {},
               saw |-> [d \in Detectors |-> {}], lost |-> {}]

\* What the detectors write: an edge; or an edge, a Conflict node, the edge that
\* anchors it, and a file in the vault.
Parts == <<"contradicts", "conflict", "led_to", "sidecar">>
Kinds == {"duplicate", "contradicts", "conflict", "led_to", "sidecar"}
Nothing == [k \in Kinds |-> 0]

Init ==
  /\ thoughts = <<>>
  /\ vectors = {}
  /\ pending = [i \in Items |-> 0]
  /\ calls = 0
  /\ sparring = [t \in Ids |-> NoSparring]
  /\ written = [t \in Ids |-> [u \in Ids |-> Nothing]]
  /\ faults = 0

-------------------------------------------------------------------------------
(* normalize_and_persist.                                                  *)

\* find_thought_by_hash: by content and source.
IsKnown(i) == \E t \in DOMAIN thoughts : thoughts[t] = i

\* Mutant: a thought that is known is announced again.
KnownAgain(i) ==
  /\ calls < MaxCalls /\ IsKnown(i)
  /\ calls' = calls + 1
  /\ sparring' = [t \in Ids |->
                    IF t \in DOMAIN thoughts /\ thoughts[t] = i /\ sparring[t].at = "over"
                    THEN [NoSparring EXCEPT !.at = "embedding"] ELSE sparring[t]]
  /\ UNCHANGED <<thoughts, vectors, pending, written, faults>>

\* A known content is not captured again ...
Known(i) ==
  /\ calls < MaxCalls /\ IsKnown(i)
  /\ calls' = calls + 1
  /\ UNCHANGED <<thoughts, vectors, pending, sparring, written, faults>>

\* ... any other is embedded; meanwhile other tasks run.
Unknown(i) ==
  /\ calls < MaxCalls /\ ~IsKnown(i)
  /\ calls' = calls + 1
  /\ pending' = [pending EXCEPT ![i] = @ + 1]
  /\ UNCHANGED <<thoughts, vectors, sparring, written, faults>>

EndsCall(i) ==
  /\ pending[i] > 0
  /\ pending' = [pending EXCEPT ![i] = @ - 1]

\* The embedder, or nodes.create, raises: nothing is stored.
CaptureFails(i) ==
  /\ EndsCall(i)
  /\ UNCHANGED <<thoughts, vectors, calls, sparring, written, faults>>

Id == Len(thoughts) + 1

\* The thought and its embedding are stored, without another look for the same
\* content, and the event starts a handler.
Store(i) ==
  /\ EndsCall(i) /\ Id \in Ids
  /\ thoughts' = Append(thoughts, i)
  /\ vectors' = vectors \cup {Id}
  /\ sparring' = [sparring EXCEPT ![Id].at = "embedding"]
  /\ UNCHANGED <<calls, written, faults>>

\* The thought is stored and vec.upsert raises: it has no embedding, and no event
\* is published.
StoreFails(i) ==
  /\ EndsCall(i) /\ Id \in Ids /\ faults < MaxFaults
  /\ thoughts' = Append(thoughts, i)
  /\ sparring' = [sparring EXCEPT ![Id].at = "over", ![Id].lost = {"upsert"}]
  /\ faults' = faults + 1
  /\ UNCHANGED <<vectors, calls, written>>

-------------------------------------------------------------------------------
(* The sparring engine and its detectors.                                  *)

Dist(t, u) == Distance[thoughts[t].content][thoughts[u].content]

\* The k elements of S nearest to t, or all if there are no more; ties are broken
\* in any way.
Nearest(k, S, t) ==
  {M \in SUBSET S :
     /\ Cardinality(M) <= k
     /\ M = S \/ Cardinality(M) = k
     /\ \A x \in M, y \in S \ M : Dist(t, x) <= Dist(t, y)}

Near(d, t, u) == u # t /\ Dist(t, u) <= Threshold[d]

\* Mutant: top_k embeddings are asked for, the thought's own among them.
CandidatesWithSelf(d, t) ==
  UNION {Nearest(TopK[d], {u \in M : Near(d, t, u)}, t) : M \in Nearest(TopK[d], vectors, t)}

\* The vector store is asked for top_k + 1 embeddings, since the thought's own is
\* among them; of the others that are near enough the first top_k are candidates.
Candidates(d, t) ==
  UNION {Nearest(TopK[d], {u \in M : Near(d, t, u)}, t) : M \in Nearest(TopK[d] + 1, vectors, t)}

\* Handler h of thought t runs detector d up to its first await.
Searched(h, t, d) ==
  {[h EXCEPT !.at = d, !.todo = found, !.searched = @ \cup {d}, !.saw[d] = found] :
     found \in Candidates(d, t)}

Ended(h) == [h EXCEPT !.at = "over", !.todo = {}]

\* With no candidate to judge, a detector ends at once.
RunConflict(h, t) == {IF g.todo = {} THEN Ended(g) ELSE g : g \in Searched(h, t, "conflict")}
RunDuplicate(h, t) ==
  UNION {IF g.todo = {} THEN RunConflict(g, t) ELSE {g} : g \in Searched(h, t, "duplicate")}

\* Mutant: the engine gives up when a detector fails.
RunNextUnless(h, t) ==
  IF h.at = "duplicate" /\ h.todo = {} THEN RunConflict(h, t) ELSE {Ended(h)}

\* A detector has ended or failed: the engine runs the next one.
RunNext(h, t) == IF h.at = "duplicate" THEN RunConflict(h, t) ELSE {Ended(h)}

\* The embedding has come; the first detector runs.
Embedded(t) ==
  /\ sparring[t].at = "embedding"
  /\ \E h \in RunDuplicate(sparring[t], t) : sparring' = [sparring EXCEPT ![t] = h]
  /\ UNCHANGED <<thoughts, vectors, pending, calls, written, faults>>

\* The embedder fails a second time around; no detector runs.
EmbedFails(t) ==
  /\ sparring[t].at = "embedding"
  /\ sparring' = [sparring EXCEPT ![t].at = "over", ![t].lost = @ \cup {"embed"}]
  /\ UNCHANGED <<thoughts, vectors, pending, calls, written, faults>>

FirstParts(n) == {Parts[k] : k \in 1 .. n}

Writes(t, u, kinds) ==
  written' = [written EXCEPT ![t][u] = [k \in Kinds |-> @[k] + IF k \in kinds THEN 1 ELSE 0]]

\* The candidates are judged one after the other, the nearest first.
Judges(t, u) ==
  /\ sparring[t].at \in Detectors
  /\ u \in sparring[t].todo
  /\ \A v \in sparring[t].todo : Dist(t, u) <= Dist(t, v)

\* The handler goes on with the next candidate, if there is one.
GoesOn(t, u) ==
  LET h == [sparring[t] EXCEPT !.todo = @ \ {u}] IN
  \E g \in (IF h.todo = {} THEN RunNext(h, t) ELSE {h}) : sparring' = [sparring EXCEPT ![t] = g]

\* The model finds nothing, is not sure, or the call fails.
JudgeNegative(t, u) ==
  /\ Judges(t, u)
  /\ GoesOn(t, u)
  /\ UNCHANGED <<thoughts, vectors, pending, calls, written, faults>>

\* The model finds a duplicate, or a contradiction.
JudgePositive(t, u) ==
  /\ Judges(t, u)
  /\ Writes(t, u, IF sparring[t].at = "duplicate" THEN {"duplicate"} ELSE FirstParts(4))
  /\ GoesOn(t, u)
  /\ UNCHANGED <<thoughts, vectors, pending, calls, faults>>

\* It does, but the sidecar cannot be written: that is logged only.
SidecarFails(t, u) ==
  /\ Judges(t, u) /\ sparring[t].at = "conflict" /\ faults < MaxFaults
  /\ Writes(t, u, FirstParts(3))
  /\ GoesOn(t, u)
  /\ faults' = faults + 1
  /\ UNCHANGED <<thoughts, vectors, pending, calls>>

\* A write to the graph, after n others, raises out of the detector: what it had
\* left to judge is dropped.
DetectorFails(t, u, n) ==
  /\ Judges(t, u) /\ faults < MaxFaults
  /\ Writes(t, u, IF sparring[t].at = "duplicate" THEN {} ELSE FirstParts(n))
  /\ \E h \in RunNext(sparring[t], t) : sparring' = [sparring EXCEPT ![t] = h]
  /\ faults' = faults + 1
  /\ UNCHANGED <<thoughts, vectors, pending, calls>>

-------------------------------------------------------------------------------
\* The process ends, by a crash or a shutdown: all tasks are gone, what is stored
\* stays.  The next process does not look for what was left undone.  (An end between
\* two writes is an error of the second, and then the end.)
ProcessEnds ==
  /\ faults < MaxFaults
  /\ pending' = [i \in Items |-> 0]
  /\ sparring' = [t \in Ids |->
                    IF sparring[t].at \in {"none", "over"} THEN sparring[t]
                    ELSE [Ended(sparring[t]) EXCEPT !.lost = @ \cup {"crash"}]]
  /\ faults' = faults + 1
  /\ UNCHANGED <<thoughts, vectors, calls, written>>

Handle(t) ==
  \/ Embedded(t) \/ EmbedFails(t)
  \/ \E u \in Ids :
       \/ JudgeNegative(t, u) \/ JudgePositive(t, u) \/ SidecarFails(t, u)
       \/ \E n \in 0 .. 2 : DetectorFails(t, u, n)

Next ==
  \/ \E i \in Items :
       Known(i) \/ Unknown(i) \/ CaptureFails(i) \/ Store(i) \/ StoreFails(i)
  \/ \E t \in Ids : Handle(t)
  \/ ProcessEnds

\* The event loop runs a handler that can go on, and the embedder and the models
\* answer or fail in the end.
Spec == Init /\ [][Next]_vars /\ WF_vars(\E t \in Ids : Handle(t))

-------------------------------------------------------------------------------
(* Properties.                                                             *)

Handlers == [at : {"none", "embedding", "over"} \cup Detectors, todo : SUBSET Ids,
             searched : SUBSET Detectors, saw : [Detectors -> SUBSET Ids],
             lost : SUBSET {"upsert", "embed", "crash"}]

TypeOK ==
  /\ thoughts \in Seq(Items) /\ Len(thoughts) <= MaxCalls
  /\ vectors \subseteq DOMAIN thoughts
  /\ pending \in [Items -> Nat]
  /\ calls \in 0 .. MaxCalls
  /\ sparring \in [Ids -> Handlers]
  /\ written \in [Ids -> [Ids -> [Kinds -> Nat]]]
  /\ faults \in 0 .. MaxFaults

NearOnes(d, t) == {u \in vectors : Near(d, t, u)}

\* Two thoughts that are near each other never pass each other unseen, however
\* their captures, embeddings and searches interleave: once a detector has
\* searched for both, one of the two was a candidate of the other, as long as
\* neither has more near ones than the detector takes.
NearPairsMeet ==
  \A d \in Detectors : \A t, u \in vectors :
    /\ Near(d, t, u)
    /\ d \in sparring[t].searched /\ d \in sparring[u].searched
    /\ Cardinality(NearOnes(d, t)) <= TopK[d] /\ Cardinality(NearOnes(d, u)) <= TopK[d]
    => u \in sparring[t].saw[d] \/ t \in sparring[u].saw[d]

\* A detector writes at most one verdict on a thought against another, whatever is
\* captured again, fails or is cut short, never one against itself, and no part of
\* a conflict without the parts before it.
OneVerdict ==
  \A t, u \in Ids :
    LET w == written[t][u] IN
    /\ w["duplicate"] <= 1
    /\ w["sidecar"] <= w["led_to"] /\ w["led_to"] <= w["conflict"]
    /\ w["conflict"] <= w["contradicts"] /\ w["contradicts"] <= 1
    /\ t = u => w = Nothing

\* Every stored thought has been searched for by every detector in the end, even
\* when a detector before it fails, unless it was stored without its embedding, the
\* engine could not embed it, or the process ended.
StoredIsCompared ==
  []<>(\A t \in DOMAIN thoughts :
         sparring[t].searched = Detectors \/ sparring[t].lost # {})
===============================================================================
