------------------------------- MODULE LiveGraph -------------------------------
(***************************************************************************)
(* The graph as the browsers show it (backend/app: events/bus.py,          *)
(* api/stream.py, api/graph.py, gate; frontend/src: state, api, views).    *)
(*                                                                         *)
(* A page asks for the whole graph once and opens a stream of events.  The *)
(* server puts an event into the queue of every open stream when a node is *)
(* stored or a gate decided; the page answers an event by fetching that    *)
(* node, and adds or replaces it.  The snapshot, the stream and the        *)
(* fetches are requests of their own, which overtake each other; a stream  *)
(* that breaks is opened again by the browser, without a new snapshot.     *)
(* The handlers of the server and the callbacks of a page are each steps   *)
(* of one thread.                                                          *)
(***************************************************************************)
EXTENDS Integers, Sequences, SequencesExt

CONSTANTS Pages,
          Items,       \* nodes that come up: thoughts, conflicts, firings
          Gates,       \* the gate items
          MaxPosts, MaxFailures   \* bounds

Nodes == Items \cup Gates
Decisions == {"approved", "vetoed"}

\* A database holds finitely many nodes.
ASSUME LiveGraphAssumption ==
  /\ IsFiniteSet(Nodes) /\ Items \cap Gates = {}
  /\ MaxPosts \in Nat /\ MaxFailures \in Nat

VARIABLES
  node,      \* node[n]: the node in the database
  open,      \* the pages whose stream is open
  stream,    \* stream[p]: the events in its queue
  snapshot,  \* snapshot[p]: [at, of], the answer to the page's first request
  fetches,   \* fetches[p]: the fetches under way, [kind, id, got]
  shown,     \* shown[p]: the nodes of the page's state, [id, val], in order
  post,      \* post[p]: the decision the page has sent, [at, id, val]
  missed,    \* missed[p]: the page may be behind on a known way
  posts, failures

counts == <<posts, failures>>
graphVars == <<node, open, stream, snapshot, fetches, shown, post, missed, posts, failures>>

NoPost == [at |-> "none", id |-> "none", val |-> "none"]
Unread == "unread"
Asked == [at |-> "asked", of |-> [n \in Nodes |-> "absent"]]

GraphInit ==
  /\ node = [n \in Nodes |-> IF n \in Gates THEN "open" ELSE "absent"]
  /\ open = {}
  /\ stream = [p \in Pages |-> <<>>]
  /\ snapshot = [p \in Pages |-> Asked]
  /\ fetches = [p \in Pages |-> <<>>]
  /\ shown = [p \in Pages |-> <<>>]
  /\ post = [p \in Pages |-> NoPost]
  /\ missed = [p \in Pages |-> FALSE]
  /\ posts = 0 /\ failures = 0

Fetching(p, n) == \E i \in DOMAIN fetches[p] : fetches[p][i].id = n

\* An event about one of ns that is not sent or does not reach p is made good by a
\* snapshot that is still to be read, if no older value is on its way.
LossMatters(p, ns) ==
  \E n \in ns : snapshot[p].at # "asked" \/ Fetching(p, n)

-------------------------------------------------------------------------------
(* The server.                                                             *)

\* bus.publish, and the handler of every stream.
Publish(kind, n) ==
  /\ stream' = [p \in Pages |-> IF p \in open THEN Append(stream[p], [kind |-> kind, id |-> n])
                                ELSE <<>>]
  /\ missed' = [p \in Pages |-> missed[p] \/ (p \notin open /\ LossMatters(p, {n}))]

\* A capture, a detector or an agent's worker stores a node and then tells of it.
Create(n) ==
  /\ node[n] = "absent"
  /\ node' = [node EXCEPT ![n] = "stored"]
  /\ Publish("node_created", n)
  /\ UNCHANGED <<open, snapshot, fetches, shown, post, counts>>

\* Mutant: an item that was decided before is not announced again.
SettleOnce(g, d) ==
  /\ node' = [node EXCEPT ![g] = d]
  /\ IF node[g] = "open" THEN Publish("node_updated", g) ELSE UNCHANGED <<stream, missed>>

\* POST /gate/{id}/resolve: the decision is set, whatever it was before.
Settle(g, d) ==
  /\ node' = [node EXCEPT ![g] = d]
  /\ Publish("node_updated", g)

Resolve(p) ==
  /\ post[p].at = "sent"
  /\ Settle(post[p].id, post[p].val)
  /\ post' = [post EXCEPT ![p].at = "handled"]
  /\ UNCHANGED <<open, snapshot, fetches, shown, counts>>

\* The same request from elsewhere: another browser, whose page is not followed here.
ResolveElsewhere(g, d) ==
  /\ posts < MaxPosts
  /\ Settle(g, d)
  /\ posts' = posts + 1
  /\ UNCHANGED <<open, snapshot, fetches, shown, post, failures>>

\* GET /stream.
Connect(p) ==
  /\ p \notin open
  /\ open' = open \cup {p}
  /\ UNCHANGED <<node, stream, snapshot, fetches, shown, post, missed, counts>>

\* GET /graph/state.
ReadState(p) ==
  /\ snapshot[p].at = "asked"
  /\ snapshot' = [snapshot EXCEPT ![p] = [at |-> "read", of |-> node]]
  /\ UNCHANGED <<node, open, stream, fetches, shown, post, missed, counts>>

\* GET /graph/nodes/{id}.
ReadNode(p, i) ==
  /\ i \in DOMAIN fetches[p] /\ fetches[p][i].got = Unread
  /\ fetches' = [fetches EXCEPT ![p][i].got = node[fetches[p][i].id]]
  /\ UNCHANGED <<node, open, stream, snapshot, shown, post, missed, counts>>

-------------------------------------------------------------------------------
(* The page.                                                               *)

Known(p, n) == \E i \in DOMAIN shown[p] : shown[p][i].id = n

\* Mutant: a node that is known is added again.
LandAlways(p, f) ==
  IF f.kind = "node_created" THEN Append(shown[p], [id |-> f.id, val |-> f.got])
  ELSE [i \in DOMAIN shown[p] |->
          IF shown[p][i].id = f.id THEN [id |-> f.id, val |-> f.got] ELSE shown[p][i]]

\* graphReducer: ADD_NODE leaves a known node alone, UPDATE_NODE an unknown one.
Land(p, f) ==
  IF f.kind = "node_created"
  THEN IF Known(p, f.id) THEN shown[p] ELSE Append(shown[p], [id |-> f.id, val |-> f.got])
  ELSE [i \in DOMAIN shown[p] |->
          IF shown[p][i].id = f.id THEN [id |-> f.id, val |-> f.got] ELSE shown[p][i]]

\* onmessage: the node is fetched, while other fetches may be under way.
Deliver(p) ==
  /\ stream[p] # <<>>
  /\ LET e == Head(stream[p]) IN
       /\ fetches' = [fetches EXCEPT ![p] =
            Append(@, [kind |-> e.kind, id |-> e.id, got |-> Unread])]
       /\ missed' = [missed EXCEPT ![p] = @ \/ Fetching(p, e.id)]
  /\ stream' = [stream EXCEPT ![p] = Tail(@)]
  /\ UNCHANGED <<node, open, snapshot, shown, post, counts>>

\* A fetch is answered: what it changes is lost when an older snapshot comes after it.
FetchLands(p, i) ==
  /\ i \in DOMAIN fetches[p] /\ fetches[p][i].got # Unread
  /\ LET f == fetches[p][i] IN
       /\ shown' = [shown EXCEPT ![p] = Land(p, f)]
       /\ missed' = [missed EXCEPT ![p] =
            @ \/ (snapshot[p].at = "read" /\ snapshot[p].of[f.id] # f.got)]
  /\ fetches' = [fetches EXCEPT ![p] = RemoveAt(@, i)]
  /\ UNCHANGED <<node, open, stream, snapshot, post, counts>>

\* HYDRATE: the snapshot replaces what the page shows.
Hydrate(p) ==
  /\ snapshot[p].at = "read"
  /\ snapshot' = [snapshot EXCEPT ![p] = [Asked EXCEPT !.at = "landed"]]
  /\ LET s == SetToSeq({n \in Nodes : snapshot[p].of[n] # "absent"}) IN
       shown' = [shown EXCEPT ![p] = [i \in DOMAIN s |-> [id |-> s[i], val |-> snapshot[p].of[s[i]]]]]
  /\ UNCHANGED <<node, open, stream, fetches, post, missed, counts>>

\* Mutant: the page fetches the item at once, without waiting for the event.
DecideAndFetch(p, i, d) ==
  /\ post[p] = NoPost /\ posts < MaxPosts
  /\ i \in DOMAIN shown[p] /\ shown[p][i].id \in Gates
  /\ post' = [post EXCEPT ![p] = [at |-> "sent", id |-> shown[p][i].id, val |-> d]]
  /\ fetches' = [fetches EXCEPT ![p] =
       Append(@, [kind |-> "node_updated", id |-> shown[p][i].id, got |-> Unread])]
  /\ posts' = posts + 1
  /\ UNCHANGED <<node, open, stream, snapshot, shown, missed, failures>>

\* GateResolvePanel: any gate item the page shows, decided or not, one request at a time.
Decide(p, i, d) ==
  /\ post[p] = NoPost /\ posts < MaxPosts
  /\ i \in DOMAIN shown[p] /\ shown[p][i].id \in Gates
  /\ post' = [post EXCEPT ![p] = [at |-> "sent", id |-> shown[p][i].id, val |-> d]]
  /\ posts' = posts + 1
  /\ UNCHANGED <<node, open, stream, snapshot, fetches, shown, missed, failures>>

\* The request has ended, in an answer or an error.
Answered(p) ==
  /\ post[p].at = "handled"
  /\ post' = [post EXCEPT ![p] = NoPost]
  /\ UNCHANGED <<node, open, stream, snapshot, fetches, shown, missed, counts>>

-------------------------------------------------------------------------------
(* What fails between them.                                                *)

Fails == failures < MaxFailures /\ failures' = failures + 1

\* A capture whose vector or a detector whose edge cannot be written ends between the
\* store and the event; the same capture again finds the thought and tells nobody.
CreateUntold(n) ==
  /\ Fails /\ node[n] = "absent"
  /\ node' = [node EXCEPT ![n] = "stored"]
  /\ missed' = [p \in Pages |-> missed[p] \/ LossMatters(p, {n})]
  /\ UNCHANGED <<open, stream, snapshot, fetches, shown, post, posts>>

\* The stream breaks and its queue is lost; EventSource opens another.
Drop(p) ==
  /\ Fails /\ p \in open
  /\ open' = open \ {p}
  /\ stream' = [stream EXCEPT ![p] = <<>>]
  /\ missed' = [missed EXCEPT ![p] =
       @ \/ LossMatters(p, {stream[p][i].id : i \in DOMAIN stream[p]})]
  /\ UNCHANGED <<node, snapshot, fetches, shown, post, posts>>

FetchFails(p, i) ==
  /\ Fails /\ i \in DOMAIN fetches[p]
  /\ fetches' = [fetches EXCEPT ![p] = RemoveAt(@, i)]
  /\ missed' = [missed EXCEPT ![p] = TRUE]
  /\ UNCHANGED <<node, open, stream, snapshot, shown, post, posts>>

SnapshotFails(p) ==
  /\ Fails /\ snapshot[p].at \in {"asked", "read"}
  /\ snapshot' = [snapshot EXCEPT ![p] = [Asked EXCEPT !.at = "landed"]]
  /\ missed' = [missed EXCEPT ![p] = TRUE]
  /\ UNCHANGED <<node, open, stream, fetches, shown, post, posts>>

PostFails(p) ==
  /\ Fails /\ post[p].at = "sent"
  /\ post' = [post EXCEPT ![p] = NoPost]
  /\ UNCHANGED <<node, open, stream, snapshot, fetches, shown, missed, posts>>

\* The user loads the page again; a decision that was sent may still be handled.
Reload(p) ==
  /\ Fails /\ post[p] = NoPost
  /\ open' = open \ {p}
  /\ stream' = [stream EXCEPT ![p] = <<>>]
  /\ snapshot' = [snapshot EXCEPT ![p] = Asked]
  /\ fetches' = [fetches EXCEPT ![p] = <<>>]
  /\ shown' = [shown EXCEPT ![p] = <<>>]
  /\ missed' = [missed EXCEPT ![p] = FALSE]
  /\ UNCHANGED <<node, post, posts>>

-------------------------------------------------------------------------------
Indices(p) == DOMAIN fetches[p]

GraphNext ==
  \/ \E n \in Items : Create(n) \/ CreateUntold(n)
  \/ \E g \in Gates, d \in Decisions : ResolveElsewhere(g, d)
  \/ \E p \in Pages :
       \/ Resolve(p) \/ Connect(p) \/ ReadState(p) \/ Deliver(p) \/ Hydrate(p)
       \/ Answered(p) \/ Drop(p) \/ SnapshotFails(p) \/ PostFails(p) \/ Reload(p)
       \/ \E i \in Indices(p) : ReadNode(p, i) \/ FetchLands(p, i) \/ FetchFails(p, i)
       \/ \E i \in DOMAIN shown[p], d \in Decisions : Decide(p, i, d)

\* Requests are answered and events delivered; a page need not connect again.
GraphFairness ==
  \A p \in Pages :
    /\ WF_graphVars(ReadState(p)) /\ WF_graphVars(Hydrate(p)) /\ WF_graphVars(Deliver(p))
    /\ WF_graphVars(Resolve(p)) /\ WF_graphVars(Answered(p))
    /\ WF_graphVars(\E i \in Indices(p) : ReadNode(p, i) \/ FetchLands(p, i))

GraphSpec == GraphInit /\ [][GraphNext]_graphVars /\ GraphFairness

-------------------------------------------------------------------------------
(* Properties.                                                             *)

Values == {"absent", "stored", "open"} \cup Decisions
Events == [kind : {"node_created", "node_updated"}, id : Nodes]
Fetches == [kind : {"node_created", "node_updated"}, id : Nodes, got : Values \cup {Unread}]

GraphTypeOK ==
  /\ node \in [Nodes -> Values]
  /\ open \subseteq Pages
  /\ stream \in [Pages -> Seq(Events)]
  /\ snapshot \in [Pages -> [at : {"asked", "read", "landed"}, of : [Nodes -> Values]]]
  /\ fetches \in [Pages -> Seq(Fetches)]
  /\ shown \in [Pages -> Seq([id : Nodes, val : Values])]
  /\ post \in [Pages -> {NoPost} \cup [at : {"sent", "handled"}, id : Gates, val : Decisions]]
  /\ missed \in [Pages -> BOOLEAN]
  /\ posts \in Nat /\ failures \in Nat

\* A page shows no node twice, although the snapshot and an event may both bring it.
NoNodeTwice ==
  \A p \in Pages : \A i, j \in DOMAIN shown[p] : shown[p][i].id = shown[p][j].id => i = j

ShownAs(p, n, v) == \E i \in DOMAIN shown[p] : shown[p][i] = [id |-> n, val |-> v]

DecidedOn(p, g) == \E d \in Decisions : ShownAs(p, g, d)

\* A gate item that a page shows as decided goes back to the inbox only when the page is
\* loaded again: fetches that overtake each other, a snapshot that was read before the
\* decision, lost events and a second decision do not bring it back.
DecidedStaysDecided ==
  [][\A p \in Pages, g \in Gates :
       DecidedOn(p, g) => DecidedOn(p, g)' \/ snapshot'[p] = Asked]_graphVars

Current(p) == \A n \in Nodes : node[n] # "absent" => ShownAs(p, n, node[n])

\* When nothing more is stored or decided, every page comes to show every node, and
\* every gate item as it was decided last, whichever page decided it; unless an event
\* was lost with a stream or not sent after a failure behind the store, a fetch or the
\* snapshot failed, two fetches of one node were under way together, or the snapshot
\* came after an event it did not know of.
CurrentUnlessMissed == \A p \in Pages : <>[](missed[p] \/ Current(p))
===============================================================================
