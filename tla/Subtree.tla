------------------------------ MODULE Subtree ------------------------------
(***************************************************************************)
(* Reading part of a graph: the bounded breadth-first load of a subtree,   *)
(* and the part of an envelope its root reaches, which is what the         *)
(* serializer writes for the root that the envelope is deserialised to.    *)
(***************************************************************************)
EXTENDS GvqlValues

(* The queue of enqueueReferences: [id, depth]; an id is queued once. *)
Enqueued(queue, id) == \E i \in DOMAIN queue : queue[i].id = id
EnqueueAll(queue, references, depth) ==
    LET fresh == {i \in DOMAIN references : /\ ~Enqueued(queue, references[i].to)
                                            /\ \A j \in 1..(i - 1) : references[j].to # references[i].to}
        added == Select(references, fresh)
    IN  queue \o [i \in DOMAIN added |-> [id |-> added[i].to, depth |-> depth]]

(* One object of the queue: its references within the depth are queued, the others noted. *)
VisitNext(nodes, maxDepth, v, i) ==
    LET references == References(v.queue[i].id, nodes[v.queue[i].id])
        known == Select(references, {j \in DOMAIN references : references[j].to \in DOMAIN nodes})
    IN  IF v.queue[i].depth < maxDepth
        THEN [queue |-> EnqueueAll(v.queue, known, v.queue[i].depth + 1),
              candidates |-> v.candidates \cup (ToSet(references) \ ToSet(known))]
        ELSE [queue |-> v.queue, candidates |-> v.candidates \cup ToSet(references)]

(* The loop over the queue, which holds each object once. *)
Visit(nodes, root, maxDepth) ==
    LET visited[k \in 0..Cardinality(DOMAIN nodes)] ==
            IF k = 0 THEN [queue |-> <<[id |-> root, depth |-> 0]>>, candidates |-> {}]
            ELSE LET v == visited[k - 1]
                 IN  IF k > Len(v.queue) THEN v ELSE VisitNext(nodes, maxDepth, v, k)
    IN  visited[Cardinality(DOMAIN nodes)]

QueuedIds(queue) == {queue[i].id : i \in DOMAIN queue}

(* Mutant: a reference that was beyond the depth when it was met is reported although a shorter
   path has loaded its object. *)
ReportsEveryCandidate(nodes, root, maxDepth) ==
    LET visited == Visit(nodes, root, maxDepth)
    IN  [objectIds |-> QueuedIds(visited.queue), truncated |-> visited.candidates,
         complete |-> visited.candidates = {}]

LoadSubtree(nodes, root, maxDepth) ==
    LET visited == Visit(nodes, root, maxDepth)
        loaded == QueuedIds(visited.queue)
        truncated == {e \in visited.candidates : e.to \notin loaded}
    IN  [objectIds |-> loaded, truncated |-> truncated, complete |-> truncated = {}]

(* The objects at most n references away from root. *)
Widen(edges, near) == UNION {{id} \cup {e.to : e \in {f \in edges : f.from = id}} : id \in near}
Within(nodes, root, n) ==
    LET edges == Edges(nodes)
        near[k \in 0..n] == IF k = 0 THEN {root} ELSE Widen(edges, near[k - 1])
    IN  near[n]

Reachable(envelope) == Within(envelope.nodes, envelope.root, Cardinality(DOMAIN envelope.nodes))
Rehydrated(envelope) == [envelope EXCEPT !.nodes = Restrict(@, Reachable(envelope) \cap DOMAIN @)]
=============================================================================
