-------------------------- MODULE GraphStoreSerial --------------------------
(***************************************************************************)
(* GraphStore implements SerialGraph as long as every commit writes the    *)
(* whole graph.                                                            *)
(***************************************************************************)
EXTENDS GraphStore

\* A manager has a copy from the moment it has loaded one.
Started(m) == pc[m] # "down" /\ job[m].kind \notin StartOps

FactoryGraph == Serialize(FactoryHeap)

Serial == INSTANCE SerialGraph WITH
    Graphs  <- Envelopes,
    commits <- [t \in 1..HistoryTop |-> history[t].graph],
    visible <- IF Recoverable = NoEnvelope THEN FactoryGraph ELSE Recoverable,
    base    <- [m \in Managers |-> IF Started(m) THEN tid[m] ELSE 0],
    copy    <- [m \in Managers |-> IF Started(m) THEN Serialize(heap[m]) ELSE FactoryGraph]

\* The store behaves like a sequence of graphs to which managers append copies of
\* the last one, through crashes, recoveries and interleaved publications: the
\* commit path of StorageCommitter with its recovery is one atomic Commit, at the
\* WAL commit marker, and what a start loads changes at that point only.
ImplementsSerialGraph == Serial!Spec
=============================================================================
