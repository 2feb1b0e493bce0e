---------------------------- MODULE MCGraphStore ----------------------------
(***************************************************************************)
(* Small instances of GraphStore.  The graph is a root r and its children. *)
(***************************************************************************)
EXTENDS GraphStoreSerial, TLC

CONSTANTS m1, m2, r, k, k2

Node(v, refs) == [val |-> v, refs |-> refs]

\* A root and one child, which the application changes once, drops and takes back.
MCObjects == {r, k}
MCContents == {Node(0, {}), Node(1, {}), Node(0, {k})}
MCRefs == [c \in MCContents |-> c.refs]
MCFactory == (r :> Node(0, {k}) @@ k :> Node(0, {}))
MCEditable == (r :> {Node(0, {}), Node(0, {k})} @@ k :> {Node(1, {})})

\* The same with two graphs only: with the child and without it.
MCContents2 == {Node(0, {}), Node(0, {k})}
MCRefs2 == [c \in MCContents2 |-> c.refs]
MCEditable2 == (r :> MCContents2 @@ k :> {})

\* A root and two children that may share: the first child may refer to the second.
MCObjects3 == {r, k, k2}
MCContents3 == {Node(0, S) : S \in {{}, {k}, {k2}, {k, k2}}}
MCRefs3 == [c \in MCContents3 |-> c.refs]
MCFactory3 == (r :> Node(0, {k, k2}) @@ k :> Node(0, {k2}) @@ k2 :> Node(0, {}))
MCEditable3 == (r :> {Node(0, {k})} @@ k :> {Node(0, {}), Node(0, {k2})} @@ k2 :> {})

WalOnly == [wal |-> TRUE, snapshots |-> FALSE]
WalAndSnapshots == [wal |-> TRUE, snapshots |-> TRUE]
SnapshotsOnly == [wal |-> FALSE, snapshots |-> TRUE]
MCEither == {WalOnly, SnapshotsOnly}
MCBoth == {WalAndSnapshots}
MCWalOnly == {WalOnly}

\* Files change at the writes only: a process that dies elsewhere leaves what it
\* would leave at its next write, or at the end of its operation.
Anywhere == Writes \cup {"commitState", "idle"}
\* The commit marker is written, the transaction record is not.
Window == {"fencePublish", "record"}

\* Arguments of storeAll in which no target is met on the way from an earlier one.
MCTargets == {<<k>>, <<r>>, <<k, r>>}
MCNestedTargets == {<<r, k>>}
MCOneTarget == {<<k>>}

Symmetry == Permutations(Managers)
=============================================================================
