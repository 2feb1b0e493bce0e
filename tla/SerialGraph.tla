---------------------------- MODULE SerialGraph -----------------------------
(***************************************************************************)
(* What a GraphVault store promises its managers when every commit is a    *)
(* whole graph: the store is a sequence of committed graphs, a manager     *)
(* works on a private copy of one of them, and its copy becomes the next   *)
(* commit only if it was taken from the last one.  A start finds the last  *)
(* commit.  Files, locks, the WAL and crashes do not appear.               *)
(***************************************************************************)
EXTENDS Naturals, Sequences

CONSTANTS Managers, Graphs, FactoryGraph

VARIABLES
    commits,    \* the graphs committed so far
    visible,    \* the graph that a start loads
    base,       \* base[m]: the number of commits m's copy was taken from
    copy        \* copy[m]: m's private graph

vars == <<commits, visible, base, copy>>

Committed(v) == IF v = 0 THEN FactoryGraph ELSE commits[v]

Init ==
    /\ commits = <<>>
    /\ visible = FactoryGraph
    /\ base = [m \in Managers |-> 0]
    /\ copy = [m \in Managers |-> FactoryGraph]

\* A start or a reload takes a committed graph, not always the last one.
Take(m) ==
    /\ \E v \in 0..Len(commits) :
          /\ base' = [base EXCEPT ![m] = v]
          /\ copy' = [copy EXCEPT ![m] = Committed(v)]
    /\ UNCHANGED <<commits, visible>>

\* The application changes its copy, or an operation that fails puts it back.
Change(m) ==
    /\ \E g \in Graphs : copy' = [copy EXCEPT ![m] = g]
    /\ UNCHANGED <<commits, visible, base>>

Commit(m) ==
    /\ base[m] = Len(commits)
    /\ commits' = Append(commits, copy[m])
    /\ visible' = copy[m]
    /\ UNCHANGED <<base, copy>>

Next == \E m \in Managers : Take(m) \/ Change(m) \/ Commit(m)

Spec == Init /\ [][Next]_vars
=============================================================================
