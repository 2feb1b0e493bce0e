--------------------------- MODULE MCManagerCalls ---------------------------
(***************************************************************************)
(* Small instances of ManagerCalls: two tasks of one process, each a       *)
(* sequence of calls it awaits, race each other at every offset.  One      *)
(* migrates up, mutates by GVQL, runs an optimistic transaction, migrates  *)
(* down and collects; the other puts, runs a transaction whose work calls  *)
(* update(), and updates.                                                  *)
(***************************************************************************)
EXTENDS ManagerCalls

CallKinds == [put |-> "put", upd |-> "update", txn |-> "pessimistic", inner |-> "update",
              opt |-> "optimistic", gvql |-> "gvql", up |-> "migrate", down |-> "migrate",
              gc |-> "collect"]
KindOf == [c \in Calls |-> CallKinds[c]]
ParentOf == [c \in Calls |-> IF c = "inner" THEN "txn" ELSE NoCall]
Awaited == [gvql |-> "up", opt |-> "gvql", down |-> "opt", gc |-> "down",
            txn |-> "put", upd |-> "txn"]
AfterOf == [c \in Calls |-> IF c \in DOMAIN Awaited /\ Awaited[c] \in Calls THEN Awaited[c] ELSE NoCall]
TargetOf == [c \in Calls |-> IF c = "up" THEN Cardinality(Migrations) ELSE 1]
=============================================================================
