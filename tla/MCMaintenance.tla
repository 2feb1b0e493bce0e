--------------------------- MODULE MCMaintenance ---------------------------
(***************************************************************************)
(* Small instances of Maintenance: a root r and a LazyRef z.               *)
(***************************************************************************)
EXTENDS Maintenance, TLC

CONSTANTS m1, m2, r, z

MCObjects == {r, z}
MCLazies == {z}

Opened(strategy, wal, snapshots) == [strategy |-> strategy, wal |-> wal, snapshots |-> snapshots]
AloneWithWal == Opened("startup", TRUE, FALSE)
AloneWithBoth == Opened("startup", TRUE, TRUE)
AloneWithSnapshots == Opened("startup", FALSE, TRUE)
Shared == Opened("pessimistic", TRUE, TRUE)
SharedWithWal == Opened("pessimistic", TRUE, FALSE)
MCOptions == {AloneWithWal, AloneWithBoth, AloneWithSnapshots, Shared}
MCShared == {SharedWithWal}

\* A manager that has the store for itself collects garbage; managers that share
\* it do not.  Without snapshots there is nothing to compact.
MCOps == AloneWithWal :> {"store", "lazy", "collect"}
      @@ AloneWithBoth :> {"store", "lazy", "backup"}
      @@ AloneWithSnapshots :> {"store", "collect", "compact", "backup"}
      @@ Shared :> {"store", "backup"}
MCCollect == SharedWithWal :> {"store", "collect"}
MCBackup == SharedWithWal :> {"store", "backup"}

\* Files change at these steps only.  Where a store is shared nobody dies between
\* the commit marker and the transaction record.
Anywhere == Writes \cup {"commitState", "payloads", "gcRemove", "gcRemoveLazy", "idle"}
MCCrashAt == [o \in MCOptions |-> IF o = Shared THEN Anywhere \ {"txn"} ELSE Anywhere]
MCNoCrash == [o \in MCShared |-> {}]
MCSharedCrash == [o \in MCShared |-> {"manifest"}]

Symmetry == Permutations(Managers)
=============================================================================
