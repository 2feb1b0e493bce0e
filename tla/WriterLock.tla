----------------------------- MODULE WriterLock -----------------------------
(***************************************************************************)
(* What StorageTargetLock promises: one writer at a time holds the lock,   *)
(* with a fencing token above every token granted before, and a lock whose *)
(* holder died may be removed.  GraphStore builds on this lock.             *)
(***************************************************************************)
EXTENDS Integers

CONSTANTS Writers, NoOwner, Tokens

VARIABLES
    owner,      \* the writer the lock file names, or NoOwner
    last,       \* the last token granted
    handle      \* handle[p]: the token of the handle p keeps, or 0

vars == <<owner, last, handle>>

Init ==
    /\ owner = NoOwner
    /\ last = 0
    /\ handle = [p \in Writers |-> 0]

Acquire(p) ==
    /\ handle[p] = 0
    /\ owner = NoOwner
    /\ \E t \in Tokens :
         /\ t > last
         /\ last' = t
         /\ handle' = [handle EXCEPT ![p] = t]
    /\ owner' = p

Release(p) ==
    /\ owner = p /\ handle[p] = last
    /\ owner' = NoOwner
    /\ handle' = [handle EXCEPT ![p] = 0]
    /\ UNCHANGED last

\* The writer dies, or cannot release: the lock stays.
Abandon(p) ==
    /\ handle' = [handle EXCEPT ![p] = 0]
    /\ UNCHANGED <<owner, last>>

\* The lock of a writer that has no handle any more is removed.
Break ==
    /\ owner # NoOwner
    /\ handle[owner] = 0
    /\ owner' = NoOwner
    /\ UNCHANGED <<last, handle>>

Next == \E p \in Writers : Acquire(p) \/ Release(p) \/ Abandon(p) \/ Break

Spec == Init /\ [][Next]_vars
=============================================================================
