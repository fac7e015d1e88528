---------------------------- MODULE RuntimeTable ----------------------------
(***************************************************************************)
(* What the manager of the code containers keeps for its callers           *)
(* (RuntimeManager, internal/executor/docker): a table with at most one    *)
(* container for each language.  A container enters the table once at      *)
(* most, and only where there is none; code runs in a container of the     *)
(* table, which stays there until the code has ended.  There is no Docker  *)
(* here, no lock, no goroutine and no time: every operation is one step.   *)
(***************************************************************************)
CONSTANTS
    Languages, Callers,
    Ids,            \* the containers that may ever be made
    None            \* no container

VARIABLES
    table,          \* the container of each language
    spent,          \* the containers that have been in the table or never will be
    busy            \* the container each caller's code runs in

rvars == <<table, spent, busy>>

RInit == /\ table = [l \in Languages |-> None]
         /\ spent = {}
         /\ busy = [c \in Callers |-> None]

\* A start that is not given up records its container.
Record(l, i) ==
    /\ table[l] = None /\ i \notin spent
    /\ table' = [table EXCEPT ![l] = i] /\ spent' = spent \cup {i}
    /\ UNCHANGED busy

\* A start that failed or was cancelled records none.
Abandon(i) ==
    /\ i \notin spent
    /\ spent' = spent \cup {i}
    /\ UNCHANGED <<table, busy>>

\* Containers are stopped, or replaced: no code runs in them.
Drop(ls) ==
    /\ \A l \in ls : table[l] # None => \A c \in Callers : busy[c] # table[l]
    /\ table' = [l \in Languages |-> IF l \in ls THEN None ELSE table[l]]
    /\ UNCHANGED <<spent, busy>>

Enter(c, l) ==
    /\ busy[c] = None /\ table[l] # None
    /\ busy' = [busy EXCEPT ![c] = table[l]]
    /\ UNCHANGED <<table, spent>>

Leave(c) ==
    /\ busy[c] # None
    /\ busy' = [busy EXCEPT ![c] = None]
    /\ UNCHANGED <<table, spent>>

RNext ==
    \/ \E i \in Ids : Abandon(i) \/ \E l \in Languages : Record(l, i)
    \/ \E ls \in SUBSET Languages : Drop(ls)
    \/ \E c \in Callers : Leave(c) \/ \E l \in Languages : Enter(c, l)

RSpec == RInit /\ [][RNext]_rvars
=============================================================================
