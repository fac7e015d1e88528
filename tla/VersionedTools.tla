--------------------------- MODULE VersionedTools ---------------------------
(***************************************************************************)
(* What the registry of dynamic tools promises (the ToolRegistry interface *)
(* of internal/tool/registry.go): a store of named tools, each with an     *)
(* append-only history of versions, a current content taken from that      *)
(* history, and a flag that says whether it can be used.  There is no      *)
(* cache here, no lock and no crash: every operation is one step.          *)
(***************************************************************************)
EXTENDS Integers, Sequences

CONSTANTS
    Names, Contents,
    NotFound        \* the answer of a Get that finds no active tool

VARIABLES
    store,          \* store[n]: [history, current, active] for n registered
    answer          \* the last answer a Get gave

avars == <<store, answer>>

AInit == store = [n \in {} |-> <<>>] /\ answer = NotFound

ARegister(n, c) ==
    /\ n \notin DOMAIN store
    /\ store' = [m \in DOMAIN store \cup {n} |->
                   IF m = n THEN [history |-> <<c>>, current |-> c, active |-> TRUE]
                            ELSE store[m]]
    /\ UNCHANGED answer

AUpdate(n, c) ==
    /\ n \in DOMAIN store /\ store[n].active
    /\ store' = [store EXCEPT ![n] = [history |-> Append(store[n].history, c),
                                      current |-> c, active |-> TRUE]]
    /\ UNCHANGED answer

ADelete(n) ==
    /\ n \in DOMAIN store
    /\ store' = [store EXCEPT ![n] = [history |-> store[n].history,
                                      current |-> store[n].current, active |-> FALSE]]
    /\ UNCHANGED answer

ARollback(n, v) ==
    /\ n \in DOMAIN store /\ v \in DOMAIN store[n].history
    /\ store' = [store EXCEPT ![n] = [history |-> store[n].history,
                                      current |-> store[n].history[v],
                                      active  |-> store[n].active]]
    /\ UNCHANGED answer

\* A Get answers with the current content and the number of the latest version.
Found(n) == [content |-> store[n].current, version |-> Len(store[n].history)]

AGet(n) ==
    /\ answer' = IF n \in DOMAIN store /\ store[n].active THEN Found(n) ELSE NotFound
    /\ UNCHANGED store

ANext ==
    \/ \E n \in Names, c \in Contents : ARegister(n, c) \/ AUpdate(n, c)
    \/ \E n \in DOMAIN store : \/ ADelete(n)
                               \/ \E v \in DOMAIN store[n].history : ARollback(n, v)
    \/ \E n \in Names : AGet(n)

ASpec == AInit /\ [][ANext]_avars
=============================================================================
