--------------------------- MODULE DockerRuntimes ---------------------------
(***************************************************************************)
(* The manager of the containers that run code in languages without a      *)
(* native runtime (internal/executor/docker) and the tools above it,       *)
(* start_runtime and execute_code.                                         *)
(*                                                                         *)
(* Manager.Start leaves the Docker calls to a goroutine, waits two seconds *)
(* for it under the write lock, and returns without stopping it.  What a   *)
(* step does under the lock is one action up to the next point where that  *)
(* goroutine, the code in a container or a context can make a difference.  *)
(* A lifecycle creates at most one container, so its number is the         *)
(* container's ID too; its containerID is set exactly as long as Docker    *)
(* has the container, once ContainerCreate has returned.                   *)
(*                                                                         *)
(* Docker is the environment: each call may fail, a container may exit.    *)
(* The write lock is granted to whoever finds it free: an RWMutex makes    *)
(* later readers wait for a waiting writer, which here they need not.      *)
(***************************************************************************)
EXTENDS Integers

CONSTANTS
    Languages,      \* the languages that need a container
    Callers,        \* goroutines that use the manager
    MaxLives        \* bound on the lifecycles that are ever made

ASSUME DockerAssumption == MaxLives \in Nat

VARIABLES
    containers,     \* Manager.containers: the lifecycle of each language, 0 if none
    lives,          \* the lifecycles: language, progress of Start, whether its context has
                    \* ended, whether its caller ends that context when it returns
    docker,         \* the state of each lifecycle's container
    op,             \* what each caller is doing
    closed,         \* Manager.Close has returned nil
    trouble         \* history: a call failed, a context ended or a start took two seconds

vars == <<containers, lives, docker, op, closed, trouble>>

Lives  == 1..MaxLives
Life   == [lang : Languages, at : {"create", "start", "started", "failed"},
           ended : BOOLEAN, cancels : BOOLEAN]
NoLife == [at |-> "unused"]
Idle   == [at |-> "idle"]

Used    == {i \in Lives : lives[i] # NoLife}
Exists  == {i \in Lives : docker[i] \in {"created", "running", "exited"}}
Managed == {containers[l] : l \in Languages} \ {0}
Waiting == {c \in Callers : op[c].at = "wait"}      \* hold the write lock
Running == {c \in Callers : op[c].at = "running"}   \* hold the read lock

Init ==
    /\ containers = [l \in Languages |-> 0]
    /\ lives = [i \in Lives |-> NoLife] /\ docker = [i \in Lives |-> "none"]
    /\ op = [c \in Callers |-> Idle] /\ closed = FALSE /\ trouble = FALSE

Trouble == trouble' = TRUE

-----------------------------------------------------------------------------
(* ContainerLifecycle                                                      *)

\* What Stop may leave of a container: nothing, the container stopped but not
\* removed, or all of it.  Without a container ID nothing is tried.
StopOutcomes(i) ==
    IF i \in Exists THEN {"removed", docker[i], IF docker[i] = "running" THEN "exited" ELSE docker[i]}
                    ELSE {docker[i]}

Gone(state) == state \in {"none", "removed"}

\* The image is there or is pulled and ContainerCreate succeeds, or one of them fails.
Create(i) ==
    /\ lives[i].at = "create"
    /\ \/ /\ ~lives[i].ended
          /\ docker' = [docker EXCEPT ![i] = "created"]
          /\ lives' = [lives EXCEPT ![i].at = "start"]
          /\ UNCHANGED trouble
       \/ /\ lives' = [lives EXCEPT ![i].at = "failed"]
          /\ Trouble /\ UNCHANGED docker
    /\ UNCHANGED <<containers, op, closed>>

\* ContainerStart, which fails when the container has been removed meanwhile.  After
\* a failure the container stays created.
StartContainer(i) ==
    /\ lives[i].at = "start"
    /\ \/ /\ ~lives[i].ended /\ i \in Exists
          /\ docker' = [docker EXCEPT ![i] = "running"]
          /\ lives' = [lives EXCEPT ![i].at = "started"]
          /\ UNCHANGED trouble
       \/ /\ lives' = [lives EXCEPT ![i].at = "failed"]
          /\ Trouble /\ UNCHANGED docker
    /\ UNCHANGED <<containers, op, closed>>

\* The container's process ends: killed, out of memory, stopped from outside.
Exit(i) ==
    /\ docker[i] = "running"
    /\ docker' = [docker EXCEPT ![i] = "exited"]
    /\ UNCHANGED <<containers, lives, op, closed, trouble>>

-----------------------------------------------------------------------------
(* Manager                                                                 *)

\* Mutant of MayLock: the code that runs is not waited for.
MayLockReaders == Waiting = {}

\* Mutant of MayLock: a Start that waits for Docker is not waited for.
MayLockStarts == Running = {}

MayLock  == Waiting = {} /\ Running = {}
MayRLock == Waiting = {}

Ready(l) == containers[l] # 0 /\ docker[containers[l]] = "running"

\* Mutant of Replaced: the stale container is forgotten and not stopped.
ReplacedOnly(l) == {[docker |-> docker, failed |-> FALSE]}

\* Docker after the stale container of a language has been stopped, and whether a call failed.
Replaced(l) ==
    LET i == containers[l] IN
    IF i = 0 THEN {[docker |-> docker, failed |-> FALSE]}
             ELSE {[docker |-> [docker EXCEPT ![i] = s], failed |-> ~Gone(s)] : s \in StopOutcomes(i)}

\* Start: a running container is the answer.
StartReady(c, l) ==
    /\ op[c] = Idle /\ MayLock /\ ~closed
    /\ Ready(l)
    /\ UNCHANGED vars

\* Start: else what is there is stopped, whatever becomes of it, and a new lifecycle is
\* started in the background.  Inspecting a running container may fail.  The goroutines of
\* the warm pool cancel their context when Start returns; start_runtime's is the server's.
Start(c, l) ==
    /\ op[c] = Idle /\ MayLock /\ ~closed
    /\ \E i \in Lives \ Used :
       /\ 1..(i - 1) \subseteq Used
       /\ \E after \in Replaced(l) :
             /\ docker' = after.docker
             /\ trouble' = (trouble \/ Ready(l) \/ after.failed)
       /\ containers' = [containers EXCEPT ![l] = 0]
       /\ \E cancels \in BOOLEAN :
             lives' = [lives EXCEPT ![i] =
                          [lang |-> l, at |-> "create", ended |-> FALSE, cancels |-> cancels]]
       /\ op' = [op EXCEPT ![c] = [at |-> "wait", life |-> i]]
    /\ UNCHANGED closed

\* The lifecycle becomes that of its language.
Recorded(i) == [containers EXCEPT ![lives[i].lang] = i]

Return(c) == op' = [op EXCEPT ![c] = Idle]

\* The goroutine is done: with success the lifecycle is recorded, else dropped.
StartEnds(c) ==
    /\ op[c].at = "wait"
    /\ LET i == op[c].life IN
       /\ lives[i].at \in {"started", "failed"}
       /\ containers' = IF lives[i].at = "started" THEN Recorded(i) ELSE containers
    /\ Return(c)
    /\ UNCHANGED <<lives, docker, closed, trouble>>

\* Two seconds have passed: the lifecycle is recorded and Start returns "starting".
StartTimesOut(c) ==
    /\ op[c].at = "wait"
    /\ LET i == op[c].life IN
       /\ containers' = Recorded(i)
       /\ lives' = [lives EXCEPT ![i].ended = @ \/ lives[i].cancels]
    /\ Return(c) /\ Trouble
    /\ UNCHANGED <<docker, closed>>

\* The context ends: Start returns and records nothing.
StartCancelled(c) ==
    /\ op[c].at = "wait"
    /\ lives' = [lives EXCEPT ![op[c].life].ended = TRUE]
    /\ Return(c) /\ Trouble
    /\ UNCHANGED <<containers, docker, closed>>

\* executeDocker: Status has the runtime ready, or there is nothing to do: Status
\* never returns the error on which the tool would start it.
Status(c, l) ==
    /\ op[c] = Idle /\ MayRLock
    /\ op' = [op EXCEPT ![c] = IF Ready(l) THEN [at |-> "run", lang |-> l, id |-> containers[l]]
                                           ELSE Idle]
    /\ UNCHANGED <<containers, lives, docker, closed, trouble>>

\* Mutant of Found: the container that Status saw is taken to be there still.
FoundBefore(id) == TRUE

\* The lifecycle of a container ID.
Found(id) == \E l \in Languages : containers[l] = id /\ id \in Exists

\* Execute: the container is looked up again and inspected, then the code runs in it
\* under the read lock.
Execute(c) ==
    /\ op[c].at = "run" /\ MayRLock
    /\ \/ /\ Found(op[c].id) /\ docker[op[c].id] = "running"
          /\ op' = [op EXCEPT ![c].at = "running"]
       \/ Return(c)
    /\ UNCHANGED <<containers, lives, docker, closed, trouble>>

\* The code ends, by itself or with its container.
CodeEnds(c) ==
    /\ op[c].at = "running"
    /\ Return(c)
    /\ UNCHANGED <<containers, lives, docker, closed, trouble>>

\* Stop: a container that could not be removed stays managed.  The ID that Start gives
\* with "starting" may be empty: it is that of any lifecycle whose container is not made yet.
Stop(c, l) ==
    /\ op[c] = Idle /\ MayLock
    /\ containers[l] # 0
    /\ \E s \in StopOutcomes(containers[l]) :
          /\ docker' = [docker EXCEPT ![containers[l]] = s]
          /\ containers' = IF Gone(s) THEN [containers EXCEPT ![l] = 0] ELSE containers
          /\ trouble' = (trouble \/ ~Gone(s))
    /\ UNCHANGED <<lives, op, closed>>

\* Cleanup: every lifecycle is stopped and deleted, also the one that could not be.
\* Close is Cleanup when that returns no error.
Cleanup(c, close) ==
    /\ op[c] = Idle /\ MayLock
    /\ \E after \in [Managed -> {"none", "created", "running", "exited", "removed"}] :
          /\ \A i \in Managed : after[i] \in StopOutcomes(i)
          /\ docker' = [i \in Lives |-> IF i \in Managed THEN after[i] ELSE docker[i]]
          /\ trouble' = (trouble \/ \E i \in Managed : ~Gone(after[i]))
          /\ closed' = (closed \/ (close /\ \A i \in Managed : Gone(after[i])))
    /\ containers' = [l \in Languages |-> 0]
    /\ UNCHANGED <<lives, op>>

Next ==
    \/ \E c \in Callers :
          \/ \E l \in Languages : StartReady(c, l) \/ Start(c, l) \/ Status(c, l) \/ Stop(c, l)
          \/ StartEnds(c) \/ StartTimesOut(c) \/ StartCancelled(c)
          \/ Execute(c) \/ CodeEnds(c)
          \/ \E close \in BOOLEAN : Cleanup(c, close)
    \/ \E i \in Lives : Create(i) \/ StartContainer(i) \/ Exit(i)

Spec == Init /\ [][Next]_vars

-----------------------------------------------------------------------------
(* Properties                                                              *)

\* The type invariant.  Only one Start waits, and while it does no code runs.
TypeOK ==
    /\ containers \in [Languages -> 0..MaxLives]
    /\ lives \in [Lives -> Life \cup {NoLife}]
    /\ docker \in [Lives -> {"none", "created", "running", "exited", "removed"}]
    /\ op \in [Callers -> {Idle} \cup [at : {"wait"}, life : Lives]
                            \cup [at : {"run", "running"}, lang : Languages, id : Lives]]
    /\ (\A c, d \in Waiting : c = d) /\ (Waiting # {} => Running = {})
    /\ closed \in BOOLEAN /\ trouble \in BOOLEAN

\* Code runs in the container that the manager keeps for its language, and nobody stops,
\* removes or replaces that container before the code has ended.
CodeKeepsItsContainer ==
    \A c \in Running : containers[op[c].lang] = op[c].id /\ op[c].id \in Exists

\* As long as no call to Docker fails, no context ends and no start takes two seconds,
\* every container that exists is managed, or the Start that makes it is still waiting:
\* starts, replacements of exited containers, stops and cleanups lose none.
NothingLost == ~trouble => Exists \subseteq Managed \cup {op[c].life : c \in Waiting}

\* A lifecycle that Start may still record is not spent; code runs where Execute found it.
spentBar == Used \ {op[c].life : c \in Waiting}
busyBar  == [c \in Callers |-> IF c \in Running THEN op[c].id ELSE 0]

Table == INSTANCE RuntimeTable
             WITH table <- containers, spent <- spentBar, busy <- busyBar, Ids <- Lives, None <- 0

\* The manager, with its lock, its goroutines and whatever Docker does, implements a table
\* of containers: no Start records over another's container, no container comes back once
\* it has left the table, and none leaves it while code runs in it.
ImplementsTable == Table!RSpec

\* What manager.go says of Close: it "cleans up all containers".  Once it has returned nil
\* there is none.
ClosedMeansClean == closed => Exists = {}
=============================================================================
