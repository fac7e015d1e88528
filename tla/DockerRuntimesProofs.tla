------------------------ MODULE DockerRuntimesProofs ------------------------
(***************************************************************************)
(* Proofs about DockerRuntimes, for any languages and callers and any      *)
(* number of lifecycles: types and locking, that code keeps the container  *)
(* it runs in, that without trouble no container is lost, and that the     *)
(* manager implements RuntimeTable.                                        *)
(***************************************************************************)
EXTENDS DockerRuntimes, TLAPS

\* What the map of containers and the callers say of a lifecycle agrees with its language;
\* while a Start waits, its language has no other container.
Agreement ==
    /\ \A l \in Languages : containers[l] # 0 => /\ lives[containers[l]] \in Life
                                                 /\ lives[containers[l]].lang = l
    /\ \A c \in Callers : op[c].at \in {"run", "running"} => /\ lives[op[c].id] \in Life
                                                             /\ lives[op[c].id].lang = op[c].lang
    /\ \A c \in Waiting : /\ lives[op[c].life] \in Life
                          /\ containers[lives[op[c].life].lang] = 0

IInv == TypeOK /\ Agreement /\ CodeKeepsItsContainer

Awaited == {op[c].life : c \in Waiting}

\* Without trouble no start has failed, and those under way are waited for.
NoneLost == ~trouble => /\ Exists \subseteq Managed \cup Awaited
                        /\ \A i \in Lives : /\ lives[i].at # "failed"
                                            /\ lives[i].at \in {"create", "start"} => i \in Awaited

States == {"none", "created", "running", "exited", "removed"}

\* A stop leaves a container in one of Docker's states.
LEMMA StopStates ==
    ASSUME TypeOK, NEW i \in Lives
    PROVE  StopOutcomes(i) \subseteq States
BY DEF TypeOK, StopOutcomes, States, Exists

-----------------------------------------------------------------------------
LEMMA InitIInv == Init => IInv
<1> SUFFICES ASSUME Init PROVE IInv
  OBVIOUS
<1>1. \A c \in Callers : op[c] = Idle /\ op[c].at = "idle"
  BY DEF Init, Idle
<1>2. Waiting = {} /\ Running = {}
  BY <1>1 DEF Waiting, Running
<1>3. 0 \in 0..MaxLives
  BY DockerAssumption
<1>4. TypeOK
  BY <1>1, <1>2, <1>3 DEF Init, TypeOK
<1> QED BY <1>1, <1>2, <1>4 DEF Init, IInv, Agreement, CodeKeepsItsContainer

\* The steps of lifecycles and of Docker keep the invariant.
LEMMA LifeKeepsIInv ==
    ASSUME IInv, NEW i \in Lives, Create(i) \/ StartContainer(i) \/ Exit(i)
    PROVE  IInv'
<1> USE DEF IInv
<1>1. /\ containers' = containers /\ op' = op /\ closed' = closed
      /\ trouble' \in BOOLEAN
  BY DEF Create, StartContainer, Exit, TypeOK, Trouble
<1>2. docker' \in [Lives -> States] /\ Exists \subseteq Exists'
  BY DEF Create, StartContainer, Exit, TypeOK, States, Exists
<1>3. /\ lives' \in [Lives -> Life \cup {NoLife}]
      /\ \A j \in Lives : lives[j] \in Life => lives'[j] \in Life /\ lives'[j].lang = lives[j].lang
  BY DEF Create, StartContainer, Exit, TypeOK, Life, NoLife
<1>4. TypeOK'
  BY <1>1, <1>2, <1>3 DEF TypeOK, States, Waiting, Running
<1>5. Agreement'
  BY <1>1, <1>3 DEF Agreement, TypeOK, Waiting, Lives, Idle
<1>6. CodeKeepsItsContainer'
  BY <1>1, <1>2 DEF CodeKeepsItsContainer, Running
<1> QED BY <1>4, <1>5, <1>6

\* A Start that begins locks; the container it replaces is no longer its language's.
LEMMA StartKeepsIInv ==
    ASSUME IInv, NEW c \in Callers, NEW l \in Languages, Start(c, l)
    PROVE  IInv'
<1> USE DEF IInv
<1>1. PICK i \in Lives \ Used :
         /\ \E after \in Replaced(l) : /\ docker' = after.docker
                                       /\ trouble' = (trouble \/ Ready(l) \/ after.failed)
         /\ containers' = [containers EXCEPT ![l] = 0]
         /\ \E cancels \in BOOLEAN :
               lives' = [lives EXCEPT ![i] =
                            [lang |-> l, at |-> "create", ended |-> FALSE, cancels |-> cancels]]
         /\ op' = [op EXCEPT ![c] = [at |-> "wait", life |-> i]]
  BY DEF Start
<1>2. Waiting = {} /\ Running = {} /\ closed' = closed
  BY DEF Start, MayLock
<1>3. docker' \in [Lives -> States] /\ trouble' \in BOOLEAN
  <2>1. containers[l] \in Lives \cup {0}
    BY DockerAssumption DEF TypeOK, Lives
  <2>2. CASE containers[l] = 0
    BY <1>1, <2>2 DEF Replaced, TypeOK, States, Ready
  <2>3. CASE containers[l] \in Lives
    <3>1. containers[l] # 0
      BY <2>3, DockerAssumption DEF Lives
    <3>2. PICK s \in StopOutcomes(containers[l]) :
             /\ docker' = [docker EXCEPT ![containers[l]] = s]
             /\ trouble' = (trouble \/ Ready(l) \/ ~Gone(s))
      <4>1. PICK after \in Replaced(l) : /\ docker' = after.docker
                                         /\ trouble' = (trouble \/ Ready(l) \/ after.failed)
        BY <1>1
      <4>2. PICK s \in StopOutcomes(containers[l]) :
               after = [docker |-> [docker EXCEPT ![containers[l]] = s], failed |-> ~Gone(s)]
        BY <4>1, <3>1 DEF Replaced
      <4>3. after.docker = [docker EXCEPT ![containers[l]] = s] /\ after.failed = ~Gone(s)
        BY <4>2
      <4> QED BY <4>1, <4>3
    <3> QED BY <3>2, <2>3, StopStates DEF TypeOK, States
  <2> QED BY <2>1, <2>2, <2>3
<1>4. /\ lives' \in [Lives -> Life \cup {NoLife}]
      /\ lives'[i] \in Life /\ lives'[i].lang = l
      /\ \A j \in Lives \ {i} : lives'[j] = lives[j]
  BY <1>1 DEF TypeOK, Life
<1>5. \A j \in Lives : lives[j] \in Life => j # i
  BY <1>1 DEF Used, Life, NoLife
<1>6. Waiting' = {c} /\ Running' = {} /\ op'[c].life = i
  BY <1>1, <1>2 DEF Waiting, Running, TypeOK
<1>7. op' \in [Callers -> {Idle} \cup [at : {"wait"}, life : Lives]
                           \cup [at : {"run", "running"}, lang : Languages, id : Lives]]
  BY <1>1 DEF TypeOK
<1>8. containers' \in [Languages -> 0..MaxLives]
  BY <1>1, DockerAssumption DEF TypeOK
<1>9. TypeOK'
  BY <1>2, <1>3, <1>4, <1>6, <1>7, <1>8 DEF TypeOK, States
<1>10. Agreement'
  <2>1. ASSUME NEW k \in Languages, containers'[k] # 0
        PROVE  lives'[containers'[k]] \in Life /\ lives'[containers'[k]].lang = k
    <3>1. k # l /\ containers'[k] = containers[k]
      BY <1>1, <2>1 DEF TypeOK
    <3>2. containers[k] \in Lives /\ lives[containers[k]] \in Life /\ lives[containers[k]].lang = k
      BY <2>1, <3>1, DockerAssumption DEF TypeOK, Agreement, Lives
    <3> QED BY <3>1, <3>2, <1>4, <1>5
  <2>2. ASSUME NEW d \in Callers, op'[d].at \in {"run", "running"}
        PROVE  lives'[op'[d].id] \in Life /\ lives'[op'[d].id].lang = op'[d].lang
    <3>1. op'[d] = op[d] /\ op[d].at \in {"run", "running"}
      BY <1>1, <2>2 DEF TypeOK
    <3>2. op[d].id \in Lives
      BY <3>1 DEF TypeOK, Idle
    <3> QED BY <3>1, <3>2, <1>4, <1>5 DEF Agreement
  <2>3. \A d \in Waiting' : lives'[op'[d].life] \in Life /\ containers'[lives'[op'[d].life].lang] = 0
    BY <1>1, <1>4, <1>6 DEF TypeOK
  <2> QED BY <2>1, <2>2, <2>3 DEF Agreement
<1> QED BY <1>6, <1>9, <1>10 DEF CodeKeepsItsContainer

\* A Start that returns records its lifecycle or drops it.
LEMMA StartReturnKeepsIInv ==
    ASSUME IInv, NEW c \in Callers, StartEnds(c) \/ StartTimesOut(c) \/ StartCancelled(c)
    PROVE  IInv'
<1> USE DEF IInv
<1>1. c \in Waiting /\ Running = {} /\ Waiting = {c}
  BY DEF StartEnds, StartTimesOut, StartCancelled, Waiting, TypeOK
<1>2. op' = [op EXCEPT ![c] = Idle] /\ docker' = docker /\ closed' = closed /\ trouble' \in BOOLEAN
  BY DEF StartEnds, StartTimesOut, StartCancelled, Return, Trouble, TypeOK
<1>3. Waiting' = {} /\ Running' = {} /\ \A d \in Callers \ {c} : op'[d] = op[d]
  BY <1>1, <1>2 DEF Waiting, Running, TypeOK, Idle
<1> DEFINE i == op[c].life
<1>4. i \in Lives /\ lives[i] \in Life
  BY <1>1 DEF TypeOK, Agreement, Waiting, Idle
<1>5. /\ lives' \in [Lives -> Life \cup {NoLife}]
      /\ \A j \in Lives : lives[j] \in Life => lives'[j] \in Life /\ lives'[j].lang = lives[j].lang
  <2>1. CASE StartEnds(c)
    BY <2>1 DEF StartEnds, TypeOK
  <2>2. CASE StartTimesOut(c) \/ StartCancelled(c)
    <3>1. PICK e \in BOOLEAN : lives' = [lives EXCEPT ![i].ended = e]
      BY <2>2, <1>4 DEF StartTimesOut, StartCancelled, Life
    <3>2. lives'[i] \in Life /\ lives'[i].lang = lives[i].lang
      BY <3>1, <1>4 DEF TypeOK, Life
    <3> QED BY <3>1, <3>2, <1>4 DEF TypeOK
  <2> QED BY <2>1, <2>2
<1>6. containers' = containers \/ containers' = Recorded(i)
  BY DEF StartEnds, StartTimesOut, StartCancelled
<1>7. containers' \in [Languages -> 0..MaxLives]
  BY <1>4, <1>6 DEF TypeOK, Recorded, Lives
<1>8. TypeOK'
  BY <1>2, <1>3, <1>5, <1>7 DEF TypeOK
<1>9. Agreement'
  <2>1. ASSUME NEW k \in Languages, containers'[k] # 0
        PROVE  lives'[containers'[k]] \in Life /\ lives'[containers'[k]].lang = k
    <3>1. \/ containers'[k] = i /\ lives[i].lang = k
          \/ containers'[k] = containers[k]
      BY <1>6, <1>4 DEF Recorded, TypeOK
    <3>2. containers'[k] \in Lives
      BY <1>7, <2>1, DockerAssumption DEF Lives
    <3> QED BY <2>1, <3>1, <3>2, <1>4, <1>5 DEF Agreement
  <2>2. ASSUME NEW d \in Callers, op'[d].at \in {"run", "running"}
        PROVE  lives'[op'[d].id] \in Life /\ lives'[op'[d].id].lang = op'[d].lang
    <3>1. op'[d] = op[d] /\ op[d].at \in {"run", "running"}
      BY <1>2, <2>2 DEF TypeOK, Idle
    <3>2. op[d].id \in Lives
      BY <3>1 DEF TypeOK, Idle
    <3> QED BY <3>1, <3>2, <1>5 DEF Agreement
  <2> QED BY <2>1, <2>2, <1>3 DEF Agreement
<1> QED BY <1>3, <1>8, <1>9 DEF CodeKeepsItsContainer

\* Stop and Cleanup lock, and only take containers from the map.
LEMMA StopKeepsIInv ==
    ASSUME IInv, NEW c \in Callers,
           (\E l \in Languages : Stop(c, l)) \/ (\E close \in BOOLEAN : Cleanup(c, close))
    PROVE  IInv'
<1> USE DEF IInv
<1>1. Waiting = {} /\ Running = {} /\ op' = op /\ lives' = lives /\ trouble' \in BOOLEAN
  BY DEF Stop, Cleanup, MayLock, TypeOK
<1>2. Waiting' = {} /\ Running' = {}
  BY <1>1 DEF Waiting, Running
<1>3. \A l \in Languages : containers'[l] \in {0, containers[l]}
  BY DEF Stop, Cleanup, TypeOK
<1>4. containers' \in [Languages -> 0..MaxLives] /\ closed' \in BOOLEAN
  BY DockerAssumption DEF Stop, Cleanup, TypeOK
<1>5. docker' \in [Lives -> States]
  <2>1. ASSUME NEW l \in Languages, Stop(c, l) PROVE docker' \in [Lives -> States]
    <3>1. containers[l] \in Lives
      BY <2>1, DockerAssumption DEF Stop, TypeOK, Lives
    <3> QED BY <2>1, <3>1, StopStates DEF Stop, TypeOK, States
  <2>2. ASSUME NEW close \in BOOLEAN, Cleanup(c, close) PROVE docker' \in [Lives -> States]
    BY <2>2 DEF Cleanup, TypeOK, States
  <2> QED BY <2>1, <2>2
<1>6. TypeOK'
  BY <1>1, <1>2, <1>4, <1>5 DEF TypeOK, States
<1>7. Agreement'
  BY <1>1, <1>2, <1>3 DEF Agreement
<1> QED BY <1>2, <1>6, <1>7 DEF CodeKeepsItsContainer

\* Code begins under the read lock, in the container that was found for its language.
LEMMA ExecuteKeepsIInv ==
    ASSUME IInv, NEW c \in Callers,
           (\E l \in Languages : Status(c, l)) \/ Execute(c) \/ CodeEnds(c)
    PROVE  IInv'
<1> USE DEF IInv
<1>1. UNCHANGED <<containers, lives, docker, closed, trouble>>
  BY DEF Status, Execute, CodeEnds
<1>2. c \notin Waiting
  BY DEF Status, Execute, CodeEnds, Waiting, Idle
<1>3. \/ op' = [op EXCEPT ![c] = Idle]
      \/ \E l \in Languages : /\ Ready(l)
                              /\ op' = [op EXCEPT ![c] = [at |-> "run", lang |-> l, id |-> containers[l]]]
      \/ /\ op[c].at = "run" /\ MayRLock /\ Found(op[c].id)
         /\ op' = [op EXCEPT ![c].at = "running"]
  BY DEF Status, Execute, CodeEnds, Return
<1>4. CASE op' = [op EXCEPT ![c] = Idle]
  <2>1. \A d \in Callers : op'[d] = op[d] \/ op'[d] = Idle
    BY <1>4 DEF TypeOK
  <2>2. Waiting' = Waiting /\ Running' \subseteq Running /\ \A d \in Running' : op'[d] = op[d]
    BY <1>2, <1>4, <2>1 DEF Waiting, Running, TypeOK, Idle
  <2>3. TypeOK'
    BY <1>1, <1>4, <2>2 DEF TypeOK
  <2>4. Agreement'
    BY <1>1, <2>1, <2>2 DEF Agreement, Waiting, Idle
  <2>5. CodeKeepsItsContainer'
    BY <1>1, <2>2 DEF CodeKeepsItsContainer, Exists
  <2> QED BY <2>3, <2>4, <2>5
<1>5. ASSUME NEW l \in Languages, Ready(l),
             op' = [op EXCEPT ![c] = [at |-> "run", lang |-> l, id |-> containers[l]]]
      PROVE  IInv'
  <2>1. containers[l] \in Lives
    BY <1>5, DockerAssumption DEF Ready, TypeOK, Lives
  <2>2. /\ op'[c].at = "run" /\ op'[c].lang = l /\ op'[c].id = containers[l]
        /\ \A d \in Callers \ {c} : op'[d] = op[d]
    BY <1>5 DEF TypeOK
  <2>3. /\ Waiting' = Waiting /\ Running' \subseteq Running
        /\ \A d \in Running' \cup Waiting' : op'[d] = op[d]
    BY <1>2, <2>2 DEF Waiting, Running
  <2>4. TypeOK'
    <3>1. op' \in [Callers -> {Idle} \cup [at : {"wait"}, life : Lives]
                               \cup [at : {"run", "running"}, lang : Languages, id : Lives]]
      BY <1>5, <2>1 DEF TypeOK
    <3> QED BY <1>1, <2>3, <3>1 DEF TypeOK
  <2>5. Agreement'
    <3>1. lives[containers[l]] \in Life /\ lives[containers[l]].lang = l
      BY <1>5 DEF Agreement, Ready
    <3>2. ASSUME NEW d \in Callers, op'[d].at \in {"run", "running"}
          PROVE  lives'[op'[d].id] \in Life /\ lives'[op'[d].id].lang = op'[d].lang
      BY <1>1, <2>2, <3>1, <3>2 DEF Agreement
    <3> QED BY <1>1, <2>3, <3>2 DEF Agreement
  <2>6. CodeKeepsItsContainer'
    BY <1>1, <2>3 DEF CodeKeepsItsContainer, Exists
  <2> QED BY <2>4, <2>5, <2>6
<1>6. CASE op[c].at = "run" /\ MayRLock /\ Found(op[c].id) /\ op' = [op EXCEPT ![c].at = "running"]
  <2>1. op[c] \in [at : {"run", "running"}, lang : Languages, id : Lives]
    BY <1>6 DEF TypeOK, Idle
  <2>2. /\ op'[c] = [op[c] EXCEPT !.at = "running"]
        /\ \A d \in Callers \ {c} : op'[d] = op[d]
    BY <1>6 DEF TypeOK
  <2>3. op'[c].at = "running" /\ op'[c].lang = op[c].lang /\ op'[c].id = op[c].id
    BY <2>1, <2>2
  <2>4. Waiting = {} /\ Waiting' = {}
    BY <1>6, <2>2, <2>3 DEF MayRLock, Waiting
  <2>5. TypeOK'
    <3>1. op' \in [Callers -> {Idle} \cup [at : {"wait"}, life : Lives]
                               \cup [at : {"run", "running"}, lang : Languages, id : Lives]]
      BY <1>6, <2>1 DEF TypeOK
    <3> QED BY <1>1, <2>4, <3>1 DEF TypeOK
  <2>6. Agreement'
    BY <1>1, <1>6, <2>2, <2>3, <2>4 DEF Agreement
  <2>7. containers[op[c].lang] = op[c].id /\ op[c].id \in Exists
    <3>1. PICK l \in Languages : containers[l] = op[c].id /\ op[c].id \in Exists
      BY <1>6 DEF Found
    <3>2. containers[l] # 0
      BY <3>1, DockerAssumption DEF Exists, Lives
    <3>3. l = op[c].lang
      BY <1>6, <3>1, <3>2 DEF Agreement
    <3> QED BY <3>1, <3>3
  <2>8. CodeKeepsItsContainer'
    <3>1. Exists' = Exists
      BY <1>1 DEF Exists
    <3>2. ASSUME NEW d \in Running', d # c
          PROVE  containers[op'[d].lang] = op'[d].id /\ op'[d].id \in Exists
      BY <2>2, <3>2 DEF CodeKeepsItsContainer, Running
    <3> QED BY <1>1, <2>3, <2>7, <3>1, <3>2 DEF CodeKeepsItsContainer
  <2> QED BY <2>5, <2>6, <2>8
<1> QED BY <1>3, <1>4, <1>5, <1>6

LEMMA StepIInv == IInv /\ [Next]_vars => IInv'
<1> SUFFICES ASSUME IInv, [Next]_vars PROVE IInv'
  OBVIOUS
<1>1. CASE UNCHANGED vars
  BY <1>1 DEF vars, IInv, TypeOK, Agreement, CodeKeepsItsContainer, Waiting, Running, Exists
<1>2. ASSUME NEW i \in Lives, Create(i) \/ StartContainer(i) \/ Exit(i) PROVE IInv'
  BY <1>2, LifeKeepsIInv
<1>3. ASSUME NEW c \in Callers, NEW l \in Languages, StartReady(c, l) PROVE IInv'
  BY <1>1, <1>3 DEF StartReady
<1>4. ASSUME NEW c \in Callers, NEW l \in Languages, Start(c, l) PROVE IInv'
  BY <1>4, StartKeepsIInv
<1>5. ASSUME NEW c \in Callers, StartEnds(c) \/ StartTimesOut(c) \/ StartCancelled(c) PROVE IInv'
  BY <1>5, StartReturnKeepsIInv
<1>6. ASSUME NEW c \in Callers,
             (\E l \in Languages : Stop(c, l)) \/ (\E close \in BOOLEAN : Cleanup(c, close))
      PROVE  IInv'
  BY <1>6, StopKeepsIInv
<1>7. ASSUME NEW c \in Callers,
             (\E l \in Languages : Status(c, l)) \/ Execute(c) \/ CodeEnds(c)
      PROVE  IInv'
  BY <1>7, ExecuteKeepsIInv
<1> QED BY <1>1, <1>2, <1>3, <1>4, <1>5, <1>6, <1>7 DEF Next

\* The invariant of the proofs below.
LEMMA Inductive == Spec => []IInv
BY InitIInv, StepIInv, PTL DEF Spec

\* Types, and the read-write lock: one Start at a time, none while code runs.
THEOREM TypeCorrect == Spec => []TypeOK
<1>1. IInv => TypeOK
  BY DEF IInv
<1> QED BY <1>1, Inductive, PTL

\* Code that execute_code runs keeps the container of its language until it ends.
THEOREM CodeStaysInItsContainer == Spec => []CodeKeepsItsContainer
<1>1. IInv => CodeKeepsItsContainer
  BY DEF IInv
<1> QED BY <1>1, Inductive, PTL

-----------------------------------------------------------------------------
LEMMA InitNoneLost == Init => NoneLost
BY DEF Init, NoneLost, Exists, NoLife

\* Creating and starting keep containers where they are looked for; each failure is trouble.
LEMMA LifeKeepsNoneLost ==
    ASSUME IInv, NoneLost, NEW i \in Lives, Create(i) \/ StartContainer(i) \/ Exit(i)
    PROVE  NoneLost'
<1> SUFFICES ASSUME ~trouble' PROVE NoneLost'
  BY DEF NoneLost
<1> USE DEF IInv
<1>1. ~trouble /\ Managed' = Managed /\ Awaited' = Awaited
  BY DEF Create, StartContainer, Exit, Trouble, Managed, Awaited, Waiting
<1>2. CASE Create(i)
  <2>1. docker' = [docker EXCEPT ![i] = "created"] /\ lives' = [lives EXCEPT ![i].at = "start"]
    BY <1>2 DEF Create, Trouble
  <2>2. i \in Awaited
    BY <1>1, <1>2 DEF Create, NoneLost
  <2>3. Exists' \subseteq Exists \cup {i}
    BY <2>1 DEF Exists, TypeOK
  <2>4. lives'[i].at = "start" /\ \A j \in Lives \ {i} : lives'[j] = lives[j]
    BY <2>1, <1>2 DEF TypeOK, Create, Life, NoLife
  <2> QED BY <1>1, <2>2, <2>3, <2>4 DEF NoneLost
<1>3. CASE StartContainer(i)
  <2>1. /\ docker' = [docker EXCEPT ![i] = "running"] /\ i \in Exists
        /\ lives' = [lives EXCEPT ![i].at = "started"]
    BY <1>3 DEF StartContainer, Trouble
  <2>2. Exists' \subseteq Exists
    BY <2>1 DEF Exists, TypeOK
  <2>3. lives'[i].at = "started" /\ \A j \in Lives \ {i} : lives'[j] = lives[j]
    BY <2>1, <1>3 DEF TypeOK, StartContainer, Life, NoLife
  <2> QED BY <1>1, <2>2, <2>3 DEF NoneLost
<1>4. CASE Exit(i)
  <2>1. Exists' \subseteq Exists /\ lives' = lives
    BY <1>4 DEF Exit, Exists, TypeOK
  <2> QED BY <1>1, <2>1 DEF NoneLost
<1> QED BY <1>2, <1>3, <1>4

\* The container that a Start replaces is gone, unless a call failed.
LEMMA StartKeepsNoneLost ==
    ASSUME IInv, NoneLost, NEW c \in Callers, NEW l \in Languages, Start(c, l)
    PROVE  NoneLost'
<1> SUFFICES ASSUME ~trouble' PROVE NoneLost'
  BY DEF NoneLost
<1> USE DEF IInv
<1>1. PICK i \in Lives \ Used :
         /\ \E after \in Replaced(l) : /\ docker' = after.docker
                                       /\ trouble' = (trouble \/ Ready(l) \/ after.failed)
         /\ containers' = [containers EXCEPT ![l] = 0]
         /\ \E cancels \in BOOLEAN :
               lives' = [lives EXCEPT ![i] =
                            [lang |-> l, at |-> "create", ended |-> FALSE, cancels |-> cancels]]
         /\ op' = [op EXCEPT ![c] = [at |-> "wait", life |-> i]]
  BY DEF Start
<1>2. Waiting = {} /\ Awaited = {}
  BY DEF Start, MayLock, Awaited
<1>3. PICK after \in Replaced(l) : docker' = after.docker /\ ~trouble /\ ~after.failed
  BY <1>1 DEF TypeOK
<1>4. ASSUME NEW j \in Exists' PROVE j \in Exists /\ j # containers[l]
  <2>1. CASE containers[l] = 0
    BY <1>3, <1>4, <2>1, DockerAssumption DEF Replaced, Exists, Lives
  <2>2. CASE containers[l] # 0
    <3>1. PICK s \in StopOutcomes(containers[l]) :
             after = [docker |-> [docker EXCEPT ![containers[l]] = s], failed |-> ~Gone(s)]
      BY <2>2 DEF Replaced
    <3>2. docker' = [docker EXCEPT ![containers[l]] = s] /\ Gone(s)
      BY <1>3, <3>1
    <3> QED BY <1>4, <3>2 DEF Exists, Gone, TypeOK
  <2> QED BY <2>1, <2>2
<1>5. ASSUME NEW j \in Exists' PROVE j \in Managed'
  <2>1. j \in Managed
    BY <1>2, <1>3, <1>4, <1>5 DEF NoneLost
  <2>2. PICK k \in Languages : containers[k] = j /\ j # 0
    BY <2>1 DEF Managed
  <2>3. k # l
    BY <2>2, <1>4, <1>5
  <2>4. containers'[k] = j
    BY <1>1, <2>2, <2>3 DEF TypeOK
  <2> QED BY <2>2, <2>4 DEF Managed
<1>6. lives'[i].at = "create" /\ \A j \in Lives \ {i} : lives'[j] = lives[j]
  BY <1>1 DEF TypeOK
<1>7. i \in Awaited'
  <2>1. op'[c].at = "wait" /\ op'[c].life = i
    BY <1>1 DEF TypeOK
  <2> QED BY <2>1 DEF Awaited, Waiting
<1>8. ASSUME NEW j \in Lives
      PROVE  lives'[j].at # "failed" /\ (lives'[j].at \in {"create", "start"} => j \in Awaited')
  BY <1>2, <1>3, <1>6, <1>7 DEF NoneLost
<1> QED BY <1>5, <1>8 DEF NoneLost

\* A Start that returns without trouble has its container recorded, for a language that
\* had none.
LEMMA ReturnKeepsNoneLost ==
    ASSUME IInv, NoneLost, NEW c \in Callers, StartEnds(c) \/ StartTimesOut(c) \/ StartCancelled(c)
    PROVE  NoneLost'
<1> SUFFICES ASSUME ~trouble' PROVE NoneLost'
  BY DEF NoneLost
<1> USE DEF IInv
<1> DEFINE i == op[c].life
<1>1. StartEnds(c) /\ ~trouble
  BY DEF StartEnds, StartTimesOut, StartCancelled, Trouble
<1>2. c \in Waiting /\ Waiting = {c} /\ i \in Lives /\ lives[i] \in Life
  BY <1>1 DEF StartEnds, Waiting, TypeOK, Agreement, Idle
<1>3. Awaited = {i} /\ docker' = docker /\ lives' = lives
  BY <1>1, <1>2 DEF Awaited, StartEnds
<1>4. lives[i].at = "started" /\ containers' = [containers EXCEPT ![lives[i].lang] = i]
  BY <1>1, <1>2 DEF StartEnds, NoneLost, Recorded
<1>5. containers[lives[i].lang] = 0 /\ lives[i].lang \in Languages /\ i # 0
  BY <1>2, DockerAssumption DEF Agreement, Life, Lives
<1>6. Managed \cup {i} \subseteq Managed'
  <2>1. i \in Managed'
    BY <1>4, <1>5 DEF Managed, TypeOK
  <2>2. ASSUME NEW j \in Managed PROVE j \in Managed'
    <3>1. PICK k \in Languages : containers[k] = j /\ j # 0
      BY <2>2 DEF Managed
    <3>2. containers'[k] = j
      BY <1>4, <1>5, <3>1 DEF TypeOK
    <3> QED BY <3>1, <3>2 DEF Managed
  <2> QED BY <2>1, <2>2
<1>7. Exists' \subseteq Managed'
  BY <1>1, <1>3, <1>6 DEF NoneLost, Exists
<1>8. ASSUME NEW j \in Lives PROVE lives'[j].at \notin {"failed", "create", "start"}
  BY <1>1, <1>3, <1>4 DEF NoneLost
<1> QED BY <1>7, <1>8 DEF NoneLost

\* What leaves the map is gone, unless a call failed.
LEMMA StopKeepsNoneLost ==
    ASSUME IInv, NoneLost, NEW c \in Callers,
           (\E l \in Languages : Stop(c, l)) \/ (\E close \in BOOLEAN : Cleanup(c, close))
    PROVE  NoneLost'
<1> SUFFICES ASSUME ~trouble' PROVE NoneLost'
  BY DEF NoneLost
<1> USE DEF IInv
<1>1. ~trouble /\ Awaited = {} /\ lives' = lives /\ op' = op
  BY DEF Stop, Cleanup, MayLock, Awaited, TypeOK
<1>2. \A j \in Lives : lives'[j].at \notin {"failed", "create", "start"}
  BY <1>1 DEF NoneLost
<1>3. Exists \subseteq Managed
  BY <1>1 DEF NoneLost
<1>4. ASSUME NEW l \in Languages, Stop(c, l) PROVE Exists' \subseteq Managed'
  <2>1. PICK s \in StopOutcomes(containers[l]) :
           /\ docker' = [docker EXCEPT ![containers[l]] = s] /\ Gone(s)
           /\ containers' = [containers EXCEPT ![l] = 0]
    BY <1>4 DEF Stop, TypeOK
  <2>2. Exists' \subseteq Exists /\ containers[l] \notin Exists'
    BY <2>1 DEF Exists, Gone, TypeOK
  <2>3. ASSUME NEW j \in Exists' PROVE j \in Managed'
    <3>1. PICK k \in Languages : containers[k] = j /\ j # 0
      BY <1>3, <2>2, <2>3 DEF Managed
    <3>2. k # l
      BY <2>2, <2>3, <3>1
    <3>3. containers'[k] = j
      BY <2>1, <3>1, <3>2 DEF TypeOK
    <3> QED BY <3>1, <3>3 DEF Managed
  <2> QED BY <2>3
<1>5. ASSUME NEW close \in BOOLEAN, Cleanup(c, close) PROVE Exists' \subseteq Managed'
  BY <1>3, <1>5 DEF Cleanup, Exists, Gone, TypeOK
<1> QED BY <1>2, <1>4, <1>5 DEF NoneLost

LEMMA StepNoneLost == IInv /\ NoneLost /\ [Next]_vars => NoneLost'
<1> SUFFICES ASSUME IInv, NoneLost, [Next]_vars PROVE NoneLost'
  OBVIOUS
<1>1. CASE UNCHANGED vars
  BY <1>1 DEF vars, NoneLost, Managed, Awaited, Waiting, Exists
<1>2. ASSUME NEW i \in Lives, Create(i) \/ StartContainer(i) \/ Exit(i) PROVE NoneLost'
  BY <1>2, LifeKeepsNoneLost
<1>3. ASSUME NEW c \in Callers, NEW l \in Languages, StartReady(c, l) PROVE NoneLost'
  BY <1>1, <1>3 DEF StartReady
<1>4. ASSUME NEW c \in Callers, NEW l \in Languages, Start(c, l) PROVE NoneLost'
  BY <1>4, StartKeepsNoneLost
<1>5. ASSUME NEW c \in Callers, StartEnds(c) \/ StartTimesOut(c) \/ StartCancelled(c) PROVE NoneLost'
  BY <1>5, ReturnKeepsNoneLost
<1>6. ASSUME NEW c \in Callers,
             (\E l \in Languages : Stop(c, l)) \/ (\E close \in BOOLEAN : Cleanup(c, close))
      PROVE  NoneLost'
  BY <1>6, StopKeepsNoneLost
<1>7. ASSUME NEW c \in Callers,
             (\E l \in Languages : Status(c, l)) \/ Execute(c) \/ CodeEnds(c)
      PROVE  NoneLost'
  <2>1. UNCHANGED <<containers, lives, docker, trouble>>
    BY <1>7 DEF Status, Execute, CodeEnds
  <2>2. \A d \in Callers : d \in Waiting <=> d \in Waiting'
    BY <1>7 DEF Status, Execute, CodeEnds, Return, Waiting, Idle, IInv, TypeOK
  <2>3. \A d \in Waiting : op'[d] = op[d]
    BY <1>7 DEF Status, Execute, CodeEnds, Return, Waiting, Idle, IInv, TypeOK
  <2>4. Awaited' = Awaited
    BY <2>2, <2>3 DEF Awaited, Waiting
  <2> QED BY <2>1, <2>4 DEF NoneLost, Managed, Exists
<1> QED BY <1>1, <1>2, <1>3, <1>4, <1>5, <1>6, <1>7 DEF Next

\* As long as nothing fails, ends early or takes two seconds, no container is lost.
THEOREM NothingIsLost == Spec => []NothingLost
<1>1. NoneLost => NothingLost
  BY DEF NoneLost, NothingLost, Awaited
<1> QED BY <1>1, Inductive, InitNoneLost, StepNoneLost, PTL DEF Spec

-----------------------------------------------------------------------------
(* The table of containers                                                 *)

\* The lifecycle a Start waits for is in use, and is no language's container yet.
LEMMA WaitedFor ==
    ASSUME IInv, NEW c \in Waiting
    PROVE  /\ op[c].life \in Used /\ lives[op[c].life].lang \in Languages
           /\ containers[lives[op[c].life].lang] = 0
           /\ Waiting = {c} /\ spentBar = Used \ {op[c].life}
<1>1. op[c].life \in Lives /\ lives[op[c].life] \in Life
  BY DEF IInv, TypeOK, Agreement, Waiting, Idle
<1>2. lives[op[c].life] # NoLife
  BY <1>1 DEF Life, NoLife
<1>3. Waiting = {c}
  BY DEF IInv, TypeOK
<1> QED BY <1>1, <1>2, <1>3 DEF IInv, Agreement, Life, Used, spentBar

\* Creating, starting and exiting are no steps of the table.
LEMMA LifeIsHidden ==
    ASSUME IInv, NEW i \in Lives, Create(i) \/ StartContainer(i) \/ Exit(i)
    PROVE  UNCHANGED <<containers, spentBar, busyBar>>
<1>1. containers' = containers /\ op' = op
  BY DEF Create, StartContainer, Exit
<1>2. Used' = Used
  <2>1. CASE lives' = lives
    BY <2>1 DEF Used
  <2>2. ASSUME NEW at, lives' = [lives EXCEPT ![i].at = at], lives[i].at # "unused", at # "unused"
        PROVE  Used' = Used
    <3>1. lives[i] \in Life /\ \A j \in Lives \ {i} : lives'[j] = lives[j]
      BY <2>2 DEF IInv, TypeOK, NoLife
    <3>2. lives'[i] = [lives[i] EXCEPT !.at = at]
      BY <2>2 DEF IInv, TypeOK
    <3>3. lives'[i].at = at
      BY <3>1, <3>2 DEF Life
    <3>4. lives[i] # NoLife /\ lives'[i] # NoLife
      BY <2>2, <3>3 DEF NoLife
    <3> QED BY <3>1, <3>4 DEF Used
  <2> QED BY <2>1, <2>2 DEF Create, StartContainer, Exit
<1> QED BY <1>1, <1>2 DEF spentBar, busyBar, Waiting, Running

\* A Start that begins drops what its language has: the lock tells that no code runs.
LEMMA StartDrops ==
    ASSUME IInv, NEW c \in Callers, NEW l \in Languages, Start(c, l)
    PROVE  Table!Drop({l})
<1>1. PICK i \in Lives \ Used :
         /\ containers' = [containers EXCEPT ![l] = 0]
         /\ \E cancels \in BOOLEAN :
               lives' = [lives EXCEPT ![i] =
                            [lang |-> l, at |-> "create", ended |-> FALSE, cancels |-> cancels]]
         /\ op' = [op EXCEPT ![c] = [at |-> "wait", life |-> i]]
  BY DEF Start
<1>2. Waiting = {} /\ Running = {}
  BY DEF Start, MayLock
<1>3. Waiting' = {c} /\ Running' = {} /\ op'[c].life = i
  BY <1>1, <1>2 DEF Waiting, Running, IInv, TypeOK
<1>4. spentBar' = spentBar
  <2>1. lives'[i] # NoLife /\ \A j \in Lives \ {i} : lives'[j] = lives[j]
    BY <1>1 DEF IInv, TypeOK, NoLife
  <2>2. Used' = Used \cup {i}
    BY <1>1, <2>1 DEF Used
  <2> QED BY <1>1, <1>2, <1>3, <2>2 DEF spentBar
<1>5. busyBar' = busyBar /\ \A d \in Callers : busyBar[d] = 0
  BY <1>2, <1>3 DEF busyBar
<1>6. containers' = [k \in Languages |-> IF k \in {l} THEN 0 ELSE containers[k]]
  BY <1>1 DEF IInv, TypeOK
<1> QED BY <1>4, <1>5, <1>6 DEF Table!Drop

\* A Start that returns records its container where there is none, or gives it up.
LEMMA ReturnRecords ==
    ASSUME IInv, NEW c \in Callers, StartEnds(c) \/ StartTimesOut(c) \/ StartCancelled(c)
    PROVE  \E i \in Lives : Table!Abandon(i) \/ \E l \in Languages : Table!Record(l, i)
<1> DEFINE i == op[c].life
<1>1. c \in Waiting /\ op' = [op EXCEPT ![c] = Idle]
  BY DEF StartEnds, StartTimesOut, StartCancelled, Waiting, Return
<1>2. /\ i \in Used /\ lives[i].lang \in Languages /\ containers[lives[i].lang] = 0
      /\ Waiting = {c} /\ spentBar = Used \ {i}
  BY <1>1, WaitedFor
<1>3. Waiting' = {} /\ Running' = Running /\ \A d \in Running : op'[d] = op[d]
  BY <1>1, <1>2 DEF Waiting, Running, IInv, TypeOK, Idle
<1>4. busyBar' = busyBar
  BY <1>3 DEF busyBar
<1>5. Used' = Used
  <2>1. CASE lives' = lives
    BY <2>1 DEF Used
  <2>2. ASSUME NEW e, lives' = [lives EXCEPT ![i].ended = e]
        PROVE  Used' = Used
    <3>1. i \in Lives /\ lives[i] \in Life
      BY <1>2 DEF Used, IInv, TypeOK
    <3>2. lives'[i] = [lives[i] EXCEPT !.ended = e] /\ \A j \in Lives \ {i} : lives'[j] = lives[j]
      BY <2>2, <3>1 DEF IInv, TypeOK
    <3>3. lives'[i].at = lives[i].at /\ lives[i].at # "unused"
      BY <3>1, <3>2 DEF Life
    <3>4. lives[i] # NoLife /\ lives'[i] # NoLife
      BY <3>3 DEF NoLife
    <3> QED BY <3>2, <3>4 DEF Used
  <2> QED BY <2>1, <2>2 DEF StartEnds, StartTimesOut, StartCancelled
<1>6. i \in Lives /\ i \notin spentBar /\ spentBar' = spentBar \cup {i}
  BY <1>2, <1>3, <1>5 DEF spentBar, Used
<1>7. containers' = containers \/ containers' = Recorded(i)
  BY DEF StartEnds, StartTimesOut, StartCancelled
<1>8. CASE containers' = containers
  BY <1>4, <1>6, <1>8 DEF Table!Abandon
<1>9. CASE containers' = Recorded(i)
  <2>1. Table!Record(lives[i].lang, i)
    BY <1>2, <1>4, <1>6, <1>9 DEF Table!Record, Recorded
  <2> QED BY <1>2, <1>6, <2>1
<1> QED BY <1>7, <1>8, <1>9

\* Stop and Cleanup drop containers in which no code runs.
LEMMA StopDrops ==
    ASSUME IInv, NEW c \in Callers,
           (\E l \in Languages : Stop(c, l)) \/ (\E close \in BOOLEAN : Cleanup(c, close))
    PROVE  \E ls \in SUBSET Languages : Table!Drop(ls)
<1>1. Running = {} /\ op' = op /\ lives' = lives
  BY DEF Stop, Cleanup, MayLock
<1>2. UNCHANGED <<spentBar, busyBar>> /\ \A d \in Callers : busyBar[d] = 0
  BY <1>1 DEF spentBar, busyBar, Used, Waiting, Running
<1>3. PICK ls \in SUBSET Languages :
         containers' = [l \in Languages |-> IF l \in ls THEN 0 ELSE containers[l]]
  <2>1. ASSUME NEW l \in Languages, Stop(c, l)
        PROVE  \E ls \in SUBSET Languages :
                  containers' = [k \in Languages |-> IF k \in ls THEN 0 ELSE containers[k]]
    <3>1. CASE containers' = containers
      <4>1. PICK none \in SUBSET Languages : none = {}
        OBVIOUS
      <4>2. containers' = [k \in Languages |-> IF k \in none THEN 0 ELSE containers[k]]
        BY <3>1, <4>1 DEF IInv, TypeOK
      <4> QED BY <4>2
    <3>2. CASE containers' = [containers EXCEPT ![l] = 0]
      <4>1. containers' = [k \in Languages |-> IF k \in {l} THEN 0 ELSE containers[k]]
        BY <3>2 DEF IInv, TypeOK
      <4> QED BY <4>1
    <3> QED BY <2>1, <3>1, <3>2 DEF Stop
  <2>2. ASSUME NEW close \in BOOLEAN, Cleanup(c, close)
        PROVE  \E ls \in SUBSET Languages :
                  containers' = [k \in Languages |-> IF k \in ls THEN 0 ELSE containers[k]]
    <3>1. containers' = [k \in Languages |-> IF k \in Languages THEN 0 ELSE containers[k]]
      BY <2>2 DEF Cleanup
    <3> QED BY <3>1
  <2> QED BY <2>1, <2>2
<1>4. Table!Drop(ls)
  <2>1. ASSUME NEW l \in ls, containers[l] # 0, NEW d \in Callers
        PROVE  busyBar[d] # containers[l]
    BY <1>2, <2>1
  <2> QED BY <1>2, <1>3, <2>1 DEF Table!Drop
<1> QED BY <1>4

\* Code enters the container of its language and leaves it; Status is no step of the table.
LEMMA ExecuteEnters ==
    ASSUME IInv, NEW c \in Callers,
           (\E l \in Languages : Status(c, l)) \/ Execute(c) \/ CodeEnds(c)
    PROVE  \/ UNCHANGED <<containers, spentBar, busyBar>>
           \/ Table!Leave(c)
           \/ \E l \in Languages : Table!Enter(c, l)
<1>1. UNCHANGED <<containers, lives>> /\ Used' = Used
  BY DEF Status, Execute, CodeEnds, Used
<1>2. PICK e : op' = [op EXCEPT ![c] = e] /\ e.at # "wait"
  <2>1. Idle.at # "wait"
    BY DEF Idle
  <2>2. ASSUME NEW l \in Languages, Status(c, l)
        PROVE  \E e : op' = [op EXCEPT ![c] = e] /\ e.at # "wait"
    <3>1. PICK e : e = IF Ready(l) THEN [at |-> "run", lang |-> l, id |-> containers[l]] ELSE Idle
      OBVIOUS
    <3>2. e.at # "wait"
      BY <2>1, <3>1
    <3>3. op' = [op EXCEPT ![c] = e]
      BY <2>2, <3>1 DEF Status
    <3> QED BY <3>2, <3>3
  <2>3. CASE op' = [op EXCEPT ![c].at = "running"] /\ op[c].at = "run"
    <3>1. op[c] \in [at : {"run", "running"}, lang : Languages, id : Lives]
      BY <2>3 DEF IInv, TypeOK, Idle
    <3>2. [op[c] EXCEPT !.at = "running"].at = "running"
      BY <3>1
    <3> QED BY <2>3, <3>2
  <2>4. CASE Return(c)
    BY <2>1, <2>4 DEF Return
  <2> QED BY <2>2, <2>3, <2>4 DEF Execute, CodeEnds
<1>3. op'[c] = e /\ \A d \in Callers \ {c} : op'[d] = op[d]
  BY <1>2 DEF IInv, TypeOK
<1>4. op[c].at # "wait"
  BY DEF Status, Execute, CodeEnds, Idle
<1>5. Waiting' = Waiting /\ \A d \in Waiting : op'[d] = op[d]
  BY <1>2, <1>3, <1>4 DEF Waiting
<1>6. spentBar' = spentBar
  BY <1>1, <1>5 DEF spentBar
<1>7. busyBar' = [busyBar EXCEPT ![c] = IF e.at = "running" THEN e.id ELSE 0]
  BY <1>3 DEF busyBar, Running
<1>8. busyBar[c] = IF op[c].at = "running" THEN op[c].id ELSE 0
  BY DEF busyBar, Running
<1>9. CASE \E l \in Languages : Status(c, l)
  <2>1. op[c].at # "running" /\ e.at # "running"
    BY <1>3, <1>9 DEF Status, Idle, IInv, TypeOK
  <2> QED BY <1>1, <1>6, <1>7, <1>8, <2>1 DEF busyBar
<1>10. CASE Return(c) /\ op[c].at = "run"
  <2>1. e.at # "running" /\ op[c].at # "running"
    BY <1>3, <1>10 DEF Return, Idle, IInv, TypeOK
  <2> QED BY <1>1, <1>6, <1>7, <1>8, <2>1 DEF busyBar
<1>11. CASE Found(op[c].id) /\ op[c].at = "run" /\ op' = [op EXCEPT ![c].at = "running"]
  <2>1. op[c] \in [at : {"run", "running"}, lang : Languages, id : Lives]
    BY <1>11 DEF IInv, TypeOK, Idle
  <2>2. e.at = "running" /\ e.id = op[c].id
    BY <1>3, <1>11, <2>1 DEF IInv, TypeOK
  <2>3. PICK l \in Languages : containers[l] = op[c].id
    BY <1>11 DEF Found
  <2>4. containers[l] # 0
    BY <2>1, <2>3, DockerAssumption DEF Lives
  <2>5. Table!Enter(c, l)
    BY <1>1, <1>6, <1>7, <1>8, <1>11, <2>2, <2>3, <2>4 DEF Table!Enter
  <2> QED BY <2>5
<1>12. CASE CodeEnds(c)
  <2>1. op[c].at = "running" /\ e.at # "running"
    BY <1>3, <1>12 DEF CodeEnds, Return, Idle, IInv, TypeOK
  <2>2. op[c].id # 0
    BY <2>1, DockerAssumption DEF IInv, TypeOK, Lives, Idle
  <2>3. Table!Leave(c)
    BY <1>1, <1>6, <1>7, <1>8, <2>1, <2>2 DEF Table!Leave
  <2> QED BY <2>3
<1> QED BY <1>9, <1>10, <1>11, <1>12 DEF Execute

\* The manager, with its lock, its goroutines and whatever Docker does, implements the table.
THEOREM ManagerImplementsTable == Spec => ImplementsTable
<1>1. Init => Table!RInit
  <2>1. SUFFICES ASSUME Init PROVE Table!RInit
    OBVIOUS
  <2>2. \A c \in Callers : op[c] = Idle /\ op[c].at = "idle"
    BY <2>1 DEF Init, Idle
  <2>3. Running = {} /\ Used = {}
    BY <2>1, <2>2 DEF Init, Running, Used
  <2> QED BY <2>1, <2>3 DEF Init, Table!RInit, spentBar, busyBar
<1>2. IInv /\ [Next]_vars => [Table!RNext]_(Table!rvars)
  <2> SUFFICES ASSUME IInv, [Next]_vars
               PROVE  Table!RNext \/ UNCHANGED <<containers, spentBar, busyBar>>
    BY DEF Table!rvars
  <2>1. CASE UNCHANGED vars
    BY <2>1 DEF vars, spentBar, busyBar, Used, Waiting, Running
  <2>2. ASSUME NEW i \in Lives, Create(i) \/ StartContainer(i) \/ Exit(i)
        PROVE  UNCHANGED <<containers, spentBar, busyBar>>
    BY <2>2, LifeIsHidden
  <2>3. ASSUME NEW c \in Callers, NEW l \in Languages, StartReady(c, l)
        PROVE  Table!RNext \/ UNCHANGED <<containers, spentBar, busyBar>>
    BY <2>1, <2>3 DEF StartReady
  <2>4. ASSUME NEW c \in Callers, NEW l \in Languages, Start(c, l) PROVE Table!RNext
    BY <2>4, StartDrops DEF Table!RNext
  <2>5. ASSUME NEW c \in Callers, StartEnds(c) \/ StartTimesOut(c) \/ StartCancelled(c)
        PROVE  Table!RNext
    BY <2>5, ReturnRecords DEF Table!RNext
  <2>6. ASSUME NEW c \in Callers,
               (\E l \in Languages : Stop(c, l)) \/ (\E close \in BOOLEAN : Cleanup(c, close))
        PROVE  Table!RNext
    BY <2>6, StopDrops DEF Table!RNext
  <2>7. ASSUME NEW c \in Callers,
               (\E l \in Languages : Status(c, l)) \/ Execute(c) \/ CodeEnds(c)
        PROVE  Table!RNext \/ UNCHANGED <<containers, spentBar, busyBar>>
    BY <2>7, ExecuteEnters DEF Table!RNext
  <2> QED BY <2>1, <2>2, <2>3, <2>4, <2>5, <2>6, <2>7 DEF Next
<1> QED BY <1>1, <1>2, Inductive, PTL DEF Spec, ImplementsTable, Table!RSpec
=============================================================================
