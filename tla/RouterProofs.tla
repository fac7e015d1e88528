---------------------------- MODULE RouterProofs ----------------------------
(***************************************************************************)
(* Proofs about Router: whatever the requests, the plans, the policy and   *)
(* the limits, and in whatever order the goroutines of a parallel group    *)
(* run and the tools answer, a reply's steps are the plan's and the pages  *)
(* they led to in that order, nothing runs after a failure but the rest of *)
(* its group, only group members run together, only steps ValidatePlan     *)
(* accepts run, the manifest lists what is on disk, and no page is left    *)
(* out or fetched twice.                                                   *)
(***************************************************************************)
EXTENDS Router, FiniteSetTheorems, WellFoundedInduction, TLAPS

\* Nothing of a plan has been executed.
Quiet ==
    /\ steps = <<>> /\ i = 0 /\ batch = 0 /\ started = 0 /\ ended = <<>>
    /\ out = <<>> /\ manifest = <<>> /\ stored = {} /\ conts = 0

Given == q \in Queries /\ plan \in Seq(Step)

\* What the phases say of the execution: it has not begun before "run", a batch is
\* under way only in "run", and a plan is answered when it has succeeded to its end.
Control ==
    /\ phase \in {"idle", "model", "validate", "run", "answer", "reply", "panic"}
    /\ Given /\ answer \in BOOLEAN
    /\ phase \in {"idle", "model", "validate"} => Quiet
    /\ phase # "run" => batch = 0
    /\ phase = "answer" => i = Len(steps)
    /\ phase \in {"run", "answer"} => \A n \in 1..i : ended[n].ok

\* Where the loop stands.
Position ==
    /\ steps \in Seq(Step)
    /\ i \in Nat /\ batch \in Nat /\ started \in Nat /\ conts \in Nat
    /\ started <= batch /\ i + batch <= Len(steps)

\* The plan's steps come first, and all steps are ones ValidatePlan accepts.
Planned ==
    /\ \A k \in 1..Len(steps) : ValidStep(steps[k])
    /\ steps # <<>> => Len(plan) <= Len(steps)
    /\ \A n \in 1..Len(steps) : n <= Len(plan) => steps[n] = [plan[n] EXCEPT !.origin = n]

\* Several steps of a batch are local members of one group.
Grouped ==
    batch > 1 => \A k \in Batch : /\ steps[k].group = steps[i + 1].group
                                  /\ steps[k].group # ""
                                  /\ steps[k].source = "local"

\* Steps end after they were started and before they are collected.
Ending ==
    /\ 1..i \subseteq DOMAIN ended /\ DOMAIN ended \subseteq 1..(i + started)
    /\ \A k \in DOMAIN ended :
          /\ ended[k] \in [ok : BOOLEAN, artifact : BOOLEAN, next : BOOLEAN]
          /\ ended[k].next => HasNextPage(steps[k]) /\ ~q.cut
          /\ ended[k].ok /\ HasNextPage(steps[k]) /\ ~q.cut => ended[k].next
    /\ Cardinality(Running) <= EffectiveParallelism(q)

\* The reply has what the collected steps ended with; a failure is followed by
\* members of its own group only.
Collected ==
    /\ out \in Seq([step : Step, ok : BOOLEAN]) /\ Len(out) = i
    /\ \A n \in 1..i : out[n].step = steps[n] /\ out[n].ok = ended[n].ok
    /\ \A n, m \in 1..i : n < m /\ ~ended[n].ok => /\ steps[n].group # ""
                                                   /\ steps[m].group = steps[n].group

\* The manifest lists the artifacts of the collected steps, the disk has those of
\* all steps that ended.
Disk ==
    /\ manifest \in Seq(Nat)
    /\ \A n, m \in DOMAIN manifest : n < m => manifest[n] < manifest[m]
    /\ {manifest[n] : n \in DOMAIN manifest} = {k \in 1..i : ended[k].artifact}
    /\ stored = {k \in DOMAIN ended : ended[k].artifact}

\* Step m asks for the page after the one step k asks for.
Follows(m, k) == steps[m].origin = steps[k].origin /\ steps[m].page = steps[k].page + 1

\* The steps of one origin ask for pages that follow one another, each once: a
\* page beyond the planned one was announced by a collected step, and as long as
\* the continuation limit is not reached every collected announcement is followed.
Paging ==
    /\ \A k \in 1..Len(steps) :
          /\ steps[k].origin \in 1..Len(plan)
          /\ steps[k].name = plan[steps[k].origin].name
          /\ steps[k].page >= plan[steps[k].origin].page
          /\ steps[k].page > plan[steps[k].origin].page => \E m \in 1..i : Follows(k, m)
    /\ \A k, m \in 1..Len(steps) :
          steps[k].origin = steps[m].origin /\ steps[k].page = steps[m].page => k = m
    /\ conts < MaxContinuations =>
          \A k \in 1..i : ended[k].next => \E m \in 1..Len(steps) : Follows(m, k)

Execution == /\ Position /\ Planned /\ Grouped /\ Ending /\ Collected
             /\ Disk /\ Paging

IInv == Control /\ Execution
-----------------------------------------------------------------------------
(* The least element of a set of naturals, and the n-th.                    *)

LEMMA LeastElement ==
    ASSUME NEW S, S \subseteq Nat, S # {}
    PROVE  \E x \in S : \A y \in S : x <= y
<1> DEFINE R == OpToRel(<, Nat)
<1>1. IsWellFoundedOn(R, Nat)
  BY NatLessThanWellFounded
<1>2. PICK x \in S : \A y \in S : ~ (<<y, x>> \in R)
  BY <1>1, WFMin
<1>3. ASSUME NEW y \in S
      PROVE  x <= y
  <2>1. x \in Nat /\ y \in Nat
    OBVIOUS
  <2>2. ~ (<<y, x>> \in OpToRel(<, Nat))
    BY <1>2
  <2>3. ~ (y < x)
    BY <2>1, <2>2 DEF OpToRel
  <2> QED
    BY <2>1, <2>3
<1> QED
  BY <1>3

\* How many elements of S are at most k: Nth(S, n) is the k for which it is n.
UpTo(S, k) == {m \in S : m <= k}
RankIn(S, k) == Cardinality(UpTo(S, k))

LEMMA RankBounds ==
    ASSUME NEW S, IsFiniteSet(S), S \subseteq Nat, NEW k \in S
    PROVE  RankIn(S, k) \in 1..Cardinality(S)
<1>1. /\ UpTo(S, k) \in SUBSET S
      /\ UpTo(S, k) # {}
  BY DEF UpTo
<1>2. /\ IsFiniteSet(UpTo(S, k))
      /\ Cardinality(UpTo(S, k)) <= Cardinality(S)
  BY <1>1, FS_Subset
<1>3. Cardinality(UpTo(S, k)) # 0
  BY <1>1, <1>2, FS_EmptySet
<1> QED
  BY <1>2, <1>3, FS_CardinalityType DEF RankIn

LEMMA RankGrows ==
    ASSUME NEW S, IsFiniteSet(S), S \subseteq Nat, NEW k \in S, NEW m \in S, m < k
    PROVE  RankIn(S, m) < RankIn(S, k)
<1>0. k \in Nat /\ m \in Nat
  OBVIOUS
<1>1. /\ UpTo(S, m) \in SUBSET UpTo(S, k)
      /\ UpTo(S, m) # UpTo(S, k)
      /\ UpTo(S, k) \in SUBSET S
  <2>1. ASSUME NEW x \in UpTo(S, m)
        PROVE  x \in UpTo(S, k)
    <3>1. x \in S /\ x \in Nat /\ x <= m
      BY DEF UpTo
    <3> QED
      BY <1>0, <3>1 DEF UpTo
  <2>2. k \in UpTo(S, k) /\ k \notin UpTo(S, m)
    BY <1>0 DEF UpTo
  <2>3. UpTo(S, k) \in SUBSET S
    BY DEF UpTo
  <2> QED
    BY <2>1, <2>2, <2>3
<1>2. IsFiniteSet(UpTo(S, k))
  BY <1>1, FS_Subset
<1>3. /\ Cardinality(UpTo(S, m)) <= Cardinality(UpTo(S, k))
      /\ Cardinality(UpTo(S, m)) # Cardinality(UpTo(S, k))
  BY <1>1, <1>2, FS_Subset
<1>4. IsFiniteSet(UpTo(S, m))
  BY <1>1, <1>2, FS_Subset
<1>5. Cardinality(UpTo(S, m)) \in Nat /\ Cardinality(UpTo(S, k)) \in Nat
  BY <1>2, <1>4, FS_CardinalityType
<1> QED
  BY <1>3, <1>5 DEF RankIn

LEMMA RankInjective ==
    ASSUME NEW S, IsFiniteSet(S), S \subseteq Nat, NEW k \in S, NEW m \in S,
           RankIn(S, k) = RankIn(S, m)
    PROVE  k = m
<1>1. /\ k \in Nat /\ m \in Nat
      /\ Cardinality(S) \in Nat
  BY FS_CardinalityType
<1>2. RankIn(S, k) \in Nat /\ RankIn(S, m) \in Nat
  <2>1. RankIn(S, k) \in 1..Cardinality(S) /\ RankIn(S, m) \in 1..Cardinality(S)
    BY RankBounds
  <2> QED
    BY <1>1, <2>1
<1>3. ASSUME k < m PROVE FALSE
  <2>1. RankIn(S, k) < RankIn(S, m)
    BY <1>3, RankGrows
  <2> QED
    BY <1>2, <2>1
<1>4. ASSUME m < k PROVE FALSE
  <2>1. RankIn(S, m) < RankIn(S, k)
    BY <1>4, RankGrows
  <2> QED
    BY <1>2, <2>1
<1> QED
  BY <1>1, <1>3, <1>4

\* Every number up to |S| is the rank of one element.
LEMMA RankOnto ==
    ASSUME NEW S, IsFiniteSet(S), S \subseteq Nat, NEW n \in 1..Cardinality(S)
    PROVE  \E k \in S : RankIn(S, k) = n
<1> DEFINE T == 1..Cardinality(S)
           f == [k \in S |-> RankIn(S, k)]
<1>1. Cardinality(S) \in Nat
  BY FS_CardinalityType
<1>2. IsFiniteSet(T) /\ Cardinality(T) = Cardinality(S)
  BY <1>1, FS_Interval
<1>3. f \in [S -> T]
  BY RankBounds
<1>4. ASSUME NEW k \in S, NEW m \in S, f[k] = f[m]
      PROVE  k = m
  <2>1. RankIn(S, k) = RankIn(S, m)
    BY <1>4
  <2> QED
    BY <2>1, RankInjective
<1>5. f \in Injection(S, T)
  BY <1>3, <1>4 DEF Injection, IsInjective
<1>6. f \in Surjection(S, T)
  <2> HIDE DEF T, f
  <2> QED
    BY <1>2, <1>5, FS_Injection
<1> QED
  BY <1>6 DEF Surjection

LEMMA NthElement ==
    ASSUME NEW S, IsFiniteSet(S), S \subseteq Nat, NEW n \in 1..Cardinality(S)
    PROVE  Nth(S, n) \in S /\ RankIn(S, Nth(S, n)) = n
<1>1. \E k \in S : RankIn(S, k) = n
  BY RankOnto
<1>2. Nth(S, n) = CHOOSE k \in S : RankIn(S, k) = n
  BY DEF Nth, RankIn, UpTo
<1> QED
  BY <1>1, <1>2

\* Nth(S, .) lists S, and in order.
LEMMA NthIncreases ==
    ASSUME NEW S, IsFiniteSet(S), S \subseteq Nat,
           NEW n \in 1..Cardinality(S), NEW m \in 1..Cardinality(S), n < m
    PROVE  Nth(S, n) < Nth(S, m)
<1>1. /\ Nth(S, n) \in S /\ RankIn(S, Nth(S, n)) = n
      /\ Nth(S, m) \in S /\ RankIn(S, Nth(S, m)) = m
  BY NthElement
<1>2. Cardinality(S) \in Nat /\ n \in Nat /\ m \in Nat
  BY FS_CardinalityType
<1>3. Nth(S, n) \in Nat /\ Nth(S, m) \in Nat
  BY <1>1
<1>4. Nth(S, n) # Nth(S, m)
  BY <1>1, <1>2
<1>5. ASSUME Nth(S, m) < Nth(S, n) PROVE FALSE
  <2>1. RankIn(S, Nth(S, m)) < RankIn(S, Nth(S, n))
    BY <1>1, <1>5, RankGrows
  <2> QED
    BY <1>1, <1>2, <2>1
<1> QED
  BY <1>3, <1>4, <1>5

LEMMA NthLists ==
    ASSUME NEW S, IsFiniteSet(S), S \subseteq Nat, NEW k \in S
    PROVE  \E n \in 1..Cardinality(S) : Nth(S, n) = k
<1>1. PICK n \in 1..Cardinality(S) : RankIn(S, k) = n
  BY RankBounds
<1>2. Nth(S, n) \in S /\ RankIn(S, Nth(S, n)) = n
  BY NthElement
<1> QED
  BY <1>1, <1>2, RankInjective

-----------------------------------------------------------------------------
(* Before and after an execution.                                          *)

LEMMA QuietExecution == Quiet /\ Given => Execution
<1> SUFFICES ASSUME Quiet, Given
             PROVE  Execution
  OBVIOUS
<1> USE DEF Quiet, Given
<1>1. Len(steps) = 0 /\ DOMAIN ended = {} /\ Len(out) = 0 /\ DOMAIN manifest = {}
  OBVIOUS
<1>2. Position /\ Planned /\ Grouped
  BY <1>1 DEF Position, Planned, Grouped
<1>3. Ending
  <2>1. Running = {}
    BY DEF Running
  <2>2. Cardinality(Running) = 0
    BY <2>1, FS_EmptySet
  <2>3. q.parallelism \in Nat
    BY RouterAssumption DEF Query
  <2> QED
    BY <1>1, <2>2, <2>3 DEF Ending, EffectiveParallelism
<1>4. Collected /\ Disk
  BY <1>1 DEF Collected, Disk
<1>5. Paging
  BY <1>1 DEF Paging
<1> QED
  BY <1>2, <1>3, <1>4, <1>5 DEF Execution

LEMMA InitIInv == Init => IInv
<1> SUFFICES ASSUME Init PROVE IInv
  OBVIOUS
<1>1. Quiet /\ Given
  BY DEF Init, Quiet, Given
<1>2. Execution
  BY <1>1, QuietExecution
<1>3. Control
  BY <1>1 DEF Init, Control, Quiet, Given
<1> QED
  BY <1>2, <1>3 DEF IInv

LEMMA EndingStays ==
    ASSUME Ending, UNCHANGED <<q, steps, i, started, ended>>
    PROVE  Ending'
<1>1. q' = q /\ steps' = steps /\ i' = i /\ started' = started /\ ended' = ended
  OBVIOUS
<1>2. Running' = Running
  BY <1>1 DEF Running
<1>3. \A k : HasNextPage(steps'[k]) = HasNextPage(steps[k])
  BY <1>1
<1>4. EffectiveParallelism(q') = EffectiveParallelism(q)
  BY <1>1
<1> QED
  BY <1>1, <1>2, <1>3, <1>4 DEF Ending

LEMMA CollectedStays ==
    ASSUME Collected, UNCHANGED <<out, i, steps>>,
           \A n \in 1..i : ended'[n].ok = ended[n].ok
    PROVE  Collected'
<1>1. out' = out /\ i' = i /\ steps' = steps
  OBVIOUS
<1>2. out' \in Seq([step : Step, ok : BOOLEAN]) /\ Len(out') = i'
  BY <1>1 DEF Collected
<1>3. \A n \in 1..i' : out'[n].step = steps'[n] /\ out'[n].ok = ended'[n].ok
  BY <1>1 DEF Collected
<1>4. ASSUME NEW n \in 1..i', NEW m \in 1..i', n < m, ~ended'[n].ok
      PROVE  steps'[n].group # "" /\ steps'[m].group = steps'[n].group
  <2>1. ~ended[n].ok
    BY <1>1, <1>4
  <2>2. steps[n].group # "" /\ steps[m].group = steps[n].group
    BY <1>1, <1>4, <2>1 DEF Collected
  <2> QED
    BY <1>1, <2>2
<1> QED
  BY <1>2, <1>3, <1>4 DEF Collected

LEMMA UnchangedExecution ==
    ASSUME Execution, UNCHANGED <<q, plan, execVars>>
    PROVE  Execution'
<1> USE DEF Execution, execVars
<1>1. (Position /\ Grouped)'
  BY DEF Position, Grouped, Batch
<1>2. Planned'
  BY DEF Planned, ValidStep, IsAllowed, UnmarshalsToMap, SchemaAccepts
<1>3. Ending'
  BY EndingStays
<1>4. Collected'
  BY CollectedStays
<1>5. Disk'
  BY DEF Disk
<1>6. Paging'
  BY DEF Paging, Follows
<1> QED
  BY <1>1, <1>2, <1>3, <1>4, <1>5, <1>6

LEMMA ReceiveKeeps ==
    ASSUME IInv, NEW r \in Queries, Receive(r)
    PROVE  IInv'
<1>1. Quiet /\ Quiet'
  BY DEF IInv, Control, Given, Receive, Quiet, execVars
<1>2. Given'
  BY RouterAssumption DEF IInv, Control, Given, Receive, Query
<1>3. Execution'
  BY <1>1, <1>2, QuietExecution, PTL
<1>4. Control'
  BY <1>1, <1>2 DEF IInv, Control, Given, Receive, Quiet
<1> QED
  BY <1>3, <1>4 DEF IInv

LEMMA ModelKeeps ==
    ASSUME IInv, (\E p \in Plans : ModelPlan(p)) \/ ModelFails
    PROVE  IInv'
<1>1. UNCHANGED <<q, plan, execVars>> => Execution'
  BY UnchangedExecution DEF IInv
<1>2. Quiet /\ Quiet'
  BY DEF IInv, Control, Given, ModelPlan, ModelFails, Quiet, execVars
<1>3. Given'
  BY RouterAssumption DEF IInv, Control, Given, ModelPlan, ModelFails
<1>4. Execution'
  BY <1>2, <1>3, QuietExecution, PTL
<1>5. Control'
  BY <1>2, <1>3 DEF IInv, Control, Given, ModelPlan, ModelFails, Quiet
<1> QED
  BY <1>4, <1>5 DEF IInv

LEMMA ReplyKeeps ==
    ASSUME IInv, Reply
    PROVE  IInv'
<1>1. Quiet'
  BY DEF Reply, Blank, Quiet
<1>2. Given'
  BY DEF IInv, Control, Given, Reply, Blank
<1>3. Execution'
  BY <1>1, <1>2, QuietExecution, PTL
<1>4. Control'
  BY <1>1, <1>2 DEF IInv, Control, Given, Reply, Blank, Quiet
<1> QED
  BY <1>3, <1>4 DEF IInv

LEMMA AnswerKeeps ==
    ASSUME IInv, (\E works \in BOOLEAN : Answer(works)) \/ Complete
    PROVE  IInv'
<1>1. UNCHANGED <<q, plan, execVars>>
  BY DEF Answer, Complete
<1>2. Execution'
  BY <1>1, UnchangedExecution DEF IInv
<1>3. Control'
  BY <1>1 DEF IInv, Control, Given, Answer, Complete, execVars
<1> QED
  BY <1>2, <1>3 DEF IInv

\* The steps an execution begins with are the plan's, each its own origin.
Fresh(p) == [n \in DOMAIN p |-> [p[n] EXCEPT !.origin = n]]

LEMMA FreshSteps ==
    ASSUME NEW p \in Seq(Step)
    PROVE  /\ Fresh(p) \in Seq(Step) /\ Len(Fresh(p)) = Len(p)
           /\ \A n \in 1..Len(p) :
                 /\ Fresh(p)[n] = [p[n] EXCEPT !.origin = n]
                 /\ Fresh(p)[n].name = p[n].name /\ Fresh(p)[n].source = p[n].source
                 /\ Fresh(p)[n].args = p[n].args /\ Fresh(p)[n].page = p[n].page
                 /\ Fresh(p)[n].origin = n /\ p[n].page \in Nat
<1>1. /\ Len(p) \in Nat /\ DOMAIN p = 1..Len(p)
      /\ \A n \in 1..Len(p) : p[n] \in Step
  OBVIOUS
<1>2. ASSUME NEW n \in 1..Len(p)
      PROVE  /\ Fresh(p)[n] = [p[n] EXCEPT !.origin = n]
             /\ Fresh(p)[n] \in Step
             /\ Fresh(p)[n].name = p[n].name /\ Fresh(p)[n].source = p[n].source
             /\ Fresh(p)[n].args = p[n].args /\ Fresh(p)[n].page = p[n].page
             /\ Fresh(p)[n].origin = n /\ p[n].page \in Nat
  BY <1>1 DEF Fresh, Step
<1>3. Fresh(p) \in [1..Len(p) -> Step]
  BY <1>1, <1>2 DEF Fresh
<1> QED
  BY <1>1, <1>2, <1>3

LEMMA ValidateKeeps ==
    ASSUME IInv, Validate
    PROVE  IInv'
<1> USE DEF IInv
<1>1. Quiet /\ Given /\ Given' /\ phase = "validate"
  BY DEF Control, Validate, Given
<1>2. CASE steps' = steps /\ phase' \in {"reply", "answer"}
  <2>1. UNCHANGED <<q, plan, execVars>>
    BY <1>2 DEF Validate, execVars
  <2>2. Execution'
    BY <2>1, UnchangedExecution
  <2>3. i = 0 /\ batch = 0 /\ i = Len(steps)
    BY <1>1 DEF Quiet
  <2>4. Control'
    BY <1>1, <1>2, <2>1, <2>3 DEF Control, Validate, execVars
  <2> QED
    BY <2>2, <2>4
<1>3. CASE phase' = "run" /\ steps' = Fresh(plan) /\ ValidatePlan(plan, PlanLimit)
  <2>1. /\ i' = 0 /\ batch' = 0 /\ started' = 0 /\ ended' = <<>> /\ out' = <<>>
        /\ manifest' = <<>> /\ stored' = {} /\ conts' = 0
        /\ q' = q /\ plan' = plan /\ answer' = answer
    BY <1>1 DEF Validate, Quiet
  <2>2. plan \in Seq(Step)
    BY <1>1 DEF Given
  <2>3. /\ steps' \in Seq(Step) /\ Len(steps') = Len(plan) /\ Len(plan) \in Nat
        /\ \A n \in 1..Len(plan) :
              /\ steps'[n] = [plan[n] EXCEPT !.origin = n]
              /\ steps'[n].name = plan[n].name /\ steps'[n].source = plan[n].source
              /\ steps'[n].args = plan[n].args /\ steps'[n].page = plan[n].page
              /\ steps'[n].origin = n /\ plan[n].page \in Nat
    BY <1>3, <2>2, FreshSteps
  <2>4. (Position /\ Grouped)'
    BY <2>1, <2>3 DEF Position, Grouped
  <2>5. Planned'
    <3>1. \A k \in 1..Len(plan) : ValidStep(plan[k])
      BY <1>3, <2>2 DEF ValidatePlan
    <3>2. ASSUME NEW k \in 1..Len(steps')
          PROVE  ValidStep(steps'[k])
      <4>1. /\ steps'[k].name = plan[k].name /\ steps'[k].source = plan[k].source
            /\ steps'[k].args = plan[k].args /\ ValidStep(plan[k])
        BY <2>3, <3>1
      <4> QED
        BY <4>1 DEF ValidStep
    <3> QED
      BY <2>1, <2>3, <3>2 DEF Planned
  <2>6. Ending'
    <3>1. Running' = {}
      BY <2>1 DEF Running
    <3>2. Cardinality(Running') = 0
      BY <3>1, FS_EmptySet
    <3>3. q'.parallelism \in Nat
      BY <1>1, RouterAssumption DEF Query, Given
    <3>4. DOMAIN ended' = {}
      BY <2>1
    <3> QED
      BY <2>1, <3>2, <3>3, <3>4 DEF Ending, EffectiveParallelism
  <2>7. (Collected /\ Disk)'
    <3>1. Len(out') = 0 /\ DOMAIN manifest' = {} /\ DOMAIN ended' = {}
      BY <2>1
    <3> QED
      BY <2>1, <3>1 DEF Collected, Disk
  <2>8. Paging'
    <3>1. \A k \in 1..Len(steps') :
             /\ steps'[k].origin = k /\ k \in 1..Len(plan')
             /\ steps'[k].name = plan'[k].name /\ steps'[k].page = plan'[k].page
             /\ plan'[k].page \in Nat
      BY <2>1, <2>3
    <3>2. 1..i' = {}
      BY <2>1
    <3>3. \A k \in 1..Len(steps') :
             /\ steps'[k].origin \in 1..Len(plan')
             /\ steps'[k].name = plan'[steps'[k].origin].name
             /\ steps'[k].page >= plan'[steps'[k].origin].page
             /\ ~ (steps'[k].page > plan'[steps'[k].origin].page)
      BY <3>1
    <3> QED
      BY <3>1, <3>2, <3>3 DEF Paging
  <2>9. Control'
    BY <1>1, <1>3, <2>1 DEF Control, Given
  <2> QED
    BY <2>4, <2>5, <2>6, <2>7, <2>8, <2>9 DEF Execution
<1> QED
  BY <1>2, <1>3 DEF Validate, Fresh

-----------------------------------------------------------------------------
(* The goroutines of a batch.                                              *)

LEMMA GroupEndBounds ==
    ASSUME Position, NEW k \in 1..Len(steps)
    PROVE  /\ GroupEnd(k) \in k..Len(steps)
           /\ GroupEnd(k) = k \/ /\ steps[k].group # ""
                                 /\ \A m \in k..GroupEnd(k) : SameGroup(k, m)
<1>1. Len(steps) \in Nat /\ k \in Nat /\ k <= Len(steps)
  BY DEF Position
<1>2. CASE /\ steps[k].group # "" /\ EffectiveParallelism(q) > 1
           /\ steps[k].source = "local"
  <2> DEFINE Closes(j) == j < Len(steps) => ~SameGroup(k, j + 1)
             S == {j \in k..Len(steps) : Closes(j)}
  <2>1. Len(steps) \in S /\ S \subseteq Nat
    BY <1>1
  <2>2. PICK j \in S : \A m \in S : j <= m
    <3> HIDE DEF S
    <3> QED
      BY <2>1, LeastElement
  <2>3. \A m \in k..j : SameGroup(k, m)
    <3>1. SameGroup(k, k)
      BY <1>2 DEF SameGroup
    <3>2. ASSUME NEW m \in k..j, m # k
          PROVE  SameGroup(k, m)
      <4>1. j \in k..Len(steps) /\ m - 1 \in k..Len(steps) /\ m - 1 < j
        BY <1>1, <3>2
      <4>2. m - 1 \notin S
        <5>1. ~ (j <= m - 1) /\ m \in Nat /\ j \in Nat
          BY <4>1, <1>1
        <5> HIDE DEF S
        <5> QED
          BY <2>2, <5>1
      <4>3. ~Closes(m - 1)
        BY <4>1, <4>2
      <4> QED
        BY <4>1, <4>3, <1>1
    <3> QED
      BY <3>1, <3>2
  <2>4. \E x \in k..Len(steps) :
           /\ \A m \in k..x : SameGroup(k, m)
           /\ x < Len(steps) => ~SameGroup(k, x + 1)
    BY <2>2, <2>3
  <2>5. GroupEnd(k) = CHOOSE x \in k..Len(steps) :
                         /\ \A m \in k..x : SameGroup(k, m)
                         /\ x < Len(steps) => ~SameGroup(k, x + 1)
    BY <1>2 DEF GroupEnd, InParallel
  <2> QED
    BY <1>2, <2>4, <2>5
<1>3. CASE ~ (/\ steps[k].group # "" /\ EffectiveParallelism(q) > 1
              /\ steps[k].source = "local")
  <2>1. GroupEnd(k) = k
    BY <1>3 DEF GroupEnd, InParallel
  <2> QED
    BY <2>1, <1>1
<1> QED
  BY <1>2, <1>3

LEMMA DispatchKeeps ==
    ASSUME IInv, Dispatch
    PROVE  IInv'
<1> USE DEF IInv, Execution
<1>1. /\ UNCHANGED <<phase, q, plan, steps, i, ended, out, manifest, stored, conts, answer>>
      /\ phase = "run" /\ batch = 0 /\ started = 0 /\ started' = 0
      /\ batch' = GroupEnd(i + 1) - i
      /\ i \in Nat /\ Len(steps) \in Nat /\ i + 1 \in 1..Len(steps)
  BY DEF Dispatch, Position
<1>2. /\ GroupEnd(i + 1) \in (i + 1)..Len(steps)
      /\ GroupEnd(i + 1) = i + 1 \/ /\ steps[i + 1].group # ""
                                    /\ \A m \in (i + 1)..GroupEnd(i + 1) : SameGroup(i + 1, m)
  BY <1>1, GroupEndBounds
<1>3. /\ batch' \in Nat /\ i + batch' = GroupEnd(i + 1)
      /\ i + batch' <= Len(steps)
  <2>1. PICK e \in (i + 1)..Len(steps) : e = GroupEnd(i + 1)
    BY <1>2
  <2>2. i \in Nat /\ Len(steps) \in Nat /\ batch' = e - i
    BY <1>1, <2>1
  <2>3. batch' \in Nat /\ i + batch' = e /\ i + batch' <= Len(steps)
    BY <2>2
  <2> QED
    BY <2>1, <2>3
<1>4. Position'
  <2>1. steps' = steps /\ i' = i /\ conts' = conts
    BY <1>1
  <2> QED
    BY <1>1, <1>3, <2>1 DEF Position
<1>5. Grouped'
  <2>1. CASE GroupEnd(i + 1) = i + 1
    <3>1. batch' = 1
      BY <1>1, <1>3, <2>1
    <3>2. ~ (batch' > 1)
      BY <3>1
    <3> QED
      BY <3>2 DEF Grouped
  <2>2. CASE GroupEnd(i + 1) # i + 1
    <3>1. Batch' = (i + 1)..GroupEnd(i + 1)
      BY <1>1, <1>3 DEF Batch
    <3>2. \A k \in Batch' : /\ steps[k].group = steps[i + 1].group
                            /\ steps[k].group # "" /\ steps[k].source = "local"
      BY <1>2, <2>2, <3>1 DEF SameGroup
    <3> QED
      BY <1>1, <3>2 DEF Grouped
  <2> QED
    BY <2>1, <2>2
<1>6. Planned'
  BY <1>1 DEF Planned, ValidStep, IsAllowed, UnmarshalsToMap, SchemaAccepts
<1>7. Ending'
  BY <1>1, EndingStays
<1>8. Collected'
  BY <1>1, CollectedStays
<1>9. Disk'
  BY <1>1 DEF Disk
<1>10. Paging'
  BY <1>1 DEF Paging, Follows
<1>11. Control'
  BY <1>1 DEF Control, Given
<1> QED
  BY <1>4, <1>5, <1>6, <1>7, <1>8, <1>9, <1>10, <1>11

LEMMA RunningFinite == Position => IsFiniteSet(Running) /\ Cardinality(Running) \in Nat
<1> SUFFICES ASSUME Position PROVE IsFiniteSet(Running) /\ Cardinality(Running) \in Nat
  OBVIOUS
<1>1. i + 1 \in Int /\ i + started \in Int
  BY DEF Position
<1>2. IsFiniteSet((i + 1)..(i + started))
  BY <1>1, FS_Interval
<1>3. Running \in SUBSET ((i + 1)..(i + started))
  BY DEF Running
<1> QED
  BY <1>2, <1>3, FS_Subset, FS_CardinalityType

LEMMA StartKeeps ==
    ASSUME IInv, StartStep
    PROVE  IInv'
<1> USE DEF IInv, Execution
<1>1. /\ UNCHANGED <<phase, q, plan, steps, i, batch, ended, out, manifest, stored, conts,
                     answer>>
      /\ phase = "run" /\ started' = started + 1 /\ started < batch
      /\ i \in Nat /\ started \in Nat /\ batch \in Nat
  BY DEF StartStep, Position
<1>2. Position'
  BY <1>1 DEF Position
<1>3. Grouped'
  BY <1>1 DEF Grouped, Batch
<1>4. Planned'
  BY <1>1 DEF Planned, ValidStep, IsAllowed, UnmarshalsToMap, SchemaAccepts
<1>5. Ending'
  <2>1. Running' = Running \cup {i + started + 1}
    BY <1>1 DEF Running, Ending
  <2>2. IsFiniteSet(Running) /\ Cardinality(Running) \in Nat
    BY RunningFinite
  <2>3. Cardinality(Running') <= Cardinality(Running) + 1 /\ Cardinality(Running') \in Nat
    BY <2>1, <2>2, FS_AddElement
  <2>4. q.parallelism \in Nat
    BY RouterAssumption DEF Control, Given, Query
  <2>5. Cardinality(Running) < EffectiveParallelism(q) /\ EffectiveParallelism(q) \in Nat
    BY <2>4 DEF StartStep, BelowLimit, EffectiveParallelism
  <2>6. Cardinality(Running') <= EffectiveParallelism(q')
    <3>1. EffectiveParallelism(q') = EffectiveParallelism(q)
      BY <1>1
    <3> QED
      BY <2>2, <2>3, <2>5, <3>1
  <2>7. 1..(i + started) \subseteq 1..(i + started')
    BY <1>1
  <2>8. /\ 1..i' \subseteq DOMAIN ended' /\ DOMAIN ended' \subseteq 1..(i' + started')
        /\ \A k \in DOMAIN ended' :
              /\ ended'[k] \in [ok : BOOLEAN, artifact : BOOLEAN, next : BOOLEAN]
              /\ ended'[k].next => HasNextPage(steps'[k]) /\ ~q'.cut
              /\ ended'[k].ok /\ HasNextPage(steps'[k]) /\ ~q'.cut => ended'[k].next
    <3>1. \A k : HasNextPage(steps'[k]) = HasNextPage(steps[k])
      BY <1>1
    <3>2. i' = i /\ ended' = ended /\ q' = q
      BY <1>1
    <3> QED
      BY <2>7, <3>1, <3>2 DEF Ending
  <2> QED
    BY <2>6, <2>8 DEF Ending
<1>6. Collected'
  BY <1>1, CollectedStays
<1>7. Disk'
  BY <1>1 DEF Disk
<1>8. Paging'
  BY <1>1 DEF Paging, Follows
<1>9. Control'
  BY <1>1 DEF Control, Given
<1> QED
  BY <1>2, <1>3, <1>4, <1>5, <1>6, <1>7, <1>8, <1>9

LEMMA FinishKeeps ==
    ASSUME IInv, NEW k \in Running, NEW ok \in BOOLEAN, NEW artifact \in BOOLEAN,
           NEW parsed \in BOOLEAN, FinishStep(k, ok, artifact, parsed)
    PROVE  IInv'
<1> USE DEF IInv, Execution
<1>1. /\ UNCHANGED <<phase, q, plan, steps, i, batch, started, out, manifest, conts, answer>>
      /\ i \in Nat /\ started \in Nat /\ batch \in Nat
      /\ k \in (i + 1)..(i + started) /\ k \notin DOMAIN ended
  BY DEF FinishStep, Position, Running
<1>2. /\ DOMAIN ended' = DOMAIN ended \cup {k}
      /\ ended'[k] = Ended(steps[k], ok, artifact, parsed)
      /\ \A m \in DOMAIN ended : ended'[m] = ended[m]
  BY <1>1 DEF FinishStep
<1>3. /\ ended'[k] \in [ok : BOOLEAN, artifact : BOOLEAN, next : BOOLEAN]
      /\ ended'[k].ok = ok /\ ended'[k].artifact = artifact
      /\ ended'[k].next <=> parsed /\ HasNextPage(steps[k]) /\ ~q.cut
      /\ ok => parsed
  <2>1. q.cut \in BOOLEAN
    BY RouterAssumption DEF Control, Given, Query
  <2>2. HasNextPage(steps[k]) \in BOOLEAN
    BY DEF HasNextPage
  <2>3. ended'[k] = [ok |-> ok, artifact |-> artifact,
                     next |-> parsed /\ HasNextPage(steps[k]) /\ ~q.cut]
    BY <1>2 DEF Ended
  <2>4. (parsed /\ HasNextPage(steps[k]) /\ ~q.cut) \in BOOLEAN
    BY <2>1, <2>2
  <2>5. PICK next \in BOOLEAN : next = (parsed /\ HasNextPage(steps[k]) /\ ~q.cut)
    BY <2>4
  <2>6. ended'[k] = [ok |-> ok, artifact |-> artifact, next |-> next]
    BY <2>3, <2>5, Zenon
  <2>7. /\ ended'[k] \in [ok : BOOLEAN, artifact : BOOLEAN, next : BOOLEAN]
        /\ ended'[k].ok = ok /\ ended'[k].artifact = artifact /\ ended'[k].next = next
    BY <2>6
  <2>8. ok => parsed
    BY DEF FinishStep
  <2> QED
    BY <2>5, <2>7, <2>8, Zenon
<1>4. \A n \in 1..i : n \in DOMAIN ended /\ ended'[n] = ended[n]
  BY <1>2 DEF Ending
<1>5. (Position /\ Grouped)'
  BY <1>1 DEF Position, Grouped, Batch
<1>6. Planned'
  BY <1>1 DEF Planned, ValidStep, IsAllowed, UnmarshalsToMap, SchemaAccepts
<1>7. Ending'
  <2>1. Running' \in SUBSET Running
    BY <1>1, <1>2 DEF Running
  <2>2. IsFiniteSet(Running) /\ Cardinality(Running) \in Nat
    BY RunningFinite
  <2>3. Cardinality(Running') <= Cardinality(Running) /\ Cardinality(Running') \in Nat
    BY <2>1, <2>2, FS_Subset, FS_CardinalityType
  <2>4. q.parallelism \in Nat
    BY RouterAssumption DEF Control, Given, Query
  <2>5. EffectiveParallelism(q) \in Nat
    BY <2>4 DEF EffectiveParallelism
  <2>6. Cardinality(Running') <= EffectiveParallelism(q')
    <3>1. EffectiveParallelism(q') = EffectiveParallelism(q)
      BY <1>1
    <3> QED
      BY <2>2, <2>3, <2>5, <3>1 DEF Ending
  <2>7. 1..i \subseteq DOMAIN ended' /\ DOMAIN ended' \subseteq 1..(i + started)
    BY <1>1, <1>2 DEF Ending
  <2>8. \A m \in DOMAIN ended' :
           /\ ended'[m] \in [ok : BOOLEAN, artifact : BOOLEAN, next : BOOLEAN]
           /\ ended'[m].next => HasNextPage(steps[m]) /\ ~q.cut
           /\ ended'[m].ok /\ HasNextPage(steps[m]) /\ ~q.cut => ended'[m].next
    BY <1>2, <1>3 DEF Ending
  <2>9. \A m : HasNextPage(steps'[m]) = HasNextPage(steps[m])
    BY <1>1
  <2> QED
    BY <1>1, <2>6, <2>7, <2>8, <2>9 DEF Ending
<1>8. Collected'
  BY <1>1, <1>4, CollectedStays
<1>9. Disk'
  <2>1. {n \in 1..i : ended'[n].artifact} = {n \in 1..i : ended[n].artifact}
    BY <1>4
  <2>2. stored' = IF artifact THEN stored \cup {k} ELSE stored
    BY DEF FinishStep
  <2>3. {m \in DOMAIN ended' : ended'[m].artifact} =
           IF artifact THEN {m \in DOMAIN ended : ended[m].artifact} \cup {k}
                       ELSE {m \in DOMAIN ended : ended[m].artifact}
    BY <1>2, <1>3
  <2> QED
    BY <1>1, <2>1, <2>2, <2>3 DEF Disk
<1>10. Paging'
  BY <1>1, <1>4 DEF Paging, Follows
<1>11. Control'
  <2>1. phase \notin {"idle", "model", "validate"}
    <3>1. batch # 0
      BY <1>1 DEF Position
    <3> QED
      BY <3>1 DEF Control
  <2> QED
    BY <1>1, <1>4, <2>1 DEF Control, Given
<1> QED
  BY <1>5, <1>6, <1>7, <1>8, <1>9, <1>10, <1>11

-----------------------------------------------------------------------------
(* The end of a batch.                                                     *)

LEMMA SuccessorInjective == \A m, n \in Nat : m + 1 = n + 1 => m = n
OBVIOUS

LEMMA Concatenation ==
    ASSUME NEW T, NEW s \in Seq(T), NEW t \in Seq(T)
    PROVE  /\ s \o t \in Seq(T) /\ Len(s \o t) = Len(s) + Len(t)
           /\ Len(s) \in Nat /\ Len(t) \in Nat
           /\ \A n \in 1..Len(s) : (s \o t)[n] = s[n]
           /\ \A n \in (Len(s) + 1)..(Len(s) + Len(t)) : (s \o t)[n] = t[n - Len(s)]
OBVIOUS

LEMMA ContinuationFields ==
    ASSUME NEW s \in Step
    PROVE  /\ Continuation(s) \in Step
           /\ Continuation(s).name = s.name /\ Continuation(s).source = s.source
           /\ Continuation(s).args = s.args /\ Continuation(s).origin = s.origin
           /\ Continuation(s).page = s.page + 1
           /\ s.page \in Nat /\ s.origin \in Nat
<1>1. s.page \in Nat \ {0} /\ s.page + 1 \in Nat \ {0} /\ s.origin \in Nat
  BY DEF Step
<1> DEFINE t == [s EXCEPT !.page = s.page + 1]
<1>2. /\ t \in Step /\ t.name = s.name /\ t.source = s.source /\ t.args = s.args
      /\ t.origin = s.origin /\ t.page = s.page + 1
  BY <1>1 DEF Step
<1>3. Continuation(s) = [t EXCEPT !.group = ""]
  BY DEF Continuation
<1> HIDE DEF t
<1>4. [t EXCEPT !.group = ""] \in Step
  <2>1. "" \in Group
    BY DEF Group
  <2> QED
    BY <1>2, <2>1 DEF Step
<1>5. /\ [t EXCEPT !.group = ""].name = t.name /\ [t EXCEPT !.group = ""].source = t.source
      /\ [t EXCEPT !.group = ""].args = t.args /\ [t EXCEPT !.group = ""].origin = t.origin
      /\ [t EXCEPT !.group = ""].page = t.page
  BY <1>2 DEF Step
<1> QED
  BY <1>1, <1>2, <1>3, <1>4, <1>5

\* All that a batch that has ended is made of.
LEMMA BatchEnded ==
    ASSUME IInv, Collect
    PROVE  /\ DOMAIN ended = 1..(i + batch) /\ Batch \subseteq 1..Len(steps)
           /\ i \in Nat /\ batch \in Nat /\ Len(steps) \in Nat /\ i + batch <= Len(steps)
           /\ IsFiniteSet(Announcing) /\ Announcing \subseteq Batch
           /\ IsFiniteSet(Granted) /\ Granted \subseteq Announcing
           /\ IsFiniteSet(Listed) /\ Listed \subseteq Batch
           /\ Batch \subseteq Nat /\ phase = "run"
<1> USE DEF IInv, Execution
<1>1. /\ i \in Nat /\ batch \in Nat /\ Len(steps) \in Nat /\ i + batch <= Len(steps)
      /\ started = batch /\ Running = {} /\ phase = "run"
  BY DEF Collect, Position
<1>2. Batch \subseteq 1..Len(steps) /\ Batch \subseteq Nat /\ IsFiniteSet(Batch)
  <2>1. i + 1 \in Int /\ i + batch \in Int
    BY <1>1
  <2>2. IsFiniteSet(Batch)
    BY <2>1, FS_Interval DEF Batch
  <2>3. Batch \subseteq 1..Len(steps) /\ Batch \subseteq Nat
    <3>1. (i + 1)..(i + batch) \subseteq 1..Len(steps)
      BY <1>1
    <3>2. 1..Len(steps) \subseteq Nat
      BY <1>1
    <3> QED
      BY <3>1, <3>2 DEF Batch
  <2> QED
    BY <2>2, <2>3
<1>3. DOMAIN ended = 1..(i + batch)
  <2>1. \A k \in (i + 1)..(i + batch) : k \in DOMAIN ended
    BY <1>1 DEF Running
  <2>2. 1..i \subseteq DOMAIN ended /\ DOMAIN ended \subseteq 1..(i + batch)
    BY <1>1 DEF Ending
  <2>3. \A k \in 1..(i + batch) : k \in 1..i \/ k \in (i + 1)..(i + batch)
    BY <1>1
  <2> QED
    BY <2>1, <2>2, <2>3
<1>4. /\ Announcing \in SUBSET Batch /\ Granted \in SUBSET Announcing
      /\ Listed \in SUBSET Batch
  BY DEF Announcing, Granted, Listed
<1>5. IsFiniteSet(Announcing) /\ IsFiniteSet(Listed)
  BY <1>2, <1>4, FS_Subset
<1>6. IsFiniteSet(Granted)
  BY <1>4, <1>5, FS_Subset
<1> QED
  BY <1>1, <1>2, <1>3, <1>4, <1>5, <1>6

\* As long as the limit is not reached, every announced page is granted.
LEMMA LimitNotReached ==
    ASSUME IsFiniteSet(Announcing), Announcing \subseteq Nat, conts \in Nat,
           conts + Cardinality(Granted) < MaxContinuations
    PROVE  Granted = Announcing
<1>1. Granted \in SUBSET Announcing
  BY DEF Granted
<1>2. IsFiniteSet(Granted)
  BY <1>1, FS_Subset
<1>3. Cardinality(Granted) \in Nat /\ MaxContinuations \in Nat
  BY <1>2, FS_CardinalityType, RouterAssumption
<1> DEFINE Refused == Announcing \ Granted
<1>4. ASSUME Refused # {} PROVE FALSE
  <2>1. PICK k \in Refused : \A m \in Refused : k <= m
    <3>1. Refused \subseteq Nat
      OBVIOUS
    <3> HIDE DEF Refused
    <3> QED
      BY <1>4, <3>1, LeastElement
  <2>2. k \in Announcing /\ k \in Nat /\ k \notin Granted
    OBVIOUS
  <2>3. {m \in Announcing : m < k} \in SUBSET Granted
    <3>1. ASSUME NEW m \in Announcing, m < k
          PROVE  m \in Granted
      <4>1. m \in Nat /\ ~ (k <= m)
        BY <3>1, <2>2
      <4>2. m \notin Refused
        BY <2>1, <4>1
      <4> QED
        BY <3>1, <4>2
    <3> QED
      BY <3>1
  <2>4. /\ IsFiniteSet({m \in Announcing : m < k})
        /\ Cardinality({m \in Announcing : m < k}) <= Cardinality(Granted)
    BY <1>2, <2>3, FS_Subset
  <2>5. Rank(k) <= Cardinality(Granted) /\ Rank(k) \in Nat
    BY <2>4, FS_CardinalityType DEF Rank
  <2>6. conts + Rank(k) < MaxContinuations
    BY <1>3, <2>5
  <2> QED
    BY <2>2, <2>6 DEF Granted, WithinLimit
<1> QED
  BY <1>1, <1>4

\* The steps appended, and the step of the batch each continues.
Added == (Len(steps) + 1)..(Len(steps) + Cardinality(Granted))
From(m) == Nth(Granted, m - Len(steps))

LEMMA AddedSteps ==
    ASSUME IInv, Collect
    PROVE  /\ steps' \in Seq(Step) /\ Cardinality(Granted) \in Nat
           /\ Len(steps') = Len(steps) + Cardinality(Granted)
           /\ \A m \in 1..Len(steps') : m \in 1..Len(steps) \/ m \in Added
           /\ \A m \in Added : m \in 1..Len(steps') /\ m \notin 1..Len(steps)
           /\ \A m \in 1..Len(steps) : steps'[m] = steps[m] /\ m \in 1..Len(steps')
           /\ \A m \in Added : /\ From(m) \in Granted
                               /\ steps'[m] = Continuation(steps[From(m)])
           /\ \A m, l \in Added : From(m) = From(l) => m = l
           /\ \A k \in Granted : \E m \in Added : From(m) = k
<1> DEFINE G == Cardinality(Granted)
<1>1. /\ IsFiniteSet(Granted) /\ Granted \subseteq Nat /\ Granted \subseteq 1..Len(steps)
      /\ Len(steps) \in Nat
  BY BatchEnded
<1>2. steps \in Seq(Step)
  BY DEF IInv, Execution, Position
<1>3. G \in Nat
  BY <1>1, FS_CardinalityType
<1>4. \A n \in 1..G : Nth(Granted, n) \in Granted /\ RankIn(Granted, Nth(Granted, n)) = n
  BY <1>1, NthElement
<1>5. /\ Continued \in Seq(Step) /\ Len(Continued) = G
      /\ \A n \in 1..G : Continued[n] = Continuation(steps[Nth(Granted, n)])
  <2>1. ASSUME NEW n \in 1..G
        PROVE  Continuation(steps[Nth(Granted, n)]) \in Step
    <3>1. PICK k \in 1..Len(steps) : k = Nth(Granted, n)
      BY <1>1, <1>4
    <3>2. steps[k] \in Step
      BY <1>2
    <3> QED
      BY <3>1, <3>2, ContinuationFields
  <2>2. Continued = [n \in 1..G |-> Continuation(steps[Nth(Granted, n)])]
    BY DEF Continued
  <2> QED
    BY <1>3, <2>1, <2>2
<1>6. steps' = steps \o Continued
  BY DEF Collect, Extended
<1>7. /\ steps' \in Seq(Step) /\ Len(steps') = Len(steps) + G
      /\ \A m \in 1..Len(steps) : steps'[m] = steps[m]
      /\ \A m \in (Len(steps) + 1)..(Len(steps) + G) : steps'[m] = Continued[m - Len(steps)]
  <2> DEFINE t == Continued
  <2>1. t \in Seq(Step) /\ Len(t) = G
    BY <1>5
  <2> HIDE DEF t, G
  <2>2. /\ steps \o t \in Seq(Step) /\ Len(steps \o t) = Len(steps) + Len(t)
        /\ \A m \in 1..Len(steps) : (steps \o t)[m] = steps[m]
        /\ \A m \in (Len(steps) + 1)..(Len(steps) + Len(t)) : (steps \o t)[m] = t[m - Len(steps)]
    BY <1>2, <2>1, Concatenation
  <2>3. steps' = steps \o t
    BY <1>6 DEF t
  <2> QED
    BY <2>1, <2>2, <2>3 DEF t
<1>8. \A m \in Added : m - Len(steps) \in 1..G /\ m \in Nat
  BY <1>1, <1>3 DEF Added
<1>9. \A m \in Added : From(m) \in Granted /\ steps'[m] = Continuation(steps[From(m)])
  BY <1>4, <1>5, <1>7, <1>8 DEF From, Added
<1>10. ASSUME NEW m \in Added, NEW l \in Added, From(m) = From(l)
       PROVE  m = l
  <2>1. m - Len(steps) = l - Len(steps)
    BY <1>4, <1>8, <1>10 DEF From
  <2> QED
    BY <1>1, <1>8, <2>1
<1>11. ASSUME NEW k \in Granted
       PROVE  \E m \in Added : From(m) = k
  <2>1. PICK n \in 1..G : Nth(Granted, n) = k
    BY <1>1, NthLists
  <2>2. Len(steps) + n \in Added /\ (Len(steps) + n) - Len(steps) = n
    BY <1>1, <1>3 DEF Added
  <2>3. From(Len(steps) + n) = k
    BY <2>1, <2>2 DEF From
  <2> QED
    BY <2>2, <2>3
<1>12. /\ \A m \in 1..Len(steps') : m \in 1..Len(steps) \/ m \in Added
       /\ \A m \in Added : m \in 1..Len(steps') /\ m \notin 1..Len(steps)
       /\ \A m \in 1..Len(steps) : m \in 1..Len(steps')
  BY <1>1, <1>3, <1>7 DEF Added
<1> QED
  BY <1>3, <1>7, <1>9, <1>10, <1>11, <1>12

\* Uniqueness of the pages: no step asks yet for the page after one that is being
\* collected, since a collected step would have announced it.
LEMMA NotYetFollowed ==
    ASSUME IInv, Collect, NEW k \in Batch, NEW m \in 1..Len(steps), Follows(m, k)
    PROVE  FALSE
<1> USE DEF IInv, Execution
<1>1. /\ Batch \subseteq 1..Len(steps) /\ i \in Nat /\ batch \in Nat /\ Len(steps) \in Nat
      /\ i + batch <= Len(steps)
  BY BatchEnded
<1>2. k \in 1..Len(steps) /\ i < k
  BY <1>1 DEF Batch
<1>3. /\ steps[k] \in Step /\ steps[m] \in Step
  BY <1>2 DEF Position
<1>4. /\ steps[k].page \in Nat /\ steps[m].page \in Nat
  BY <1>3, ContinuationFields
<1>5. /\ steps[m].origin = steps[k].origin /\ steps[m].page = steps[k].page + 1
      /\ steps[k].origin \in 1..Len(plan)
      /\ steps[k].page >= plan[steps[k].origin].page
  <2>1. steps[m].origin = steps[k].origin /\ steps[m].page = steps[k].page + 1
    BY DEF Follows
  <2>2. steps[k].origin \in 1..Len(plan) /\ steps[k].page >= plan[steps[k].origin].page
    BY <1>2 DEF Paging
  <2> QED
    BY <2>1, <2>2
<1>6. plan[steps[k].origin].page \in Nat
  <2>1. plan[steps[k].origin] \in Step
    BY <1>5 DEF Control, Given
  <2> QED
    BY <2>1, ContinuationFields
<1>7. steps[m].page > plan[steps[m].origin].page
  <2>1. PICK x \in Nat : x = plan[steps[k].origin].page
    BY <1>6
  <2>2. steps[k].page >= x /\ plan[steps[m].origin].page = x
    BY <1>5, <2>1
  <2>3. steps[m].page > x
    BY <1>4, <1>5, <2>2
  <2> QED
    BY <2>2, <2>3
<1>8. PICK l \in 1..i : Follows(m, l)
  BY <1>7 DEF Paging
<1>9. /\ l \in 1..Len(steps) /\ steps[l].origin = steps[k].origin
      /\ steps[l].page + 1 = steps[k].page + 1
  <2>1. l \in 1..Len(steps)
    BY <1>1
  <2>2. steps[m].origin = steps[l].origin /\ steps[m].page = steps[l].page + 1
    BY <1>8 DEF Follows
  <2> QED
    BY <1>5, <2>1, <2>2
<1>10. steps[l].page \in Nat
  <2>1. steps[l] \in Step
    BY <1>9 DEF Position
  <2> QED
    BY <2>1, ContinuationFields
<1>11. steps[l].page = steps[k].page
  BY <1>4, <1>9, <1>10, SuccessorInjective
<1>12. l = k
  BY <1>2, <1>9, <1>11 DEF Paging
<1> QED
  BY <1>1, <1>2, <1>12

LEMMA CollectPaging ==
    ASSUME IInv, Collect
    PROVE  Paging'
<1> USE DEF IInv, Execution
<1> DEFINE G == Cardinality(Granted)
<1>1. /\ Batch \subseteq 1..Len(steps) /\ i \in Nat /\ batch \in Nat /\ Len(steps) \in Nat
      /\ i + batch <= Len(steps)
      /\ Announcing \subseteq Batch /\ Granted \subseteq Announcing
      /\ IsFiniteSet(Announcing) /\ Batch \subseteq Nat
  BY BatchEnded
<1>2. /\ i' = i + batch /\ plan' = plan /\ ended' = ended /\ conts' = conts + G
  BY DEF Collect, NextStep
<1>3. /\ G \in Nat
      /\ \A m \in 1..Len(steps') : m \in 1..Len(steps) \/ m \in Added
      /\ \A m \in Added : m \in 1..Len(steps') /\ m \notin 1..Len(steps)
      /\ \A m \in 1..Len(steps) : steps'[m] = steps[m] /\ m \in 1..Len(steps')
      /\ \A m \in Added : /\ From(m) \in Granted
                          /\ steps'[m] = Continuation(steps[From(m)])
      /\ \A m, l \in Added : From(m) = From(l) => m = l
      /\ \A k \in Granted : \E m \in Added : From(m) = k
  BY AddedSteps
<1>4. \A m \in 1..i : m \in 1..i'
  BY <1>1, <1>2
<1>5. \A k \in Batch : k \in 1..i' /\ k \in 1..Len(steps)
  BY <1>1, <1>2 DEF Batch
<1>6. \A k \in 1..i' : k \in 1..i \/ k \in Batch
  BY <1>1, <1>2 DEF Batch
<1>7. ASSUME NEW m \in Added
      PROVE  /\ From(m) \in Batch /\ From(m) \in 1..Len(steps)
             /\ steps'[m].name = steps[From(m)].name
             /\ steps'[m].origin = steps[From(m)].origin
             /\ steps'[m].page = steps[From(m)].page + 1 /\ steps[From(m)].page \in Nat
  <2>1. PICK k \in Batch : k = From(m)
    BY <1>1, <1>3
  <2>2. steps[k] \in Step
    BY <1>5 DEF Position
  <2> QED
    BY <1>3, <1>5, <2>1, <2>2, ContinuationFields
<1>8. ASSUME NEW k \in 1..Len(steps')
      PROVE  /\ steps'[k].origin \in 1..Len(plan)
             /\ steps'[k].name = plan[steps'[k].origin].name
             /\ steps'[k].page >= plan[steps'[k].origin].page
             /\ steps'[k].page > plan[steps'[k].origin].page => \E m \in 1..i' : Follows(k, m)'
  <2>1. CASE k \in 1..Len(steps)
    <3>1. steps'[k] = steps[k]
      BY <1>3, <2>1
    <3>2. ASSUME steps[k].page > plan[steps[k].origin].page
          PROVE  \E m \in 1..i' : Follows(k, m)'
      <4>1. PICK m \in 1..i : Follows(k, m)
        BY <2>1, <3>2 DEF Paging
      <4>2. m \in 1..i' /\ steps'[m] = steps[m]
        BY <1>1, <1>3, <1>4
      <4> QED
        BY <3>1, <4>1, <4>2 DEF Follows
    <3> QED
      BY <2>1, <3>1, <3>2 DEF Paging
  <2>2. CASE k \in Added
    <3>1. PICK l \in Batch : l = From(k)
      BY <1>7, <2>2
    <3>2. /\ steps'[k].name = steps[l].name /\ steps'[k].origin = steps[l].origin
          /\ steps'[k].page = steps[l].page + 1 /\ steps[l].page \in Nat
          /\ l \in 1..Len(steps) /\ l \in 1..i' /\ steps'[l] = steps[l]
      BY <1>3, <1>5, <1>7, <2>2, <3>1
    <3>3. /\ steps[l].origin \in 1..Len(plan)
          /\ steps[l].name = plan[steps[l].origin].name
          /\ steps[l].page >= plan[steps[l].origin].page
      BY <3>2 DEF Paging
    <3>4. plan[steps[l].origin].page \in Nat
      <4>1. plan[steps[l].origin] \in Step
        BY <3>3 DEF Control, Given
      <4> QED
        BY <4>1, ContinuationFields
    <3>5. Follows(k, l)'
      BY <3>2 DEF Follows
    <3> QED
      BY <3>2, <3>3, <3>4, <3>5
  <2> QED
    BY <1>3, <2>1, <2>2
<1>9. ASSUME NEW k \in 1..Len(steps'), NEW m \in 1..Len(steps'),
             steps'[k].origin = steps'[m].origin, steps'[k].page = steps'[m].page
      PROVE  k = m
  <2>1. CASE k \in 1..Len(steps) /\ m \in 1..Len(steps)
    BY <1>3, <1>9, <2>1 DEF Paging
  <2>2. ASSUME NEW x \in Added, NEW y \in 1..Len(steps),
               steps'[x].origin = steps'[y].origin, steps'[x].page = steps'[y].page
        PROVE  FALSE
    <3>1. PICK l \in Batch : l = From(x)
      BY <1>7
    <3>2. steps'[x].origin = steps[l].origin /\ steps'[x].page = steps[l].page + 1
      BY <1>7, <3>1
    <3>3. steps'[y] = steps[y]
      BY <1>3
    <3>4. Follows(y, l)
      BY <2>2, <3>2, <3>3 DEF Follows
    <3> QED
      BY <3>4, NotYetFollowed
  <2>3. CASE k \in Added /\ m \in Added
    <3>1. PICK l \in Batch : l = From(k)
      BY <1>7, <2>3
    <3>2. PICK h \in Batch : h = From(m)
      BY <1>7, <2>3
    <3>3. /\ l \in 1..Len(steps) /\ h \in 1..Len(steps)
          /\ steps[l].origin = steps[h].origin /\ steps[l].page + 1 = steps[h].page + 1
          /\ steps[l].page \in Nat /\ steps[h].page \in Nat
      <4>1. /\ steps'[k].origin = steps[l].origin /\ steps'[k].page = steps[l].page + 1
            /\ steps[l].page \in Nat /\ l \in 1..Len(steps)
        BY <1>7, <2>3, <3>1
      <4>2. /\ steps'[m].origin = steps[h].origin /\ steps'[m].page = steps[h].page + 1
            /\ steps[h].page \in Nat /\ h \in 1..Len(steps)
        BY <1>7, <2>3, <3>2
      <4> QED
        BY <1>9, <4>1, <4>2
    <3>4. steps[l].page = steps[h].page
      BY <3>3, SuccessorInjective
    <3>5. l = h
      BY <3>3, <3>4 DEF Paging
    <3> QED
      BY <1>3, <2>3, <3>1, <3>2, <3>5
  <2> QED
    BY <1>3, <1>9, <2>1, <2>2, <2>3
<1>10. ASSUME conts' < MaxContinuations, NEW k \in 1..i', ended'[k].next
       PROVE  \E m \in 1..Len(steps') : Follows(m, k)'
  <2>1. conts \in Nat /\ conts + G < MaxContinuations
    BY <1>2, <1>10 DEF Position
  <2>2. CASE k \in 1..i
    <3>1. conts < MaxContinuations
      <4>1. G \in Nat /\ MaxContinuations \in Nat
        BY <1>3, RouterAssumption
      <4> HIDE DEF G
      <4> QED
        BY <2>1, <4>1
    <3>2. PICK m \in 1..Len(steps) : Follows(m, k)
      BY <1>2, <1>10, <2>2, <3>1 DEF Paging
    <3>3. steps'[m] = steps[m] /\ m \in 1..Len(steps') /\ steps'[k] = steps[k]
      BY <1>1, <1>3, <2>2
    <3> QED
      BY <3>2, <3>3 DEF Follows
  <2>3. CASE k \in Batch
    <3>1. Granted = Announcing
      <4>1. Announcing \subseteq Nat
        BY <1>1
      <4> QED
        BY <1>1, <2>1, <4>1, LimitNotReached
    <3>2. k \in Granted
      BY <1>2, <1>10, <2>3, <3>1 DEF Announcing
    <3>3. PICK m \in Added : From(m) = k
      BY <1>3, <3>2
    <3>4. /\ steps'[m].origin = steps[k].origin /\ steps'[m].page = steps[k].page + 1
          /\ m \in 1..Len(steps') /\ steps'[k] = steps[k]
      BY <1>3, <1>5, <1>7, <2>3, <3>3
    <3> QED
      BY <3>4 DEF Follows
  <2> QED
    BY <1>6, <2>2, <2>3
<1> QED
  BY <1>2, <1>8, <1>9, <1>10 DEF Paging

LEMMA CollectKeeps ==
    ASSUME IInv, Collect
    PROVE  IInv'
<1> USE DEF IInv, Execution
<1> DEFINE G == Cardinality(Granted)
<1>1. /\ DOMAIN ended = 1..(i + batch) /\ Batch \subseteq 1..Len(steps)
      /\ i \in Nat /\ batch \in Nat /\ Len(steps) \in Nat /\ i + batch <= Len(steps)
      /\ phase = "run"
  BY BatchEnded
<1>2. /\ i' = i + batch /\ batch' = 0 /\ started' = 0 /\ conts' = conts + G
      /\ UNCHANGED <<q, plan, ended, stored, answer>>
  BY DEF Collect, NextStep
<1>3. /\ steps' \in Seq(Step) /\ G \in Nat /\ Len(steps') = Len(steps) + G
      /\ \A m \in 1..Len(steps') : m \in 1..Len(steps) \/ m \in Added
      /\ \A m \in 1..Len(steps) : steps'[m] = steps[m] /\ m \in 1..Len(steps')
      /\ \A m \in Added : /\ From(m) \in Granted
                          /\ steps'[m] = Continuation(steps[From(m)])
      /\ \A m \in Added : m \notin 1..Len(steps)
  BY AddedSteps
<1>4. \A k \in 1..i' : k \in 1..i \/ k \in Batch
  BY <1>1, <1>2 DEF Batch
<1>5. \A k \in 1..i' : k \in 1..Len(steps)
  BY <1>1, <1>2
<1>6. \A k \in 1..i : ended[k].ok
  BY <1>1 DEF Control
<1>7. Position'
  <2>1. conts' \in Nat
    BY <1>2, <1>3 DEF Position
  <2>2. i' \in Nat /\ i' + batch' <= Len(steps')
    BY <1>1, <1>2, <1>3
  <2> QED
    BY <1>2, <1>3, <2>1, <2>2 DEF Position
<1>8. Planned'
  <2>1. ASSUME NEW m \in 1..Len(steps')
        PROVE  ValidStep(steps'[m])
    <3>1. CASE m \in 1..Len(steps)
      BY <1>3, <3>1 DEF Planned
    <3>2. CASE m \in Added
      <4>1. PICK k \in 1..Len(steps) : k = From(m)
        BY <1>1, <1>3, <3>2, BatchEnded
      <4>2. steps[k] \in Step /\ ValidStep(steps[k]) /\ steps'[m] = Continuation(steps[k])
        BY <1>3, <3>2, <4>1 DEF Position, Planned
      <4>3. /\ steps'[m].name = steps[k].name /\ steps'[m].source = steps[k].source
            /\ steps'[m].args = steps[k].args
        BY <4>2, ContinuationFields
      <4> QED
        BY <4>2, <4>3 DEF ValidStep
    <3> QED
      BY <1>3, <3>1, <3>2
  <2>2. \A m : ValidStep(steps'[m]) => ValidStep(steps[m])'
    BY DEF ValidStep, IsAllowed, UnmarshalsToMap, SchemaAccepts
  <2>3. i + batch <= Len(steps) /\ batch > 0
    BY <1>1 DEF Collect
  <2>4. steps # <<>> /\ Len(plan) <= Len(steps) /\ Len(plan) \in Nat
    BY <1>1, <2>3 DEF Planned, Control, Given
  <2>5. \A n \in 1..Len(steps') : n <= Len(plan) => n \in 1..Len(steps)
    BY <1>1, <2>4
  <2>6. Len(plan) <= Len(steps')
    BY <1>1, <1>3, <2>4
  <2>7. \A n \in 1..Len(steps') : n <= Len(plan) => steps'[n] = [plan[n] EXCEPT !.origin = n]
    BY <1>3, <2>5 DEF Planned
  <2> QED
    BY <1>2, <2>1, <2>2, <2>6, <2>7 DEF Planned
<1>9. Grouped'
  <2>1. ~ (batch' > 1)
    BY <1>2
  <2> QED
    BY <2>1 DEF Grouped
<1>10. Ending'
  <2>1. Running' = {}
    <3>1. (i' + 1)..(i' + started') = {}
      BY <1>1, <1>2
    <3> QED
      BY <3>1 DEF Running
  <2>2. Cardinality(Running') = 0
    BY <2>1, FS_EmptySet
  <2>3. q'.parallelism \in Nat
    BY <1>2, RouterAssumption DEF Query, Control, Given
  <2>4. DOMAIN ended' = 1..i' /\ i' + started' = i'
    BY <1>1, <1>2
  <2>5. \A k \in 1..i' :
           /\ ended'[k] \in [ok : BOOLEAN, artifact : BOOLEAN, next : BOOLEAN]
           /\ ended'[k].next => HasNextPage(steps'[k]) /\ ~q'.cut
           /\ ended'[k].ok /\ HasNextPage(steps'[k]) /\ ~q'.cut => ended'[k].next
    BY <1>1, <1>2, <1>3, <1>5 DEF Ending
  <2> QED
    BY <2>2, <2>3, <2>4, <2>5 DEF Ending, EffectiveParallelism, HasNextPage
<1>11. Collected'
  <2> DEFINE t == [n \in 1..batch |-> [step |-> steps[i + n], ok |-> ended[i + n].ok]]
             R == [step : Step, ok : BOOLEAN]
  <2>1. \A n \in 1..batch : i + n \in 1..Len(steps) /\ i + n \in DOMAIN ended
    BY <1>1
  <2>2. \A n \in 1..batch : steps[i + n] \in Step /\ ended[i + n].ok \in BOOLEAN
    <3>1. \A n \in 1..batch : steps[i + n] \in Step
      BY <2>1 DEF Position
    <3>2. \A k \in DOMAIN ended : ended[k].ok \in BOOLEAN
      BY DEF Ending
    <3> QED
      BY <2>1, <3>1, <3>2
  <2>3. t \in Seq(R) /\ Len(t) = batch
    <3>1. \A n \in 1..batch : [step |-> steps[i + n], ok |-> ended[i + n].ok] \in R
      BY <2>2
    <3> HIDE DEF R
    <3>2. t \in [1..batch -> R]
      BY <3>1
    <3> HIDE DEF t
    <3> QED
      BY <1>1, <3>2
  <2>4. /\ out \in Seq(R) /\ Len(out) = i /\ out' = out \o t
    BY DEF Collect, Collected
  <2>5. /\ out' \in Seq(R) /\ Len(out') = i'
        /\ \A n \in 1..i : out'[n] = out[n]
        /\ \A n \in (i + 1)..(i + batch) : out'[n] = t[n - i]
    <3> HIDE DEF t, R
    <3>1. /\ out \o t \in Seq(R) /\ Len(out \o t) = Len(out) + Len(t)
          /\ \A n \in 1..Len(out) : (out \o t)[n] = out[n]
          /\ \A n \in (Len(out) + 1)..(Len(out) + Len(t)) : (out \o t)[n] = t[n - Len(out)]
      BY <2>3, <2>4, Concatenation
    <3>2. i' = Len(out) + Len(t) /\ Len(out) = i /\ Len(t) = batch /\ out' = out \o t
      BY <1>2, <2>3, <2>4
    <3> QED
      BY <3>1, <3>2
  <2>6. \A n \in 1..i' : out'[n].step = steps[n] /\ out'[n].ok = ended[n].ok
    <3>1. \A n \in 1..i : out'[n].step = steps[n] /\ out'[n].ok = ended[n].ok
      <4>1. \A n \in 1..i : out[n].step = steps[n] /\ out[n].ok = ended[n].ok
        BY DEF Collected
      <4> HIDE DEF t, R
      <4> QED
        BY <2>5, <4>1
    <3>2. ASSUME NEW n \in Batch
          PROVE  out'[n].step = steps[n] /\ out'[n].ok = ended[n].ok
      <4>1. n - i \in 1..batch /\ i + (n - i) = n
        BY <1>1 DEF Batch
      <4>2. out'[n] = [step |-> steps[i + (n - i)], ok |-> ended[i + (n - i)].ok]
        BY <2>5, <4>1 DEF Batch
      <4>3. out'[n] = [step |-> steps[n], ok |-> ended[n].ok]
        BY <4>1, <4>2
      <4> QED
        BY <4>3
    <3> QED
      BY <1>4, <3>1, <3>2
  <2>7. ASSUME NEW n \in 1..i', NEW m \in 1..i', n < m, ~ended[n].ok
        PROVE  steps[n].group # "" /\ steps[m].group = steps[n].group
    <3>1. n \in Batch
      BY <1>4, <1>6, <2>7
    <3>2. m \in Batch /\ batch > 1
      BY <1>1, <1>2, <2>7, <3>1 DEF Batch
    <3> QED
      BY <3>1, <3>2 DEF Grouped
  <2>8. \A n \in 1..i' : steps'[n] = steps[n]
    BY <1>3, <1>5
  <2>9. out' \in Seq([step : Step, ok : BOOLEAN]) /\ Len(out') = i'
    BY <2>5
  <2> HIDE DEF t, R
  <2> QED
    <3>1. \A n \in 1..i' : out'[n].step = steps'[n] /\ out'[n].ok = ended'[n].ok
      BY <1>2, <2>6, <2>8
    <3>2. ASSUME NEW n \in 1..i', NEW m \in 1..i', n < m, ~ended'[n].ok
          PROVE  steps'[n].group # "" /\ steps'[m].group = steps'[n].group
      <4>1. ended' = ended
        BY <1>2
      <4>2. steps[n].group # "" /\ steps[m].group = steps[n].group
        BY <2>7, <3>2, <4>1
      <4> QED
        BY <2>8, <4>2
    <3> QED
      BY <2>9, <3>1, <3>2 DEF Collected
<1>12. Disk'
  <2> DEFINE t == [n \in 1..Cardinality(Listed) |-> Nth(Listed, n)]
             L == Cardinality(Listed)
  <2>1. IsFiniteSet(Listed) /\ Listed \subseteq Nat /\ Listed \subseteq Batch
    BY BatchEnded
  <2>2. L \in Nat
    BY <2>1, FS_CardinalityType
  <2>3. \A n \in 1..L : t[n] = Nth(Listed, n) /\ t[n] \in Listed
    BY <2>1, NthElement
  <2>4. t \in Seq(Nat) /\ Len(t) = L
    <3>1. \A n \in 1..L : Nth(Listed, n) \in Nat
      BY <2>1, <2>3
    <3>2. t \in [1..L -> Nat]
      BY <3>1
    <3> HIDE DEF t, L
    <3> QED
      BY <2>2, <3>2
  <2>5. manifest \in Seq(Nat) /\ manifest' = manifest \o t
    BY DEF Collect, Disk
  <2> DEFINE M == Len(manifest)
  <2>6. /\ manifest' \in Seq(Nat) /\ Len(manifest') = M + L /\ M \in Nat
        /\ \A n \in 1..M : manifest'[n] = manifest[n]
        /\ \A n \in (M + 1)..(M + L) : manifest'[n] = t[n - M]
    <3> HIDE DEF t, L
    <3> QED
      BY <2>4, <2>5, Concatenation
  <2>7. \A n \in 1..M : manifest'[n] = manifest[n]
                         /\ manifest[n] \in 1..i /\ ended[manifest[n]].artifact
    BY <2>6 DEF Disk
  <2>8. ASSUME NEW n \in (M + 1)..(M + L)
        PROVE  n - M \in 1..L /\ manifest'[n] = Nth(Listed, n - M) /\ manifest'[n] \in Listed
    <3>1. n - M \in 1..L
      <4> HIDE DEF L, M
      <4> QED
        BY <2>2, <2>6
    <3> QED
      BY <2>3, <2>6, <3>1
  <2>9. ASSUME NEW n \in 1..(M + L), NEW m \in 1..(M + L), n < m
        PROVE  manifest'[n] < manifest'[m]
    <3> HIDE DEF t, L, M
    <3>1. CASE m \in 1..M
      <4>1. n \in 1..M
        BY <2>2, <2>6, <2>9, <3>1
      <4>2. DOMAIN manifest = 1..M
        BY <2>5 DEF M
      <4>3. manifest[n] < manifest[m]
        BY <2>9, <3>1, <4>1, <4>2 DEF Disk
      <4> QED
        BY <2>6, <3>1, <4>1, <4>3
    <3>2. CASE n \in 1..M /\ m \in (M + 1)..(M + L)
      <4>1. manifest'[n] \in 1..i
        BY <2>7, <3>2
      <4>2. manifest'[m] \in Batch
        BY <2>1, <2>8, <3>2
      <4> QED
        BY <1>1, <4>1, <4>2 DEF Batch
    <3>3. CASE n \in (M + 1)..(M + L) /\ m \in (M + 1)..(M + L)
      <4>1. /\ n - M \in 1..L /\ m - M \in 1..L /\ n - M < m - M
            /\ manifest'[n] = Nth(Listed, n - M) /\ manifest'[m] = Nth(Listed, m - M)
        BY <2>2, <2>6, <2>8, <2>9, <3>3
      <4>2. Nth(Listed, n - M) < Nth(Listed, m - M)
        BY <2>1, <4>1, NthIncreases DEF L
      <4> QED
        BY <4>1, <4>2
    <3> QED
      BY <2>2, <2>6, <2>9, <3>1, <3>2, <3>3
  <2>10. ASSUME NEW n \in 1..(M + L)
         PROVE  manifest'[n] \in 1..i' /\ ended[manifest'[n]].artifact
    <3>1. CASE n \in 1..M
      <4>1. manifest'[n] \in 1..i /\ ended[manifest'[n]].artifact
        BY <2>7, <3>1
      <4> QED
        BY <1>1, <1>2, <4>1
    <3>2. CASE n \in (M + 1)..(M + L)
      <4>1. manifest'[n] \in Batch /\ ended[manifest'[n]].artifact
        BY <2>1, <2>8, <3>2 DEF Listed
      <4> QED
        BY <1>1, <1>2, <4>1 DEF Batch
    <3> HIDE DEF L, M
    <3> QED
      BY <2>2, <2>6, <3>1, <3>2
  <2>11. ASSUME NEW k \in 1..i', ended[k].artifact
         PROVE  \E n \in 1..(M + L) : manifest'[n] = k
    <3>1. CASE k \in 1..i
      <4>1. PICK n \in 1..M : manifest[n] = k
        BY <2>5, <2>11, <3>1 DEF Disk
      <4>2. n \in 1..(M + L) /\ manifest'[n] = k
        <5>1. manifest'[n] = k
          BY <2>7, <4>1
        <5> HIDE DEF L, M
        <5> QED
          BY <2>2, <2>6, <4>1, <5>1
      <4> QED
        BY <4>2
    <3>2. CASE k \in Batch
      <4>1. k \in Listed
        BY <2>11, <3>2 DEF Listed
      <4>2. PICK n \in 1..L : Nth(Listed, n) = k
        BY <2>1, <4>1, NthLists
      <4>3. M + n \in (M + 1)..(M + L) /\ (M + n) - M = n /\ M + n \in 1..(M + L)
        <5> HIDE DEF L, M
        <5> QED
          BY <2>2, <2>6, <4>2
      <4>4. manifest'[M + n] = Nth(Listed, (M + n) - M)
        BY <2>8, <4>3
      <4> QED
        BY <4>2, <4>3, <4>4
    <3> QED
      BY <1>4, <3>1, <3>2
  <2>12. DOMAIN manifest' = 1..(M + L)
    BY <2>6
  <2> HIDE DEF M, L, t
  <2>13. \A n, m \in DOMAIN manifest' : n < m => manifest'[n] < manifest'[m]
    BY <2>9, <2>12
  <2>14. {manifest'[n] : n \in DOMAIN manifest'} = {k \in 1..i' : ended'[k].artifact}
    BY <1>2, <2>10, <2>11, <2>12
  <2>15. stored' = {k \in DOMAIN ended' : ended'[k].artifact}
    BY <1>2 DEF Disk
  <2> QED
    BY <2>6, <2>13, <2>14, <2>15 DEF Disk
<1>13. Paging'
  BY CollectPaging
<1>14. Control'
  <2>1. phase' \in {"run", "reply", "panic"}
    BY <1>1 DEF Collect
  <2>2. ASSUME phase' = "run" PROVE \A n \in 1..i' : ended[n].ok
    <3>1. ~Failed
      BY <2>2 DEF Collect
    <3>2. \A n \in Batch : ended[n].ok
      BY <3>1 DEF Failed
    <3> QED
      BY <1>4, <1>6, <3>2
  <2>3. Given' /\ answer' \in BOOLEAN
    BY <1>2 DEF Control, Given
  <2> QED
    BY <1>2, <2>1, <2>2, <2>3 DEF Control
<1> QED
  BY <1>7, <1>8, <1>9, <1>10, <1>11, <1>12, <1>13, <1>14

-----------------------------------------------------------------------------
(* The invariant holds, and what it says.                                  *)

LEMMA NextKeeps == IInv /\ [Next]_vars => IInv'
<1> SUFFICES ASSUME IInv, [Next]_vars PROVE IInv'
  OBVIOUS
<1>1. ASSUME NEW r \in Queries, Receive(r) PROVE IInv'
  BY <1>1, ReceiveKeeps
<1>2. CASE (\E p \in Plans : ModelPlan(p)) \/ ModelFails
  BY <1>2, ModelKeeps
<1>3. CASE Validate
  BY <1>3, ValidateKeeps
<1>4. CASE Reply
  BY <1>4, ReplyKeeps
<1>5. CASE (\E works \in BOOLEAN : Answer(works)) \/ Complete
  BY <1>5, AnswerKeeps
<1>6. CASE Dispatch
  BY <1>6, DispatchKeeps
<1>7. CASE StartStep
  BY <1>7, StartKeeps
<1>8. CASE Collect
  BY <1>8, CollectKeeps
<1>9. ASSUME NEW k \in Running, NEW ok \in BOOLEAN, NEW artifact \in BOOLEAN,
             NEW parsed \in BOOLEAN, FinishStep(k, ok, artifact, parsed)
      PROVE  IInv'
  BY <1>9, FinishKeeps
<1>10. CASE UNCHANGED vars
  <2>1. UNCHANGED <<q, plan, execVars>> /\ UNCHANGED <<phase, answer>>
    BY <1>10 DEF vars
  <2>2. Execution'
    BY <2>1, UnchangedExecution DEF IInv
  <2>3. Control'
    BY <2>1 DEF IInv, Control, Given, Quiet, execVars
  <2> QED
    BY <2>2, <2>3 DEF IInv
<1> QED
  BY <1>1, <1>2, <1>3, <1>4, <1>5, <1>6, <1>7, <1>8, <1>9, <1>10 DEF Next

LEMMA IInvAlways == Spec => []IInv
BY InitIInv, NextKeeps, PTL DEF Spec

\* Every variable keeps its type: no step of a query leaves the loop's counters,
\* the results or the manifest malformed.
THEOREM TypeCorrect == Spec => []TypeOK
<1>1. IInv => TypeOK
  <2> SUFFICES ASSUME IInv PROVE TypeOK
    OBVIOUS
  <2>1. DOMAIN ended \subseteq 1..(i + batch)
    <3>1. 1..(i + started) \subseteq 1..(i + batch)
      BY DEF IInv, Execution, Position
    <3> QED
      BY <3>1 DEF IInv, Execution, Ending
  <2>2. stored \subseteq Nat
    <3>1. \A k \in DOMAIN ended : k \in Nat
      BY <2>1 DEF IInv, Execution, Position
    <3> QED
      BY <3>1 DEF IInv, Execution, Disk
  <2> QED
    BY <2>1, <2>2 DEF TypeOK, IInv, Execution, Control, Given, Position, Ending,
                      Collected, Disk
<1> QED
  BY <1>1, IInvAlways, PTL

\* executePlan's reply lists the plan's steps and the pages they led to in plan
\* order, in whatever order the goroutines of a group end.
THEOREM ResultsInPlanOrder == Spec => []ResultsFollowSteps
<1>1. IInv => ResultsFollowSteps
  BY DEF ResultsFollowSteps, IInv, Execution, Collected, Planned
<1> QED
  BY <1>1, IInvAlways, PTL

\* executePlan stops at a failed step: only the rest of its own group, which was
\* running with it, appears after it.
THEOREM FailureStopsThePlan == Spec => []NothingAfterFailure
<1>1. IInv => NothingAfterFailure
  <2> SUFFICES ASSUME IInv PROVE NothingAfterFailure
    OBVIOUS
  <2>1. /\ Len(out) = i
        /\ \A n \in 1..i : out[n].step = steps[n] /\ out[n].ok = ended[n].ok
        /\ \A n, m \in 1..i : n < m /\ ~ended[n].ok => /\ steps[n].group # ""
                                                       /\ steps[m].group = steps[n].group
    BY DEF IInv, Execution, Collected
  <2>2. phase = "run" => \A n \in 1..i : ended[n].ok
    BY DEF IInv, Control
  <2>3. phase = "run" => \A n \in 1..Len(out) : out[n].ok
    BY <2>1, <2>2
  <2>4. ASSUME NEW n \in 1..Len(out), NEW m \in 1..Len(out), n < m, ~out[n].ok
        PROVE  out[n].step.group # "" /\ out[m].step.group = out[n].step.group
    <3>1. n \in 1..i /\ m \in 1..i /\ ~ended[n].ok
      BY <2>1, <2>4
    <3>2. steps[n].group # "" /\ steps[m].group = steps[n].group
      BY <2>1, <2>4, <3>1
    <3> QED
      BY <2>1, <3>1, <3>2
  <2> QED
    BY <2>3, <2>4 DEF NothingAfterFailure
<1> QED
  BY <1>1, IInvAlways, PTL

\* The groups executePlan forms: two steps run together only as local members of
\* one group, and errgroup's limit holds.
THEOREM GroupsRunAlone == Spec => []ConcurrentOnlyWithinGroup
<1>1. IInv => ConcurrentOnlyWithinGroup
  <2> SUFFICES ASSUME IInv PROVE ConcurrentOnlyWithinGroup
    OBVIOUS
  <2>1. Cardinality(Running) <= EffectiveParallelism(q)
    BY DEF IInv, Execution, Ending
  <2>2. ASSUME NEW k \in Running, NEW m \in Running, k # m
        PROVE  /\ steps[k].source = "local" /\ steps[m].source = "local"
               /\ steps[k].group = steps[m].group /\ steps[k].group # ""
    <3>1. i \in Nat /\ started \in Nat /\ batch \in Nat /\ started <= batch
      BY DEF IInv, Execution, Position
    <3>2. k \in (i + 1)..(i + started) /\ m \in (i + 1)..(i + started)
      BY DEF Running
    <3>3. k \in Batch /\ m \in Batch /\ batch > 1
      BY <2>2, <3>1, <3>2 DEF Batch
    <3> QED
      BY <3>3 DEF IInv, Execution, Grouped
  <2> QED
    BY <2>1, <2>2 DEF ConcurrentOnlyWithinGroup
<1> QED
  BY <1>1, IInvAlways, PTL

\* What is started has passed ValidatePlan: the continuations createContinuationStep
\* appends, which nothing validates, are as valid as the steps they come from.
THEOREM StartedStepsAreValid == Spec => []OnlyValidStepsRun
<1>1. IInv => OnlyValidStepsRun
  <2> SUFFICES ASSUME IInv PROVE OnlyValidStepsRun
    OBVIOUS
  <2>1. 1..(i + started) \subseteq 1..Len(steps)
    BY DEF IInv, Execution, Position
  <2> QED
    BY <2>1 DEF OnlyValidStepsRun, IInv, Execution, Planned
<1> QED
  BY <1>1, IInvAlways, PTL

\* The reply's manifest and the artifact store agree between batches: what the
\* steps of a batch wrote is listed once, in step order, also when one failed.
THEOREM ManifestAgreesWithDisk == Spec => []ManifestComplete
<1>1. IInv => ManifestComplete
  <2> SUFFICES ASSUME IInv, batch = 0
               PROVE  /\ stored = {manifest[n] : n \in DOMAIN manifest}
                      /\ \A n, m \in DOMAIN manifest : n < m => manifest[n] < manifest[m]
    BY DEF ManifestComplete
  <2>1. i \in Nat /\ started = 0
    BY DEF IInv, Execution, Position
  <2>2. DOMAIN ended = 1..i
    <3>1. i + started = i
      BY <2>1
    <3> QED
      BY <3>1 DEF IInv, Execution, Ending
  <2> QED
    BY <2>2 DEF IInv, Execution, Disk
<1> QED
  BY <1>1, IInvAlways, PTL

\* A successful plan below maxContinuations has fetched every page of every paged
\* step exactly once, whatever the groups its steps and their pages ran in.
THEOREM EveryPageOnce == Spec => []PagesComplete
<1>1. IInv => PagesComplete
  <2> SUFFICES ASSUME IInv, ~q.cut, phase = "answer", conts < MaxContinuations,
                      NEW n \in DOMAIN plan, steps # <<>>, plan[n].name \in Paged,
                      NEW p \in plan[n].page..Pages
               PROVE  Cardinality(Fetched(n, p)) = 1
    BY DEF PagesComplete, AllPagesOnce
  <2> USE DEF IInv, Execution
  <2>1. /\ steps \in Seq(Step) /\ plan \in Seq(Step) /\ i = Len(steps) /\ i \in Nat
        /\ \A k \in 1..i : ended[k].ok
        /\ n \in 1..Len(plan) /\ Len(plan) <= Len(steps) /\ Len(plan) \in Nat
    BY DEF Control, Given, Position, Planned
  <2>2. plan[n] \in Step /\ plan[n].page \in Nat /\ Pages \in Nat
    <3>1. plan[n] \in Step
      BY <2>1
    <3> QED
      BY <3>1, ContinuationFields, RouterAssumption
  <2> DEFINE Missed == {x \in plan[n].page..Pages : Fetched(n, x) = {}}
  <2>3. ASSUME Missed # {} PROVE FALSE
    <3>1. PICK x \in Missed : \A y \in Missed : x <= y
      <4>1. Missed \subseteq Nat
        BY <2>2
      <4> HIDE DEF Missed
      <4> QED
        BY <2>3, <4>1, LeastElement
    <3>2. x \in plan[n].page..Pages /\ Fetched(n, x) = {} /\ x \in Nat
      BY <2>2
    <3>3. CASE x = plan[n].page
      <4>1. n \in 1..Len(steps) /\ steps[n] = [plan[n] EXCEPT !.origin = n]
        BY <2>1 DEF Planned
      <4>2. steps[n].origin = n /\ steps[n].page = plan[n].page
        BY <2>2, <4>1 DEF Step
      <4>3. n \in Fetched(n, x)
        <5>1. n \in DOMAIN steps
          BY <2>1, <4>1
        <5> QED
          BY <3>3, <4>2, <5>1 DEF Fetched
      <4> QED
        BY <3>2, <4>3
    <3>4. CASE x # plan[n].page
      <4>1. x - 1 \in plan[n].page..Pages /\ x - 1 < Pages /\ ~ (x <= x - 1)
        BY <2>2, <3>2, <3>4
      <4>2. Fetched(n, x - 1) # {}
        <5>1. x - 1 \notin Missed
          <6> HIDE DEF Missed
          <6> QED
            BY <3>1, <4>1
        <5> QED
          BY <4>1, <5>1
      <4>3. PICK k \in 1..Len(steps) : steps[k].origin = n /\ steps[k].page = x - 1
        BY <2>1, <4>2 DEF Fetched
      <4>4. steps[k].name \in Paged
        BY <4>3 DEF Paging
      <4>5. k \in DOMAIN ended /\ ended[k].ok
        BY <2>1, <4>3 DEF Ending
      <4>6. ended[k].next
        BY <4>1, <4>3, <4>4, <4>5 DEF Ending, HasNextPage
      <4>7. PICK m \in 1..Len(steps) : Follows(m, k)
        BY <2>1, <4>3, <4>6 DEF Paging
      <4>8. steps[m].origin = n /\ steps[m].page = x
        BY <3>2, <4>3, <4>7 DEF Follows
      <4>9. m \in Fetched(n, x)
        BY <2>1, <4>7, <4>8 DEF Fetched
      <4> QED
        BY <3>2, <4>9
    <3> QED
      BY <3>3, <3>4
  <2>4. Fetched(n, p) # {}
    BY <2>3
  <2>5. PICK m \in Fetched(n, p) : TRUE
    BY <2>4
  <2>6. Fetched(n, p) = {m}
    <3>1. ASSUME NEW l \in Fetched(n, p)
          PROVE  l = m
      <4>1. /\ l \in 1..Len(steps) /\ m \in 1..Len(steps)
            /\ steps[l].origin = n /\ steps[m].origin = n
            /\ steps[l].page = p /\ steps[m].page = p
        BY <2>1, <2>5 DEF Fetched
      <4> QED
        BY <4>1 DEF Paging
    <3> QED
      BY <2>5, <3>1
  <2> QED
    BY <2>6, FS_Singleton
<1> QED
  BY <1>1, IInvAlways, PTL

=============================================================================
