------------------------------- MODULE Router -------------------------------
(***************************************************************************)
(* One `query` call of mcp-lens after another: runRouter                   *)
(* (internal/tools/router.go) takes a request, obtains a plan (the given   *)
(* steps, a discovery fast path, or the planner model), checks it with     *)
(* ValidatePlan and the policy (internal/router), and runs it with         *)
(* executePlan: steps in order, contiguous groups of local steps in        *)
(* parallel, one more step appended at the end for every further page a    *)
(* result announces, large results moved to the artifact store.            *)
(*                                                                         *)
(* Tools and the planner model are the environment.  A step carries, as    *)
(* history, the position of the planned step whose pages it continues      *)
(* (origin) and the page it asks for.                                      *)
(***************************************************************************)
EXTENDS Integers, Sequences, FiniteSets

CONSTANTS
    Queries,            \* the requests a client may send
    Plans,              \* the plans (sequences of steps) the model may return
    Known,              \* names in the router catalog
    AllowLocal,         \* Policy.AllowLocal, mutating names taken out
    AllowUpstream,      \* Policy.AllowUpstream, empty in DefaultPolicy
    Paged,              \* tools whose results announce a next page
    Pages,              \* how many pages such a tool has
    MaxContinuations,   \* maxContinuations, 10 in the code
    StepCap,            \* the largest max_steps accepted, 8 in the code
    ParallelCap,        \* the largest parallelism accepted, 8 in the code
    DefaultSteps        \* max_steps when neither it nor steps are given, 5

Reserved == {"query", "router"}

\* The parallel groups; "" is none.
Group == STRING \cup {""}

\* One step of a plan, its arguments reduced to the page and to what they are: an
\* object the tool's schema accepts, one it does not, null, or something else.
Step == [name : STRING, source : STRING, args : {"object", "unfit", "null", "other"},
         group : Group, page : Nat \ {0}, origin : Nat]

Query == [mode : {"auto", "planner", "executor", "bad"},
          steps : Seq(Step),
          fast : Seq(Step),             \* the fast path's step, or none
          maxSteps : Nat, parallelism : Nat, dryRun : BOOLEAN,
          answer : BOOLEAN,             \* include_answer, or the fast path has one
          cut : BOOLEAN]                \* exclude_fields or redact hits the paging fields

ASSUME RouterAssumption ==
    /\ Pages \in Nat /\ MaxContinuations \in Nat
    /\ StepCap \in Nat /\ ParallelCap \in Nat /\ DefaultSteps \in Nat
    /\ Queries \subseteq Query /\ Queries # {}
    /\ Plans \subseteq Seq(Step)
    /\ "" \notin AllowLocal \cup AllowUpstream

VARIABLES
    phase,      \* where runRouter is
    q,          \* the request
    plan,       \* the plan's steps
    steps,      \* the plan's steps and the continuations appended so far
    i,          \* steps collected: the loop stands at step i + 1
    batch,      \* how many steps, from i + 1, run together; 0 between batches
    started,    \* how many of them have been started
    ended,      \* ended[k]: what step k has ended with
    out,        \* the executed steps of the reply
    manifest,   \* the positions whose artifacts the manifest lists
    stored,     \* the positions whose artifacts are on disk
    conts,      \* continuationCount
    answer      \* the reply has an answer text

execVars == <<steps, i, batch, started, ended, out, manifest, stored, conts>>
vars     == <<phase, q, plan, execVars, answer>>

None == <<>>
Blank == /\ plan' = <<>> /\ steps' = <<>> /\ i' = 0 /\ batch' = 0 /\ started' = 0
         /\ ended' = <<>> /\ out' = <<>> /\ manifest' = <<>> /\ stored' = {}
         /\ conts' = 0 /\ answer' = FALSE

Init ==
    /\ phase = "idle" /\ q \in Queries
    /\ plan = <<>> /\ steps = <<>> /\ i = 0 /\ batch = 0 /\ started = 0
    /\ ended = <<>> /\ out = <<>> /\ manifest = <<>> /\ stored = {}
    /\ conts = 0 /\ answer = FALSE

-----------------------------------------------------------------------------
(* The policy and ValidatePlan                                             *)

IsAllowed(source, name) ==
    \/ source = "local" /\ name \in AllowLocal
    \/ source = "upstream" /\ name \in AllowUpstream

\* json.Unmarshal into a map accepts an object and accepts null.
UnmarshalsToMap(args) == args \in {"object", "unfit", "null"}
SchemaAccepts(args) == args # "unfit"

ValidStep(s) ==
    /\ s.name # "" /\ s.name \notin Reserved
    /\ s.source \in {"local", "upstream"}
    /\ s.name \in Known
    /\ IsAllowed(s.source, s.name)
    /\ UnmarshalsToMap(s.args) /\ SchemaAccepts(s.args)

\* Mutant of ValidatePlan: the loop skips the first step.
ValidateTail(p, maxSteps) ==
    /\ p # <<>> /\ Len(p) <= maxSteps
    /\ \A k \in DOMAIN p : k > 1 => ValidStep(p[k])

ValidatePlan(p, maxSteps) ==
    /\ p # <<>> /\ Len(p) <= maxSteps
    /\ \A k \in DOMAIN p : ValidStep(p[k])

-----------------------------------------------------------------------------
(* runRouter                                                               *)

EffectiveMaxSteps(r) ==
    IF r.maxSteps > 0 THEN r.maxSteps
    ELSE IF r.steps # <<>> THEN Len(r.steps) ELSE DefaultSteps

EffectiveParallelism(r) == IF r.parallelism > 0 THEN r.parallelism ELSE 1

Acceptable(r) ==
    /\ EffectiveMaxSteps(r) <= StepCap
    /\ EffectiveParallelism(r) <= ParallelCap
    /\ r.mode # "bad"
    /\ r.mode = "executor" => r.steps # <<>>
    /\ r.mode = "planner" => r.steps = <<>>

\* The fast path comes before the given steps, and both before the model.
Receive(r) ==
    /\ phase = "idle"
    /\ q' = r
    /\ IF ~Acceptable(r)
          THEN phase' = "reply" /\ UNCHANGED plan
          ELSE IF r.fast # None
          THEN phase' = "validate" /\ plan' = r.fast
          ELSE IF r.steps # <<>>
          THEN phase' = "validate" /\ plan' = r.steps
          ELSE phase' = "model" /\ UNCHANGED plan
    /\ UNCHANGED <<execVars, answer>>

\* The planner model returns some plan, or nothing that parses.
ModelPlan(p) ==
    /\ phase = "model"
    /\ phase' = "validate" /\ plan' = p
    /\ UNCHANGED <<q, execVars, answer>>

ModelFails ==
    /\ phase = "model" /\ phase' = "reply"
    /\ UNCHANGED <<q, plan, execVars, answer>>

PlanLimit == IF q.fast # None THEN 1 ELSE EffectiveMaxSteps(q)

\* ValidatePlan, then executePlan unless dry_run.
Validate ==
    /\ phase = "validate"
    /\ IF ~ValidatePlan(plan, PlanLimit)
          THEN phase' = "reply" /\ UNCHANGED steps
          ELSE IF q.dryRun
          THEN phase' = "answer" /\ UNCHANGED steps
          ELSE phase' = "run" /\ steps' = [n \in DOMAIN plan |-> [plan[n] EXCEPT !.origin = n]]
    /\ UNCHANGED <<q, plan, i, batch, started, ended, out, manifest, stored, conts,
                   answer>>

\* The answer: the fast path's, the executor's summary, or the model's (which
\* may fail); none for planner mode.
Answer(works) ==
    /\ phase = "answer" /\ phase' = "reply"
    /\ answer' = /\ q.answer
                 /\ q.fast # None \/ q.steps # <<>> \/ (q.mode # "planner" /\ works)
    /\ UNCHANGED <<q, plan, execVars>>

Reply ==
    /\ phase = "reply" /\ phase' = "idle"
    /\ Blank /\ UNCHANGED q

-----------------------------------------------------------------------------
(* executePlan                                                             *)

\* The steps that run together from position k: a contiguous run of local steps
\* with k's parallel group, when there is one and parallelism allows.
\* Mutant of SameGroup: it does not compare the groups.
BothLocal(k, j) == steps[j].source = "local"

SameGroup(k, j) == steps[j].group = steps[k].group /\ steps[j].source = "local"
InParallel(s) == s.group # "" /\ EffectiveParallelism(q) > 1 /\ s.source = "local"
GroupEnd(k) ==
    IF InParallel(steps[k])
       THEN CHOOSE j \in k..Len(steps) :
              /\ \A m \in k..j : SameGroup(k, m)
              /\ j < Len(steps) => ~SameGroup(k, j + 1)
       ELSE k

Dispatch ==
    /\ phase = "run" /\ batch = 0 /\ i < Len(steps)
    /\ batch' = GroupEnd(i + 1) - i
    /\ started' = 0
    /\ UNCHANGED <<phase, q, plan, steps, i, ended, out, manifest, stored, conts,
                   answer>>

Running == {k \in (i + 1)..(i + started) : k \notin DOMAIN ended}

\* Mutant of BelowLimit: off by one.
WellBelowLimit == Cardinality(Running) + 1 < EffectiveParallelism(q)

BelowLimit == Cardinality(Running) < EffectiveParallelism(q)

\* errgroup's limit: the next goroutine starts when fewer than parallelism run.
StartStep ==
    /\ phase = "run" /\ started < batch /\ BelowLimit
    /\ started' = started + 1
    /\ UNCHANGED <<phase, q, plan, steps, i, batch, ended, out, manifest, stored,
                   conts, answer>>

HasNextPage(s) == s.name \in Paged /\ s.page < Pages

\* What execOne returns.  ApplyOutputShaping edits the parsed result in place, so
\* the map the continuation is read from has lost the fields the request cut.
Ended(s, ok, artifact, parsed) ==
    [ok |-> ok, artifact |-> artifact, next |-> parsed /\ HasNextPage(s) /\ ~q.cut]

\* The tool of step k returns: an error, a result, or a result so large that it
\* is written to the artifact store.  When only the shaping or the store fails, the
\* parsed result is there all the same, and one of a group is looked at for a next page.
FinishStep(k, ok, artifact, parsed) ==
    /\ k \in Running
    /\ parsed => IsAllowed(steps[k].source, steps[k].name) /\ UnmarshalsToMap(steps[k].args)
    /\ (ok => parsed) /\ (parsed => ok \/ InParallel(steps[k]))
    /\ artifact => ok
    /\ ended' = [m \in DOMAIN ended \cup {k} |->
                   IF m = k THEN Ended(steps[k], ok, artifact, parsed) ELSE ended[m]]
    /\ stored' = IF artifact THEN stored \cup {k} ELSE stored
    /\ UNCHANGED <<phase, q, plan, steps, i, batch, started, out, manifest, conts,
                   answer>>

Batch == (i + 1)..(i + batch)

\* Mutants: a group's results are not looked at for a next page; continuations run
\* before the steps that are left; an error in a group is forgotten, or loses the
\* group's artifacts; the loop steps back one.
AnnouncingAlone  == {k \in Batch : ended[k].next /\ batch = 1}
ContinuedFirst(new) == SubSeq(steps, 1, i + batch) \o new
                         \o SubSeq(steps, i + batch + 1, Len(steps))
FailedAlone      == batch = 1 /\ ~ended[i + 1].ok
ListedOnSuccess  == {k \in Batch : ended[k].artifact /\ \A m \in Batch : ended[m].ok}
NextStepShort    == i + batch - 1

\* createContinuationStep for every batch member that announces a page, in plan
\* order, as long as the count allows.  The new step has no parallel group.
Announcing == {k \in Batch : ended[k].next}
Rank(k) == Cardinality({m \in Announcing : m < k})
WithinLimit(n) == n < MaxContinuations
Granted == {k \in Announcing : WithinLimit(conts + Rank(k))}
Continuation(s) == [s EXCEPT !.page = @ + 1, !.group = ""]
Nth(S, n) == CHOOSE k \in S : Cardinality({m \in S : m <= k}) = n
Continued == [n \in 1..Cardinality(Granted) |-> Continuation(steps[Nth(Granted, n)])]

Extended(new) == steps \o new
Failed   == \E k \in Batch : ~ended[k].ok
Listed   == {k \in Batch : ended[k].artifact}
NextStep == i + batch

\* g.Wait and what follows it: results and artifacts are appended in plan order,
\* continuations at the end of steps, and an error ends the plan.  (For a lone step
\* the error comes first, and so it announces no page.)  Writing the page into arguments
\* that were null is a write to a nil map: the process ends.
Collect ==
    /\ phase = "run" /\ batch > 0 /\ started = batch /\ Running = {}
    /\ out' = out \o [n \in 1..batch |-> [step |-> steps[i + n], ok |-> ended[i + n].ok]]
    /\ manifest' = manifest \o [n \in 1..Cardinality(Listed) |-> Nth(Listed, n)]
    /\ steps' = Extended(Continued)
    /\ conts' = conts + Cardinality(Granted)
    /\ phase' = IF \E k \in Granted : steps[k].args = "null" THEN "panic"
                ELSE IF Failed THEN "reply" ELSE phase
    /\ i' = NextStep /\ batch' = 0 /\ started' = 0
    /\ UNCHANGED <<q, plan, ended, stored, answer>>

\* The loop ends.
Complete ==
    /\ phase = "run" /\ batch = 0 /\ i = Len(steps)
    /\ phase' = "answer"
    /\ UNCHANGED <<q, plan, execVars, answer>>

-----------------------------------------------------------------------------
Next ==
    \/ \E r \in Queries : Receive(r)
    \/ \E p \in Plans : ModelPlan(p)
    \/ ModelFails \/ Validate \/ Reply
    \/ \E works \in BOOLEAN : Answer(works)
    \/ Dispatch \/ StartStep \/ Collect \/ Complete
    \/ \E k \in Running, ok, artifact, parsed \in BOOLEAN : FinishStep(k, ok, artifact, parsed)

Spec == Init /\ [][Next]_vars

\* Goroutines run, tools and the model return.  Clients need not send requests.
Progress == \/ \E p \in Plans : ModelPlan(p)
            \/ ModelFails \/ Validate \/ Reply
            \/ \E works \in BOOLEAN : Answer(works)
            \/ Dispatch \/ StartStep \/ Collect \/ Complete
            \/ \E k \in Running, ok, artifact, parsed \in BOOLEAN : FinishStep(k, ok, artifact, parsed)

FairSpec == Spec /\ WF_vars(Progress)

-----------------------------------------------------------------------------
(* Properties                                                              *)

\* The type invariant.
TypeOK ==
    /\ phase \in {"idle", "model", "validate", "run", "answer", "reply", "panic"}
    /\ q \in Queries
    /\ plan \in Seq(Step) /\ steps \in Seq(Step)
    /\ i \in Nat /\ batch \in Nat /\ started \in Nat /\ conts \in Nat
    /\ DOMAIN ended \subseteq 1..(i + batch)
    /\ \A k \in DOMAIN ended :
          ended[k] \in [ok : BOOLEAN, artifact : BOOLEAN, next : BOOLEAN]
    /\ out \in Seq([step : Step, ok : BOOLEAN])
    /\ manifest \in Seq(Nat) /\ stored \subseteq Nat
    /\ answer \in BOOLEAN

\* The executed steps of a reply are the plan's steps followed by the pages they
\* led to, in that order, however a parallel group's goroutines interleave.
ResultsFollowSteps ==
    /\ Len(out) = i
    /\ \A n \in 1..i : out[n].step = steps[n]
    /\ \A n \in 1..Len(steps) : n <= Len(plan) => steps[n] = [plan[n] EXCEPT !.origin = n]

\* Nothing runs after a failed step except the rest of its own parallel group.
NothingAfterFailure ==
    /\ phase = "run" => \A n \in 1..Len(out) : out[n].ok
    /\ \A n, m \in 1..Len(out) :
          n < m /\ ~out[n].ok => /\ out[n].step.group # ""
                                 /\ out[m].step.group = out[n].step.group

\* Two steps run at the same time only as local members of one parallel group,
\* and never more than parallelism of them.
ConcurrentOnlyWithinGroup ==
    /\ Cardinality(Running) <= EffectiveParallelism(q)
    /\ \A k, m \in Running :
          k # m => /\ steps[k].source = "local" /\ steps[m].source = "local"
                   /\ steps[k].group = steps[m].group /\ steps[k].group # ""

\* Every step that is started, continuations included, is one ValidatePlan accepts.
OnlyValidStepsRun == \A k \in 1..(i + started) : ValidStep(steps[k])

Fetched(n, p) == {m \in DOMAIN steps : steps[m].origin = n /\ steps[m].page = p}
AllPagesOnce ==
    phase = "answer" /\ conts < MaxContinuations =>
        \A n \in DOMAIN plan :
            steps # <<>> /\ plan[n].name \in Paged =>
                \A p \in plan[n].page..Pages : Cardinality(Fetched(n, p)) = 1

\* When a plan succeeds within the continuation limit and the request cuts no
\* paging field, every page of every paged step has been fetched exactly once.
PagesComplete == ~q.cut => AllPagesOnce

\* Between batches, and so in every reply, the manifest lists each artifact on disk
\* once and in step order, also when another step of the group failed.
ManifestComplete ==
    batch = 0 => /\ stored = {manifest[n] : n \in DOMAIN manifest}
                 /\ \A n, m \in DOMAIN manifest : n < m => manifest[n] < manifest[m]

\* "Ensure args is an object.": a tool is called with a JSON object.
ArgsAreObjects == \A k \in DOMAIN ended : ended[k].ok => steps[k].args = "object"

\* Every request is answered.
QueryAnswered == phase # "idle" ~> phase = "idle"
=============================================================================
