------------------------------ MODULE Session ------------------------------
(***************************************************************************)
(* The MCP server (internal/server, pkg/mcp): one loop that reads a line,  *)
(* answers it, and reads the next.  A query runs a plan, whose steps go on *)
(* in goroutines of their own when they are of one parallel group; the     *)
(* loop waits for all of them.  Here the steps are those that use the      *)
(* artifact store, which resources/list and resources/read use as well.    *)
(*                                                                         *)
(* The process may be killed at any moment and started again by its        *)
(* client: the index is lost, the files stay.                              *)
(***************************************************************************)
EXTENDS Artifacts

CONSTANTS
    Steps,          \* goroutines of a parallel group
    Calls,          \* the steps a plan may have, of Jobs
    MaxSteps,       \* bound on the steps begun
    MaxRestarts     \* bound on the times the process is started again

VARIABLES
    phase,          \* where the loop is
    hasStore,       \* whether Handler.artifacts is there (its directory could be made)
    step,           \* the steps of the plan being run
    reading,        \* the item resources/read has looked up, at most one
    reply,          \* the response to write
    second,         \* the clock
    begun,          \* the number of steps begun so far
    restarts,
    uris,           \* history: the ids this process has handed out
    paths           \* history: the items, with their file, any process has handed out

vars == <<storeVars, phase, hasStore, step, reading, reply, second, begun, restarts,
          uris, paths>>

Phases == {"start", "wait", "plan", "read", "write", "down"}

\* A line is JSON of no known kind, a request, or no JSON at all.
Lines == {"initialize", "tools/list", "ping", "notifications/initialized",
          "notifications/cancelled", "not JSON", "tools/call of another tool",
          "tools/call without params", "resources/read of another scheme"}

\* What comes as JSON is text (save, append, a fetched result); a download is any content.
Jobs == [do : {"save"}, body : {<<x>> : x \in Texts \ Binary}]
          \cup [do : {"fetch"}, body : Textual]
          \cup [do : {"download"}, body : Contents]
          \cup [do : {"append"}, id : Contents, text : Texts \ Binary]
          \cup [do : {"list"}, limit : {0, 1}] \cup [do : {"search"}, label : Labels]

ASSUME SessionAssumption ==
    /\ IsFiniteSet(Steps)
    /\ Calls \subseteq Jobs
    /\ \A c \in Calls : c.do = "append" => Len(c.id) < MaxLen
    /\ MaxSteps \in Nat /\ MaxRestarts \in Nat

NoStep == [at |-> "none"]
Done(ok, refs) == [at |-> "done", ok |-> ok, refs |-> refs]
Step == {NoStep}
          \cup [at : {"begin"}, job : Jobs]
          \cup [at : {"read"}, item : Item, text : Texts]
          \cup [at : {"open"}, label : Labels, body : Contents]
          \cup [at : {"write", "index"}, path : Names, body : Contents]
          \cup [at : {"done"}, ok : BOOLEAN, refs : SUBSET Item]

\* A response, and the artifacts in it: with their file, or by their URI.
Response(kind) == [kind |-> kind, refs |-> {}, ids |-> {}, body |-> <<>>]
NoReply == Response("none")
Kinds == {"none", "result", "tool error", "no such method", "invalid params", "resource"}
Reply == [kind : Kinds, refs : SUBSET Item, ids : SUBSET Contents, body : Contents \cup {<<>>}]

Init ==
    /\ phase = "start" /\ hasStore = FALSE
    /\ keepIndex = TRUE /\ files = <<>> /\ byID = <<>> /\ recent = <<>> /\ hurt = {}
    /\ step = [s \in Steps |-> NoStep] /\ reading = {} /\ reply = NoReply
    /\ second = 0 /\ begun = 0 /\ restarts = 0
    /\ uris = {} /\ paths = {}

-----------------------------------------------------------------------------
(* The loop                                                                *)

\* New and the start of Run: a handler whose store could not be made goes on without.
\* Without an upstream, or without its tools, the process ends.
Boot ==
    /\ phase = "start"
    /\ Empty /\ hasStore' \in BOOLEAN
    /\ phase' \in {"wait", "down"}
    /\ UNCHANGED <<files, hurt, step, reading, reply, second, begun, restarts, uris, paths>>

\* Mutant of MayHandle: every request is handled in a goroutine of its own.
MayHandleAny == phase \in {"wait", "plan"}

MayHandle == phase = "wait"

\* A handler returns its response, which WriteResponse will write.
Respond(r) ==
    /\ reply' = r
    /\ phase' = IF r = NoReply THEN "wait" ELSE "write"

\* A notification that is not known is answered like any unknown method.
Answer(line) ==
    CASE line \in {"not JSON", "notifications/initialized"} -> NoReply
      [] line = "notifications/cancelled"                   -> Response("no such method")
      [] line \in {"initialize", "tools/list", "ping"}      -> Response("result")
      [] line = "tools/call of another tool"                -> Response("tool error")
      [] OTHER                                              -> Response("invalid params")

handleRequest(line) ==
    /\ MayHandle /\ Respond(Answer(line))
    /\ UNCHANGED <<storeVars, hasStore, step, reading, second, begun, restarts, uris, paths>>

\* The resources have a URI each, not a file.
handleListResources ==
    /\ MayHandle
    /\ Respond([Response("result") EXCEPT !.ids =
                    IF hasStore THEN {item.id : item \in Range(List)} ELSE {}])
    /\ UNCHANGED <<storeVars, hasStore, step, reading, second, begun, restarts, uris, paths>>

handleReadResource(i) ==
    /\ MayHandle
    /\ IF hasStore /\ Get(i) # {}
       THEN phase' = "read" /\ reading' = {ItemOf(i)} /\ reply' = NoReply
       ELSE Respond(Response("invalid params")) /\ UNCHANGED reading
    /\ UNCHANGED <<storeVars, hasStore, step, second, begun, restarts, uris, paths>>

\* The file is answered as JSON text; one that cannot be read is answered as not found.
ReadResource ==
    /\ phase = "read"
    /\ \/ \E item \in reading :
             Respond([Response("resource") EXCEPT
                         !.ids = {item.id}, !.body = TextOf(files[item.path])])
       \/ Respond(Response("invalid params"))
    /\ reading' = {}
    /\ UNCHANGED <<storeVars, hasStore, step, second, begun, restarts, uris, paths>>

\* A query whose plan has one group of steps.
handleCallTool(jobs) ==
    /\ MayHandle /\ DOMAIN jobs # {}
    /\ begun + Cardinality(DOMAIN jobs) <= MaxSteps /\ begun' = begun + Cardinality(DOMAIN jobs)
    /\ phase' = "plan"
    /\ step' = [s \in Steps |-> IF s \in DOMAIN jobs THEN [at |-> "begin", job |-> jobs[s]]
                                ELSE NoStep]
    /\ UNCHANGED <<storeVars, hasStore, reading, reply, second, restarts, uris, paths>>

\* The results of the steps that went well name their artifacts, another's failure or not.
PlanEnds ==
    /\ phase = "plan"
    /\ \A s \in Steps : step[s].at \in {"none", "done"}
    /\ Respond([Response("result") EXCEPT !.refs =
                    UNION {step[s].refs : s \in {u \in Steps : step[u].at = "done"}}])
    /\ step' = [s \in Steps |-> NoStep]
    /\ UNCHANGED <<storeVars, hasStore, reading, second, begun, restarts, uris, paths>>

\* The client learns of the artifacts; when the write fails nobody does, and the loop
\* goes on all the same.
WriteResponse ==
    /\ phase = "write" /\ phase' = "wait" /\ reply' = NoReply
    /\ \/ /\ uris' = uris \cup reply.ids \cup {item.id : item \in reply.refs}
          /\ paths' = paths \cup reply.refs
       \/ UNCHANGED <<uris, paths>>
    /\ UNCHANGED <<storeVars, hasStore, step, reading, second, begun, restarts>>

-----------------------------------------------------------------------------
(* The steps                                                               *)

Goes(s, next) ==
    /\ step' = [step EXCEPT ![s] = next]
    /\ UNCHANGED <<phase, hasStore, reading, reply, second, restarts, uris, paths>>

\* What a step does first; without a store a large result stays in the answer.
Begin(s) ==
    /\ step[s].at = "begin"
    /\ LET job == step[s].job
           next == CASE job.do = "save" /\ hasStore ->
                            [at |-> "open", label |-> "artifact_save_text", body |-> job.body]
                     [] job.do = "fetch" ->
                            IF hasStore /\ Large(job.body)
                            THEN [at |-> "open", label |-> "fetch", body |-> job.body]
                            ELSE Done(TRUE, {})
                     [] job.do = "download" /\ hasStore ->
                            [at |-> "open", label |-> "download", body |-> job.body]
                     [] job.do = "append" /\ hasStore /\ Get(job.id) # {} ->
                            [at |-> "read", item |-> ItemOf(job.id), text |-> job.text]
                     [] job.do = "list" /\ hasStore -> Done(TRUE, Listed(job.limit))
                     [] job.do = "search" /\ hasStore -> Done(TRUE, Found(job.label))
                     [] OTHER -> Done(FALSE, {})
       IN  Goes(s, next)
    /\ UNCHANGED <<storeVars, begun>>

\* The bytes are appended to as they are; a file that cannot be read ends the step.
artifactAppendText(s) ==
    /\ step[s].at = "read"
    /\ \/ Goes(s, [at |-> "open", label |-> "artifact_append_text",
                   body |-> Appended(files[step[s].item.path], step[s].text)])
       \/ Goes(s, Done(FALSE, {}))
    /\ UNCHANGED <<storeVars, begun>>

\* StoreBytes and MaybeStore.
Open(s) ==
    /\ step[s].at = "open"
    /\ LET path == Filename(step[s].label, second, step[s].body) IN
       \/ Truncate(path) /\ Goes(s, [at |-> "write", path |-> path, body |-> step[s].body])
       \/ OpenFails /\ Goes(s, Done(FALSE, {}))
    /\ UNCHANGED begun

Finish(s) ==
    /\ step[s].at = "write"
    /\ WriteEnds(step[s].path, step[s].body)
    /\ Goes(s, [step[s] EXCEPT !.at = "index"])
    /\ UNCHANGED begun

Fail(s) ==
    /\ step[s].at = "write"
    /\ WriteFails(step[s].path, step[s].body)
    /\ Goes(s, Done(FALSE, {}))
    /\ UNCHANGED begun

Register(s) ==
    /\ step[s].at = "index"
    /\ Index(step[s].path, step[s].body)
    /\ Goes(s, Done(TRUE, {[id |-> step[s].body, path |-> step[s].path]}))
    /\ UNCHANGED begun

-----------------------------------------------------------------------------
(* The process and its client                                              *)

Tick ==
    /\ second < MaxSecond /\ second' = second + 1
    /\ UNCHANGED <<storeVars, phase, hasStore, step, reading, reply, begun, restarts, uris, paths>>

\* The end of the input ends the loop.
Eof ==
    /\ phase = "wait" /\ phase' = "down"
    /\ UNCHANGED <<storeVars, hasStore, step, reading, reply, second, begun, restarts, uris, paths>>

Writing == {step[s].path : s \in {u \in Steps : step[u].at = "write"}}

\* Killed, and started again: what is being written stays as it is.
Restart ==
    /\ restarts < MaxRestarts /\ phase # "start"
    /\ restarts' = restarts + 1
    /\ phase' = "start" /\ hasStore' = FALSE
    /\ hurt' = hurt \cup {p \in Writing : files[p] # p.sum}
    /\ byID' = <<>> /\ recent' = <<>>
    /\ step' = [s \in Steps |-> NoStep] /\ reading' = {} /\ reply' = NoReply
    /\ uris' = {}
    /\ UNCHANGED <<keepIndex, files, second, begun, paths>>

Next ==
    \/ Boot
    \/ \E line \in Lines : handleRequest(line)
    \/ handleListResources \/ ReadResource \/ WriteResponse
    \/ \E i \in Contents : handleReadResource(i)
    \/ \E some \in SUBSET Steps : \E jobs \in [some -> Calls] : handleCallTool(jobs)
    \/ PlanEnds
    \/ \E s \in Steps : Begin(s) \/ artifactAppendText(s) \/ Open(s) \/ Finish(s) \/ Fail(s)
                        \/ Register(s)
    \/ Tick \/ Eof \/ Restart

Spec == Init /\ [][Next]_vars

-----------------------------------------------------------------------------
(* Properties                                                              *)

\* The loop waits while steps run; the index has what recent has; a file is read or
\* written only under a name it has been given.
TypeOK ==
    /\ phase \in Phases /\ hasStore \in BOOLEAN /\ keepIndex \in BOOLEAN
    /\ DOMAIN files \subseteq Names
    /\ \A p \in DOMAIN files : files[p] \in Contents \cup {<<>>}
    /\ DOMAIN byID = Range(recent) /\ \A i \in DOMAIN byID : byID[i] \in DOMAIN files
    /\ hurt \subseteq DOMAIN files
    /\ step \in [Steps -> Step] /\ (phase # "plan" => \A s \in Steps : step[s] = NoStep)
    /\ reading \subseteq Item /\ (phase = "read" <=> reading # {})
    /\ reply \in Reply /\ (reply # NoReply <=> phase = "write") /\ second \in 0..MaxSecond /\ begun \in 0..MaxSteps
    /\ restarts \in 0..MaxRestarts
    /\ uris \subseteq Contents /\ paths \subseteq Item

Sound(item) == item.path \in hurt \cup Writing \/ files[item.path] = item.id

\* What a client has been told stays true: a file it was given (artifact_path) holds what
\* its artifact's hash says, over restarts too, and with the index kept
\* (MCP_LENS_ARTIFACT_KEEP_INDEX) every URI this process has handed out is found and
\* leads to such a file; unless the last write to the very file failed, was cut off, or
\* goes on (os.WriteFile in place, under a name made of tool, second and hash).
HandedOutStays ==
    /\ \A item \in paths : Sound(item)
    /\ keepIndex => \A i \in uris : i \in DOMAIN byID /\ Sound(ItemOf(i))

\* resources/read answers with the whole of what the URI names, the content itself when
\* that is text and its text when it is not, or with not found: the loop runs no request
\* beside a plan, so no step is writing.  A step of a parallel group has no such guard:
\* artifact_append_text may read a file another step is just writing again (Store.Read
\* outside the lock), and no other.
ReadIsWhole ==
    [][ /\ (phase = "read" /\ phase' = "write") =>
               \A item \in reading :
                  \/ reply' = Response("invalid params")
                  \/ /\ reply'.kind = "resource" /\ reply'.ids = {item.id}
                     /\ reply'.body = TextOf(item.id)
                     /\ item.id \in Textual => reply'.body = item.id
                  \/ item.path \in hurt
        /\ \A s \in Steps : (step[s].at = "read" /\ step'[s].at = "open") =>
               \/ step'[s].body = Append(step[s].item.id, step[s].text)
               \/ step[s].item.path \in hurt \cup Writing ]_vars
=============================================================================
