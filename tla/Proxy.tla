------------------------------- MODULE Proxy -------------------------------
(***************************************************************************)
(* The JSON-RPC client that mcp-lens keeps for its one upstream MCP server *)
(* (internal/proxy/proxy.go).  Concurrent callers share one child process: *)
(* each call registers a one-slot channel under a fresh id, writes a line  *)
(* to the child's stdin and waits for its channel or its context; a single *)
(* reader goroutine takes lines from the child's stdout and hands every    *)
(* one that carries an id to the channel registered under that id.         *)
(*                                                                         *)
(* The upstream process is the environment: it answers requests in any     *)
(* order, may answer one twice, may send requests of its own (MCP lets a   *)
(* server ping its client, and ask for the roots this client announces),   *)
(* may print lines the client skips, and may die.                          *)
(***************************************************************************)
EXTENDS Integers, Sequences, FiniteSets

CONSTANTS
    Callers,        \* goroutines that use the proxy
    MaxID,          \* bound on nextID: how many requests a behaviour issues
    PipeCap,        \* lines a pipe holds before its writer blocks
    MaxAnswers,     \* how often upstream may answer one request
    MayCrash,       \* upstream may die
    Operations,     \* the exported operations in play, of "list" and "call"
    OwnIDs,         \* the ids upstream may give requests of its own
    MaxOwn,         \* how many unasked lines upstream may print
    NoCaller        \* nobody

ASSUME ProxyAssumption ==
    /\ MaxID \in Nat /\ PipeCap \in Nat \ {0} /\ MaxAnswers \in Nat
    /\ MayCrash \in BOOLEAN /\ MaxOwn \in Nat
    /\ Operations \subseteq {"list", "call"} /\ Operations # {}
    /\ OwnIDs \subseteq 1..MaxID
    /\ NoCaller \notin Callers

VARIABLES
    pc,             \* where each caller is
    op,             \* the exported operation it runs: "list" or "call"
    stage,          \* the request it has under way: "initialize" or its op
    id,             \* the id of that request, 0 when none
    reply,          \* what ended the request, or the operation
    cancelled,      \* callers whose context is done
    nextID,         \* p.nextID
    pending,        \* the ids registered in p.pending
    slot,           \* the one-slot channel created for each id
    initMu,         \* holder of p.initMu
    initialized,    \* p.initialized
    stdin,          \* lines written to upstream and not yet read
    stdout,         \* lines printed by upstream and not yet read
    reader,         \* the readResponses goroutine
    alive,          \* the upstream process runs
    asked,          \* requests upstream has read
    answers,        \* how many lines carrying an id upstream has printed
    own,            \* how many unasked lines upstream has printed
    greeted         \* upstream has read notifications/initialized

callerVars   == <<pc, op, stage, id, reply, cancelled>>
tableVars    == <<nextID, pending, slot>>
initVars     == <<initMu, initialized>>
upstreamVars == <<alive, asked, answers, own, greeted>>
vars == <<callerVars, tableVars, initVars, stdin, stdout, reader, upstreamVars>>

IDs        == 1..MaxID
Stages     == Operations \cup {"initialize"}
Request    == [type : {"request"}, id : IDs, method : Stages]
Notified   == [type |-> "initialized"]
Response   == [type : {"result", "error"}, id : IDs, method : Stages]
\* A request upstream makes itself: it has an id, and no result and no error.
OwnRequest == [type : {"request"}, id : IDs, method : {"ping"}]
Noise      == [type |-> "noise"]        \* no JSON, no id, or an id of another type
WithID     == Response \cup OwnRequest
Nothing    == [type |-> "nothing"]
Failure    == [type |-> "failure"]      \* the Go error of a call
ToolError  == [type |-> "toolError"]    \* a CallToolResult with IsError

Init ==
    /\ pc = [c \in Callers |-> "idle"]
    /\ op \in [Callers -> {CHOOSE o \in Operations : TRUE}]
    /\ stage = [c \in Callers |-> "initialize"]
    /\ id = [c \in Callers |-> 0]
    /\ reply = [c \in Callers |-> Nothing]
    /\ cancelled = {}
    /\ nextID = 0 /\ pending = {} /\ slot = [i \in IDs |-> <<>>]
    /\ initMu = NoCaller /\ initialized = FALSE
    /\ stdin = <<>> /\ stdout = <<>>
    /\ reader = [at |-> "read"]
    /\ alive = TRUE /\ asked = {}
    /\ answers = [i \in IDs |-> 0] /\ own = 0 /\ greeted = FALSE

Goto(c, at) == pc' = [pc EXCEPT ![c] = at]
Return(c, r) == /\ Goto(c, "idle")
                /\ reply' = [reply EXCEPT ![c] = r]

-----------------------------------------------------------------------------
(* Callers                                                                 *)

\* Ids enough are left for every operation under way to make both its calls.
Budget == nextID + 2 * (1 + Cardinality({c \in Callers : pc[c] # "idle"})) <= MaxID

\* ListTools or CallTool is entered; both begin with Initialize.
Begin(c, o) ==
    /\ pc[c] = "idle" /\ Budget
    /\ Goto(c, "lock")
    /\ op' = [op EXCEPT ![c] = o]
    /\ reply' = [reply EXCEPT ![c] = Nothing]
    /\ UNCHANGED <<stage, id, cancelled, tableVars, initVars, stdin, stdout,
                   reader, upstreamVars>>

\* Mutants of InitMuFree and HandshakeMade: nobody waits for initMu; a handshake
\* that was begun counts as made.
NeverLocked      == TRUE
HandshakeStarted == initialized \/ nextID > 0

InitMuFree    == initMu = NoCaller
HandshakeMade == initialized

\* Initialize takes initMu, which does not watch the context, and returns at
\* once when the handshake has been made.
LockInit(c) ==
    /\ pc[c] = "lock" /\ InitMuFree
    /\ IF HandshakeMade
          THEN /\ stage' = [stage EXCEPT ![c] = op[c]]
               /\ UNCHANGED initMu
          ELSE /\ stage' = [stage EXCEPT ![c] = "initialize"]
               /\ initMu' = c
    /\ Goto(c, "register")
    /\ UNCHANGED <<op, id, reply, cancelled, tableVars, initialized, stdin,
                   stdout, reader, upstreamVars>>

\* Mutants of NewID: the counter's old value; the smallest id not in use.
OldID    == nextID
UnusedID == CHOOSE i \in IDs \ pending : \A j \in IDs \ pending : i <= j

NewID == nextID + 1

\* call: take a fresh id and register a new channel for it.
Register(c) ==
    /\ pc[c] = "register" /\ nextID < MaxID
    /\ nextID' = nextID + 1
    /\ id' = [id EXCEPT ![c] = NewID]
    /\ pending' = pending \cup {NewID}
    /\ slot' = [slot EXCEPT ![NewID] = <<>>]
    /\ Goto(c, "write")
    /\ UNCHANGED <<op, stage, reply, cancelled, initVars, stdin, stdout, reader,
                   upstreamVars>>

PipeWritable == alive /\ Len(stdin) < PipeCap
PipeBroken   == ~alive

\* call: write the request; the write blocks while the pipe is full and fails
\* once upstream is gone.
Write(c) ==
    /\ pc[c] = "write"
    /\ \/ /\ PipeWritable
          /\ stdin' = Append(stdin, [type |-> "request", id |-> id[c],
                                     method |-> stage[c]])
          /\ Goto(c, "wait") /\ UNCHANGED reply
       \/ /\ PipeBroken
          /\ reply' = [reply EXCEPT ![c] = Failure]
          /\ Goto(c, "leave") /\ UNCHANGED stdin
    /\ UNCHANGED <<op, stage, id, cancelled, tableVars, initVars, stdout,
                   reader, upstreamVars>>

\* call: the select takes the response from the channel ...
Receive(c) ==
    /\ pc[c] = "wait" /\ slot[id[c]] # <<>>
    /\ reply' = [reply EXCEPT ![c] = Head(slot[id[c]])]
    /\ slot' = [slot EXCEPT ![id[c]] = Tail(@)]
    /\ Goto(c, "leave")
    /\ UNCHANGED <<op, stage, id, cancelled, nextID, pending, initVars, stdin,
                   stdout, reader, upstreamVars>>

\* Mutants of GivesUp: the wait ends by itself; the handshake ignores the context.
GivesUpAnyTime(c) == TRUE
GivesUpLater(c)   == c \in cancelled /\ stage[c] # "initialize"

GivesUp(c) == c \in cancelled

\* ... or the context's end.
Abandon(c) ==
    /\ pc[c] = "wait" /\ GivesUp(c)
    /\ reply' = [reply EXCEPT ![c] = Failure]
    /\ Goto(c, "leave")
    /\ UNCHANGED <<op, stage, id, cancelled, tableVars, initVars, stdin, stdout,
                   reader, upstreamVars>>

\* call's deferred delete, then what Initialize, ListTools or CallTool does
\* with the response: an error of the initialize call ends the operation and
\* frees initMu; a tool call turns a JSON-RPC error into an IsError result; a
\* message without a result does not parse.
Outcome(c) ==
    CASE reply[c].type = "error" /\ stage[c] = "call" -> ToolError
      [] reply[c].type \in {"error", "request"}       -> Failure
      [] OTHER                                        -> reply[c]

InitializeFailed(c) == reply[c].type \in {"failure", "error"}

\* Mutant of Remaining: the entry is deleted only after a response.
RemainingAnswered(c) == IF reply[c] = Failure THEN pending ELSE pending \ {id[c]}
\* Mutant of Unlocked: the early return of a failed handshake keeps initMu.
StillLocked(c) == initMu

Remaining(c) == pending \ {id[c]}
Unlocked(c)  == NoCaller

Leave(c) ==
    /\ pc[c] = "leave"
    /\ pending' = Remaining(c)
    /\ IF stage[c] # "initialize"
          THEN Return(c, Outcome(c)) /\ UNCHANGED initMu
          ELSE IF InitializeFailed(c)
                  THEN Return(c, Failure) /\ initMu' = Unlocked(c)
                  ELSE Goto(c, "notify") /\ UNCHANGED <<reply, initMu>>
    /\ id' = [id EXCEPT ![c] = 0]
    /\ UNCHANGED <<op, stage, cancelled, nextID, slot, initialized, stdin,
                   stdout, reader, upstreamVars>>

\* Initialize: the initialized notification, then the flag and the unlock.
Notify(c) ==
    /\ pc[c] = "notify"
    /\ \/ /\ PipeWritable
          /\ stdin' = Append(stdin, Notified)
          /\ initialized' = TRUE
          /\ stage' = [stage EXCEPT ![c] = op[c]]
          /\ Goto(c, "register") /\ UNCHANGED reply
       \/ /\ PipeBroken
          /\ Return(c, Failure)
          /\ UNCHANGED <<stdin, initialized, stage>>
    /\ initMu' = NoCaller
    /\ UNCHANGED <<op, id, cancelled, tableVars, stdout, reader, upstreamVars>>

\* The context of a caller ends.
Cancel(c) ==
    /\ c \notin cancelled /\ pc[c] # "idle"
    /\ cancelled' = cancelled \cup {c}
    /\ UNCHANGED <<pc, op, stage, id, reply, tableVars, initVars, stdin, stdout,
                   reader, upstreamVars>>

-----------------------------------------------------------------------------
(* readResponses                                                           *)

\* One line: skipped, or looked up in pending under its mutex.
ReadLine ==
    /\ reader.at = "read" /\ stdout # <<>>
    /\ stdout' = Tail(stdout)
    /\ reader' = IF Head(stdout) \in WithID /\ Head(stdout).id \in pending
                    THEN [at |-> "send", msg |-> Head(stdout)]
                    ELSE reader
    /\ UNCHANGED <<callerVars, tableVars, initVars, stdin, upstreamVars>>

\* Mutant of Delivered: the response is sent again for as long as it is awaited.
DeliveredAgain(m) == IF m.id \in pending THEN reader ELSE [at |-> "read"]

Delivered(m) == [at |-> "read"]

\* ch <- &resp, outside the mutex: it blocks while the slot is taken.
Deliver ==
    /\ reader.at = "send" /\ slot[reader.msg.id] = <<>>
    /\ slot' = [slot EXCEPT ![reader.msg.id] = Append(@, reader.msg)]
    /\ reader' = Delivered(reader.msg)
    /\ UNCHANGED <<callerVars, nextID, pending, initVars, stdin, stdout,
                   upstreamVars>>

\* End of file: the goroutine returns and tells nobody.
ReadEOF ==
    /\ reader.at = "read" /\ stdout = <<>> /\ ~alive
    /\ reader' = [at |-> "exited"]
    /\ UNCHANGED <<callerVars, tableVars, initVars, stdin, stdout, upstreamVars>>

-----------------------------------------------------------------------------
(* The upstream process                                                    *)

UpstreamRead ==
    /\ alive /\ stdin # <<>>
    /\ stdin' = Tail(stdin)
    /\ IF Head(stdin) = Notified
          THEN greeted' = TRUE /\ UNCHANGED asked
          ELSE asked' = asked \cup {Head(stdin)} /\ UNCHANGED greeted
    /\ UNCHANGED <<callerVars, tableVars, initVars, stdout, reader, alive,
                   answers, own>>

PrintLine(line) ==
    /\ alive /\ Len(stdout) < PipeCap
    /\ stdout' = Append(stdout, line)
    /\ UNCHANGED <<callerVars, tableVars, initVars, stdin, reader, alive,
                   asked, greeted>>

UpstreamAnswer(q, type) ==
    /\ answers[q.id] < MaxAnswers
    /\ PrintLine([type |-> type, id |-> q.id, method |-> q.method])
    /\ answers' = [answers EXCEPT ![q.id] = @ + 1]
    /\ UNCHANGED own

AnswerSome == \E q \in asked, type \in {"result", "error"} : UpstreamAnswer(q, type)

UpstreamRequest(i) ==
    /\ own < MaxOwn /\ own' = own + 1
    /\ PrintLine([type |-> "request", id |-> i, method |-> "ping"])
    /\ answers' = [answers EXCEPT ![i] = @ + 1]

UpstreamNoise ==
    /\ own < MaxOwn /\ own' = own + 1
    /\ PrintLine(Noise)
    /\ UNCHANGED answers

\* The process dies by itself, or Stop closes its stdin and kills it; what it
\* printed stays in the pipe.
Stop ==
    /\ MayCrash /\ alive
    /\ alive' = FALSE
    /\ UNCHANGED <<callerVars, tableVars, initVars, stdin, stdout, reader,
                   asked, answers, own, greeted>>

-----------------------------------------------------------------------------
CallerStep(c) == \/ LockInit(c) \/ Register(c) \/ Write(c) \/ Receive(c)
                 \/ Abandon(c) \/ Leave(c) \/ Notify(c)
ReaderStep    == ReadLine \/ Deliver \/ ReadEOF

Next ==
    \/ \E c \in Callers : \/ CallerStep(c) \/ Cancel(c)
                          \/ \E o \in Operations : Begin(c, o)
    \/ ReaderStep
    \/ UpstreamRead \/ UpstreamNoise \/ Stop
    \/ AnswerSome
    \/ \E i \in OwnIDs : UpstreamRequest(i)

Spec == Init /\ [][Next]_vars

\* Goroutines run, and Go's mutex and the pipe's write lock starve nobody: a
\* caller that can move again and again moves.
Fairness == WF_vars(ReaderStep) /\ \A c \in Callers : SF_vars(CallerStep(c))

\* An upstream that lives reads its input and goes on answering.
UpstreamFairness == WF_vars(UpstreamRead) /\ SF_vars(AnswerSome)

FairSpec == Spec /\ Fairness

-----------------------------------------------------------------------------
(* Properties                                                              *)

\* The type invariant.
TypeOK ==
    /\ pc \in [Callers -> {"idle", "lock", "register", "write", "wait", "leave",
                           "notify"}]
    /\ op \in [Callers -> Operations]
    /\ stage \in [Callers -> Stages]
    /\ id \in [Callers -> 0..MaxID]
    /\ reply \in [Callers -> WithID \cup {Nothing, Failure, ToolError}]
    /\ cancelled \subseteq Callers
    /\ nextID \in 0..MaxID /\ pending \subseteq IDs
    /\ slot \in [IDs -> Seq(WithID)]
    /\ initMu \in Callers \cup {NoCaller} /\ initialized \in BOOLEAN
    /\ stdin \in Seq(Request \cup {Notified})
    /\ stdout \in Seq(WithID \cup {Noise})
    /\ reader \in [at : {"read", "exited"}] \cup [at : {"send"}, msg : WithID]
    /\ alive \in BOOLEAN /\ greeted \in BOOLEAN
    /\ asked \subseteq Request /\ answers \in [IDs -> Nat] /\ own \in Nat

\* What a call takes from its channel carries the id it registered, and a
\* response it takes answers the very request it sent, whatever the order in
\* which upstream answers, repeats or delays, and whoever left in between.
ReplyIsOwn ==
    \A c \in Callers :
        pc[c] = "leave" /\ reply[c] # Failure =>
            /\ reply[c].id = id[c]
            /\ reply[c].type \in {"result", "error"} => reply[c].method = stage[c]

\* The comment of readResponses, "Match response to pending request": what
\* reaches a caller is a response.
ReplyIsResponse ==
    \A c \in Callers : pc[c] = "leave" => reply[c].type # "request"

InCall(c) == pc[c] \in {"write", "wait", "leave"}

\* p.pending holds exactly the calls under way, each under an id of its own: no
\* path out of call leaves an entry behind and none removes another call's.
PendingExact ==
    /\ pending = {id[c] : c \in {d \in Callers : InCall(d)}}
    /\ \A c, d \in Callers : InCall(c) /\ InCall(d) /\ id[c] = id[d] => c = d

\* Upstream never reads a tools/list or tools/call before the initialized
\* notification, however many callers race through their first operation.
HandshakeFirst ==
    /\ \A q \in asked : q.method \in Operations => greeted
    /\ \A i \in DOMAIN stdin :
          stdin[i].type = "request" /\ stdin[i].method \in Operations =>
              greeted \/ \E j \in 1..(i - 1) : stdin[j] = Notified

\* The reader goroutine blocks on a full channel only when upstream has printed
\* more than one line with that id.
ReaderBlocksOnlyOnRepeat ==
    reader.at = "send" /\ slot[reader.msg.id] # <<>> => answers[reader.msg.id] > 1

\* No initialize request is written once the handshake is complete.
NoSecondHandshake ==
    [][initialized => \A c \in Callers : ~(Write(c) /\ stage[c] = "initialize")]_vars

\* A call still waiting, with nothing in its channel, when the reader has gone
\* goes on waiting until its context ends: nothing else can wake it.
Orphan(c) == pc[c] = "wait" /\ slot[id[c]] = <<>> /\ reader.at = "exited"
OnlyContextEndsOrphans ==
    [][\A c \in Callers : Orphan(c) /\ c \notin cancelled => Orphan(c)']_vars

\* A waiting call whose context ends gets out of call, even when the reader is
\* blocked or gone and whatever upstream does.  The wait for initMu watches no
\* context, but its holder's wait does: once every caller's context has ended nobody
\* goes on waiting for it, as long as no pipe stays full for ever.
CancelledCallReturns ==
    /\ \A c \in Callers : pc[c] = "wait" /\ c \in cancelled
                             ~> pc[c] \in {"idle", "notify"}
    /\ []<>(PipeWritable \/ PipeBroken) =>
           \A c \in Callers : pc[c] = "lock" /\ cancelled = Callers ~> pc[c] # "lock"

\* With an upstream that lives, answers each request once and prints nothing
\* else, every operation returns.
OperationReturns ==
    UpstreamFairness /\ [](alive /\ own = 0) =>
        \A c \in Callers : pc[c] # "idle" ~> pc[c] = "idle"
=============================================================================
