----------------------------- MODULE ProxyProofs -----------------------------
(***************************************************************************)
(* Proofs about Proxy, for any number of callers, any bound on the ids,    *)
(* any pipe size and any upstream of the module: types, the pending table, *)
(* that a caller receives the answer to its own request, the handshake,    *)
(* and what the reader goroutine waits for and leaves behind.              *)
(***************************************************************************)
EXTENDS Proxy, TLAPS

\* A queue keeps its type when one of its elements' type is appended.
LEMMA AppendType ==
    ASSUME NEW S, NEW s \in Seq(S), NEW e \in S
    PROVE  Append(s, e) \in Seq(S)
OBVIOUS

TypeInv == TypeOK /\ \A c \in Callers : InCall(c) => id[c] \in IDs

LEMMA TypeInit == Init => TypeInv
<1> SUFFICES ASSUME Init PROVE TypeInv
  OBVIOUS
<1>1. (CHOOSE o \in Operations : TRUE) \in Operations
  BY ProxyAssumption
<1>2. op \in [Callers -> Operations]
  BY <1>1 DEF Init
<1>3. /\ slot \in [IDs -> Seq(WithID)] /\ answers \in [IDs -> Nat]
      /\ stdin \in Seq(Request \cup {Notified}) /\ stdout \in Seq(WithID \cup {Noise})
  BY DEF Init
<1>4. /\ stage \in [Callers -> Stages] /\ id \in [Callers -> 0..MaxID]
      /\ reply \in [Callers -> WithID \cup {Nothing, Failure, ToolError}]
      /\ nextID \in 0..MaxID
  BY ProxyAssumption DEF Init, Stages
<1> QED BY <1>2, <1>3, <1>4 DEF Init, TypeInv, TypeOK, InCall

LEMMA OutcomeType ==
    ASSUME TypeOK, NEW c \in Callers
    PROVE  Outcome(c) \in WithID \cup {Nothing, Failure, ToolError}
BY DEF TypeOK, Outcome

LEMMA TypeStep == TypeInv /\ [Next]_vars => TypeInv'
<1> SUFFICES ASSUME TypeInv, [Next]_vars PROVE TypeInv'
  OBVIOUS
<1> USE ProxyAssumption DEF TypeInv, TypeOK, InCall, callerVars, tableVars, initVars,
                            upstreamVars, Goto, Return
<1>1. ASSUME NEW c \in Callers, NEW o \in Operations, Begin(c, o) PROVE TypeInv'
  BY <1>1 DEF Begin
<1>2. ASSUME NEW c \in Callers, LockInit(c) PROVE TypeInv'
  BY <1>2 DEF LockInit, Stages
<1>3. ASSUME NEW c \in Callers, Register(c) PROVE TypeInv'
  <2>1. NewID \in 0..MaxID /\ NewID \in IDs
    BY <1>3 DEF Register, NewID, IDs
  <2>2. <<>> \in Seq(WithID)
    OBVIOUS
  <2>3. slot' \in [IDs -> Seq(WithID)]
    BY <1>3, <2>2 DEF Register
  <2> QED BY <1>3, <2>1, <2>3 DEF Register, NewID
<1>4. ASSUME NEW c \in Callers, Write(c) PROVE TypeInv'
  <2>1. [type |-> "request", id |-> id[c], method |-> stage[c]] \in Request
    BY <1>4 DEF Write, Request
  <2> DEFINE line == [type |-> "request", id |-> id[c], method |-> stage[c]]
  <2>2. Append(stdin, line) \in Seq(Request \cup {Notified})
    BY <2>1, AppendType
  <2>3. stdin' = stdin \/ stdin' = Append(stdin, line)
    BY <1>4 DEF Write
  <2>4. stdin' \in Seq(Request \cup {Notified})
    BY <2>2, <2>3
  <2> QED BY <1>4, <2>4 DEF Write
<1>5. ASSUME NEW c \in Callers, Receive(c) PROVE TypeInv'
  <2>1. id[c] \in IDs /\ slot[id[c]] \in Seq(WithID) /\ slot[id[c]] # <<>>
    BY <1>5 DEF Receive
  <2>2. Head(slot[id[c]]) \in WithID /\ Tail(slot[id[c]]) \in Seq(WithID)
    BY <2>1
  <2> QED BY <1>5, <2>1, <2>2 DEF Receive
<1>6. ASSUME NEW c \in Callers, Abandon(c) PROVE TypeInv'
  BY <1>6 DEF Abandon
<1>7. ASSUME NEW c \in Callers, Leave(c) PROVE TypeInv'
  <2>1. Outcome(c) \in WithID \cup {Nothing, Failure, ToolError}
    BY OutcomeType
  <2>2. /\ reply' = [reply EXCEPT ![c] = Outcome(c)] \/ reply' = [reply EXCEPT ![c] = Failure]
              \/ reply' = reply
        /\ pc' = [pc EXCEPT ![c] = "idle"] \/ pc' = [pc EXCEPT ![c] = "notify"]
        /\ initMu' = initMu \/ initMu' = NoCaller
        /\ pending' = pending \ {id[c]} /\ id' = [id EXCEPT ![c] = 0]
        /\ UNCHANGED <<op, stage, cancelled, nextID, slot, initialized, stdin, stdout,
                       reader, upstreamVars>>
    BY <1>7 DEF Leave, Remaining, Unlocked
  <2>3. reply' \in [Callers -> WithID \cup {Nothing, Failure, ToolError}]
    <3> DEFINE R == WithID \cup {Nothing, Failure, ToolError}
    <3>1. reply \in [Callers -> R] /\ Outcome(c) \in R /\ Failure \in R
      BY <2>1
    <3> HIDE DEF R
    <3>2. [reply EXCEPT ![c] = Outcome(c)] \in [Callers -> R]
      BY <3>1
    <3>3. [reply EXCEPT ![c] = Failure] \in [Callers -> R]
      BY <3>1
    <3>4. reply' \in [Callers -> R]
      BY <2>2, <3>1, <3>2, <3>3
    <3> QED BY <3>4 DEF R
  <2>4. pc' \in [Callers -> {"idle", "lock", "register", "write", "wait", "leave", "notify"}]
    BY <2>2
  <2>5. /\ id' \in [Callers -> 0..MaxID] /\ pending' \subseteq IDs
        /\ initMu' \in Callers \cup {NoCaller}
    BY <2>2
  <2>6. \A d \in Callers : InCall(d)' => id'[d] \in IDs
    BY <2>2
  <2> QED BY <2>2, <2>3, <2>4, <2>5, <2>6
<1>8. ASSUME NEW c \in Callers, Notify(c) PROVE TypeInv'
  <2>1. Append(stdin, Notified) \in Seq(Request \cup {Notified})
    BY AppendType
  <2>2. stdin' = stdin \/ stdin' = Append(stdin, Notified)
    BY <1>8 DEF Notify
  <2>3. stdin' \in Seq(Request \cup {Notified})
    BY <2>1, <2>2
  <2> QED BY <1>8, <2>3 DEF Notify, Stages
<1>9. ASSUME NEW c \in Callers, Cancel(c) PROVE TypeInv'
  BY <1>9 DEF Cancel
<1>10. CASE ReadLine
  <2>1. stdout' \in Seq(WithID \cup {Noise})
    BY <1>10 DEF ReadLine
  <2> QED BY <1>10, <2>1 DEF ReadLine
<1>11. CASE Deliver
  <2>1. reader.msg \in WithID /\ reader.msg.id \in IDs
    BY <1>11 DEF Deliver, WithID, Response, OwnRequest
  <2>2. slot' \in [IDs -> Seq(WithID)]
    BY <1>11, <2>1 DEF Deliver
  <2> QED BY <1>11, <2>2 DEF Deliver, Delivered
<1>12. CASE ReadEOF
  BY <1>12 DEF ReadEOF
<1>13. CASE UpstreamRead
  <2>1. Head(stdin) \in Request \cup {Notified} /\ Tail(stdin) \in Seq(Request \cup {Notified})
    BY <1>13 DEF UpstreamRead
  <2> QED BY <1>13, <2>1 DEF UpstreamRead
<1>14. ASSUME NEW q \in asked, NEW type \in {"result", "error"}, UpstreamAnswer(q, type)
       PROVE TypeInv'
  <2>1. [type |-> type, id |-> q.id, method |-> q.method] \in WithID /\ q.id \in IDs
    BY DEF Request, WithID, Response
  <2>2. stdout' \in Seq(WithID \cup {Noise})
    BY <1>14, <2>1 DEF UpstreamAnswer, PrintLine
  <2> QED BY <1>14, <2>1, <2>2 DEF UpstreamAnswer, PrintLine
<1>15. ASSUME NEW i \in OwnIDs, UpstreamRequest(i) PROVE TypeInv'
  <2>1. [type |-> "request", id |-> i, method |-> "ping"] \in WithID /\ i \in IDs
    BY DEF IDs, WithID, OwnRequest
  <2>2. stdout' \in Seq(WithID \cup {Noise})
    BY <1>15, <2>1 DEF UpstreamRequest, PrintLine
  <2> QED BY <1>15, <2>1, <2>2 DEF UpstreamRequest, PrintLine
<1>16. CASE UpstreamNoise
  <2>1. stdout' \in Seq(WithID \cup {Noise})
    BY <1>16 DEF UpstreamNoise, PrintLine
  <2> QED BY <1>16, <2>1 DEF UpstreamNoise, PrintLine
<1>17. CASE Stop
  BY <1>17 DEF Stop
<1>18. CASE UNCHANGED vars
  BY <1>18 DEF vars
<1> HIDE DEF TypeInv
<1> QED BY <1>1, <1>2, <1>3, <1>4, <1>5, <1>6, <1>7, <1>8, <1>9, <1>10, <1>11, <1>12,
           <1>13, <1>14, <1>15, <1>16, <1>17, <1>18
        DEF Next, CallerStep, ReaderStep, AnswerSome

\* The proxy keeps its types.
THEOREM TypeCorrect == Spec => []TypeOK
<1>1. TypeInv => TypeOK
  BY DEF TypeInv
<1> QED BY <1>1, TypeInit, TypeStep, PTL DEF Spec

-----------------------------------------------------------------------------
(* The pending table                                                       *)

\* Ids are handed out once: those in use are at most nextID.
IDsIssued == \A c \in Callers : InCall(c) => id[c] <= nextID
PendingInv == TypeInv /\ IDsIssued /\ PendingExact

LEMMA PendingInit == Init => PendingInv
BY TypeInit DEF Init, PendingInv, IDsIssued, PendingExact, InCall

LEMMA PendingStep == PendingInv /\ [Next]_vars => PendingInv'
<1> SUFFICES ASSUME PendingInv, [Next]_vars PROVE IDsIssued' /\ PendingExact'
  BY TypeStep DEF PendingInv
<1>a. /\ pc \in [Callers -> {"idle", "lock", "register", "write", "wait", "leave", "notify"}]
      /\ id \in [Callers -> 0..MaxID] /\ nextID \in 0..MaxID
      /\ IDsIssued /\ PendingExact
  BY DEF PendingInv, TypeInv, TypeOK
<1> USE <1>a, ProxyAssumption DEF IDsIssued, PendingExact, InCall
\* Steps that leave who is in a call, and under which id, as they are.
<1>1. CASE /\ UNCHANGED <<id, nextID, pending>>
           /\ \A c \in Callers : InCall(c)' = InCall(c)
  BY <1>1
<1>2. ASSUME NEW c \in Callers, Register(c) PROVE IDsIssued' /\ PendingExact'
  <2>1. /\ pc' = [pc EXCEPT ![c] = "write"] /\ id' = [id EXCEPT ![c] = nextID + 1]
        /\ nextID' = nextID + 1 /\ pending' = pending \cup {nextID + 1}
        /\ pc[c] = "register"
    BY <1>2 DEF Register, NewID, Goto
  <2> QED BY <2>1
<1>3. ASSUME NEW c \in Callers, Leave(c) PROVE IDsIssued' /\ PendingExact'
  <2>1. /\ pc[c] = "leave" /\ pc'[c] \notin {"write", "wait", "leave"}
        /\ \A d \in Callers : d # c => pc'[d] = pc[d] /\ id'[d] = id[d]
        /\ pending' = pending \ {id[c]} /\ UNCHANGED nextID
    BY <1>3 DEF Leave, Remaining, Return, Goto
  <2> QED BY <2>1
<1>4. \/ \E c \in Callers : Register(c) \/ Leave(c)
      \/ /\ UNCHANGED <<id, nextID, pending>>
         /\ \A c \in Callers : InCall(c)' = InCall(c)
  <2> USE DEF callerVars, tableVars, initVars, upstreamVars, Goto, Return
  <2>1. ASSUME NEW c \in Callers, NEW o \in Operations, Begin(c, o) PROVE <1>4
    BY <2>1 DEF Begin
  <2>2. ASSUME NEW c \in Callers, LockInit(c) \/ Notify(c) PROVE <1>4
    BY <2>2 DEF LockInit, Notify
  <2>3. ASSUME NEW c \in Callers, Write(c) \/ Receive(c) \/ Abandon(c) PROVE <1>4
    BY <2>3 DEF Write, Receive, Abandon
  <2>4. ASSUME NEW c \in Callers, Cancel(c) PROVE <1>4
    BY <2>4 DEF Cancel
  <2>5. CASE ReaderStep \/ UpstreamRead \/ UpstreamNoise \/ Stop \/ AnswerSome
             \/ \E i \in OwnIDs : UpstreamRequest(i)
    BY <2>5 DEF ReaderStep, ReadLine, Deliver, ReadEOF, UpstreamRead, UpstreamNoise, Stop,
                AnswerSome, UpstreamAnswer, UpstreamRequest, PrintLine
  <2>6. CASE UNCHANGED vars
    BY <2>6 DEF vars
  <2> QED BY <2>1, <2>2, <2>3, <2>4, <2>5, <2>6 DEF Next, CallerStep
<1> QED BY <1>1, <1>2, <1>3, <1>4

\* No path out of call leaves an entry behind, and no two calls share one.
THEOREM PendingIsExact == Spec => []PendingExact
<1>1. PendingInv => PendingExact
  BY DEF PendingInv
<1> QED BY <1>1, PendingInit, PendingStep, PTL DEF Spec

-----------------------------------------------------------------------------
(* Answers                                                                 *)

\* A message with an id belongs to the one request that was sent under this id.
Matches(m) == /\ m.id <= nextID
              /\ \A c \in Callers : InCall(c) /\ m.id = id[c] => m.method = stage[c]

Agreement ==
    /\ \A k \in DOMAIN stdin : stdin[k] \in Request => Matches(stdin[k])
    /\ \A m \in asked : Matches(m)
    /\ \A k \in DOMAIN stdout : stdout[k] \in Response => Matches(stdout[k])
    /\ reader.at = "send" /\ reader.msg \in Response => Matches(reader.msg)
    /\ \A i \in IDs : \A k \in DOMAIN slot[i] :
          /\ slot[i][k].id = i
          /\ slot[i][k] \in Response => Matches(slot[i][k])
    /\ \A c \in Callers : pc[c] = "leave" /\ reply[c] # Failure =>
          /\ reply[c] \in WithID /\ reply[c].id = id[c]
          /\ reply[c] \in Response => Matches(reply[c])

ReplyInv == PendingInv /\ Agreement

LEMMA ReplyInit == Init => ReplyInv
BY PendingInit DEF Init, ReplyInv, Agreement

\* A message keeps belonging to its request: ids are never used again.
LEMMA MatchesStep ==
    ASSUME PendingInv, [Next]_vars
    PROVE  \A m : m.id \in IDs /\ Matches(m) =>
              /\ m.id <= nextID'
              /\ \A c \in Callers : InCall(c)' /\ m.id = id'[c] => m.method = stage'[c]
<1> SUFFICES ASSUME NEW m, m.id \in IDs, Matches(m)
             PROVE  /\ m.id <= nextID'
                    /\ \A c \in Callers : InCall(c)' /\ m.id = id'[c] => m.method = stage'[c]
  OBVIOUS
<1>a. /\ pc \in [Callers -> {"idle", "lock", "register", "write", "wait", "leave", "notify"}]
      /\ id \in [Callers -> 0..MaxID] /\ nextID \in 0..MaxID
      /\ stage \in [Callers -> Stages] /\ MaxID \in Nat
  BY ProxyAssumption DEF PendingInv, TypeInv, TypeOK
<1> USE <1>a DEF IDs
<1> USE DEF Matches, InCall
<1>1. CASE /\ UNCHANGED nextID
           /\ \A c \in Callers : InCall(c)' => /\ InCall(c)
                                               /\ id'[c] = id[c] /\ stage'[c] = stage[c]
  BY <1>1
<1>2. ASSUME NEW c \in Callers, Register(c)
      PROVE  /\ m.id <= nextID'
             /\ \A d \in Callers : InCall(d)' /\ m.id = id'[d] => m.method = stage'[d]
  <2>1. /\ pc' = [pc EXCEPT ![c] = "write"] /\ id' = [id EXCEPT ![c] = nextID + 1]
        /\ nextID' = nextID + 1 /\ UNCHANGED stage
    BY <1>2 DEF Register, NewID, Goto
  <2> QED BY <2>1
<1>3. \/ \E c \in Callers : Register(c)
      \/ /\ UNCHANGED nextID
         /\ \A c \in Callers : InCall(c)' => /\ InCall(c)
                                             /\ id'[c] = id[c] /\ stage'[c] = stage[c]
  <2> USE DEF callerVars, tableVars, initVars, upstreamVars, Goto, Return
  <2>1. ASSUME NEW c \in Callers, NEW o \in Operations, Begin(c, o) PROVE <1>3
    BY <2>1 DEF Begin
  <2>2. ASSUME NEW c \in Callers, LockInit(c) PROVE <1>3
    BY <2>2 DEF LockInit
  <2>3. ASSUME NEW c \in Callers, Notify(c) PROVE <1>3
    BY <2>3 DEF Notify
  <2>4. ASSUME NEW c \in Callers, Write(c) \/ Receive(c) \/ Abandon(c) PROVE <1>3
    BY <2>4 DEF Write, Receive, Abandon
  <2>5. ASSUME NEW c \in Callers, Leave(c) PROVE <1>3
    <3>1. /\ pc'[c] \notin {"write", "wait", "leave"}
          /\ \A d \in Callers : d # c => pc'[d] = pc[d] /\ id'[d] = id[d]
          /\ UNCHANGED <<nextID, stage>>
      BY <2>5 DEF Leave
    <3> QED BY <3>1
  <2>6. ASSUME NEW c \in Callers, Cancel(c) PROVE <1>3
    BY <2>6 DEF Cancel
  <2>7. CASE ReaderStep \/ UpstreamRead \/ UpstreamNoise \/ Stop \/ AnswerSome
             \/ \E i \in OwnIDs : UpstreamRequest(i)
    BY <2>7 DEF ReaderStep, ReadLine, Deliver, ReadEOF, UpstreamRead, UpstreamNoise, Stop,
                AnswerSome, UpstreamAnswer, UpstreamRequest, PrintLine
  <2>8. CASE UNCHANGED vars
    BY <2>8 DEF vars
  <2> QED BY <2>1, <2>2, <2>3, <2>4, <2>5, <2>6, <2>7, <2>8 DEF Next, CallerStep
<1> QED BY <1>1, <1>2, <1>3

LEMMA ReplyStep == ReplyInv /\ [Next]_vars => ReplyInv'
<1> SUFFICES ASSUME ReplyInv, [Next]_vars PROVE Agreement'
  BY PendingStep DEF ReplyInv
<1>a. TypeInv /\ TypeInv' /\ PendingInv /\ Agreement
  BY PendingStep DEF ReplyInv, PendingInv
\* What matches its request goes on matching it.
<1>m. \A m : m.id \in IDs /\ Matches(m) =>
         /\ m.id <= nextID'
         /\ \A c \in Callers : InCall(c)' /\ m.id = id'[c] => m.method = stage'[c]
  BY <1>a, MatchesStep
<1>q. /\ \A m \in Request : m.id \in IDs
      /\ \A m \in Response : m.id \in IDs
      /\ Notified \notin Request /\ Noise \notin Response
      /\ \A m \in OwnRequest : m \notin Response
  BY DEF Request, Response, Notified, Noise, OwnRequest
<1> DEFINE line(c) == [type |-> "request", id |-> id[c], method |-> stage[c]]
<1>1. (\A k \in DOMAIN stdin : stdin[k] \in Request => Matches(stdin[k]))'
  <2>1. \/ stdin' = stdin
        \/ stdin' = Append(stdin, Notified)
        \/ stdin # <<>> /\ stdin' = Tail(stdin)
        \/ \E c \in Callers : /\ pc[c] = "write" /\ UNCHANGED <<id, stage, nextID>>
                              /\ pc' = [pc EXCEPT ![c] = "wait"]
                              /\ stdin' = Append(stdin, line(c))
    BY DEF Next, CallerStep, ReaderStep, vars, callerVars, tableVars, initVars,
               upstreamVars, Begin, LockInit, Register, Write, Receive, Abandon, Leave,
               Notify, Cancel, ReadLine, Deliver, ReadEOF, UpstreamRead, UpstreamNoise,
               Stop, AnswerSome, UpstreamAnswer, UpstreamRequest, PrintLine, Return, Goto
  <2>2. stdin \in Seq(Request \cup {Notified})
    BY <1>a DEF TypeInv, TypeOK
  <2>3. CASE stdin' = stdin
    BY <2>3, <1>a, <1>m, <1>q DEF Agreement, Matches
  <2>4. CASE stdin' = Append(stdin, Notified)
    BY <2>2, <2>4, <1>a, <1>m, <1>q DEF Agreement, Matches
  <2>5. CASE stdin # <<>> /\ stdin' = Tail(stdin)
    BY <2>2, <2>5, <1>a, <1>m, <1>q DEF Agreement, Matches
  <2>6. ASSUME NEW c \in Callers, pc[c] = "write", UNCHANGED <<id, stage, nextID>>,
               pc' = [pc EXCEPT ![c] = "wait"], stdin' = Append(stdin, line(c))
        PROVE (\A k \in DOMAIN stdin : stdin[k] \in Request => Matches(stdin[k]))'
    <3>1. /\ line(c).id = id[c] /\ line(c).method = stage[c] /\ id[c] \in IDs
          /\ id[c] <= nextID
          /\ \A d \in Callers : InCall(d) /\ id[d] = id[c] => d = c
      BY <2>6, <1>a DEF PendingInv, IDsIssued, PendingExact, InCall, TypeInv
    <3>2. Matches(line(c))
      BY <3>1 DEF Matches
    <3>3. \A k \in DOMAIN stdin' : \/ k \in DOMAIN stdin /\ stdin'[k] = stdin[k]
                                   \/ stdin'[k] = line(c)
      BY <2>2, <2>6
    <3> HIDE DEF line
    <3>4. /\ line(c).id <= nextID'
          /\ \A d \in Callers : InCall(d)' /\ line(c).id = id'[d] => line(c).method = stage'[d]
      BY <3>1, <3>2, <1>m
    <3> QED BY <3>3, <3>4, <1>a, <1>m, <1>q DEF Agreement, Matches
  <2> QED BY <2>1, <2>3, <2>4, <2>5, <2>6
<1>2. (\A m \in asked : Matches(m))'
  <2>1. \/ asked' = asked
        \/ /\ stdin # <<>> /\ Head(stdin) # Notified
           /\ asked' = asked \cup {Head(stdin)}
    BY DEF Next, CallerStep, ReaderStep, vars, callerVars, tableVars, initVars,
               upstreamVars, Begin, LockInit, Register, Write, Receive, Abandon, Leave,
               Notify, Cancel, ReadLine, Deliver, ReadEOF, UpstreamRead, UpstreamNoise,
               Stop, AnswerSome, UpstreamAnswer, UpstreamRequest, PrintLine, Return
  <2>2. stdin \in Seq(Request \cup {Notified}) /\ asked \subseteq Request
    BY <1>a DEF TypeInv, TypeOK
  <2>3. stdin # <<>> /\ Head(stdin) # Notified => Head(stdin) \in Request /\ Matches(Head(stdin))
    BY <2>2, <1>a DEF Agreement
  <2> QED BY <2>1, <2>2, <2>3, <1>a, <1>m, <1>q DEF Agreement, Matches
<1>3. (\A k \in DOMAIN stdout : stdout[k] \in Response => Matches(stdout[k]))'
  <2>1. \/ stdout' = stdout
        \/ stdout # <<>> /\ stdout' = Tail(stdout)
        \/ stdout' = Append(stdout, Noise)
        \/ \E i \in OwnIDs : stdout' = Append(stdout, [type |-> "request", id |-> i,
                                                        method |-> "ping"])
        \/ \E q \in asked, type \in {"result", "error"} :
              stdout' = Append(stdout, [type |-> type, id |-> q.id, method |-> q.method])
    BY DEF Next, CallerStep, ReaderStep, vars, callerVars, tableVars, initVars,
               upstreamVars, Begin, LockInit, Register, Write, Receive, Abandon, Leave,
               Notify, Cancel, ReadLine, Deliver, ReadEOF, UpstreamRead, UpstreamNoise,
               Stop, AnswerSome, UpstreamAnswer, UpstreamRequest, PrintLine, Return
  <2>2. stdout \in Seq(WithID \cup {Noise}) /\ asked \subseteq Request
    BY <1>a DEF TypeInv, TypeOK
  <2>3. CASE stdout' = stdout
    BY <2>3, <1>a, <1>m, <1>q DEF Agreement, Matches
  <2>4. CASE stdout # <<>> /\ stdout' = Tail(stdout)
    BY <2>2, <2>4, <1>a, <1>m, <1>q DEF Agreement, Matches
  <2>5. CASE stdout' = Append(stdout, Noise)
    BY <2>2, <2>5, <1>a, <1>m, <1>q DEF Agreement, Matches
  <2>6. ASSUME NEW i \in OwnIDs, stdout' = Append(stdout, [type |-> "request", id |-> i,
                                                            method |-> "ping"])
        PROVE (\A k \in DOMAIN stdout : stdout[k] \in Response => Matches(stdout[k]))'
    <3>1. [type |-> "request", id |-> i, method |-> "ping"] \notin Response
      BY DEF Response
    <3>2. \A k \in DOMAIN stdout' : stdout'[k] \in Response
                                       => k \in DOMAIN stdout /\ stdout'[k] = stdout[k]
      BY <2>2, <2>6, <3>1
    <3> QED BY <3>2, <1>a, <1>m, <1>q DEF Agreement, Matches
  <2>7. ASSUME NEW q \in asked, NEW type \in {"result", "error"},
               stdout' = Append(stdout, [type |-> type, id |-> q.id, method |-> q.method])
        PROVE (\A k \in DOMAIN stdout : stdout[k] \in Response => Matches(stdout[k]))'
    <3>1. /\ q.id \in IDs /\ q.id <= nextID'
          /\ \A c \in Callers : InCall(c)' /\ q.id = id'[c] => q.method = stage'[c]
      BY <2>2, <1>a, <1>m, <1>q DEF Agreement
    <3>2. \A k \in DOMAIN stdout' : \/ k \in DOMAIN stdout /\ stdout'[k] = stdout[k]
                                    \/ stdout'[k].id = q.id /\ stdout'[k].method = q.method
      BY <2>2, <2>7
    <3> QED BY <3>1, <3>2, <1>a, <1>m, <1>q DEF Agreement, Matches
  <2> QED BY <2>1, <2>3, <2>4, <2>5, <2>6, <2>7
<1>4. (reader.at = "send" /\ reader.msg \in Response => Matches(reader.msg))'
  <2>1. \/ reader' \in {reader, [at |-> "read"], [at |-> "exited"]}
        \/ stdout # <<>> /\ reader' = [at |-> "send", msg |-> Head(stdout)]
    BY DEF Next, CallerStep, ReaderStep, vars, callerVars, tableVars, initVars,
               upstreamVars, Begin, LockInit, Register, Write, Receive, Abandon, Leave,
               Notify, Cancel, ReadLine, Deliver, ReadEOF, UpstreamRead, UpstreamNoise,
               Stop, AnswerSome, UpstreamAnswer, UpstreamRequest, PrintLine, Return, Delivered
  <2>2. stdout \in Seq(WithID \cup {Noise})
    BY <1>a DEF TypeInv, TypeOK
  <2>3. stdout # <<>> /\ Head(stdout) \in Response => Matches(Head(stdout))
    BY <2>2, <1>a DEF Agreement
  <2> QED BY <2>1, <2>3, <1>a, <1>m, <1>q DEF Agreement, Matches
<1>5. (\A i \in IDs : \A k \in DOMAIN slot[i] :
          /\ slot[i][k].id = i
          /\ slot[i][k] \in Response => Matches(slot[i][k]))'
  <2>1. \/ slot' = slot
        \/ \E i \in IDs : slot' = [slot EXCEPT ![i] = <<>>]
        \/ \E i \in IDs : slot[i] # <<>> /\ slot' = [slot EXCEPT ![i] = Tail(slot[i])]
        \/ /\ reader.at = "send" /\ slot[reader.msg.id] = <<>>
           /\ slot' = [slot EXCEPT ![reader.msg.id] = <<reader.msg>>]
    <3>1. ASSUME NEW c \in Callers, Register(c) PROVE <2>1
      <4>1. NewID \in IDs
        BY <3>1, <1>a, ProxyAssumption DEF Register, NewID, IDs, TypeInv, TypeOK
      <4> QED BY <3>1, <4>1 DEF Register
    <3>2. ASSUME NEW c \in Callers, Receive(c) PROVE <2>1
      BY <3>2, <1>a DEF Receive, TypeInv, InCall
    <3>3. CASE Deliver
      BY <3>3 DEF Deliver
    <3>4. CASE UNCHANGED slot
      BY <3>4
    <3>5. \/ \E c \in Callers : Register(c) \/ Receive(c)
          \/ Deliver \/ UNCHANGED slot
      BY DEF Next, CallerStep, ReaderStep, vars, callerVars, tableVars, initVars,
               upstreamVars, Begin, LockInit, Write, Abandon, Leave,
               Notify, Cancel, ReadLine, ReadEOF, UpstreamRead, UpstreamNoise,
               Stop, AnswerSome, UpstreamAnswer, UpstreamRequest, PrintLine, Goto, Return
    <3> QED BY <3>1, <3>2, <3>3, <3>4, <3>5
  <2>2. /\ slot \in [IDs -> Seq(WithID)]
        /\ reader \in [at : {"read", "exited"}] \cup [at : {"send"}, msg : WithID]
    BY <1>a DEF TypeInv, TypeOK
  <2>3. \A i \in IDs : \A k \in DOMAIN slot'[i] :
           \/ k \in DOMAIN slot[i] /\ slot'[i][k] = slot[i][k]
           \/ k + 1 \in DOMAIN slot[i] /\ slot'[i][k] = slot[i][k + 1]
           \/ reader.at = "send" /\ slot'[i][k] = reader.msg /\ reader.msg.id = i
    <3>1. CASE slot' = slot
      BY <3>1
    <3>2. ASSUME NEW i \in IDs, slot' = [slot EXCEPT ![i] = <<>>] PROVE <2>3
      BY <3>2, <2>2
    <3>3. ASSUME NEW i \in IDs, slot[i] # <<>>, slot' = [slot EXCEPT ![i] = Tail(slot[i])]
          PROVE <2>3
      <4>1. slot[i] \in Seq(WithID)
        BY <2>2
      <4>2. \A k \in DOMAIN Tail(slot[i]) : /\ k + 1 \in DOMAIN slot[i]
                                            /\ Tail(slot[i])[k] = slot[i][k + 1]
        BY <3>3, <4>1
      <4> QED BY <3>3, <4>2, <2>2
    <3>4. CASE /\ reader.at = "send" /\ slot[reader.msg.id] = <<>>
               /\ slot' = [slot EXCEPT ![reader.msg.id] = <<reader.msg>>]
      BY <3>4, <2>2
    <3> QED BY <2>1, <3>1, <3>2, <3>3, <3>4
  <2> QED BY <2>3, <1>a, <1>m, <1>q DEF Agreement, Matches
<1>6. (\A c \in Callers : pc[c] = "leave" /\ reply[c] # Failure =>
          /\ reply[c] \in WithID /\ reply[c].id = id[c]
          /\ reply[c] \in Response => Matches(reply[c]))'
  <2> SUFFICES ASSUME NEW c \in Callers, pc'[c] = "leave", reply'[c] # Failure
               PROVE  /\ reply'[c] \in WithID /\ reply'[c].id = id'[c]
                      /\ reply'[c] \in Response => Matches(reply[c])'
    OBVIOUS
  <2>1. \/ Receive(c)
        \/ /\ pc[c] = "leave" /\ id'[c] = id[c] /\ reply'[c] = reply[c]
    <3> USE <1>a DEF TypeInv, TypeOK, callerVars, tableVars, initVars, upstreamVars, Goto,
                     Return
    <3>1. ASSUME NEW d \in Callers, NEW o \in Operations, Begin(d, o) PROVE <2>1
      BY <3>1 DEF Begin
    <3>2. ASSUME NEW d \in Callers, LockInit(d) \/ Register(d) PROVE <2>1
      BY <3>2 DEF LockInit, Register
    <3>3. ASSUME NEW d \in Callers, Write(d) PROVE <2>1
      BY <3>3 DEF Write
    <3>4. ASSUME NEW d \in Callers, Receive(d) PROVE <2>1
      BY <3>4 DEF Receive
    <3>5. ASSUME NEW d \in Callers, Abandon(d) PROVE <2>1
      BY <3>5 DEF Abandon
    <3>6. ASSUME NEW d \in Callers, Leave(d) PROVE <2>1
      <4>1. /\ pc'[d] # "leave"
            /\ d # c => pc'[c] = pc[c] /\ id'[c] = id[c] /\ reply'[c] = reply[c]
        BY <3>6 DEF Leave
      <4> QED BY <4>1
    <3>7. ASSUME NEW d \in Callers, Notify(d) PROVE <2>1
      <4>1. /\ pc'[d] # "leave"
            /\ d # c => pc'[c] = pc[c] /\ id'[c] = id[c] /\ reply'[c] = reply[c]
        BY <3>7 DEF Notify
      <4> QED BY <4>1
    <3>8. ASSUME NEW d \in Callers, Cancel(d) PROVE <2>1
      BY <3>8 DEF Cancel
    <3>9. CASE UNCHANGED callerVars
      BY <3>9
    <3>10. \/ \E d \in Callers : \/ CallerStep(d) \/ Cancel(d)
                                 \/ \E o \in Operations : Begin(d, o)
           \/ UNCHANGED callerVars
      BY DEF Next, ReaderStep, vars, ReadLine, Deliver, ReadEOF, UpstreamRead,
             UpstreamNoise, Stop, AnswerSome, UpstreamAnswer, UpstreamRequest, PrintLine
    <3> QED BY <3>1, <3>2, <3>3, <3>4, <3>5, <3>6, <3>7, <3>8, <3>9, <3>10 DEF CallerStep
  <2>2. CASE pc[c] = "leave" /\ id'[c] = id[c] /\ reply'[c] = reply[c]
    BY <2>2, <1>a, <1>m, <1>q DEF Agreement, Matches
  <2>3. CASE Receive(c)
    <3>1. /\ id[c] \in IDs /\ slot[id[c]] # <<>> /\ slot \in [IDs -> Seq(WithID)]
          /\ reply'[c] = Head(slot[id[c]]) /\ id'[c] = id[c]
      BY <2>3, <1>a DEF Receive, TypeInv, TypeOK, InCall
    <3>2. /\ Head(slot[id[c]]) = slot[id[c]][1] /\ 1 \in DOMAIN slot[id[c]]
          /\ Head(slot[id[c]]) \in WithID
      BY <3>1
    <3>3. /\ slot[id[c]][1].id = id[c]
          /\ slot[id[c]][1] \in Response => Matches(slot[id[c]][1])
      BY <3>1, <3>2, <1>a DEF Agreement
    <3>4. reply'[c] = slot[id[c]][1]
      BY <3>1, <3>2
    <3> QED BY <3>1, <3>2, <3>3, <3>4, <1>m, <1>q DEF Matches
  <2> QED BY <2>1, <2>2, <2>3
<1> QED BY <1>1, <1>2, <1>3, <1>4, <1>5, <1>6 DEF Agreement

\* Whatever upstream reorders, repeats or delays, and whoever gives up in between,
\* a caller never gets the answer to another request.
THEOREM RepliesAreOwn == Spec => []ReplyIsOwn
<1>1. ReplyInv => ReplyIsOwn
  <2> SUFFICES ASSUME ReplyInv, NEW c \in Callers, pc[c] = "leave", reply[c] # Failure
               PROVE  /\ reply[c].id = id[c]
                      /\ reply[c].type \in {"result", "error"} => reply[c].method = stage[c]
    BY DEF ReplyIsOwn
  <2>1. /\ reply[c] \in WithID /\ reply[c].id = id[c]
        /\ reply[c] \in Response => Matches(reply[c])
    BY DEF ReplyInv, Agreement
  <2>2. reply[c].type \in {"result", "error"} => reply[c] \in Response
    BY <2>1 DEF WithID, OwnRequest
  <2> QED BY <2>1, <2>2 DEF Matches, InCall
<1> QED BY <1>1, ReplyInit, ReplyStep, PTL DEF Spec

-----------------------------------------------------------------------------
(* The handshake                                                           *)

\* A caller that makes the handshake holds initMu until it is done with it, and a
\* caller that is past the handshake has found it made.
Holding(c) == /\ stage[c] = "initialize"
              /\ pc[c] \in {"register", "write", "wait", "leave", "notify"}

HolderInv ==
    \A c \in Callers :
        /\ Holding(c) => initMu = c /\ ~initialized
        /\ pc[c] = "notify" => stage[c] = "initialize"
        /\ pc[c] \in {"register", "write"} /\ stage[c] # "initialize" => initialized

\* The notification has been sent.
Announced == greeted \/ \E j \in DOMAIN stdin : stdin[j] = Notified

HandshakeInv == TypeInv /\ HolderInv /\ (initialized => Announced) /\ HandshakeFirst

LEMMA HandshakeInit == Init => HandshakeInv
<1> SUFFICES ASSUME Init PROVE HandshakeInv
  OBVIOUS
<1>1. TypeInv
  BY TypeInit
<1>2. HolderInv /\ ~initialized
  BY DEF Init, HolderInv, Holding
<1>3. stdin = <<>> /\ asked = {} /\ DOMAIN stdin = {}
  BY DEF Init
<1>4. HandshakeFirst
  BY <1>3 DEF HandshakeFirst
<1> QED BY <1>1, <1>2, <1>4 DEF HandshakeInv

LEMMA HolderStep == TypeInv /\ HolderInv /\ [Next]_vars => HolderInv'
<1> SUFFICES ASSUME TypeInv, HolderInv, [Next]_vars, NEW d \in Callers
             PROVE  (/\ Holding(d) => initMu = d /\ ~initialized
                     /\ pc[d] = "notify" => stage[d] = "initialize"
                     /\ pc[d] \in {"register", "write"} /\ stage[d] # "initialize" => initialized)'
  BY DEF HolderInv
<1> DEFINE Goal == (/\ Holding(d) => initMu = d /\ ~initialized
                    /\ pc[d] = "notify" => stage[d] = "initialize"
                    /\ pc[d] \in {"register", "write"} /\ stage[d] # "initialize" => initialized)'
<1>a. /\ pc \in [Callers -> {"idle", "lock", "register", "write", "wait", "leave", "notify"}]
      /\ stage \in [Callers -> Stages] /\ op \in [Callers -> Operations]
      /\ "initialize" \notin Operations /\ NoCaller \notin Callers
  BY ProxyAssumption DEF TypeInv, TypeOK
<1>b. \A c \in Callers :
         /\ Holding(c) => initMu = c /\ ~initialized
         /\ pc[c] = "notify" => stage[c] = "initialize"
         /\ pc[c] \in {"register", "write"} /\ stage[c] # "initialize" => initialized
  BY DEF HolderInv
<1> USE <1>a, <1>b DEF Holding, Goto, Return, initVars
<1>1. ASSUME NEW c \in Callers, NEW o \in Operations, Begin(c, o) PROVE Goal
  BY <1>1 DEF Begin
<1>2. ASSUME NEW c \in Callers, LockInit(c) PROVE Goal
  <2>1. /\ pc[c] = "lock" /\ pc' = [pc EXCEPT ![c] = "register"] /\ UNCHANGED initialized
        /\ initMu = NoCaller
    BY <1>2 DEF LockInit, InitMuFree
  <2>2. CASE initialized /\ stage' = [stage EXCEPT ![c] = op[c]] /\ initMu' = initMu
    BY <2>1, <2>2
  <2>3. CASE ~initialized /\ stage' = [stage EXCEPT ![c] = "initialize"] /\ initMu' = c
    BY <2>1, <2>3
  <2> QED BY <1>2, <2>2, <2>3 DEF LockInit, HandshakeMade
<1>3. ASSUME NEW c \in Callers, Register(c) PROVE Goal
  BY <1>3 DEF Register
<1>4. ASSUME NEW c \in Callers, Write(c) \/ Receive(c) \/ Abandon(c) PROVE Goal
  <2>1. /\ pc[c] \in {"write", "wait"} /\ pc'[c] \in {"wait", "leave"}
        /\ \A x \in Callers : x # c => pc'[x] = pc[x]
        /\ UNCHANGED <<stage, initMu, initialized>>
    BY <1>4 DEF Write, Receive, Abandon
  <2> QED BY <2>1
<1>5. ASSUME NEW c \in Callers, Leave(c) PROVE Goal
  <2>1. pc[c] = "leave" /\ UNCHANGED <<stage, initialized>>
    BY <1>5 DEF Leave
  <2>2. \/ stage[c] # "initialize" /\ pc' = [pc EXCEPT ![c] = "idle"] /\ initMu' = initMu
        \/ stage[c] = "initialize" /\ pc' = [pc EXCEPT ![c] = "idle"] /\ initMu' = NoCaller
        \/ stage[c] = "initialize" /\ pc' = [pc EXCEPT ![c] = "notify"] /\ initMu' = initMu
    BY <1>5 DEF Leave, Unlocked
  <2> QED BY <2>1, <2>2
<1>6. ASSUME NEW c \in Callers, Notify(c) PROVE Goal
  <2>1. /\ pc[c] = "notify" /\ initMu' = NoCaller
        /\ stage[c] = "initialize" /\ initMu = c
    BY <1>6 DEF Notify
  <2>2. \/ /\ initialized' = TRUE /\ stage' = [stage EXCEPT ![c] = op[c]]
           /\ pc' = [pc EXCEPT ![c] = "register"]
        \/ /\ UNCHANGED <<initialized, stage>> /\ pc' = [pc EXCEPT ![c] = "idle"]
    BY <1>6 DEF Notify
  <2> QED BY <2>1, <2>2
<1>7. ASSUME NEW c \in Callers, Cancel(c) PROVE Goal
  BY <1>7 DEF Cancel
<1>8. CASE UNCHANGED <<callerVars, initVars>>
  BY <1>8 DEF callerVars
<1>9. \/ \E c \in Callers : \/ CallerStep(c) \/ Cancel(c)
                            \/ \E o \in Operations : Begin(c, o)
      \/ UNCHANGED <<callerVars, initVars>>
  BY DEF Next, ReaderStep, vars, ReadLine, Deliver, ReadEOF, UpstreamRead,
         UpstreamNoise, Stop, AnswerSome, UpstreamAnswer, UpstreamRequest, PrintLine
<1> QED BY <1>1, <1>2, <1>3, <1>4, <1>5, <1>6, <1>7, <1>8, <1>9 DEF CallerStep

\* Lines are written behind the notification and read in order.
LEMMA AnnouncedStep ==
    ASSUME TypeInv, HolderInv, initialized => Announced, HandshakeFirst, [Next]_vars
    PROVE  (initialized => Announced)' /\ HandshakeFirst'
<1> DEFINE line(c) == [type |-> "request", id |-> id[c], method |-> stage[c]]
           Operates(m) == m.type = "request" /\ m.method \in Operations
<1>a. /\ stdin \in Seq(Request \cup {Notified}) /\ asked \subseteq Request
      /\ stage \in [Callers -> Stages]
  BY DEF TypeInv, TypeOK
<1>b. Len(stdin) \in Nat /\ DOMAIN stdin = 1..Len(stdin)
  BY <1>a
<1>c. /\ \A q \in asked : q.method \in Operations => greeted
      /\ \A k \in DOMAIN stdin : Operates(stdin[k]) =>
            greeted \/ \E j \in 1..(k - 1) : stdin[j] = Notified
  BY DEF HandshakeFirst
<1>1. \/ UNCHANGED <<stdin, asked, greeted, initialized>>
      \/ /\ stdin' = Append(stdin, Notified) /\ UNCHANGED <<asked, greeted>>
      \/ /\ stdin # <<>> /\ stdin' = Tail(stdin) /\ UNCHANGED initialized
         /\ IF Head(stdin) = Notified
               THEN greeted' = TRUE /\ UNCHANGED asked
               ELSE asked' = asked \cup {Head(stdin)} /\ UNCHANGED greeted
      \/ /\ UNCHANGED <<asked, greeted, initialized>>
         /\ \E c \in Callers : pc[c] = "write" /\ stdin' = Append(stdin, line(c))
  BY ZenonT(60) DEF Next, CallerStep, ReaderStep, vars, callerVars, tableVars, initVars,
             upstreamVars, Begin, LockInit, Register, Write, Receive, Abandon, Leave,
             Notify, Cancel, ReadLine, Deliver, ReadEOF, UpstreamRead, UpstreamNoise,
             Stop, AnswerSome, UpstreamAnswer, UpstreamRequest, PrintLine
<1>2. CASE UNCHANGED <<stdin, asked, greeted, initialized>>
  BY <1>2 DEF Announced, HandshakeFirst
<1>3. ASSUME NEW m, stdin' = Append(stdin, m), UNCHANGED <<asked, greeted>>,
             Operates(m) => Announced
      PROVE  HandshakeFirst' /\ (Announced => Announced') /\ (m = Notified => Announced')
  <2>1. /\ DOMAIN stdin' = 1..(Len(stdin) + 1) /\ stdin'[Len(stdin) + 1] = m
        /\ \A k \in 1..Len(stdin) : stdin'[k] = stdin[k]
    BY <1>3, <1>a, <1>b
  <2>2. ASSUME NEW k \in DOMAIN stdin', Operates(stdin'[k])
        PROVE  greeted' \/ \E j \in 1..(k - 1) : stdin'[j] = Notified
    <3>1. CASE k \in 1..Len(stdin)
      <4>1. greeted \/ \E j \in 1..(k - 1) : stdin[j] = Notified
        BY <1>b, <1>c, <2>1, <2>2, <3>1
      <4>2. \A j \in 1..(k - 1) : stdin'[j] = stdin[j]
        BY <1>b, <2>1, <3>1
      <4> QED BY <1>3, <4>1, <4>2
    <3>2. CASE k = Len(stdin) + 1
      <4>1. greeted \/ \E j \in 1..Len(stdin) : stdin[j] = Notified
        BY <1>3, <1>b, <2>1, <2>2, <3>2 DEF Announced
      <4>2. \A j \in 1..Len(stdin) : j \in 1..(k - 1) /\ stdin'[j] = stdin[j]
        BY <1>b, <2>1, <3>2
      <4> QED BY <1>3, <4>1, <4>2
    <3> QED BY <1>b, <2>1, <3>1, <3>2
  <2>3. HandshakeFirst'
    BY <1>3, <1>c, <2>2 DEF HandshakeFirst
  <2>4. \A j \in 1..Len(stdin) : j \in DOMAIN stdin' /\ stdin'[j] = stdin[j]
    BY <1>b, <2>1
  <2>5. Len(stdin) + 1 \in DOMAIN stdin'
    BY <1>b, <2>1
  <2> QED BY <1>3, <1>b, <2>1, <2>3, <2>4, <2>5 DEF Announced
<1>4. CASE stdin' = Append(stdin, Notified) /\ UNCHANGED <<asked, greeted>>
  <2>1. ~Operates(Notified)
    BY DEF Notified
  <2> HIDE DEF Operates
  <2> QED BY <1>3, <1>4, <2>1
<1>5. ASSUME NEW c \in Callers, pc[c] = "write", stdin' = Append(stdin, line(c)),
             UNCHANGED <<asked, greeted, initialized>>
      PROVE  (initialized => Announced)' /\ HandshakeFirst'
  <2>1. Operates(line(c)) => Announced
    <3>1. line(c).method = stage[c]
      OBVIOUS
    <3>2. "initialize" \notin Operations
      BY ProxyAssumption
    <3> QED BY <1>5, <3>1, <3>2 DEF HolderInv
  <2> HIDE DEF Operates, line
  <2> QED BY <1>3, <1>5, <2>1
<1>6. CASE /\ stdin # <<>> /\ stdin' = Tail(stdin) /\ UNCHANGED initialized
           /\ IF Head(stdin) = Notified
                 THEN greeted' = TRUE /\ UNCHANGED asked
                 ELSE asked' = asked \cup {Head(stdin)} /\ UNCHANGED greeted
  <2>1. /\ DOMAIN stdin' = 1..(Len(stdin) - 1) /\ Len(stdin) >= 1
        /\ \A k \in 1..(Len(stdin) - 1) : stdin'[k] = stdin[k + 1]
        /\ Head(stdin) = stdin[1]
    BY <1>6, <1>a, <1>b
  <2>2. CASE stdin[1] = Notified
    BY <1>6, <2>1, <2>2 DEF Announced, HandshakeFirst
  <2>3. CASE stdin[1] # Notified
    <3>1. asked' = asked \cup {stdin[1]} /\ UNCHANGED greeted
      BY <1>6, <2>1, <2>3
    <3>2. stdin[1] \in Request
      BY <1>a, <1>b, <2>1, <2>3
    <3>3. stdin[1].method \in Operations => greeted
      <4>1. stdin[1].type = "request" /\ 1 \in DOMAIN stdin /\ 1..(1 - 1) = {}
        BY <1>b, <2>1, <3>2 DEF Request
      <4> QED BY <1>c, <4>1
    <3>4. \A j \in 1..Len(stdin) : stdin[j] = Notified =>
             j - 1 \in 1..(Len(stdin) - 1) /\ stdin'[j - 1] = Notified
      BY <1>b, <2>1, <2>3
    <3>5. Announced => Announced'
      BY <1>b, <2>1, <3>1, <3>4 DEF Announced
    <3>6. ASSUME NEW k \in DOMAIN stdin', Operates(stdin'[k])
          PROVE  greeted' \/ \E j \in 1..(k - 1) : stdin'[j] = Notified
      <4>1. k + 1 \in 1..Len(stdin) /\ stdin'[k] = stdin[k + 1] /\ k \in Nat
        BY <1>b, <2>1
      <4>2. greeted \/ \E j \in 1..k : stdin[j] = Notified
        <5>1. (k + 1) - 1 = k
          BY <4>1
        <5> HIDE DEF Operates
        <5> QED BY <1>b, <1>c, <3>6, <4>1, <5>1
      <4>3. ASSUME NEW j \in 1..k, stdin[j] = Notified
            PROVE  j - 1 \in 1..(k - 1) /\ stdin'[j - 1] = Notified
        <5>1. j \in 1..Len(stdin) /\ j # 1
          BY <1>b, <2>3, <4>1, <4>3
        <5> QED BY <3>4, <4>1, <4>3, <5>1
      <4> QED BY <3>1, <4>2, <4>3
    <3>7. HandshakeFirst'
      BY <1>c, <3>1, <3>3, <3>6 DEF HandshakeFirst
    <3> QED BY <1>6, <3>5, <3>7
  <2> QED BY <2>2, <2>3
<1> QED BY <1>1, <1>2, <1>4, <1>5, <1>6

LEMMA HandshakeStep == HandshakeInv /\ [Next]_vars => HandshakeInv'
BY TypeStep, HolderStep, AnnouncedStep DEF HandshakeInv

\* Initialize: however many callers begin at once, upstream reads the initialized
\* notification before the first tools/list or tools/call.
THEOREM HandshakeComesFirst == Spec => []HandshakeFirst
<1>1. HandshakeInv => HandshakeFirst
  BY DEF HandshakeInv
<1> QED BY <1>1, HandshakeInit, HandshakeStep, PTL DEF Spec

\* Initialize: a caller that waited for initMu while another made the handshake does
\* not make it again.
THEOREM OneHandshake == Spec => NoSecondHandshake
<1>1. HandshakeInv => (initialized => \A c \in Callers : ~(Write(c) /\ stage[c] = "initialize"))
  BY DEF HandshakeInv, HolderInv, Holding, Write
<1>2. Spec => []HandshakeInv
  BY HandshakeInit, HandshakeStep, PTL DEF Spec
<1> QED BY <1>1, <1>2, PTL DEF NoSecondHandshake


-----------------------------------------------------------------------------
(* The reader                                                              *)

Carries(m, i) == m \in WithID /\ m.id = i
InPipe(i) == {k \in DOMAIN stdout : Carries(stdout[k], i)}
InHand(i) == reader.at = "send" /\ reader.msg.id = i
Taken(i)  == slot[i] # <<>>

\* What upstream has printed under an id is at least what is in stdout, with the
\* reader and in the channel: one line where there is one, two where there are two.
AnswersInv ==
    \A i \in IDs :
        /\ InPipe(i) # {} \/ InHand(i) \/ Taken(i) => answers[i] >= 1
        /\ \/ \E k, l \in InPipe(i) : k # l
           \/ InPipe(i) # {} /\ (InHand(i) \/ Taken(i))
           \/ InHand(i) /\ Taken(i)
           => answers[i] >= 2

LEMMA AnswersInit == Init => AnswersInv
BY DEF Init, AnswersInv, InPipe, InHand, Taken

\* Lines move from stdout to the reader and from the reader to the channel, and
\* only upstream adds one.
LEMMA AnswersStep == TypeInv /\ AnswersInv /\ [Next]_vars => AnswersInv'
<1> SUFFICES ASSUME TypeInv, AnswersInv, [Next]_vars PROVE AnswersInv'
  OBVIOUS
<1> DEFINE Least(i) ==
              /\ InPipe(i) # {} \/ InHand(i) \/ Taken(i) => answers[i] >= 1
              /\ \/ \E k, l \in InPipe(i) : k # l
                 \/ InPipe(i) # {} /\ (InHand(i) \/ Taken(i))
                 \/ InHand(i) /\ Taken(i)
                 => answers[i] >= 2
<1>a. /\ stdout \in Seq(WithID \cup {Noise}) /\ slot \in [IDs -> Seq(WithID)]
      /\ answers \in [IDs -> Nat] /\ asked \subseteq Request /\ OwnIDs \subseteq IDs
      /\ reader \in [at : {"read", "exited"}] \cup [at : {"send"}, msg : WithID]
      /\ \A c \in Callers : pc[c] = "wait" => id[c] \in IDs
  BY ProxyAssumption DEF TypeInv, TypeOK, IDs, InCall
<1>b. Len(stdout) \in Nat /\ DOMAIN stdout = 1..Len(stdout)
  BY <1>a
<1>c. \A m \in WithID : m.id \in IDs
  BY DEF WithID, Response, OwnRequest
<1> SUFFICES ASSUME NEW i \in IDs PROVE Least(i)'
  BY DEF AnswersInv
<1>d. Least(i) /\ answers[i] \in Nat
  BY <1>a DEF AnswersInv
<1>1. \/ /\ UNCHANGED <<stdout, answers>>
         /\ InHand(i)' => InHand(i)
         /\ Taken(i)' => Taken(i)
      \/ ReadLine \/ Deliver
      \/ \E m \in WithID : /\ stdout' = Append(stdout, m)
                           /\ answers' = [answers EXCEPT ![m.id] = @ + 1]
                           /\ UNCHANGED <<reader, slot>>
      \/ stdout' = Append(stdout, Noise) /\ UNCHANGED <<answers, reader, slot>>
  <2> DEFINE Still == /\ UNCHANGED <<stdout, answers>>
                      /\ InHand(i)' => InHand(i)
                      /\ Taken(i)' => Taken(i)
  <2> USE DEF callerVars, tableVars, initVars, upstreamVars
  <2>1. CASE UNCHANGED <<stdout, answers, reader, slot>>
    BY <2>1 DEF InHand, Taken
  <2>2. ASSUME NEW c \in Callers, Register(c) PROVE Still
    <3>1. slot' = [slot EXCEPT ![NewID] = <<>>] /\ UNCHANGED <<stdout, answers, reader>>
      BY <2>2 DEF Register
    <3> QED BY <3>1, <1>a DEF InHand, Taken
  <2>3. ASSUME NEW c \in Callers, Receive(c) PROVE Still
    <3>1. /\ slot[id[c]] # <<>> /\ slot' = [slot EXCEPT ![id[c]] = Tail(@)]
          /\ UNCHANGED <<stdout, answers, reader>>
      BY <2>3 DEF Receive
    <3> QED BY <3>1, <1>a DEF InHand, Taken
  <2>4. CASE ReadEOF
    BY <2>4 DEF ReadEOF, InHand, Taken
  <2>5. ASSUME NEW q \in asked, NEW type \in {"result", "error"}, UpstreamAnswer(q, type)
        PROVE  <1>1
    <3>1. [type |-> type, id |-> q.id, method |-> q.method] \in WithID
      BY <1>a DEF Request, WithID, Response
    <3> QED BY <2>5, <3>1 DEF UpstreamAnswer, PrintLine
  <2>6. ASSUME NEW j \in OwnIDs, UpstreamRequest(j) PROVE <1>1
    <3>1. [type |-> "request", id |-> j, method |-> "ping"] \in WithID
      BY <1>a DEF WithID, OwnRequest
    <3> QED BY <2>6, <3>1 DEF UpstreamRequest, PrintLine
  <2>7. CASE UpstreamNoise
    BY <2>7 DEF UpstreamNoise, PrintLine
  <2>8. \/ UNCHANGED <<stdout, answers, reader, slot>>
        \/ \E c \in Callers : Register(c) \/ Receive(c)
        \/ ReadLine \/ Deliver \/ ReadEOF \/ UpstreamNoise \/ AnswerSome
        \/ \E j \in OwnIDs : UpstreamRequest(j)
    BY ZenonT(60) DEF Next, CallerStep, ReaderStep, vars, Begin, LockInit, Write, Abandon,
           Leave, Notify, Cancel, UpstreamRead, Stop
  <2> QED BY <2>1, <2>2, <2>3, <2>4, <2>5, <2>6, <2>7, <2>8 DEF AnswerSome
<1>2. CASE /\ UNCHANGED <<stdout, answers>>
           /\ InHand(i)' => InHand(i)
           /\ Taken(i)' => Taken(i)
  <2>1. InPipe(i)' = InPipe(i) /\ answers'[i] = answers[i]
    BY <1>2 DEF InPipe
  <2> QED BY <1>2, <1>d, <2>1
<1>3. CASE ReadLine
  <2>1. /\ reader.at = "read" /\ stdout # <<>> /\ stdout' = Tail(stdout)
        /\ \/ reader' = reader
           \/ Head(stdout) \in WithID /\ reader' = [at |-> "send", msg |-> Head(stdout)]
        /\ UNCHANGED <<slot, answers>>
    BY <1>3 DEF ReadLine, tableVars, upstreamVars
  <2>2. /\ Len(stdout) >= 1 /\ Head(stdout) = stdout[1]
        /\ DOMAIN stdout' = 1..(Len(stdout) - 1)
        /\ \A k \in DOMAIN stdout' : stdout'[k] = stdout[k + 1]
    BY <2>1, <1>a, <1>b
  <2>3. \A k \in InPipe(i)' : k \in Nat /\ k >= 1 /\ k + 1 \in InPipe(i)
    BY <2>2, <1>b DEF InPipe
  <2>4. InPipe(i)' # {} => InPipe(i) # {}
    BY <2>3
  <2>5. (\E k, l \in InPipe(i)' : k # l) => \E k, l \in InPipe(i) : k # l
    BY <2>3
  <2>6. ~InHand(i) /\ (Taken(i)' <=> Taken(i)) /\ answers'[i] = answers[i]
    BY <2>1 DEF InHand, Taken
  <2>7. InHand(i)' => 1 \in InPipe(i)
    BY <2>1, <2>2, <1>b DEF InHand, InPipe, Carries
  <2>8. InHand(i)' /\ InPipe(i)' # {} => \E k, l \in InPipe(i) : k # l
    <3> SUFFICES ASSUME InHand(i)', NEW k \in InPipe(i)' PROVE \E j, l \in InPipe(i) : j # l
      OBVIOUS
    <3>1. k + 1 # 1
      BY <2>3
    <3> QED BY <3>1, <2>3, <2>7
  <2>9. /\ InPipe(i)' # {} \/ InHand(i)' \/ Taken(i)' => answers[i] >= 1
        /\ \/ \E k, l \in InPipe(i)' : k # l
           \/ InPipe(i)' # {} /\ (InHand(i)' \/ Taken(i)')
           \/ InHand(i)' /\ Taken(i)'
           => answers[i] >= 2
    BY <1>d, <2>4, <2>5, <2>6, <2>7, <2>8
  <2> QED BY <2>6, <2>9
<1>4. CASE Deliver
  <2>1. /\ reader.at = "send" /\ slot[reader.msg.id] = <<>> /\ reader' = [at |-> "read"]
        /\ slot' = [slot EXCEPT ![reader.msg.id] = Append(@, reader.msg)]
        /\ UNCHANGED <<stdout, answers>>
    BY <1>4 DEF Deliver, Delivered, upstreamVars
  <2>2. ~InHand(i)' /\ InPipe(i)' = InPipe(i) /\ answers'[i] = answers[i]
    BY <2>1 DEF InHand, InPipe
  <2>3. Taken(i)' => Taken(i) \/ InHand(i)
    BY <2>1, <1>a DEF Taken, InHand
  <2> QED BY <1>d, <2>2, <2>3
\* One more line is printed: under this id it counts, under another it does not.
<1>5. ASSUME NEW m \in WithID \cup {Noise}, stdout' = Append(stdout, m), UNCHANGED <<reader, slot>>
      PROVE  /\ InPipe(i)' = IF Carries(m, i) THEN InPipe(i) \cup {Len(stdout) + 1} ELSE InPipe(i)
             /\ (InHand(i)' <=> InHand(i)) /\ (Taken(i)' <=> Taken(i))
  <2>1. /\ DOMAIN stdout' = 1..(Len(stdout) + 1) /\ stdout'[Len(stdout) + 1] = m
        /\ \A k \in 1..Len(stdout) : stdout'[k] = stdout[k]
    BY <1>5, <1>a, <1>b
  <2>2. \A k \in 1..(Len(stdout) + 1) : k \in 1..Len(stdout) \/ k = Len(stdout) + 1
    BY <1>b
  <2>3. 1..Len(stdout) \subseteq 1..(Len(stdout) + 1) /\ Len(stdout) + 1 \in 1..(Len(stdout) + 1)
    BY <1>b
  <2>4. \A k : k \in InPipe(i)' <=> /\ k \in 1..(Len(stdout) + 1)
                                    /\ Carries(stdout'[k], i)
    BY <2>1 DEF InPipe, Carries
  <2>5. \A k : k \in InPipe(i) <=> k \in 1..Len(stdout) /\ Carries(stdout[k], i)
    BY <1>b DEF InPipe
  <2> QED BY <1>5, <2>1, <2>2, <2>3, <2>4, <2>5 DEF InHand, Taken
<1>6. ASSUME NEW m \in WithID, stdout' = Append(stdout, m),
             answers' = [answers EXCEPT ![m.id] = @ + 1], UNCHANGED <<reader, slot>>
      PROVE  Least(i)'
  <2>1. CASE m.id = i
    <3>1. answers'[i] = answers[i] + 1
      BY <1>6, <1>a, <2>1
    <3>2. InPipe(i)' = InPipe(i) \cup {Len(stdout) + 1}
      BY <1>5, <1>6, <2>1 DEF Carries
    <3>3. answers'[i] >= 1
      BY <3>1, <1>d
    <3>4. (\E k, l \in InPipe(i)' : k # l) => InPipe(i) # {}
      BY <3>2
    <3>5. InPipe(i) # {} \/ InHand(i) \/ Taken(i) => answers'[i] >= 2
      BY <3>1, <1>d
    <3>6. (InHand(i)' <=> InHand(i)) /\ (Taken(i)' <=> Taken(i))
      BY <1>5, <1>6
    <3> QED BY <3>3, <3>4, <3>5, <3>6
  <2>2. CASE m.id # i
    <3>1. answers'[i] = answers[i]
      BY <1>6, <1>a, <2>2
    <3>2. InPipe(i)' = InPipe(i) /\ (InHand(i)' <=> InHand(i)) /\ (Taken(i)' <=> Taken(i))
      BY <1>5, <1>6, <2>2 DEF Carries
    <3> QED BY <1>d, <3>1, <3>2
  <2> QED BY <2>1, <2>2
<1>7. CASE stdout' = Append(stdout, Noise) /\ UNCHANGED <<answers, reader, slot>>
  <2>1. ~Carries(Noise, i)
    BY DEF Carries, Noise, WithID, Response, OwnRequest
  <2>2. InPipe(i)' = InPipe(i) /\ (InHand(i)' <=> InHand(i)) /\ (Taken(i)' <=> Taken(i))
    BY <1>5, <1>7, <2>1
  <2> QED BY <1>7, <1>d, <2>2
<1> QED BY <1>1, <1>2, <1>3, <1>4, <1>6, <1>7

\* The reader goroutine waits on a full channel only for an id that upstream has
\* printed a second line with.
THEOREM BlockedByRepetition == Spec => []ReaderBlocksOnlyOnRepeat
<1>1. TypeInv /\ AnswersInv => ReaderBlocksOnlyOnRepeat
  <2> SUFFICES ASSUME TypeInv, AnswersInv, reader.at = "send", slot[reader.msg.id] # <<>>
               PROVE  answers[reader.msg.id] > 1
    BY DEF ReaderBlocksOnlyOnRepeat
  <2>1. reader.msg \in WithID
    BY DEF TypeInv, TypeOK
  <2>2. reader.msg.id \in IDs
    BY <2>1 DEF WithID, Response, OwnRequest
  <2>3. answers[reader.msg.id] >= 2 /\ answers[reader.msg.id] \in Nat
    BY <2>2 DEF AnswersInv, InHand, Taken, TypeInv, TypeOK
  <2> QED BY <2>3
<1> QED BY <1>1, TypeInit, TypeStep, AnswersInit, AnswersStep, PTL DEF Spec

\* A step that ends an orphan's wait is the one its context's end allows: the
\* reader never comes back, and nobody else writes to its channel.
LEMMA OrphanStep ==
    TypeInv /\ [Next]_vars => \A c \in Callers : Orphan(c) /\ c \notin cancelled => Orphan(c)'
<1> SUFFICES ASSUME TypeInv, [Next]_vars, NEW c \in Callers, Orphan(c), c \notin cancelled
             PROVE  Orphan(c)'
  OBVIOUS
<1>a. /\ pc[c] = "wait" /\ slot[id[c]] = <<>> /\ reader.at = "exited"
      /\ id[c] \in IDs /\ slot \in [IDs -> Seq(WithID)]
      /\ pc \in [Callers -> {"idle", "lock", "register", "write", "wait", "leave", "notify"}]
      /\ id \in [Callers -> 0..MaxID]
  BY DEF Orphan, TypeInv, TypeOK, InCall
<1>1. reader' = reader
  BY <1>a DEF Next, CallerStep, ReaderStep, vars, Begin, LockInit, Register, Write, Receive,
              Abandon, Leave, Notify, Cancel, ReadLine, Deliver, ReadEOF, UpstreamRead,
              UpstreamNoise, Stop, AnswerSome, UpstreamAnswer, UpstreamRequest, PrintLine
<1>2. pc'[c] = "wait" /\ id'[c] = id[c] /\ slot'[id[c]] = <<>>
  <2> USE <1>a DEF callerVars, tableVars, Goto, Return
  <2>1. ASSUME NEW d \in Callers, NEW o \in Operations, Begin(d, o) PROVE <1>2
    BY <2>1 DEF Begin
  <2>2. ASSUME NEW d \in Callers, LockInit(d) PROVE <1>2
    BY <2>2 DEF LockInit
  <2>3. ASSUME NEW d \in Callers, Register(d) PROVE <1>2
    BY <2>3 DEF Register
  <2>4. ASSUME NEW d \in Callers, Write(d) PROVE <1>2
    BY <2>4 DEF Write
  <2>5. ASSUME NEW d \in Callers, Receive(d) PROVE <1>2
    <3>1. /\ d # c /\ id[d] # id[c] /\ slot' = [slot EXCEPT ![id[d]] = Tail(@)]
          /\ pc' = [pc EXCEPT ![d] = "leave"] /\ UNCHANGED id
      BY <2>5 DEF Receive
    <3> QED BY <3>1
  <2>6. ASSUME NEW d \in Callers, Abandon(d) PROVE <1>2
    BY <2>6 DEF Abandon, GivesUp
  <2>7. ASSUME NEW d \in Callers, Leave(d) PROVE <1>2
    <3>1. /\ d # c /\ UNCHANGED slot /\ id' = [id EXCEPT ![d] = 0]
          /\ pc' = [pc EXCEPT ![d] = "idle"] \/ pc' = [pc EXCEPT ![d] = "notify"]
      BY <2>7 DEF Leave
    <3> QED BY <3>1
  <2>8. ASSUME NEW d \in Callers, Notify(d) \/ Cancel(d) PROVE <1>2
    BY <2>8 DEF Notify, Cancel
  <2>9. CASE ReaderStep \/ UpstreamRead \/ UpstreamNoise \/ Stop \/ AnswerSome
             \/ \E i \in OwnIDs : UpstreamRequest(i)
    BY <2>9 DEF ReaderStep, ReadLine, Deliver, ReadEOF, UpstreamRead, UpstreamNoise, Stop,
                AnswerSome, UpstreamAnswer, UpstreamRequest, PrintLine
  <2>10. CASE UNCHANGED vars
    BY <2>10 DEF vars
  <2> QED BY <2>1, <2>2, <2>3, <2>4, <2>5, <2>6, <2>7, <2>8, <2>9, <2>10 DEF Next, CallerStep
<1> QED BY <1>a, <1>1, <1>2 DEF Orphan

\* A call left waiting when the reader is gone ends by its context or not at all.
THEOREM OrphansAreLost == Spec => OnlyContextEndsOrphans
<1>1. TypeInv /\ [Next]_vars
      => [\A c \in Callers : Orphan(c) /\ c \notin cancelled => Orphan(c)']_vars
  BY OrphanStep
<1> QED BY <1>1, TypeInit, TypeStep, PTL DEF Spec, OnlyContextEndsOrphans
=============================================================================
