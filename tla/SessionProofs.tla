--------------------------- MODULE SessionProofs ---------------------------
(***************************************************************************)
(* Proofs about Session, for any texts, steps, calls and bounds: types,    *)
(* that what a client has been told of an artifact stays true, and that    *)
(* what is read is what was asked for, as far as JSON can carry it.        *)
(***************************************************************************)
EXTENDS Session, FiniteSetTheorems, SequenceTheorems, TLAPS

\* An artifact with its file; one that is, with the index kept, in the index as well.
Held(item)   == item.path \in DOMAIN files /\ item.path.sum = item.id
Known(ids)   == keepIndex => ids \subseteq DOMAIN byID
Handed(refs) == \A item \in refs : Held(item) /\ (keepIndex => item.id \in DOMAIN byID)

\* The process and its counters.
Counters ==
    /\ phase \in Phases /\ hasStore \in BOOLEAN /\ keepIndex \in BOOLEAN
    /\ second \in 0..MaxSecond /\ begun \in 0..MaxSteps /\ restarts \in 0..MaxRestarts

\* A file holds no more than its name's hash is of; the index has files of its own contents.
Store ==
    /\ DOMAIN files \subseteq Names /\ hurt \subseteq DOMAIN files
    /\ \A p \in DOMAIN files : files[p] \in Contents \cup {<<>>} /\ Len(files[p]) <= Len(p.sum)
    /\ recent \in Seq(Contents) /\ DOMAIN byID = Range(recent)
    /\ \A i \in DOMAIN byID : byID[i] \in DOMAIN files /\ byID[i].sum = i

\* What is neither being written nor left by a write that failed holds its content.
Bodies == \A p \in DOMAIN files : p \in hurt \cup Writing \/ files[p] = p.sum

\* Where a step may be.
StepOK(x) ==
    \/ x = NoStep
    \/ \E job \in Calls : x = [at |-> "begin", job |-> job]
    \/ \E item \in Item, text \in Texts :
          /\ x = [at |-> "read", item |-> item, text |-> text]
          /\ Held(item) /\ Len(item.id) < MaxLen
    \/ \E label \in Labels, body \in Contents :
          x = [at |-> "open", label |-> label, body |-> body]
    \/ \E at \in {"write", "index"}, path \in DOMAIN files :
          x = [at |-> at, path |-> path, body |-> path.sum]
    \/ \E ok \in BOOLEAN, refs \in SUBSET Item : x = Done(ok, refs) /\ Handed(refs)

Running ==
    /\ DOMAIN step = Steps /\ step = [s \in Steps |-> step[s]]
    /\ \A s \in Steps : StepOK(step[s])
    /\ phase # "plan" => \A s \in Steps : step[s] = NoStep

\* What the client is told, and has been told, is so.
Told ==
    /\ reading \subseteq Item /\ (phase = "read" <=> reading # {}) /\ Handed(reading)
    /\ \A a, b \in reading : a = b
    /\ reply \in Reply /\ (reply # NoReply <=> phase = "write")
    /\ Handed(reply.refs) /\ Known(reply.ids)
    /\ paths \subseteq Item /\ \A item \in paths : Held(item)
    /\ uris \subseteq Contents /\ Known(uris) /\ (phase = "start" => uris = {})

IInv == Counters /\ Store /\ Bodies /\ Running /\ Told

-----------------------------------------------------------------------------
(* Contents                                                                *)

LEMMA ContentsAreSeqs ==
    /\ \A c \in Contents : c \in Seq(Texts) /\ Len(c) \in 1..MaxLen
    /\ \A c \in Seq(Texts) : Len(c) \in 1..MaxLen => c \in Contents
BY ArtifactsAssumption DEF Contents

\* A text appended to what a file of a short content holds is a content again.
LEMMA AppendedIsContent ==
    ASSUME NEW c \in Contents \cup {<<>>}, NEW text \in Texts, Len(c) < MaxLen
    PROVE  Appended(c, text) \in Contents
<1>1. c \in Seq(Texts) /\ Len(c) \in 0..MaxLen
  <2>1. CASE c = <<>>
    BY <2>1, ArtifactsAssumption
  <2>2. CASE c \in Contents
    BY <2>2, ContentsAreSeqs
  <2> QED BY <2>1, <2>2
<1>2. Append(c, text) \in Seq(Texts) /\ Len(Append(c, text)) = Len(c) + 1
  BY <1>1
<1>3. Len(Append(c, text)) \in 1..MaxLen
  BY <1>1, <1>2, ArtifactsAssumption
<1> QED BY <1>2, <1>3, ContentsAreSeqs DEF Appended

\* What JSON makes of a content is a content, and a text is what it was.
LEMMA TextOfContent ==
    /\ \A c \in Contents \cup {<<>>} : TextOf(c) \in Contents \cup {<<>>}
    /\ \A c \in Textual : c \in Contents /\ TextOf(c) = c
<1>1. ASSUME NEW n \in 1..MaxLen, NEW c \in [1..n -> Texts]
      PROVE  TextOf(c) \in [1..n -> Texts]
  BY ArtifactsAssumption DEF TextOf
<1>2. TextOf(<<>>) = <<>>
  BY DEF TextOf
<1>3. ASSUME NEW n \in 1..MaxLen, NEW c \in [1..n -> Texts \ Binary]
      PROVE  c \in [1..n -> Texts] /\ TextOf(c) = c
  BY DEF TextOf
<1> QED BY <1>1, <1>2, <1>3 DEF Contents, Textual

\* What is left of a content when its write breaks off.
LEMMA PrefixIsShort ==
    ASSUME NEW c \in Contents, NEW n \in 0..(Len(c) - 1)
    PROVE  SubSeq(c, 1, n) \in Contents \cup {<<>>} /\ Len(SubSeq(c, 1, n)) <= Len(c)
<1>1. c \in Seq(Texts) /\ Len(c) \in 1..MaxLen
  BY ContentsAreSeqs
<1>2. SubSeq(c, 1, n) \in Seq(Texts) /\ Len(SubSeq(c, 1, n)) = n
  BY <1>1
<1>3. CASE n = 0
  BY <1>1, <1>2, <1>3
<1>4. CASE n # 0
  <2>1. n \in 1..MaxLen /\ n <= Len(c)
    BY <1>1, <1>4, ArtifactsAssumption
  <2>2. SubSeq(c, 1, n) \in Contents
    BY <1>2, <2>1, ContentsAreSeqs
  <2> QED BY <1>2, <2>1, <2>2
<1> QED BY <1>3, <1>4

-----------------------------------------------------------------------------
(* What stays                                                              *)

\* Within one process no file and no entry of the index goes away.
Grows == /\ DOMAIN files \subseteq DOMAIN files' /\ DOMAIN byID \subseteq DOMAIN byID'
         /\ keepIndex' = keepIndex

LEMMA HandedStays ==
    ASSUME Grows, NEW refs, Handed(refs)
    PROVE  Handed(refs)'
BY DEF Grows, Handed, Held

LEMMA StepStays ==
    ASSUME Grows, NEW x, StepOK(x)
    PROVE  StepOK(x)'
<1>1. CASE x = NoStep \/ \E job \in Calls : x = [at |-> "begin", job |-> job]
  BY <1>1 DEF StepOK
<1>2. ASSUME NEW item \in Item, NEW text \in Texts,
             x = [at |-> "read", item |-> item, text |-> text], Held(item), Len(item.id) < MaxLen
      PROVE  StepOK(x)'
  BY <1>2 DEF StepOK, Held, Grows
<1>3. CASE \E label \in Labels, body \in Contents :
              x = [at |-> "open", label |-> label, body |-> body]
  BY <1>3 DEF StepOK
<1>4. CASE \E at \in {"write", "index"}, path \in DOMAIN files :
              x = [at |-> at, path |-> path, body |-> path.sum]
  BY <1>4 DEF StepOK, Grows
<1>5. ASSUME NEW ok \in BOOLEAN, NEW refs \in SUBSET Item, x = Done(ok, refs), Handed(refs)
      PROVE  StepOK(x)'
  BY <1>5, HandedStays DEF StepOK
<1> QED BY <1>1, <1>2, <1>3, <1>4, <1>5 DEF StepOK

\* Told is kept by a step of the process that tells nothing.
LEMMA ToldStays ==
    ASSUME Told, Grows, UNCHANGED <<phase, reading, reply, uris, paths>>
    PROVE  Told'
BY DEF Told, Grows, Handed, Held, Known

\* Everything that speaks of the store and the steps is kept with them.
LEMMA StoreStays ==
    ASSUME IInv, UNCHANGED <<storeVars, step>>
    PROVE  Store' /\ Bodies' /\ Grows
BY DEF IInv, storeVars, Store, Bodies, Writing, Grows

LEMMA StepsStay ==
    ASSUME IInv, UNCHANGED <<storeVars, step>>, phase' # "plan" => phase # "plan"
    PROVE  Running'
<1>1. Grows
  BY StoreStays
<1>2. \A s \in Steps : StepOK(step[s])'
  BY <1>1, StepStays DEF IInv, Running
<1> QED BY <1>2 DEF IInv, Running

-----------------------------------------------------------------------------
LEMMA InitIInv == Init => IInv
<1> SUFFICES ASSUME Init PROVE IInv
  OBVIOUS
<1>1. Counters
  <2>1. 0 \in 0..MaxSecond /\ 0 \in 0..MaxSteps /\ 0 \in 0..MaxRestarts
    BY SessionAssumption, ArtifactsAssumption
  <2> QED BY <2>1 DEF Init, Counters, Phases
<1>2. Store /\ Bodies
  BY DEF Init, Store, Bodies, Range
<1>3. Running
  BY DEF Init, Running, StepOK
<1>4. NoReply \in Reply
  BY DEF NoReply, Response, Reply, Kinds
<1>5. Told
  BY <1>4 DEF Init, Told, Handed, Known, NoReply, Response
<1> QED BY <1>1, <1>2, <1>3, <1>5 DEF IInv

-----------------------------------------------------------------------------
(* The loop                                                                *)

\* An answer that tells only what is so may be given.
LEMMA RespondTells ==
    ASSUME Told, Grows, NEW r \in Reply, Handed(r.refs), Known(r.ids), Respond(r),
           reading' = {}, UNCHANGED <<uris, paths>>
    PROVE  Told'
<1>1. phase' \in {"wait", "write"} /\ (reply' # NoReply <=> phase' = "write") /\ reply' = r
  BY DEF Respond
<1>2. Handed(r.refs)' /\ Known(r.ids)'
  BY HandedStays DEF Known, Grows
<1>3. (\A item \in paths : Held(item))' /\ Known(uris)'
  BY DEF Told, Held, Known, Grows
<1> QED BY <1>1, <1>2, <1>3 DEF Told, Handed

LEMMA Responses ==
    ASSUME NEW kind \in Kinds
    PROVE  /\ Response(kind) \in Reply
           /\ Response(kind).refs = {} /\ Response(kind).ids = {}
BY DEF Response, Reply

LEMMA RequestKeepsIInv ==
    ASSUME IInv, NEW line \in Lines, handleRequest(line)
    PROVE  IInv'
<1>1. Counters' /\ phase' # "plan" /\ phase = "wait"
  BY DEF IInv, Counters, handleRequest, Respond, Phases, MayHandle, storeVars
<1>2. Store' /\ Bodies' /\ Grows /\ Running'
  BY <1>1, StoreStays, StepsStay DEF handleRequest
<1>3. PICK kind \in Kinds : Answer(line) = Response(kind)
  BY DEF Answer, Lines, NoReply, Kinds
<1>4. reading' = {}
  BY <1>1 DEF IInv, Told, handleRequest
<1>5. Told'
  <2>1. Handed({}) /\ Known({})
    BY DEF Handed, Known
  <2>2. Respond(Response(kind)) /\ UNCHANGED <<uris, paths>>
    BY <1>3 DEF handleRequest
  <2> QED BY <1>2, <1>4, <2>1, <2>2, Responses, RespondTells DEF IInv
<1> QED BY <1>1, <1>2, <1>5 DEF IInv

LEMMA ListKeepsIInv ==
    ASSUME IInv, handleListResources
    PROVE  IInv'
<1> DEFINE told == IF hasStore THEN {item.id : item \in Range(List)} ELSE {}
           r == [Response("result") EXCEPT !.ids = told]
<1>1. Counters' /\ phase' # "plan" /\ phase = "wait"
  BY DEF IInv, Counters, handleListResources, Respond, Phases, MayHandle, storeVars
<1>2. Store' /\ Bodies' /\ Grows /\ Running'
  BY <1>1, StoreStays, StepsStay DEF handleListResources
<1>3. told \subseteq DOMAIN byID /\ told \subseteq Contents
  BY DEF IInv, Store, List, ItemOf, Range
<1>4. r \in Reply /\ Handed(r.refs) /\ Known(r.ids)
  BY <1>3 DEF Response, Reply, Kinds, Handed, Known
<1>5. reading' = {}
  BY <1>1 DEF IInv, Told, handleListResources
<1>6. Told'
  <2>1. Respond(r) /\ UNCHANGED <<uris, paths>>
    BY DEF handleListResources
  <2> HIDE DEF r
  <2> QED BY <1>2, <1>4, <1>5, <2>1, RespondTells DEF IInv
<1> QED BY <1>1, <1>2, <1>6 DEF IInv

LEMMA ReadStartKeepsIInv ==
    ASSUME IInv, NEW i \in Contents, handleReadResource(i)
    PROVE  IInv'
<1>1. Counters' /\ phase' # "plan" /\ phase = "wait"
  BY DEF IInv, Counters, handleReadResource, Respond, Phases, MayHandle, storeVars, Response, NoReply
<1>2. Store' /\ Bodies' /\ Grows /\ Running'
  BY <1>1, StoreStays, StepsStay DEF handleReadResource
<1>3. ASSUME hasStore /\ Get(i) # {} PROVE Told'
  <2>1. phase' = "read" /\ reading' = {ItemOf(i)} /\ reply' = NoReply /\ UNCHANGED <<uris, paths>>
    BY <1>3 DEF handleReadResource
  <2>2. i \in DOMAIN byID
    BY <1>3 DEF Get
  <2>3. ItemOf(i) \in Item /\ Handed({ItemOf(i)})
    BY <2>2 DEF IInv, Store, ItemOf, Item, Handed, Held
  <2>4. Handed(reading)'
    BY <1>2, <2>1, <2>3 DEF Handed, Held, Grows
  <2>5. NoReply \in Reply /\ NoReply.refs = {} /\ NoReply.ids = {}
    BY Responses DEF NoReply, Kinds
  <2> QED BY <1>2, <2>1, <2>3, <2>4, <2>5 DEF IInv, Told, Handed, Held, Known, Grows
<1>4. ASSUME ~(hasStore /\ Get(i) # {}) PROVE Told'
  <2>1. Respond(Response("invalid params")) /\ reading' = {} /\ UNCHANGED <<uris, paths>>
    BY <1>1, <1>4 DEF handleReadResource, IInv, Told
  <2>2. "invalid params" \in Kinds /\ Handed({}) /\ Known({})
    BY DEF Kinds, Handed, Known
  <2> QED BY <1>2, <2>1, <2>2, Responses, RespondTells DEF IInv
<1>5. Told'
  BY <1>3, <1>4
<1> QED BY <1>1, <1>2, <1>5 DEF IInv

\* What the file is read from may be anything that a content can be cut to.
LEMMA ReadKeepsIInv ==
    ASSUME IInv, ReadResource
    PROVE  IInv'
<1>1. Counters' /\ phase' # "plan" /\ phase = "read"
  BY DEF IInv, Counters, ReadResource, Respond, Phases, storeVars
<1>2. Store' /\ Bodies' /\ Grows /\ Running'
  BY <1>1, StoreStays, StepsStay DEF ReadResource
<1>3. Handed({}) /\ Known({}) /\ reading' = {} /\ UNCHANGED <<uris, paths>>
  BY DEF Handed, Known, ReadResource
<1>4. CASE Respond(Response("invalid params"))
  <2>1. Told'
    BY <1>2, <1>3, <1>4, Responses, RespondTells DEF IInv, Kinds
  <2> QED BY <1>1, <1>2, <2>1 DEF IInv
<1>5. ASSUME NEW item \in reading,
             Respond([Response("resource") EXCEPT
                         !.ids = {item.id}, !.body = TextOf(files[item.path])])
      PROVE  IInv'
  <2> DEFINE r == [Response("resource") EXCEPT
                      !.ids = {item.id}, !.body = TextOf(files[item.path])]
  <2>1. item \in Item /\ Held(item) /\ Known({item.id})
    BY DEF IInv, Told, Handed, Known
  <2>2. files[item.path] \in Contents \cup {<<>>} /\ item.id \in Contents
    BY <2>1 DEF IInv, Store, Held, Item
  <2>3. r \in Reply /\ r.refs = {} /\ r.ids = {item.id}
    BY <2>2, TextOfContent DEF Response, Reply, Kinds
  <2>4. Told'
    <3>1. Respond(r)
      BY <1>5
    <3> HIDE DEF r
    <3> QED BY <1>2, <1>3, <2>1, <2>3, <3>1, RespondTells DEF IInv
  <2> QED BY <1>1, <1>2, <2>4 DEF IInv
<1> QED BY <1>4, <1>5 DEF ReadResource

LEMMA WriteKeepsIInv ==
    ASSUME IInv, WriteResponse
    PROVE  IInv'
<1>1. Counters' /\ phase' = "wait" /\ phase = "write"
  BY DEF IInv, Counters, WriteResponse, Phases, storeVars
<1>2. Store' /\ Bodies' /\ Grows /\ Running'
  BY <1>1, StoreStays, StepsStay DEF WriteResponse
<1>3. NoReply \in Reply /\ NoReply.refs = {} /\ NoReply.ids = {}
  BY Responses DEF NoReply, Kinds
<1>4. /\ reply.ids \subseteq Contents /\ {item.id : item \in reply.refs} \subseteq Contents
      /\ Known(reply.ids) /\ Known({item.id : item \in reply.refs})
      /\ reply.refs \subseteq Item /\ \A item \in reply.refs : Held(item)
  BY DEF IInv, Told, Reply, Item, Handed, Known
<1>5. /\ uris' \subseteq uris \cup reply.ids \cup {item.id : item \in reply.refs}
      /\ paths' \subseteq paths \cup reply.refs
  BY DEF WriteResponse
<1>6. uris' \subseteq Contents /\ (keepIndex => uris' \subseteq DOMAIN byID)
  BY <1>4, <1>5 DEF IInv, Told, Known
<1>7. paths' \subseteq Item /\ \A item \in paths' : Held(item)
  BY <1>4, <1>5 DEF IInv, Told
<1>8. Told'
  <2>1. reading' = {} /\ reply' = NoReply /\ UNCHANGED storeVars
    BY <1>1 DEF IInv, Told, WriteResponse
  <2> QED BY <1>1, <1>3, <1>6, <1>7, <2>1 DEF Told, Handed, Held, Known, storeVars
<1> QED BY <1>1, <1>2, <1>8 DEF IInv

LEMMA EofAndTickKeepIInv ==
    ASSUME IInv, Eof \/ Tick
    PROVE  IInv'
<1>1. Counters' /\ (phase' # "plan" => phase # "plan")
  BY ArtifactsAssumption DEF IInv, Counters, Eof, Tick, Phases, storeVars
<1>2. Store' /\ Bodies' /\ Grows /\ Running'
  BY <1>1, StoreStays, StepsStay DEF Eof, Tick
<1>3. CASE Tick
  BY <1>2, <1>3, ToldStays, <1>1 DEF Tick, IInv
<1>4. CASE Eof
  <2>1. Told'
    BY <1>4 DEF Eof, IInv, Told, Handed, Held, Known, storeVars
  <2> QED BY <1>1, <1>2, <2>1 DEF IInv
<1> QED BY <1>3, <1>4

LEMMA CallKeepsIInv ==
    ASSUME IInv, NEW some \in SUBSET Steps, NEW jobs \in [some -> Calls], handleCallTool(jobs)
    PROVE  IInv'
<1>1. /\ phase = "wait" /\ phase' = "plan"
      /\ UNCHANGED <<storeVars, hasStore, reading, reply, second, restarts, uris, paths>>
  BY DEF handleCallTool, MayHandle
<1>2. Cardinality(DOMAIN jobs) \in Nat
  <2>1. IsFiniteSet(some)
    BY SessionAssumption, FS_Subset
  <2> QED BY <2>1, FS_CardinalityType
<1>3. Counters'
  BY <1>1, <1>2, SessionAssumption DEF IInv, Counters, Phases, storeVars, handleCallTool
<1>4. Grows /\ Store'
  BY <1>1 DEF IInv, Store, Grows, storeVars
<1>5. Writing = {} /\ Writing' = {}
  <2>1. \A s \in Steps : step[s].at = "none"
    BY <1>1 DEF IInv, Running, NoStep
  <2>2. Writing = {}
    BY <2>1 DEF Writing
  <2>3. \A s \in Steps : step'[s].at \in {"none", "begin"}
    BY DEF handleCallTool, NoStep
  <2>4. Writing' = {}
    BY <2>3 DEF Writing
  <2> QED BY <2>2, <2>4
<1>6. Bodies'
  BY <1>1, <1>5 DEF IInv, Bodies, storeVars
<1>7. Running'
  <2>1. step' = [s \in Steps |-> IF s \in DOMAIN jobs THEN [at |-> "begin", job |-> jobs[s]]
                                 ELSE NoStep]
    BY DEF handleCallTool
  <2>2. \A s \in Steps : StepOK(step[s])'
    BY <2>1 DEF StepOK
  <2> QED BY <1>1, <2>1, <2>2 DEF Running
<1>8. Told'
  BY <1>1 DEF IInv, Told, Handed, Held, Known, storeVars
<1> QED BY <1>3, <1>4, <1>6, <1>7, <1>8 DEF IInv

\* Of the steps only those that are done have artifacts to tell of.
LEMMA PlanEndKeepsIInv ==
    ASSUME IInv, PlanEnds
    PROVE  IInv'
<1> DEFINE refs == UNION {step[s].refs : s \in {u \in Steps : step[u].at = "done"}}
           r == [Response("result") EXCEPT !.refs = refs]
<1>1. /\ phase = "plan" /\ Respond(r)
      /\ UNCHANGED <<storeVars, hasStore, reading, second, begun, restarts, uris, paths>>
  BY DEF PlanEnds
<1>2. Counters' /\ phase' \in {"wait", "write"}
  BY <1>1 DEF IInv, Counters, Phases, storeVars, Respond
<1>3. Grows /\ Store'
  BY <1>1 DEF IInv, Store, Grows, storeVars
<1>4. Writing = {} /\ Writing' = {}
  <2>1. \A s \in Steps : step[s].at \in {"none", "done"}
    BY DEF PlanEnds
  <2>2. Writing = {}
    BY <2>1 DEF Writing
  <2>3. \A s \in Steps : step'[s].at = "none"
    BY DEF PlanEnds, NoStep
  <2>4. Writing' = {}
    BY <2>3 DEF Writing
  <2> QED BY <2>2, <2>4
<1>5. Bodies'
  BY <1>1, <1>4 DEF IInv, Bodies, storeVars
<1>6. Running'
  BY <1>2 DEF Running, PlanEnds, StepOK
<1>7. ASSUME NEW s \in Steps, step[s].at = "done"
      PROVE  step[s].refs \subseteq Item /\ Handed(step[s].refs)
  BY <1>7 DEF IInv, Running, StepOK, Done, NoStep
<1>8. refs \subseteq Item /\ Handed(refs)
  BY <1>7 DEF Handed
<1>9. r \in Reply /\ r.refs = refs /\ r.ids = {}
  BY <1>8 DEF Response, Reply, Kinds
<1>10. Told'
  <2>1. reading' = {} /\ Known({})
    BY <1>1 DEF IInv, Told, Known
  <2> HIDE DEF refs, r
  <2> QED BY <1>1, <1>3, <1>8, <1>9, <2>1, RespondTells DEF IInv
<1> QED BY <1>2, <1>3, <1>5, <1>6, <1>10 DEF IInv

-----------------------------------------------------------------------------
(* The steps                                                               *)

\* A step that goes on to what a step may be keeps Running and Told.
LEMMA GoesOn ==
    ASSUME IInv, Grows, NEW s \in Steps, phase = "plan", NEW next, StepOK(next)', Goes(s, next)
    PROVE  Running' /\ Told'
<1>1. DOMAIN step = Steps /\ step' = [step EXCEPT ![s] = next]
  BY DEF IInv, Running, Goes
<1>2. \A u \in Steps : StepOK(step[u])'
  <2> TAKE u \in Steps
  <2>1. CASE u = s
    BY <1>1, <2>1
  <2>2. CASE u # s
    <3>1. PICK x : x = step[u] /\ x = step'[u] /\ StepOK(x)
      BY <1>1, <2>2 DEF IInv, Running
    <3>2. StepOK(x)'
      BY <3>1, StepStays
    <3> QED BY <3>1, <3>2
  <2> QED BY <2>1, <2>2
<1>3. Running'
  BY <1>1, <1>2 DEF Running, Goes
<1>4. Told'
  BY ToldStays DEF IInv, Goes
<1> QED BY <1>3, <1>4

\* A step is where the loop waits for it; what it is depends on where it is.
LEMMA StepAt ==
    ASSUME IInv, NEW s \in Steps, step[s].at # "none"
    PROVE  /\ phase = "plan" /\ StepOK(step[s])
           /\ step[s].at = "begin" => step[s].job \in Calls
           /\ step[s].at = "read" =>
                 /\ step[s].item \in Item /\ step[s].text \in Texts
                 /\ Held(step[s].item) /\ Len(step[s].item.id) < MaxLen
           /\ step[s].at = "open" => step[s].label \in Labels /\ step[s].body \in Contents
           /\ step[s].at \in {"write", "index"} =>
                 /\ step[s].path \in DOMAIN files /\ step[s].body = step[s].path.sum
                 /\ step[s].path \in Names /\ step[s].body \in Contents
                 /\ [step[s] EXCEPT !.at = "index"] =
                       [at |-> "index", path |-> step[s].path, body |-> step[s].path.sum]
<1>1. StepOK(step[s]) /\ phase = "plan"
  BY DEF IInv, Running, NoStep
<1> DEFINE x == step[s]
<1>2. CASE x = NoStep
  BY <1>2 DEF NoStep
<1>3. CASE \E job \in Calls : x = [at |-> "begin", job |-> job]
  BY <1>1, <1>3
<1>4. CASE \E item \in Item, text \in Texts :
              /\ x = [at |-> "read", item |-> item, text |-> text]
              /\ Held(item) /\ Len(item.id) < MaxLen
  BY <1>1, <1>4
<1>5. CASE \E label \in Labels, body \in Contents :
              x = [at |-> "open", label |-> label, body |-> body]
  BY <1>1, <1>5
<1>6. CASE \E at \in {"write", "index"}, path \in DOMAIN files :
              x = [at |-> at, path |-> path, body |-> path.sum]
  BY <1>1, <1>6 DEF IInv, Store, Names
<1>7. CASE \E ok \in BOOLEAN, refs \in SUBSET Item : x = Done(ok, refs) /\ Handed(refs)
  BY <1>1, <1>7 DEF Done
<1> QED BY <1>1, <1>2, <1>3, <1>4, <1>5, <1>6, <1>7 DEF StepOK

LEMMA CountersStay ==
    ASSUME IInv, UNCHANGED <<phase, hasStore, keepIndex, second, begun, restarts>>
    PROVE  Counters'
BY DEF IInv, Counters

\* The items of the index are artifacts with their file.
LEMMA IndexIsHeld ==
    ASSUME IInv
    PROVE  /\ \A i \in DOMAIN byID : /\ ItemOf(i) \in Item /\ Held(ItemOf(i))
                                     /\ ItemOf(i).id = i
           /\ \A refs : refs \subseteq Range(List) => refs \subseteq Item /\ Handed(refs)
<1>1. \A i \in DOMAIN byID : ItemOf(i) \in Item /\ Held(ItemOf(i)) /\ ItemOf(i).id = i
  BY DEF IInv, Store, ItemOf, Item, Held, Range
<1>2. \A item \in Range(List) : \E i \in DOMAIN byID : item = ItemOf(i)
  BY DEF IInv, Store, List, Range
<1> QED BY <1>1, <1>2 DEF Handed

LEMMA BeginKeepsIInv ==
    ASSUME IInv, NEW s \in Steps, Begin(s)
    PROVE  IInv'
<1> DEFINE job == step[s].job
<1>1. phase = "plan" /\ job \in Calls
  BY StepAt DEF Begin
<1>2. UNCHANGED storeVars /\ Grows
  BY DEF Begin, storeVars, Grows
<1>3. Counters' /\ Store'
  BY <1>2, CountersStay DEF Begin, Goes, storeVars, IInv, Store
<1>4. PICK next : Goes(s, next) /\ StepOK(next)
  <2> DEFINE nx == CASE job.do = "save" /\ hasStore ->
                            [at |-> "open", label |-> "artifact_save_text", body |-> job.body]
                     [] job.do = "fetch" ->
                            IF hasStore /\ Large(job.body)
                            THEN [at |-> "open", label |-> "fetch", body |-> job.body]
                            ELSE Done(TRUE, {})
                     [] job.do = "download" /\ hasStore ->
                            [at |-> "open", label |-> "download", body |-> job.body]
                     [] job.do = "append" /\ hasStore /\ Get(job.id) # {} ->
                            [at |-> "read", item |-> ItemOf(job.id), text |-> job.text]
                     [] job.do = "list" /\ hasStore -> Done(TRUE, Listed(job.limit))
                     [] job.do = "search" /\ hasStore -> Done(TRUE, Found(job.label))
                     [] OTHER -> Done(FALSE, {})
  <2>1. Goes(s, nx)
    BY DEF Begin
  <2>2. job \in Jobs /\ (job.do = "append" => Len(job.id) < MaxLen)
    BY <1>1, SessionAssumption
  <2>3. \A ok \in BOOLEAN : StepOK(Done(ok, {}))
    BY DEF StepOK, Handed
  <2>4. \A label \in Labels, body \in Contents :
           StepOK([at |-> "open", label |-> label, body |-> body])
    BY DEF StepOK
  <2>5. CASE job.do = "save"
    <3>1. job.body \in Contents
      <4>1. PICK t \in Texts : job.body = <<t>>
        BY <2>2, <2>5 DEF Jobs
      <4>2. <<t>> \in Seq(Texts) /\ Len(<<t>>) \in 1..MaxLen
        BY ArtifactsAssumption
      <4> QED BY <4>1, <4>2, ContentsAreSeqs
    <3>2. nx = IF hasStore THEN [at |-> "open", label |-> "artifact_save_text", body |-> job.body]
               ELSE Done(FALSE, {})
      BY <2>5
    <3> QED BY <2>3, <2>4, <3>1, <3>2, <2>1 DEF Labels
  <2>6. CASE job.do = "fetch"
    <3>1. job.body \in Contents
      BY <2>2, <2>6, TextOfContent DEF Jobs
    <3>2. nx = IF hasStore /\ Large(job.body)
               THEN [at |-> "open", label |-> "fetch", body |-> job.body] ELSE Done(TRUE, {})
      BY <2>6
    <3> QED BY <2>3, <2>4, <3>1, <3>2, <2>1 DEF Labels
  <2>7. CASE job.do = "append"
    <3>1. job.text \in Texts /\ Len(job.id) < MaxLen
      BY <2>2, <2>7 DEF Jobs
    <3>2. nx = IF hasStore /\ Get(job.id) # {}
               THEN [at |-> "read", item |-> ItemOf(job.id), text |-> job.text] ELSE Done(FALSE, {})
      BY <2>7
    <3>3. ASSUME Get(job.id) # {}
          PROVE  StepOK([at |-> "read", item |-> ItemOf(job.id), text |-> job.text])
      <4>1. job.id \in DOMAIN byID
        BY <3>3 DEF Get
      <4>2. ItemOf(job.id) \in Item /\ Held(ItemOf(job.id)) /\ ItemOf(job.id).id = job.id
        BY <4>1, IndexIsHeld
      <4> QED BY <3>1, <4>2 DEF StepOK
    <3> QED BY <2>1, <2>3, <3>2, <3>3
  <2>8. CASE job.do = "list"
    <3>1. Listed(job.limit) \subseteq Item /\ Handed(Listed(job.limit))
      <4>1. Listed(job.limit) \subseteq Range(List)
        BY DEF Listed, Range
      <4> QED BY <4>1, IndexIsHeld
    <3>2. nx = IF hasStore THEN Done(TRUE, Listed(job.limit)) ELSE Done(FALSE, {})
      BY <2>8
    <3>3. StepOK(Done(TRUE, Listed(job.limit)))
      BY <3>1 DEF StepOK
    <3> QED BY <2>1, <2>3, <3>2, <3>3
  <2>9. CASE job.do = "search"
    <3>1. Found(job.label) \subseteq Item /\ Handed(Found(job.label))
      <4>1. Found(job.label) \subseteq Range(List)
        BY DEF Found, Hits, Range
      <4> QED BY <4>1, IndexIsHeld
    <3>2. nx = IF hasStore THEN Done(TRUE, Found(job.label)) ELSE Done(FALSE, {})
      BY <2>9
    <3>3. StepOK(Done(TRUE, Found(job.label)))
      BY <3>1 DEF StepOK
    <3> QED BY <2>1, <2>3, <3>2, <3>3
  <2>10. CASE job.do = "download"
    <3>1. job.body \in Contents
      BY <2>2, <2>10 DEF Jobs
    <3>2. nx = IF hasStore THEN [at |-> "open", label |-> "download", body |-> job.body]
               ELSE Done(FALSE, {})
      BY <2>10
    <3> QED BY <2>3, <2>4, <3>1, <3>2, <2>1 DEF Labels
  <2>11. job.do \in {"save", "fetch", "download", "append", "list", "search"}
    BY <2>2 DEF Jobs
  <2> QED BY <2>5, <2>6, <2>7, <2>8, <2>9, <2>10, <2>11
<1>5. Bodies'
  <2>1. \A u \in Steps : step[u].at = "write" => step'[u] = step[u]
    BY <1>4 DEF Begin, Goes, IInv, Running
  <2>2. Writing \subseteq Writing'
    BY <2>1 DEF Writing
  <2> QED BY <1>2, <2>2 DEF IInv, Bodies, storeVars
<1>6. StepOK(next)'
  BY <1>2, <1>4, StepStays
<1> QED BY <1>1, <1>2, <1>3, <1>4, <1>5, <1>6, GoesOn DEF IInv

\* A step that ends with an error and leaves the store alone.
LEMMA GivesUpKeepsIInv ==
    ASSUME IInv, NEW s \in Steps, step[s].at \in {"read", "open"}, Goes(s, Done(FALSE, {})),
           UNCHANGED <<storeVars, begun>>
    PROVE  IInv'
<1>1. phase = "plan" /\ Grows
  BY StepAt DEF storeVars, Grows
<1>2. Counters' /\ Store'
  BY CountersStay DEF Goes, storeVars, IInv, Store
<1>3. PICK nx : nx = Done(FALSE, {}) /\ Goes(s, nx)
  OBVIOUS
<1>4. StepOK(nx)'
  <2>1. {} \in SUBSET Item /\ Handed({}) /\ FALSE \in BOOLEAN
    BY DEF Handed
  <2>2. StepOK(nx)
    BY <1>3, <2>1 DEF StepOK
  <2> QED BY <1>1, <2>2, StepStays
<1>5. Bodies'
  <2>1. \A u \in Steps : step[u].at = "write" => step'[u] = step[u]
    BY DEF Goes, IInv, Running
  <2>2. Writing \subseteq Writing'
    BY <2>1 DEF Writing
  <2> QED BY <2>2 DEF IInv, Bodies, storeVars
<1> QED BY <1>1, <1>2, <1>3, <1>4, <1>5, GoesOn DEF IInv

LEMMA AppendTextKeepsIInv ==
    ASSUME IInv, NEW s \in Steps, artifactAppendText(s)
    PROVE  IInv'
<1> DEFINE c == files[step[s].item.path]
           next == [at |-> "open", label |-> "artifact_append_text",
                    body |-> Appended(c, step[s].text)]
<1>1. /\ phase = "plan" /\ step[s].at = "read" /\ step[s].text \in Texts
      /\ Held(step[s].item) /\ Len(step[s].item.id) < MaxLen /\ step[s].item \in Item
  BY StepAt DEF artifactAppendText
<1>0. CASE Goes(s, Done(FALSE, {}))
  BY <1>0, <1>1, GivesUpKeepsIInv DEF artifactAppendText
<1> SUFFICES ASSUME Goes(s, next) PROVE IInv'
  BY <1>0 DEF artifactAppendText
<1>2. PICK nx : nx = next /\ UNCHANGED storeVars /\ Grows /\ Goes(s, nx)
  BY DEF artifactAppendText, storeVars, Grows
<1>3. Counters' /\ Store'
  BY <1>2, CountersStay DEF artifactAppendText, Goes, storeVars, IInv, Store
<1>4. StepOK(nx)'
  <2>1. c \in Contents \cup {<<>>} /\ Len(c) <= Len(step[s].item.id)
    BY <1>1 DEF IInv, Store, Held
  <2>2. Len(c) \in Nat /\ Len(step[s].item.id) \in Nat
    BY <1>1, <2>1, ContentsAreSeqs DEF Item
  <2>3. Len(c) < MaxLen
    BY <1>1, <2>1, <2>2, ArtifactsAssumption
  <2>4. Appended(c, step[s].text) \in Contents
    BY <1>1, <2>1, <2>3, AppendedIsContent
  <2>5. StepOK(nx)
    BY <1>2, <2>4 DEF StepOK, Labels
  <2> QED BY <1>2, <2>5, StepStays
<1>5. Bodies'
  <2>1. \A u \in Steps : step[u].at = "write" => step'[u] = step[u]
    BY <1>1, <1>2 DEF Goes, IInv, Running
  <2>2. Writing \subseteq Writing'
    BY <2>1 DEF Writing
  <2> QED BY <1>2, <2>2 DEF IInv, Bodies, storeVars
<1> HIDE DEF next
<1> QED BY <1>1, <1>2, <1>3, <1>4, <1>5, GoesOn DEF IInv

LEMMA OpenKeepsIInv ==
    ASSUME IInv, NEW s \in Steps, Open(s)
    PROVE  IInv'
<1> DEFINE path == Filename(step[s].label, second, step[s].body)
           next == [at |-> "write", path |-> path, body |-> step[s].body]
<1>1. phase = "plan" /\ step[s].at = "open" /\ step[s].label \in Labels /\ step[s].body \in Contents
  BY StepAt DEF Open
<1>0. CASE OpenFails /\ Goes(s, Done(FALSE, {}))
  BY <1>0, <1>1, GivesUpKeepsIInv DEF Open, OpenFails
<1> SUFFICES ASSUME Truncate(path), Goes(s, next) PROVE IInv'
  BY <1>0 DEF Open
<1>2. Truncate(path) /\ Goes(s, next) /\ UNCHANGED begun
  BY DEF Open
<1>n. PICK nx : nx = next /\ Goes(s, nx)
  BY <1>2
<1>3. path \in Names /\ path.sum = step[s].body
  BY <1>1 DEF IInv, Counters, Filename, Names
<1> HIDE DEF path
<1>4. Counters' /\ Grows
  BY <1>2, CountersStay DEF Truncate, Goes, Grows
<1>5. Store'
  <2>1. Len(<<>>) <= Len(path.sum)
    BY <1>1, <1>3, ContentsAreSeqs
  <2>2. DOMAIN files' = DOMAIN files \cup {path} /\ files'[path] = <<>>
        /\ \A p \in DOMAIN files : p # path => files'[p] = files[p]
    BY <1>2 DEF Truncate
  <2> QED BY <1>2, <1>3, <2>1, <2>2 DEF IInv, Store, Truncate
<1>6. StepOK(nx)'
  <2>1. path \in DOMAIN files'
    BY <1>2 DEF Truncate
  <2> QED BY <1>n, <1>3, <2>1 DEF StepOK
<1>7. Bodies'
  <2>1. \A u \in Steps : step[u].at = "write" => step'[u] = step[u]
    BY <1>1, <1>2 DEF Goes, IInv, Running
  <2>2. step'[s].at = "write" /\ step'[s].path = path
    BY <1>2 DEF Goes, IInv, Running
  <2>3. Writing \subseteq Writing' /\ path \in Writing'
    BY <2>1, <2>2 DEF Writing
  <2> QED BY <1>2, <2>3 DEF IInv, Bodies, Truncate
<1> HIDE DEF next
<1> QED BY <1>n, <1>1, <1>4, <1>5, <1>6, <1>7, GoesOn DEF IInv

LEMMA FinishKeepsIInv ==
    ASSUME IInv, NEW s \in Steps, Finish(s)
    PROVE  IInv'
<1> DEFINE path == step[s].path
           next == [step[s] EXCEPT !.at = "index"]
<1>1. /\ phase = "plan" /\ path \in DOMAIN files /\ step[s].body = path.sum
      /\ path \in Names /\ path.sum \in Contents
      /\ next = [at |-> "index", path |-> path, body |-> path.sum]
  BY StepAt DEF Finish
<1>2. WriteEnds(path, path.sum) /\ Goes(s, next) /\ UNCHANGED begun
  BY <1>1 DEF Finish
<1>n. PICK nx : nx = next /\ Goes(s, nx)
  BY <1>2
<1>3. Counters' /\ Grows
  BY <1>2, CountersStay DEF WriteEnds, Goes, Grows
<1>4. /\ DOMAIN files' = DOMAIN files /\ files'[path] = path.sum
      /\ \A p \in DOMAIN files : p # path => files'[p] = files[p]
  BY <1>1, <1>2 DEF WriteEnds
<1>5. Store'
  <2>1. Len(path.sum) <= Len(path.sum)
    BY <1>1, ContentsAreSeqs
  <2>2. UNCHANGED <<byID, recent>> /\ hurt' \subseteq hurt
    BY <1>2 DEF WriteEnds
  <2> HIDE DEF path
  <2> QED BY <1>1, <1>4, <2>1, <2>2 DEF IInv, Store
<1>6. StepOK(nx)'
  BY <1>n, <1>1, <1>4 DEF StepOK
<1>7. Bodies'
  <2>1. \A u \in Steps : u # s => step'[u] = step[u]
    BY <1>2 DEF Goes, IInv, Running
  <2>2. \A p \in Writing : p # path => p \in Writing'
    BY <2>1 DEF Writing
  <2>3. hurt' = hurt \ {path}
    BY <1>2 DEF WriteEnds
  <2> QED BY <1>4, <2>2, <2>3 DEF IInv, Bodies
<1> HIDE DEF next
<1> QED BY <1>n, <1>1, <1>3, <1>5, <1>6, <1>7, GoesOn DEF IInv

LEMMA FailKeepsIInv ==
    ASSUME IInv, NEW s \in Steps, Fail(s)
    PROVE  IInv'
<1> DEFINE path == step[s].path
<1>1. /\ phase = "plan" /\ path \in DOMAIN files /\ step[s].body = path.sum
      /\ path \in Names /\ path.sum \in Contents
  BY StepAt DEF Fail
<1>2. WriteFails(path, path.sum) /\ Goes(s, Done(FALSE, {})) /\ UNCHANGED begun
  BY <1>1 DEF Fail
<1>3. Counters' /\ Grows
  BY <1>2, CountersStay DEF WriteFails, Goes, Grows
<1>4. /\ DOMAIN files' = DOMAIN files
      /\ files'[path] \in Contents \cup {<<>>} /\ Len(files'[path]) <= Len(path.sum)
      /\ \A p \in DOMAIN files : p # path => files'[p] = files[p]
  <2>1. PICK n \in 0..(Len(path.sum) - 1) :
           files' = [files EXCEPT ![path] = SubSeq(path.sum, 1, n)]
    BY <1>2 DEF WriteFails
  <2>2. files'[path] = SubSeq(path.sum, 1, n)
    BY <1>1, <2>1
  <2> QED BY <1>1, <2>1, <2>2, PrefixIsShort
<1>5. hurt' = hurt \cup {path} /\ UNCHANGED <<byID, recent>>
  BY <1>2 DEF WriteFails
<1>6. Store'
  <2> HIDE DEF path
  <2> QED BY <1>1, <1>4, <1>5 DEF IInv, Store
<1>n. PICK nx : nx = Done(FALSE, {}) /\ Goes(s, nx)
  BY <1>2
<1>7. StepOK(nx)'
  <2>1. {} \in SUBSET Item /\ Handed({}) /\ FALSE \in BOOLEAN
    BY DEF Handed
  <2>2. StepOK(nx)
    BY <1>n, <2>1 DEF StepOK
  <2> QED BY <1>3, <2>2, StepStays
<1>8. Bodies'
  <2>1. \A u \in Steps : u # s => step'[u] = step[u]
    BY <1>2 DEF Goes, IInv, Running
  <2>2. \A p \in Writing : p # path => p \in Writing'
    BY <2>1 DEF Writing
  <2> QED BY <1>4, <1>5, <2>2 DEF IInv, Bodies
<1> QED BY <1>n, <1>1, <1>3, <1>6, <1>7, <1>8, GoesOn DEF IInv

LEMMA RegisterKeepsIInv ==
    ASSUME IInv, NEW s \in Steps, Register(s)
    PROVE  IInv'
<1> DEFINE path == step[s].path
           item == [id |-> path.sum, path |-> path]
<1>1. /\ phase = "plan" /\ path \in DOMAIN files /\ step[s].body = path.sum
      /\ path \in Names /\ path.sum \in Contents /\ step[s].at = "index"
  BY StepAt DEF Register
<1>2. Index(path, path.sum) /\ Goes(s, Done(TRUE, {item})) /\ UNCHANGED begun
  BY <1>1 DEF Register
<1>3. UNCHANGED <<keepIndex, files, hurt>>
  BY <1>2 DEF Index
<1>4. \/ ~keepIndex /\ UNCHANGED <<byID, recent>>
      \/ /\ recent' = Append(recent, path.sum)
         /\ DOMAIN byID' = DOMAIN byID \cup {path.sum} /\ byID'[path.sum] = path
         /\ \A i \in DOMAIN byID : i # path.sum => byID'[i] = byID[i]
  BY <1>2 DEF Index
<1>5. Counters' /\ Grows
  BY <1>2, <1>3, <1>4, CountersStay DEF Goes, Grows
<1>6. Store'
  <2>1. recent' \in Seq(Contents) /\ DOMAIN byID' = Range(recent')
    <3>1. recent \in Seq(Contents) /\ DOMAIN byID = Range(recent)
      BY DEF IInv, Store
    <3>2. CASE UNCHANGED <<byID, recent>>
      BY <3>1, <3>2
    <3>3. CASE /\ recent' = Append(recent, path.sum)
               /\ DOMAIN byID' = DOMAIN byID \cup {path.sum}
      <4> DEFINE c == path.sum
      <4>1. c \in Contents
        BY <1>1
      <4> HIDE DEF c
      <4>2. Append(recent, c) \in Seq(Contents)
        BY <3>1, <4>1
      <4>3. Range(Append(recent, c)) = Range(recent) \cup {c}
        <5>1. DOMAIN Append(recent, c) = 1..(Len(recent) + 1) /\ DOMAIN recent = 1..Len(recent)
              /\ Len(recent) \in Nat
          BY <3>1, <4>1
        <5>2. \A k \in 1..Len(recent) : Append(recent, c)[k] = recent[k]
          BY <3>1, <4>1
        <5>3. Append(recent, c)[Len(recent) + 1] = c
          BY <3>1, <4>1
        <5>4. 1..(Len(recent) + 1) = (1..Len(recent)) \cup {Len(recent) + 1}
          BY <5>1
        <5> QED BY <5>1, <5>2, <5>3, <5>4 DEF Range
      <4> QED BY <3>1, <3>3, <4>2, <4>3 DEF c
    <3> QED BY <1>4, <3>2, <3>3
  <2>2. \A i \in DOMAIN byID' : byID'[i] \in DOMAIN files /\ byID'[i].sum = i
    BY <1>1, <1>4 DEF IInv, Store
  <2> QED BY <1>3, <2>1, <2>2 DEF IInv, Store
<1>n. PICK it : it = item /\ Goes(s, Done(TRUE, {it}))
  BY <1>2
<1>7. StepOK(Done(TRUE, {it}))'
  <2>1. it \in Item
    BY <1>n, <1>1 DEF Item
  <2>2. Handed({it})'
    BY <1>n, <1>1, <1>3, <1>4 DEF Handed, Held
  <2> QED BY <2>1, <2>2 DEF StepOK
<1>8. Bodies'
  <2>1. \A u \in Steps : step[u].at = "write" => step'[u] = step[u]
    BY <1>1, <1>2 DEF Goes, IInv, Running
  <2>2. Writing \subseteq Writing'
    BY <2>1 DEF Writing
  <2> QED BY <1>3, <2>2 DEF IInv, Bodies
<1> HIDE DEF item
<1> QED BY <1>n, <1>1, <1>5, <1>6, <1>7, <1>8, GoesOn DEF IInv

-----------------------------------------------------------------------------
(* The process                                                             *)

\* Nothing runs, and nothing has been told.
LEMMA NoneIsFine ==
    /\ NoReply \in Reply /\ NoReply.refs = {} /\ NoReply.ids = {}
    /\ Handed({}) /\ StepOK(NoStep)
BY Responses DEF NoReply, Kinds, Handed, StepOK

LEMMA BootKeepsIInv ==
    ASSUME IInv, Boot
    PROVE  IInv'
<1>1. /\ phase = "start" /\ phase' \in {"wait", "down"}
      /\ byID' = <<>> /\ recent' = <<>> /\ keepIndex' \in BOOLEAN /\ hasStore' \in BOOLEAN
      /\ UNCHANGED <<files, hurt, step, reading, reply, second, begun, restarts, uris, paths>>
  BY DEF Boot, Empty
<1>2. Counters'
  BY <1>1 DEF IInv, Counters, Phases
<1>3. Store'
  BY <1>1 DEF IInv, Store, Range
<1>4. Bodies'
  BY <1>1 DEF IInv, Bodies, Writing
<1>5. Running'
  <2>1. \A s \in Steps : step'[s] = NoStep
    BY <1>1 DEF IInv, Running
  <2>2. StepOK(NoStep)'
    BY DEF StepOK
  <2> QED BY <1>1, <2>1, <2>2 DEF IInv, Running
<1>6. Told'
  <2>1. reading = {} /\ reply = NoReply /\ uris = {}
    BY <1>1 DEF IInv, Told
  <2> QED BY <1>1, <2>1, NoneIsFine DEF IInv, Told, Handed, Held, Known
<1> QED BY <1>2, <1>3, <1>4, <1>5, <1>6 DEF IInv

LEMMA RestartKeepsIInv ==
    ASSUME IInv, Restart
    PROVE  IInv'
<1>1. Counters'
  <2>1. restarts + 1 \in 0..MaxRestarts
    BY SessionAssumption DEF IInv, Counters, Restart
  <2> QED BY <2>1 DEF IInv, Counters, Restart, Phases
<1>2. Store'
  <2>1. Writing \subseteq DOMAIN files
    BY StepAt DEF Writing
  <2> QED BY <2>1 DEF IInv, Store, Range, Restart
<1>3. Bodies'
  BY DEF IInv, Bodies, Restart
<1>4. Running'
  BY DEF Running, Restart, StepOK
<1>5. Told'
  BY NoneIsFine DEF IInv, Told, Restart, Handed, Held, Known
<1> QED BY <1>1, <1>2, <1>3, <1>4, <1>5 DEF IInv

LEMMA NextKeepsIInv == IInv /\ [Next]_vars => IInv'
<1> SUFFICES ASSUME IInv, [Next]_vars PROVE IInv'
  OBVIOUS
<1>1. CASE Boot
  BY <1>1, BootKeepsIInv
<1>2. CASE \E line \in Lines : handleRequest(line)
  BY <1>2, RequestKeepsIInv
<1>3. CASE handleListResources
  BY <1>3, ListKeepsIInv
<1>4. CASE ReadResource
  BY <1>4, ReadKeepsIInv
<1>5. CASE WriteResponse
  BY <1>5, WriteKeepsIInv
<1>6. CASE \E i \in Contents : handleReadResource(i)
  BY <1>6, ReadStartKeepsIInv
<1>7. CASE \E some \in SUBSET Steps : \E jobs \in [some -> Calls] : handleCallTool(jobs)
  BY <1>7, CallKeepsIInv
<1>8. CASE PlanEnds
  BY <1>8, PlanEndKeepsIInv
<1>9. ASSUME NEW s \in Steps,
             \/ Begin(s) \/ artifactAppendText(s) \/ Open(s)
             \/ Finish(s) \/ Fail(s) \/ Register(s)
      PROVE  IInv'
  BY <1>9, BeginKeepsIInv, AppendTextKeepsIInv, OpenKeepsIInv, FinishKeepsIInv, FailKeepsIInv,
     RegisterKeepsIInv
<1>10. CASE Tick \/ Eof
  BY <1>10, EofAndTickKeepIInv
<1>11. CASE Restart
  BY <1>11, RestartKeepsIInv
<1>12. CASE UNCHANGED vars
  <2>1. Counters' /\ Grows
    BY <1>12, CountersStay DEF vars, storeVars, Grows
  <2>2. Store' /\ Bodies' /\ Running'
    BY <1>12, StoreStays, StepsStay DEF vars
  <2>3. Told'
    BY <1>12, <2>1, ToldStays DEF vars, IInv
  <2> QED BY <2>1, <2>2, <2>3 DEF IInv
<1> QED BY <1>1, <1>2, <1>3, <1>4, <1>5, <1>6, <1>7, <1>8, <1>9, <1>10, <1>11, <1>12 DEF Next

LEMMA Invariance == Spec => []IInv
BY InitIInv, NextKeepsIInv, PTL DEF Spec

-----------------------------------------------------------------------------
(* Theorems                                                                *)

LEMMA StepIsTyped ==
    ASSUME IInv, NEW x, StepOK(x)
    PROVE  x \in Step
<1>1. CASE x = NoStep
  BY <1>1 DEF Step
<1>2. CASE \E job \in Calls : x = [at |-> "begin", job |-> job]
  BY <1>2, SessionAssumption DEF Step
<1>3. CASE \E item \in Item, text \in Texts :
              x = [at |-> "read", item |-> item, text |-> text]
  BY <1>3 DEF Step
<1>4. CASE \E label \in Labels, body \in Contents :
              x = [at |-> "open", label |-> label, body |-> body]
  BY <1>4 DEF Step
<1>5. CASE \E at \in {"write", "index"}, path \in DOMAIN files :
              x = [at |-> at, path |-> path, body |-> path.sum]
  <2>1. \A path \in DOMAIN files : path \in Names /\ path.sum \in Contents
    BY DEF IInv, Store, Names
  <2> QED BY <1>5, <2>1 DEF Step
<1>6. CASE \E ok \in BOOLEAN, refs \in SUBSET Item : x = Done(ok, refs)
  BY <1>6 DEF Step, Done
<1> QED BY <1>1, <1>2, <1>3, <1>4, <1>5, <1>6 DEF StepOK

\* While the loop is not waiting for a plan nobody writes a file.
LEMMA NobodyWrites ==
    ASSUME IInv, phase # "plan"
    PROVE  Writing = {}
<1>1. \A s \in Steps : step[s] = NoStep
  BY DEF IInv, Running
<1> QED BY <1>1 DEF Writing, NoStep

\* The state is well typed for any texts, steps and calls: the index names files that are
\* there and has what recent has, no step is left over once its plan has ended, and every
\* content, name and response is one that Store, the steps and WriteResponse know.
THEOREM TypeCorrect == Spec => []TypeOK
<1>1. IInv => TypeOK
  <2> SUFFICES ASSUME IInv PROVE TypeOK
    OBVIOUS
  <2>1. \A s \in Steps : step[s] \in Step
    BY StepIsTyped DEF IInv, Running
  <2>2. step \in [Steps -> Step]
    BY <2>1 DEF IInv, Running
  <2> QED BY <2>2 DEF IInv, Counters, Store, Running, Told, TypeOK
<1> QED BY <1>1, Invariance, PTL

\* However many steps save, append and fetch at once, whichever writes fail and however
\* often the process is killed: a file a client was given holds what its name says, and a
\* URI of this process leads to such a file, unless the last write to that very file
\* failed, was cut off or goes on (Store.StoreBytes, Store.Get).
THEOREM HandedOutArtifactsStay == Spec => []HandedOutStays
<1>1. IInv => HandedOutStays
  <2> SUFFICES ASSUME IInv PROVE HandedOutStays
    OBVIOUS
  <2>1. \A item \in paths : Sound(item)
    BY DEF IInv, Told, Held, Bodies, Sound
  <2>2. ASSUME keepIndex, NEW i \in uris PROVE i \in DOMAIN byID /\ Sound(ItemOf(i))
    <3>1. i \in DOMAIN byID
      BY <2>2 DEF IInv, Told, Known
    <3>2. byID[i] \in DOMAIN files /\ byID[i].sum = i
      BY <3>1 DEF IInv, Store
    <3> QED BY <3>1, <3>2 DEF IInv, Bodies, Sound, ItemOf
  <2> QED BY <2>1, <2>2 DEF HandedOutStays
<1> QED BY <1>1, Invariance, PTL

\* resources/read never answers with a file that is being written, whatever the plans
\* before it did: with the content that the URI names when that is text, with the text
\* JSON makes of it when it is not, with not found when the file cannot be read.  A step
\* that appends may meet one that another step of its group is writing again, and then
\* goes on from what it has read (handleReadResource, artifactAppendText).
THEOREM ReadsAreWhole == Spec => ReadIsWhole
<1> DEFINE Answered == (phase = "read" /\ phase' = "write") =>
                         \A item \in reading :
                            \/ reply' = Response("invalid params")
                            \/ /\ reply'.kind = "resource" /\ reply'.ids = {item.id}
                               /\ reply'.body = TextOf(item.id)
                               /\ item.id \in Textual => reply'.body = item.id
                            \/ item.path \in hurt
           Extended(s) == (step[s].at = "read" /\ step'[s].at = "open") =>
                         \/ step'[s].body = Append(step[s].item.id, step[s].text)
                         \/ step[s].item.path \in hurt \cup Writing
<1>1. IInv /\ [Next]_vars => Answered
  <2> SUFFICES ASSUME IInv, [Next]_vars, phase = "read", phase' = "write",
                      NEW item \in reading, reply' # Response("invalid params"),
                      item.path \notin hurt
               PROVE  /\ reply'.kind = "resource" /\ reply'.ids = {item.id}
                      /\ reply'.body = TextOf(item.id)
                      /\ item.id \in Textual => reply'.body = item.id
    OBVIOUS
  <2>1. ReadResource
    BY DEF Next, vars, Boot, handleRequest, handleListResources, handleReadResource,
           handleCallTool, MayHandle, PlanEnds, WriteResponse, Begin, artifactAppendText, Open,
           Finish, Fail, Register, Goes, Tick, Eof, Restart
  <2>2. PICK it \in reading :
           Respond([Response("resource") EXCEPT !.ids = {it.id}, !.body = TextOf(files[it.path])])
    BY <2>1 DEF ReadResource, Respond
  <2>3. reply'.kind = "resource" /\ reply'.ids = {it.id} /\ reply'.body = TextOf(files[it.path])
    BY <2>2 DEF Respond, Response
  <2>4. it = item /\ Held(item)
    BY DEF IInv, Told, Handed
  <2>5. Writing = {}
    BY NobodyWrites
  <2>6. files[item.path] = item.id
    BY <2>4, <2>5 DEF IInv, Bodies, Held
  <2> QED BY <2>3, <2>4, <2>6, TextOfContent
<1>2. ASSUME IInv, [Next]_vars, NEW s \in Steps PROVE Extended(s)
  <2> SUFFICES ASSUME step[s].at = "read", step'[s].at = "open"
               PROVE  \/ step'[s].body = Append(step[s].item.id, step[s].text)
                      \/ step[s].item.path \in hurt \cup Writing
    OBVIOUS
  <2>1. step'[s] # step[s] /\ step'[s] # NoStep /\ phase = "plan" /\ DOMAIN step = Steps
    BY <1>2, StepAt DEF NoStep, IInv, Running
  <2>2. ASSUME NEW u \in Steps,
               \/ Begin(u) \/ artifactAppendText(u) \/ Open(u)
               \/ Finish(u) \/ Fail(u) \/ Register(u)
        PROVE  u = s
    BY <2>1, <2>2 DEF Begin, artifactAppendText, Open, Finish, Fail, Register, Goes
  <2>3. artifactAppendText(s) \/ Begin(s) \/ Open(s) \/ Finish(s) \/ Fail(s) \/ Register(s)
    BY <1>2, <2>1, <2>2 DEF Next, vars, Boot, handleRequest, handleListResources,
       handleReadResource, handleCallTool, MayHandle, PlanEnds, ReadResource, WriteResponse, Tick,
       Eof, Restart
  <2>4. artifactAppendText(s)
    BY <2>3 DEF Begin, Open, Finish, Fail, Register
  <2>5. step'[s].body = Append(files[step[s].item.path], step[s].text)
    BY <2>1, <2>4 DEF artifactAppendText, Goes, Appended, Done
  <2>6. Held(step[s].item)
    BY <1>2, StepAt
  <2> QED BY <1>2, <2>5, <2>6 DEF IInv, Bodies, Held
<1>3. IInv /\ [Next]_vars => Answered /\ \A s \in Steps : Extended(s)
  BY <1>1, <1>2
<1> QED BY <1>3, Invariance, PTL DEF Spec, ReadIsWhole

=============================================================================
