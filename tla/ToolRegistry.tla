---------------------------- MODULE ToolRegistry ----------------------------
(***************************************************************************)
(* SQLiteRegistry and ToolCache (internal/tool/registry.go, cache.go), and *)
(* the rollback_tool handler that uses them.  Goroutines share a database, *)
(* a TTL cache in front of it and one RWMutex: readers hold its read side  *)
(* from the cache lookup to the cache fill, writers its write side from    *)
(* the database change to the cache invalidation.  The process may crash   *)
(* at any step; the database survives, the cache is loaded again.          *)
(***************************************************************************)
EXTENDS Integers, Sequences, FiniteSets

CONSTANTS
    Names,          \* tool names: integers, compared as ORDER BY name does
    Contents,       \* what a version holds (description, language, code, schema)
    Procs,          \* goroutines
    CacheSize,      \* ToolCache.maxSize
    MaxVersions,    \* bound on the versions of one tool
    NotFound,       \* the answer of a Get that finds no active tool
    NoRequest, Nobody

Requests == [op : {"register", "update"}, name : Names, content : Contents]
              \cup [op : {"get", "delete"}, name : Names]
              \cup [op : {"rollback"}, name : Names, version : Nat]

ASSUME RegistryAssumption ==
    /\ Names \subseteq Nat /\ IsFiniteSet(Names)
    /\ CacheSize \in Nat /\ MaxVersions \in Nat
    /\ Nobody \notin Procs /\ NoRequest \notin Requests
    /\ NotFound \notin [content : Contents, version : Nat]

VARIABLES
    db,             \* the tools and tool_versions tables, by name
    cache,          \* ToolCache.tools
    older,          \* <<m, n>>: m's entry expires before n's
    fresh,          \* the cached names that have not expired
    writer,         \* holder of the write lock
    readers,        \* holders of the read lock
    pc, req,        \* where each goroutine is, and the request it serves
    row,            \* the row a Get has read from the database
    answer          \* what the last Get returned

cacheVars == <<cache, older, fresh>>
lockVars  == <<writer, readers>>
vars == <<db, cacheVars, lockVars, pc, req, row, answer>>

Definition == [content : Contents, version : Nat]
Row == [history : Seq(Contents), current : Contents, version : Nat, active : BOOLEAN]
Registered == DOMAIN db
Active(n)  == n \in Registered /\ db[n].active
\* The ToolDefinition a query of n's row yields.
Scan(n)    == [content |-> db[n].current, version |-> db[n].version]

Init ==
    /\ db = [n \in {} |-> <<>>]
    /\ cache = [n \in {} |-> <<>>] /\ older = {} /\ fresh = {}
    /\ writer = Nobody /\ readers = {}
    /\ pc = [p \in Procs |-> "idle"]
    /\ req = [p \in Procs |-> NoRequest]
    /\ row = [p \in Procs |-> NotFound]
    /\ answer = NotFound

Goto(p, at) == pc' = [pc EXCEPT ![p] = at]
Finish(p) == /\ Goto(p, "idle")
             /\ req' = [req EXCEPT ![p] = NoRequest]
             /\ row' = [row EXCEPT ![p] = NotFound]

-----------------------------------------------------------------------------
(* ToolCache                                                               *)

Full == Cardinality(DOMAIN cache) >= CacheSize

Oldest(S) == {n \in S : \A m \in S : <<m, n>> \notin older}

\* evictOldest, when the cache is full, also when the name set is cached already.
Victim == IF Full THEN Oldest(DOMAIN cache) ELSE {}

\* Mutant of FreshAfter: an evicted name keeps its expiry time.
FreshAfterSet(n) == fresh \cup {n}

FreshAfter(n) == (fresh \ Victim) \cup {n}

CacheSet(n, def) ==
    LET others == DOMAIN cache \ (Victim \cup {n}) IN
    /\ cache' = [m \in others \cup {n} |-> IF m = n THEN def ELSE cache[m]]
    /\ older' = (older \cap (others \X others)) \cup (others \X {n})
    /\ fresh' = FreshAfter(n)

CacheDrop(S) ==
    LET others == DOMAIN cache \ S IN
    /\ cache' = [m \in others |-> cache[m]]
    /\ older' = older \cap (others \X others)
    /\ fresh' = fresh \ S

\* The TTL is one constant, so entries expire in the order they were set.
Expire ==
    /\ \E n \in Oldest(fresh) : fresh' = fresh \ {n}
    /\ UNCHANGED <<db, cache, older, lockVars, pc, req, row, answer>>

\* The cleanup goroutine removes what has expired.
Cleanup ==
    /\ DOMAIN cache # fresh
    /\ CacheDrop(DOMAIN cache \ fresh)
    /\ UNCHANGED <<db, lockVars, pc, req, row, answer>>

-----------------------------------------------------------------------------
(* Get                                                                     *)

\* Mutant of MayRead: no read lock.
ReadUnlocked == TRUE

MayRead == writer = Nobody

BeginGet(p, n) ==
    /\ pc[p] = "idle" /\ MayRead
    /\ readers' = readers \cup {p}
    /\ req' = [req EXCEPT ![p] = [op |-> "get", name |-> n]]
    /\ Goto(p, "lookup")
    /\ UNCHANGED <<db, cacheVars, writer, row, answer>>

Lookup(p) ==
    LET n == req[p].name IN
    /\ pc[p] = "lookup"
    /\ IF n \in fresh
          THEN answer' = cache[n] /\ readers' = readers \ {p} /\ Finish(p)
          ELSE Goto(p, "query") /\ UNCHANGED <<answer, readers, req, row>>
    /\ UNCHANGED <<db, cacheVars, writer>>

\* Mutant of Selected: the query does not ask for active tools.
SelectedByName(n) == n \in Registered

Selected(n) == Active(n)

Query(p) ==
    LET n == req[p].name IN
    /\ pc[p] = "query"
    /\ IF Selected(n)
          THEN /\ answer' = Scan(n)
               /\ row' = [row EXCEPT ![p] = Scan(n)]
               /\ Goto(p, "fill") /\ UNCHANGED <<readers, req>>
          ELSE answer' = NotFound /\ readers' = readers \ {p} /\ Finish(p)
    /\ UNCHANGED <<db, cacheVars, writer>>

Fill(p) ==
    /\ pc[p] = "fill"
    /\ CacheSet(req[p].name, row[p])
    /\ readers' = readers \ {p}
    /\ Finish(p)
    /\ UNCHANGED <<db, writer, answer>>

-----------------------------------------------------------------------------
(* Register, Update, Delete, Rollback                                      *)

BeginWrite(p, r) ==
    /\ pc[p] = "idle" /\ writer = Nobody /\ readers = {}
    /\ writer' = p
    /\ req' = [req EXCEPT ![p] = r]
    /\ Goto(p, "commit")
    /\ UNCHANGED <<db, cacheVars, readers, row, answer>>

\* rollback_tool without a version: GetVersions under the read lock picks the
\* second newest; Rollback takes the write lock afterwards.
ChoosePrevious(p, n) ==
    /\ pc[p] = "idle" /\ writer = Nobody
    /\ n \in Registered /\ Len(db[n].history) >= 2
    /\ req' = [req EXCEPT ![p] = [op |-> "rollback", name |-> n,
                                  version |-> Len(db[n].history) - 1]]
    /\ Goto(p, "chosen")
    /\ UNCHANGED <<db, cacheVars, lockVars, row, answer>>

BeginChosen(p) ==
    /\ pc[p] = "chosen" /\ writer = Nobody /\ readers = {}
    /\ writer' = p
    /\ Goto(p, "commit")
    /\ UNCHANGED <<db, cacheVars, readers, req, row, answer>>

\* What the SQL of a request needs to find (and the bound), and the row it leaves.
Applies(r) ==
    CASE r.op = "register" -> r.name \notin Registered
      [] r.op = "update"   -> Active(r.name) /\ db[r.name].version < MaxVersions
      [] r.op = "delete"   -> r.name \in Registered
      [] r.op = "rollback" -> r.name \in Registered /\ r.version \in DOMAIN db[r.name].history

Registering(c) == [history |-> <<c>>, current |-> c, version |-> 1, active |-> TRUE]
Updated(t, c) == [t EXCEPT !.history = Append(@, c), !.current = c, !.version = @ + 1]

\* Mutant of Disabled: the recorded versions are deleted too.
DisabledTrimmed(t) == [t EXCEPT !.active = FALSE, !.history = <<>>]

Disabled(t) == [t EXCEPT !.active = FALSE]

\* Mutants of RolledBack: it sets the version column; it enables the tool.
RolledBackVersion(t, v) == [t EXCEPT !.current = t.history[v], !.version = v]
RolledBackEnabled(t, v) == [t EXCEPT !.current = t.history[v], !.active = TRUE]

\* Rollback copies an old version's content and leaves version and status alone.
RolledBack(t, v) == [t EXCEPT !.current = t.history[v]]

NewRow(r) ==
    CASE r.op = "register" -> Registering(r.content)
      [] r.op = "update"   -> Updated(db[r.name], r.content)
      [] r.op = "delete"   -> Disabled(db[r.name])
      [] r.op = "rollback" -> RolledBack(db[r.name], r.version)

Commit(p) ==
    LET r == req[p] IN
    /\ pc[p] = "commit" /\ Applies(r)
    /\ db' = [n \in Registered \cup {r.name} |-> IF n = r.name THEN NewRow(r) ELSE db[n]]
    /\ Goto(p, "invalidate")
    /\ UNCHANGED <<cacheVars, lockVars, req, row, answer>>

\* Validation, a missing or conflicting row, or the database fails a request; the
\* transaction leaves nothing behind and the cache is not touched.
Fail(p) ==
    /\ pc[p] \in {"query", "commit"}
    /\ writer' = (IF writer = p THEN Nobody ELSE writer)
    /\ readers' = readers \ {p}
    /\ Finish(p)
    /\ UNCHANGED <<db, cacheVars, answer>>

\* Register puts the new tool in the cache, the others drop the entry; unlock.
Invalidate(p) ==
    LET r == req[p] IN
    /\ pc[p] = "invalidate"
    /\ IF r.op = "register" THEN CacheSet(r.name, Scan(r.name))
                            ELSE CacheDrop({r.name})
    /\ writer' = Nobody
    /\ Finish(p)
    /\ UNCHANGED <<db, readers, answer>>

-----------------------------------------------------------------------------
(* Crash and restart                                                       *)

\* loadCache sets every active tool in name order; each Set beyond the size
\* evicts the oldest, so the last ones stay.
Later(n) == {m \in Registered : Active(m) /\ m >= n}
Loaded == {n \in Registered : /\ Active(n)
                              /\ Cardinality(Later(n)) <= CacheSize
                                 \/ Later(n) = {n}}

Restart ==
    /\ pc' = [p \in Procs |-> "idle"]
    /\ writer' = Nobody /\ readers' = {}
    /\ cache' = [n \in Loaded |-> Scan(n)]
    /\ older' = {e \in Loaded \X Loaded : e[1] < e[2]}
    /\ fresh' = Loaded
    /\ req' = [p \in Procs |-> NoRequest]
    /\ row' = [p \in Procs |-> NotFound]
    /\ UNCHANGED <<db, answer>>

-----------------------------------------------------------------------------
Writes == [op : {"register", "update"}, name : Names, content : Contents]
            \cup [op : {"delete"}, name : Names]
            \cup [op : {"rollback"}, name : Names, version : 1..MaxVersions]

Next ==
    \/ \E p \in Procs :
          \/ \E n \in Names : BeginGet(p, n) \/ ChoosePrevious(p, n)
          \/ \E r \in Writes : BeginWrite(p, r)
          \/ Lookup(p) \/ Query(p) \/ Fill(p)
          \/ BeginChosen(p) \/ Commit(p) \/ Fail(p) \/ Invalidate(p)
    \/ Expire \/ Cleanup \/ Restart

Spec == Init /\ [][Next]_vars

-----------------------------------------------------------------------------
(* Properties                                                              *)

\* The type invariant.
TypeOK ==
    /\ DOMAIN db \subseteq Names /\ \A n \in DOMAIN db : db[n] \in Row
    /\ DOMAIN cache \subseteq Names /\ \A n \in DOMAIN cache : cache[n] \in Definition
    /\ older \subseteq (DOMAIN cache) \X (DOMAIN cache) /\ fresh \subseteq DOMAIN cache
    /\ writer \in Procs \cup {Nobody} /\ readers \subseteq Procs
    /\ pc \in [Procs -> {"idle", "lookup", "query", "fill", "chosen", "commit",
                         "invalidate"}]
    /\ req \in [Procs -> Requests \cup {NoRequest}]
    /\ row \in [Procs -> Definition \cup {NotFound}]
    /\ answer \in Definition \cup {NotFound}

\* What the cache holds, expired or not, is the active row of the database, except
\* for the name a writer has changed and not yet invalidated: no reader that was
\* slow, no eviction and no restart leaves an old definition behind.
CacheCoherent ==
    \A n \in DOMAIN cache :
        \/ \E p \in Procs : pc[p] = "invalidate" /\ req[p].name = n
        \/ Active(n) /\ cache[n] = Scan(n)

\* A tool's version number is the number of versions recorded for it, so the next
\* Update never collides with a recorded version, also after a Rollback; and its
\* content is one of those versions.
VersionsContiguous ==
    \A n \in Registered :
        /\ db[n].version = Len(db[n].history)
        /\ db[n].current \in {db[n].history[v] : v \in DOMAIN db[n].history}

\* The version rollback_tool has picked still exists when Rollback runs, whatever
\* was written in between.
ChosenVersionExists ==
    \A p \in Procs : pc[p] = "chosen" =>
        /\ req[p].name \in Registered
        /\ req[p].version \in DOMAIN db[req[p].name].history

\* No step removes a tool or rewrites a recorded version; a tool that was deleted
\* stays disabled.  Every step of VersionedTools is of this kind.
HistoryAppendOnly ==
    [][\A n \in Registered :
         /\ n \in Registered'
         /\ Len(db[n].history) <= Len(db'[n].history)
         /\ \A v \in DOMAIN db[n].history : db'[n].history[v] = db[n].history[v]
         /\ ~db[n].active => ~db'[n].active]_vars

Versioned(t) == [history |-> t.history, current |-> t.current, active |-> t.active]
storeBar == [n \in Registered |-> Versioned(db[n])]

Store == INSTANCE VersionedTools WITH store <- storeBar

\* The registry with its lock, its cache and its crashes implements the store in
\* which every operation is one step: no Get answers with anything but the current
\* content of an active tool.
ImplementsStore == Store!ASpec
=============================================================================
