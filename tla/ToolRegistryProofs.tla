------------------------- MODULE ToolRegistryProofs -------------------------
(***************************************************************************)
(* Proofs about ToolRegistry: the lock keeps the cache coherent with the   *)
(* database and the registry implements the atomic store, for any number   *)
(* of goroutines, tools, versions and cache entries.                       *)
(***************************************************************************)
EXTENDS ToolRegistry, TLAPS

Gets      == [op : {"get"}, name : Names]
Deletes   == [op : {"delete"}, name : Names]
Rollbacks == [op : {"rollback"}, name : Names, version : Nat]
Puts      == [op : {"register", "update"}, name : Names, content : Contents]

Reading == {"lookup", "query", "fill"}
Writing == {"commit", "invalidate"}

\* What a goroutine serves fits the place where it is.
Serving ==
    \A p \in Procs :
        /\ pc[p] \in Reading  => req[p] \in Gets
        /\ pc[p] = "chosen"   => req[p] \in Rollbacks
        /\ pc[p] \in Writing  => req[p] \in Puts \cup Deletes \cup Rollbacks
        /\ pc[p] = "fill"       => row[p] \in Definition
        /\ pc[p] = "invalidate" => req[p].name \in Registered

\* r.mu is held where the code holds it, by one writer or by readers.
Locked ==
    /\ \A p \in Procs : pc[p] \in Reading <=> p \in readers
    /\ \A p \in Procs : pc[p] \in Writing <=> p = writer
    /\ writer # Nobody => readers = {}

\* The row a Get has read is still the row of the database; a change that is
\* committed has left a row, after Register an active one.
RowsCurrent ==
    \A p \in Procs :
        /\ pc[p] = "fill" => /\ Active(req[p].name)
                             /\ row[p] = Scan(req[p].name)
        /\ pc[p] = "invalidate" /\ req[p].op = "register" => Active(req[p].name)

TypeInv == TypeOK /\ Serving
LockInv == TypeInv /\ Locked

-----------------------------------------------------------------------------
LEMMA ScanType ==
    ASSUME NEW n, TypeOK, n \in Registered
    PROVE  Scan(n) \in Definition
BY DEF Scan, Definition, TypeOK, Row, Registered

\* ToolCache.Set keeps the types of the cache's variables.
LEMMA CacheSetType ==
    ASSUME TypeOK, NEW n \in Names, NEW def \in Definition, CacheSet(n, def)
    PROVE  /\ DOMAIN cache' \subseteq Names
           /\ \A m \in DOMAIN cache' : cache'[m] \in Definition
           /\ older' \subseteq (DOMAIN cache') \X (DOMAIN cache')
           /\ fresh' \subseteq DOMAIN cache'
BY DEF CacheSet, FreshAfter, TypeOK

LEMMA CacheDropType ==
    ASSUME TypeOK, NEW S, CacheDrop(S)
    PROVE  /\ DOMAIN cache' \subseteq Names
           /\ \A m \in DOMAIN cache' : cache'[m] \in Definition
           /\ older' \subseteq (DOMAIN cache') \X (DOMAIN cache')
           /\ fresh' \subseteq DOMAIN cache'
BY DEF CacheDrop, TypeOK

\* The row a request leaves is a row.
LEMMA NewRowType ==
    ASSUME TypeOK, NEW r \in Puts \cup Deletes \cup Rollbacks, Applies(r)
    PROVE  NewRow(r) \in Row
<1>1. CASE r.op = "register"
  <2>1. NewRow(r) = Registering(r.content) /\ r.content \in Contents
    BY <1>1 DEF NewRow, Puts, Deletes, Rollbacks
  <2>2. <<r.content>> \in Seq(Contents)
    BY <2>1
  <2> QED BY <2>1, <2>2 DEF Registering, Row
<1>2. CASE r.op = "update"
  <2>1. /\ NewRow(r) = Updated(db[r.name], r.content) /\ r.content \in Contents
        /\ db[r.name] \in Row
    BY <1>2 DEF NewRow, Puts, Deletes, Rollbacks, Applies, Active, Registered, TypeOK
  <2>2. Append(db[r.name].history, r.content) \in Seq(Contents)
    BY <2>1 DEF Row
  <2>3. Updated(db[r.name], r.content) =
           [history |-> Append(db[r.name].history, r.content), current |-> r.content,
            version |-> db[r.name].version + 1, active |-> db[r.name].active]
    BY <2>1 DEF Updated, Row
  <2> QED BY <2>1, <2>2, <2>3 DEF Row
<1>3. CASE r.op = "delete"
  <2>1. NewRow(r) = Disabled(db[r.name]) /\ db[r.name] \in Row
    BY <1>3 DEF NewRow, Applies, Registered, TypeOK
  <2> QED BY <2>1 DEF Disabled, Row
<1>4. CASE r.op = "rollback"
  <2>1. /\ NewRow(r) = RolledBack(db[r.name], r.version) /\ db[r.name] \in Row
        /\ r.version \in DOMAIN db[r.name].history
    BY <1>4 DEF NewRow, Applies, Registered, TypeOK
  <2>2. db[r.name].history[r.version] \in Contents
    BY <2>1 DEF Row
  <2> QED BY <2>1, <2>2 DEF RolledBack, Row
<1> QED BY <1>1, <1>2, <1>3, <1>4 DEF Puts, Deletes, Rollbacks

LEMMA TypeInit == Init => TypeInv
BY RegistryAssumption DEF Init, TypeInv, TypeOK, Serving, Reading, Writing, Registered

LEMMA TypeStep == TypeInv /\ [Next]_vars => TypeInv'
<1> SUFFICES ASSUME TypeInv, [Next]_vars PROVE TypeInv'
  OBVIOUS
<1> USE DEF TypeInv, TypeOK, Serving, Reading, Writing, Registered
<1>1. ASSUME NEW p \in Procs, NEW n \in Names, BeginGet(p, n) PROVE TypeInv'
  BY <1>1 DEF BeginGet, Goto, cacheVars, Gets, Requests
<1>2. ASSUME NEW p \in Procs, NEW n \in Names, ChoosePrevious(p, n) PROVE TypeInv'
  <2>1. Len(db[n].history) - 1 \in Nat
    BY <1>2 DEF ChoosePrevious, Row
  <2> QED BY <1>2, <2>1 DEF ChoosePrevious, Goto, cacheVars, lockVars, Rollbacks, Requests
<1>3. ASSUME NEW p \in Procs, NEW r \in Writes, BeginWrite(p, r) PROVE TypeInv'
  <2>1. r \in (Puts \cup Deletes \cup Rollbacks) /\ r \in Requests
    BY RegistryAssumption DEF Writes, Puts, Deletes, Rollbacks, Requests
  <2> QED BY <1>3, <2>1 DEF BeginWrite, Goto, cacheVars
<1>4. ASSUME NEW p \in Procs, Lookup(p) PROVE TypeInv'
  BY <1>4 DEF Lookup, Goto, Finish, cacheVars
<1>5. ASSUME NEW p \in Procs, Query(p) PROVE TypeInv'
  BY <1>5, ScanType DEF Query, Goto, Finish, cacheVars, Selected, Active
<1>6. ASSUME NEW p \in Procs, Fill(p) PROVE TypeInv'
  <2>1. req[p].name \in Names /\ row[p] \in Definition
    BY <1>6 DEF Fill, Gets
  <2>2. /\ DOMAIN cache' \subseteq Names
        /\ \A m \in DOMAIN cache' : cache'[m] \in Definition
        /\ older' \subseteq (DOMAIN cache') \X (DOMAIN cache')
        /\ fresh' \subseteq DOMAIN cache'
    BY <1>6, <2>1, CacheSetType DEF Fill
  <2> QED BY <1>6, <2>2 DEF Fill, Goto, Finish
<1>7. ASSUME NEW p \in Procs, BeginChosen(p) PROVE TypeInv'
  BY <1>7 DEF BeginChosen, Goto, cacheVars
<1>8. ASSUME NEW p \in Procs, Commit(p) PROVE TypeInv'
  <2>1. req[p] \in Puts \cup Deletes \cup Rollbacks /\ req[p].name \in Names
    BY <1>8 DEF Commit, Puts, Deletes, Rollbacks
  <2>2. NewRow(req[p]) \in Row
    BY <1>8, <2>1, NewRowType DEF Commit
  <2> QED BY <1>8, <2>1, <2>2 DEF Commit, Goto, cacheVars, lockVars
<1>9. ASSUME NEW p \in Procs, Fail(p) PROVE TypeInv'
  BY <1>9 DEF Fail, Goto, Finish, cacheVars
<1>10. ASSUME NEW p \in Procs, Invalidate(p) PROVE TypeInv'
  <2>1. req[p] \in Puts \cup Deletes \cup Rollbacks /\ req[p].name \in Names
    BY <1>10 DEF Invalidate, Puts, Deletes, Rollbacks
  <2>2. /\ DOMAIN cache' \subseteq Names
        /\ \A m \in DOMAIN cache' : cache'[m] \in Definition
        /\ older' \subseteq (DOMAIN cache') \X (DOMAIN cache')
        /\ fresh' \subseteq DOMAIN cache'
    <3>1. CASE req[p].op = "register"
      <4>1. Scan(req[p].name) \in Definition
        BY <1>10, ScanType DEF Invalidate
      <4> QED BY <1>10, <2>1, <3>1, <4>1, CacheSetType DEF Invalidate
    <3>2. CASE req[p].op # "register"
      BY <1>10, <3>2, CacheDropType DEF Invalidate
    <3> QED BY <3>1, <3>2
  <2> QED BY <1>10, <2>2 DEF Invalidate, Goto, Finish
<1>11. CASE Expire
  BY <1>11 DEF Expire, Oldest, lockVars
<1>12. CASE Cleanup
  BY <1>12, CacheDropType DEF Cleanup, lockVars
<1>13. CASE Restart
  <2>1. \A n \in Loaded : n \in Registered /\ Scan(n) \in Definition
    BY ScanType DEF Loaded, Active
  <2> QED BY <1>13, <2>1 DEF Restart
<1>14. CASE UNCHANGED vars
  BY <1>14 DEF vars, cacheVars, lockVars
<1> QED BY <1>1, <1>2, <1>3, <1>4, <1>5, <1>6, <1>7, <1>8, <1>9, <1>10, <1>11,
           <1>12, <1>13, <1>14 DEF Next

\* The registry keeps its types (every goroutine count, every cache size).
THEOREM TypeCorrect == Spec => []TypeOK
<1>1. Spec => []TypeInv
  BY TypeInit, TypeStep, PTL DEF Spec
<1>2. TypeInv => TypeOK
  BY DEF TypeInv
<1> QED BY <1>1, <1>2, PTL

-----------------------------------------------------------------------------
(* The lock                                                                *)

LEMMA LockInit == Init => LockInv
BY TypeInit, RegistryAssumption DEF Init, LockInv, Locked, Reading, Writing

LEMMA LockStep == LockInv /\ [Next]_vars => LockInv'
<1> SUFFICES ASSUME LockInv, [Next]_vars PROVE Locked'
  BY TypeStep DEF LockInv
<1>a. /\ pc \in [Procs -> {"idle", "lookup", "query", "fill", "chosen", "commit",
                           "invalidate"}]
      /\ readers \subseteq Procs /\ writer \in Procs \cup {Nobody} /\ Nobody \notin Procs
  BY RegistryAssumption DEF LockInv, TypeInv, TypeOK
<1>b. Locked
  BY DEF LockInv
<1> USE <1>a, <1>b DEF Locked, Reading, Writing
<1>1. ASSUME NEW p \in Procs, NEW n \in Names, BeginGet(p, n) PROVE Locked'
  BY <1>1 DEF BeginGet, MayRead, Goto
<1>2. ASSUME NEW p \in Procs, NEW n \in Names, ChoosePrevious(p, n) PROVE Locked'
  BY <1>2 DEF ChoosePrevious, Goto, lockVars
<1>3. ASSUME NEW p \in Procs, NEW r \in Writes, BeginWrite(p, r) PROVE Locked'
  BY <1>3 DEF BeginWrite, Goto
<1>4. ASSUME NEW p \in Procs, Lookup(p) PROVE Locked'
  BY <1>4 DEF Lookup, Goto, Finish
<1>5. ASSUME NEW p \in Procs, Query(p) PROVE Locked'
  BY <1>5 DEF Query, Goto, Finish
<1>6. ASSUME NEW p \in Procs, Fill(p) PROVE Locked'
  BY <1>6 DEF Fill, Goto, Finish
<1>7. ASSUME NEW p \in Procs, BeginChosen(p) PROVE Locked'
  BY <1>7 DEF BeginChosen, Goto
<1>8. ASSUME NEW p \in Procs, Commit(p) PROVE Locked'
  BY <1>8 DEF Commit, Goto, lockVars
<1>9. ASSUME NEW p \in Procs, Fail(p) PROVE Locked'
  BY <1>9 DEF Fail, Goto, Finish
<1>10. ASSUME NEW p \in Procs, Invalidate(p) PROVE Locked'
  BY <1>10 DEF Invalidate, Goto, Finish
<1>11. CASE Expire
  BY <1>11 DEF Expire, lockVars
<1>12. CASE Cleanup
  BY <1>12 DEF Cleanup, lockVars
<1>13. CASE Restart
  BY <1>13 DEF Restart
<1>14. CASE UNCHANGED vars
  BY <1>14 DEF vars, lockVars
<1> QED BY <1>1, <1>2, <1>3, <1>4, <1>5, <1>6, <1>7, <1>8, <1>9, <1>10, <1>11,
           <1>12, <1>13, <1>14 DEF Next

-----------------------------------------------------------------------------
(* Versions                                                                *)

\* A row's history: its version is its length, its content is recorded in it.
Contiguous(t) == /\ t.version = Len(t.history)
                 /\ t.current \in {t.history[v] : v \in DOMAIN t.history}
Extends(s, t) == /\ Len(t) <= Len(s)
                 /\ \A v \in DOMAIN t : s[v] = t[v]

LEMMA NewRowContiguous ==
    ASSUME TypeOK, VersionsContiguous,
           NEW r \in Puts \cup Deletes \cup Rollbacks, Applies(r)
    PROVE  /\ Contiguous(NewRow(r))
           /\ r.name \in Registered =>
                 /\ Extends(NewRow(r).history, db[r.name].history)
                 /\ ~db[r.name].active => ~NewRow(r).active
<1> DEFINE t == db[r.name]
<1>1. CASE r.op = "register"
  <2>1. r.name \notin Registered /\ NewRow(r) = Registering(r.content)
    BY <1>1 DEF Applies, NewRow
  <2> QED BY <2>1 DEF Registering, Contiguous
<1>2. CASE r.op # "register"
  <2>1. r.name \in Registered /\ t \in Row /\ Contiguous(t)
    BY <1>2 DEF Applies, TypeOK, Registered, Active, VersionsContiguous, Contiguous,
                Puts, Deletes, Rollbacks
  <2>2. CASE r.op = "update"
    <3>1. /\ NewRow(r) = Updated(t, r.content) /\ r.content \in Contents /\ t.active
      BY <2>2 DEF NewRow, Applies, Active, Puts, Deletes, Rollbacks
    <3> DEFINE h == Append(t.history, r.content)
    <3>2. /\ Updated(t, r.content).history = h
          /\ Updated(t, r.content).current = r.content
          /\ Updated(t, r.content).version = t.version + 1
      BY <2>1 DEF Updated, Row
    <3>3. /\ Len(h) = Len(t.history) + 1 /\ DOMAIN h = 1..Len(h)
          /\ \A v \in DOMAIN t.history : h[v] = t.history[v]
          /\ h[Len(h)] = r.content /\ Len(h) \in DOMAIN h
      BY <2>1, <3>1 DEF Row
    <3> QED BY <2>1, <3>1, <3>2, <3>3 DEF Contiguous, Extends, Row
  <2>3. CASE r.op = "delete"
    <3>1. NewRow(r) = Disabled(t)
      BY <2>3 DEF NewRow
    <3> QED BY <2>1, <3>1 DEF Disabled, Contiguous, Extends, Row
  <2>4. CASE r.op = "rollback"
    <3>1. NewRow(r) = RolledBack(t, r.version) /\ r.version \in DOMAIN t.history
      BY <2>4 DEF NewRow, Applies
    <3> QED BY <2>1, <3>1 DEF RolledBack, Contiguous, Extends, Row
  <2> QED BY <1>2, <2>2, <2>3, <2>4 DEF Puts, Deletes, Rollbacks
<1> QED BY <1>1, <1>2

\* Every step keeps the versions contiguous and extends each history.
LEMMA DbStep ==
    ASSUME TypeInv, VersionsContiguous, [Next]_vars
    PROVE  /\ VersionsContiguous'
           /\ \A n \in Registered :
                 /\ n \in Registered'
                 /\ Extends(db'[n].history, db[n].history)
                 /\ ~db[n].active => ~db'[n].active
<1>1. ASSUME NEW p \in Procs, Commit(p)
      PROVE  /\ VersionsContiguous'
             /\ \A n \in Registered : /\ n \in Registered'
                                      /\ Extends(db'[n].history, db[n].history)
                                      /\ ~db[n].active => ~db'[n].active
  <2> DEFINE r == req[p]
  <2>1. r \in Puts \cup Deletes \cup Rollbacks /\ Applies(r)
    BY <1>1 DEF Commit, TypeInv, Serving, Writing
  <2>2. /\ Contiguous(NewRow(r))
        /\ r.name \in Registered =>
                 /\ Extends(NewRow(r).history, db[r.name].history)
                 /\ ~db[r.name].active => ~NewRow(r).active
    BY <2>1, NewRowContiguous DEF TypeInv
  <2>3. /\ DOMAIN db' = Registered \cup {r.name} /\ db'[r.name] = NewRow(r)
        /\ \A n \in Registered : n # r.name => db'[n] = db[n]
    BY <1>1 DEF Commit
  <2>4. \A n \in Registered : Extends(db[n].history, db[n].history)
    BY DEF Extends, TypeInv, TypeOK, Row, Registered
  <2> QED BY <2>2, <2>3, <2>4 DEF VersionsContiguous, Contiguous, Registered
<1>2. CASE UNCHANGED db
  <2>1. \A n \in Registered : Extends(db[n].history, db[n].history)
    BY DEF Extends, TypeInv, TypeOK, Row, Registered
  <2> QED BY <1>2, <2>1 DEF VersionsContiguous, Registered
<1>3. (\E p \in Procs : Commit(p)) \/ UNCHANGED db
  BY DEF Next, BeginGet, ChoosePrevious, BeginWrite, Lookup, Query, Fill, BeginChosen,
         Fail, Invalidate, Expire, Cleanup, Restart, vars
<1> QED BY <1>1, <1>2, <1>3

\* Version numbers stay contiguous, whatever is updated, rolled back or deleted.
THEOREM VersionsStayContiguous == Spec => []VersionsContiguous
<1>1. Init => VersionsContiguous
  BY DEF Init, VersionsContiguous, Registered
<1>2. TypeInv /\ VersionsContiguous /\ [Next]_vars => VersionsContiguous'
  BY DbStep
<1> QED BY <1>1, <1>2, TypeInit, TypeStep, PTL DEF Spec

\* No step rewrites a recorded version, removes a tool or revives a deleted one.
THEOREM HistoriesGrow == Spec => HistoryAppendOnly
<1> DEFINE A == \A n \in Registered :
                   /\ n \in Registered'
                   /\ Len(db[n].history) <= Len(db'[n].history)
                   /\ \A v \in DOMAIN db[n].history :
                         db'[n].history[v] = db[n].history[v]
                   /\ ~db[n].active => ~db'[n].active
<1>1. TypeInv /\ VersionsContiguous /\ [Next]_vars => [A]_vars
  BY DbStep DEF Extends
<1> QED BY <1>1, TypeInit, TypeStep, VersionsStayContiguous, PTL DEF Spec, HistoryAppendOnly

-----------------------------------------------------------------------------
(* The cache                                                               *)

CoherentInv == LockInv /\ RowsCurrent /\ CacheCoherent

LEMMA CoherentInit == Init => CoherentInv
BY LockInit DEF Init, CoherentInv, RowsCurrent, CacheCoherent

LEMMA CoherentStep == CoherentInv /\ [Next]_vars => CoherentInv'
<1> SUFFICES ASSUME CoherentInv, [Next]_vars PROVE RowsCurrent' /\ CacheCoherent'
  BY LockStep DEF CoherentInv
<1>a. /\ pc \in [Procs -> {"idle", "lookup", "query", "fill", "chosen", "commit",
                           "invalidate"}]
      /\ req \in [Procs -> Requests \cup {NoRequest}]
      /\ row \in [Procs -> Definition \cup {NotFound}]
      /\ readers \subseteq Procs /\ Nobody \notin Procs
      /\ Serving /\ Locked
  BY RegistryAssumption DEF CoherentInv, LockInv, TypeInv, TypeOK
<1>b. RowsCurrent /\ CacheCoherent
  BY DEF CoherentInv
<1> USE <1>a, <1>b DEF RowsCurrent, CacheCoherent
<1>1. ASSUME NEW p \in Procs, NEW n \in Names, BeginGet(p, n)
      PROVE RowsCurrent' /\ CacheCoherent'
  BY <1>1 DEF BeginGet, Goto, cacheVars, Active, Scan, Registered
<1>2. ASSUME NEW p \in Procs, NEW n \in Names, ChoosePrevious(p, n)
      PROVE RowsCurrent' /\ CacheCoherent'
  BY <1>2 DEF ChoosePrevious, Goto, cacheVars, Active, Scan, Registered
<1>3. ASSUME NEW p \in Procs, NEW r \in Writes, BeginWrite(p, r)
      PROVE RowsCurrent' /\ CacheCoherent'
  BY <1>3 DEF BeginWrite, Goto, cacheVars, Active, Scan, Registered
<1>4. ASSUME NEW p \in Procs, Lookup(p) PROVE RowsCurrent' /\ CacheCoherent'
  BY <1>4 DEF Lookup, Goto, Finish, cacheVars, Active, Scan, Registered
<1>5. ASSUME NEW p \in Procs, Query(p) PROVE RowsCurrent' /\ CacheCoherent'
  BY <1>5 DEF Query, Selected, Goto, Finish, cacheVars, Active, Scan, Registered
<1>6. ASSUME NEW p \in Procs, Fill(p) PROVE RowsCurrent' /\ CacheCoherent'
  <2>1. /\ DOMAIN cache' \subseteq DOMAIN cache \cup {req[p].name}
        /\ \A m \in DOMAIN cache' : cache'[m] = IF m = req[p].name THEN row[p] ELSE cache[m]
    BY <1>6 DEF Fill, CacheSet
  <2> QED BY <1>6, <2>1 DEF Fill, Goto, Finish, Active, Scan, Registered
<1>7. ASSUME NEW p \in Procs, BeginChosen(p) PROVE RowsCurrent' /\ CacheCoherent'
  BY <1>7 DEF BeginChosen, Goto, cacheVars, Active, Scan, Registered
<1>8. ASSUME NEW p \in Procs, Commit(p) PROVE RowsCurrent' /\ CacheCoherent'
  <2> DEFINE n == req[p].name
  <2>1. /\ DOMAIN db' = Registered \cup {n} /\ db'[n] = NewRow(req[p])
        /\ \A m \in Registered : m # n => db'[m] = db[m]
        /\ pc' = [pc EXCEPT ![p] = "invalidate"] /\ UNCHANGED <<cache, req, row>>
    BY <1>8 DEF Commit, Goto, cacheVars
  \* The writer is alone: nobody is at "fill", nobody else at "invalidate".
  <2>2. /\ \A q \in Procs : pc[q] # "fill"
        /\ \A q \in Procs : pc[q] = "invalidate" => q = p
    BY <1>8 DEF Commit, Locked, Reading, Writing
  <2>3. req[p].op = "register" => NewRow(req[p]).active
    BY DEF NewRow, Registering
  <2>4. RowsCurrent'
    BY <2>1, <2>2, <2>3 DEF Active, Registered
  <2>5. CacheCoherent'
    BY <2>1, <2>2, <1>8 DEF Commit, Active, Scan, Registered
  <2> QED BY <2>4, <2>5
<1>9. ASSUME NEW p \in Procs, Fail(p) PROVE RowsCurrent' /\ CacheCoherent'
  BY <1>9 DEF Fail, Goto, Finish, cacheVars, Active, Scan, Registered
<1>10. ASSUME NEW p \in Procs, Invalidate(p) PROVE RowsCurrent' /\ CacheCoherent'
  <2>1. \A q \in Procs : pc[q] = "invalidate" => q = p
    BY <1>10 DEF Invalidate, Locked, Writing
  <2>2. \A m \in DOMAIN cache : m # req[p].name => Active(m) /\ cache[m] = Scan(m)
    BY <2>1
  <2>3. \A m \in DOMAIN cache' : Active(m) /\ cache'[m] = Scan(m)
    <3>1. CASE req[p].op = "register"
      BY <1>10, <2>2, <3>1 DEF Invalidate, CacheSet
    <3>2. CASE req[p].op # "register"
      BY <1>10, <2>2, <3>2 DEF Invalidate, CacheDrop
    <3> QED BY <3>1, <3>2
  <2> QED BY <1>10, <2>1, <2>3 DEF Invalidate, Goto, Finish, Active, Scan, Registered
<1>11. CASE Expire
  BY <1>11 DEF Expire, Active, Scan, Registered
<1>12. CASE Cleanup
  BY <1>12 DEF Cleanup, CacheDrop, Active, Scan, Registered
<1>13. CASE Restart
  BY <1>13 DEF Restart, Loaded, Active, Scan, Registered
<1>14. CASE UNCHANGED vars
  BY <1>14 DEF vars, cacheVars, Active, Scan, Registered
<1> QED BY <1>1, <1>2, <1>3, <1>4, <1>5, <1>6, <1>7, <1>8, <1>9, <1>10, <1>11,
           <1>12, <1>13, <1>14 DEF Next

\* No slow reader, eviction, expiry or crash leaves the cache behind the database.
THEOREM CacheStaysCoherent == Spec => []CacheCoherent
<1>1. CoherentInv => CacheCoherent
  BY DEF CoherentInv
<1> QED BY <1>1, CoherentInit, CoherentStep, PTL DEF Spec

-----------------------------------------------------------------------------
(* rollback_tool's choice                                                  *)

\* What rollback_tool picked under the read lock is there when it gets the write
\* lock, whatever other goroutines wrote in between.
THEOREM ChosenVersionStays == Spec => []ChosenVersionExists
<1>1. Init => ChosenVersionExists
  BY DEF Init, ChosenVersionExists
<1>2. TypeInv /\ VersionsContiguous /\ ChosenVersionExists /\ [Next]_vars
         => ChosenVersionExists'
  <2> SUFFICES ASSUME TypeInv, VersionsContiguous, ChosenVersionExists, [Next]_vars,
                      NEW p \in Procs, pc'[p] = "chosen"
               PROVE  /\ req'[p].name \in Registered'
                      /\ req'[p].version \in DOMAIN db'[req'[p].name].history
    BY DEF ChosenVersionExists
  <2>1. \A n \in Registered : /\ n \in Registered'
                              /\ DOMAIN db[n].history \subseteq DOMAIN db'[n].history
    <3> SUFFICES ASSUME NEW n \in Registered
                 PROVE  /\ n \in Registered'
                        /\ DOMAIN db[n].history \subseteq DOMAIN db'[n].history
      OBVIOUS
    <3>1. /\ n \in Registered' /\ Len(db[n].history) <= Len(db'[n].history)
      BY DbStep DEF Extends
    <3>2. db[n].history \in Seq(Contents) /\ db'[n].history \in Seq(Contents)
      BY <3>1, TypeStep DEF TypeInv, TypeOK, Row, Registered
    <3> QED BY <3>1, <3>2
  <2>2. CASE pc[p] = "chosen" /\ req'[p] = req[p]
    BY <2>1, <2>2 DEF ChosenVersionExists
  <2>3. CASE \E n \in Names : ChoosePrevious(p, n)
    <3>1. PICK n \in Names : ChoosePrevious(p, n)
      BY <2>3
    <3>2. /\ n \in Registered /\ Len(db[n].history) >= 2
          /\ req'[p] = [op |-> "rollback", name |-> n, version |-> Len(db[n].history) - 1]
      BY <3>1 DEF ChoosePrevious, TypeInv, TypeOK
    <3>3. Len(db[n].history) - 1 \in DOMAIN db[n].history
      BY <3>2 DEF TypeInv, TypeOK, Row, Registered
    <3> QED BY <2>1, <3>2, <3>3
  <2>4. \/ pc[p] = "chosen" /\ req'[p] = req[p]
        \/ \E n \in Names : ChoosePrevious(p, n)
    <3> USE DEF TypeInv, TypeOK, Goto, Finish
    <3>1. ASSUME NEW q \in Procs, NEW n \in Names, BeginGet(q, n) \/ ChoosePrevious(q, n)
          PROVE <2>4
      BY <3>1 DEF BeginGet, ChoosePrevious
    <3>2. ASSUME NEW q \in Procs, NEW r \in Writes, BeginWrite(q, r) PROVE <2>4
      BY <3>2 DEF BeginWrite
    <3>3. ASSUME NEW q \in Procs, \/ Lookup(q) \/ Query(q) \/ Fill(q) \/ BeginChosen(q)
                                  \/ Commit(q) \/ Fail(q) \/ Invalidate(q)
          PROVE <2>4
      BY <3>3 DEF Lookup, Query, Fill, BeginChosen, Commit, Fail, Invalidate
    <3>4. CASE Expire \/ Cleanup \/ Restart \/ UNCHANGED vars
      BY <3>4 DEF Expire, Cleanup, Restart, vars
    <3> QED BY <3>1, <3>2, <3>3, <3>4 DEF Next
  <2> QED BY <2>2, <2>3, <2>4
<1> QED BY <1>1, <1>2, TypeInit, TypeStep, VersionsStayContiguous, PTL DEF Spec

-----------------------------------------------------------------------------
(* The registry implements the store                                       *)

RefInv == CoherentInv /\ VersionsContiguous

LEMMA StoreRead ==
    /\ DOMAIN storeBar = Registered
    /\ \A n \in Registered : /\ storeBar[n].history = db[n].history
                             /\ storeBar[n].current = db[n].current
                             /\ storeBar[n].active = db[n].active
BY DEF storeBar, Versioned

\* A committed request is the operation it asked for.
LEMMA CommitImplements ==
    ASSUME RefInv, NEW p \in Procs, Commit(p)
    PROVE  Store!ANext
<1> DEFINE r == req[p]
           t == db[r.name]
<1>1. r \in Puts \cup Deletes \cup Rollbacks /\ Applies(r) /\ r.name \in Names
  BY DEF Commit, RefInv, CoherentInv, LockInv, TypeInv, Serving, Writing,
         Puts, Deletes, Rollbacks
<1> DEFINE v == Versioned(NewRow(r))
<1>2. /\ storeBar' = [m \in Registered \cup {r.name} |->
                        IF m = r.name THEN v ELSE storeBar[m]]
      /\ r.name \in Registered => storeBar' = [storeBar EXCEPT ![r.name] = v]
      /\ UNCHANGED answer
  <2>1. /\ db' = [m \in Registered \cup {r.name} |->
                    IF m = r.name THEN NewRow(r) ELSE db[m]]
        /\ UNCHANGED answer
    BY DEF Commit
  <2>2. storeBar' = [m \in Registered \cup {r.name} |-> Versioned(db'[m])]
    BY <2>1 DEF storeBar, Registered
  <2>3. \A m \in Registered \cup {r.name} :
           Versioned(db'[m]) = IF m = r.name THEN v ELSE storeBar[m]
    BY <2>1 DEF storeBar
  <2>4. storeBar' = [m \in Registered \cup {r.name} |->
                        IF m = r.name THEN v ELSE storeBar[m]]
    BY <2>2, <2>3
  <2> QED BY <2>1, <2>4, StoreRead
<1>3. \A n \in Registered : db[n] \in Row
  BY DEF RefInv, CoherentInv, LockInv, TypeInv, TypeOK, Registered
<1>4. CASE r.op = "register"
  <2>1. /\ r.content \in Contents /\ r.name \notin Registered
        /\ Versioned(NewRow(r)) = [history |-> <<r.content>>, current |-> r.content,
                                   active |-> TRUE]
    BY <1>1, <1>4 DEF Puts, Deletes, Rollbacks, Applies, NewRow, Registering, Versioned
  <2>2. Store!ARegister(r.name, r.content)
    BY <1>2, <2>1, StoreRead DEF Store!ARegister
  <2> QED BY <1>1, <2>1, <2>2 DEF Store!ANext
<1>5. CASE r.op = "update"
  <2>1. /\ r.content \in Contents /\ r.name \in Registered /\ t.active
        /\ Versioned(NewRow(r)) = [history |-> Append(t.history, r.content),
                                   current |-> r.content, active |-> TRUE]
    BY <1>1, <1>3, <1>5 DEF Puts, Deletes, Rollbacks, Applies, Active, NewRow, Updated,
                            Versioned, Row
  <2>2. Store!AUpdate(r.name, r.content)
    BY <1>2, <2>1, StoreRead DEF Store!AUpdate
  <2> QED BY <1>1, <2>1, <2>2 DEF Store!ANext
<1>6. CASE r.op = "delete"
  <2>1. /\ r.name \in Registered
        /\ Versioned(NewRow(r)) = [history |-> t.history, current |-> t.current,
                                   active |-> FALSE]
    BY <1>1, <1>3, <1>6 DEF Applies, NewRow, Disabled, Versioned, Row
  <2>2. Store!ADelete(r.name)
    BY <1>2, <2>1, StoreRead DEF Store!ADelete
  <2> QED BY <2>1, <2>2, StoreRead DEF Store!ANext
<1>7. CASE r.op = "rollback"
  <2>1. /\ r.name \in Registered /\ r.version \in DOMAIN t.history
        /\ Versioned(NewRow(r)) = [history |-> t.history,
                                   current |-> t.history[r.version],
                                   active |-> t.active]
    BY <1>1, <1>3, <1>7 DEF Applies, NewRow, RolledBack, Versioned, Row
  <2>2. Store!ARollback(r.name, r.version)
    BY <1>2, <2>1, StoreRead DEF Store!ARollback
  <2> QED BY <2>1, <2>2, StoreRead DEF Store!ANext
<1> QED BY <1>1, <1>4, <1>5, <1>6, <1>7 DEF Puts, Deletes, Rollbacks

\* A Get answers with what the store holds, from the cache as from the database.
LEMMA GetImplements ==
    ASSUME RefInv, NEW p \in Procs, Lookup(p) \/ Query(p)
    PROVE  \/ Store!AGet(req[p].name) /\ req[p].name \in Names
           \/ UNCHANGED <<storeBar, answer>>
<1> DEFINE n == req[p].name
<1>1. n \in Names /\ p \in readers
  BY DEF Lookup, Query, RefInv, CoherentInv, LockInv, Locked, TypeInv, Serving, Reading,
         Gets
<1>2. UNCHANGED storeBar
  BY DEF Lookup, Query, storeBar, Registered
<1>3. n \in Registered => /\ Store!Found(n) = Scan(n)
                          /\ storeBar[n].active = db[n].active
  BY StoreRead DEF Store!Found, Scan, RefInv, VersionsContiguous
<1>4. CASE Lookup(p) /\ n \in fresh
  <2>1. \A q \in Procs : pc[q] # "invalidate"
    BY <1>1, RegistryAssumption DEF RefInv, CoherentInv, LockInv, Locked, Writing
  <2>2. Active(n) /\ cache[n] = Scan(n)
    BY <1>4, <2>1 DEF RefInv, CoherentInv, CacheCoherent, LockInv, TypeInv, TypeOK
  <2>3. Store!AGet(n)
    BY <1>2, <1>3, <1>4, <2>2, StoreRead DEF Lookup, Active, Store!AGet
  <2> QED BY <1>1, <2>3
<1>5. CASE Lookup(p) /\ n \notin fresh
  BY <1>2, <1>5 DEF Lookup
<1>6. CASE Query(p)
  <2>1. Store!AGet(n)
    BY <1>2, <1>3, <1>6, StoreRead DEF Query, Selected, Active, Store!AGet
  <2> QED BY <1>1, <2>1
<1> QED BY <1>4, <1>5, <1>6

\* SQLiteRegistry, its lock, its cache and its crashes implement the atomic store.
THEOREM RegistryImplementsStore == Spec => ImplementsStore
<1>1. Init => Store!AInit
  BY DEF Init, Store!AInit, storeBar, Registered
<1>2. RefInv /\ [Next]_vars => [Store!ANext]_(Store!avars)
  <2> SUFFICES ASSUME RefInv, [Next]_vars
               PROVE  Store!ANext \/ UNCHANGED <<storeBar, answer>>
    BY DEF Store!avars
  <2>1. ASSUME NEW p \in Procs, Commit(p) PROVE Store!ANext
    BY <2>1, CommitImplements
  <2>2. ASSUME NEW p \in Procs, Lookup(p) \/ Query(p)
        PROVE  Store!ANext \/ UNCHANGED <<storeBar, answer>>
    BY <2>2, GetImplements DEF Store!ANext
  <2>3. CASE UNCHANGED <<db, answer>>
    BY <2>3 DEF storeBar, Registered
  <2>4. \/ \E p \in Procs : Commit(p) \/ Lookup(p) \/ Query(p)
        \/ UNCHANGED <<db, answer>>
    BY DEF Next, BeginGet, ChoosePrevious, BeginWrite, Fill, BeginChosen, Fail,
           Invalidate, Expire, Cleanup, Restart, vars
  <2> QED BY <2>1, <2>2, <2>3, <2>4
<1>3. Spec => []RefInv
  BY CoherentInit, CoherentStep, VersionsStayContiguous, PTL DEF Spec, RefInv
<1> QED BY <1>1, <1>2, <1>3, PTL DEF Spec, ImplementsStore, Store!ASpec

=============================================================================
