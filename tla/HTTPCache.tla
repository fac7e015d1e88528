----------------------------- MODULE HTTPCache -----------------------------
(***************************************************************************)
(* The caching http.RoundTripper the fetch tools share                     *)
(* (internal/httpcache).  Concurrent GETs look their key up in an LRU map  *)
(* under its mutex, ask the origin without it, and store what came back    *)
(* under the mutex again, so that the entry a round trip read may have     *)
(* been replaced or evicted by the time it stores.                         *)
(*                                                                         *)
(* The origin is the environment: its content changes, it sends an ETag or *)
(* none, an error page (body 0), or no response at all.  The body a cut    *)
(* connection truncates is not told apart from the whole one.              *)
(***************************************************************************)
EXTENDS Integers, Sequences, FiniteSets

CONSTANTS
    Keys,           \* method, URL and header fingerprint of a request
    Trips,          \* goroutines that make requests
    MaxEntries,     \* Cache.maxEntries
    MaxChanges      \* bound on how often content changes

ASSUME HTTPCacheAssumption ==
    /\ IsFiniteSet(Keys)
    /\ MaxEntries \in Nat \ {0} /\ MaxChanges \in Nat

VARIABLES
    lru,            \* Cache.lru: keys, the most recent in front
    entries,        \* Cache.entries
    fresh,          \* the keys whose entry is younger than the TTL
    origin,         \* the number of each key's content now
    changes,        \* how often content has changed
    trip,           \* each round trip: where it is, the key it asks for, the entry
                    \* it found, the response, and the content when it began (history)
    answer,         \* history: the last body answered for each key
    raced,          \* history: the keys of which two round trips overlapped
    others          \* history: the keys used since a key's last use

cacheVars  == <<lru, entries, fresh, others>>
originVars == <<origin, changes>>
vars == <<cacheVars, originVars, trip, answer, raced>>

Versions    == 1..(MaxChanges + 1)
Bodies      == Versions \cup {0}        \* 0: an error page
Entry       == [body : Bodies, etag : Versions \cup {0}]
NoEntry     == [body |-> 0, etag |-> 0]
NotModified == [status |-> 304]
Idle        == [at |-> "idle"]
Trip        == [at : {"ask"}, key : Keys, ent : Entry, since : Versions]
                 \cup [at : {"store"}, key : Keys, ent : Entry, since : Versions,
                       resp : Entry \cup {NotModified}]
Cached      == DOMAIN entries

Init ==
    /\ lru = <<>> /\ entries = [k \in {} |-> NoEntry] /\ fresh = {}
    /\ origin = [k \in Keys |-> 1] /\ changes = 0
    /\ trip = [t \in Trips |-> Idle]
    /\ answer = [k \in Keys |-> 0] /\ raced = {}
    /\ others = [k \in Keys |-> Keys]

-----------------------------------------------------------------------------
(* Cache                                                                   *)

\* k's element, which entries points to, or the one to be pushed.
Position(k) == IF k \in Cached THEN CHOOSE n \in DOMAIN lru : lru[n] = k ELSE Len(lru) + 1

ToFront(k) ==
    [n \in DOMAIN lru \cup {Position(k)} |->
        IF n = 1 THEN k ELSE IF n <= Position(k) THEN lru[n - 1] ELSE lru[n]]

\* History: k is used, an answer is given.
Use(k) == others' = [j \in Keys |-> IF j = k THEN {} ELSE others[j] \cup {k}]
Answer(k, body) == answer' = [answer EXCEPT ![k] = body]

\* Mutant of Reordered: a hit does not count as a use.
Unordered(k) == lru

Reordered(k) == ToFront(k)

\* Get: an entry that is there moves to the front, expired or not.
Get(k) ==
    /\ IF k \in Cached THEN lru' = Reordered(k) /\ Use(k) ELSE UNCHANGED <<lru, others>>
    /\ UNCHANGED <<entries, fresh>>

\* Mutants of Stored: an ETag is kept when the response has none; the first entry
\* is never replaced.
StoredOldTag(k, r) == [r EXCEPT !.etag = IF @ = 0 /\ k \in Cached
                                            THEN entries[k].etag ELSE @]
StoredFirst(k, r)  == IF k \in Cached THEN entries[k] ELSE r

Stored(k, r) == r

\* Mutant of FreshAfter: an evicted key keeps its time.
FreshAfterPut(k, kept) == fresh \cup {k}

FreshAfter(k, kept) == (fresh \cap kept) \cup {k}

\* Put: the entry is replaced or pushed, and what is over the bound goes from the back.
Put(k, r) ==
    LET pushed == ToFront(k)
        list   == IF Len(pushed) > MaxEntries THEN SubSeq(pushed, 1, MaxEntries) ELSE pushed
        kept   == {list[n] : n \in DOMAIN list}
    IN  /\ lru' = list
        /\ entries' = [j \in kept |-> IF j = k THEN Stored(k, r) ELSE entries[j]]
        /\ fresh' = FreshAfter(k, kept)
        /\ Use(k)

\* Touch: the time of whatever entry is there now, if any.
Touch(k) ==
    IF k \in Cached
       THEN lru' = ToFront(k) /\ fresh' = fresh \cup {k} /\ Use(k) /\ UNCHANGED entries
       ELSE UNCHANGED cacheVars

\* Time passes.  (A TTL of 0 is the case in which it always has.)
Expire(k) ==
    /\ k \in fresh
    /\ fresh' = fresh \ {k}
    /\ UNCHANGED <<lru, entries, others, originVars, trip, answer, raced>>

-----------------------------------------------------------------------------
(* RoundTrip                                                               *)

InFlight(k) == {t \in Trips : trip[t] # Idle /\ trip[t].key = k}

Goto(t, place) == trip' = [trip EXCEPT ![t] = place]

\* A fresh entry is the answer; else the origin is asked, with the ETag of the entry.
Begin(t, k) ==
    /\ trip[t] = Idle
    /\ Get(k)
    /\ IF k \in fresh
          THEN Answer(k, entries[k].body) /\ UNCHANGED trip
          ELSE /\ Goto(t, [at |-> "ask", key |-> k, since |-> origin[k],
                           ent |-> IF k \in Cached THEN entries[k] ELSE NoEntry])
               /\ UNCHANGED answer
    /\ raced' = IF InFlight(k) # {} THEN raced \cup {k} ELSE raced
    /\ UNCHANGED originVars

\* The origin responds to what it was asked.
Responses(v, etag) ==
    {[body |-> v, etag |-> v], [body |-> v, etag |-> 0], [body |-> 0, etag |-> 0]}
        \cup (IF etag = v THEN {NotModified} ELSE {})

Respond(t) ==
    /\ trip[t].at = "ask"
    /\ \E r \in Responses(origin[trip[t].key], trip[t].ent.etag) :
          Goto(t, [at |-> "store", key |-> trip[t].key, since |-> trip[t].since,
                   ent |-> trip[t].ent, resp |-> r])
    /\ UNCHANGED <<cacheVars, originVars, answer, raced>>

\* The request fails; nothing is stored.
Unreachable(t) ==
    /\ trip[t].at = "ask"
    /\ Goto(t, Idle)
    /\ UNCHANGED <<cacheVars, originVars, answer, raced>>

\* Mutant of Validated: the entry that is in the cache now.
ValidatedNow(r) == IF r.key \in Cached THEN entries[r.key] ELSE r.ent

\* What a 304 is answered with: the entry the round trip found.
Validated(r) == r.ent

\* The response is stored, whatever its status, and returned.
Store(t) ==
    LET r == trip[t] IN
    /\ r.at = "store"
    /\ IF r.resp = NotModified
          THEN Touch(r.key) /\ Answer(r.key, Validated(r).body)
          ELSE Put(r.key, r.resp) /\ Answer(r.key, r.resp.body)
    /\ Goto(t, Idle)
    /\ UNCHANGED <<originVars, raced>>

\* The origin's content changes.
Change(k) ==
    /\ changes < MaxChanges /\ changes' = changes + 1
    /\ origin' = [origin EXCEPT ![k] = @ + 1]
    /\ UNCHANGED <<cacheVars, trip, answer, raced>>

Next ==
    \/ \E t \in Trips : \/ \E k \in Keys : Begin(t, k)
                        \/ Respond(t) \/ Unreachable(t) \/ Store(t)
    \/ \E k \in Keys : Expire(k) \/ Change(k)

Spec == Init /\ [][Next]_vars

-----------------------------------------------------------------------------
(* Properties                                                              *)

\* The type invariant.
TypeOK ==
    /\ lru \in Seq(Keys) /\ Cached \subseteq Keys /\ \A k \in Cached : entries[k] \in Entry
    /\ fresh \subseteq Cached
    /\ origin \in [Keys -> Versions] /\ changes \in 0..MaxChanges
    /\ trip \in [Trips -> Trip \cup {Idle}] /\ answer \in [Keys -> Bodies]
    /\ raced \subseteq Keys /\ others \in [Keys -> SUBSET Keys]

\* The cache keeps exactly the MaxEntries keys used last, hits and revalidations
\* included: a key is there as long as fewer than MaxEntries others have been used
\* since.  The list and the map hold the same keys, each once.
LeastRecentlyUsed ==
    /\ \A k \in Keys : k \in Cached <=> k \notin others[k] /\ Cardinality(others[k]) < MaxEntries
    /\ Cached = {lru[n] : n \in DOMAIN lru} /\ Cardinality(Cached) = Len(lru)

\* The ETag of an entry is the one its body came with, whichever round trips stored,
\* extended and replaced it: a 304 never vouches for another body.
ETagMatchesBody == \A k \in Cached : entries[k].etag # 0 => entries[k].etag = entries[k].body

\* What a round trip that asked the origin answers was the content at some moment
\* between its beginning and its end, also when the entry it had validated was
\* replaced by an older one in the meantime.
AnswerWasCurrent ==
    [][\A t \in Trips : Store(t) =>
         \/ trip[t].resp # NotModified /\ trip[t].resp.body = 0
         \/ answer'[trip[t].key] \in trip[t].since..origin[trip[t].key]]_vars

\* As long as no two round trips of a key overlap, the answers for it never go back
\* to older content.
NeverGoesBack ==
    [][\A k \in Keys : k \notin raced' /\ answer'[k] # 0 => answer'[k] >= answer[k]]_vars
=============================================================================
