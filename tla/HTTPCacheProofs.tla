-------------------------- MODULE HTTPCacheProofs --------------------------
(***************************************************************************)
(* Proofs about HTTPCache, for any keys, round trips, size of the cache    *)
(* and number of changes: types, the LRU order, the ETag of an entry, and  *)
(* how current the answers are.                                            *)
(***************************************************************************)
EXTENDS HTTPCache, FiniteSetTheorems, SequenceTheorems, TLAPS

-----------------------------------------------------------------------------
(* The invariant                                                           *)

Elements(l) == {l[n] : n \in DOMAIN l}
Distinct(l) == \A n, m \in DOMAIN l : l[n] = l[m] => n = m

\* The list is in the order of last use: what has been used since an element's last use
\* is in front of it.
InOrder(l, since) == \A n \in DOMAIN l : since[l[n]] = {l[m] : m \in 1..(n - 1)}

\* A key that is not there has never been used, or has too many used after it.
Gone(l, since) ==
    \A k \in Keys \ Elements(l) : k \in since[k] \/ Cardinality(since[k]) >= MaxEntries

Listed ==
    /\ lru \in Seq(Keys) /\ Len(lru) <= MaxEntries /\ Distinct(lru) /\ Cached = Elements(lru)
    /\ others \in [Keys -> SUBSET Keys] /\ InOrder(lru, others) /\ Gone(lru, others)

\* What the origin may have sent for k.
Sent(k, e) == e \in Entry /\ e.body <= origin[k] /\ (e.etag # 0 => e.etag = e.body)

\* What a round trip holds was sent for its key; what it answers is no older than its beginning.
Travels(x) ==
    /\ x \in Trip /\ x.since <= origin[x.key] /\ Sent(x.key, x.ent)
    /\ x.at = "store" =>
          IF x.resp = NotModified
             THEN x.ent.body \in x.since..origin[x.key]
             ELSE Sent(x.key, x.resp) /\ (x.resp.body # 0 => x.since <= x.resp.body)

Contents ==
    /\ origin \in [Keys -> Versions] /\ changes \in 0..MaxChanges
    /\ \A k \in Keys : origin[k] <= changes + 1
    /\ answer \in [Keys -> Bodies] /\ \A k \in Keys : answer[k] <= origin[k]
    /\ fresh \subseteq Cached /\ Cached \subseteq Keys /\ raced \subseteq Keys
    /\ \A k \in Cached : Sent(k, entries[k])

Travelling ==
    /\ DOMAIN trip = Trips /\ trip = [t \in Trips |-> trip[t]]
    /\ \A t \in Trips : trip[t] = Idle \/ Travels(trip[t])

\* Of the keys of which no two round trips overlapped: the entry is the last answer, the
\* one round trip found it, and will not answer with anything older.
Alone(k) ==
    /\ \A t, u \in InFlight(k) : t = u
    /\ k \in Cached => entries[k].body = answer[k]
    /\ \A t \in InFlight(k) :
          /\ k \in Cached => trip[t].ent = entries[k]
          /\ trip[t].at = "store" =>
                IF trip[t].resp = NotModified THEN trip[t].ent.body >= answer[k]
                ELSE trip[t].resp.body = 0 \/ trip[t].resp.body >= answer[k]

IInv == Listed /\ Contents /\ Travelling /\ \A k \in Keys \ raced : Alone(k)

-----------------------------------------------------------------------------
(* Lists                                                                   *)

\* A list without repetition has as many elements as places.
LEMMA CountOfPrefix ==
    ASSUME NEW l \in Seq(Keys), Distinct(l), NEW n \in 0..Len(l)
    PROVE  /\ IsFiniteSet({l[m] : m \in 1..n})
           /\ Cardinality({l[m] : m \in 1..n}) = n
<1> DEFINE S == {l[m] : m \in 1..n}
           f == [m \in 1..n |-> l[m]]
<1>1. n \in Nat /\ DOMAIN l = 1..Len(l) /\ 1..n \subseteq DOMAIN l
  BY LenProperties
<1>2. f \in Surjection(1..n, S)
  BY DEF Surjection
<1>3. f \in Injection(1..n, S)
  BY <1>1 DEF Injection, IsInjective, Distinct
<1>4. IsFiniteSet(1..n) /\ Cardinality(1..n) = n
  BY <1>1, FS_Interval
<1> HIDE DEF f, S
<1> QED BY <1>2, <1>3, <1>4, FS_Surjection DEF S

\* Where the element at place n was before k was moved to the front.
Old(k, n) == IF n <= Position(k) THEN n - 1 ELSE n

IsMoved(l, k) == l = ToFront(k)

\* The list before and after its element k, or a new one, is moved to the front.
LEMMA FrontIsMoved ==
    ASSUME Listed, NEW k \in Keys, NEW l, IsMoved(l, k)
    PROVE  /\ l \in Seq(Keys) /\ Len(l) <= MaxEntries + 1
           /\ Position(k) \in 1..Len(l)
           /\ l[1] = k
           /\ \A n \in 2..Len(l) : l[n] = lru[Old(k, n)]
           /\ \A n \in 1..Len(lru) : lru[n] = k <=> n = Position(k)
           /\ Len(lru) \in Nat /\ DOMAIN lru = 1..Len(lru)
           /\ Len(l) = IF k \in Cached THEN Len(lru) ELSE Len(lru) + 1
           /\ k \notin Cached => Position(k) = Len(lru) + 1
<1>1. lru \in Seq(Keys) /\ Len(lru) \in Nat /\ DOMAIN lru = 1..Len(lru) /\ Len(lru) <= MaxEntries
  BY LenProperties DEF Listed
<1>p. PICK p : p = Position(k)
  OBVIOUS
<1> DEFINE len == IF k \in Cached THEN Len(lru) ELSE Len(lru) + 1
<1>2. p \in 1..len /\ (k \notin Cached => p = Len(lru) + 1)
      /\ \A n \in 1..Len(lru) : lru[n] = k <=> n = p
  <2>1. CASE k \in Cached
    <3>1. PICK n \in DOMAIN lru : lru[n] = k
      BY <2>1 DEF Listed, Elements
    <3>2. p \in DOMAIN lru /\ lru[p] = k
      BY <1>p, <2>1, <3>1 DEF Position
    <3> QED BY <1>1, <2>1, <3>2 DEF Listed, Distinct
  <2>2. CASE k \notin Cached
    <3>1. \A n \in DOMAIN lru : lru[n] # k
      BY <2>2 DEF Listed, Elements
    <3>2. p = Len(lru) + 1
      BY <1>p, <2>2 DEF Position
    <3> QED BY <1>1, <2>2, <3>1, <3>2
  <2> QED BY <2>1, <2>2
<1>3. DOMAIN l = 1..len
  <2>1. DOMAIN lru \cup {p} = 1..len
    BY <1>1, <1>2
  <2> QED BY <1>p, <2>1 DEF IsMoved, ToFront
<1>4. \A n \in 1..len : l[n] = IF n = 1 THEN k ELSE IF n <= p THEN lru[n - 1] ELSE lru[n]
  BY <1>p, <1>3 DEF IsMoved, ToFront
<1>5. \A n \in 1..len : l[n] \in Keys
  <2> TAKE n \in 1..len
  <2>1. CASE n = 1
    BY <1>4, <2>1
  <2>2. CASE n # 1 /\ n <= p
    <3>1. n - 1 \in 1..Len(lru)
      BY <1>1, <1>2, <2>2
    <3> QED BY <1>1, <1>4, <2>2, <3>1, ElementOfSeq
  <2>3. CASE n # 1 /\ ~(n <= p)
    <3>1. n \in 1..Len(lru)
      BY <1>1, <1>2, <2>3
    <3> QED BY <1>1, <1>4, <2>3, <3>1, ElementOfSeq
  <2> QED BY <2>1, <2>2, <2>3
<1>6. l \in Seq(Keys) /\ Len(l) = len
  <2>1. l = [n \in 1..len |-> l[n]]
    BY <1>3 DEF IsMoved, ToFront
  <2>2. len \in Nat
    BY <1>1
  <2> QED BY <1>5, <2>1, <2>2
<1>7. l[1] = k /\ \A n \in 2..Len(l) : /\ n <= p => l[n] = lru[n - 1]
                                       /\ n > p => l[n] = lru[n]
  BY <1>1, <1>2, <1>4, <1>6
<1>9. \A n \in 2..Len(l) : l[n] = lru[Old(k, n)]
  BY <1>1, <1>2, <1>6, <1>7, <1>p DEF Old
<1>8. p \in 1..Len(l) /\ Len(l) <= MaxEntries + 1
  BY <1>1, <1>2, <1>6, HTTPCacheAssumption
<1> QED BY <1>p, <1>1, <1>2, <1>6, <1>7, <1>8, <1>9

\* others', when k is used.
IsUsed(since, k) == since = [j \in Keys |-> IF j = k THEN {} ELSE others[j] \cup {k}]

LEMMA FrontKeepsOrder ==
    ASSUME Listed, NEW k \in Keys, NEW l, IsMoved(l, k), NEW since, IsUsed(since, k)
    PROVE  /\ Distinct(l) /\ Elements(l) = Cached \cup {k} /\ k \in Elements(l)
           /\ since \in [Keys -> SUBSET Keys] /\ InOrder(l, since) /\ Gone(l, since)
<1> DEFINE p == Position(k)
           old(n) == IF n <= p THEN n - 1 ELSE n
<1>1. /\ l \in Seq(Keys) /\ p \in 1..Len(l) /\ Len(l) \in Nat /\ DOMAIN l = 1..Len(l)
      /\ Len(lru) \in Nat /\ DOMAIN lru = 1..Len(lru)
      /\ \A n \in 1..Len(lru) : lru[n] = k <=> n = p
      /\ Len(l) = IF k \in Cached THEN Len(lru) ELSE Len(lru) + 1
  BY FrontIsMoved, LenProperties
<1>2. l[1] = k /\ \A n \in 2..Len(l) : l[n] = lru[old(n)]
  <2>1. l[1] = k
    BY FrontIsMoved
  <2>2. \A n \in 2..Len(l) : l[n] = lru[Old(k, n)]
    BY FrontIsMoved
  <2> QED BY <2>1, <2>2 DEF Old
<1>3. /\ p = Len(lru) + 1 \/ p \in 1..Len(lru)
      /\ k \notin Cached => p = Len(lru) + 1
  BY <1>1, FrontIsMoved
<1>4. \A n \in 2..Len(l) : old(n) \in 1..Len(lru) /\ old(n) # p
  BY <1>1, <1>3
<1> HIDE DEF p
<1>5. Distinct(l)
  <2>1. SUFFICES ASSUME NEW n \in 1..Len(l), NEW m \in 1..Len(l), n < m, l[n] = l[m]
                 PROVE  FALSE
    BY <1>1 DEF Distinct
  <2>2. m \in 2..Len(l) /\ l[m] = lru[old(m)] /\ l[m] # k
    BY <1>1, <1>2, <1>4, <2>1
  <2>3. n \in 2..Len(l) /\ l[n] = lru[old(n)]
    BY <1>1, <1>2, <2>1, <2>2
  <2>4. old(n) = old(m)
    BY <1>1, <1>4, <2>1, <2>2, <2>3 DEF Listed, Distinct
  <2> QED BY <1>1, <1>4, <2>1, <2>2, <2>3, <2>4
<1>6. \A n \in 1..Len(lru) : lru[n] # k => \E m \in 2..Len(l) : l[m] = lru[n] /\ old(m) = n
  <2> SUFFICES ASSUME NEW n \in 1..Len(lru), lru[n] # k
               PROVE  \E m \in 2..Len(l) : l[m] = lru[n] /\ old(m) = n
    OBVIOUS
  <2>1. CASE n < p
    <3>1. n + 1 \in 2..Len(l) /\ old(n + 1) = n
      BY <1>1, <1>3, <2>1
    <3> QED BY <1>2, <3>1
  <2>2. CASE n > p
    <3>1. n \in 2..Len(l) /\ old(n) = n
      BY <1>1, <1>3, <2>2
    <3> QED BY <1>2, <3>1
  <2> QED BY <1>1, <2>1, <2>2
<1>7. Elements(l) = Cached \cup {k}
  <2>1. Elements(l) \subseteq Cached \cup {k}
    <3> SUFFICES ASSUME NEW n \in 1..Len(l) PROVE l[n] \in Cached \cup {k}
      BY <1>1 DEF Elements
    <3>1. CASE n = 1
      BY <1>2, <3>1
    <3>2. CASE n # 1
      <4>1. n \in 2..Len(l)
        BY <1>1, <3>2
      <4>2. old(n) \in DOMAIN lru /\ l[n] = lru[old(n)]
        BY <1>1, <1>2, <1>4, <4>1
      <4>3. lru[old(n)] \in Elements(lru)
        BY <4>2 DEF Elements
      <4> QED BY <4>2, <4>3 DEF Listed
    <3> QED BY <3>1, <3>2
  <2>2. k \in Elements(l)
    BY <1>1, <1>2 DEF Elements
  <2>3. Cached \subseteq Elements(l)
    <3> SUFFICES ASSUME NEW n \in 1..Len(lru) PROVE lru[n] \in Elements(l)
      BY <1>1 DEF Listed, Elements
    <3>1. CASE lru[n] = k
      BY <2>2, <3>1
    <3>2. CASE lru[n] # k
      BY <1>1, <1>6, <3>2 DEF Elements
    <3> QED BY <3>1, <3>2
  <2> QED BY <2>1, <2>2, <2>3
<1>8. since \in [Keys -> SUBSET Keys]
  BY DEF IsUsed, Listed
<1>9. InOrder(l, since)
  <2> SUFFICES ASSUME NEW n \in 1..Len(l)
               PROVE  since[l[n]] = {l[m] : m \in 1..(n - 1)}
    BY <1>1 DEF InOrder
  <2>1. CASE n = 1
    <3>1. since[l[n]] = {}
      BY <1>2, <2>1 DEF IsUsed
    <3>2. 1..(n - 1) = {}
      BY <2>1
    <3> QED BY <3>1, <3>2
  <2>2. CASE n # 1
    <3>1. n \in 2..Len(l) /\ l[n] = lru[old(n)] /\ l[n] # k /\ l[n] \in Keys
      BY <1>1, <1>2, <1>4, <2>2, ElementOfSeq
    <3>2. since[l[n]] = {lru[m] : m \in 1..(old(n) - 1)} \cup {k}
      <4>1. since[l[n]] = others[l[n]] \cup {k}
        BY <3>1 DEF IsUsed
      <4>2. others[lru[old(n)]] = {lru[m] : m \in 1..(old(n) - 1)}
        BY <1>1, <1>4, <3>1 DEF Listed, InOrder
      <4> QED BY <3>1, <4>1, <4>2
    <3>3. ASSUME NEW m \in 1..(n - 1)
          PROVE  l[m] \in {lru[j] : j \in 1..(old(n) - 1)} \cup {k}
      <4>1. CASE m = 1
        BY <1>2, <4>1
      <4>2. CASE m # 1
        <5>1. m \in 2..Len(l) /\ m < n
          BY <1>1, <3>1, <4>2
        <5>2. l[m] = lru[old(m)]
          BY <1>2, <5>1
        <5>3. old(m) = p \/ old(m) \in 1..(old(n) - 1)
          BY <1>1, <1>4, <3>1, <5>1
        <5> QED BY <1>4, <5>1, <5>2, <5>3
      <4> QED BY <4>1, <4>2
    <3>4. ASSUME NEW j \in 1..(old(n) - 1)
          PROVE  lru[j] \in {l[m] : m \in 1..(n - 1)}
      <4>1. j \in 1..Len(lru)
        BY <1>1, <1>4, <3>1
      <4>2. CASE lru[j] = k
        <5>1. 1 \in 1..(n - 1)
          BY <1>1, <3>1
        <5> QED BY <1>2, <4>2, <5>1
      <4>3. CASE lru[j] # k
        <5>1. PICK m \in 2..Len(l) : l[m] = lru[j] /\ old(m) = j
          BY <1>6, <4>1, <4>3
        <5>2. m \in 1..(n - 1)
          BY <1>1, <3>1, <3>4, <5>1
        <5> QED BY <5>1, <5>2
      <4> QED BY <4>2, <4>3
    <3>5. k \in {l[m] : m \in 1..(n - 1)}
      <4>1. 1 \in 1..(n - 1)
        BY <1>1, <3>1
      <4> QED BY <1>2, <4>1
    <3> QED BY <3>2, <3>3, <3>4, <3>5
  <2> QED BY <2>1, <2>2
<1>10. Gone(l, since)
  <2> SUFFICES ASSUME NEW j \in Keys \ Elements(l)
               PROVE  j \in since[j] \/ Cardinality(since[j]) >= MaxEntries
    BY DEF Gone
  <2>1. j # k /\ j \in Keys \ Elements(lru)
    BY <1>7 DEF Listed
  <2>2. since[j] = others[j] \cup {k} /\ others[j] \subseteq Keys /\ since[j] \subseteq Keys
    BY <2>1 DEF IsUsed, Listed
  <2>3. IsFiniteSet(since[j])
    BY <2>2, HTTPCacheAssumption, FS_Subset
  <2>4. /\ Cardinality(others[j]) <= Cardinality(since[j])
        /\ Cardinality(others[j]) \in Nat /\ Cardinality(since[j]) \in Nat
    BY <2>2, <2>3, FS_Subset, FS_CardinalityType
  <2>5. j \in others[j] \/ Cardinality(others[j]) >= MaxEntries
    BY <2>1 DEF Listed, Gone
  <2> QED BY <2>2, <2>4, <2>5, HTTPCacheAssumption
<1> QED BY <1>5, <1>7, <1>8, <1>9, <1>10

\* What is over the bound goes from the back, and has the bound's worth of keys before it.
IsCut(list, l) == list = IF Len(l) > MaxEntries THEN SubSeq(l, 1, MaxEntries) ELSE l

LEMMA BackIsDropped ==
    ASSUME NEW l \in Seq(Keys), NEW since \in [Keys -> SUBSET Keys],
           Distinct(l), InOrder(l, since), Gone(l, since),
           Len(l) <= MaxEntries + 1, 1 \in DOMAIN l,
           NEW list, IsCut(list, l)
    PROVE  /\ list \in Seq(Keys) /\ Len(list) <= MaxEntries /\ Distinct(list)
           /\ InOrder(list, since) /\ Gone(list, since) /\ Elements(list) \subseteq Elements(l)
           /\ list[1] = l[1] /\ 1 \in DOMAIN list
<1>len. Len(l) \in Nat /\ MaxEntries \in Nat
  BY LenProperties, HTTPCacheAssumption
<1> SUFFICES ASSUME Len(l) = MaxEntries + 1, list = SubSeq(l, 1, MaxEntries)
             PROVE  /\ list \in Seq(Keys) /\ Len(list) <= MaxEntries /\ Distinct(list)
                    /\ InOrder(list, since) /\ Gone(list, since)
                    /\ Elements(list) \subseteq Elements(l)
                    /\ list[1] = l[1] /\ 1 \in DOMAIN list
  <2>1. CASE Len(l) > MaxEntries
    BY <1>len, <2>1 DEF IsCut
  <2>2. CASE ~(Len(l) > MaxEntries)
    <3>1. list = l
      BY <2>2 DEF IsCut
    <3> QED BY <1>len, <2>2, <3>1
  <2> QED BY <2>1, <2>2
<1>1. DOMAIN l = 1..Len(l) /\ MaxEntries \in Nat \ {0}
  BY LenProperties, HTTPCacheAssumption
<1>2. /\ list \in Seq(Keys) /\ Len(list) = MaxEntries /\ DOMAIN list = 1..MaxEntries
      /\ \A n \in 1..MaxEntries : list[n] = l[n]
  <2>1. \A n \in 1..MaxEntries : l[n] \in Keys
    BY <1>1, ElementOfSeq
  <2>2. /\ list \in Seq(Keys) /\ Len(list) = MaxEntries
        /\ \A n \in 1..MaxEntries : list[n] = l[n]
    BY <1>1, <2>1, SubSeqProperties
  <2> QED BY <2>2, LenProperties
<1>3. Distinct(list) /\ Elements(list) \subseteq Elements(l) /\ list[1] = l[1] /\ 1 \in DOMAIN list
  BY <1>1, <1>2 DEF Distinct, Elements
<1>4. \A n \in 1..MaxEntries : {list[m] : m \in 1..(n - 1)} = {l[m] : m \in 1..(n - 1)}
  <2> TAKE n \in 1..MaxEntries
  <2>1. \A m \in 1..(n - 1) : list[m] = l[m]
    BY <1>1, <1>2
  <2> QED BY <2>1
<1>5. InOrder(list, since)
  BY <1>1, <1>2, <1>4 DEF InOrder
<1>6. Gone(list, since)
  <2> SUFFICES ASSUME NEW j \in Keys \ Elements(list)
               PROVE  j \in since[j] \/ Cardinality(since[j]) >= MaxEntries
    BY DEF Gone
  <2>1. CASE j \notin Elements(l)
    BY <2>1 DEF Gone
  <2>2. CASE j \in Elements(l)
    <3>1. PICK n \in 1..Len(l) : j = l[n]
      BY <1>1, <2>2 DEF Elements
    <3>2. n = MaxEntries + 1
      <4>1. n \notin 1..MaxEntries
        BY <1>2, <3>1 DEF Elements
      <4> QED BY <1>1, <3>1, <4>1
    <3>3. since[j] = {l[m] : m \in 1..MaxEntries}
      <4>1. n - 1 = MaxEntries
        BY <1>1, <3>2
      <4> QED BY <1>1, <3>1, <4>1 DEF InOrder
    <3>4. MaxEntries \in 0..Len(l)
      BY <1>1
    <3>5. Cardinality(since[j]) = MaxEntries
      BY <3>3, <3>4, CountOfPrefix
    <3> QED BY <1>1, <3>5
  <2> QED BY <2>1, <2>2
<1> QED BY <1>2, <1>3, <1>5, <1>6


-----------------------------------------------------------------------------
(* The operations of Cache                                                 *)

LEMMA MoveKeepsListed ==
    ASSUME Listed, NEW k \in Cached, k \in Keys, lru' = ToFront(k), Use(k), UNCHANGED entries
    PROVE  Listed'
<1>1. PICK l : l = lru' /\ IsMoved(l, k)
  BY DEF IsMoved
<1>2. PICK since : since = others' /\ IsUsed(since, k)
  BY DEF IsUsed, Use
<1>3. l \in Seq(Keys) /\ Len(l) = Len(lru)
  BY <1>1, FrontIsMoved
<1>4. /\ Distinct(l) /\ Elements(l) = Cached \cup {k}
      /\ since \in [Keys -> SUBSET Keys] /\ InOrder(l, since) /\ Gone(l, since)
  BY <1>1, <1>2, FrontKeepsOrder
<1>5. Cached' = Elements(l)
  BY <1>4 DEF Cached
<1> QED BY <1>1, <1>2, <1>3, <1>4, <1>5 DEF Listed

LEMMA GetKeepsListed ==
    ASSUME Listed, NEW k \in Keys, Get(k)
    PROVE  Listed' /\ UNCHANGED <<entries, fresh>>
<1>1. CASE k \in Cached
  BY <1>1, MoveKeepsListed DEF Get, Reordered
<1>2. CASE k \notin Cached
  BY <1>2 DEF Get, Listed, Cached
<1> QED BY <1>1, <1>2 DEF Get

LEMMA TouchKeepsListed ==
    ASSUME Listed, NEW k \in Keys, Touch(k), fresh \subseteq Cached
    PROVE  Listed' /\ UNCHANGED entries /\ fresh' \subseteq Cached
<1>1. CASE k \in Cached
  BY <1>1, MoveKeepsListed DEF Touch, Cached
<1>2. CASE k \notin Cached
  BY <1>2 DEF Touch, Listed, cacheVars, Cached
<1> QED BY <1>1, <1>2

LEMMA PutKeepsListed ==
    ASSUME Listed, NEW k \in Keys, NEW r, Put(k, r)
    PROVE  /\ Listed' /\ fresh' \subseteq Cached'
           /\ k \in Cached' /\ Cached' \subseteq Cached \cup {k}
           /\ entries'[k] = r /\ \A j \in Cached' : j # k => entries'[j] = entries[j]
<1>1. PICK l : l = ToFront(k) /\ IsMoved(l, k)
  BY DEF IsMoved
<1>2. PICK list : list = lru' /\ IsCut(list, l)
  BY <1>1 DEF IsCut, Put
<1>3. PICK since : since = others' /\ IsUsed(since, k)
  BY DEF IsUsed, Use, Put
<1>4. /\ l \in Seq(Keys) /\ Len(l) <= MaxEntries + 1 /\ l[1] = k
      /\ Position(k) \in 1..Len(l)
  BY <1>1, FrontIsMoved
<1>5. /\ Distinct(l) /\ Elements(l) = Cached \cup {k}
      /\ since \in [Keys -> SUBSET Keys] /\ InOrder(l, since) /\ Gone(l, since)
  BY <1>1, <1>3, FrontKeepsOrder
<1>6. 1 \in DOMAIN l
  BY <1>4, LenProperties
<1>7. /\ list \in Seq(Keys) /\ Len(list) <= MaxEntries /\ Distinct(list)
      /\ InOrder(list, since) /\ Gone(list, since) /\ Elements(list) \subseteq Elements(l)
      /\ list[1] = l[1] /\ 1 \in DOMAIN list
  BY <1>2, <1>4, <1>5, <1>6, BackIsDropped
<1>8. /\ entries' = [j \in Elements(list) |-> IF j = k THEN r ELSE entries[j]]
      /\ fresh' = (fresh \cap Elements(list)) \cup {k}
  BY <1>1, <1>2 DEF Put, IsCut, Elements, Stored, FreshAfter
<1>9. k \in Elements(list) /\ Cached' = Elements(list)
  BY <1>4, <1>7, <1>8 DEF Elements, Cached
<1>10. Listed'
  BY <1>2, <1>3, <1>5, <1>7, <1>9 DEF Listed
<1> QED BY <1>5, <1>7, <1>8, <1>9, <1>10


-----------------------------------------------------------------------------
(* Round trips                                                             *)

LEMMA InitIInv == Init => IInv
<1> SUFFICES ASSUME Init PROVE IInv
  OBVIOUS
<1>1. Listed
  <2>1. lru \in Seq(Keys) /\ Len(lru) = 0 /\ DOMAIN lru = {}
    BY DEF Init
  <2>2. Cached = {}
    BY DEF Init, Cached
  <2> QED BY <2>1, <2>2, HTTPCacheAssumption DEF Init, Listed, Distinct, Elements, InOrder, Gone
<1>2. Contents
  <2>1. 1 \in Versions
    BY HTTPCacheAssumption DEF Versions
  <2>2. Cached = {}
    BY DEF Init, Cached
  <2> QED BY <2>1, <2>2, HTTPCacheAssumption DEF Init, Contents, Bodies
<1>3. Travelling
  BY DEF Init, Travelling
<1>4. ASSUME NEW k \in Keys PROVE Alone(k)
  BY DEF Init, Alone, InFlight, Cached
<1> QED BY <1>1, <1>2, <1>3, <1>4 DEF IInv

\* A round trip under way, and the fields it has.
LEMMA TripAt ==
    ASSUME IInv, NEW t \in Trips, trip[t] # Idle
    PROVE  /\ Travels(trip[t]) /\ trip[t].key \in Keys /\ trip[t].since \in Versions
           /\ trip[t].at \in {"ask", "store"} /\ Sent(trip[t].key, trip[t].ent)
           /\ trip[t].at = "store" => trip[t].resp \in Entry \cup {NotModified}
           /\ trip[t] \in Trip
BY DEF IInv, Travelling, Travels, Trip

LEMMA AtIsTravelling ==
    ASSUME IInv, NEW t \in Trips, trip[t].at \in {"ask", "store"}
    PROVE  trip[t] # Idle
BY DEF Idle

\* What was sent was sent.
LEMMA SentStays ==
    ASSUME Contents, Contents', \A k \in Keys : origin[k] <= origin'[k],
           NEW k \in Keys, NEW e, Sent(k, e)
    PROVE  Sent(k, e)'
<1>1. origin[k] \in Nat /\ origin'[k] \in Nat /\ e.body \in Nat
  BY HTTPCacheAssumption DEF Contents, Versions, Sent, Entry, Bodies
<1> QED BY <1>1 DEF Sent

LEMMA TravelsOn ==
    ASSUME Contents, Contents', \A k \in Keys : origin[k] <= origin'[k],
           NEW x, Travels(x)
    PROVE  Travels(x)'
<1>1. /\ x.key \in Keys /\ x.since \in Nat /\ x.ent \in Entry
      /\ origin[x.key] \in Nat /\ origin'[x.key] \in Nat /\ origin[x.key] <= origin'[x.key]
  BY HTTPCacheAssumption DEF Contents, Versions, Travels, Trip
<1>2. Sent(x.key, x.ent)'
  BY <1>1, SentStays DEF Travels
<1>3. x.since <= origin'[x.key]
  BY <1>1 DEF Travels
<1>4. CASE x.at = "store" /\ x.resp = NotModified
  <2>1. x.ent.body \in Nat
    BY <1>1, HTTPCacheAssumption DEF Entry, Bodies, Versions
  <2>2. x.ent.body \in x.since..origin'[x.key]
    BY <1>1, <1>4, <2>1 DEF Travels
  <2> QED BY <1>2, <1>3, <1>4, <2>2 DEF Travels
<1>5. CASE x.at = "store" /\ x.resp # NotModified
  <2>1. Sent(x.key, x.resp)'
    BY <1>1, <1>5, SentStays DEF Travels
  <2> QED BY <1>2, <1>3, <1>5, <2>1 DEF Travels
<1>6. CASE x.at # "store"
  BY <1>2, <1>3, <1>6 DEF Travels
<1> QED BY <1>4, <1>5, <1>6

LEMMA TravellingStays ==
    ASSUME IInv, Contents', \A k \in Keys : origin[k] <= origin'[k], UNCHANGED trip
    PROVE  Travelling'
<1>1. ASSUME NEW t \in Trips, trip[t] # Idle PROVE Travels(trip[t])'
  <2>1. PICK x : x = trip[t]
    OBVIOUS
  <2>2. Travels(x)'
    BY <1>1, <2>1, TravelsOn DEF IInv, Travelling
  <2> QED BY <2>1, <2>2
<1> QED BY <1>1 DEF IInv, Travelling

LEMMA GotoTravels ==
    ASSUME IInv, Contents', UNCHANGED origin, NEW t \in Trips, NEW place, Goto(t, place),
           place = Idle \/ Travels(place)
    PROVE  /\ Travelling' /\ trip'[t] = place
           /\ \A u \in Trips : u # t => trip'[u] = trip[u]
<1>1. DOMAIN trip = Trips /\ trip' = [trip EXCEPT ![t] = place]
  BY DEF IInv, Travelling, Goto
<1>2. trip'[t] = place /\ (\A u \in Trips : u # t => trip'[u] = trip[u]) /\ DOMAIN trip' = Trips
  BY <1>1
<1>o. \A k \in Keys : origin[k] <= origin'[k]
  BY HTTPCacheAssumption DEF IInv, Contents, Versions
<1>3. ASSUME NEW u \in Trips, trip'[u] # Idle PROVE Travels(trip[u])'
  <2>1. PICK x : x = trip'[u]
    OBVIOUS
  <2>2. Travels(x)
    BY <1>2, <1>3, <2>1 DEF IInv, Travelling
  <2>3. Travels(x)'
    BY <1>o, <2>2, TravelsOn DEF IInv
  <2> QED BY <2>1, <2>3
<1>4. trip' = [u \in Trips |-> trip'[u]]
  BY <1>1 DEF IInv, Travelling
<1> QED BY <1>2, <1>3, <1>4 DEF Travelling

\* Of a key that nothing happens to.
LEMMA AloneStays ==
    ASSUME NEW j \in Keys, Alone(j), answer'[j] = answer[j],
           j \in Cached' => j \in Cached /\ entries'[j] = entries[j],
           InFlight(j)' \subseteq InFlight(j), \A t \in InFlight(j)' : trip'[t] = trip[t]
    PROVE  Alone(j)'
BY DEF Alone

\* The keys but that of the one round trip that takes a step.
LEMMA OthersFly ==
    ASSUME NEW t \in Trips, NEW j \in Keys, \A u \in Trips : u # t => trip'[u] = trip[u],
           trip'[t] = Idle \/ trip'[t].key # j
    PROVE  /\ InFlight(j)' \subseteq InFlight(j) /\ t \notin InFlight(j)'
           /\ \A u \in InFlight(j)' : trip'[u] = trip[u]
BY DEF InFlight


-----------------------------------------------------------------------------
(* The actions                                                             *)

LEMMA BeginKeepsIInv ==
    ASSUME IInv, NEW t \in Trips, NEW k \in Keys, Begin(t, k)
    PROVE  IInv'
<1>1. Listed' /\ UNCHANGED <<entries, fresh, origin, changes>>
  BY GetKeepsListed DEF IInv, Begin, originVars
<1>2. UNCHANGED Cached
  BY <1>1 DEF Cached
<1>3. raced' = IF InFlight(k) # {} THEN raced \cup {k} ELSE raced
  BY DEF Begin
<1>4. \A j \in Keys : origin[j] \in Nat /\ origin[j] \in Versions
  BY HTTPCacheAssumption DEF IInv, Contents, Versions
<1>5. CASE k \in fresh
  <2>1. Answer(k, entries[k].body) /\ UNCHANGED trip
    BY <1>5 DEF Begin
  <2>2. Sent(k, entries[k]) /\ entries[k].body \in Bodies
    BY <1>5 DEF IInv, Contents, Sent, Entry
  <2>3. Contents'
    BY <1>1, <1>2, <1>3, <2>1, <2>2 DEF IInv, Contents, Answer, Sent
  <2>4. Travelling'
    BY <1>1, <1>4, <2>1, <2>3, TravellingStays
  <2>5. ASSUME NEW j \in Keys \ raced' PROVE Alone(j)'
    <3>1. j \in Keys \ raced /\ Alone(j)
      BY <1>3 DEF IInv
    <3>2. answer'[j] = answer[j]
      <4>1. CASE j # k
        BY <2>1, <4>1 DEF Answer, IInv, Contents
      <4>2. CASE j = k
        <5>1. entries[k].body = answer[k]
          BY <1>5, <3>1, <4>2 DEF Alone, IInv, Contents
        <5> QED BY <2>1, <4>2, <5>1 DEF Answer, IInv, Contents
      <4> QED BY <4>1, <4>2
    <3>3. InFlight(j)' = InFlight(j)
      BY <2>1 DEF InFlight
    <3> QED BY <1>1, <1>2, <2>1, <3>1, <3>2, <3>3, AloneStays
  <2> QED BY <1>1, <2>3, <2>4, <2>5 DEF IInv
<1>6. CASE k \notin fresh
  <2>1. PICK place : /\ Goto(t, place) /\ UNCHANGED answer
                     /\ place = [at |-> "ask", key |-> k, since |-> origin[k],
                                 ent |-> IF k \in Cached THEN entries[k] ELSE NoEntry]
    BY <1>6 DEF Begin
  <2>2. Contents'
    BY <1>1, <1>2, <1>3, <2>1 DEF IInv, Contents, Sent
  <2>3. Sent(k, place.ent) /\ place.since = origin[k] /\ place.key = k /\ place.at = "ask"
        /\ place.ent \in Entry /\ place # Idle
    <3>1. CASE k \in Cached
      BY <2>1, <3>1 DEF IInv, Contents, Sent, Idle
    <3>2. CASE k \notin Cached
      <4>1. NoEntry \in Entry /\ NoEntry.body = 0 /\ NoEntry.etag = 0
        BY DEF NoEntry, Entry, Bodies
      <4> QED BY <1>4, <2>1, <3>2, <4>1 DEF Sent, Idle
    <3> QED BY <3>1, <3>2
  <2>4. place \in Trip
    BY <1>4, <2>1, <2>3 DEF Trip
  <2>5. Travels(place)
    BY <1>4, <2>3, <2>4 DEF Travels
  <2>6. Travelling' /\ trip'[t] = place /\ \A u \in Trips : u # t => trip'[u] = trip[u]
    BY <1>1, <2>1, <2>2, <2>5, GotoTravels
  <2>7. ASSUME NEW j \in Keys \ raced' PROVE Alone(j)'
    <3>1. j \in Keys \ raced /\ Alone(j)
      BY <1>3 DEF IInv
    <3>2. CASE j # k
      <4>1. InFlight(j)' \subseteq InFlight(j) /\ \A u \in InFlight(j)' : trip'[u] = trip[u]
        BY <2>3, <2>6, <3>2, OthersFly
      <4> QED BY <1>1, <1>2, <2>1, <3>1, <4>1, AloneStays
    <3>3. CASE j = k
      <4>1. InFlight(k) = {}
        BY <1>3, <3>3
      <4>2. InFlight(k)' \subseteq {t}
        BY <2>6, <4>1 DEF InFlight
      <4>3. k \in Cached => trip'[t].ent = entries[k]
        BY <2>1, <2>6
      <4>4. k \in Cached => entries[k].body = answer[k]
        BY <3>1, <3>3 DEF Alone
      <4> QED BY <1>1, <1>2, <2>1, <2>3, <2>6, <3>3, <4>2, <4>3, <4>4 DEF Alone
    <3> QED BY <3>2, <3>3
  <2> QED BY <1>1, <2>2, <2>6, <2>7 DEF IInv
<1> QED BY <1>5, <1>6

\* A 304 means that the entry found is the origin's content.
LEMMA RespondKeepsIInv ==
    ASSUME IInv, NEW t \in Trips, Respond(t)
    PROVE  IInv'
<1>k. PICK k : k = trip[t].key
  OBVIOUS
<1>1. /\ trip[t].at = "ask" /\ Travels(trip[t]) /\ k \in Keys /\ trip[t].since \in Versions
      /\ Sent(k, trip[t].ent) /\ trip[t].ent \in Entry /\ trip[t] # Idle
  BY <1>k, TripAt, AtIsTravelling DEF Respond, Sent
<1>2. UNCHANGED <<cacheVars, originVars, answer, raced>>
  BY DEF Respond
<1>3. PICK r \in Responses(origin[k], trip[t].ent.etag) :
         Goto(t, [at |-> "store", key |-> k, since |-> trip[t].since,
                  ent |-> trip[t].ent, resp |-> r])
  BY <1>k DEF Respond
<1>4. PICK place : /\ Goto(t, place)
                   /\ place = [at |-> "store", key |-> k, since |-> trip[t].since,
                               ent |-> trip[t].ent, resp |-> r]
  BY <1>3
<1>5. /\ origin[k] \in Versions /\ origin[k] \in Nat \ {0} /\ answer[k] \in Nat
      /\ answer[k] <= origin[k] /\ trip[t].since \in Nat /\ trip[t].since <= origin[k]
  BY <1>k, <1>1, HTTPCacheAssumption DEF IInv, Contents, Versions, Bodies, Travels
<1>6. NotModified \notin Entry
  BY DEF NotModified, Entry
<1>7. /\ Travels(place)
      /\ r = NotModified => trip[t].ent.body = origin[k]
      /\ r # NotModified => r.body = 0 \/ r.body = origin[k]
  <2>1. CASE r = NotModified
    <3>1. trip[t].ent.etag = origin[k]
      BY <1>6, <2>1, <1>5 DEF Responses, Entry, Bodies
    <3>2. trip[t].ent.body = origin[k]
      BY <1>1, <1>5, <3>1 DEF Sent
    <3>3. place \in Trip
      BY <1>1, <1>4, <2>1 DEF Trip
    <3>4. Travels(place)
      BY <1>1, <1>4, <1>5, <2>1, <3>2, <3>3 DEF Travels
    <3> QED BY <2>1, <3>2, <3>4
  <2>2. CASE r # NotModified
    <3>1. r \in Entry /\ (r.body = 0 \/ r.body = origin[k]) /\ (r.etag # 0 => r.etag = r.body)
      BY <1>5, <2>2 DEF Responses, Entry, Bodies
    <3>2. Sent(k, r)
      BY <1>5, <3>1 DEF Sent
    <3>3. place \in Trip
      BY <1>1, <1>4, <3>1 DEF Trip
    <3>4. Travels(place)
      BY <1>1, <1>4, <1>5, <2>2, <3>1, <3>2, <3>3 DEF Travels
    <3> QED BY <2>2, <3>1, <3>4
  <2> QED BY <2>1, <2>2
<1>8. Listed' /\ Contents' /\ UNCHANGED Cached
  BY <1>2 DEF IInv, Listed, Contents, Cached, cacheVars, originVars, Sent
<1>9. Travelling' /\ trip'[t] = place /\ \A u \in Trips : u # t => trip'[u] = trip[u]
  BY <1>2, <1>4, <1>7, <1>8, GotoTravels DEF originVars
<1>10. ASSUME NEW j \in Keys \ raced' PROVE Alone(j)'
  <2>1. j \in Keys \ raced /\ Alone(j)
    BY <1>2 DEF IInv
  <2>2. CASE j # k
    <3>1. InFlight(j)' \subseteq InFlight(j) /\ \A u \in InFlight(j)' : trip'[u] = trip[u]
      BY <1>4, <1>9, <2>2, OthersFly
    <3> QED BY <1>2, <1>8, <2>1, <3>1, AloneStays DEF cacheVars
  <2>3. CASE j = k
    <3>1. t \in InFlight(k)
      BY <1>k, <1>1 DEF InFlight
    <3>2. InFlight(k)' \subseteq {t}
      BY <1>9, <2>1, <2>3, <3>1 DEF InFlight, Alone
    <3>3. k \in Cached => place.ent = entries[k] /\ entries[k].body = answer[k]
      BY <1>4, <2>1, <2>3, <3>1 DEF Alone
    <3>4. /\ place.resp = r
          /\ IF r = NotModified THEN place.ent.body >= answer[k]
                                ELSE r.body = 0 \/ r.body >= answer[k]
      BY <1>4, <1>5, <1>7
    <3> QED BY <1>2, <1>8, <1>9, <2>3, <3>2, <3>3, <3>4 DEF Alone, cacheVars
  <2> QED BY <2>2, <2>3
<1> QED BY <1>8, <1>9, <1>10 DEF IInv

LEMMA UnreachableKeepsIInv ==
    ASSUME IInv, NEW t \in Trips, Unreachable(t)
    PROVE  IInv'
<1>1. UNCHANGED <<cacheVars, originVars, answer, raced>> /\ Goto(t, Idle)
  BY DEF Unreachable
<1>2. Listed' /\ Contents' /\ UNCHANGED Cached
  BY <1>1 DEF IInv, Listed, Contents, Cached, cacheVars, originVars, Sent
<1>3. Travelling' /\ trip'[t] = Idle /\ \A u \in Trips : u # t => trip'[u] = trip[u]
  BY <1>1, <1>2, GotoTravels DEF originVars
<1>4. ASSUME NEW j \in Keys \ raced' PROVE Alone(j)'
  <2>1. j \in Keys /\ Alone(j)
    BY <1>1 DEF IInv
  <2>2. InFlight(j)' \subseteq InFlight(j) /\ \A u \in InFlight(j)' : trip'[u] = trip[u]
    BY <1>3, OthersFly
  <2> QED BY <1>1, <1>2, <2>1, <2>2, AloneStays DEF cacheVars
<1> QED BY <1>2, <1>3, <1>4 DEF IInv

\* What Store answers with was sent, and is what the cache has for the key, if anything.
LEMMA StoreStep ==
    ASSUME IInv, NEW t \in Trips, Store(t), NEW k, k = trip[t].key
    PROVE  /\ k \in Keys /\ trip[t] # Idle /\ Travels(trip[t]) /\ trip[t].at = "store"
           /\ Listed' /\ fresh' \subseteq Cached'
           /\ Goto(t, Idle) /\ UNCHANGED <<originVars, raced>>
           /\ \A j \in Cached' : j # k => j \in Cached /\ entries'[j] = entries[j]
           /\ trip[t].resp = NotModified =>
                 UNCHANGED entries /\ UNCHANGED Cached /\ Answer(k, trip[t].ent.body)
           /\ trip[t].resp # NotModified =>
                 entries'[k] = trip[t].resp /\ Answer(k, trip[t].resp.body)
<1>1. trip[t].at = "store" /\ trip[t] # Idle /\ Travels(trip[t]) /\ k \in Keys
  BY TripAt, AtIsTravelling DEF Store
<1>2. CASE trip[t].resp = NotModified
  <2>1. Touch(k) /\ Answer(k, trip[t].ent.body)
    BY <1>2 DEF Store, Validated
  <2>2. Listed' /\ UNCHANGED entries /\ fresh' \subseteq Cached
    BY <1>1, <2>1, TouchKeepsListed DEF IInv, Contents
  <2>3. UNCHANGED Cached
    BY <2>2 DEF Cached
  <2> QED BY <1>1, <1>2, <2>1, <2>2, <2>3 DEF Store
<1>3. CASE trip[t].resp # NotModified
  <2>1. Put(k, trip[t].resp) /\ Answer(k, trip[t].resp.body)
    BY <1>3 DEF Store
  <2>2. /\ Listed' /\ fresh' \subseteq Cached' /\ k \in Cached' /\ Cached' \subseteq Cached \cup {k}
        /\ entries'[k] = trip[t].resp /\ \A j \in Cached' : j # k => entries'[j] = entries[j]
    BY <1>1, <2>1, PutKeepsListed DEF IInv
  <2> QED BY <1>1, <1>3, <2>1, <2>2 DEF Store
<1> QED BY <1>2, <1>3

LEMMA StoreKeepsIInv ==
    ASSUME IInv, NEW t \in Trips, Store(t)
    PROVE  IInv'
<1>1. PICK k : k = trip[t].key
  OBVIOUS
<1>2. /\ k \in Keys /\ trip[t] # Idle /\ Travels(trip[t]) /\ trip[t].at = "store"
      /\ Listed' /\ fresh' \subseteq Cached'
      /\ Goto(t, Idle) /\ UNCHANGED <<originVars, raced>>
      /\ \A j \in Cached' : j # k => j \in Cached /\ entries'[j] = entries[j]
      /\ trip[t].resp = NotModified =>
            UNCHANGED entries /\ UNCHANGED Cached /\ Answer(k, trip[t].ent.body)
      /\ trip[t].resp # NotModified =>
            entries'[k] = trip[t].resp /\ Answer(k, trip[t].resp.body)
  BY <1>1, StoreStep
<1>3. PICK e : /\ Answer(k, e.body) /\ Sent(k, e) /\ e.body \in Bodies
               /\ trip[t].resp = NotModified => e = trip[t].ent
               /\ trip[t].resp # NotModified => e = trip[t].resp
  BY <1>1, <1>2 DEF Travels, Sent, Entry
<1>4. Contents'
  <2>1. \A j \in Cached' : j \in Keys /\ Sent(j, entries'[j])
    <3> TAKE j \in Cached'
    <3>1. CASE j # k
      BY <1>2, <3>1 DEF IInv, Contents
    <3>2. CASE j = k
      BY <1>2, <1>3, <3>2 DEF IInv, Contents
    <3> QED BY <3>1, <3>2
  <2>2. \A j \in Keys : answer'[j] \in Bodies /\ answer'[j] <= origin[j]
    BY <1>2, <1>3 DEF IInv, Contents, Answer, Sent
  <2> QED BY <1>2, <1>3, <2>1, <2>2 DEF IInv, Contents, Answer, originVars, Sent
<1>5. Travelling' /\ trip'[t] = Idle /\ \A u \in Trips : u # t => trip'[u] = trip[u]
  BY <1>2, <1>4, GotoTravels DEF originVars
<1>6. ASSUME NEW j \in Keys \ raced' PROVE Alone(j)'
  <2>1. j \in Keys /\ Alone(j)
    BY <1>2 DEF IInv
  <2>2. InFlight(j)' \subseteq InFlight(j) /\ t \notin InFlight(j)'
        /\ \A u \in InFlight(j)' : trip'[u] = trip[u]
    BY <1>5, OthersFly
  <2>3. CASE j # k
    <3>1. answer'[j] = answer[j]
      BY <1>3, <2>1, <2>3 DEF Answer, IInv, Contents
    <3> QED BY <1>2, <2>1, <2>2, <2>3, <3>1, AloneStays
  <2>4. CASE j = k
    <3>1. t \in InFlight(k)
      BY <1>1, <1>2 DEF InFlight
    <3>2. InFlight(k)' = {}
      BY <2>1, <2>2, <2>4, <3>1 DEF Alone
    <3>3. answer'[k] = e.body
      BY <1>2, <1>3 DEF Answer, IInv, Contents
    <3>4. k \in Cached' => entries'[k] = e
      BY <1>2, <1>3, <2>1, <2>4, <3>1 DEF Alone
    <3> QED BY <2>4, <3>2, <3>3, <3>4 DEF Alone
  <2> QED BY <2>3, <2>4
<1> QED BY <1>2, <1>4, <1>5, <1>6 DEF IInv

LEMMA OriginKeepsIInv ==
    ASSUME IInv, NEW k \in Keys, Expire(k) \/ Change(k)
    PROVE  IInv'
<1>1. UNCHANGED <<lru, entries, others, trip, answer, raced>> /\ fresh' \subseteq fresh
  BY DEF Expire, Change, cacheVars
<1>2. UNCHANGED Cached
  BY <1>1 DEF Cached
<1>3. Listed'
  BY <1>1, <1>2 DEF IInv, Listed
<1>4. \A j \in Keys : origin[j] <= origin'[j]
  BY HTTPCacheAssumption DEF IInv, Contents, Versions, Expire, Change, originVars
<1>5. origin' \in [Keys -> Versions] /\ changes' \in 0..MaxChanges
      /\ \A j \in Keys : origin'[j] <= changes' + 1
  <2>1. CASE Expire(k)
    BY <2>1 DEF IInv, Contents, Expire, originVars
  <2>2. CASE Change(k)
    <3>1. changes \in Nat /\ changes' = changes + 1 /\ changes' \in 0..MaxChanges
      BY <2>2, HTTPCacheAssumption DEF IInv, Contents, Change
    <3>2. \A j \in Keys : origin'[j] = IF j = k THEN origin[j] + 1 ELSE origin[j]
      BY <2>2 DEF IInv, Contents, Change
    <3>3. \A j \in Keys : origin'[j] \in Versions /\ origin'[j] <= changes' + 1
      BY <3>1, <3>2, HTTPCacheAssumption DEF IInv, Contents, Versions
    <3> QED BY <2>2, <3>1, <3>3 DEF IInv, Contents, Change
  <2> QED BY <2>1, <2>2
<1>6. Contents'
  <2>1. \A j \in Keys : origin[j] \in Nat /\ origin'[j] \in Nat
    BY <1>5, HTTPCacheAssumption DEF IInv, Contents, Versions
  <2>2. \A j \in Keys : \A e : Sent(j, e) => Sent(j, e)'
    <3> SUFFICES ASSUME NEW j \in Keys, NEW e, Sent(j, e) PROVE Sent(j, e)'
      OBVIOUS
    <3>1. e.body \in Nat
      BY HTTPCacheAssumption DEF Sent, Entry, Bodies, Versions
    <3> QED BY <1>4, <2>1, <3>1 DEF Sent
  <2>3. \A j \in Keys : answer[j] <= origin'[j]
    <3> TAKE j \in Keys
    <3>1. answer[j] \in Nat
      BY HTTPCacheAssumption DEF IInv, Contents, Bodies, Versions
    <3> QED BY <1>4, <2>1, <3>1 DEF IInv, Contents
  <2>4. \A j \in Cached' : Sent(j, entries[j])'
    BY <1>1, <1>2, <2>2 DEF IInv, Contents
  <2> QED BY <1>1, <1>2, <1>5, <2>3, <2>4 DEF IInv, Contents
<1>7. Travelling'
  BY <1>1, <1>4, <1>6, TravellingStays
<1>8. ASSUME NEW j \in Keys \ raced' PROVE Alone(j)'
  BY <1>1, <1>2, <1>8, AloneStays DEF IInv, InFlight
<1> QED BY <1>3, <1>6, <1>7, <1>8 DEF IInv

LEMMA NextKeepsIInv == IInv /\ [Next]_vars => IInv'
<1> SUFFICES ASSUME IInv, [Next]_vars PROVE IInv'
  OBVIOUS
<1>1. ASSUME NEW t \in Trips, NEW k \in Keys, Begin(t, k) PROVE IInv'
  BY <1>1, BeginKeepsIInv
<1>2. ASSUME NEW t \in Trips, Respond(t) \/ Unreachable(t) \/ Store(t) PROVE IInv'
  BY <1>2, RespondKeepsIInv, UnreachableKeepsIInv, StoreKeepsIInv
<1>3. ASSUME NEW k \in Keys, Expire(k) \/ Change(k) PROVE IInv'
  BY <1>3, OriginKeepsIInv
<1>4. CASE UNCHANGED vars
  <2>1. UNCHANGED <<lru, entries, fresh, others, origin, changes, trip, answer, raced>>
    BY <1>4 DEF vars, cacheVars, originVars
  <2>2. UNCHANGED Cached /\ \A k : UNCHANGED InFlight(k)
    BY <2>1 DEF Cached, InFlight
  <2>3. Listed' /\ Contents'
    BY <2>1, <2>2 DEF IInv, Listed, Contents, Sent
  <2>4. Travelling'
    BY <2>1, <2>3, TravellingStays, HTTPCacheAssumption DEF IInv, Contents, Versions
  <2>5. \A k \in Keys \ raced' : Alone(k)'
    BY <2>1, <2>2 DEF IInv, Alone
  <2> QED BY <2>3, <2>4, <2>5 DEF IInv
<1> QED BY <1>1, <1>2, <1>3, <1>4 DEF Next

LEMMA Invariance == Spec => []IInv
BY InitIInv, NextKeepsIInv, PTL DEF Spec

-----------------------------------------------------------------------------
(* Theorems                                                                *)

\* The cache is well typed for any keys, round trips and bounds: whatever Get, Put and
\* Touch interleave to, a key is fresh only while it has an entry, and the contents
\* answered and cached are ones the origin has had.
THEOREM TypeCorrect == Spec => []TypeOK
<1>1. IInv => TypeOK
  <2> SUFFICES ASSUME IInv PROVE TypeOK
    OBVIOUS
  <2>1. \A t \in Trips : trip[t] \in Trip \cup {Idle}
    BY DEF IInv, Travelling, Travels
  <2>2. trip \in [Trips -> Trip \cup {Idle}]
    BY <2>1 DEF IInv, Travelling
  <2> QED BY <2>2 DEF IInv, Listed, Contents, Sent, TypeOK
<1> QED BY <1>1, Invariance, PTL

\* For any size of the cache, MoveToFront, PushFront and the loop that drops the back
\* together keep exactly the keys used last, each once in the list and in the map.
THEOREM EvictsLeastRecentlyUsed == Spec => []LeastRecentlyUsed
<1>1. IInv => LeastRecentlyUsed
  <2> SUFFICES ASSUME Listed PROVE LeastRecentlyUsed
    BY DEF IInv
  <2>1. DOMAIN lru = 1..Len(lru) /\ Len(lru) \in 0..MaxEntries /\ MaxEntries \in Nat
    BY LenProperties, HTTPCacheAssumption DEF Listed
  <2>2. ASSUME NEW n \in 1..Len(lru)
        PROVE  lru[n] \notin others[lru[n]] /\ Cardinality(others[lru[n]]) < MaxEntries
    <3>1. others[lru[n]] = {lru[m] : m \in 1..(n - 1)} /\ n - 1 \in 0..Len(lru)
      BY <2>1 DEF Listed, InOrder
    <3>2. Cardinality(others[lru[n]]) = n - 1
      BY <3>1, CountOfPrefix DEF Listed
    <3>3. ASSUME NEW m \in 1..(n - 1) PROVE lru[m] # lru[n]
      BY <2>1, <3>3 DEF Listed, Distinct
    <3> QED BY <2>1, <3>1, <3>2, <3>3
  <2>3. ASSUME NEW k \in Keys \ Cached
        PROVE  ~(k \notin others[k] /\ Cardinality(others[k]) < MaxEntries)
    <3>1. Cardinality(others[k]) \in Nat
      BY HTTPCacheAssumption, FS_Subset, FS_CardinalityType DEF Listed
    <3> QED BY <2>1, <3>1 DEF Listed, Gone
  <2>4. \A k \in Keys : k \in Cached <=> k \notin others[k] /\ Cardinality(others[k]) < MaxEntries
    BY <2>1, <2>2, <2>3 DEF Listed, Elements
  <2>5. Cached = {lru[n] : n \in 1..Len(lru)} /\ Cardinality(Cached) = Len(lru)
    <3>1. Cached = {lru[n] : n \in 1..Len(lru)} /\ Len(lru) \in 0..Len(lru)
      BY <2>1 DEF Listed, Elements
    <3> QED BY <3>1, CountOfPrefix DEF Listed
  <2> QED BY <2>1, <2>4, <2>5 DEF LeastRecentlyUsed
<1> QED BY <1>1, Invariance, PTL

\* However many round trips of a key store, revalidate and replace its entry, its ETag is
\* the one its body came with, so that If-None-Match asks about the very body a 304 is
\* answered with.
THEOREM ETagsMatch == Spec => []ETagMatchesBody
<1>1. IInv => ETagMatchesBody
  BY DEF IInv, Contents, Sent, ETagMatchesBody
<1> QED BY <1>1, Invariance, PTL

\* An answer got from the origin, by a 304 or in full, was its content at some moment of
\* the round trip, although Touch and Put may meet an entry that is not the one found.
THEOREM AnswersAreCurrent == Spec => AnswerWasCurrent
<1> DEFINE Current(t) == Store(t) => \/ trip[t].resp # NotModified /\ trip[t].resp.body = 0
                                     \/ answer'[trip[t].key] \in trip[t].since..origin[trip[t].key]
<1>1. ASSUME IInv, NEW t \in Trips PROVE Current(t)
  <2> SUFFICES ASSUME Store(t) PROVE \/ trip[t].resp # NotModified /\ trip[t].resp.body = 0
                                     \/ answer'[trip[t].key] \in trip[t].since..origin[trip[t].key]
    OBVIOUS
  <2>1. PICK k : k = trip[t].key
    OBVIOUS
  <2>2. /\ k \in Keys /\ Travels(trip[t]) /\ trip[t].at = "store" /\ trip[t].since \in Nat
        /\ trip[t].resp = NotModified => Answer(k, trip[t].ent.body)
        /\ trip[t].resp # NotModified => Answer(k, trip[t].resp.body)
    BY <1>1, <2>1, StoreStep, HTTPCacheAssumption DEF Travels, Trip, Versions
  <2>3. CASE trip[t].resp = NotModified
    <3>1. answer'[k] = trip[t].ent.body
      BY <1>1, <2>2, <2>3 DEF Answer, IInv, Contents
    <3> QED BY <2>1, <2>2, <2>3, <3>1 DEF Travels
  <2>4. CASE trip[t].resp # NotModified /\ trip[t].resp.body # 0
    <3>1. answer'[k] = trip[t].resp.body
      BY <1>1, <2>2, <2>4 DEF Answer, IInv, Contents
    <3>2. trip[t].resp.body \in Nat /\ origin[k] \in Nat
      BY <1>1, <2>2, <2>4, HTTPCacheAssumption
         DEF Travels, Sent, Entry, Bodies, Versions, IInv, Contents
    <3> QED BY <2>1, <2>2, <2>4, <3>1, <3>2 DEF Travels, Sent
  <2> QED BY <2>3, <2>4
<1>2. IInv /\ [Next]_vars => \A t \in Trips : Current(t)
  BY <1>1
<1> QED BY <1>2, Invariance, PTL DEF Spec, AnswerWasCurrent

\* Where no two round trips of a key ever overlap, nobody is answered with older content
\* than before, by a cached entry, a revalidated or a new one.
THEOREM AnswersNeverGoBack == Spec => NeverGoesBack
<1> DEFINE Forward(k) == k \notin raced' /\ answer'[k] # 0 => answer'[k] >= answer[k]
<1>1. ASSUME IInv, [Next]_vars, NEW k \in Keys PROVE Forward(k)
  <2> SUFFICES ASSUME k \notin raced', answer'[k] # 0, answer'[k] # answer[k]
               PROVE  answer'[k] >= answer[k]
    <3>1. answer[k] \in Nat
      BY <1>1, HTTPCacheAssumption DEF IInv, Contents, Bodies, Versions
    <3> QED BY <3>1
  <2>1. k \notin raced
    BY <1>1 DEF Next, Begin, Respond, Unreachable, Store, Expire, Change, vars
  <2>2. Alone(k)
    BY <1>1, <2>1 DEF IInv
  <2>3. \/ \E t \in Trips, j \in Keys : Begin(t, j)
        \/ \E t \in Trips : Store(t)
    BY <1>1 DEF Next, Respond, Unreachable, Expire, Change, vars
  <2>4. ASSUME NEW t \in Trips, NEW j \in Keys, Begin(t, j) PROVE FALSE
    <3>1. j \in fresh /\ Answer(j, entries[j].body)
      BY <2>4 DEF Begin
    <3>2. j = k /\ answer'[k] = entries[k].body
      BY <1>1, <3>1 DEF Answer, IInv, Contents
    <3> QED BY <1>1, <2>2, <3>1, <3>2 DEF Alone, IInv, Contents
  <2>5. ASSUME NEW t \in Trips, Store(t) PROVE answer'[k] >= answer[k]
    <3>1. PICK j : j = trip[t].key
      OBVIOUS
    <3>2. /\ j \in Keys /\ trip[t] # Idle /\ trip[t].at = "store"
          /\ trip[t].resp = NotModified => Answer(j, trip[t].ent.body)
          /\ trip[t].resp # NotModified => Answer(j, trip[t].resp.body)
      BY <1>1, <2>5, <3>1, StoreStep
    <3>3. j = k
      BY <1>1, <3>2 DEF Answer, IInv, Contents
    <3>4. t \in InFlight(k)
      BY <3>1, <3>2, <3>3 DEF InFlight
    <3>5. IF trip[t].resp = NotModified THEN answer'[k] = trip[t].ent.body
                                        ELSE answer'[k] = trip[t].resp.body
      BY <1>1, <3>2, <3>3 DEF Answer, IInv, Contents
    <3> QED BY <2>2, <3>2, <3>4, <3>5 DEF Alone
  <2> QED BY <2>3, <2>4, <2>5
<1>2. IInv /\ [Next]_vars => \A k \in Keys : Forward(k)
  BY <1>1
<1> QED BY <1>2, Invariance, PTL DEF Spec, NeverGoesBack
=============================================================================
