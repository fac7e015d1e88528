------------------------- MODULE FetchOutcomeProofs -------------------------
(***************************************************************************)
(* Proofs about FetchTools, for any services, calls and page sizes: what   *)
(* the reply of a handler may be taken for.                                *)
(*                                                                         *)
(* Typed   the state, and every answer, has its type: AnswersTyped         *)
(* Shows   a reply after a refused answer says so: FailuresShow            *)
(* Carried every answer is one the services may have given, a garbled one  *)
(*         is on record, and the answers held are those of the requests    *)
(*         the handler sent, in its order: SilenceIsTheEnd, CompleteIsAll, *)
(*         ExportsAccount                                                  *)
(*                                                                         *)
(* Each invariant contains the one above it.  The lemmas go handler by     *)
(* handler; those on Picked and Total, the recursive functions that        *)
(* collect and count answers, come first.                                  *)
(***************************************************************************)
EXTENDS FetchToolsProofs, FiniteSetTheorems, WellFoundedInduction

-----------------------------------------------------------------------------
(* Going through a sequence                                                *)

LEMMA LeastOf ==
    ASSUME NEW S, S \subseteq Nat, S # {}
    PROVE  \E x \in S : \A y \in S : x <= y
<1>1. IsWellFoundedOn(OpToRel(<, Nat), Nat)
  BY NatLessThanWellFounded
<1>2. PICK x \in S : \A y \in S : ~ (<<y, x>> \in OpToRel(<, Nat))
  BY <1>1, WFMin
<1>3. ASSUME NEW y \in S
      PROVE  x <= y
  <2>1. x \in Nat /\ y \in Nat
    OBVIOUS
  <2>2. ~ (<<y, x>> \in OpToRel(<, Nat))
    BY <1>2
  <2>3. ~ (y < x)
    BY <2>1, <2>2 DEF OpToRel
  <2> QED BY <2>1, <2>3
<1> QED BY <1>3

\* f is how Picked, or Total, goes through the first m answers.
Picking(f, m, s, ks) ==
    f = [n \in 0..m |-> IF n = 0 THEN <<>>
                        ELSE IF n \in ks THEN Append(f[n - 1], s[n]) ELSE f[n - 1]]
Adding(f, m, s) == f = [n \in 0..m |-> IF n = 0 THEN 0 ELSE f[n - 1] + s[n].n]

LEMMA PickingAt ==
    ASSUME NEW m \in Nat, NEW s, NEW ks, NEW f, Picking(f, m, s, ks)
    PROVE  /\ f[0] = <<>>
           /\ \A n \in 1..m : f[n] = IF n \in ks THEN Append(f[n - 1], s[n]) ELSE f[n - 1]
<1>1. 0 \in 0..m /\ \A n \in 1..m : n \in 0..m /\ n # 0
  OBVIOUS
<1> QED BY <1>1 DEF Picking

LEMMA PickingExists ==
    ASSUME NEW s, NEW ks, NEW m \in Nat
    PROVE  \E f : Picking(f, m, s, ks)
<1> DEFINE Bad == {n \in Nat : ~\E f : Picking(f, n, s, ks)}
<1>1. SUFFICES ASSUME Bad # {} PROVE FALSE
  OBVIOUS
<1>2. PICK n \in Bad : \A j \in Bad : n <= j
  <2> Bad \subseteq Nat
    OBVIOUS
  <2> HIDE DEF Bad
  <2> QED BY <1>1, LeastOf
<1>3. CASE n = 0
  <2> DEFINE f == [j \in 0..0 |-> <<>>]
  <2>1. Picking(f, 0, s, ks)
    BY DEF Picking
  <2> QED BY <1>3, <2>1
<1>4. CASE n # 0
  <2>1. n \in Nat /\ n - 1 \in Nat /\ n - 1 \notin Bad
    BY <1>2, <1>4
  <2>2. PICK g : Picking(g, n - 1, s, ks)
    BY <2>1
  <2> DEFINE last == IF n \in ks THEN Append(g[n - 1], s[n]) ELSE g[n - 1]
             f    == [j \in 0..n |-> IF j = n THEN last ELSE g[j]]
  <2>3. ASSUME NEW j \in 0..n
        PROVE  f[j] = IF j = 0 THEN <<>>
                      ELSE IF j \in ks THEN Append(f[j - 1], s[j]) ELSE f[j - 1]
    <3>1. CASE j = n
      <4>1. f[n - 1] = g[n - 1] /\ f[n] = last
        BY <2>1
      <4> QED BY <1>4, <3>1, <4>1
    <3>2. CASE j = 0
      <4>1. f[0] = g[0]
        BY <1>4, <2>1
      <4> QED BY <2>1, <2>2, <3>2, <4>1, PickingAt
    <3>3. CASE j \in 1..(n - 1)
      <4>1. f[j] = g[j] /\ f[j - 1] = g[j - 1]
        BY <2>1, <3>3
      <4> QED BY <2>1, <2>2, <3>3, <4>1, PickingAt
    <3> QED BY <2>1, <3>1, <3>2, <3>3
  <2>4. Picking(f, n, s, ks)
    BY <2>3 DEF Picking
  <2> QED BY <2>4
<1> QED BY <1>3, <1>4

LEMMA PickingSame ==
    ASSUME NEW m \in Nat, NEW s, NEW ks, NEW f, Picking(f, m, s, ks),
           NEW l \in Nat, m <= l, NEW r, NEW js, NEW g, Picking(g, l, r, js),
           \A n \in 1..m : r[n] = s[n] /\ (n \in js <=> n \in ks)
    PROVE  g[m] = f[m]
<1> DEFINE Bad == {n \in 0..m : g[n] # f[n]}
<1>1. SUFFICES ASSUME Bad # {} PROVE FALSE
  OBVIOUS
<1>2. PICK n \in Bad : \A j \in Bad : n <= j
  <2> Bad \subseteq Nat
    OBVIOUS
  <2> HIDE DEF Bad
  <2> QED BY <1>1, LeastOf
<1>3. f[0] = <<>> /\ g[0] = <<>>
  BY PickingAt
<1>4. n \in 1..m /\ n \in 1..l /\ n - 1 \in 0..m /\ n - 1 \notin Bad
  BY <1>2, <1>3
<1>5. g[n - 1] = f[n - 1]
  BY <1>4
<1>6. f[n] = IF n \in ks THEN Append(f[n - 1], s[n]) ELSE f[n - 1]
  BY <1>4, PickingAt
<1>7. g[n] = IF n \in js THEN Append(g[n - 1], r[n]) ELSE g[n - 1]
  BY <1>4, PickingAt
<1> QED BY <1>2, <1>4, <1>5, <1>6, <1>7

LEMMA PickedIs ==
    ASSUME NEW s, NEW ks, Len(s) \in Nat
    PROVE  \E f : Picking(f, Len(s), s, ks) /\ Picked(s, ks) = f[Len(s)]
<1>1. \E f : Picking(f, Len(s), s, ks)
  BY PickingExists
<1> QED BY <1>1 DEF Picking, Picked

\* The answers picked from a sequence with one more are those picked before, and the new
\* one when it is wanted.
LEMMA PickedNext ==
    ASSUME NEW S, NEW s \in Seq(S), NEW e, NEW ks, NEW js,
           \A k \in 1..Len(s) : k \in js <=> k \in ks
    PROVE  Picked(Append(s, e), js) =
               IF Len(s) + 1 \in js THEN Append(Picked(s, ks), e) ELSE Picked(s, ks)
<1>1. PICK r : r = Append(s, e)
  OBVIOUS
<1>2. /\ Len(s) \in Nat /\ Len(r) = Len(s) + 1 /\ r[Len(s) + 1] = e
      /\ \A k \in 1..Len(s) : r[k] = s[k]
  BY <1>1, OwnElements
<1>3. PICK f : Picking(f, Len(s), s, ks) /\ Picked(s, ks) = f[Len(s)]
  BY <1>2, PickedIs
<1>4. PICK g : Picking(g, Len(r), r, js) /\ Picked(r, js) = g[Len(r)]
  BY <1>2, PickedIs
<1>5. g[Len(s)] = f[Len(s)]
  BY <1>2, <1>3, <1>4, PickingSame
<1>6. g[Len(s) + 1] = IF Len(s) + 1 \in js THEN Append(g[Len(s)], r[Len(s) + 1]) ELSE g[Len(s)]
  <2>1. Len(s) + 1 \in 1..Len(r) /\ Len(r) \in Nat /\ (Len(s) + 1) - 1 = Len(s)
    BY <1>2
  <2>2. g[Len(s) + 1] = IF Len(s) + 1 \in js THEN Append(g[(Len(s) + 1) - 1], r[Len(s) + 1])
                        ELSE g[(Len(s) + 1) - 1]
    BY <1>4, <2>1, PickingAt
  <2> QED BY <2>1, <2>2
<1> QED BY <1>1, <1>2, <1>3, <1>4, <1>5, <1>6

LEMMA PickedNone ==
    ASSUME NEW ks
    PROVE  Picked(<<>>, ks) = <<>>
<1>1. Len(<<>>) = 0
  OBVIOUS
<1>2. PICK s : s = <<>>
  OBVIOUS
<1>3. PICK f : Picking(f, Len(s), s, ks) /\ Picked(s, ks) = f[Len(s)]
  BY <1>1, <1>2, PickedIs
<1> QED BY <1>1, <1>2, <1>3, PickingAt

\* What is in a sequence.
Elements(s) == {s[k] : k \in DOMAIN s}

LEMMA AppendElements ==
    ASSUME NEW S, NEW s \in Seq(S), NEW e
    PROVE  Elements(Append(s, e)) = Elements(s) \cup {e}
<1>1. PICK r : r = Append(s, e)
  OBVIOUS
<1>2. /\ Len(s) \in Nat /\ DOMAIN s = 1..Len(s) /\ DOMAIN r = 1..(Len(s) + 1)
      /\ r[Len(s) + 1] = e /\ \A k \in 1..Len(s) : r[k] = s[k]
  BY <1>1
<1>3. ASSUME NEW k \in DOMAIN r
      PROVE  r[k] \in Elements(s) \cup {e}
  <2>1. k \in 1..Len(s) \/ k = Len(s) + 1
    BY <1>2
  <2> QED BY <1>2, <2>1 DEF Elements
<1>4. ASSUME NEW k \in DOMAIN s
      PROVE  s[k] \in Elements(r)
  <2>1. k \in DOMAIN r /\ r[k] = s[k]
    BY <1>2
  <2> QED BY <2>1 DEF Elements
<1>5. e \in Elements(r)
  <2>1. Len(s) + 1 \in DOMAIN r
    BY <1>2
  <2> QED BY <1>2, <2>1 DEF Elements
<1> QED BY <1>1, <1>3, <1>4, <1>5 DEF Elements

LEMMA PickedElements ==
    ASSUME NEW S, NEW s \in Seq(S), NEW ks
    PROVE  /\ Picked(s, ks) \in Seq(S)
           /\ Elements(Picked(s, ks)) = {s[k] : k \in DOMAIN s \cap ks}
<1> DEFINE upto(n) == {s[k] : k \in (1..n) \cap ks}
<1>1. Len(s) \in Nat /\ DOMAIN s = 1..Len(s)
  OBVIOUS
<1>2. PICK f : Picking(f, Len(s), s, ks) /\ Picked(s, ks) = f[Len(s)]
  BY <1>1, PickedIs
<1> DEFINE Bad == {n \in 0..Len(s) : ~(f[n] \in Seq(S) /\ Elements(f[n]) = upto(n))}
<1>3. Bad = {}
  <2>1. SUFFICES ASSUME Bad # {} PROVE FALSE
    OBVIOUS
  <2>2. PICK n \in Bad : \A j \in Bad : n <= j
    <3>1. Bad \subseteq Nat
      BY <1>1
    <3> HIDE DEF Bad
    <3> QED BY <2>1, <3>1, LeastOf
  <2>3. CASE n = 0
    <3>1. f[0] = <<>>
      BY <1>1, <1>2, PickingAt
    <3>2. f[0] \in Seq(S) /\ Elements(f[0]) = {} /\ upto(0) = {}
      BY <3>1 DEF Elements
    <3> QED BY <2>2, <2>3, <3>2
  <2>4. CASE n # 0
    <3>1. n \in 1..Len(s) /\ n - 1 \in 0..Len(s) /\ n - 1 \notin Bad
      <4>1. n \in 0..Len(s) /\ (n - 1 \in Bad => n <= n - 1)
        BY <2>2
      <4> HIDE DEF Bad
      <4> QED BY <1>1, <2>4, <4>1
    <3>2. f[n - 1] \in Seq(S) /\ Elements(f[n - 1]) = upto(n - 1) /\ s[n] \in S
      BY <1>1, <3>1
    <3>3. f[n] = IF n \in ks THEN Append(f[n - 1], s[n]) ELSE f[n - 1]
      BY <1>1, <1>2, <3>1, PickingAt
    <3>4. (1..n) = (1..(n - 1)) \cup {n}
      BY <3>1
    <3>5. upto(n) = IF n \in ks THEN upto(n - 1) \cup {s[n]} ELSE upto(n - 1)
      BY <3>4
    <3> HIDE DEF upto
    <3>6. f[n] \in Seq(S) /\ Elements(f[n]) = upto(n)
      <4>1. PICK g, e : g = f[n - 1] /\ e = s[n]
        OBVIOUS
      <4>2. Append(g, e) \in Seq(S) /\ Elements(Append(g, e)) = Elements(g) \cup {e}
        BY <3>2, <4>1, AppendElements
      <4> QED BY <3>2, <3>3, <3>5, <4>1, <4>2
    <3> QED BY <2>2, <3>6
  <2> QED BY <2>3, <2>4
<1>4. Len(s) \notin Bad
  BY <1>3
<1>5. f[Len(s)] \in Seq(S) /\ Elements(f[Len(s)]) = upto(Len(s))
  BY <1>1, <1>4
<1> QED BY <1>1, <1>2, <1>5

LEMMA OfNone ==
    ASSUME NEW what
    PROVE  Of(<<>>, what) = <<>>
BY PickedNone DEF Of

LEMMA OfNext ==
    ASSUME NEW S, NEW s \in Seq(S), NEW e, NEW what
    PROVE  Of(Append(s, e), what) =
               IF e.what = what THEN Append(Of(s, what), e) ELSE Of(s, what)
<1>1. PICK r : r = Append(s, e)
  OBVIOUS
<1>2. /\ Len(s) \in Nat /\ DOMAIN s = 1..Len(s) /\ DOMAIN r = 1..(Len(s) + 1)
      /\ r[Len(s) + 1] = e /\ \A k \in 1..Len(s) : r[k] = s[k]
  BY <1>1
<1> DEFINE ks == {k \in DOMAIN s : s[k].what = what}
           js == {k \in DOMAIN r : r[k].what = what}
<1>3. /\ \A k \in 1..Len(s) : k \in js <=> k \in ks
      /\ Len(s) + 1 \in js <=> e.what = what
  BY <1>2
<1> HIDE DEF ks, js
<1>4. Picked(r, js) = IF Len(s) + 1 \in js THEN Append(Picked(s, ks), e) ELSE Picked(s, ks)
  BY <1>1, <1>3, PickedNext
<1> QED BY <1>1, <1>3, <1>4 DEF Of, ks, js

LEMMA OfElements ==
    ASSUME NEW S, NEW s \in Seq(S), NEW what
    PROVE  /\ Of(s, what) \in Seq(S)
           /\ Elements(Of(s, what)) = {v \in Elements(s) : v.what = what}
<1> DEFINE ks == {k \in DOMAIN s : s[k].what = what}
<1>1. /\ Picked(s, ks) \in Seq(S)
      /\ Elements(Picked(s, ks)) = {s[k] : k \in DOMAIN s \cap ks}
  BY PickedElements
<1>2. {s[k] : k \in DOMAIN s \cap ks} = {v \in Elements(s) : v.what = what}
  BY DEF Elements
<1> QED BY <1>1, <1>2 DEF Of

LEMMA AddingAt ==
    ASSUME NEW m \in Nat, NEW s, NEW f, Adding(f, m, s)
    PROVE  f[0] = 0 /\ \A n \in 1..m : f[n] = f[n - 1] + s[n].n
<1>1. 0 \in 0..m /\ \A n \in 1..m : n \in 0..m /\ n # 0
  OBVIOUS
<1> QED BY <1>1 DEF Adding

LEMMA AddingExists ==
    ASSUME NEW s, NEW m \in Nat
    PROVE  \E f : Adding(f, m, s)
<1> DEFINE Bad == {n \in Nat : ~\E f : Adding(f, n, s)}
<1>1. SUFFICES ASSUME Bad # {} PROVE FALSE
  OBVIOUS
<1>2. PICK n \in Bad : \A j \in Bad : n <= j
  <2> Bad \subseteq Nat
    OBVIOUS
  <2> HIDE DEF Bad
  <2> QED BY <1>1, LeastOf
<1>3. CASE n = 0
  <2> DEFINE f == [j \in 0..0 |-> 0]
  <2>1. Adding(f, 0, s)
    BY DEF Adding
  <2> QED BY <1>3, <2>1
<1>4. CASE n # 0
  <2>1. n \in Nat /\ n - 1 \in Nat /\ n - 1 \notin Bad
    BY <1>2, <1>4
  <2>2. PICK g : Adding(g, n - 1, s)
    BY <2>1
  <2> DEFINE f == [j \in 0..n |-> IF j = n THEN g[n - 1] + s[n].n ELSE g[j]]
  <2>3. ASSUME NEW j \in 0..n
        PROVE  f[j] = IF j = 0 THEN 0 ELSE f[j - 1] + s[j].n
    <3>1. CASE j = n
      <4>1. f[n - 1] = g[n - 1] /\ f[n] = g[n - 1] + s[n].n
        BY <2>1
      <4> QED BY <1>4, <3>1, <4>1
    <3>2. CASE j = 0
      <4>1. f[0] = g[0]
        BY <1>4, <2>1
      <4> QED BY <2>1, <2>2, <3>2, <4>1, AddingAt
    <3>3. CASE j \in 1..(n - 1)
      <4>1. f[j] = g[j] /\ f[j - 1] = g[j - 1]
        BY <2>1, <3>3
      <4> QED BY <2>1, <2>2, <3>3, <4>1, AddingAt
    <3> QED BY <2>1, <3>1, <3>2, <3>3
  <2>4. Adding(f, n, s)
    BY <2>3 DEF Adding
  <2> QED BY <2>4
<1> QED BY <1>3, <1>4

LEMMA AddingSame ==
    ASSUME NEW m \in Nat, NEW s, NEW f, Adding(f, m, s),
           NEW l \in Nat, m <= l, NEW r, NEW g, Adding(g, l, r),
           \A n \in 1..m : r[n] = s[n]
    PROVE  g[m] = f[m]
<1> DEFINE Bad == {n \in 0..m : g[n] # f[n]}
<1>1. SUFFICES ASSUME Bad # {} PROVE FALSE
  OBVIOUS
<1>2. PICK n \in Bad : \A j \in Bad : n <= j
  <2> Bad \subseteq Nat
    OBVIOUS
  <2> HIDE DEF Bad
  <2> QED BY <1>1, LeastOf
<1>3. f[0] = 0 /\ g[0] = 0
  BY AddingAt
<1>4. n \in 1..m /\ n \in 1..l /\ n - 1 \in 0..m /\ n - 1 \notin Bad
  BY <1>2, <1>3
<1>5. g[n - 1] = f[n - 1]
  BY <1>4
<1>6. f[n] = f[n - 1] + s[n].n /\ g[n] = g[n - 1] + r[n].n
  BY <1>4, AddingAt
<1> QED BY <1>2, <1>4, <1>5, <1>6

LEMMA TotalIs ==
    ASSUME NEW s, Len(s) \in Nat
    PROVE  \E f : Adding(f, Len(s), s) /\ Total(s) = f[Len(s)]
<1>1. \E f : Adding(f, Len(s), s)
  BY AddingExists
<1> QED BY <1>1 DEF Adding, Total

LEMMA TotalNone == Total(<<>>) = 0
<1>1. Len(<<>>) = 0
  OBVIOUS
<1>2. PICK s : s = <<>>
  OBVIOUS
<1>3. PICK f : Adding(f, Len(s), s) /\ Total(s) = f[Len(s)]
  BY <1>1, <1>2, TotalIs
<1> QED BY <1>1, <1>2, <1>3, AddingAt

LEMMA TotalNext ==
    ASSUME NEW S, NEW s \in Seq(S), NEW e
    PROVE  Total(Append(s, e)) = Total(s) + e.n
<1>1. PICK r : r = Append(s, e)
  OBVIOUS
<1>2. /\ Len(s) \in Nat /\ Len(r) = Len(s) + 1 /\ r[Len(s) + 1] = e
      /\ \A k \in 1..Len(s) : r[k] = s[k]
  BY <1>1, OwnElements
<1>3. PICK f : Adding(f, Len(s), s) /\ Total(s) = f[Len(s)]
  BY <1>2, TotalIs
<1>4. PICK g : Adding(g, Len(r), r) /\ Total(r) = g[Len(r)]
  BY <1>2, TotalIs
<1>5. g[Len(s)] = f[Len(s)]
  BY <1>2, <1>3, <1>4, AddingSame
<1>6. g[Len(s) + 1] = g[Len(s)] + e.n
  <2>1. Len(s) + 1 \in 1..Len(r) /\ Len(r) \in Nat /\ (Len(s) + 1) - 1 = Len(s)
    BY <1>2
  <2>2. g[Len(s) + 1] = g[(Len(s) + 1) - 1] + r[Len(s) + 1].n
    BY <1>4, <2>1, AddingAt
  <2> QED BY <1>2, <2>1, <2>2
<1> QED BY <1>1, <1>2, <1>3, <1>4, <1>5, <1>6

LEMMA TotalType ==
    ASSUME NEW S, NEW s \in Seq(S), \A v \in Elements(s) : v.n \in Nat
    PROVE  Total(s) \in Nat
<1>1. Len(s) \in Nat /\ \A k \in 1..Len(s) : s[k].n \in Nat
  BY DEF Elements
<1>2. PICK f : Adding(f, Len(s), s) /\ Total(s) = f[Len(s)]
  BY <1>1, TotalIs
<1> DEFINE Bad == {n \in 0..Len(s) : f[n] \notin Nat}
<1>3. Bad = {}
  <2>1. SUFFICES ASSUME Bad # {} PROVE FALSE
    OBVIOUS
  <2>2. PICK n \in Bad : \A j \in Bad : n <= j
    <3>1. Bad \subseteq Nat
      BY <1>1
    <3> HIDE DEF Bad
    <3> QED BY <2>1, <3>1, LeastOf
  <2>3. f[0] = 0 /\ \A j \in 1..Len(s) : f[j] = f[j - 1] + s[j].n
    BY <1>1, <1>2, AddingAt
  <2>4. n \in 1..Len(s) /\ n - 1 \in 0..Len(s) /\ n - 1 \notin Bad /\ f[n] \notin Nat
    BY <1>1, <2>2, <2>3
  <2>5. f[n - 1] \in Nat /\ f[n] = f[n - 1] + s[n].n /\ s[n].n \in Nat
    BY <1>1, <2>3, <2>4
  <2> QED BY <2>4, <2>5
<1>4. Len(s) \notin Bad
  BY <1>3
<1> QED BY <1>1, <1>2, <1>4

-----------------------------------------------------------------------------
(* Typed answers and moves                                                 *)

GoodAnswer(v) ==
    /\ v.v \in {"refused", "garbled", "whole"} /\ v.more \in BOOLEAN
    /\ v.n \in Nat /\ v.lo \in Nat /\ v.to \in Nat /\ v.size \in Nat
    /\ v.total \in Nat /\ v.kept \in Nat

GoodAnswers(got) == got \in Seq(Elements(got)) /\ \A v \in Elements(got) : GoodAnswer(v)

\* Only the two tools that fetch to a file reply that something is complete.
GoodReply(r) ==
    /\ DOMAIN r = DOMAIN Plain /\ r.n \in Nat /\ r.complete = FALSE
    /\ r.window # <<>> => r.window[1] \in Nat /\ r.window[2] \in Nat
    /\ r.hasNext \in BOOLEAN /\ (r.hasNext => r.next.at \in Nat)

GoodMove(move) ==
    /\ move.do \in {"ask", "give", "fail"}
    /\ move.do = "ask" => /\ move.lo \in Nat /\ move.size \in Nat
                          /\ move.client \in {"github", "jira", "confluence", "grafana", "disk"}
    /\ move.do = "give" => GoodReply(move.reply)

\* A good move, but for that flag.
Completing(move) ==
    /\ move.do # "give" => GoodMove(move)
    /\ move.do = "give" => /\ DOMAIN move.reply = DOMAIN Plain
                           /\ GoodReply([move.reply EXCEPT !.complete = FALSE])

LEMMA GoodView ==
    ASSUME w \in Worlds, NEW request, NEW answer, GoodMove(request), request.do = "ask"
    PROVE  /\ GoodAnswer(View(request, answer))
           /\ View(request, answer).what = request.what
           /\ View(request, answer).lo = request.lo
<1> DEFINE v    == Do(request, answer)
           size == IF request.client \in {"jira", "confluence"}
                   THEN Least(request.size, w.cap) ELSE request.size
           held == IF request.what \in Listed
                   THEN IF request.lo >= w.total THEN 0 ELSE Least(size, w.total - request.lo)
                   ELSE IF request.what \in Whole THEN w.total ELSE 1
           n    == CASE v = "whole" -> held
                     [] v = "garbled" /\ request.what \in Text -> held \div 2
                     [] OTHER -> 0
<1>1. /\ w.total \in Nat /\ w.kept \in Nat /\ w.cap \in Nat
      /\ request.lo \in Nat /\ request.size \in Nat
      /\ request.client \in {"github", "jira", "confluence", "grafana", "disk"}
  BY FetchAssumption DEF GoodMove
<1>2. v \in {"whole", "garbled", "refused"}
  BY <1>1 DEF Do, GitHubDo, GrafanaDo, JiraDo, JiraUpload, ConfluenceDo, ConfluenceDownload
<1>3. size \in Nat
  BY <1>1 DEF Least
<1>4. held \in Nat
  BY <1>1, <1>3 DEF Least
<1>5. n \in Nat
  <2>1. held \div 2 \in Nat
    BY <1>4
  <2> HIDE DEF held, v
  <2> QED BY <1>4, <2>1
<1>6. Least(n, w.kept) \in Nat /\ request.lo + held \in Nat
  BY <1>1, <1>4, <1>5 DEF Least
<1>7. /\ View(request, answer).v = v /\ View(request, answer).what = request.what
      /\ View(request, answer).lo = request.lo /\ View(request, answer).n = n
      /\ View(request, answer).size = size /\ View(request, answer).total = w.total
      /\ View(request, answer).to = request.lo + held
      /\ View(request, answer).kept = Least(n, w.kept)
      /\ View(request, answer).more \in BOOLEAN
  BY DEF View
<1> HIDE DEF v, size, held, n
<1> QED BY <1>1, <1>2, <1>3, <1>4, <1>5, <1>6, <1>7 DEF GoodAnswer

\* Replies built of good answers.
LEMMA GoodItems ==
    ASSUME NEW v, GoodAnswer(v)
    PROVE  GoodReply(Items(v))
BY DEF GoodAnswer, GoodReply, Items, Plain

LEMMA GoodPaged ==
    ASSUME NEW v, v.n \in Nat, NEW hasNext \in BOOLEAN, NEW next, hasNext => next.at \in Nat
    PROVE  GoodReply(Paged(v, hasNext, next))
<1>1. GoodReply(Items(v)) /\ Items(v).window = <<>>
  BY DEF GoodReply, Items, Plain
<1>2. PICK r : r = Items(v)
  OBVIOUS
<1>3. DOMAIN r = DOMAIN Plain /\ {"hasNext", "next", "told"} \subseteq DOMAIN r
  BY <1>1, <1>2 DEF GoodReply, Plain
<1> QED BY <1>1, <1>2, <1>3 DEF GoodReply, Paged

LEMMA GoodWindow ==
    ASSUME NEW v, GoodAnswer(v)
    PROVE  GoodReply(Windowed(v))
BY DEF GoodAnswer, GoodReply, Windowed, Items, Plain

LEMMA GoodPlain == GoodReply(Plain)
BY DEF GoodReply, Plain

LEMMA FirstOf ==
    ASSUME NEW got, GoodAnswers(got), got # <<>>
    PROVE  GoodAnswer(got[1])
<1>1. got[1] \in Elements(got)
  BY DEF GoodAnswers, Elements
<1> QED BY <1>1 DEF GoodAnswers

LEMMA GoodTail ==
    ASSUME NEW got, GoodAnswers(got), got # <<>>
    PROVE  GoodAnswers(Tail(got))
<1>1. PICK r : r = Tail(got)
  OBVIOUS
<1>2. got \in Seq(Elements(got))
  BY DEF GoodAnswers
<1> HIDE DEF GoodAnswers
<1>3. r \in Seq(Elements(got))
  BY <1>1, <1>2
<1>4. r \in Seq(Elements(r)) /\ Elements(r) \subseteq Elements(got)
  BY <1>3 DEF Elements
<1> QED BY <1>1, <1>4 DEF GoodAnswers

LEMMA GoodOf ==
    ASSUME NEW got, GoodAnswers(got), NEW what
    PROVE  GoodAnswers(Of(got, what))
<1>1. PICK r : r = Of(got, what)
  OBVIOUS
<1>2. got \in Seq(Elements(got))
  BY DEF GoodAnswers
<1>3. r \in Seq(Elements(got)) /\ Elements(r) \subseteq Elements(got)
  BY <1>1, <1>2, OfElements
<1>4. r \in Seq(Elements(r))
  BY <1>3 DEF Elements
<1> QED BY <1>1, <1>3, <1>4 DEF GoodAnswers

LEMMA GoodParts ==
    ASSUME NEW got, GoodAnswers(got), NEW lo \in Nat, NEW hi \in Nat, lo > 0, hi <= Len(got)
    PROVE  GoodAnswers(SubSeq(got, lo, hi))
<1>1. PICK r : r = SubSeq(got, lo, hi)
  OBVIOUS
<1>2. PICK S : got \in Seq(S) /\ S = Elements(got)
  BY DEF GoodAnswers
<1>3. r \in Seq(S)
  BY <1>1, <1>2
<1>4. r \in Seq(Elements(r)) /\ Elements(r) \subseteq S
  BY <1>3 DEF Elements
<1> QED BY <1>1, <1>2, <1>4 DEF GoodAnswers

\* The moves of the shape most handlers have.
LEMMA GoodOnce ==
    ASSUME NEW got, NEW move, NEW client \in {"github", "jira", "confluence", "grafana", "disk"},
           NEW what, NEW lo \in Nat, NEW size \in Nat, NEW reply,
           got # <<>> /\ ~Refused(got[1]) => GoodReply(reply),
           \/ move = Fail
           \/ got = <<>> /\ move = Ask(client, what, lo, size)
           \/ got # <<>> /\ ~Refused(got[1]) /\ move = Give(reply)
    PROVE  GoodMove(move)
BY DEF GoodMove, Fail, Ask, Give

LEMMA GoodMoves ==
    /\ GoodMove(Fail)
    /\ \A what : \A client \in {"github", "jira", "confluence", "grafana", "disk"} :
           \A lo, size \in Nat : GoodMove(Ask(client, what, lo, size))
    /\ \A reply : GoodReply(reply) => GoodMove(Give(reply))
BY DEF GoodMove, Fail, Ask, Give

LEMMA GoodPageOf ==
    ASSUME NEW tool \in Sizing, NEW args \in Args, NEW what, NEW got, GoodAnswers(got)
    PROVE  GoodMove(PageOf(tool, what, args, got))
<1> DEFINE size  == Clipped(tool, args)
           lo    == (Page(args) - 1) * size
           next  == [kind |-> "page", at |-> Page(args) + 1]
           reply == Paged(got[1], got[1].more, next)
<1>1. size \in Nat /\ Page(args) - 1 \in Nat
  BY ClippedSize, PageAssumption DEF Page, Args
<1>2. lo \in Nat /\ next.at \in Nat
  <2>1. PICK m, n : m = Page(args) - 1 /\ n = size
    OBVIOUS
  <2>2. m \in Nat /\ n \in Nat
    BY <1>1, <2>1
  <2>3. m * n \in Nat
    BY <2>2
  <2>4. Page(args) + 1 \in Nat
    BY DEF Page, Args
  <2> QED BY <2>1, <2>3, <2>4
<1>3. got # <<>> => GoodReply(reply)
  BY <1>2, FirstOf, GoodPaged DEF GoodAnswer
<1>4. \/ PageOf(tool, what, args, got) = Fail
      \/ got = <<>> /\ PageOf(tool, what, args, got) = Ask("github", what, lo, size)
      \/ got # <<>> /\ ~Refused(got[1]) /\ PageOf(tool, what, args, got) = Give(reply)
  BY DEF PageOf, Once, NextPage
<1> HIDE DEF size, lo, next, reply
<1> QED BY <1>1, <1>2, <1>3, <1>4, GoodOnce

LEMMA GoodDetails ==
    ASSUME NEW args, NEW got, GoodAnswers(got)
    PROVE  GoodMove(getPullRequestDetails(args, got))
<1> DEFINE reply == Items(got[1])
<1>1. got # <<>> => GoodReply(reply)
  BY FirstOf, GoodItems
<1>2. \/ getPullRequestDetails(args, got) = Fail
      \/ got = <<>> /\ getPullRequestDetails(args, got) = Ask("github", "pr", 0, 1)
      \/ got # <<>> /\ ~Refused(got[1]) /\ getPullRequestDetails(args, got) = Give(reply)
  BY DEF getPullRequestDetails, Once, One
<1> HIDE DEF reply
<1> QED BY <1>1, <1>2, GoodOnce

LEMMA GoodDiff ==
    ASSUME NEW args, args.at \in Int, args.size \in Int, NEW got, GoodAnswers(got)
    PROVE  GoodMove(getPullRequestDiff(args, got))
<1> DEFINE tool  == "get_pull_request_diff"
           v     == got[1]
           size  == Clipped(tool, args)
           from  == Least(args.at, Wanted(v, args))
           end   == Least(from + size, Wanted(v, args))
           reply == Chunk(v, args, size)
<1>1. size \in Nat
  BY PageAssumption DEF Sizing, Continued, Clipped, Least
<1>2. got # <<>> /\ args.at >= 0 => GoodReply(reply)
  <2>1. SUFFICES ASSUME got # <<>>, args.at >= 0
                 PROVE  GoodReply(reply)
    OBVIOUS
  <2>2. Wanted(v, args) \in Nat
    BY <2>1, FirstOf DEF Wanted, GoodAnswer
  <2>3. from \in Nat /\ end \in Nat /\ end - from \in Nat /\ (end < Wanted(v, args)) \in BOOLEAN
    BY <1>1, <2>1, <2>2 DEF Least
  <2> HIDE DEF from, end, size
  <2>4. GoodReply(Paged([lo |-> from, n |-> end - from], end < Wanted(v, args),
                        [kind |-> "offset", at |-> end]))
    BY <2>3, GoodPaged
  <2> QED BY <2>4 DEF Chunk, from, end, size
<1>3. \/ getPullRequestDiff(args, got) = Fail
      \/ got = <<>> /\ getPullRequestDiff(args, got) = Ask("github", "diff", 0, 1)
      \/ /\ got # <<>> /\ ~Refused(got[1]) /\ args.at >= 0
         /\ getPullRequestDiff(args, got) = Give(reply)
  BY DEF getPullRequestDiff, Once, One
<1> HIDE DEF reply, size, v
<1> QED BY <1>2, <1>3, GoodOnce

LEMMA GoodChecks ==
    ASSUME NEW args, NEW got, GoodAnswers(got)
    PROVE  GoodMove(getPullRequestChecks(args, got))
<1> DEFINE size  == Default["get_pull_request_checks"]
           rest  == Tail(got)
           reply == Items(rest[1])
           move  == getPullRequestChecks(args, got)
<1>1. CASE got = <<>> \/ ~args.fit
  BY <1>1, GoodDetails DEF getPullRequestChecks
<1>2. CASE got # <<>> /\ args.fit
  <2>1. GoodAnswers(rest) /\ size \in Nat
    BY <1>2, GoodTail, PageAssumption DEF Sizing
  <2>2. rest # <<>> => GoodReply(reply)
    BY <2>1, FirstOf, GoodItems
  <2>3. \/ move = Fail
        \/ rest = <<>> /\ move = Ask("github", "checks", 0, size)
        \/ rest # <<>> /\ ~Refused(rest[1]) /\ move = Give(reply)
    BY <1>2 DEF getPullRequestChecks, Once
  <2> HIDE DEF size, rest, reply, move
  <2>4. GoodMove(move)
    BY <2>1, <2>2, <2>3, GoodOnce
  <2> QED BY <2>4 DEF move
<1> QED BY <1>1, <1>2

LEMMA GoodLoop ==
    ASSUME NEW tool \in Sizing, NEW got, GoodAnswers(got)
    PROVE  GoodMove(FilesLoop(tool, got))
<1> DEFINE size == Largest[tool]
           lo   == Len(got) * size
<1>1. size \in Nat /\ Len(got) \in Nat
  BY PageAssumption DEF GoodAnswers
<1>2. lo \in Nat
  <2>1. PICK m, n : m = Len(got) /\ n = size
    OBVIOUS
  <2>2. m \in Nat /\ n \in Nat
    BY <1>1, <2>1
  <2>3. m * n \in Nat
    BY <2>2
  <2> QED BY <2>1, <2>3
<1>3. \/ FilesLoop(tool, got) = Fail
      \/ FilesLoop(tool, got) = Ask("github", "files", 0, size)
      \/ FilesLoop(tool, got) = Ask("github", "files", lo, size)
      \/ FilesLoop(tool, got) = Give(Plain)
  BY DEF FilesLoop
<1> HIDE DEF size, lo
<1> QED BY <1>1, <1>2, <1>3, GoodPlain DEF GoodMove, Fail, Ask, Give

LEMMA GoodCount ==
    ASSUME NEW got, GoodAnswers(got)
    PROVE  GoodReply(ItemsOf(got))
<1>1. PICK S : got \in Seq(S) /\ S = Elements(got)
  BY DEF GoodAnswers
<1>2. \A v \in Elements(got) : v.n \in Nat
  BY DEF GoodAnswers, GoodAnswer
<1>3. Total(got) \in Nat
  BY <1>1, <1>2, TotalType
<1> QED BY <1>3 DEF ItemsOf, GoodReply, Plain

LEMMA GoodSummary ==
    ASSUME NEW args, NEW got, GoodAnswers(got)
    PROVE  GoodMove(getPullRequestSummary(args, got))
<1>1. PICK details, files, reply :
          /\ details = getPullRequestDetails(args, Of(got, "pr"))
          /\ files = FilesLoop("get_pull_request_summary", Of(got, "files"))
          /\ reply = ItemsOf(Of(got, "files"))
  OBVIOUS
<1>2. GoodMove(details) /\ GoodMove(files) /\ GoodReply(reply)
  <2>1. "get_pull_request_summary" \in Sizing
    BY DEF Sizing
  <2> QED BY <1>1, <2>1, GoodOf, GoodDetails, GoodLoop, GoodCount
<1>3. \/ getPullRequestSummary(args, got) \in {details, files}
      \/ getPullRequestSummary(args, got) = Give(reply)
  BY <1>1 DEF getPullRequestSummary
<1> QED BY <1>2, <1>3 DEF GoodMove, Give

\* What is fetched to a file: the write comes last.
LEMMA GoodWrite ==
    ASSUME NEW got, NEW move, NEW reply, GoodReply(reply),
           \/ move = Fail
           \/ move = Ask("disk", "write", 0, 1)
           \/ move = Give([reply EXCEPT !.complete = TRUE])
    PROVE  Completing(move)
<1>1. CASE move = Give([reply EXCEPT !.complete = TRUE])
  <2>1. PICK r : r = [reply EXCEPT !.complete = TRUE]
    OBVIOUS
  <2>2. DOMAIN reply = DOMAIN Plain /\ reply.complete = FALSE /\ "complete" \in DOMAIN reply
    BY DEF GoodReply, Plain
  <2>3. DOMAIN r = DOMAIN Plain /\ GoodReply([r EXCEPT !.complete = FALSE])
    BY <2>1, <2>2 DEF GoodReply
  <2> QED BY <1>1, <2>1, <2>3 DEF Completing, Give
<1>2. CASE move = Fail \/ move = Ask("disk", "write", 0, 1)
  BY <1>2, GoodMoves DEF Completing, Fail, Ask
<1> QED BY <1>1, <1>2

LEMMA GoodCompleteFiles ==
    ASSUME NEW args, NEW got, GoodAnswers(got)
    PROVE  Completing(fetchCompletePRFiles(args, got))
<1>1. PICK files, reply :
          /\ files = FilesLoop("fetch_complete_pr_files", Of(got, "files"))
          /\ reply = ItemsOf(Of(got, "files"))
  OBVIOUS
<1>2. GoodMove(files) /\ GoodReply(reply)
  <2>1. "fetch_complete_pr_files" \in Sizing
    BY DEF Sizing
  <2> QED BY <1>1, <2>1, GoodOf, GoodLoop, GoodCount
<1>3. \/ files.do # "give" /\ fetchCompletePRFiles(args, got) = files
      \/ fetchCompletePRFiles(args, got) = Fail
      \/ fetchCompletePRFiles(args, got) = Ask("disk", "write", 0, 1)
      \/ fetchCompletePRFiles(args, got) = Give([reply EXCEPT !.complete = TRUE])
  BY <1>1 DEF fetchCompletePRFiles, Once, One
<1> QED BY <1>2, <1>3, GoodWrite DEF Completing

LEMMA GoodCompleteDiff ==
    ASSUME NEW args, NEW got, GoodAnswers(got)
    PROVE  Completing(fetchCompletePRDiff(args, got))
<1>1. PICK reply : reply = [Plain EXCEPT !.n = Wanted(got[1], args)]
  OBVIOUS
<1>2. got # <<>> => GoodReply(reply)
  <2>1. got # <<>> => Wanted(got[1], args) \in Nat
    BY FirstOf DEF Wanted, GoodAnswer
  <2> QED BY <1>1, <2>1 DEF GoodReply, Plain
<1>3. \/ fetchCompletePRDiff(args, got) = Ask("github", "diff", 0, 1)
      \/ fetchCompletePRDiff(args, got) \in {Fail, Ask("disk", "write", 0, 1)}
      \/ got # <<>> /\ fetchCompletePRDiff(args, got) = Give([reply EXCEPT !.complete = TRUE])
  BY <1>1 DEF fetchCompletePRDiff, Once, One, Fail, Ask, Give
<1>4. Completing(Ask("github", "diff", 0, 1))
  BY GoodMoves DEF Completing, Ask
<1> QED BY <1>2, <1>3, <1>4, GoodWrite, GoodPlain

\* The parts of a bundle, one by one.
LEMMA PartsAre ==
    ASSUME NEW args, NEW got
    PROVE  LET pr    == Of(got, "pr")
               inner == [args EXCEPT !.at = 0, !.size = 0]
               parts == BundleParts(args, got)
           IN  /\ DOMAIN parts = 1..5
               /\ parts[1] = getPullRequestDetails(args, SubSeq(pr, 1, Least(1, Len(pr))))
               /\ parts[2] = listPullRequestFiles(args, Of(got, "files"))
               /\ parts[3] = IF "diff" \in args.opts
                             THEN getPullRequestDiff(inner, Of(got, "diff")) ELSE Give(Plain)
               /\ parts[4] = IF "commits" \in args.opts
                             THEN listPullRequestCommits(inner, Of(got, "commits")) ELSE Give(Plain)
               /\ parts[5] = IF "checks" \in args.opts
                             THEN getPullRequestChecks(args, SubSeq(pr, 2, Len(pr)) \o Of(got, "checks"))
                             ELSE Give(Plain)
BY DEF BundleParts

LEMMA GoodJoin ==
    ASSUME NEW x, NEW y, GoodAnswers(x), GoodAnswers(y)
    PROVE  GoodAnswers(x \o y)
<1>1. PICK S, T, r : S = Elements(x) /\ T = Elements(y) /\ r = x \o y
  OBVIOUS
<1>2. x \in Seq(S) /\ y \in Seq(T) /\ \A v \in S \cup T : GoodAnswer(v)
  BY <1>1 DEF GoodAnswers
<1>3. x \in Seq(S \cup T) /\ y \in Seq(S \cup T)
  BY <1>2
<1>4. r \in Seq(S \cup T)
  BY <1>1, <1>3
<1>5. r \in Seq(Elements(r)) /\ Elements(r) \subseteq S \cup T
  BY <1>4 DEF Elements
<1> QED BY <1>1, <1>2, <1>5 DEF GoodAnswers

\* The answers the parts of a bundle look at.
LEMMA GoodPieces ==
    ASSUME NEW got, GoodAnswers(got)
    PROVE  LET pr == Of(got, "pr")
           IN  /\ GoodAnswers(SubSeq(pr, 1, Least(1, Len(pr))))
               /\ GoodAnswers(SubSeq(pr, 2, Len(pr)) \o Of(got, "checks"))
<1>1. PICK pr : pr = Of(got, "pr")
  OBVIOUS
<1>2. GoodAnswers(pr) /\ GoodAnswers(Of(got, "checks"))
  BY <1>1, GoodOf
<1>3. Len(pr) \in Nat
  BY <1>2 DEF GoodAnswers
<1>4. Least(1, Len(pr)) \in Nat /\ Least(1, Len(pr)) <= Len(pr)
  BY <1>3 DEF Least
<1>5. GoodAnswers(SubSeq(pr, 1, Least(1, Len(pr)))) /\ GoodAnswers(SubSeq(pr, 2, Len(pr)))
  BY <1>2, <1>3, <1>4, GoodParts
<1> QED BY <1>1, <1>2, <1>5, GoodJoin

LEMMA GoodBundle ==
    ASSUME NEW args \in Args, NEW got, GoodAnswers(got)
    PROVE  GoodMove(preparePullRequestReviewBundle(args, got))
<1> DEFINE pr    == Of(got, "pr")
           inner == [args EXCEPT !.at = 0, !.size = 0]
<1>1. PICK parts : parts = BundleParts(args, got)
  OBVIOUS
<1>2. inner \in Args /\ inner.at \in Int /\ inner.size \in Int
  <2>1. PICK moved : moved = [args EXCEPT !.at = 0]
    OBVIOUS
  <2>2. moved \in Args
    BY <2>1, Moved
  <2>3. inner = [moved EXCEPT !.size = 0]
    BY <2>1 DEF Args
  <2>4. inner \in Args
    BY <2>2, <2>3 DEF Args
  <2> QED BY <2>4 DEF Args
<1>3. GoodMove(Give(Plain))
  BY GoodPlain DEF GoodMove, Give
<1>4. /\ "list_pull_request_files" \in Sizing /\ "list_pull_request_commits" \in Sizing
  BY DEF Sizing, Continued, PagePaged
<1>5. DOMAIN parts = 1..5 /\ \A k \in 1..5 : GoodMove(parts[k])
  <2>1. /\ GoodAnswers(SubSeq(pr, 1, Least(1, Len(pr))))
        /\ GoodAnswers(SubSeq(pr, 2, Len(pr)) \o Of(got, "checks"))
    BY GoodPieces
  <2>2. /\ DOMAIN parts = 1..5
        /\ parts[1] = getPullRequestDetails(args, SubSeq(pr, 1, Least(1, Len(pr))))
        /\ parts[2] = listPullRequestFiles(args, Of(got, "files"))
        /\ parts[3] \in {getPullRequestDiff(inner, Of(got, "diff")), Give(Plain)}
        /\ parts[4] \in {listPullRequestCommits(inner, Of(got, "commits")), Give(Plain)}
        /\ parts[5] \in {getPullRequestChecks(args, SubSeq(pr, 2, Len(pr)) \o Of(got, "checks")),
                         Give(Plain)}
    BY <1>1, PartsAre
  <2>3. GoodMove(parts[1])
    BY <2>1, <2>2, GoodDetails
  <2>4. GoodMove(parts[2])
    BY <1>4, <2>2, GoodOf, GoodPageOf DEF listPullRequestFiles
  <2>5. GoodMove(parts[3])
    BY <1>2, <1>3, <2>2, GoodOf, GoodDiff
  <2>6. GoodMove(parts[4])
    BY <1>2, <1>3, <1>4, <2>2, GoodOf, GoodPageOf DEF listPullRequestCommits
  <2>7. GoodMove(parts[5])
    BY <1>3, <2>1, <2>2, GoodChecks
  <2> QED BY <2>2, <2>3, <2>4, <2>5, <2>6, <2>7
<1>6. PICK part : part = IF parts[2].do = "give" THEN parts[2].reply ELSE Plain
  OBVIOUS
<1>7. GoodReply(part)
  BY <1>5, <1>6, GoodPlain DEF GoodMove
<1>8. GoodReply(BundleReply(parts))
  <2>1. PICK partial : partial = (\E k \in DOMAIN parts : parts[k].do = "fail")
    OBVIOUS
  <2>2. BundleReply(parts) = [part EXCEPT !.hasNext = FALSE, !.next = NoNext, !.partial = partial]
    BY <1>6, <2>1 DEF BundleReply
  <2>3. {"hasNext", "next", "partial", "n", "window"} \subseteq DOMAIN part
    BY <1>7 DEF GoodReply, Plain
  <2> QED BY <1>7, <2>2, <2>3 DEF GoodReply
<1> DEFINE open  == {k \in DOMAIN parts : parts[k].do = "ask"}
           first == {k \in open : \A j \in open : k <= j}
<1>9. \/ preparePullRequestReviewBundle(args, got) = Fail
      \/ \E k \in first : preparePullRequestReviewBundle(args, got) = parts[k]
      \/ preparePullRequestReviewBundle(args, got) = Give(BundleReply(parts))
  BY <1>1 DEF preparePullRequestReviewBundle
<1>10. \A k \in first : GoodMove(parts[k])
  BY <1>5
<1> HIDE DEF first
<1> QED BY <1>8, <1>9, <1>10 DEF GoodMove, Fail, Give

LEMMA GoodGitHub ==
    ASSUME NEW args \in Args, NEW got, GoodAnswers(got)
    PROVE  /\ GoodMove(getFileAtRef(args, got))
           /\ GoodMove(getPullRequestFileDiff(args, got))
           /\ GoodMove(githubListWorkflowRuns(args, got))
           /\ GoodMove(githubListWorkflowJobs(args, got))
           /\ GoodMove(githubDownloadJobLogs(args, got))
           /\ GoodMove(listPullRequestFiles(args, got))
           /\ GoodMove(listPullRequestCommits(args, got))
<1>1. GoodMove(Fail)
  BY DEF GoodMove, Fail
<1>2. PICK reply : reply = Items(got[1])
  OBVIOUS
<1>3. got # <<>> => GoodReply(reply)
  BY <1>2, FirstOf, GoodItems
<1>4. GoodMove(getFileAtRef(args, got))
  <2>1. \/ getFileAtRef(args, got) = Fail
        \/ got = <<>> /\ getFileAtRef(args, got) = Ask("github", "file", 0, 1)
        \/ got # <<>> /\ ~Refused(got[1]) /\ getFileAtRef(args, got) = Give(reply)
    BY <1>2 DEF getFileAtRef, Once, One
  <2> QED BY <1>3, <2>1, GoodOnce
<1>5. GoodMove(getPullRequestFileDiff(args, got))
  <2>1. PICK r : r = [Plain EXCEPT !.n = got[1].kept]
    OBVIOUS
  <2>2. got # <<>> => GoodReply(r)
    <3>1. got # <<>> => got[1].kept \in Nat
      BY FirstOf DEF GoodAnswer
    <3> QED BY <2>1, <3>1 DEF GoodReply, Plain
  <2>3. \/ getPullRequestFileDiff(args, got) = Fail
        \/ got = <<>> /\ getPullRequestFileDiff(args, got) = Ask("github", "diff", 0, 1)
        \/ got # <<>> /\ ~Refused(got[1]) /\ getPullRequestFileDiff(args, got) = Give(r)
    BY <2>1 DEF getPullRequestFileDiff, Once, One
  <2> QED BY <2>2, <2>3, GoodOnce
<1>6. GoodMove(githubDownloadJobLogs(args, got))
  <2>1. \/ githubDownloadJobLogs(args, got) = Fail
        \/ githubDownloadJobLogs(args, got) = Ask("github", "log", 0, 1)
        \/ githubDownloadJobLogs(args, got) = Ask("disk", "store", 0, 1)
        \/ got # <<>> /\ githubDownloadJobLogs(args, got) = Give(reply)
    BY <1>2 DEF githubDownloadJobLogs, Once, One, Fail, Ask, Give
  <2> QED BY <1>3, <2>1 DEF GoodMove, Fail, Ask, Give
<1>7. \A what : /\ GoodMove(PageOf("github_list_workflow_runs", what, args, got))
                /\ GoodMove(PageOf("github_list_workflow_jobs", what, args, got))
                /\ GoodMove(PageOf("list_pull_request_files", what, args, got))
                /\ GoodMove(PageOf("list_pull_request_commits", what, args, got))
  BY GoodPageOf DEF Sizing, Continued, PagePaged
<1> QED BY <1>1, <1>4, <1>5, <1>6, <1>7
        DEF githubListWorkflowRuns, githubListWorkflowJobs, listPullRequestFiles,
            listPullRequestCommits

LEMMA GoodSingle ==
    ASSUME NEW args, NEW what, NEW ok, NEW got, GoodAnswers(got)
    PROVE  GoodMove(Single(what, ok, args, got))
<1>1. PICK reply : reply = Items(got[1])
  OBVIOUS
<1>2. got # <<>> => GoodReply(reply)
  BY <1>1, FirstOf, GoodItems
<1>3. \/ Single(what, ok, args, got) = Fail
      \/ got = <<>> /\ Single(what, ok, args, got) = Ask("jira", what, 0, 1)
      \/ got # <<>> /\ ~Refused(got[1]) /\ Single(what, ok, args, got) = Give(reply)
  BY <1>1 DEF Single, Once, One
<1> QED BY <1>2, <1>3, GoodOnce

LEMMA GoodWindowOf ==
    ASSUME NEW tool \in Sizing, NEW args \in Args, NEW what, NEW got, GoodAnswers(got)
    PROVE  GoodMove(WindowOf(tool, what, args, got))
<1>1. PICK reply : reply = Windowed(got[1])
  OBVIOUS
<1>2. got # <<>> => GoodReply(reply)
  BY <1>1, FirstOf, GoodWindow
<1>3. args.at \in Int /\ args.size \in Int /\ Default[tool] \in Nat
  BY PageAssumption DEF Args
<1>4. \/ WindowOf(tool, what, args, got) = Fail
      \/ /\ got = <<>> /\ args.at >= 0 /\ args.size >= 0
         /\ WindowOf(tool, what, args, got) = Ask("jira", what, args.at, Size(tool, args))
      \/ got # <<>> /\ ~Refused(got[1]) /\ WindowOf(tool, what, args, got) = Give(reply)
  BY <1>1 DEF WindowOf, Once
<1>5. args.size >= 0 => Size(tool, args) \in Nat
  BY <1>3 DEF Size
<1>6. args.at >= 0 /\ args.size >= 0 => GoodMove(Ask("jira", what, args.at, Size(tool, args)))
  <2>1. SUFFICES ASSUME args.at >= 0, args.size >= 0
                 PROVE  GoodMove(Ask("jira", what, args.at, Size(tool, args)))
    OBVIOUS
  <2>2. args.at \in Nat /\ Size(tool, args) \in Nat
    BY <1>3, <1>5, <2>1
  <2> QED BY <2>2, GoodMoves
<1>7. GoodMove(Fail) /\ (got # <<>> => GoodMove(Give(reply)))
  BY <1>2, GoodMoves
<1> QED BY <1>4, <1>6, <1>7

LEMMA GoodJira ==
    ASSUME NEW args \in Args, NEW got, GoodAnswers(got)
    PROVE  /\ GoodMove(jiraSearchIssues(args, got))
           /\ GoodMove(jiraGetIssueComments(args, got))
           /\ GoodMove(jiraListProjects(args, got))
           /\ GoodMove(jiraGetIssueBundle(args, got))
           /\ GoodMove(jiraAddAttachment(args, got))
<1>1. \A what : /\ GoodMove(WindowOf("jira_search_issues", what, args, got))
                /\ GoodMove(WindowOf("jira_get_issue_comments", what, args, got))
                /\ GoodMove(WindowOf("jira_list_projects", what, args, got))
  BY GoodWindowOf DEF Sizing, Continued, JiraPaged
<1>2. GoodMove(jiraSearchIssues(args, got)) /\ GoodMove(jiraGetIssueComments(args, got))
  BY <1>1 DEF jiraSearchIssues, jiraGetIssueComments
<1>3. GoodMove(jiraListProjects(args, got))
  BY <1>1, GoodSingle DEF jiraListProjects
<1>4. GoodMove(jiraGetIssueBundle(args, got))
  <2>1. PICK issue, comments, reply :
            /\ issue = Single("issue", args.size >= 0 /\ args.at >= 0, args, Of(got, "issue"))
            /\ comments = WindowOf("jira_get_issue_bundle", "comments", args, Of(got, "comments"))
            /\ reply = [comments.reply EXCEPT !.window = <<>>]
    OBVIOUS
  <2>2. GoodMove(issue)
    BY <2>1, GoodOf, GoodSingle
  <2>3. GoodMove(comments)
    BY <2>1, GoodOf, GoodWindowOf DEF Sizing
  <2>4. comments.do = "give" => GoodReply(reply)
    <3>1. SUFFICES ASSUME comments.do = "give"
                   PROVE  GoodReply(reply)
      OBVIOUS
    <3>2. GoodReply(comments.reply) /\ {"window", "n", "hasNext", "next"} \subseteq DOMAIN comments.reply
      BY <2>3, <3>1 DEF GoodMove, GoodReply, Plain
    <3> QED BY <2>1, <3>2 DEF GoodReply
  <2>5. \/ jiraGetIssueBundle(args, got) \in {issue, comments}
        \/ comments.do = "give" /\ jiraGetIssueBundle(args, got) = Give(reply)
    BY <2>1, <2>3 DEF jiraGetIssueBundle, GoodMove
  <2> QED BY <2>2, <2>3, <2>4, <2>5 DEF GoodMove, Give
<1>5. GoodMove(jiraAddAttachment(args, got))
  <2>1. PICK rest, reply : rest = Tail(got) /\ reply = Items(rest[1])
    OBVIOUS
  <2>2. got # <<>> /\ rest # <<>> => GoodReply(reply)
    BY <2>1, GoodTail, FirstOf, GoodItems
  <2>3. \/ jiraAddAttachment(args, got) = Fail
        \/ jiraAddAttachment(args, got) = Ask("disk", "read", 0, 1)
        \/ jiraAddAttachment(args, got) = Ask("jira", "upload", 0, 1)
        \/ got # <<>> /\ rest # <<>> /\ jiraAddAttachment(args, got) = Give(reply)
    BY <2>1 DEF jiraAddAttachment, Once, One, Fail, Ask, Give
  <2> QED BY <2>2, <2>3 DEF GoodMove, Fail, Ask, Give
<1> QED BY <1>2, <1>3, <1>4, <1>5

LEMMA GoodLinked ==
    ASSUME NEW v, GoodAnswer(v), NEW hasNext \in BOOLEAN
    PROVE  /\ GoodReply(Paged(v, hasNext, LinkNext(v)))
           /\ GoodReply([Paged(v, hasNext, LinkNext(v)) EXCEPT !.told = hasNext])
<1>1. PICK next : next = LinkNext(v)
  OBVIOUS
<1>2. next.at \in Nat /\ v.n \in Nat
  BY <1>1 DEF LinkNext, GoodAnswer
<1>3. PICK r : r = Paged(v, hasNext, next)
  OBVIOUS
<1>4. GoodReply(r) /\ "told" \in DOMAIN r
  <2>1. GoodReply(r)
    BY <1>2, <1>3, GoodPaged
  <2> QED BY <2>1 DEF GoodReply, Plain
<1>5. GoodReply([r EXCEPT !.told = hasNext])
  BY <1>4 DEF GoodReply
<1> QED BY <1>1, <1>3, <1>4, <1>5

LEMMA GoodSpaces ==
    ASSUME NEW args \in Args, NEW got, GoodAnswers(got)
    PROVE  GoodMove(confluenceListSpaces(args, got))
<1> DEFINE tool == "confluence_list_spaces"
           size == Clipped(tool, args)
           v    == got[1]
           byCursor == Paged(v, NextCursor(v), LinkNext(v))
           byStart  == Paged(v, NextStart(v), LinkNext(v))
           move == confluenceListSpaces(args, got)
<1>1. size \in Nat /\ args.cursor \in Nat /\ args.at \in Int
  BY ClippedSize, PageAssumption DEF Sizing, Continued, Args
<1>2. got # <<>> => GoodReply(byCursor) /\ GoodReply(byStart)
  <2>1. SUFFICES ASSUME got # <<>>
                 PROVE  GoodReply(byCursor) /\ GoodReply(byStart)
    OBVIOUS
  <2>2. GoodAnswer(v)
    BY <2>1, FirstOf
  <2>3. NextCursor(v) \in BOOLEAN /\ NextStart(v) \in BOOLEAN
    BY DEF NextCursor, NextStart, Linked
  <2> HIDE DEF v
  <2> QED BY <2>2, <2>3, GoodLinked
<1>3. \/ move = Fail
      \/ got = <<>> /\ move = Ask("confluence", "spaces v2", args.cursor, size)
      \/ got = <<>> /\ args.at >= 0 /\ move = Ask("confluence", "spaces", args.at, size)
      \/ got # <<>> /\ ~Refused(got[1]) /\ move = Give(byCursor)
      \/ got # <<>> /\ ~Refused(got[1]) /\ move = Give(byStart)
  BY DEF confluenceListSpaces, Once, InRange
<1> HIDE DEF size, v, byCursor, byStart, move
<1>4. GoodMove(Ask("confluence", "spaces v2", args.cursor, size))
  BY <1>1, GoodMoves
<1>5. args.at >= 0 => GoodMove(Ask("confluence", "spaces", args.at, size))
  <2>1. args.at >= 0 => args.at \in Nat
    BY <1>1
  <2> QED BY <1>1, <2>1, GoodMoves
<1>6. GoodMove(Fail) /\ (got # <<>> => GoodMove(Give(byCursor)) /\ GoodMove(Give(byStart)))
  BY <1>2, GoodMoves
<1>7. GoodMove(move)
  BY <1>3, <1>4, <1>5, <1>6
<1> QED BY <1>7 DEF move

LEMMA GoodConfluence ==
    ASSUME NEW args \in Args, NEW got, GoodAnswers(got)
    PROVE  /\ GoodMove(confluenceGetPage(args, got))
           /\ GoodMove(confluenceGetPageByTitle(args, got))
           /\ GoodMove(confluenceSearchCQL(args, got))
           /\ GoodMove(confluenceDownloadAttachment(args, got))
<1>1. PICK reply : reply = Items(got[1])
  OBVIOUS
<1>2. got # <<>> => GoodMove(Give(reply))
  BY <1>1, FirstOf, GoodItems, GoodMoves
<1>3. \A what : GoodMove(Ask("confluence", what, 0, 1)) /\ GoodMove(Ask("disk", what, 0, 1))
  BY GoodMoves
<1>4. GoodMove(confluenceGetPage(args, got))
  <2>1. \/ confluenceGetPage(args, got) \in {Fail, Ask("confluence", "page", 0, 1)}
        \/ got # <<>> /\ confluenceGetPage(args, got) = Give(reply)
    BY <1>1 DEF confluenceGetPage, Once, One
  <2> QED BY <1>2, <1>3, <2>1, GoodMoves
<1>5. GoodMove(confluenceGetPageByTitle(args, got))
  <2>1. PICK size : size = Clipped("confluence_get_page_by_title", args)
    OBVIOUS
  <2>2. size \in Nat
    BY <2>1, ClippedSize, PageAssumption DEF Sizing
  <2>3. \/ confluenceGetPageByTitle(args, got) \in {Fail, Ask("confluence", "by title", 0, size)}
        \/ got # <<>> /\ confluenceGetPageByTitle(args, got) = Give(reply)
    BY <1>1, <2>1 DEF confluenceGetPageByTitle, Once
  <2> QED BY <1>2, <2>2, <2>3, GoodMoves
<1>6. GoodMove(confluenceSearchCQL(args, got))
  <2>1. PICK size, from : size = Clipped("confluence_search_cql", args) /\ from = CQLFrom(args)
    OBVIOUS
  <2>2. size \in Nat /\ (args.at >= 0 => from \in Nat)
    BY <2>1, ClippedSize, PageAssumption DEF Sizing, Continued, CQLFrom, Args
  <2>3. PICK v, r : v = got[1] /\ r = Paged(v, Linked(v), LinkNext(v))
    OBVIOUS
  <2>4. got # <<>> => GoodMove(Give(r))
    BY <2>3, FirstOf, GoodLinked, GoodMoves DEF Linked
  <2>5. \/ confluenceSearchCQL(args, got) = Fail
        \/ args.at >= 0 /\ confluenceSearchCQL(args, got) = Ask("confluence", "cql", from, size)
        \/ got # <<>> /\ confluenceSearchCQL(args, got) = Give(r)
    BY <2>1, <2>3 DEF confluenceSearchCQL, Once, InRange
  <2> QED BY <2>2, <2>4, <2>5, GoodMoves
<1>7. GoodMove(confluenceDownloadAttachment(args, got))
  <2>1. \/ confluenceDownloadAttachment(args, got) \in
              {Fail, Ask("confluence", "attachment", 0, 1), Ask("disk", "store", 0, 1)}
        \/ got # <<>> /\ confluenceDownloadAttachment(args, got) = Give(reply)
    BY <1>1 DEF confluenceDownloadAttachment, Once, One, Fail, Ask, Give
  <2> QED BY <1>2, <1>3, <2>1, GoodMoves
<1> QED BY <1>4, <1>5, <1>6, <1>7

LEMMA GoodChildren ==
    ASSUME NEW args \in Args, NEW got, GoodAnswers(got)
    PROVE  /\ GoodMove(confluenceGetPageChildren(args, got))
           /\ GoodMove(confluenceListPageAttachments(args, got))
<1> DEFINE SizeOf(tool) == IF args.size = 0 THEN Default[tool] ELSE args.size
<1>1. PICK v, more : v = got[1] /\ more = Linked(v)
  OBVIOUS
<1>2. PICK page, file : /\ page = Paged(v, more, LinkNext(v))
                        /\ file = Paged(v, more, IF v.pager = "start" THEN LinkNext(v) ELSE NoNext)
  OBVIOUS
<1>3. PICK told, filed : /\ told = [page EXCEPT !.told = more]
                         /\ filed = [file EXCEPT !.told = more]
  OBVIOUS
<1>4. got # <<>> => GoodReply(told) /\ GoodReply(filed)
  <2>1. SUFFICES ASSUME got # <<>> PROVE GoodReply(told) /\ GoodReply(filed)
    OBVIOUS
  <2>2. GoodAnswer(v) /\ more \in BOOLEAN /\ v.n \in Nat
    BY <1>1, <2>1, FirstOf DEF Linked, GoodAnswer
  <2>3. LinkNext(v).at \in Nat /\ NoNext.at \in Nat
    BY <2>2 DEF LinkNext, NoNext, GoodAnswer
  <2>4. GoodReply(page) /\ GoodReply(file)
    BY <1>2, <2>2, <2>3, GoodPaged
  <2>5. "told" \in DOMAIN page /\ "told" \in DOMAIN file
    BY <2>4 DEF GoodReply, Plain
  <2> QED BY <1>3, <2>4, <2>5 DEF GoodReply
<1>5. \A size : size \in 1..Largest["confluence_get_page_children"]
                \/ size \in 1..Largest["confluence_list_page_attachments"] => size \in Nat
  BY PageAssumption DEF Sizing, Continued
<1>6. GoodMove(confluenceGetPageChildren(args, got))
  <2>1. PICK size : size = SizeOf("confluence_get_page_children")
    OBVIOUS
  <2>2. \/ confluenceGetPageChildren(args, got) = Fail
        \/ /\ args.at >= 0 /\ size \in 1..Largest["confluence_get_page_children"]
           /\ confluenceGetPageChildren(args, got) = Ask("confluence", "children", args.at, size)
        \/ got # <<>> /\ confluenceGetPageChildren(args, got) = Give(told)
    BY <1>1, <1>2, <1>3, <2>1 DEF confluenceGetPageChildren, Children, Once, InRange
  <2>3. args.at >= 0 => args.at \in Nat
    BY DEF Args
  <2> QED BY <1>4, <1>5, <2>2, <2>3, GoodMoves
<1>7. GoodMove(confluenceListPageAttachments(args, got))
  <2>1. PICK size : size = SizeOf("confluence_list_page_attachments")
    OBVIOUS
  <2>2. \/ confluenceListPageAttachments(args, got) = Fail
        \/ /\ args.at >= 0 /\ size \in 1..Largest["confluence_list_page_attachments"]
           /\ confluenceListPageAttachments(args, got) = Ask("confluence", "attachments", args.at, size)
        \/ got # <<>> /\ confluenceListPageAttachments(args, got) = Give(filed)
    BY <1>1, <1>2, <1>3, <2>1 DEF confluenceListPageAttachments, Children, Once, InRange
  <2>3. args.at >= 0 => args.at \in Nat
    BY DEF Args
  <2> QED BY <1>4, <1>5, <2>2, <2>3, GoodMoves
<1> QED BY <1>6, <1>7

LEMMA GoodRecord ==
    ASSUME NEW what, NEW noAuth, NEW args, NEW got, GoodAnswers(got)
    PROVE  GoodMove(Record(what, noAuth, args, got))
<1>1. PICK reply : reply = Items(got[1])
  OBVIOUS
<1>2. got # <<>> => GoodMove(Give(reply))
  BY <1>1, FirstOf, GoodItems, GoodMoves
<1>3. \/ Record(what, noAuth, args, got) \in {Fail, Ask("grafana", what, 0, 1)}
      \/ got # <<>> /\ Record(what, noAuth, args, got) = Give(reply)
  BY <1>1 DEF Record, Once, One
<1> QED BY <1>2, <1>3, GoodMoves

LEMMA GoodFirstPage ==
    ASSUME NEW tool \in Sizing, NEW what, NEW noAuth, NEW args \in Args, NEW got, GoodAnswers(got)
    PROVE  GoodMove(FirstPage(tool, what, noAuth, args, got))
<1>1. PICK reply, size : reply = Items(got[1]) /\ size = Limit(tool, args)
  OBVIOUS
<1>2. size \in Nat
  BY <1>1, PageAssumption DEF Limit, Args
<1>3. got # <<>> => GoodMove(Give(reply))
  BY <1>1, FirstOf, GoodItems, GoodMoves
<1>4. \/ FirstPage(tool, what, noAuth, args, got) \in {Fail, Ask("grafana", what, 0, size)}
      \/ got # <<>> /\ FirstPage(tool, what, noAuth, args, got) = Give(reply)
  BY <1>1 DEF FirstPage, Once
<1> QED BY <1>2, <1>3, <1>4, GoodMoves

LEMMA GoodByPage ==
    ASSUME NEW tool \in Sizing, NEW what, NEW args \in Args, NEW got, GoodAnswers(got)
    PROVE  GoodMove(ByPage(tool, what, args, got))
<1>1. PICK page, size, next, v :
          /\ page = PageNo(args) /\ size = Limit(tool, args) /\ v = got[1]
          /\ next = [kind |-> "page", at |-> page + 1]
  OBVIOUS
<1>2. size \in Nat /\ page - 1 \in Nat /\ next.at \in Nat
  BY <1>1, PageAssumption DEF Limit, PageNo, Args
<1>3. PICK m : m = page - 1
  OBVIOUS
<1>4. m * size \in Nat
  BY <1>2, <1>3
<1>5. PICK full \in BOOLEAN : full = Full(tool, v, args)
  BY DEF Full
<1>6. PICK reply : reply = Paged(v, full, next)
  OBVIOUS
<1>7. got # <<>> => GoodMove(Give(reply))
  BY <1>1, <1>2, <1>6, FirstOf, GoodPaged, GoodMoves DEF GoodAnswer
<1>8. \/ ByPage(tool, what, args, got) \in {Fail, Ask("grafana", what, m * size, size)}
      \/ got # <<>> /\ ByPage(tool, what, args, got) = Give(reply)
  BY <1>1, <1>3, <1>5, <1>6 DEF ByPage, Once
<1> QED BY <1>2, <1>4, <1>7, <1>8, GoodMoves

LEMMA GoodGrafana ==
    ASSUME NEW args \in Args, NEW got, GoodAnswers(got)
    PROVE  /\ GoodMove(grafanaSearch(args, got))
           /\ GoodMove(grafanaListFolders(args, got))
           /\ GoodMove(grafanaQueryAnnotations(args, got))
           /\ GoodMove(grafanaListAnnotationTags(args, got))
           /\ GoodMove(grafanaListAlerts(args, got))
           /\ GoodMove(grafanaGetDashboardSummary(args, got))
           /\ GoodMove(grafanaListAlertRules(args, got))
<1>1. GoodMove(grafanaSearch(args, got)) /\ GoodMove(grafanaListFolders(args, got))
  BY GoodByPage DEF Sizing, grafanaSearch, grafanaListFolders
<1>2. /\ GoodMove(grafanaQueryAnnotations(args, got))
      /\ GoodMove(grafanaListAnnotationTags(args, got))
      /\ GoodMove(grafanaListAlerts(args, got))
  BY GoodFirstPage
     DEF Sizing, grafanaQueryAnnotations, grafanaListAnnotationTags, grafanaListAlerts
<1>3. GoodMove(grafanaGetDashboardSummary(args, got))
  <2>1. PICK max, v : max = Limit("grafana_get_dashboard_summary", args) /\ v = got[1]
    OBVIOUS
  <2>2. PICK reply : reply = [Plain EXCEPT !.n = Least(v.n, max), !.told = v.n > max]
    OBVIOUS
  <2>3. max \in Nat
    BY <2>1, PageAssumption DEF Sizing, Limit, Args
  <2>4. got # <<>> => Least(v.n, max) \in Nat
    BY <2>1, <2>3, FirstOf DEF GoodAnswer, Least
  <2>5. got # <<>> => GoodReply(reply)
    BY <2>2, <2>4 DEF GoodReply, Plain
  <2>6. \/ grafanaGetDashboardSummary(args, got) \in {Fail, Ask("grafana", "panels", 0, 1)}
        \/ got # <<>> /\ grafanaGetDashboardSummary(args, got) = Give(reply)
    BY <2>1, <2>2 DEF grafanaGetDashboardSummary, Once, One
  <2> QED BY <2>5, <2>6, GoodMoves
<1>4. GoodMove(grafanaListAlertRules(args, got))
  BY GoodTail, GoodRecord DEF grafanaListAlertRules
<1> QED BY <1>1, <1>2, <1>3, <1>4

-----------------------------------------------------------------------------
(* The export, and every handler                                           *)

\* The answers that are about no issue, and those about an issue's links.
Top == {"export dir", "issues", "index"}
LinkAsks == {"mkdir", "page", "html", "text"}

LEMMA InTurnOne ==
    ASSUME NEW request, NEW got, Len(got) \in Nat
    PROVE  /\ (\E k \in DOMAIN got : Refused(got[k])) => InTurn(<<request>>, got) = Fail
           /\ ~(\E k \in DOMAIN got : Refused(got[k])) /\ Len(got) = 0
                => InTurn(<<request>>, got) = request
           /\ ~(\E k \in DOMAIN got : Refused(got[k])) /\ Len(got) # 0
                => InTurn(<<request>>, got) = Give(Plain)
BY DEF InTurn

LEMMA LinkMoves ==
    ASSUME NEW k, NEW v, NEW args, NEW got, Len(got) \in Nat
    PROVE  LET move == ExportLinks(k, v, args, got)
           IN  \/ move \in {Fail, Give(Plain)}
               \/ /\ LinkOf(v) = "page" /\ "no confluence" \notin args.opts
                  /\ \E client \in {"disk", "confluence"}, what \in LinkAsks :
                         move = Ask(client, what, k, 1)
<1>1. PICK requests : requests = <<Ask("disk", "mkdir", k, 1), Ask("confluence", "page", k, 1),
                                   Ask("disk", "html", k, 1), Ask("disk", "text", k, 1)>>
  OBVIOUS
<1>2. Len(got) < Len(requests) =>
          \E client \in {"disk", "confluence"}, what \in LinkAsks :
              requests[Len(got) + 1] = Ask(client, what, k, 1)
  <2>1. /\ Len(requests) = 4
        /\ requests[1] = Ask("disk", "mkdir", k, 1)
        /\ requests[2] = Ask("confluence", "page", k, 1)
        /\ requests[3] = Ask("disk", "html", k, 1)
        /\ requests[4] = Ask("disk", "text", k, 1)
    BY <1>1
  <2>2. Len(got) < 4 => Len(got) + 1 \in {1, 2, 3, 4}
    OBVIOUS
  <2> QED BY <2>1, <2>2 DEF LinkAsks
<1>3. \/ InTurn(requests, got) \in {Fail, Give(Plain)}
      \/ Len(got) < Len(requests) /\ InTurn(requests, got) = requests[Len(got) + 1]
  BY DEF InTurn
<1>4. exportConfluencePage(k, args, got) \in {Fail, InTurn(requests, got)}
  BY <1>1 DEF exportConfluencePage
<1> QED BY <1>2, <1>3, <1>4 DEF ExportLinks

\* The next request about an issue, or its entry.
LEMMA IssueMoves ==
    ASSUME NEW k, NEW args, NEW S, NEW got \in Seq(S)
    PROVE  LET move  == ExportIssue(k, args, got)
               issue == InTurn(<<Ask("jira", "issue", k, 1)>>, Of(got, "issue"))
               file  == InTurn(<<Ask("disk", "write", k, 1)>>, Of(got, "write"))
               links == ExportLinks(k, got[1], args,
                            Picked(got, {i \in DOMAIN got : got[i].what \notin {"issue", "write"}}))
           IN  \/ move = Ask("jira", "issue", k, 1) /\ Of(got, "issue") = <<>>
               \/ /\ issue = Give(Plain) /\ LinkOf(got[1]) = "page" /\ "no confluence" \notin args.opts
                  /\ \E client \in {"disk", "confluence"}, what \in LinkAsks :
                         move = Ask(client, what, k, 1)
               \/ /\ issue = Give(Plain) /\ Of(got, "write") = <<>>
                  /\ move = Ask("disk", "write", k, 1)
               \/ issue = Fail /\ move = Give(Entry(issue, Fail, Fail))
               \/ /\ issue = Give(Plain) /\ links \in {Fail, Give(Plain)} /\ file \in {Fail, Give(Plain)}
                  /\ move = Give(Entry(issue, links, file))
<1>1. PICK first, last, about : /\ first = Of(got, "issue") /\ last = Of(got, "write")
                                /\ about = Picked(got, {i \in DOMAIN got : got[i].what \notin {"issue", "write"}})
  OBVIOUS
<1>2. first \in Seq(S) /\ last \in Seq(S) /\ about \in Seq(S)
  BY <1>1, OfElements, PickedElements
<1>3. PICK issue, file, links :
          /\ issue = InTurn(<<Ask("jira", "issue", k, 1)>>, first)
          /\ file = InTurn(<<Ask("disk", "write", k, 1)>>, last)
          /\ links = ExportLinks(k, got[1], args, about)
  OBVIOUS
<1>4. \/ issue \in {Fail, Give(Plain)}
      \/ issue = Ask("jira", "issue", k, 1) /\ first = <<>>
  <2>1. Len(first) \in Nat /\ (Len(first) = 0 => first = <<>>)
    BY <1>2
  <2> QED BY <1>3, <2>1, InTurnOne
<1>5. \/ file \in {Fail, Give(Plain)}
      \/ file = Ask("disk", "write", k, 1) /\ last = <<>>
  <2>1. Len(last) \in Nat /\ (Len(last) = 0 => last = <<>>)
    BY <1>2
  <2> QED BY <1>3, <2>1, InTurnOne
<1>6. \/ links \in {Fail, Give(Plain)}
      \/ /\ LinkOf(got[1]) = "page" /\ "no confluence" \notin args.opts
         /\ \E client \in {"disk", "confluence"}, what \in LinkAsks : links = Ask(client, what, k, 1)
  <2>1. Len(about) \in Nat
    BY <1>2
  <2> QED BY <1>3, <2>1, LinkMoves
<1>7. ExportIssue(k, args, got) =
          IF issue.do # "give" THEN (IF issue.do = "ask" THEN issue ELSE Give(Entry(issue, Fail, Fail)))
          ELSE IF links.do = "ask" THEN links
          ELSE IF file.do = "ask" THEN file
          ELSE Give(Entry(issue, links, file))
  BY <1>1, <1>3 DEF ExportIssue
<1>8. /\ Fail.do = "fail" /\ Give(Plain).do = "give"
      /\ \A client, what : Ask(client, what, k, 1).do = "ask"
  BY DEF Fail, Give, Ask
<1>9. CASE issue.do = "ask"
  BY <1>1, <1>4, <1>7, <1>8, <1>9
<1>10. CASE issue.do # "give" /\ issue.do # "ask"
  BY <1>1, <1>3, <1>4, <1>7, <1>8, <1>10
<1>11. CASE issue.do = "give" /\ links.do = "ask"
  BY <1>1, <1>3, <1>4, <1>6, <1>7, <1>8, <1>11
<1>12. CASE issue.do = "give" /\ links.do # "ask" /\ file.do = "ask"
  BY <1>1, <1>3, <1>4, <1>5, <1>7, <1>8, <1>12
<1>13. CASE issue.do = "give" /\ links.do # "ask" /\ file.do # "ask"
  BY <1>1, <1>3, <1>4, <1>5, <1>6, <1>7, <1>8, <1>13
<1> QED BY <1>9, <1>10, <1>11, <1>12, <1>13

\* The issues the search of an export has found, and how far each has come.
Found(got) == 0..(Of(got, "issues")[1].n - 1)
Done(args, got) == [k \in Found(got) |-> ExportIssue(k, args, About(k, got))]

\* What an export does next.
LEMMA ExportMoves ==
    ASSUME NEW args \in Args, NEW got, GoodAnswers(got)
    PROVE  \/ jiraExportTasks(args, got) = Fail
           \/ /\ Of(got, "export dir") = <<>>
              /\ jiraExportTasks(args, got) = Ask("disk", "export dir", 0, 1)
           \/ \E size \in Nat : /\ Of(got, "issues") = <<>>
                                /\ jiraExportTasks(args, got) = Ask("jira", "issues", 0, size)
           \/ /\ Of(got, "issues") # <<>>
              /\ \/ Found(got) = {} /\ jiraExportTasks(args, got) = Give(Plain)
                 \/ \E k \in Found(got) : /\ ExportIssue(k, args, About(k, got)).do = "ask"
                                          /\ jiraExportTasks(args, got) = ExportIssue(k, args, About(k, got))
                 \/ jiraExportTasks(args, got) = Ask("disk", "index", 0, 1)
                 \/ /\ \A k \in Found(got) : ExportIssue(k, args, About(k, got)).do # "ask"
                    /\ jiraExportTasks(args, got) =
                           Give(ExportReply([k \in Found(got) |-> Done(args, got)[k].reply]))
<1> DEFINE size   == IF args.size = 0 THEN Default["jira_export_tasks"] ELSE args.size
           asked  == [args EXCEPT !.at = 0, !.size = size]
           opened == InTurn(<<One("disk", "export dir")>>, Of(got, "export dir"))
           search == jiraSearchIssues(asked, Of(got, "issues"))
           done   == Done(args, got)
           open   == {k \in Found(got) : done[k].do = "ask"}
           first  == {k \in open : \A j \in open : k <= j}
           reply  == ExportReply([k \in Found(got) |-> done[k].reply])
           move   == jiraExportTasks(args, got)
<1>1. move = IF ~args.fit \/ size \notin 1..Largest["jira_export_tasks"] THEN Fail
             ELSE IF opened.do # "give" THEN opened
             ELSE IF search.do # "give" THEN search
             ELSE IF Found(got) = {} THEN Give(Plain)
             ELSE IF first # {} THEN done[CHOOSE k \in first : TRUE]
             ELSE IF Of(got, "index") = <<>> THEN One("disk", "index")
             ELSE Give(reply)
  BY Zenon DEF jiraExportTasks, Found, Done
<1> HIDE DEF size, opened, search, done, reply, move
<1>2. asked.at = 0 /\ asked.size = size
  BY DEF Args
<1> HIDE DEF asked
<1>3. \/ opened.do = "give" \/ opened = Fail
      \/ Of(got, "export dir") = <<>> /\ opened = Ask("disk", "export dir", 0, 1)
  <2>1. PICK dir : dir = Of(got, "export dir")
    OBVIOUS
  <2>2. dir \in Seq(Elements(dir))
    BY <2>1, GoodOf DEF GoodAnswers
  <2>3. Len(dir) \in Nat /\ (Len(dir) = 0 => dir = <<>>)
    BY <2>2
  <2>4. opened \in {Fail, Give(Plain)} \/ (dir = <<>> /\ opened = One("disk", "export dir"))
    <3> HIDE DEF Refused
    <3> QED BY <2>1, <2>3, InTurnOne DEF opened
  <2>5. Give(Plain).do = "give"
    BY DEF Give
  <2>6. One("disk", "export dir") = Ask("disk", "export dir", 0, 1)
    BY DEF One
  <2>7. CASE opened \in {Fail, Give(Plain)}
    BY <2>5, <2>7
  <2>8. CASE dir = <<>> /\ opened = One("disk", "export dir")
    BY <2>1, <2>6, <2>8
  <2> QED BY <2>4, <2>7, <2>8
<1>4. size \in 1..Largest["jira_export_tasks"] =>
          \/ search = Fail
          \/ Of(got, "issues") # <<>> /\ search.do = "give"
          \/ Of(got, "issues") = <<>> /\ search = Ask("jira", "issues", 0, size)
  <2>1. SUFFICES ASSUME size \in 1..Largest["jira_export_tasks"]
                 PROVE  \/ search = Fail
                        \/ Of(got, "issues") # <<>> /\ search.do = "give"
                        \/ Of(got, "issues") = <<>> /\ search = Ask("jira", "issues", 0, size)
    OBVIOUS
  <2>2. size \in Nat /\ size # 0
    BY <2>1, PageAssumption DEF Sizing
  <2> QED BY <1>2, <2>2 DEF search, jiraSearchIssues, WindowOf, Once, Size, Give
<1>5. \A k \in Found(got) : done[k] = ExportIssue(k, args, About(k, got))
  BY DEF Done, done
<1>6. Of(got, "issues") # <<>> /\ open # {} => first # {}
  <2>1. SUFFICES ASSUME Of(got, "issues") # <<>>, open # {}
                 PROVE  first # {}
    OBVIOUS
  <2>2. Of(got, "issues")[1].n \in Nat
    BY <2>1, FirstOf, GoodOf DEF GoodAnswer
  <2>3. open \subseteq Nat
    BY <2>2 DEF Found
  <2>4. PICK k \in open : \A j \in open : k <= j
    <3> HIDE DEF open
    <3> QED BY <2>1, <2>3, LeastOf
  <2> QED BY <2>4
<1>7. first # {} => \E k \in Found(got) : done[k].do = "ask" /\ done[CHOOSE j \in first : TRUE] = done[k]
  <2>1. \A k \in first : k \in Found(got) /\ done[k].do = "ask"
    OBVIOUS
  <2>2. first # {} => (CHOOSE j \in first : TRUE) \in first
    <3> HIDE DEF first
    <3> QED OBVIOUS
  <2> HIDE DEF first
  <2> QED BY <2>1, <2>2
<1>8. open = {} => \A k \in Found(got) : done[k].do # "ask"
  OBVIOUS
<1>9. /\ One("disk", "index") = Ask("disk", "index", 0, 1) /\ Fail.do = "fail"
       /\ Ask("jira", "issues", 0, size).do = "ask"
       /\ 1..Largest["jira_export_tasks"] \subseteq Nat
  BY PageAssumption DEF One, Fail, Ask, Sizing
<1> HIDE DEF open, first
<1>10. CASE ~args.fit \/ size \notin 1..Largest["jira_export_tasks"]
  BY <1>1, <1>10 DEF move
<1>11. CASE args.fit /\ size \in 1..Largest["jira_export_tasks"] /\ opened.do # "give"
  BY <1>1, <1>3, <1>11 DEF move
<1>12. CASE args.fit /\ size \in 1..Largest["jira_export_tasks"] /\ opened.do = "give" /\ search.do # "give"
  <2>1. \/ move = Fail
        \/ /\ Of(got, "issues") = <<>> /\ size \in Nat
           /\ move = Ask("jira", "issues", 0, size)
    BY <1>1, <1>4, <1>9, <1>12
  <2> QED BY <2>1 DEF move
<1>13. CASE args.fit /\ size \in 1..Largest["jira_export_tasks"] /\ opened.do = "give" /\ search.do = "give"
  <2>1. Of(got, "issues") # <<>>
    BY <1>4, <1>9, <1>13
  <2>2. \/ Found(got) = {} /\ move = Give(Plain)
        \/ \E k \in Found(got) : done[k].do = "ask" /\ move = done[k]
        \/ move = Ask("disk", "index", 0, 1)
        \/ /\ \A k \in Found(got) : done[k].do # "ask"
           /\ move = Give(reply)
    BY <1>1, <1>6, <1>7, <1>8, <1>9, <1>13, <2>1
  <2> QED BY <1>5, <2>1, <2>2 DEF move, done, reply
<1> QED BY <1>10, <1>11, <1>12, <1>13

LEMMA GoodAbout ==
    ASSUME NEW k, NEW got, GoodAnswers(got)
    PROVE  /\ About(k, got) \in Seq(Elements(got))
           /\ Elements(About(k, got)) = {v \in Elements(got) : v.lo = k /\ v.what \notin Top}
<1>1. PICK S : S = Elements(got) /\ got \in Seq(S)
  BY DEF GoodAnswers
<1> DEFINE ks == {i \in DOMAIN got : got[i].lo = k /\ got[i].what \notin {"export dir", "issues", "index"}}
<1>2. Picked(got, ks) \in Seq(S) /\ Elements(Picked(got, ks)) = {got[i] : i \in DOMAIN got \cap ks}
  BY <1>1, PickedElements
<1>3. {got[i] : i \in DOMAIN got \cap ks} = {v \in Elements(got) : v.lo = k /\ v.what \notin Top}
  BY DEF Elements, Top
<1> QED BY <1>1, <1>2, <1>3 DEF About

LEMMA GoodExport ==
    ASSUME NEW args \in Args, NEW got, GoodAnswers(got)
    PROVE  GoodMove(jiraExportTasks(args, got))
<1>1. ASSUME Of(got, "issues") # <<>>
      PROVE  Found(got) \subseteq Nat /\ IsFiniteSet(Found(got))
  <2>1. Of(got, "issues")[1].n \in Nat
    BY <1>1, FirstOf, GoodOf DEF GoodAnswer
  <2>2. PICK n : n = Of(got, "issues")[1].n - 1 /\ n \in Int
    BY <2>1
  <2>3. Found(got) = 0..n
    BY <2>2 DEF Found
  <2>4. IsFiniteSet(0..n) /\ 0..n \subseteq Nat
    <3>1. 0 \in Int /\ n \in Int
      BY <2>2
    <3>2. IsFiniteSet(0..n)
      BY <3>1, FS_Interval
    <3> QED BY <3>2
  <2> QED BY <2>3, <2>4
<1>2. ASSUME NEW entries, DOMAIN entries \subseteq Nat, IsFiniteSet(DOMAIN entries)
      PROVE  GoodReply(ExportReply(entries))
  <2>1. Cardinality(DOMAIN entries) \in Nat
    BY <1>2, FS_CardinalityType
  <2> QED BY <2>1 DEF ExportReply, GoodReply, Plain
<1>3. ASSUME NEW k \in Found(got), Of(got, "issues") # <<>>,
             ExportIssue(k, args, About(k, got)).do = "ask"
      PROVE  GoodMove(ExportIssue(k, args, About(k, got)))
  <2>1. PICK S, about : about = About(k, got) /\ about \in Seq(S)
    BY GoodAbout
  <2>2. PICK move : move = ExportIssue(k, args, about)
    OBVIOUS
  <2>3. \/ move = Ask("jira", "issue", k, 1)
        \/ \E client \in {"disk", "confluence"}, what \in LinkAsks : move = Ask(client, what, k, 1)
        \/ move = Ask("disk", "write", k, 1)
        \/ move.do = "give"
    <3>1. \A reply : Give(reply).do = "give"
      BY DEF Give
    <3>2. \/ move = Ask("jira", "issue", k, 1)
          \/ \E client \in {"disk", "confluence"}, what \in LinkAsks : move = Ask(client, what, k, 1)
          \/ move = Ask("disk", "write", k, 1)
          \/ \E reply : move = Give(reply)
      BY <2>1, <2>2, IssueMoves, ZenonT(60)
    <3> QED BY <3>1, <3>2
  <2>4. k \in Nat
    BY <1>1, <1>3
  <2>5. move.do # "give"
    BY <1>3, <2>1, <2>2
  <2>6. GoodMove(move)
    BY <2>3, <2>4, <2>5, GoodMoves
  <2> QED BY <2>1, <2>2, <2>6
<1>4. Of(got, "issues") # <<>> =>
          GoodMove(Give(ExportReply([k \in Found(got) |-> Done(args, got)[k].reply])))
  BY <1>1, <1>2, GoodMoves
<1>5. /\ GoodMove(Fail) /\ GoodMove(Give(Plain))
      /\ \A what : GoodMove(Ask("disk", what, 0, 1))
      /\ \A size \in Nat : GoodMove(Ask("jira", "issues", 0, size))
  BY GoodMoves, GoodPlain
<1> QED BY <1>3, <1>4, <1>5, ExportMoves

\* Every handler.
LEMMA GoodHandle ==
    ASSUME NEW tool, NEW args \in Args, NEW got, GoodAnswers(got)
    PROVE  /\ tool \notin {"fetch_complete_pr_diff", "fetch_complete_pr_files"} =>
                  GoodMove(Handle(tool, args, got))
           /\ tool \in {"fetch_complete_pr_diff", "fetch_complete_pr_files"} =>
                  Completing(Handle(tool, args, got))
<1>1. GoodMove(Fail)
  BY GoodMoves
<1>2. args.at \in Int /\ args.size \in Int
  BY DEF Args
<1>3. \A what, ok : GoodMove(Single(what, ok, args, got))
  BY GoodSingle
<1>4. \A what, noAuth : GoodMove(Record(what, noAuth, args, got))
  BY GoodRecord
<1>5. CASE tool \in {"get_pull_request_details", "list_pull_request_files", "get_pull_request_diff",
                     "get_pull_request_summary", "get_pull_request_file_diff", "get_file_at_ref",
                     "prepare_pull_request_review_bundle", "list_pull_request_commits",
                     "get_pull_request_checks", "github_list_workflow_runs",
                     "github_list_workflow_jobs", "github_download_job_logs"}
  BY <1>2, <1>5, GoodDetails, GoodDiff, GoodSummary, GoodBundle, GoodChecks, GoodGitHub DEF Handle
<1>6. CASE tool \in {"fetch_complete_pr_diff", "fetch_complete_pr_files"}
  BY <1>6, GoodCompleteDiff, GoodCompleteFiles DEF Handle
<1>7. CASE tool \in {"jira_get_myself", "jira_get_issue", "jira_get_issue_transitions",
                     "jira_add_comment", "jira_transition_issue", "jira_create_issue",
                     "jira_update_issue"}
  BY <1>3, <1>7
     DEF Handle, jiraGetMyself, jiraGetIssue, jiraGetIssueTransitions, jiraAddComment,
         jiraTransitionIssue, jiraCreateIssue, jiraUpdateIssue
<1>8. CASE tool \in {"jira_get_issue_bundle", "jira_search_issues", "jira_get_issue_comments",
                     "jira_list_projects", "jira_export_tasks", "jira_add_attachment"}
  BY <1>8, GoodJira, GoodExport DEF Handle
<1>9. CASE tool \in {"confluence_list_spaces", "confluence_get_page", "confluence_get_page_by_title",
                     "confluence_search_cql", "confluence_get_page_children",
                     "confluence_list_page_attachments", "confluence_download_attachment"}
  BY <1>9, GoodSpaces, GoodConfluence, GoodChildren DEF Handle
<1>10. CASE tool \in {"grafana_health", "grafana_get_current_user", "grafana_get_dashboard",
                      "grafana_get_folder", "grafana_list_datasources", "grafana_get_datasource",
                      "grafana_get_alert", "grafana_get_alert_rule"}
  BY <1>4, <1>10
     DEF Handle, grafanaHealth, grafanaGetCurrentUser, grafanaGetDashboard, grafanaGetFolder,
         grafanaListDatasources, grafanaGetDatasource, grafanaGetAlert, grafanaGetAlertRule
<1>11. CASE tool \in {"grafana_search", "grafana_get_dashboard_summary", "grafana_list_folders",
                      "grafana_query_annotations", "grafana_list_annotation_tags",
                      "grafana_list_alerts", "grafana_list_alert_rules"}
  BY <1>11, GoodGrafana DEF Handle
<1>12. CASE Handle(tool, args, got) = Fail
  BY <1>1, <1>6, <1>12
<1> QED BY <1>5, <1>6, <1>7, <1>8, <1>9, <1>10, <1>11, <1>12 DEF Handle

\* The reply a handler gives, and where it is continued.
LEMMA HandleReply ==
    ASSUME NEW tool, NEW args \in Args, NEW got, GoodAnswers(got),
           Handle(tool, args, got).do = "give"
    PROVE  LET r == Handle(tool, args, got).reply
           IN  /\ DOMAIN r = DOMAIN Plain /\ r.n \in Nat
               /\ tool \notin {"fetch_complete_pr_diff", "fetch_complete_pr_files"} => r.complete = FALSE
               /\ \A next \in Continuation(tool, args, r) :
                      next \in Args /\ next.opts = args.opts /\ next.site = args.site
<1>1. PICK move : move = Handle(tool, args, got)
  OBVIOUS
<1>2. PICK r : r = move.reply
  OBVIOUS
<1>3. /\ DOMAIN r = DOMAIN Plain /\ r.n \in Nat
      /\ r.window # <<>> => r.window[1] \in Nat /\ r.window[2] \in Nat
      /\ r.hasNext \in BOOLEAN /\ (r.hasNext => r.next.at \in Nat)
      /\ tool \notin {"fetch_complete_pr_diff", "fetch_complete_pr_files"} => r.complete = FALSE
  <2>1. CASE tool \notin {"fetch_complete_pr_diff", "fetch_complete_pr_files"}
    <3>1. GoodMove(move) /\ move.do = "give"
      BY <1>1, <2>1, GoodHandle
    <3> QED BY <1>2, <2>1, <3>1 DEF GoodMove, GoodReply
  <2>2. CASE tool \in {"fetch_complete_pr_diff", "fetch_complete_pr_files"}
    <3>1. Completing(move) /\ move.do = "give"
      BY <1>1, <2>2, GoodHandle
    <3>2. PICK q : q = [r EXCEPT !.complete = FALSE]
      OBVIOUS
    <3>3. GoodReply(q) /\ DOMAIN r = DOMAIN Plain
      BY <1>2, <3>1, <3>2 DEF Completing
    <3>4. q.n = r.n /\ q.window = r.window /\ q.hasNext = r.hasNext /\ q.next = r.next
      BY <3>2, <3>3 DEF Plain
    <3> QED BY <2>2, <3>3, <3>4 DEF GoodReply
  <2> QED BY <2>1, <2>2
<1>4. ASSUME NEW next \in Continuation(tool, args, r)
      PROVE  next \in Args /\ next.opts = args.opts /\ next.site = args.site
  <2>1. \/ r.window # <<>> /\ next = [args EXCEPT !.at = r.window[1] + r.window[2]]
        \/ r.hasNext /\ next = [args EXCEPT !.at = r.next.at]
        \/ r.hasNext /\ next = [args EXCEPT !.cursor = r.next.at]
    BY <1>4 DEF Continuation
  <2>2. CASE r.window # <<>> /\ next = [args EXCEPT !.at = r.window[1] + r.window[2]]
    <3>1. PICK n : n = r.window[1] + r.window[2]
      OBVIOUS
    <3>2. n \in Nat
      BY <1>3, <2>2, <3>1
    <3> QED BY <2>2, <3>1, <3>2, Moved
  <2>3. CASE r.hasNext /\ next = [args EXCEPT !.at = r.next.at]
    BY <1>3, <2>3, Moved
  <2>4. CASE r.hasNext /\ next = [args EXCEPT !.cursor = r.next.at]
    BY <1>3, <2>4, Moved
  <2> QED BY <2>1, <2>2, <2>3, <2>4
<1> QED BY <1>1, <1>2, <1>3, <1>4

-----------------------------------------------------------------------------
(* Type correctness                                                        *)

GoodReplies(given) ==
    /\ given \in Seq(Elements(given))
    /\ \A r \in Elements(given) : DOMAIN r = DOMAIN Plain /\ r.n \in Nat

\* The inductive invariant: what a handler has been given is typed in every field, and
\* the arguments stay arguments through every continuation.
Typed ==
    /\ w \in Worlds /\ phase \in {"idle", "run", "done"}
    /\ phase = "idle" => t = "" /\ replies = <<>>
    /\ phase # "idle" => (\E c \in Calls : c.tool = t) /\ a \in Args
    /\ GoodAnswers(rs) /\ GoodReplies(replies)
    /\ Len(replies) <= MaxContinuations + 1
    /\ phase = "run" => Len(replies) <= MaxContinuations
    /\ failed \in BOOLEAN /\ garbled \in BOOLEAN

LEMMA TypedIsOK == Typed => TypeOK
<1>1. SUFFICES ASSUME Typed PROVE TypeOK
  OBVIOUS
<1>2. \A k \in DOMAIN rs : rs[k] \in Elements(rs)
  BY DEF Elements
<1>3. \A k \in DOMAIN replies : replies[k] \in Elements(replies)
  BY DEF Elements
<1>4. \A k \in DOMAIN rs : rs[k].v \in {"refused", "garbled", "whole"} /\ rs[k].n \in Nat
  BY <1>1, <1>2 DEF Typed, GoodAnswers, GoodAnswer
<1>5. \A k \in DOMAIN replies : DOMAIN replies[k] = DOMAIN Plain /\ replies[k].n \in Nat
  BY <1>1, <1>3 DEF Typed, GoodReplies
<1>6. t \in {""} \cup {c.tool : c \in Calls} /\ (t # "" => a \in Args)
  BY <1>1 DEF Typed
<1> QED BY <1>1, <1>4, <1>5, <1>6 DEF Typed, TypeOK

LEMMA NoAnswers == GoodAnswers(<<>>) /\ GoodReplies(<<>>) /\ Len(<<>>) = 0
<1>1. PICK s : s = <<>>
  OBVIOUS
<1>2. Elements(s) = {} /\ (\A S : s \in Seq(S)) /\ Len(s) = 0
  BY <1>1 DEF Elements
<1> QED BY <1>1, <1>2 DEF GoodAnswers, GoodReplies

LEMMA TypedStart == Init => Typed
<1>1. SUFFICES ASSUME Init PROVE Typed
  OBVIOUS
<1>2. GoodReplies(replies) /\ GoodAnswers(rs) /\ Len(replies) = 0
  BY <1>1, NoAnswers DEF Init
<1>3. Len(replies) <= MaxContinuations + 1 /\ Len(replies) <= MaxContinuations
  BY <1>2, FetchAssumption
<1>4. failed \in BOOLEAN /\ garbled \in BOOLEAN
  BY <1>1 DEF Init
<1>5. w \in Worlds /\ phase = "idle" /\ t = "" /\ replies = <<>>
  BY <1>1 DEF Init
<1> QED BY <1>2, <1>3, <1>4, <1>5 DEF Typed

LEMMA GoodAppend ==
    ASSUME NEW got, GoodAnswers(got), NEW v, GoodAnswer(v)
    PROVE  GoodAnswers(Append(got, v))
<1>1. PICK S, r : S = Elements(got) /\ r = Append(got, v)
  OBVIOUS
<1>2. got \in Seq(S) /\ \A x \in S : GoodAnswer(x)
  BY <1>1 DEF GoodAnswers
<1>3. r \in Seq(S \cup {v}) /\ Elements(r) = S \cup {v}
  BY <1>1, <1>2, AppendElements
<1> QED BY <1>1, <1>2, <1>3 DEF GoodAnswers

\* A request of the handler and the answer to it.
LEMMA Asking ==
    ASSUME Typed, NEW answer, Answer(answer)
    PROVE  /\ GoodMove(Outcome) /\ Outcome.do = "ask"
           /\ GoodAnswer(View(Outcome, answer))
           /\ View(Outcome, answer).what = Outcome.what
           /\ View(Outcome, answer).lo = Outcome.lo
           /\ rs' = Append(rs, View(Outcome, answer)) /\ GoodAnswers(rs)'
<1>1. /\ phase = "run" /\ Outcome.do = "ask" /\ a \in Args /\ GoodAnswers(rs) /\ w \in Worlds
      /\ rs' = Append(rs, View(Outcome, answer))
  BY DEF Answer, Typed
<1>2. GoodMove(Outcome)
  BY <1>1, GoodHandle DEF Outcome, Completing
<1>3. PICK v : v = View(Outcome, answer)
  OBVIOUS
<1>4. GoodAnswer(v) /\ v.what = Outcome.what /\ v.lo = Outcome.lo
  BY <1>1, <1>2, <1>3, GoodView
<1>5. GoodAnswers(Append(rs, v))
  BY <1>1, <1>4, GoodAppend
<1>6. GoodAnswers(rs)'
  BY <1>1, <1>3, <1>5 DEF GoodAnswers, Elements
<1> QED BY <1>1, <1>2, <1>3, <1>4, <1>6

LEMMA TypedStep == Typed /\ [Next]_vars => Typed'
<1>1. SUFFICES ASSUME Typed, [Next]_vars PROVE Typed'
  OBVIOUS
<1>2. ASSUME NEW c \in Calls, Call(c)
      PROVE  Typed'
  <2>1. /\ phase' = "run" /\ t' = c.tool /\ a' = c.args /\ rs' = <<>> /\ replies' = <<>>
        /\ w' = w /\ failed' = failed /\ garbled' = garbled /\ replies = <<>>
    BY <1>1, <1>2 DEF Call, Typed
  <2>2. GoodAnswers(rs)' /\ GoodReplies(replies)' /\ Len(replies') = 0
    BY <2>1, NoAnswers DEF GoodAnswers, GoodReplies, Elements
  <2>3. Len(replies') <= MaxContinuations + 1 /\ Len(replies') <= MaxContinuations /\ c.args \in Args
    BY <2>2, FetchAssumption
  <2> QED BY <1>1, <2>1, <2>2, <2>3 DEF Typed
<1>3. ASSUME NEW answer, Answer(answer)
      PROVE  Typed'
  <2>1. /\ w' = w /\ phase' = phase /\ t' = t /\ a' = a /\ replies' = replies /\ failed' = failed
        /\ garbled' \in BOOLEAN
    BY <1>1, <1>3 DEF Answer, Typed
  <2>2. GoodAnswers(rs)' /\ GoodReplies(replies)'
    BY <1>1, <1>3, <2>1, Asking DEF Typed, GoodReplies, Elements
  <2> QED BY <1>1, <2>1, <2>2 DEF Typed
<1>4. ASSUME Return
      PROVE  Typed'
  <2>1. PICK r, next : r = Outcome.reply /\ next = Continuation(t, a, r)
    OBVIOUS
  <2>2. /\ phase = "run" /\ Outcome.do = "give" /\ replies' = Append(replies, r)
        /\ \/ /\ next # {} /\ Len(replies) < MaxContinuations
              /\ a' \in next /\ rs' = <<>> /\ phase' = phase
           \/ phase' = "done" /\ a' = a /\ rs' = rs
        /\ w' = w /\ t' = t /\ failed' = failed /\ garbled' = garbled
    BY <1>4, <2>1 DEF Return
  <2>3. a \in Args /\ GoodAnswers(rs)
    BY <1>1, <2>2 DEF Typed
  <2>4. DOMAIN r = DOMAIN Plain /\ r.n \in Nat /\ next \subseteq Args
    BY <2>1, <2>2, <2>3, HandleReply DEF Outcome
  <2>5. GoodReplies(replies)' /\ Len(replies') = Len(replies) + 1
    <3>1. PICK S, all : S = Elements(replies) /\ all = Append(replies, r)
      OBVIOUS
    <3>2. replies \in Seq(S) /\ \A x \in S : DOMAIN x = DOMAIN Plain /\ x.n \in Nat
      BY <1>1, <3>1 DEF Typed, GoodReplies
    <3>3. all \in Seq(S \cup {r}) /\ Elements(all) = S \cup {r} /\ Len(all) = Len(replies) + 1
      BY <3>1, <3>2, AppendElements
    <3>4. all \in Seq(Elements(all)) /\ \A x \in Elements(all) : DOMAIN x = DOMAIN Plain /\ x.n \in Nat
      BY <2>4, <3>2, <3>3
    <3> QED BY <2>2, <3>1, <3>3, <3>4 DEF GoodReplies, Elements
  <2>6. GoodAnswers(rs)' /\ a' \in Args
    BY <2>2, <2>3, <2>4, NoAnswers DEF GoodAnswers, Elements
  <2>7. Len(replies) \in Nat /\ Len(replies) <= MaxContinuations
    BY <1>1, <2>2 DEF Typed, GoodReplies
  <2>8. /\ Len(replies') <= MaxContinuations + 1
        /\ phase' = "run" => Len(replies') <= MaxContinuations
    BY <2>2, <2>5, <2>7, FetchAssumption
  <2>9. phase' \in {"run", "done"} /\ t' = t /\ w' = w /\ failed' = failed /\ garbled' = garbled
    BY <2>2
  <2>10. (\E c \in Calls : c.tool = t) /\ w \in Worlds /\ failed \in BOOLEAN /\ garbled \in BOOLEAN
    BY <1>1, <2>2 DEF Typed
  <2> QED BY <2>5, <2>6, <2>8, <2>9, <2>10 DEF Typed
<1>5. ASSUME ReturnError
      PROVE  Typed'
  <2>1. /\ phase = "run" /\ phase' = "done" /\ failed' = TRUE /\ w' = w /\ t' = t /\ a' = a
        /\ rs' = rs /\ replies' = replies /\ garbled' = garbled
    BY <1>5 DEF ReturnError
  <2>2. GoodAnswers(rs)' /\ GoodReplies(replies)' /\ Len(replies') <= MaxContinuations + 1
    BY <1>1, <2>1 DEF Typed, GoodAnswers, GoodReplies, Elements
  <2>3. failed' \in BOOLEAN /\ garbled' \in BOOLEAN /\ w' \in Worlds
    BY <1>1, <2>1 DEF Typed
  <2>4. (\E c \in Calls : c.tool = t') /\ a' \in Args /\ phase' = "done"
    BY <1>1, <2>1 DEF Typed
  <2> QED BY <2>2, <2>3, <2>4 DEF Typed
<1>6. ASSUME NextStep
      PROVE  Typed'
  <2>1. /\ phase' = "idle" /\ t' = "" /\ rs' = <<>> /\ replies' = <<>> /\ w' = w
        /\ failed' = FALSE /\ garbled' = FALSE
    BY <1>6 DEF NextStep
  <2>2. GoodAnswers(rs)' /\ GoodReplies(replies)' /\ Len(replies') = 0
    BY <2>1, NoAnswers DEF GoodAnswers, GoodReplies, Elements
  <2>3. Len(replies') <= MaxContinuations + 1 /\ Len(replies') <= MaxContinuations
    BY <2>2, FetchAssumption
  <2>4. failed' \in BOOLEAN /\ garbled' \in BOOLEAN /\ phase' = "idle" /\ t' = "" /\ replies' = <<>> /\ w' = w
    BY <2>1
  <2> QED BY <1>1, <2>2, <2>3, <2>4 DEF Typed
<1>7. ASSUME UNCHANGED vars
      PROVE  Typed'
  BY <1>1, <1>7 DEF vars, Typed, GoodAnswers, GoodReplies, Elements
<1> QED BY <1>1, <1>2, <1>3, <1>4, <1>5, <1>6, <1>7 DEF Next

\* Type correctness: whatever the services hold and answer, a handler is given typed
\* answers and its replies are records of a reply's fields, at most maxContinuations and
\* one of them (the handlers of internal/tools, createContinuationStep).
THEOREM AnswersTyped == Spec => []TypeOK
<1>1. Init => Typed
  BY TypedStart
<1>2. Typed /\ [Next]_vars => Typed'
  BY TypedStep
<1>3. Typed => TypeOK
  BY TypedIsOK
<1> QED BY <1>1, <1>2, <1>3, PTL DEF Spec

-----------------------------------------------------------------------------
(* Failures                                                                *)

\* A handler of one request asks for it first, and fails with it.
OneShot(move, got) ==
    /\ move.do = "ask" => got = <<>>
    /\ got # <<>> /\ Refused(got[1]) => move = Fail

LEMMA OneShotGitHub ==
    ASSUME NEW args, NEW got
    PROVE  /\ \A tool, what : OneShot(PageOf(tool, what, args, got), got)
           /\ OneShot(getPullRequestDetails(args, got), got)
           /\ OneShot(getPullRequestDiff(args, got), got)
           /\ OneShot(getPullRequestFileDiff(args, got), got)
           /\ OneShot(getFileAtRef(args, got), got)
           /\ OneShot(listPullRequestFiles(args, got), got)
           /\ OneShot(listPullRequestCommits(args, got), got)
           /\ OneShot(githubListWorkflowRuns(args, got), got)
           /\ OneShot(githubListWorkflowJobs(args, got), got)
<1>1. \A tool, what : OneShot(PageOf(tool, what, args, got), got)
  BY DEF OneShot, PageOf, Once, Fail, Give
<1>2. OneShot(Fail, got)
  BY DEF OneShot, Fail
<1>3. OneShot(getPullRequestDetails(args, got), got)
  BY DEF OneShot, getPullRequestDetails, Once, Fail, Give
<1>4. OneShot(getPullRequestDiff(args, got), got)
  BY DEF OneShot, getPullRequestDiff, Once, Fail, Give
<1>5. OneShot(getPullRequestFileDiff(args, got), got)
  BY DEF OneShot, getPullRequestFileDiff, Once, Fail, Give
<1>6. OneShot(getFileAtRef(args, got), got)
  BY DEF OneShot, getFileAtRef, Once, Fail, Give
<1>7. OneShot(githubListWorkflowRuns(args, got), got) /\ OneShot(githubListWorkflowJobs(args, got), got)
  BY <1>1, <1>2 DEF githubListWorkflowRuns, githubListWorkflowJobs
<1>8. OneShot(listPullRequestFiles(args, got), got) /\ OneShot(listPullRequestCommits(args, got), got)
  BY <1>1 DEF listPullRequestFiles, listPullRequestCommits
<1> QED BY <1>1, <1>3, <1>4, <1>5, <1>6, <1>7, <1>8

LEMMA OneShotJira ==
    ASSUME NEW args, NEW got
    PROVE  /\ \A what, ok : OneShot(Single(what, ok, args, got), got)
           /\ \A tool, what : OneShot(WindowOf(tool, what, args, got), got)
           /\ OneShot(jiraListProjects(args, got), got)
<1>1. \A what, ok : OneShot(Single(what, ok, args, got), got)
  BY DEF OneShot, Single, Once, Fail, Give
<1>2. \A tool, what : OneShot(WindowOf(tool, what, args, got), got)
  BY DEF OneShot, WindowOf, Once, Fail, Give
<1> QED BY <1>1, <1>2 DEF jiraListProjects

LEMMA OneShotConfluence ==
    ASSUME NEW args, NEW got
    PROVE  /\ OneShot(confluenceListSpaces(args, got), got)
           /\ OneShot(confluenceGetPage(args, got), got)
           /\ OneShot(confluenceGetPageByTitle(args, got), got)
           /\ OneShot(confluenceSearchCQL(args, got), got)
           /\ OneShot(confluenceGetPageChildren(args, got), got)
           /\ OneShot(confluenceListPageAttachments(args, got), got)
<1>1. OneShot(confluenceListSpaces(args, got), got)
  BY DEF OneShot, confluenceListSpaces, Once, Fail, Give
<1>2. OneShot(confluenceGetPage(args, got), got)
  BY DEF OneShot, confluenceGetPage, Once, Fail, Give
<1>3. OneShot(confluenceGetPageByTitle(args, got), got)
  BY DEF OneShot, confluenceGetPageByTitle, Once, Fail, Give
<1>4. OneShot(confluenceSearchCQL(args, got), got)
  BY DEF OneShot, confluenceSearchCQL, Once, Fail, Give
<1>5. OneShot(confluenceGetPageChildren(args, got), got)
  BY DEF OneShot, confluenceGetPageChildren, Children, Once, Fail, Give
<1>6. OneShot(confluenceListPageAttachments(args, got), got)
  BY DEF OneShot, confluenceListPageAttachments, Children, Once, Fail, Give
<1> QED BY <1>1, <1>2, <1>3, <1>4, <1>5, <1>6

LEMMA OneShotGrafana ==
    ASSUME NEW args, NEW got
    PROVE  /\ \A what, noAuth : OneShot(Record(what, noAuth, args, got), got)
           /\ \A tool, what : OneShot(ByPage(tool, what, args, got), got)
           /\ \A tool, what, noAuth : OneShot(FirstPage(tool, what, noAuth, args, got), got)
           /\ OneShot(grafanaGetDashboardSummary(args, got), got)
<1>1. \A what, noAuth : OneShot(Record(what, noAuth, args, got), got)
  BY DEF OneShot, Record, Once, Fail, Give
<1>2. \A tool, what : OneShot(ByPage(tool, what, args, got), got)
  BY DEF OneShot, ByPage, Once, Fail, Give
<1>3. \A tool, what, noAuth : OneShot(FirstPage(tool, what, noAuth, args, got), got)
  BY DEF OneShot, FirstPage, Once, Fail, Give
<1>4. OneShot(grafanaGetDashboardSummary(args, got), got)
  BY DEF OneShot, grafanaGetDashboardSummary, Once, Fail, Give
<1> QED BY <1>1, <1>2, <1>3, <1>4

\* The tools of one request are all but these.
TwoSteps == {"get_pull_request_checks", "fetch_complete_pr_diff", "github_download_job_logs",
             "jira_add_attachment", "confluence_download_attachment"}
Loops == {"get_pull_request_summary", "fetch_complete_pr_files"}
Lenient == {"prepare_pull_request_review_bundle", "jira_export_tasks", "grafana_list_alert_rules"}

LEMMA OneShotHandle ==
    ASSUME NEW tool, tool \notin TwoSteps \cup Loops \cup Lenient \cup {"jira_get_issue_bundle"},
           NEW args, NEW got
    PROVE  OneShot(Handle(tool, args, got), got)
<1>1. OneShot(Fail, got)
  BY DEF OneShot, Fail
<1>2. CASE tool \in {"get_pull_request_details", "list_pull_request_files", "get_pull_request_diff",
                     "get_pull_request_file_diff", "get_file_at_ref", "list_pull_request_commits",
                     "github_list_workflow_runs", "github_list_workflow_jobs"}
  BY <1>2, OneShotGitHub DEF Handle
<1>3. CASE tool \in {"jira_get_myself", "jira_get_issue", "jira_search_issues",
                     "jira_get_issue_comments", "jira_get_issue_transitions", "jira_list_projects",
                     "jira_add_comment", "jira_transition_issue", "jira_create_issue",
                     "jira_update_issue"}
  BY <1>3, OneShotJira
     DEF Handle, jiraGetMyself, jiraGetIssue, jiraSearchIssues, jiraGetIssueComments,
         jiraGetIssueTransitions, jiraAddComment, jiraTransitionIssue, jiraCreateIssue,
         jiraUpdateIssue
<1>4. CASE tool \in {"confluence_list_spaces", "confluence_get_page", "confluence_get_page_by_title",
                     "confluence_search_cql", "confluence_get_page_children",
                     "confluence_list_page_attachments"}
  BY <1>4, OneShotConfluence DEF Handle
<1>5. CASE tool \in {"grafana_health", "grafana_get_current_user", "grafana_get_dashboard",
                     "grafana_get_folder", "grafana_list_datasources", "grafana_get_datasource",
                     "grafana_get_alert", "grafana_get_alert_rule"}
  BY <1>5, OneShotGrafana
     DEF Handle, grafanaHealth, grafanaGetCurrentUser, grafanaGetDashboard, grafanaGetFolder,
         grafanaListDatasources, grafanaGetDatasource, grafanaGetAlert, grafanaGetAlertRule
<1>6. CASE tool \in {"grafana_search", "grafana_get_dashboard_summary", "grafana_list_folders",
                     "grafana_query_annotations", "grafana_list_annotation_tags",
                     "grafana_list_alerts"}
  BY <1>6, OneShotGrafana
     DEF Handle, grafanaSearch, grafanaListFolders, grafanaQueryAnnotations,
         grafanaListAnnotationTags, grafanaListAlerts
<1>7. CASE Handle(tool, args, got) = Fail
  BY <1>1, <1>7
<1> QED BY <1>2, <1>3, <1>4, <1>5, <1>6, <1>7 DEF Handle, TwoSteps, Loops, Lenient

\* A handler of two requests, one after the other.
TwoShot(move, got) ==
    /\ move.do = "ask" => got = <<>> \/ Tail(got) = <<>>
    /\ got # <<>> /\ Refused(got[1]) => move = Fail
    /\ got # <<>> /\ Tail(got) # <<>> /\ Refused(Tail(got)[1]) => move = Fail

LEMMA TwoShotHandle ==
    ASSUME NEW tool \in TwoSteps, NEW args, NEW got
    PROVE  TwoShot(Handle(tool, args, got), got)
<1>1. TwoShot(getPullRequestChecks(args, got), got)
  BY DEF TwoShot, getPullRequestChecks, getPullRequestDetails, Once, Fail, Give, Refused
<1>2. TwoShot(fetchCompletePRDiff(args, got), got)
  BY DEF TwoShot, fetchCompletePRDiff, Once, Fail, Give, One, Ask
<1>3. TwoShot(githubDownloadJobLogs(args, got), got)
  BY DEF TwoShot, githubDownloadJobLogs, Once, Fail, Give, One, Ask
<1>4. TwoShot(jiraAddAttachment(args, got), got)
  BY DEF TwoShot, jiraAddAttachment, Once, Fail, Give, One, Ask
<1>5. TwoShot(confluenceDownloadAttachment(args, got), got)
  BY DEF TwoShot, confluenceDownloadAttachment, Once, Fail, Give, One, Ask
<1> QED BY <1>1, <1>2, <1>3, <1>4, <1>5 DEF TwoSteps, Handle

LEMMA Last ==
    ASSUME NEW S, NEW got \in Seq(S), NEW v
    PROVE  LET all == Append(got, v)
           IN  /\ Len(all) = Len(got) + 1 /\ Len(all) \in Nat /\ all # <<>> /\ all[Len(all)] = v
               /\ got = <<>> => all[1] = v
               /\ got # <<>> => all[1] = got[1]
               /\ got # <<>> /\ Tail(got) = <<>> => Tail(all) # <<>> /\ Tail(all)[1] = v
<1>1. PICK all : all = Append(got, v)
  OBVIOUS
<1>2. /\ Len(all) = Len(got) + 1 /\ Len(got) \in Nat /\ all[Len(got) + 1] = v
      /\ \A k \in 1..Len(got) : all[k] = got[k]
      /\ all \in Seq(S \cup {v})
  BY <1>1
<1>3. got = <<>> => all[1] = v
  BY <1>2
<1>4. got # <<>> => all[1] = got[1]
  BY <1>2
<1>5. got # <<>> /\ Tail(got) = <<>> => Tail(all) # <<>> /\ Tail(all)[1] = v
  <2>1. SUFFICES ASSUME got # <<>>, Tail(got) = <<>>
                 PROVE  Tail(all) # <<>> /\ Tail(all)[1] = v
    OBVIOUS
  <2>2. got \in Seq(S) /\ got # <<>> /\ Len(<<>>) = 0
    BY <2>1
  <2>3. Len(Tail(got)) = Len(got) - 1
    BY <2>2
  <2>4. Len(got) = 1
    BY <1>2, <2>1, <2>2, <2>3
  <2>5. Len(all) = 2 /\ all[2] = v
    <3>1. Len(got) + 1 = 2
      BY <2>4
    <3> QED BY <1>2, <3>1
  <2>6. all \in Seq(S \cup {v}) /\ all # <<>>
    BY <1>2, <2>2, <2>5
  <2>7. Len(Tail(all)) = Len(all) - 1 /\ (Len(all) = 2 => Tail(all)[1] = all[2])
    BY <2>6
  <2>8. Len(Tail(all)) = 1
    BY <2>5, <2>7
  <2>9. Tail(all)[1] = v
    BY <2>5, <2>7
  <2> QED BY <2>2, <2>8, <2>9, SMTT(30)
<1>6. Len(all) \in Nat /\ all # <<>> /\ all[Len(all)] = v
  BY <1>2
<1> QED BY <1>1, <1>2, <1>3, <1>4, <1>5, <1>6

LEMMA LoopFails ==
    ASSUME NEW S, NEW got \in Seq(S), NEW v, Refused(v), NEW tool
    PROVE  FilesLoop(tool, Append(got, v)) = Fail
BY Last DEF FilesLoop

\* A refused request is the end of the handler, and of the step.
LEMMA Strict ==
    ASSUME NEW tool, tool \notin Lenient, NEW args, NEW got, GoodAnswers(got),
           Handle(tool, args, got).do = "ask",
           NEW v, Refused(v), v.what = Handle(tool, args, got).what
    PROVE  Handle(tool, args, Append(got, v)).do = "fail"
<1>1. PICK S, all : got \in Seq(S) /\ all = Append(got, v)
  BY DEF GoodAnswers
<1>2. Fail.do = "fail"
  BY DEF Fail
<1>3. CASE tool \notin TwoSteps \cup Loops \cup Lenient \cup {"jira_get_issue_bundle"}
  <2>1. got = <<>>
    BY <1>3, OneShotHandle DEF OneShot
  <2>2. all # <<>> /\ all[1] = v
    BY <1>1, <2>1, Last
  <2>3. Handle(tool, args, all) = Fail
    BY <1>3, <2>2, OneShotHandle DEF OneShot
  <2> QED BY <1>1, <1>2, <2>3
<1>4. CASE tool \in TwoSteps
  <2>1. got = <<>> \/ Tail(got) = <<>>
    BY <1>4, TwoShotHandle DEF TwoShot
  <2>2. /\ all # <<>>
        /\ got = <<>> => all[1] = v
        /\ got # <<>> => Tail(all) # <<>> /\ Tail(all)[1] = v
    BY <1>1, <2>1, Last
  <2>3. Handle(tool, args, all) = Fail
    BY <1>4, <2>2, TwoShotHandle DEF TwoShot
  <2> QED BY <1>1, <1>2, <2>3
<1> DEFINE part(what) == Of(got, what)
           next(what) == Of(all, what)
<1>5. \A what : /\ part(what) \in Seq(S)
                /\ next(what) = IF v.what = what THEN Append(part(what), v) ELSE part(what)
  BY <1>1, OfElements, OfNext
<1>6. CASE tool \in Loops
  <2>1. \A other, what : v.what = what => FilesLoop(other, next(what)) = Fail
    BY <1>5, LoopFails
  <2>2. CASE tool = "get_pull_request_summary"
    <3>1. PICK details, files : /\ details = getPullRequestDetails(args, part("pr"))
                                /\ files = FilesLoop("get_pull_request_summary", part("files"))
      OBVIOUS
    <3>2. Handle(tool, args, got) =
              IF details.do # "give" THEN details
              ELSE IF files.do # "give" THEN files ELSE Give(ItemsOf(part("files")))
      BY <2>2, <3>1 DEF Handle, getPullRequestSummary
    <3>3. CASE details.do # "give"
      <4>1. details.do = "ask" /\ v.what = details.what
        BY <3>2, <3>3
      <4>2. part("pr") = <<>> /\ v.what = "pr"
        BY <3>1, <4>1 DEF getPullRequestDetails, Once, Fail, Give, One, Ask
      <4>3. next("pr") # <<>> /\ next("pr")[1] = v
        BY <1>5, <4>2, Last
      <4>4. getPullRequestDetails(args, next("pr")) = Fail
        BY <4>3, OneShotGitHub DEF OneShot
      <4> QED BY <1>1, <1>2, <2>2, <4>4 DEF Handle, getPullRequestSummary
    <3>4. CASE details.do = "give"
      <4>1. files.do = "ask" /\ v.what = files.what
        BY <3>2, <3>4 DEF Give
      <4>2. v.what = "files"
        BY <3>1, <4>1 DEF FilesLoop, Fail, Give, Ask
      <4>3. FilesLoop("get_pull_request_summary", next("files")) = Fail /\ next("pr") = part("pr")
        BY <1>5, <2>1, <4>2
      <4> QED BY <1>1, <1>2, <2>2, <3>1, <3>4, <4>3 DEF Handle, getPullRequestSummary
    <3> QED BY <3>3, <3>4
  <2>3. CASE tool = "fetch_complete_pr_files"
    <3>1. PICK files, write :
              /\ files = FilesLoop("fetch_complete_pr_files", part("files"))
              /\ write = part("write")
      OBVIOUS
    <3>2. args.fit /\ (files.do # "give" => Handle(tool, args, got) = files)
      BY <2>3, <3>1 DEF Handle, fetchCompletePRFiles, Fail
    <3>3. CASE files.do # "give"
      <4>1. files.do = "ask" /\ v.what = files.what
        BY <3>2, <3>3
      <4>2. v.what = "files"
        BY <3>1, <4>1 DEF FilesLoop, Fail, Give, Ask
      <4>3. FilesLoop("fetch_complete_pr_files", next("files")) = Fail
        BY <2>1, <4>2
      <4> QED BY <1>1, <1>2, <2>3, <4>3 DEF Handle, fetchCompletePRFiles
    <3>4. CASE files.do = "give"
      <4>1. write = <<>> /\ v.what = "write"
        BY <2>3, <3>1, <3>2, <3>4
           DEF Handle, fetchCompletePRFiles, Once, Fail, Give, One, Ask
      <4>2. next("write") # <<>> /\ next("write")[1] = v /\ next("files") = part("files")
        BY <1>5, <3>1, <4>1, Last
      <4> QED BY <1>1, <1>2, <2>3, <3>1, <3>4, <4>2 DEF Handle, fetchCompletePRFiles, Once
    <3> QED BY <3>3, <3>4
  <2> QED BY <1>6, <2>2, <2>3 DEF Loops
<1>7. CASE tool = "jira_get_issue_bundle"
  <2>1. PICK ok \in BOOLEAN : ok = (args.size >= 0 /\ args.at >= 0)
    OBVIOUS
  <2>2. PICK issue, comments, issueNext, commentsNext :
            /\ issue = Single("issue", ok, args, part("issue"))
            /\ comments = WindowOf("jira_get_issue_bundle", "comments", args, part("comments"))
            /\ issueNext = Single("issue", ok, args, next("issue"))
            /\ commentsNext = WindowOf("jira_get_issue_bundle", "comments", args, next("comments"))
    OBVIOUS
  <2>3. /\ Handle(tool, args, got) =
               IF issue.do # "give" \/ "comments" \notin args.opts THEN issue
               ELSE IF comments.do # "give" THEN comments
               ELSE Give([comments.reply EXCEPT !.window = <<>>])
        /\ Handle(tool, args, all) =
               IF issueNext.do # "give" \/ "comments" \notin args.opts THEN issueNext
               ELSE IF commentsNext.do # "give" THEN commentsNext
               ELSE Give([commentsNext.reply EXCEPT !.window = <<>>])
    BY <1>7, <2>1, <2>2 DEF Handle, jiraGetIssueBundle
  <2>4. CASE issue.do # "give" \/ "comments" \notin args.opts
    <3>1. issue.do = "ask" /\ v.what = issue.what
      BY <2>3, <2>4
    <3>2. part("issue") = <<>> /\ v.what = "issue"
      BY <2>2, <3>1 DEF Single, Once, Fail, Give, One, Ask
    <3>3. next("issue") # <<>> /\ next("issue")[1] = v
      BY <1>5, <3>2, Last
    <3>4. issueNext = Fail
      BY <2>2, <3>3, OneShotJira DEF OneShot
    <3> QED BY <1>1, <1>2, <2>3, <3>4
  <2>5. CASE issue.do = "give" /\ "comments" \in args.opts
    <3>1. comments.do = "ask" /\ v.what = comments.what
      BY <2>3, <2>5 DEF Give
    <3>2. part("comments") = <<>> /\ v.what = "comments"
      BY <2>2, <3>1 DEF WindowOf, Once, Fail, Give, Ask
    <3>3. next("comments") # <<>> /\ next("comments")[1] = v /\ next("issue") = part("issue")
      BY <1>5, <3>2, Last
    <3>4. commentsNext = Fail /\ issueNext = issue
      BY <2>2, <3>3, OneShotJira DEF OneShot
    <3> QED BY <1>1, <1>2, <2>3, <2>5, <3>4
  <2> QED BY <2>4, <2>5
<1> QED BY <1>3, <1>4, <1>6, <1>7

LEMMA TwoShotChecks ==
    ASSUME NEW args, NEW got
    PROVE  TwoShot(getPullRequestChecks(args, got), got)
BY TwoShotHandle DEF TwoSteps, Handle

LEMMA SingleTail ==
    ASSUME NEW S, NEW s \in Seq(S), s # <<>>, Tail(s) = <<>>
    PROVE  Len(s) = 1
<1>1. Len(Tail(s)) = Len(s) - 1 /\ Len(s) \in Nat
  OBVIOUS
<1>2. Len(Tail(s)) = 0
  <2>1. Len(<<>>) = 0
    OBVIOUS
  <2> QED BY <2>1
<1> QED BY <1>1, <1>2

\* The alert rules: the provisioning API may refuse.
AlertHistory(args, got) ==
    \/ got = <<>>
    \/ got[1].what = "provisioned rules" /\ \A k \in DOMAIN got : Refused(got[k]) => k = 1
    \/ grafanaListAlertRules(args, got).do = "fail"

LEMMA AlertNext ==
    ASSUME NEW args, NEW got, GoodAnswers(got), AlertHistory(args, got),
           grafanaListAlertRules(args, got).do = "ask",
           NEW v, v.what = grafanaListAlertRules(args, got).what
    PROVE  AlertHistory(args, Append(got, v))
<1>1. PICK S, all : got \in Seq(S) /\ all = Append(got, v)
  BY DEF GoodAnswers
<1>2. /\ Len(all) = Len(got) + 1 /\ all # <<>> /\ all[Len(all)] = v
      /\ got = <<>> => all[1] = v
      /\ got # <<>> => all[1] = got[1]
      /\ got # <<>> /\ Tail(got) = <<>> => Tail(all) # <<>> /\ Tail(all)[1] = v
      /\ all \in Seq(S \cup {v}) /\ Len(got) \in Nat
  <2>1. all \in Seq(S \cup {v}) /\ Len(got) \in Nat
    BY <1>1
  <2> QED BY <1>1, <2>1, Last
<1>3. CASE got = <<>>
  <2>1. v.what = "provisioned rules"
    BY <1>3 DEF grafanaListAlertRules, Record, Once, Fail, One, Ask
  <2>2. Len(all) = 1 /\ DOMAIN all = {1}
    <3>1. Len(got) = 0
      BY <1>3
    <3> QED BY <1>2, <3>1
  <2>3. all[1].what = "provisioned rules" /\ \A k \in DOMAIN all : Refused(all[k]) => k = 1
    BY <1>2, <1>3, <2>1, <2>2
  <2> QED BY <1>1, <2>3 DEF AlertHistory
<1>4. CASE got # <<>>
  <2>1. Refused(got[1])
    <3>1. CASE ~Refused(got[1])
      <4>1. grafanaListAlertRules(args, got) = Record("provisioned rules", TRUE, args, got)
        BY <3>1 DEF grafanaListAlertRules
      <4> QED BY <1>4, <4>1, OneShotGrafana DEF OneShot
    <3> QED BY <3>1
  <2>2. Tail(got) = <<>>
    <3>1. grafanaListAlertRules(args, got) = Record("ruler rules", TRUE, args, Tail(got))
      BY <1>4, <2>1 DEF grafanaListAlertRules
    <3> QED BY <3>1, OneShotGrafana DEF OneShot
  <2>3. grafanaListAlertRules(args, all) = Record("ruler rules", TRUE, args, Tail(all))
    BY <1>2, <1>4, <2>1 DEF grafanaListAlertRules
  <2>4. CASE Refused(v)
    <3>1. grafanaListAlertRules(args, all) = Fail
      BY <1>2, <1>4, <2>2, <2>3, <2>4, OneShotGrafana DEF OneShot
    <3>2. grafanaListAlertRules(args, all).do = "fail"
      BY <3>1 DEF Fail
    <3>3. AlertHistory(args, all)
      BY <3>2, Zenon DEF AlertHistory
    <3> QED BY <1>1, <3>3
  <2>5. CASE ~Refused(v)
    <3>1. Len(got) = 1
      BY <1>1, <1>4, <2>2, SingleTail
    <3>2. DOMAIN all = {1, 2} /\ all[2] = v
      BY <1>2, <3>1
    <3>3. \A k \in DOMAIN all : Refused(all[k]) => k = 1
      BY <2>5, <3>2
    <3>4. all[1].what = "provisioned rules"
      BY <1>2, <1>4 DEF AlertHistory
    <3>5. AlertHistory(args, all)
      BY <3>3, <3>4, Zenon DEF AlertHistory
    <3> QED BY <1>1, <3>5
  <2> QED BY <2>4, <2>5
<1> QED BY <1>3, <1>4

\* The bundle: each part once, the checks after a second look at the pull request.
BundleHistory(args, got) ==
    /\ \A v \in Elements(got) : v.what \in {"pr", "files", "diff", "commits", "checks"}
    /\ Len(Of(got, "pr")) <= 2
    /\ \A what \in {"files", "diff", "commits", "checks"} : Len(Of(got, what)) <= 1
    /\ Of(got, "checks") # <<>> => Len(Of(got, "pr")) = 2
    /\ Len(Of(got, "pr")) = 2 => "checks" \in args.opts
    /\ \A what \in {"diff", "commits"} : Of(got, what) # <<>> => what \in args.opts

LEMMA FewElements ==
    ASSUME NEW S, NEW s \in Seq(S), NEW v \in Elements(s)
    PROVE  /\ Len(s) <= 1 => s # <<>> /\ Len(s) = 1 /\ s[1] = v
           /\ Len(s) <= 2 => s # <<>> /\ (s[1] = v \/ (Len(s) = 2 /\ s[2] = v))
<1>1. PICK k \in DOMAIN s : s[k] = v
  BY DEF Elements
<1>2. PICK n \in Nat : n = Len(s)
  OBVIOUS
<1>3. k \in 1..n /\ s # <<>>
  BY <1>2
<1>4. (n <= 1 => n = 1 /\ k = 1) /\ (n <= 2 => k = 1 \/ (n = 2 /\ k = 2))
  BY <1>3
<1> QED BY <1>1, <1>2, <1>3, <1>4

\* What the fifth part of a bundle looks at.
LEMMA CheckedPart ==
    ASSUME NEW S, NEW pr \in Seq(S), NEW checks \in Seq(S)
    PROVE  LET seen == SubSeq(pr, 2, Len(pr)) \o checks
               head == SubSeq(pr, 1, Least(1, Len(pr)))
           IN  /\ head = <<>> <=> Len(pr) = 0
               /\ Len(pr) >= 1 => head # <<>> /\ head[1] = pr[1]
               /\ Len(pr) >= 1 /\ seen = <<>> => Len(pr) = 1 /\ checks = <<>>
               /\ Len(pr) >= 1 /\ seen # <<>> /\ Tail(seen) = <<>> => Len(pr) + Len(checks) = 2
               /\ Len(pr) = 2 => seen # <<>> /\ seen[1] = pr[2]
               /\ Len(pr) = 2 /\ checks # <<>> => Tail(seen) # <<>> /\ Tail(seen)[1] = checks[1]
<1>1. PICK rest, seen, head : /\ rest = SubSeq(pr, 2, Len(pr)) /\ seen = rest \o checks
                              /\ head = SubSeq(pr, 1, Least(1, Len(pr)))
  OBVIOUS
<1>2. Len(pr) \in Nat /\ Len(checks) \in Nat /\ Len(<<>>) = 0
  OBVIOUS
<1>3. /\ rest \in Seq(S) /\ Len(rest) = IF Len(pr) >= 1 THEN Len(pr) - 1 ELSE 0
      /\ \A k \in 1..Len(rest) : rest[k] = pr[k + 1]
  BY <1>1
<1>4. /\ seen \in Seq(S) /\ Len(seen) = Len(rest) + Len(checks)
      /\ \A k \in 1..Len(rest) : seen[k] = rest[k]
      /\ \A k \in 1..Len(checks) : seen[Len(rest) + k] = checks[k]
  BY <1>1, <1>3
<1>5. head = <<>> <=> Len(pr) = 0
  <2>1. Len(pr) = 0 => head = <<>>
    BY <1>1 DEF Least
  <2>2. Len(pr) # 0 => head # <<>>
    <3>1. PICK n \in Nat : n = Len(pr)
      BY <1>2
    <3>2. n # 0 => Least(1, n) = 1
      BY DEF Least
    <3>3. n # 0 => Len(SubSeq(pr, 1, 1)) = 1
      BY <3>1
    <3>4. n # 0 => head = SubSeq(pr, 1, 1)
      BY <1>1, <3>1, <3>2
    <3>5. n # 0 => Len(head) = 1
      BY <3>3, <3>4
    <3>6. ASSUME n # 0, head = <<>>
          PROVE  FALSE
      <4>1. Len(head) = 0
        BY <3>6
      <4> QED BY <3>5, <3>6, <4>1
    <3> QED BY <3>1, <3>6
  <2> QED BY <2>1, <2>2
<1>6. Len(pr) >= 1 => head # <<>> /\ head[1] = pr[1]
  <2>1. Len(pr) >= 1 => Least(1, Len(pr)) = 1
    BY <1>2 DEF Least
  <2> QED BY <1>1, <1>2, <2>1
<1>7. Len(pr) >= 1 /\ seen = <<>> => Len(pr) = 1 /\ checks = <<>>
  <2>1. SUFFICES ASSUME Len(pr) >= 1, seen = <<>>
                 PROVE  Len(pr) = 1 /\ checks = <<>>
    OBVIOUS
  <2>2. Len(seen) = 0
    BY <1>2, <2>1
  <2>3. Len(rest) = Len(pr) - 1
    BY <1>3, <2>1
  <2>4. Len(pr) = 1 /\ Len(checks) = 0
    BY <1>2, <1>4, <2>1, <2>2, <2>3
  <2> QED BY <2>4
<1>8. Len(pr) >= 1 /\ seen # <<>> /\ Tail(seen) = <<>> => Len(pr) + Len(checks) = 2
  <2>1. SUFFICES ASSUME Len(pr) >= 1, seen # <<>>, Tail(seen) = <<>>
                 PROVE  Len(pr) + Len(checks) = 2
    OBVIOUS
  <2>2. Len(Tail(seen)) = Len(seen) - 1
    BY <1>4, <2>1
  <2>3. Len(Tail(seen)) = 0
    BY <1>2, <2>1
  <2>4. Len(rest) = Len(pr) - 1 /\ Len(seen) \in Nat
    BY <1>3, <1>4, <2>1
  <2> QED BY <1>2, <1>4, <2>2, <2>3, <2>4
<1>9. Len(pr) = 2 => seen # <<>> /\ seen[1] = pr[2]
  <2>1. SUFFICES ASSUME Len(pr) = 2
                 PROVE  seen # <<>> /\ seen[1] = pr[2]
    OBVIOUS
  <2>2. Len(rest) = 1
    BY <1>3, <2>1
  <2>3. rest[1] = pr[2] /\ seen[1] = rest[1]
    <3>1. 1 \in 1..Len(rest) /\ 1 + 1 = 2
      BY <2>2
    <3> QED BY <1>3, <1>4, <3>1
  <2>4. Len(seen) # 0
    BY <1>2, <1>4, <2>2
  <2> QED BY <1>2, <2>3, <2>4
<1>10. Len(pr) = 2 /\ checks # <<>> => Tail(seen) # <<>> /\ Tail(seen)[1] = checks[1]
  <2>1. SUFFICES ASSUME Len(pr) = 2, checks # <<>>
                 PROVE  Tail(seen) # <<>> /\ Tail(seen)[1] = checks[1]
    OBVIOUS
  <2>2. Len(rest) = 1 /\ Len(checks) >= 1
    BY <1>2, <1>3, <2>1
  <2>3. seen[2] = checks[1] /\ Len(seen) >= 2
    BY <1>2, <1>4, <2>2
  <2>4. PICK late : late = Tail(seen)
    OBVIOUS
  <2>5. Len(seen) >= 2 => Len(late) >= 1 /\ late[1] = seen[2]
    BY <1>4, <2>4
  <2>6. Len(late) >= 1 /\ late[1] = checks[1]
    BY <2>3, <2>5
  <2>7. late # <<>>
    BY <1>2, <2>6
  <2> QED BY <2>4, <2>6, <2>7
<1> QED BY <1>1, <1>5, <1>6, <1>7, <1>8, <1>9, <1>10

\* The part of a bundle that is fetched next: one that is asked for and not there.
LEMMA BundleAsks ==
    ASSUME NEW args \in Args, NEW got, GoodAnswers(got), BundleHistory(args, got),
           preparePullRequestReviewBundle(args, got).do = "ask"
    PROVE  LET what == preparePullRequestReviewBundle(args, got).what
           IN  \/ what = "pr" /\ Len(Of(got, "pr")) = 0
               \/ what = "pr" /\ Len(Of(got, "pr")) = 1 /\ Len(Of(got, "checks")) = 0
                  /\ "checks" \in args.opts
               \/ what = "files" /\ Len(Of(got, "files")) = 0
               \/ /\ what \in {"diff", "commits"} /\ Len(Of(got, what)) = 0 /\ what \in args.opts
               \/ what = "checks" /\ Len(Of(got, "checks")) = 0 /\ Len(Of(got, "pr")) = 2
<1> DEFINE part(what) == Of(got, what)
           pr    == part("pr")
           inner == [args EXCEPT !.at = 0, !.size = 0]
           head  == SubSeq(pr, 1, Least(1, Len(pr)))
           seen  == SubSeq(pr, 2, Len(pr)) \o part("checks")
           move  == preparePullRequestReviewBundle(args, got)
<1>1. PICK S : got \in Seq(S)
  BY DEF GoodAnswers
<1>2. \A what : part(what) \in Seq(S) /\ Len(part(what)) \in Nat /\ (part(what) = <<>> => Len(part(what)) = 0)
  <2>1. \A what : part(what) \in Seq(S)
    BY <1>1, OfElements
  <2>2. Len(<<>>) = 0
    OBVIOUS
  <2> QED BY <2>1, <2>2
<1>3. PICK parts : parts = BundleParts(args, got)
  OBVIOUS
<1>4. /\ DOMAIN parts = 1..5
      /\ parts[1] = getPullRequestDetails(args, head)
      /\ parts[2] = listPullRequestFiles(args, part("files"))
      /\ parts[3] = IF "diff" \in args.opts
                    THEN getPullRequestDiff(inner, part("diff")) ELSE Give(Plain)
      /\ parts[4] = IF "commits" \in args.opts
                    THEN listPullRequestCommits(inner, part("commits")) ELSE Give(Plain)
      /\ parts[5] = IF "checks" \in args.opts THEN getPullRequestChecks(args, seen) ELSE Give(Plain)
  BY <1>3, PartsAre
<1>5. PICK k \in 1..5 : /\ args.fit /\ move = parts[k] /\ parts[k].do = "ask"
                        /\ \A j \in 1..5 : parts[j].do = "ask" => k <= j
  <2> DEFINE open  == {j \in DOMAIN parts : parts[j].do = "ask"}
             first == {j \in open : \A i \in open : j <= i}
  <2>1. move = IF ~args.fit THEN Fail
               ELSE IF first # {} THEN parts[CHOOSE j \in first : TRUE]
               ELSE Give(BundleReply(parts))
    BY <1>3 DEF preparePullRequestReviewBundle
  <2>2. args.fit /\ first # {}
    BY <2>1 DEF Fail, Give
  <2>3. (CHOOSE j \in first : TRUE) \in first
    <3> HIDE DEF first
    <3> QED BY <2>2
  <2>4. PICK j \in first : move = parts[j]
    <3> HIDE DEF first, move
    <3> QED BY <2>1, <2>2, <2>3
  <2>5. j \in 1..5 /\ parts[j].do = "ask" /\ \A i \in 1..5 : parts[i].do = "ask" => j <= i
    BY <1>4
  <2> QED BY <2>2, <2>4, <2>5
<1> HIDE DEF move
<1>6. Give(Plain).do # "ask"
  BY DEF Give
<1>7. CASE k = 1
  <2>1. head = <<>> /\ getPullRequestDetails(args, head).do = "ask" /\ move = getPullRequestDetails(args, head)
    BY <1>4, <1>5, <1>7, OneShotGitHub DEF OneShot
  <2>2. move.what = "pr"
    BY <2>1 DEF getPullRequestDetails, Once, One, Ask, Fail, Give
  <2>3. Len(pr) = 0
    BY <1>2, <2>1, CheckedPart
  <2> QED BY <2>2, <2>3 DEF move
<1>8. CASE k = 2
  <2>1. part("files") = <<>> /\ move = listPullRequestFiles(args, part("files")) /\ move.do = "ask"
    BY <1>4, <1>5, <1>8, OneShotGitHub DEF OneShot
  <2>2. move.what = "files"
    BY <2>1 DEF listPullRequestFiles, PageOf, Once, Ask, Fail, Give
  <2> QED BY <1>2, <2>1, <2>2 DEF move
<1>9. CASE k = 3
  <2>1. /\ "diff" \in args.opts /\ part("diff") = <<>> /\ move = getPullRequestDiff(inner, part("diff"))
        /\ move.do = "ask"
    BY <1>4, <1>5, <1>6, <1>9, OneShotGitHub DEF OneShot
  <2>2. move.what = "diff"
    BY <2>1 DEF getPullRequestDiff, Once, One, Ask, Fail, Give
  <2> QED BY <1>2, <2>1, <2>2 DEF move
<1>10. CASE k = 4
  <2>1. /\ "commits" \in args.opts /\ part("commits") = <<>>
        /\ move = listPullRequestCommits(inner, part("commits")) /\ move.do = "ask"
    BY <1>4, <1>5, <1>6, <1>10, OneShotGitHub DEF OneShot
  <2>2. move.what = "commits"
    BY <2>1 DEF listPullRequestCommits, PageOf, Once, Ask, Fail, Give
  <2> QED BY <1>2, <2>1, <2>2 DEF move
<1>11. CASE k = 5
  <2>1. "checks" \in args.opts /\ move = getPullRequestChecks(args, seen) /\ move.do = "ask"
    BY <1>4, <1>5, <1>6, <1>11
  <2>2. Len(pr) >= 1
    <3>1. parts[1].do # "ask"
      BY <1>5, <1>11
    <3>2. head # <<>>
      BY <1>4, <1>5, <3>1 DEF getPullRequestDetails, Once, One, Ask
    <3>3. head = <<>> <=> Len(pr) = 0
      BY <1>2, CheckedPart
    <3>4. PICK n \in Nat : n = Len(pr)
      BY <1>2
    <3>5. n # 0 => n >= 1
      OBVIOUS
    <3> QED BY <3>2, <3>3, <3>4, <3>5
  <2>3. CASE seen = <<>>
    <3>1. Len(pr) = 1 /\ part("checks") = <<>>
      BY <1>2, <2>2, <2>3, CheckedPart
    <3>2. move.what = "pr"
      BY <2>1, <2>3 DEF getPullRequestChecks, getPullRequestDetails, Once, One, Ask, Fail, Give
    <3> QED BY <1>2, <2>1, <3>1, <3>2 DEF move
  <2>4. CASE seen # <<>>
    <3>1. Tail(seen) = <<>>
      BY <2>1, <2>4, TwoShotChecks DEF TwoShot
    <3>2. Len(pr) + Len(part("checks")) = 2
      BY <1>2, <2>2, <2>4, <3>1, CheckedPart
    <3>3. Len(part("checks")) = 0 /\ Len(pr) = 2
      <4>1. part("checks") # <<>> => Len(pr) = 2
        BY DEF BundleHistory
      <4>2. PICK m, n \in Nat : m = Len(pr) /\ n = Len(part("checks"))
        BY <1>2
      <4>3. m + n = 2 /\ (n # 0 => m = 2)
        BY <1>2, <3>2, <4>1, <4>2
      <4>4. n = 0 /\ m = 2
        BY <4>3
      <4> QED BY <4>2, <4>4
    <3>4. move.what = "checks"
      BY <1>5, <2>1, <2>4, <3>1
         DEF getPullRequestChecks, getPullRequestDetails, Once, One, Ask, Fail, Give
    <3> QED BY <3>3, <3>4 DEF move
  <2> QED BY <2>3, <2>4
<1> QED BY <1>5, <1>7, <1>8, <1>9, <1>10, <1>11

LEMMA BundleNext ==
    ASSUME NEW args \in Args, NEW got, GoodAnswers(got), BundleHistory(args, got),
           preparePullRequestReviewBundle(args, got).do = "ask",
           NEW v, v.what = preparePullRequestReviewBundle(args, got).what
    PROVE  BundleHistory(args, Append(got, v))
<1> DEFINE next(what) == Of(Append(got, v), what)
<1>1. PICK S : got \in Seq(S) /\ S = Elements(got)
  BY DEF GoodAnswers
<1>2. PICK T : T = S \cup {v}
  OBVIOUS
<1>3. \A what : /\ v.what = what => Len(next(what)) = Len(Of(got, what)) + 1
                /\ v.what # what => next(what) = Of(got, what)
                /\ Len(Of(got, what)) \in Nat
                /\ Len(Of(got, what)) = 0 <=> Of(got, what) = <<>>
  <2>1. ASSUME NEW what
        PROVE  /\ v.what = what => Len(next(what)) = Len(Of(got, what)) + 1
               /\ v.what # what => next(what) = Of(got, what)
               /\ Len(Of(got, what)) \in Nat
               /\ Len(Of(got, what)) = 0 <=> Of(got, what) = <<>>
    <3>1. PICK part : part = Of(got, what)
      OBVIOUS
    <3>2. part \in Seq(S)
      BY <1>1, <3>1, OfElements
    <3>3. next(what) = IF v.what = what THEN Append(part, v) ELSE part
      BY <1>1, <3>1, OfNext
    <3>4. Len(part) \in Nat /\ (Len(part) = 0 <=> part = <<>>)
      BY <3>2
    <3>5. Len(Append(part, v)) = Len(part) + 1
      BY <3>2, OwnElements
    <3> QED BY <3>1, <3>3, <3>4, <3>5
  <2> QED BY <2>1
<1>4. PICK what : what = preparePullRequestReviewBundle(args, got).what /\ v.what = what
  OBVIOUS
<1>5. \/ what = "pr" /\ Len(Of(got, "pr")) = 0
      \/ what = "pr" /\ Len(Of(got, "pr")) = 1 /\ Len(Of(got, "checks")) = 0
         /\ "checks" \in args.opts
      \/ what = "files" /\ Len(Of(got, "files")) = 0
      \/ what \in {"diff", "commits"} /\ Len(Of(got, what)) = 0 /\ what \in args.opts
      \/ what = "checks" /\ Len(Of(got, "checks")) = 0 /\ Len(Of(got, "pr")) = 2
  BY <1>4, BundleAsks
<1>6. \A u \in Elements(Append(got, v)) : u.what \in {"pr", "files", "diff", "commits", "checks"}
  <2>1. Elements(Append(got, v)) = S \cup {v}
    BY <1>1, AppendElements
  <2>2. what \in {"pr", "files", "diff", "commits", "checks"}
    BY <1>5
  <2> QED BY <1>1, <1>4, <2>1, <2>2 DEF BundleHistory
<1> DEFINE old(x) == Len(Of(got, x))
           new(x) == Len(next(x))
<1>7. \A x : /\ old(x) \in Nat /\ new(x) = IF x = what THEN old(x) + 1 ELSE old(x)
             /\ next(x) # <<>> /\ x # what => old(x) # 0
  BY <1>3, <1>4
<1>8. /\ old("pr") <= 2 /\ \A x \in {"files", "diff", "commits", "checks"} : old(x) <= 1
      /\ old("checks") # 0 => old("pr") = 2
      /\ old("pr") = 2 => "checks" \in args.opts
      /\ \A x \in {"diff", "commits"} : old(x) # 0 => x \in args.opts
  BY <1>3 DEF BundleHistory
<1>9. \/ what = "pr" /\ old("pr") = 0
      \/ what = "pr" /\ old("pr") = 1 /\ old("checks") = 0 /\ "checks" \in args.opts
      \/ what = "files" /\ old("files") = 0
      \/ what \in {"diff", "commits"} /\ old(what) = 0 /\ what \in args.opts
      \/ what = "checks" /\ old("checks") = 0 /\ old("pr") = 2
  BY <1>5
<1> HIDE DEF old, new, next
<1>10. /\ new("pr") <= 2 /\ \A x \in {"files", "diff", "commits", "checks"} : new(x) <= 1
       /\ next("checks") # <<>> => new("pr") = 2
       /\ new("pr") = 2 => "checks" \in args.opts
       /\ \A x \in {"diff", "commits"} : next(x) # <<>> => x \in args.opts
  <2>1. CASE what = "pr" /\ old("pr") = 0
    BY <1>7, <1>8, <2>1
  <2>2. CASE what = "pr" /\ old("pr") = 1 /\ old("checks") = 0 /\ "checks" \in args.opts
    BY <1>7, <1>8, <2>2
  <2>3. CASE what = "files" /\ old("files") = 0
    BY <1>7, <1>8, <2>3
  <2>4. CASE what \in {"diff", "commits"} /\ old(what) = 0 /\ what \in args.opts
    BY <1>7, <1>8, <2>4
  <2>5. CASE what = "checks" /\ old("checks") = 0 /\ old("pr") = 2
    BY <1>7, <1>8, <2>5
  <2> QED BY <1>9, <2>1, <2>2, <2>3, <2>4, <2>5
<1> QED BY <1>6, <1>10 DEF BundleHistory, new, next

\* A bundle that is not marked partial has had no refusal.
LEMMA BundleMeans ==
    ASSUME NEW args \in Args, NEW got, GoodAnswers(got), BundleHistory(args, got),
           preparePullRequestReviewBundle(args, got).do = "give",
           NEW v \in Elements(got), Refused(v)
    PROVE  preparePullRequestReviewBundle(args, got).reply.partial
<1> DEFINE part(what) == Of(got, what)
           pr    == part("pr")
           inner == [args EXCEPT !.at = 0, !.size = 0]
           head  == SubSeq(pr, 1, Least(1, Len(pr)))
           seen  == SubSeq(pr, 2, Len(pr)) \o part("checks")
           move  == preparePullRequestReviewBundle(args, got)
<1>1. PICK S : got \in Seq(S)
  BY DEF GoodAnswers
<1>2. \A what : /\ part(what) \in Seq(S) /\ Len(part(what)) \in Nat
                /\ v.what = what => v \in Elements(part(what))
  <2>1. \A what : part(what) \in Seq(S) /\ (v.what = what => v \in Elements(part(what)))
    BY <1>1, OfElements
  <2> QED BY <2>1
<1>3. PICK parts : parts = BundleParts(args, got)
  OBVIOUS
<1>4. /\ DOMAIN parts = 1..5
      /\ parts[1] = getPullRequestDetails(args, head)
      /\ parts[2] = listPullRequestFiles(args, part("files"))
      /\ parts[3] = IF "diff" \in args.opts
                    THEN getPullRequestDiff(inner, part("diff")) ELSE Give(Plain)
      /\ parts[4] = IF "commits" \in args.opts
                    THEN listPullRequestCommits(inner, part("commits")) ELSE Give(Plain)
      /\ parts[5] = IF "checks" \in args.opts THEN getPullRequestChecks(args, seen) ELSE Give(Plain)
  BY <1>3, PartsAre
<1>5. move = Give(BundleReply(parts))
  <2> DEFINE open  == {j \in DOMAIN parts : parts[j].do = "ask"}
             first == {j \in open : \A i \in open : j <= i}
  <2>1. move = IF ~args.fit THEN Fail
               ELSE IF first # {} THEN parts[CHOOSE j \in first : TRUE]
               ELSE Give(BundleReply(parts))
    BY <1>3 DEF preparePullRequestReviewBundle
  <2>2. args.fit /\ (first # {} => move = parts[CHOOSE j \in first : TRUE])
    BY <2>1 DEF Fail
  <2>3. first = {}
    <3>1. SUFFICES ASSUME first # {} PROVE FALSE
      OBVIOUS
    <3>2. \A j \in first : parts[j].do = "ask"
      OBVIOUS
    <3>3. (CHOOSE j \in first : TRUE) \in first
      <4> HIDE DEF first
      <4> QED BY <3>1
    <3>4. parts[CHOOSE j \in first : TRUE].do = "ask"
      <4> HIDE DEF first
      <4> QED BY <3>2, <3>3
    <3> QED BY <2>2, <3>1, <3>4
  <2> QED BY <2>1, <2>2, <2>3
<1>6. (\E k \in 1..5 : parts[k] = Fail) => move.reply.partial
  <2>1. SUFFICES ASSUME NEW k \in 1..5, parts[k] = Fail
                 PROVE  move.reply.partial
    OBVIOUS
  <2>2. PICK files : files = IF parts[2].do = "give" THEN parts[2].reply ELSE Plain
    OBVIOUS
  <2>3. GoodReply(files)
    <3>1. GoodMove(parts[2])
      BY <1>4, GoodOf, GoodGitHub
    <3> QED BY <2>2, <3>1, GoodPlain DEF GoodMove
  <2>4. PICK partial \in BOOLEAN : partial = (\E j \in DOMAIN parts : parts[j].do = "fail")
    OBVIOUS
  <2>5. BundleReply(parts) = [files EXCEPT !.hasNext = FALSE, !.next = NoNext, !.partial = partial]
    BY <2>2, <2>4 DEF BundleReply
  <2>6. "partial" \in DOMAIN files
    BY <2>3 DEF GoodReply, Plain
  <2>7. partial = TRUE
    <3>1. k \in DOMAIN parts /\ parts[k].do = "fail"
      BY <1>4, <2>1 DEF Fail
    <3> QED BY <2>4, <3>1
  <2>8. PICK reply : reply = [files EXCEPT !.hasNext = FALSE, !.next = NoNext, !.partial = TRUE]
    OBVIOUS
  <2>9. reply.partial
    BY <2>6, <2>8
  <2>10. move = Give(reply)
    BY <1>5, <2>5, <2>7, <2>8
  <2> QED BY <2>9, <2>10 DEF Give
<1> HIDE DEF move
<1>7. v.what \in {"pr", "files", "diff", "commits", "checks"}
  BY DEF BundleHistory
<1>8. CASE v.what = "pr"
  <2>1. pr # <<>> /\ (pr[1] = v \/ (Len(pr) = 2 /\ pr[2] = v))
    BY <1>2, <1>8, FewElements DEF BundleHistory
  <2>2. CASE pr[1] = v
    <3>1. Len(pr) >= 1
      BY <1>2, <2>1
    <3>2. head # <<>> /\ head[1] = v
      BY <1>2, <2>2, <3>1, CheckedPart
    <3>3. parts[1] = Fail
      BY <1>4, <3>2, OneShotGitHub DEF OneShot
    <3> QED BY <1>6, <3>3 DEF move
  <2>3. CASE Len(pr) = 2 /\ pr[2] = v
    <3>1. seen # <<>> /\ seen[1] = v /\ "checks" \in args.opts
      BY <1>2, <2>3, CheckedPart DEF BundleHistory
    <3>2. PICK late : late = seen
      OBVIOUS
    <3>3. getPullRequestChecks(args, late) = Fail
      <4>1. late # <<>> /\ Refused(late[1])
        BY <3>1, <3>2
      <4> QED BY <4>1, TwoShotChecks DEF TwoShot
    <3>4. parts[5] = Fail
      BY <1>4, <3>1, <3>2, <3>3
    <3> QED BY <1>6, <3>4 DEF move
  <2> QED BY <2>1, <2>2, <2>3
<1>9. CASE v.what = "files"
  <2>1. part("files") # <<>> /\ part("files")[1] = v
    BY <1>2, <1>9, FewElements DEF BundleHistory
  <2>2. parts[2] = Fail
    BY <1>4, <2>1, OneShotGitHub DEF OneShot
  <2> QED BY <1>6, <2>2 DEF move
<1>10. CASE v.what = "diff"
  <2>1. part("diff") # <<>> /\ part("diff")[1] = v /\ "diff" \in args.opts
    BY <1>2, <1>10, FewElements DEF BundleHistory
  <2>2. parts[3] = Fail
    BY <1>4, <2>1, OneShotGitHub DEF OneShot
  <2> QED BY <1>6, <2>2 DEF move
<1>11. CASE v.what = "commits"
  <2>1. part("commits") # <<>> /\ part("commits")[1] = v /\ "commits" \in args.opts
    BY <1>2, <1>11, FewElements DEF BundleHistory
  <2>2. parts[4] = Fail
    BY <1>4, <2>1, OneShotGitHub DEF OneShot
  <2> QED BY <1>6, <2>2 DEF move
<1>12. CASE v.what = "checks"
  <2>1. part("checks") # <<>> /\ part("checks")[1] = v
    BY <1>2, <1>12, FewElements DEF BundleHistory
  <2>2. Len(pr) = 2 /\ "checks" \in args.opts
    BY <2>1 DEF BundleHistory
  <2>3. seen # <<>> /\ Tail(seen) # <<>> /\ Tail(seen)[1] = v
    BY <1>2, <2>1, <2>2, CheckedPart
  <2>4. parts[5] = Fail
    BY <1>4, <2>2, <2>3, TwoShotChecks DEF TwoShot
  <2> QED BY <1>6, <2>4 DEF move
<1> QED BY <1>7, <1>8, <1>9, <1>10, <1>11, <1>12

\* One issue of an export: it is asked for and its file written once at most, and what
\* comes after it is asked for when it could be read.
IssueRead(k, got) == InTurn(<<Ask("jira", "issue", k, 1)>>, Of(got, "issue")) = Give(Plain)

IssueHistory(k, args, got) ==
    /\ Len(Of(got, "issue")) <= 1 /\ Len(Of(got, "write")) <= 1
    /\ \A v \in Elements(got) : v.what \in {"issue", "write"} \cup LinkAsks
    /\ \A v \in Elements(got) : v.what # "issue" => IssueRead(k, got)
    /\ \A v \in Elements(got) : v.what \in LinkAsks =>
           LinkOf(got[1]) = "page" /\ "no confluence" \notin args.opts

LEMMA OnlyRead ==
    ASSUME NEW k, NEW S, NEW got \in Seq(S), IssueRead(k, got)
    PROVE  Of(got, "issue") # <<>> /\ got # <<>>
<1>1. PICK part : part = Of(got, "issue")
  OBVIOUS
<1>2. part \in Seq(S) /\ (got = <<>> => part = <<>>)
  BY <1>1, OfElements, OfNone
<1>3. part # <<>>
  <2>1. SUFFICES ASSUME part = <<>> PROVE FALSE
    OBVIOUS
  <2>2. Len(part) = 0 /\ DOMAIN part = {}
    BY <2>1
  <2>3. InTurn(<<Ask("jira", "issue", k, 1)>>, part) = Ask("jira", "issue", k, 1)
    BY <2>2, InTurnOne
  <2> QED BY <1>1, <2>3 DEF IssueRead, Ask, Give
<1> QED BY <1>1, <1>2, <1>3

LEMMA IssueNext ==
    ASSUME NEW k, NEW args, NEW S, NEW got \in Seq(S), IssueHistory(k, args, got),
           ExportIssue(k, args, got).do = "ask",
           NEW v, v.what = ExportIssue(k, args, got).what
    PROVE  IssueHistory(k, args, Append(got, v))
<1>1. PICK move : move = ExportIssue(k, args, got)
  OBVIOUS
<1>2. PICK all : all = Append(got, v)
  OBVIOUS
<1>3. \/ move.what = "issue" /\ Of(got, "issue") = <<>>
      \/ /\ IssueRead(k, got) /\ LinkOf(got[1]) = "page" /\ "no confluence" \notin args.opts
         /\ move.what \in LinkAsks
      \/ IssueRead(k, got) /\ Of(got, "write") = <<>> /\ move.what = "write"
  <2>1. /\ \A reply : Give(reply).do = "give"
        /\ \A client, what : Ask(client, what, k, 1).what = what
    BY DEF Give, Ask
  <2>2. \/ move = Ask("jira", "issue", k, 1) /\ Of(got, "issue") = <<>>
        \/ /\ IssueRead(k, got) /\ LinkOf(got[1]) = "page" /\ "no confluence" \notin args.opts
           /\ \E client \in {"disk", "confluence"}, what \in LinkAsks : move = Ask(client, what, k, 1)
        \/ /\ IssueRead(k, got) /\ Of(got, "write") = <<>>
           /\ move = Ask("disk", "write", k, 1)
        \/ \E reply : move = Give(reply)
    <3>1. PICK issue : issue = InTurn(<<Ask("jira", "issue", k, 1)>>, Of(got, "issue"))
      OBVIOUS
    <3>2. \/ move = Ask("jira", "issue", k, 1) /\ Of(got, "issue") = <<>>
          \/ /\ issue = Give(Plain) /\ LinkOf(got[1]) = "page" /\ "no confluence" \notin args.opts
             /\ \E client \in {"disk", "confluence"}, what \in LinkAsks : move = Ask(client, what, k, 1)
          \/ /\ issue = Give(Plain) /\ Of(got, "write") = <<>>
             /\ move = Ask("disk", "write", k, 1)
          \/ \E reply : move = Give(reply)
      BY <1>1, <3>1, IssueMoves, ZenonT(60)
    <3> QED BY <3>1, <3>2 DEF IssueRead
  <2>3. CASE move = Ask("jira", "issue", k, 1) /\ Of(got, "issue") = <<>>
    BY <2>1, <2>3
  <2>4. CASE /\ IssueRead(k, got) /\ LinkOf(got[1]) = "page" /\ "no confluence" \notin args.opts
             /\ \E client \in {"disk", "confluence"}, what \in LinkAsks : move = Ask(client, what, k, 1)
    <3>1. PICK client \in {"disk", "confluence"}, what \in LinkAsks : move = Ask(client, what, k, 1)
      BY <2>4
    <3>2. move.what \in LinkAsks
      BY <2>1, <3>1
    <3> QED BY <2>4, <3>2
  <2>5. CASE IssueRead(k, got) /\ Of(got, "write") = <<>> /\ move = Ask("disk", "write", k, 1)
    BY <2>1, <2>5
  <2>6. CASE \E reply : move = Give(reply)
    <3>1. move.do = "ask"
      BY <1>1
    <3> QED BY <2>1, <2>6, <3>1
  <2> QED BY <2>2, <2>3, <2>4, <2>5, <2>6
<1>4. \A what : Of(all, what) = IF v.what = what THEN Append(Of(got, what), v) ELSE Of(got, what)
  BY <1>2, OfNext
<1>5. Elements(all) = Elements(got) \cup {v}
  BY <1>2, AppendElements
<1>6. got # <<>> => all[1] = got[1]
  BY <1>2, Last
<1>7. Len(Append(<<>>, v)) = 1
  OBVIOUS
<1>8. CASE v.what = "issue" /\ Of(got, "issue") = <<>>
  <2>1. ~IssueRead(k, got)
    BY <1>8, OnlyRead
  <2>2. \A u \in Elements(got) : u.what # "issue"
    <3>1. Elements(Of(got, "issue")) = {}
      BY <1>8 DEF Elements
    <3> QED BY <3>1, OfElements
  <2>3. Elements(all) = {v}
    BY <1>5, <2>1, <2>2 DEF IssueHistory
  <2>4. Len(Of(all, "issue")) <= 1
    BY <1>4, <1>7, <1>8
  <2>5. Of(all, "write") = Of(got, "write")
    BY <1>4, <1>8
  <2>6. IssueHistory(k, args, all)
    BY <1>8, <2>3, <2>4, <2>5 DEF IssueHistory, LinkAsks
  <2> QED BY <1>2, <2>6
<1>9. CASE /\ IssueRead(k, got) /\ LinkOf(got[1]) = "page" /\ "no confluence" \notin args.opts
           /\ v.what \in LinkAsks
  <2>1. v.what \notin {"issue", "write"}
    BY <1>9 DEF LinkAsks
  <2>2. Of(all, "issue") = Of(got, "issue") /\ Of(all, "write") = Of(got, "write")
    BY <1>4, <2>1
  <2>3. IssueRead(k, all) /\ all[1] = got[1]
    BY <1>6, <1>9, <2>2, OnlyRead DEF IssueRead
  <2>4. IssueHistory(k, args, all)
    BY <1>5, <1>9, <2>2, <2>3 DEF IssueHistory
  <2> QED BY <1>2, <2>4
<1>10. CASE IssueRead(k, got) /\ Of(got, "write") = <<>> /\ v.what = "write"
  <2>1. Of(all, "issue") = Of(got, "issue") /\ Len(Of(all, "write")) <= 1
    BY <1>4, <1>7, <1>10
  <2>2. IssueRead(k, all) /\ all[1] = got[1]
    BY <1>6, <1>10, <2>1, OnlyRead DEF IssueRead
  <2>3. IssueHistory(k, args, all)
    BY <1>5, <1>10, <2>1, <2>2 DEF IssueHistory, LinkAsks
  <2> QED BY <1>2, <2>3
<1> QED BY <1>1, <1>3, <1>8, <1>9, <1>10

\* What the entry of an issue says of the answers about it: it has a file when one was
\* written, and a refusal leaves a warning or an unresolved link.
LEMMA IssueMeans ==
    ASSUME NEW k, NEW args, NEW S, NEW got \in Seq(S), IssueHistory(k, args, got),
           ExportIssue(k, args, got).do # "ask"
    PROVE  LET entry == ExportIssue(k, args, got).reply
           IN  /\ (\E v \in Elements(got) : Refused(v)) => entry.warned \/ entry.unresolved
               /\ entry.file <=> \E v \in Elements(got) : v.what = "write" /\ ~Refused(v)
<1> DEFINE others == {i \in DOMAIN got : got[i].what \notin {"issue", "write"}}
<1>1. PICK first, last, about : /\ first = Of(got, "issue") /\ last = Of(got, "write")
                                /\ about = Picked(got, others)
  OBVIOUS
<1>2. first \in Seq(S) /\ last \in Seq(S) /\ about \in Seq(S)
  BY <1>1, OfElements, PickedElements
<1>3. /\ Elements(first) = {v \in Elements(got) : v.what = "issue"}
      /\ Elements(last) = {v \in Elements(got) : v.what = "write"}
      /\ Elements(about) = {v \in Elements(got) : v.what \notin {"issue", "write"}}
  <2>1. Elements(about) = {got[i] : i \in DOMAIN got \cap others}
    BY <1>1, PickedElements
  <2>2. {got[i] : i \in DOMAIN got \cap others} = {v \in Elements(got) : v.what \notin {"issue", "write"}}
    BY DEF Elements
  <2> QED BY <1>1, <2>1, <2>2, OfElements
<1>4. PICK issue, file, links :
          /\ issue = InTurn(<<Ask("jira", "issue", k, 1)>>, first)
          /\ file = InTurn(<<Ask("disk", "write", k, 1)>>, last)
          /\ links = ExportLinks(k, got[1], args, about)
  OBVIOUS
<1>5. PICK move : move = ExportIssue(k, args, got)
  OBVIOUS
<1>6. \/ issue = Fail /\ move = Give(Entry(issue, Fail, Fail))
      \/ /\ issue = Give(Plain) /\ links \in {Fail, Give(Plain)} /\ file \in {Fail, Give(Plain)}
         /\ move = Give(Entry(issue, links, file))
  <2>1. /\ \A client, what : Ask(client, what, k, 1).do = "ask"
        /\ move.do # "ask"
    BY <1>5 DEF Ask
  <2>2. \/ \E client, what : move = Ask(client, what, k, 1)
        \/ issue = Fail /\ move = Give(Entry(issue, Fail, Fail))
        \/ /\ issue = Give(Plain) /\ links \in {Fail, Give(Plain)} /\ file \in {Fail, Give(Plain)}
           /\ move = Give(Entry(issue, links, file))
    <3>1. /\ issue = InTurn(<<Ask("jira", "issue", k, 1)>>, Of(got, "issue"))
          /\ file = InTurn(<<Ask("disk", "write", k, 1)>>, Of(got, "write"))
          /\ links = ExportLinks(k, got[1], args, Picked(got, others))
      BY <1>1, <1>4
    <3>2. \/ move = Ask("jira", "issue", k, 1)
          \/ \E client \in {"disk", "confluence"}, what \in LinkAsks : move = Ask(client, what, k, 1)
          \/ move = Ask("disk", "write", k, 1)
          \/ issue = Fail /\ move = Give(Entry(issue, Fail, Fail))
          \/ /\ issue = Give(Plain) /\ links \in {Fail, Give(Plain)} /\ file \in {Fail, Give(Plain)}
             /\ move = Give(Entry(issue, links, file))
      BY <1>5, <3>1, IssueMoves, ZenonT(60)
    <3> QED BY <3>2
  <2> QED BY <2>1, <2>2
<1>7. Fail.do = "fail" /\ Give(Plain).do = "give" /\ Fail # Give(Plain)
      /\ \A reply : Give(reply).reply = reply
  BY DEF Fail, Give
<1>8. /\ Len(first) \in Nat /\ Len(last) \in Nat /\ Len(about) \in Nat
      /\ (\E v \in Elements(first) : Refused(v)) => issue = Fail
      /\ (\E v \in Elements(last) : Refused(v)) => file = Fail
      /\ last = <<>> => file # Give(Plain) /\ file # Fail
      /\ last # <<>> /\ ~(\E v \in Elements(last) : Refused(v)) => file = Give(Plain)
  <2>1. Len(first) \in Nat /\ Len(last) \in Nat /\ Len(about) \in Nat
        /\ (Len(last) = 0 <=> last = <<>>)
    BY <1>2
  <2>2. \A part : (\E v \in Elements(part) : Refused(v)) <=> \E i \in DOMAIN part : Refused(part[i])
    BY DEF Elements
  <2>3. Ask("disk", "write", k, 1) # Give(Plain) /\ Ask("disk", "write", k, 1) # Fail
    BY DEF Ask, Give, Fail
  <2>4. last = <<>> => ~\E i \in DOMAIN last : Refused(last[i])
    OBVIOUS
  <2> QED BY <1>4, <2>1, <2>2, <2>3, <2>4, InTurnOne
<1>9. IssueRead(k, got) <=> issue = Give(Plain)
  BY <1>1, <1>4 DEF IssueRead
<1>10. ASSUME NEW v \in Elements(got), v.what \in LinkAsks, Refused(v)
       PROVE  issue = Give(Plain) /\ links = Fail
  <2>1. v.what \notin {"issue", "write"} /\ v \in Elements(about)
    BY <1>3, <1>10 DEF LinkAsks
  <2>2. PICK i \in DOMAIN about : Refused(about[i])
    BY <1>10, <2>1 DEF Elements
  <2>3. \A requests : InTurn(requests, about) = Fail
    BY <2>2 DEF InTurn
  <2>4. exportConfluencePage(k, args, about) = Fail
    BY <2>3 DEF exportConfluencePage
  <2>5. LinkOf(got[1]) = "page" /\ "no confluence" \notin args.opts
    BY <1>10 DEF IssueHistory
  <2>6. IssueRead(k, got)
    BY <1>10, <2>1 DEF IssueHistory
  <2> QED BY <1>4, <1>9, <2>4, <2>5, <2>6 DEF ExportLinks
<1>11. PICK entry : entry = move.reply
  OBVIOUS
<1>12. CASE issue = Fail /\ move = Give(Entry(issue, Fail, Fail))
  <2>1. entry = Entry(Fail, Fail, Fail)
    BY <1>7, <1>11, <1>12
  <2>2. entry.warned = TRUE /\ entry.file = FALSE
    BY <1>7, <2>1 DEF Entry
  <2>3. \A v \in Elements(got) : v.what # "write"
    BY <1>7, <1>9, <1>12 DEF IssueHistory
  <2> QED BY <1>5, <1>11, <2>2, <2>3
<1>13. CASE /\ issue = Give(Plain) /\ links \in {Fail, Give(Plain)} /\ file \in {Fail, Give(Plain)}
            /\ move = Give(Entry(issue, links, file))
  <2>1. entry = Entry(Give(Plain), links, file)
    BY <1>7, <1>11, <1>13
  <2>2. /\ links = Fail => entry.unresolved = TRUE
        /\ file = Fail => entry.warned = TRUE /\ entry.file = FALSE
        /\ file = Give(Plain) => entry.file = TRUE
    BY <1>7, <2>1 DEF Entry
  <2>3. ASSUME NEW v \in Elements(got), Refused(v)
        PROVE  entry.warned = TRUE \/ entry.unresolved = TRUE
    <3>1. CASE v.what = "issue"
      BY <1>3, <1>7, <1>8, <1>13, <2>3, <3>1
    <3>2. CASE v.what = "write"
      BY <1>3, <1>8, <2>2, <2>3, <3>2
    <3>3. CASE v.what \in LinkAsks
      BY <1>10, <2>2, <2>3, <3>3
    <3> QED BY <3>1, <3>2, <3>3 DEF IssueHistory
  <2>4. (\E v \in Elements(got) : v.what = "write" /\ ~Refused(v)) => entry.file = TRUE
    <3>1. SUFFICES ASSUME NEW v \in Elements(got), v.what = "write", ~Refused(v)
                   PROVE  entry.file = TRUE
      OBVIOUS
    <3>2. v \in Elements(last) /\ Len(last) <= 1
      BY <1>1, <1>3, <3>1 DEF IssueHistory
    <3>3. Len(last) = 1 /\ last[1] = v
      BY <1>2, <3>2, FewElements
    <3>4. DOMAIN last = {1} /\ last # <<>>
      <4>1. DOMAIN last = 1..Len(last) /\ 1..1 = {1}
        BY <1>2
      <4>2. DOMAIN last = {1}
        BY <3>3, <4>1
      <4> QED BY <4>2, SMTT(30)
    <3>5. ~\E u \in Elements(last) : Refused(u)
      BY <3>1, <3>3, <3>4 DEF Elements
    <3> QED BY <1>8, <2>2, <3>4, <3>5
  <2>5. entry.file = TRUE => \E v \in Elements(got) : v.what = "write" /\ ~Refused(v)
    <3>1. SUFFICES ASSUME entry.file = TRUE
                   PROVE  \E v \in Elements(got) : v.what = "write" /\ ~Refused(v)
      OBVIOUS
    <3>2. last # <<>> /\ file # Fail
      BY <1>8, <1>13, <2>2, <3>1
    <3>3. last[1] \in Elements(last)
      <4>1. 1 \in DOMAIN last
        BY <1>2, <3>2
      <4> QED BY <4>1 DEF Elements
    <3> QED BY <1>3, <1>8, <3>2, <3>3
  <2>6. entry.file \in BOOLEAN
    BY <1>13, <2>2
  <2>7. entry.file <=> \E v \in Elements(got) : v.what = "write" /\ ~Refused(v)
    BY <2>4, <2>5, <2>6
  <2>8. (\E v \in Elements(got) : Refused(v)) => entry.warned \/ entry.unresolved
    BY <2>3
  <2> QED BY <1>5, <1>11, <2>7, <2>8
<1> QED BY <1>6, <1>12, <1>13

LEMMA IssueAsks ==
    ASSUME NEW k, NEW args, NEW S, NEW got \in Seq(S), ExportIssue(k, args, got).do = "ask"
    PROVE  /\ ExportIssue(k, args, got).lo = k
           /\ ExportIssue(k, args, got).what \in {"issue", "write"} \cup LinkAsks
<1>1. PICK move : move = ExportIssue(k, args, got)
  OBVIOUS
<1>2. /\ \A reply : Give(reply).do = "give"
      /\ \A client, what : Ask(client, what, k, 1).what = what /\ Ask(client, what, k, 1).lo = k
  BY DEF Give, Ask
<1>3. \/ move = Ask("jira", "issue", k, 1)
      \/ \E client \in {"disk", "confluence"}, what \in LinkAsks : move = Ask(client, what, k, 1)
      \/ move = Ask("disk", "write", k, 1)
      \/ \E reply : move = Give(reply)
  BY <1>1, IssueMoves, ZenonT(60)
<1>4. CASE \E client \in {"disk", "confluence"}, what \in LinkAsks : move = Ask(client, what, k, 1)
  <2>1. PICK client \in {"disk", "confluence"}, what \in LinkAsks : move = Ask(client, what, k, 1)
    BY <1>4
  <2>2. move.lo = k /\ move.what \in LinkAsks
    BY <1>2, <2>1
  <2> QED BY <1>1, <2>2
<1>5. CASE move = Ask("jira", "issue", k, 1) \/ move = Ask("disk", "write", k, 1)
  <2>1. move.lo = k /\ move.what \in {"issue", "write"}
    BY <1>2, <1>5
  <2> QED BY <1>1, <2>1
<1> QED BY <1>1, <1>2, <1>3, <1>4, <1>5

LEMMA AboutNext ==
    ASSUME NEW k, NEW S, NEW got \in Seq(S), NEW e
    PROVE  About(k, Append(got, e)) =
               IF e.lo = k /\ e.what \notin Top THEN Append(About(k, got), e) ELSE About(k, got)
<1>1. PICK r : r = Append(got, e)
  OBVIOUS
<1>2. /\ Len(got) \in Nat /\ DOMAIN got = 1..Len(got) /\ DOMAIN r = 1..(Len(got) + 1)
      /\ r[Len(got) + 1] = e /\ \A i \in 1..Len(got) : r[i] = got[i]
  BY <1>1
<1> DEFINE ks == {i \in DOMAIN got : got[i].lo = k /\ got[i].what \notin {"export dir", "issues", "index"}}
           js == {i \in DOMAIN r : r[i].lo = k /\ r[i].what \notin {"export dir", "issues", "index"}}
<1>3. /\ \A i \in 1..Len(got) : i \in js <=> i \in ks
      /\ Len(got) + 1 \in js <=> (e.lo = k /\ e.what \notin Top)
  <2>1. ASSUME NEW i \in 1..Len(got)
        PROVE  i \in js <=> i \in ks
    <3>1. i \in DOMAIN r /\ i \in DOMAIN got /\ r[i] = got[i]
      BY <1>2
    <3> QED BY <3>1
  <2>2. Len(got) + 1 \in DOMAIN r
    BY <1>2
  <2>3. Len(got) + 1 \in js <=> (e.lo = k /\ e.what \notin Top)
    BY <1>2, <2>2 DEF Top
  <2> QED BY <2>1, <2>3
<1>4. Picked(r, js) = About(k, r) /\ Picked(got, ks) = About(k, got)
  BY DEF About
<1> HIDE DEF ks, js
<1>5. Picked(r, js) = IF Len(got) + 1 \in js THEN Append(Picked(got, ks), e) ELSE Picked(got, ks)
  BY <1>1, <1>3, PickedNext
<1> QED BY <1>1, <1>3, <1>4, <1>5

\* An export: one search; what is asked about an issue comes after it, and only about
\* issues it has found.
ExportHistory(args, got) ==
    /\ Len(Of(got, "issues")) <= 1
    /\ \A v \in Elements(got) : v.what \notin Top => Of(got, "issues") # <<>> /\ v.lo \in Found(got)
    /\ \A k : IssueHistory(k, args, About(k, got))

LEMMA ExportNext ==
    ASSUME NEW args \in Args, NEW got, GoodAnswers(got), ExportHistory(args, got),
           jiraExportTasks(args, got).do = "ask",
           NEW v, v.what = jiraExportTasks(args, got).what, v.lo = jiraExportTasks(args, got).lo
    PROVE  ExportHistory(args, Append(got, v))
<1>1. PICK move : move = jiraExportTasks(args, got)
  OBVIOUS
<1>2. PICK S, all : got \in Seq(S) /\ all = Append(got, v)
  BY DEF GoodAnswers
<1>3. /\ Fail.do = "fail" /\ \A reply : Give(reply).do = "give"
      /\ \A client, what, lo, size : /\ Ask(client, what, lo, size).what = what
                                     /\ Ask(client, what, lo, size).lo = lo
  BY DEF Fail, Give, Ask
<1>4. /\ \A what : Of(all, what) = IF v.what = what THEN Append(Of(got, what), v) ELSE Of(got, what)
      /\ \A k : About(k, all) = IF v.lo = k /\ v.what \notin Top THEN Append(About(k, got), v)
                                ELSE About(k, got)
      /\ Elements(all) = Elements(got) \cup {v}
  BY <1>2, OfNext, AboutNext, AppendElements
<1>5. \/ move.what \in {"export dir", "index"}
      \/ move.what = "issues" /\ Of(got, "issues") = <<>>
      \/ /\ Of(got, "issues") # <<>>
         /\ \E k \in Found(got) : /\ ExportIssue(k, args, About(k, got)).do = "ask"
                                  /\ move = ExportIssue(k, args, About(k, got))
  <2>1. \/ move = Fail
        \/ Of(got, "export dir") = <<>> /\ move = Ask("disk", "export dir", 0, 1)
        \/ \E size \in Nat : Of(got, "issues") = <<>> /\ move = Ask("jira", "issues", 0, size)
        \/ /\ Of(got, "issues") # <<>>
           /\ \/ Found(got) = {} /\ move = Give(Plain)
              \/ \E k \in Found(got) : /\ ExportIssue(k, args, About(k, got)).do = "ask"
                                       /\ move = ExportIssue(k, args, About(k, got))
              \/ move = Ask("disk", "index", 0, 1)
              \/ /\ \A k \in Found(got) : ExportIssue(k, args, About(k, got)).do # "ask"
                 /\ move = Give(ExportReply([k \in Found(got) |-> Done(args, got)[k].reply]))
    BY <1>1, ExportMoves
  <2>2. move.do = "ask"
    BY <1>1
  <2>3. CASE \E size \in Nat : Of(got, "issues") = <<>> /\ move = Ask("jira", "issues", 0, size)
    <3>1. PICK size \in Nat : Of(got, "issues") = <<>> /\ move = Ask("jira", "issues", 0, size)
      BY <2>3
    <3>2. move.what = "issues"
      BY <1>3, <3>1
    <3> QED BY <3>1, <3>2
  <2>4. CASE move = Ask("disk", "index", 0, 1)
    <3>1. move.what = "index"
      BY <1>3, <2>4
    <3> QED BY <3>1
  <2>6. CASE move = Ask("disk", "export dir", 0, 1)
    <3>1. move.what = "export dir"
      BY <2>6 DEF Ask
    <3> QED BY <3>1
  <2>5. move # Fail /\ \A reply : move # Give(reply)
    BY <1>3, <2>2
  <2> QED BY <2>1, <2>3, <2>4, <2>5, <2>6
<1>6. ASSUME Of(all, "issues") = Of(got, "issues")
      PROVE  Found(all) = Found(got)
  BY <1>6 DEF Found
<1>7. CASE v.what \in {"export dir", "index"}
  <2>1. v.what \in Top /\ Of(all, "issues") = Of(got, "issues") /\ \A k : About(k, all) = About(k, got)
    BY <1>4, <1>7 DEF Top
  <2>2. ExportHistory(args, all)
    BY <1>4, <1>6, <2>1 DEF ExportHistory
  <2> QED BY <1>2, <2>2
<1>8. CASE v.what = "issues" /\ Of(got, "issues") = <<>>
  <2>1. v.what \in Top /\ \A k : About(k, all) = About(k, got)
    BY <1>4, <1>8 DEF Top
  <2>2. Len(Append(<<>>, v)) = 1
    OBVIOUS
  <2>3. Len(Of(all, "issues")) <= 1
    BY <1>4, <1>8, <2>2
  <2>4. \A u \in Elements(all) : u.what \in Top
    BY <1>4, <1>8, <2>1 DEF ExportHistory
  <2>5. ExportHistory(args, all)
    BY <2>1, <2>3, <2>4 DEF ExportHistory
  <2> QED BY <1>2, <2>5
<1>9. CASE /\ Of(got, "issues") # <<>>
           /\ \E k \in Found(got) : /\ ExportIssue(k, args, About(k, got)).do = "ask"
                                    /\ move = ExportIssue(k, args, About(k, got))
  <2>1. PICK k \in Found(got) : /\ ExportIssue(k, args, About(k, got)).do = "ask"
                                /\ move = ExportIssue(k, args, About(k, got))
    BY <1>9
  <2>2. PICK about, T : about = About(k, got) /\ about \in Seq(T)
    BY GoodAbout
  <2>3. v.lo = k /\ v.what \in {"issue", "write"} \cup LinkAsks
    BY <1>1, <2>1, <2>2, IssueAsks
  <2>4. v.what \notin Top /\ v.what # "issues"
    BY <2>3 DEF LinkAsks, Top
  <2>5. Of(all, "issues") = Of(got, "issues") /\ Found(all) = Found(got)
    BY <1>4, <1>6, <2>4
  <2>6. IssueHistory(k, args, Append(about, v))
    BY <1>1, <2>1, <2>2, IssueNext DEF ExportHistory
  <2>7. \A j : IssueHistory(j, args, About(j, all))
    BY <1>4, <2>2, <2>3, <2>4, <2>6 DEF ExportHistory
  <2>8. ExportHistory(args, all)
    BY <1>4, <1>9, <2>3, <2>5, <2>7 DEF ExportHistory
  <2> QED BY <1>2, <2>8
<1> QED BY <1>1, <1>5, <1>7, <1>8, <1>9

\* An export that ends with a reply has its directory and its search.
Needed == {"export dir", "issues"}

LEMMA ExportGives ==
    ASSUME NEW args \in Args, NEW got, GoodAnswers(got), ExportHistory(args, got),
           jiraExportTasks(args, got).do = "give",
           NEW v \in Elements(got), v.what \in Needed
    PROVE  ~Refused(v)
<1> DEFINE size   == IF args.size = 0 THEN Default["jira_export_tasks"] ELSE args.size
           asked  == [args EXCEPT !.at = 0, !.size = size]
           opened == InTurn(<<One("disk", "export dir")>>, Of(got, "export dir"))
           search == jiraSearchIssues(asked, Of(got, "issues"))
           done   == Done(args, got)
           open   == {k \in Found(got) : done[k].do = "ask"}
           first  == {k \in open : \A j \in open : k <= j}
           reply  == ExportReply([k \in Found(got) |-> done[k].reply])
           move   == jiraExportTasks(args, got)
<1>1. move = IF ~args.fit \/ size \notin 1..Largest["jira_export_tasks"] THEN Fail
             ELSE IF opened.do # "give" THEN opened
             ELSE IF search.do # "give" THEN search
             ELSE IF Found(got) = {} THEN Give(Plain)
             ELSE IF first # {} THEN done[CHOOSE k \in first : TRUE]
             ELSE IF Of(got, "index") = <<>> THEN One("disk", "index")
             ELSE Give(reply)
  BY Zenon DEF jiraExportTasks, Found, Done
<1>2. move.do = "give" /\ Fail.do = "fail"
  BY DEF Fail
<1> HIDE DEF size, asked, opened, search, done, open, first, reply, move
<1>3. opened.do = "give" /\ search.do = "give"
  <2>1. move # Fail
    BY <1>2
  <2>2. opened.do = "give"
    BY <1>1, <1>2, <2>1
  <2> QED BY <1>1, <1>2, <2>1, <2>2
<1>4. PICK S : got \in Seq(S)
  BY DEF GoodAnswers
<1>5. CASE v.what = "export dir"
  <2>1. PICK what, request : what = "export dir" /\ request = One("disk", "export dir")
    OBVIOUS
  <2>2. PICK dir : dir = Of(got, what)
    OBVIOUS
  <2>3. dir \in Seq(S) /\ v \in Elements(dir)
    <3>1. v.what = what
      BY <1>5, <2>1
    <3> QED BY <1>4, <2>2, <3>1, OfElements
  <2>4. PICK i \in DOMAIN dir : dir[i] = v
    BY <2>3 DEF Elements
  <2>5. Len(dir) \in Nat
    BY <2>3
  <2>6. Refused(v) => InTurn(<<request>>, dir) = Fail
    BY <2>4, <2>5, InTurnOne
  <2>7. opened = InTurn(<<request>>, dir)
    BY <2>1, <2>2 DEF opened
  <2> QED BY <1>2, <1>3, <2>6, <2>7
<1>6. CASE v.what = "issues"
  <2>1. PICK part : part = Of(got, "issues")
    OBVIOUS
  <2>2. part \in Seq(S) /\ v \in Elements(part)
    BY <1>4, <1>6, <2>1, OfElements
  <2>3. part # <<>> /\ part[1] = v
    BY <2>1, <2>2, FewElements DEF ExportHistory
  <2>4. search = jiraSearchIssues(asked, part)
    BY <2>1 DEF search
  <2>5. \A x : OneShot(jiraSearchIssues(x, part), part)
    BY OneShotJira DEF jiraSearchIssues
  <2>6. Refused(v) => search = Fail
    BY <2>3, <2>4, <2>5 DEF OneShot
  <2> QED BY <1>2, <1>3, <2>6
<1> QED BY <1>5, <1>6 DEF Needed

\* What an export's reply says of the answers it rests on.
LEMMA ExportMeans ==
    ASSUME NEW args \in Args, NEW got, GoodAnswers(got), ExportHistory(args, got),
           jiraExportTasks(args, got).do = "give"
    PROVE  LET reply == jiraExportTasks(args, got).reply
           IN  /\ \A v \in Elements(got) : Refused(v) /\ v.what # "index" => reply.partial
               /\ reply.named = Found(got) /\ Of(got, "issues") # <<>>
               /\ \A k : k \in reply.listed <=>
                      \E v \in Elements(got) : v.what = "write" /\ ~Refused(v) /\ v.lo = k
<1>1. PICK move : move = jiraExportTasks(args, got)
  OBVIOUS
<1>2. /\ Fail.do = "fail" /\ \A reply : Give(reply).do = "give" /\ Give(reply).reply = reply
      /\ \A client, what, lo, size : Ask(client, what, lo, size).do = "ask"
  BY DEF Fail, Give, Ask
<1> DEFINE entries == [k \in Found(got) |-> Done(args, got)[k].reply]
<1>3. /\ Of(got, "issues") # <<>>
      /\ \/ Found(got) = {} /\ move = Give(Plain)
         \/ /\ \A k \in Found(got) : ExportIssue(k, args, About(k, got)).do # "ask"
            /\ move = Give(ExportReply(entries))
  <2>1. \/ move = Fail
        \/ Of(got, "export dir") = <<>> /\ move = Ask("disk", "export dir", 0, 1)
        \/ \E size \in Nat : Of(got, "issues") = <<>> /\ move = Ask("jira", "issues", 0, size)
        \/ /\ Of(got, "issues") # <<>>
           /\ \/ Found(got) = {} /\ move = Give(Plain)
              \/ \E k \in Found(got) : /\ ExportIssue(k, args, About(k, got)).do = "ask"
                                       /\ move = ExportIssue(k, args, About(k, got))
              \/ move = Ask("disk", "index", 0, 1)
              \/ /\ \A k \in Found(got) : ExportIssue(k, args, About(k, got)).do # "ask"
                 /\ move = Give(ExportReply(entries))
    BY <1>1, ExportMoves
  <2>2. move.do = "give"
    BY <1>1
  <2> HIDE DEF entries
  <2>3. move # Fail /\ \A client, what, lo, size : move # Ask(client, what, lo, size)
    BY <1>2, <2>2
  <2> QED BY <2>1, <2>2, <2>3
<1>4. \A v \in Elements(got) : Refused(v) /\ v.what # "index" => v.what \notin Top
  <2>1. ASSUME NEW v \in Elements(got), Refused(v), v.what # "index"
        PROVE  v.what \notin Top
    <3>1. v.what \notin Needed
      BY <2>1, ExportGives
    <3> QED BY <2>1, <3>1 DEF Top, Needed
  <2> QED BY <2>1
<1>5. \A v \in Elements(got) : v.what \notin Top => v.lo \in Found(got)
  BY DEF ExportHistory
<1>6. CASE Found(got) = {} /\ move = Give(Plain)
  <2>1. PICK reply : reply = move.reply
    OBVIOUS
  <2>2. reply = Plain
    BY <1>2, <1>6, <2>1
  <2>3. reply.named = {} /\ reply.listed = {}
    BY <2>2 DEF Plain
  <2>4. \A v \in Elements(got) : v.what # "write" /\ ~(Refused(v) /\ v.what # "index")
    BY <1>4, <1>5, <1>6 DEF Top
  <2> QED BY <1>1, <1>3, <1>6, <2>1, <2>3, <2>4
<1>7. CASE /\ \A k \in Found(got) : ExportIssue(k, args, About(k, got)).do # "ask"
           /\ move = Give(ExportReply(entries))
  <2>1. PICK reply : reply = move.reply
    OBVIOUS
  <2>2. DOMAIN entries = Found(got)
        /\ \A k \in Found(got) : entries[k] = ExportIssue(k, args, About(k, got)).reply
    BY DEF Done
  <2>3. reply = ExportReply(entries)
    BY <1>2, <1>7, <2>1
  <2> HIDE DEF entries
  <2>4. PICK partial \in BOOLEAN :
            partial = (\E k \in DOMAIN entries : entries[k].warned \/ entries[k].unresolved)
    OBVIOUS
  <2>5. reply = [Plain EXCEPT !.n = Cardinality(DOMAIN entries), !.named = DOMAIN entries,
                              !.listed = {k \in DOMAIN entries : entries[k].file},
                              !.partial = partial]
    BY <2>3, <2>4 DEF ExportReply
  <2>6. /\ reply.named = Found(got) /\ reply.partial = partial
        /\ \A k : k \in reply.listed <=> k \in Found(got) /\ entries[k].file
    BY <2>2, <2>5 DEF Plain
  <2>7. ASSUME NEW k \in Found(got)
        PROVE  /\ (\E v \in Elements(got) : v.lo = k /\ v.what \notin Top /\ Refused(v))
                      => entries[k].warned \/ entries[k].unresolved
               /\ entries[k].file <=>
                      \E v \in Elements(got) : v.lo = k /\ v.what = "write" /\ ~Refused(v)
    <3>1. PICK about, T : about = About(k, got) /\ about \in Seq(T)
      BY GoodAbout
    <3>2. Elements(about) = {v \in Elements(got) : v.lo = k /\ v.what \notin Top}
      BY <3>1, GoodAbout
    <3>3. PICK entry : entry = entries[k]
      OBVIOUS
    <3>4. IssueHistory(k, args, about)
      BY <3>1 DEF ExportHistory
    <3>5. /\ (\E v \in Elements(about) : Refused(v)) => entry.warned \/ entry.unresolved
          /\ entry.file <=> \E v \in Elements(about) : v.what = "write" /\ ~Refused(v)
      BY <1>7, <2>2, <3>1, <3>3, <3>4, IssueMeans
    <3>6. "write" \notin Top
      BY DEF Top
    <3> QED BY <3>2, <3>3, <3>5, <3>6
  <2>8. ASSUME NEW v \in Elements(got), Refused(v), v.what # "index"
        PROVE  reply.partial
    <3>1. v.what \notin Top /\ v.lo \in Found(got)
      BY <1>4, <1>5, <2>8
    <3>2. PICK k \in Found(got) : k = v.lo
      BY <3>1
    <3>3. entries[k].warned \/ entries[k].unresolved
      BY <2>7, <2>8, <3>1, <3>2
    <3>4. partial
      BY <2>2, <2>4, <3>3
    <3> QED BY <2>6, <3>4
  <2>9. ASSUME NEW k
        PROVE  k \in reply.listed <=>
                   \E v \in Elements(got) : v.what = "write" /\ ~Refused(v) /\ v.lo = k
    <3>1. "write" \notin Top
      BY DEF Top
    <3>2. CASE k \in Found(got)
      BY <2>6, <2>7, <3>2
    <3>3. CASE k \notin Found(got)
      BY <1>5, <2>6, <3>1, <3>3
    <3> QED BY <3>2, <3>3
  <2> QED BY <1>1, <1>3, <2>1, <2>6, <2>8, <2>9
<1> QED BY <1>3, <1>6, <1>7

\* What is known of the answers of a handler, by its way with failures: the three
\* lenient ones keep a history, the others end with the first refusal.
Shows(tool, args, got) ==
    /\ tool = "prepare_pull_request_review_bundle" => BundleHistory(args, got)
    /\ tool = "jira_export_tasks" => ExportHistory(args, got)
    /\ tool = "grafana_list_alert_rules" => AlertHistory(args, got)
    /\ tool \notin Lenient =>
           (\A v \in Elements(got) : ~Refused(v)) \/ Handle(tool, args, got).do = "fail"

\* The handlers of the three.
LEMMA LenientHandle ==
    ASSUME NEW args, NEW got
    PROVE  /\ Handle("prepare_pull_request_review_bundle", args, got) = preparePullRequestReviewBundle(args, got)
           /\ Handle("jira_export_tasks", args, got) = jiraExportTasks(args, got)
           /\ Handle("grafana_list_alert_rules", args, got) = grafanaListAlertRules(args, got)
<1>1. Handle("prepare_pull_request_review_bundle", args, got) = preparePullRequestReviewBundle(args, got)
  BY DEF Handle
<1>2. Handle("jira_export_tasks", args, got) = jiraExportTasks(args, got)
  BY DEF Handle
<1>3. Handle("grafana_list_alert_rules", args, got) = grafanaListAlertRules(args, got)
  BY DEF Handle
<1> QED BY <1>1, <1>2, <1>3

LEMMA ShowsNone ==
    ASSUME NEW tool, NEW args
    PROVE  Shows(tool, args, <<>>)
<1>1. PICK none : none = <<>>
  OBVIOUS
<1>2. /\ Elements(none) = {} /\ Len(none) = 0
      /\ \A what : Of(none, what) = none
  BY <1>1, OfNone DEF Elements
<1>3. BundleHistory(args, none)
  BY <1>1, <1>2 DEF BundleHistory
<1>4. \A k : About(k, none) = none
  BY <1>1, PickedNone DEF About
<1>5. \A k : IssueHistory(k, args, none)
  BY <1>2 DEF IssueHistory
<1>6. ExportHistory(args, none)
  BY <1>2, <1>4, <1>5 DEF ExportHistory
<1>7. AlertHistory(args, none)
  BY <1>1 DEF AlertHistory
<1>8. Shows(tool, args, none)
  BY <1>2, <1>3, <1>6, <1>7 DEF Shows
<1> QED BY <1>1, <1>8

LEMMA ShowsNext ==
    ASSUME NEW tool, NEW args \in Args, NEW got, GoodAnswers(got), Shows(tool, args, got),
           Handle(tool, args, got).do = "ask",
           NEW v, v.what = Handle(tool, args, got).what, v.lo = Handle(tool, args, got).lo
    PROVE  Shows(tool, args, Append(got, v))
<1>1. PICK S, all : got \in Seq(S) /\ all = Append(got, v)
  BY DEF GoodAnswers
<1>2. tool = "prepare_pull_request_review_bundle" => BundleHistory(args, all)
  BY <1>1, LenientHandle, BundleNext DEF Shows
<1>3. tool = "jira_export_tasks" => ExportHistory(args, all)
  BY <1>1, LenientHandle, ExportNext DEF Shows
<1>4. tool = "grafana_list_alert_rules" => AlertHistory(args, all)
  BY <1>1, LenientHandle, AlertNext DEF Shows
<1>5. ASSUME tool \notin Lenient
      PROVE  (\A u \in Elements(all) : ~Refused(u)) \/ Handle(tool, args, all).do = "fail"
  <2>1. \A u \in Elements(got) : ~Refused(u)
    BY <1>5 DEF Shows
  <2>2. Elements(all) = Elements(got) \cup {v}
    BY <1>1, AppendElements
  <2>3. CASE Refused(v)
    <3>1. Handle(tool, args, all).do = "fail"
      BY <1>1, <1>5, <2>3, Strict
    <3> QED BY <3>1
  <2>4. CASE ~Refused(v)
    BY <2>1, <2>2, <2>4
  <2> QED BY <2>3, <2>4
<1>6. Shows(tool, args, all)
  BY <1>2, <1>3, <1>4, <1>5 DEF Shows
<1> QED BY <1>1, <1>6

LEMMA ShowsMeans ==
    ASSUME NEW tool, NEW args \in Args, NEW got, GoodAnswers(got), Shows(tool, args, got),
           Handle(tool, args, got).do = "give", ~Handle(tool, args, got).reply.partial,
           NEW v \in Elements(got), Refused(v)
    PROVE  v.what \in {"provisioned rules", "index"}
<1>1. CASE tool = "prepare_pull_request_review_bundle"
  BY <1>1, LenientHandle, BundleMeans DEF Shows
<1>2. CASE tool = "jira_export_tasks"
  <2>1. v.what = "index"
    BY <1>2, LenientHandle, ExportMeans DEF Shows
  <2> QED BY <2>1
<1>3. CASE tool = "grafana_list_alert_rules"
  <2>1. /\ AlertHistory(args, got) /\ grafanaListAlertRules(args, got).do = "give"
    BY <1>3, LenientHandle DEF Shows
  <2>2. got # <<>>
    BY DEF Elements
  <2>3. got[1].what = "provisioned rules" /\ \A k \in DOMAIN got : Refused(got[k]) => k = 1
    BY <2>1, <2>2 DEF AlertHistory
  <2> QED BY <2>3 DEF Elements
<1>4. CASE tool \notin Lenient
  BY <1>4 DEF Shows
<1> QED BY <1>1, <1>2, <1>3, <1>4 DEF Lenient

\* The inductive invariant.
Shown == Typed /\ (phase = "run" => Shows(t, a, rs))

LEMMA ShownStart == Init => Shown
BY TypedStart DEF Init, Shown

LEMMA ShownStep == Shown /\ [Next]_vars => Shown'
<1>1. SUFFICES ASSUME Shown, [Next]_vars PROVE Shown'
  OBVIOUS
<1>2. Typed /\ Typed'
  BY <1>1, TypedStep DEF Shown
<1>3. SUFFICES ASSUME phase' = "run"
               PROVE  Shows(t', a', rs')
  BY <1>2 DEF Shown
<1>4. ASSUME rs' = <<>>
      PROVE  Shows(t', a', rs')
  BY <1>4, ShowsNone
<1>5. ASSUME NEW c \in Calls, Call(c)
      PROVE  Shows(t', a', rs')
  BY <1>4, <1>5 DEF Call
<1>6. ASSUME NEW answer, Answer(answer)
      PROVE  Shows(t', a', rs')
  <2>1. phase = "run" /\ t' = t /\ a' = a /\ a \in Args /\ GoodAnswers(rs) /\ Shows(t, a, rs)
    BY <1>1, <1>2, <1>6 DEF Answer, Typed, Shown
  <2>2. PICK v : v = View(Outcome, answer)
    OBVIOUS
  <2>3. Outcome.do = "ask" /\ v.what = Outcome.what /\ v.lo = Outcome.lo /\ rs' = Append(rs, v)
    BY <1>2, <1>6, <2>2, Asking
  <2>4. Shows(t, a, Append(rs, v))
    BY <2>1, <2>3, ShowsNext DEF Outcome
  <2> QED BY <2>1, <2>3, <2>4
<1>7. CASE Return
  BY <1>3, <1>4, <1>7 DEF Return
<1>8. CASE ReturnError \/ NextStep
  BY <1>3, <1>8 DEF ReturnError, NextStep
<1>9. CASE UNCHANGED vars
  BY <1>1, <1>3, <1>9 DEF vars, Shown
<1> QED BY <1>1, <1>5, <1>6, <1>7, <1>8, <1>9 DEF Next

\* However the services and the disk fail, a reply that is no error, is not marked
\* partial and has no warning rests on requests and writes that went through (the
\* handlers of internal/tools; prepare_pull_request_review_bundle's errors, the warnings
\* of jira_export_tasks).
THEOREM FailuresShow == Spec => []NoSilentFailure
<1>1. Shown => NoSilentFailure
  <2>1. SUFFICES ASSUME Shown, phase = "run", Outcome.do = "give", ~Outcome.reply.partial,
                        NEW k \in DOMAIN rs, Refused(rs[k])
                 PROVE  rs[k].what \in {"provisioned rules", "index"}
    BY DEF NoSilentFailure
  <2>2. rs[k] \in Elements(rs)
    BY DEF Elements
  <2>3. a \in Args /\ GoodAnswers(rs) /\ Shows(t, a, rs)
    BY <2>1 DEF Shown, Typed
  <2> QED BY <2>1, <2>2, <2>3, ShowsMeans DEF Outcome
<1> QED BY <1>1, ShownStart, ShownStep, PTL DEF Spec

-----------------------------------------------------------------------------
(* What the answers carry                                                  *)

\* What an answer of the services of world x brings of a listing, or of a whole.
Fair(x, v) ==
    /\ v.kept = Least(v.n, x.kept)
    /\ v.what \in Listed => v.n <= x.total
    /\ v.v = "whole" /\ v.what \in Listed =>
           /\ v.n = IF v.lo >= x.total THEN 0 ELSE Least(v.size, x.total - v.lo)
           /\ v.more <=> v.lo + v.n < x.total
           /\ v.total = x.total
           /\ v.pager = IF v.what = "spaces v2" THEN "cursor"
                        ELSE IF v.what = "cql" THEN x.pager ELSE "start"
    /\ v.v = "whole" /\ v.what \in Whole => v.n = x.total

LEMMA FairView ==
    ASSUME w \in Worlds, NEW request, GoodMove(request), request.do = "ask",
           NEW answer
    PROVE  /\ Fair(w, View(request, answer))
           /\ request.client \notin {"jira", "confluence"} => View(request, answer).size = request.size
<1>1. PICK v : v = View(request, answer)
  OBVIOUS
<1>2. PICK kind, what, lo, ask : /\ kind = Do(request, answer) /\ what = request.what
                                 /\ lo = request.lo /\ ask = request.size
  OBVIOUS
<1> DEFINE size == IF request.client \in {"jira", "confluence"} THEN Least(ask, w.cap) ELSE ask
           held == IF what \in Listed
                   THEN IF lo >= w.total THEN 0 ELSE Least(size, w.total - lo)
                   ELSE IF what \in Whole THEN w.total ELSE 1
           n    == CASE kind = "whole" -> held
                     [] kind = "garbled" /\ what \in Text -> held \div 2
                     [] OTHER -> 0
<1>3. lo \in Nat /\ ask \in Nat /\ w.total \in Nat /\ w.cap \in Nat
  BY <1>2, FetchAssumption DEF GoodMove
<1>4. /\ v.v = kind /\ v.what = what /\ v.lo = lo /\ v.n = n /\ v.size = size
      /\ v.total = w.total /\ v.kept = Least(n, w.kept)
      /\ v.more = (/\ kind = "whole" \/ (kind = "garbled" /\ what \in {"files", "commits", "spaces v2"})
                   /\ what \in Listed /\ lo + held < w.total)
      /\ v.pager = CASE what = "spaces v2" -> "cursor"
                     [] what = "cql" -> w.pager
                     [] OTHER -> "start"
  BY <1>1, <1>2, Zenon DEF View
<1>5. size \in Nat /\ (request.client \notin {"jira", "confluence"} => size = ask)
  BY <1>3 DEF Least
<1> HIDE DEF size
<1>6. what \in Listed => what \notin Text /\ what \notin Whole /\ held \in Nat /\ held <= w.total
  <2>1. what \in Listed => what \notin Text /\ what \notin Whole
    BY DEF Listed, Text, Whole
  <2>2. what \in Listed => held = IF lo >= w.total THEN 0 ELSE Least(size, w.total - lo)
    OBVIOUS
  <2> HIDE DEF held
  <2>3. what \in Listed => held \in Nat /\ held <= w.total
    BY <1>3, <1>5, <2>2 DEF Least
  <2> QED BY <2>1, <2>3
<1>7. what \in Listed => v.n <= w.total
  <2>1. what \in Listed => n = held \/ n = 0
    <3> HIDE DEF held
    <3> QED BY <1>6
  <2>2. v.n = n
    <3> HIDE DEF n
    <3> QED BY <1>4
  <2>4. 0 <= w.total
    BY <1>3
  <2>3. what \in Listed => held <= w.total
    <3> HIDE DEF held
    <3> QED BY <1>6
  <2> HIDE DEF n, held
  <2> QED BY <2>1, <2>2, <2>3, <2>4
<1>8. kind = "whole" => n = held
  OBVIOUS
<1>9. v.kept = Least(v.n, w.kept)
  BY <1>4
<1>10. ASSUME v.v = "whole", v.what \in Listed
       PROVE  /\ v.n = IF v.lo >= w.total THEN 0 ELSE Least(v.size, w.total - v.lo)
              /\ v.more <=> v.lo + v.n < w.total
              /\ v.total = w.total
              /\ v.pager = IF v.what = "spaces v2" THEN "cursor"
                           ELSE IF v.what = "cql" THEN w.pager ELSE "start"
  <2>1. kind = "whole" /\ what \in Listed
    BY <1>4, <1>10
  <2>2. v.n = held /\ held = IF lo >= w.total THEN 0 ELSE Least(size, w.total - lo)
    BY <1>4, <1>8, <2>1
  <2> HIDE DEF n, held
  <2>3. v.more <=> lo + held < w.total
    BY <1>4, <2>1
  <2>4. v.pager = IF what = "spaces v2" THEN "cursor" ELSE IF what = "cql" THEN w.pager ELSE "start"
    BY <1>4
  <2> QED BY <1>4, <2>2, <2>3, <2>4
<1>11. ASSUME v.v = "whole", v.what \in Whole
       PROVE  v.n = w.total
  <2>1. kind = "whole" /\ what \in Whole /\ what \notin Listed
    BY <1>4, <1>11 DEF Whole, Listed
  <2>2. held = w.total
    BY <2>1
  <2> QED BY <1>4, <1>8, <2>1, <2>2
<1>12. Fair(w, v)
  <2> HIDE DEF n, held
  <2> QED BY <1>4, <1>7, <1>9, <1>10, <1>11, Zenon DEF Fair
<1> QED BY <1>1, <1>2, <1>4, <1>5, <1>12

\* The pages of a loop over the changed files, of one size and one after the other.
Counted(size, x, files) ==
    /\ files # <<>> =>
           /\ files[Len(files)].lo = (Len(files) - 1) * size
           /\ files[Len(files)].size = size
    /\ (\A v \in Elements(files) : v.v = "whole") =>
           Total(files) = Least(Len(files) * size, x.total)

LEMMA CountedNone ==
    ASSUME NEW size \in Nat, NEW x, x.total \in Nat
    PROVE  Counted(size, x, <<>>)
<1>1. PICK none : none = <<>>
  OBVIOUS
<1>2. Len(none) = 0 /\ Total(none) = 0
  BY <1>1, TotalNone
<1>3. Len(none) * size = 0
  BY <1>2
<1>4. Least(0, x.total) = 0
  BY DEF Least
<1>5. Counted(size, x, none)
  BY <1>1, <1>2, <1>3, <1>4 DEF Counted
<1> QED BY <1>1, <1>5

LEMMA CountedNext ==
    ASSUME NEW size \in Nat, NEW x, x.total \in Nat, NEW S, NEW files \in Seq(S),
           Counted(size, x, files),
           NEW v, v.lo = Len(files) * size, v.size = size, v.what = "files", Fair(x, v)
    PROVE  Counted(size, x, Append(files, v))
<1>1. PICK all : all = Append(files, v)
  OBVIOUS
<1>2. PICK m \in Nat : m = Len(files)
  OBVIOUS
<1>3. Len(all) = m + 1 /\ all[m + 1] = v
  BY <1>1, <1>2
<1>4. Elements(all) = Elements(files) \cup {v} /\ Total(all) = Total(files) + v.n
  BY <1>1, AppendElements, TotalNext
<1>5. ASSUME \A u \in Elements(all) : u.v = "whole"
      PROVE  Total(all) = Least((m + 1) * size, x.total)
  <2>1. Total(files) = Least(m * size, x.total) /\ v.v = "whole"
    BY <1>2, <1>4, <1>5 DEF Counted
  <2>2. "files" \in Listed
    BY DEF Listed
  <2>3. v.n = IF v.lo >= x.total THEN 0 ELSE Least(v.size, x.total - v.lo)
    BY <2>1, <2>2 DEF Fair
  <2>4. PICK from \in Nat : from = m * size
    OBVIOUS
  <2>5. (m + 1) * size = from + size
    BY <2>4
  <2>6. v.lo = from
    BY <1>2, <2>4
  <2>7. Total(all) = Least(from, x.total) + (IF from >= x.total THEN 0 ELSE Least(size, x.total - from))
    BY <1>4, <2>1, <2>3, <2>4, <2>6
  <2>8. Total(all) = Least(from + size, x.total)
    BY <2>7 DEF Least
  <2> QED BY <2>5, <2>8
<1>6. v.lo = ((m + 1) - 1) * size
  BY <1>2
<1>7. Counted(size, x, all)
  BY <1>3, <1>5, <1>6 DEF Counted
<1> QED BY <1>1, <1>7

\* A loop that ends without an error has had every item.
LEMMA CountedEnds ==
    ASSUME NEW tool, Largest[tool] \in Nat \ {0}, NEW x, x.total \in Nat, NEW S, NEW files \in Seq(S),
           Counted(Largest[tool], x, files), \A v \in Elements(files) : v.v = "whole" /\ Fair(x, v),
           \A v \in Elements(files) : v.what = "files",
           FilesLoop(tool, files).do = "give"
    PROVE  Total(files) = x.total
<1>1. PICK m \in Nat, size \in Nat \ {0} : m = Len(files) /\ size = Largest[tool]
  OBVIOUS
<1>2. files # <<>> /\ m >= 1 /\ (files[m].n = 0 \/ ~files[m].more)
  <2>1. files # <<>> /\ (files[m].n = 0 \/ ~files[m].more)
    BY <1>1 DEF FilesLoop, Ask, Fail, Give
  <2> QED BY <1>1, <2>1
<1>3. PICK v : v = files[m]
  OBVIOUS
<1>4. v \in Elements(files)
  BY <1>1, <1>2, <1>3 DEF Elements
<1>5. v.lo = (m - 1) * size /\ v.size = size /\ Total(files) = Least(m * size, x.total)
  BY <1>1, <1>2, <1>3 DEF Counted
<1>6. "files" \in Listed
  BY DEF Listed
<1>7. /\ v.n = IF v.lo >= x.total THEN 0 ELSE Least(v.size, x.total - v.lo)
      /\ v.more <=> v.lo + v.n < x.total
  <2>1. v.v = "whole" /\ v.what \in Listed /\ Fair(x, v)
    BY <1>4, <1>6
  <2> QED BY <2>1, Zenon DEF Fair
<1>8. PICK from \in Nat : from = (m - 1) * size
  BY <1>2
<1>9. m * size = from + size
  BY <1>2, <1>8
<1>10. v.n = 0 => from >= x.total
  BY <1>5, <1>7, <1>8 DEF Least
<1> QED BY <1>2, <1>3, <1>5, <1>7, <1>8, <1>9, <1>10 DEF Least

\* The loop asks for the page after the last.
LEMMA LoopAsks ==
    ASSUME NEW tool, Largest[tool] \in Nat, NEW S, NEW files \in Seq(S),
           FilesLoop(tool, files).do = "ask"
    PROVE  FilesLoop(tool, files) = Ask("github", "files", Len(files) * Largest[tool], Largest[tool])
<1>1. CASE files = <<>>
  <2>1. Len(files) = 0
    BY <1>1
  <2>2. Len(files) * Largest[tool] = 0
    BY <2>1
  <2> QED BY <1>1, <2>2 DEF FilesLoop
<1>2. CASE files # <<>>
  BY <1>2 DEF FilesLoop, Fail, Give
<1> QED BY <1>1, <1>2

\* v answers the request of a handler.
Replies(v, request) ==
    /\ request.do = "ask" /\ v.what = request.what /\ v.lo = request.lo
    /\ request.client \notin {"jira", "confluence"} => v.size = request.size

LEMMA LoopHandleAsks ==
    ASSUME NEW tool \in Loops, Largest[tool] \in Nat, NEW args, NEW got, GoodAnswers(got),
           NEW v, Replies(v, Handle(tool, args, got)), v.what = "files"
    PROVE  v.lo = Len(Of(got, "files")) * Largest[tool] /\ v.size = Largest[tool]
<1>1. PICK S, files : got \in Seq(S) /\ files = Of(got, "files") /\ files \in Seq(S)
  BY OfElements DEF GoodAnswers
<1>2. PICK loop : loop = FilesLoop(tool, files)
  OBVIOUS
<1>3. Handle(tool, args, got).do = "ask" /\ Handle(tool, args, got).what = "files"
  BY DEF Replies
<1>4. Handle(tool, args, got) = loop
  <2>1. CASE tool = "get_pull_request_summary"
    <3>1. PICK details : details = getPullRequestDetails(args, Of(got, "pr"))
      OBVIOUS
    <3>2. Handle(tool, args, got) =
              IF details.do # "give" THEN details
              ELSE IF loop.do # "give" THEN loop ELSE Give(ItemsOf(files))
      BY <1>1, <1>2, <2>1, <3>1 DEF Handle, getPullRequestSummary
    <3>3. details.do = "ask" => details.what = "pr"
      BY <3>1 DEF getPullRequestDetails, Once, One, Ask, Fail, Give
    <3>4. \A r : Give(r).do = "give"
      BY DEF Give
    <3> QED BY <1>3, <3>2, <3>3, <3>4
  <2>2. CASE tool = "fetch_complete_pr_files"
    <3>1. PICK write : write = Once(TRUE, One("disk", "write"), Of(got, "write"),
                                    LAMBDA u : [ItemsOf(files) EXCEPT !.complete = TRUE])
      OBVIOUS
    <3>2. Handle(tool, args, got) =
              IF ~args.fit THEN Fail ELSE IF loop.do # "give" THEN loop ELSE write
      BY <1>1, <1>2, <2>2, <3>1 DEF Handle, fetchCompletePRFiles
    <3>3. write.do = "ask" => write.what = "write"
      BY <3>1 DEF Once, One, Ask, Fail, Give
    <3>4. Fail.do = "fail"
      BY DEF Fail
    <3> QED BY <1>3, <3>2, <3>3, <3>4
  <2> QED BY <2>1, <2>2 DEF Loops
<1>5. loop = Ask("github", "files", Len(files) * Largest[tool], Largest[tool])
  BY <1>1, <1>2, <1>3, <1>4, LoopAsks
<1>6. /\ loop.lo = Len(files) * Largest[tool] /\ loop.size = Largest[tool]
      /\ loop.client = "github"
  BY <1>5 DEF Ask
<1> QED BY <1>1, <1>4, <1>6 DEF Replies

\* What is known of the answers of a handler, by the requests they answer.
Traced(tool, args, x, got) ==
    /\ tool \notin TwoSteps \cup Loops \cup Lenient \cup {"jira_get_issue_bundle"} /\ got # <<>> =>
           got = <<got[1]>> /\ Replies(got[1], Handle(tool, args, <<>>))
    /\ tool = "fetch_complete_pr_diff" /\ got # <<>> => got[1].what = "diff"
    /\ tool \in Loops => Counted(Largest[tool], x, Of(got, "files"))

LEMMA LoopPages ==
    ASSUME NEW tool \in Loops
    PROVE  Largest[tool] \in Nat \ {0}
<1>1. tool \in Sizing
  BY DEF Loops, Sizing
<1> QED BY <1>1, PageAssumption

LEMMA TracedNone ==
    ASSUME NEW tool, NEW args, NEW x, x.total \in Nat
    PROVE  Traced(tool, args, x, <<>>)
<1>1. PICK none : none = <<>>
  OBVIOUS
<1>2. Of(none, "files") = none
  BY <1>1, OfNone
<1>3. tool \in Loops => Counted(Largest[tool], x, none)
  BY <1>1, LoopPages, CountedNone
<1>4. Traced(tool, args, x, none)
  BY <1>1, <1>2, <1>3 DEF Traced
<1> QED BY <1>1, <1>4

LEMMA TracedNext ==
    ASSUME NEW tool, NEW args, NEW x, x.total \in Nat, NEW got, GoodAnswers(got),
           Traced(tool, args, x, got), NEW v, Replies(v, Handle(tool, args, got)), Fair(x, v)
    PROVE  Traced(tool, args, x, Append(got, v))
<1>1. PICK S, all : got \in Seq(S) /\ all = Append(got, v)
  BY DEF GoodAnswers
<1>2. /\ all # <<>>
      /\ got = <<>> => all = <<v>> /\ all[1] = v
      /\ got # <<>> => all[1] = got[1]
  <2>1. got = <<>> => all = <<v>>
    BY <1>1
  <2>2. /\ all # <<>>
        /\ got = <<>> => all[1] = v
        /\ got # <<>> => all[1] = got[1]
    BY <1>1, Last
  <2> QED BY <2>1, <2>2
<1>3. ASSUME tool \notin TwoSteps \cup Loops \cup Lenient \cup {"jira_get_issue_bundle"}
      PROVE  all = <<all[1]>> /\ Replies(all[1], Handle(tool, args, <<>>))
  <2>1. got = <<>>
    BY <1>3, OneShotHandle DEF OneShot, Replies
  <2> QED BY <1>2, <2>1
<1>4. ASSUME tool = "fetch_complete_pr_diff"
      PROVE  all[1].what = "diff"
  <2>1. CASE got = <<>>
    <3>1. Handle(tool, args, got) = fetchCompletePRDiff(args, got)
      BY <1>4 DEF Handle
    <3>2. fetchCompletePRDiff(args, got).do = "ask" => fetchCompletePRDiff(args, got).what = "diff"
      BY <2>1 DEF fetchCompletePRDiff, Once, One, Ask, Fail
    <3> QED BY <1>2, <2>1, <3>1, <3>2 DEF Replies
  <2>2. CASE got # <<>>
    BY <1>2, <1>4, <2>2 DEF Traced
  <2> QED BY <2>1, <2>2
<1>5. ASSUME tool \in Loops
      PROVE  Counted(Largest[tool], x, Of(all, "files"))
  <2>1. PICK files : files = Of(got, "files")
    OBVIOUS
  <2>2. files \in Seq(S) /\ Counted(Largest[tool], x, files)
    BY <1>1, <1>5, <2>1, OfElements DEF Traced
  <2>3. Of(all, "files") = IF v.what = "files" THEN Append(files, v) ELSE files
    BY <1>1, <2>1, OfNext
  <2>4. CASE v.what = "files"
    <3>1. Largest[tool] \in Nat
      BY <1>5, LoopPages
    <3>2. v.lo = Len(files) * Largest[tool] /\ v.size = Largest[tool]
      BY <1>5, <2>1, <2>4, <3>1, LoopHandleAsks
    <3>3. Counted(Largest[tool], x, Append(files, v))
      BY <2>2, <2>4, <3>1, <3>2, CountedNext
    <3> QED BY <2>3, <2>4, <3>3
  <2>5. CASE v.what # "files"
    BY <2>2, <2>3, <2>5
  <2> QED BY <2>4, <2>5
<1>6. Traced(tool, args, x, all)
  BY <1>2, <1>3, <1>4, <1>5 DEF Traced
<1> QED BY <1>1, <1>6

-----------------------------------------------------------------------------
(* Silence                                                                 *)

\* What a tool has to get through (Sought, for any tool, arguments and world).
Goal(tool, args, x) ==
    IF "filter" \in args.opts /\ tool \in {"get_pull_request_diff", "fetch_complete_pr_diff"}
    THEN x.kept ELSE x.total

\* The reply has the last item or does not keep silent.
Ends(r, goal) == r.told \/ r.partial \/ r.lo + r.n >= goal

\* A whole page, and the three ways of saying that there is more: the service's word of
\* a next page, the window of a Jira body, a page that is full.
LEMMA PageEnds ==
    ASSUME NEW x, x.total \in Nat, NEW v, GoodAnswer(v), Fair(x, v), v.v = "whole", v.what \in Listed
    PROVE  /\ \A next : Ends(Paged(v, v.more, next), x.total)
           /\ Ends(Windowed(v), x.total)
           /\ \A next : Ends(Paged(v, v.n = v.size, next), x.total)
<1>1. /\ v.n \in Nat /\ v.lo \in Nat /\ v.size \in Nat /\ v.total \in Nat
      /\ v.more \in BOOLEAN
  BY DEF GoodAnswer
<1>2. /\ v.n = IF v.lo >= x.total THEN 0 ELSE Least(v.size, x.total - v.lo)
      /\ v.more <=> v.lo + v.n < x.total
      /\ v.total = x.total
  BY Zenon DEF Fair
<1>3. v.more \/ v.lo + v.n >= x.total
  BY <1>1, <1>2
<1>4. v.lo + v.size < v.total \/ v.lo + v.n >= x.total
  BY <1>1, <1>2 DEF Least
<1>5. v.n = v.size \/ v.lo + v.n >= x.total
  BY <1>1, <1>2 DEF Least
<1>6. ASSUME NEW hasNext \in BOOLEAN, NEW next
      PROVE  /\ Paged(v, hasNext, next).told = hasNext
             /\ Paged(v, hasNext, next).lo = v.lo /\ Paged(v, hasNext, next).n = v.n
  BY DEF Paged, Items, Plain
<1>7. \A next : Ends(Paged(v, v.more, next), x.total)
  BY <1>1, <1>3, <1>6 DEF Ends
<1>8. \A next : Ends(Paged(v, v.n = v.size, next), x.total)
  <2>1. PICK full \in BOOLEAN : full = (v.n = v.size)
    OBVIOUS
  <2>2. \A next : Ends(Paged(v, full, next), x.total)
    BY <1>5, <1>6, <2>1 DEF Ends
  <2> QED BY <2>1, <2>2
<1>9. Ends(Windowed(v), x.total)
  <2>1. PICK r : r = Windowed(v)
    OBVIOUS
  <2>2. r.told = More(v) /\ r.lo = v.lo /\ r.n = v.n
    BY <2>1 DEF Windowed, Items, Plain
  <2>3. More(v) \/ v.lo + v.n >= x.total
    BY <1>4 DEF More
  <2> QED BY <2>1, <2>2, <2>3 DEF Ends
<1> QED BY <1>7, <1>8, <1>9

\* The answer a handler of one request gives its reply for.
Heard(tool, args, x, v) ==
    /\ GoodAnswer(v) /\ Fair(x, v) /\ v.v = "whole"
    /\ Replies(v, Handle(tool, args, <<>>)) /\ Handle(tool, args, <<v>>).do = "give"

LEMMA EndsByPage ==
    ASSUME NEW x, x.total \in Nat, NEW args, NEW v, NEW tool, NEW other, NEW what \in Listed,
           Heard(tool, args, x, v),
           Handle(tool, args, <<>>) = PageOf(other, what, args, <<>>),
           Handle(tool, args, <<v>>) = PageOf(other, what, args, <<v>>)
    PROVE  Ends(Handle(tool, args, <<v>>).reply, x.total)
<1>1. v.what = what
  BY DEF Heard, Replies, PageOf, Once, Ask, Fail
<1>2. Handle(tool, args, <<v>>).reply = NextPage(v, args)
  BY OneOf DEF Heard, PageOf, Once, Give, Fail
<1>3. \A next : Ends(Paged(v, v.more, next), x.total)
  BY <1>1, PageEnds DEF Heard
<1> QED BY <1>2, <1>3 DEF NextPage

LEMMA EndsByWindow ==
    ASSUME NEW x, x.total \in Nat, NEW args, NEW v, NEW tool, NEW other, NEW what \in Listed,
           Heard(tool, args, x, v),
           \A got : Handle(tool, args, got) = WindowOf(other, what, args, got)
    PROVE  Ends(Handle(tool, args, <<v>>).reply, x.total)
<1>1. v.what = what
  BY DEF Heard, Replies, WindowOf, Once, Ask, Fail
<1>2. Handle(tool, args, <<v>>).reply = Windowed(v)
  BY OneOf DEF Heard, WindowOf, Once, Give, Fail
<1>3. Ends(Windowed(v), x.total)
  BY <1>1, PageEnds DEF Heard
<1> QED BY <1>2, <1>3

LEMMA EndsFull ==
    ASSUME NEW x, x.total \in Nat, NEW args, NEW v, NEW tool, NEW other, NEW what \in Listed,
           Heard(tool, args, x, v),
           \A got : Handle(tool, args, got) = ByPage(other, what, args, got)
    PROVE  Ends(Handle(tool, args, <<v>>).reply, x.total)
<1> DEFINE limit == Limit(other, args)
           next  == [kind |-> "page", at |-> PageNo(args) + 1]
<1>1. v.what = what /\ v.size = limit
  <2>1. Handle(tool, args, <<>>) = ByPage(other, what, args, <<>>)
    OBVIOUS
  <2>2. PICK lo : lo = (PageNo(args) - 1) * limit
    OBVIOUS
  <2>3. Handle(tool, args, <<>>) = Fail \/ Handle(tool, args, <<>>) = Ask("grafana", what, lo, limit)
    BY <2>1, <2>2 DEF ByPage, Once
  <2> HIDE DEF limit
  <2> QED BY <2>3 DEF Heard, Replies, Ask, Fail
<1>3. Handle(tool, args, <<v>>).reply = Paged(v, v.n = limit, next)
  <2>1. Handle(tool, args, <<v>>) = ByPage(other, what, args, <<v>>)
    OBVIOUS
  <2>2. \/ Handle(tool, args, <<v>>) = Fail
        \/ Handle(tool, args, <<v>>) = Give(Paged(v, v.n = limit, next))
    BY <2>1, OneOf DEF ByPage, Full, Once, Heard, Replies
  <2> HIDE DEF limit, next
  <2> QED BY <2>2 DEF Heard, Give, Fail
<1>4. Ends(Paged(v, v.n = v.size, next), x.total)
  BY <1>1, PageEnds DEF Heard
<1> QED BY <1>1, <1>3, <1>4

\* The rest of the listings of one request: the chunks of a diff, Confluence's pages and
\* the panels of a dashboard.
LEMMA EndsDiff ==
    ASSUME NEW x, x.total \in Nat, x.kept \in 0..x.total, NEW args \in Args, NEW v,
           Heard("get_pull_request_diff", args, x, v),
           Default["get_pull_request_diff"] \in Nat \ {0}, Largest["get_pull_request_diff"] \in Nat \ {0}
    PROVE  Ends(Handle("get_pull_request_diff", args, <<v>>).reply,
                Goal("get_pull_request_diff", args, x))
<1> DEFINE tool == "get_pull_request_diff"
           C    == Clipped(tool, args)
           from == Least(args.at, Wanted(v, args))
           end  == Least(from + C, Wanted(v, args))
<1>1. /\ Handle(tool, args, <<>>) = getPullRequestDiff(args, <<>>)
      /\ Handle(tool, args, <<v>>) = getPullRequestDiff(args, <<v>>)
  BY Dispatch
<1>2. args.at >= 0 /\ v.what = "diff"
  BY <1>1 DEF Heard, Replies, getPullRequestDiff, Once, Fail, One, Ask
<1>3. Handle(tool, args, <<v>>).reply = Chunk(v, args, C)
  BY <1>1, OneOf DEF Heard, getPullRequestDiff, Once, Fail, Give
<1>4. v.n = x.total /\ v.kept = Least(x.total, x.kept)
  <2>1. "diff" \in Whole
    BY DEF Whole
  <2> QED BY <1>2, <2>1 DEF Heard, Fair
<1>5. Wanted(v, args) = Goal(tool, args, x) /\ Wanted(v, args) \in Nat
  BY <1>4 DEF Wanted, Goal, Least
<1>6. args.at \in Nat /\ C \in Nat
  BY <1>2, ClippedSize DEF Args
<1>7. PICK goal \in Nat : goal = Wanted(v, args)
  BY <1>5
<1> HIDE DEF C
<1>8. from \in Nat /\ end \in Nat /\ from <= end /\ end <= goal
  BY <1>6, <1>7 DEF Least
<1>9. PICK r : r = Handle(tool, args, <<v>>).reply
  OBVIOUS
<1>10. r = Paged([lo |-> from, n |-> end - from], end < goal, [kind |-> "offset", at |-> end])
  BY <1>3, <1>7, <1>9 DEF Chunk
<1> HIDE DEF from, end
<1>11. r.told = (end < goal) /\ r.lo = from /\ r.n = end - from
  BY <1>10 DEF Paged, Items, Plain
<1>12. end < goal \/ from + (end - from) >= goal
  BY <1>8
<1> QED BY <1>5, <1>7, <1>9, <1>11, <1>12 DEF Ends

LEMMA EndsSpaces ==
    ASSUME NEW x, x.total \in Nat, NEW args, NEW v, Heard("confluence_list_spaces", args, x, v)
    PROVE  Ends(Handle("confluence_list_spaces", args, <<v>>).reply, x.total)
<1> DEFINE tool == "confluence_list_spaces"
<1>1. /\ Handle(tool, args, <<>>) = confluenceListSpaces(args, <<>>)
      /\ Handle(tool, args, <<v>>) = confluenceListSpaces(args, <<v>>)
  BY Dispatch
<1>2. \A next : v.what \in Listed => Ends(Paged(v, v.more, next), x.total)
  BY PageEnds DEF Heard
<1>3. v.more \in BOOLEAN /\ v.v = "whole"
  BY DEF Heard, GoodAnswer
<1>4. CASE ByCursor(args)
  <2>1. PICK what : what = "spaces v2" /\ what \in Listed
    BY DEF Listed
  <2>2. \/ confluenceListSpaces(args, <<>>) = Fail
        \/ confluenceListSpaces(args, <<>>) = Ask("confluence", what, args.cursor, Clipped(tool, args))
    BY <1>4, <2>1 DEF confluenceListSpaces, Once, ByCursor
  <2>3. v.what = what
    BY <1>1, <2>2 DEF Heard, Replies, Fail, Ask
  <2>4. confluenceListSpaces(args, <<v>>).do = "give"
    BY <1>1 DEF Heard
  <2>5. confluenceListSpaces(args, <<v>>).reply = Paged(v, NextCursor(v), LinkNext(v))
    BY <1>4, <2>4, OneOf DEF confluenceListSpaces, Once, Fail, Give, ByCursor
  <2>6. v.pager = "cursor"
    <3>1. v.pager = IF what = "spaces v2" THEN "cursor" ELSE IF what = "cql" THEN x.pager ELSE "start"
      BY <1>3, <2>1, <2>3 DEF Heard, Fair
    <3> QED BY <2>1, <3>1
  <2>7. NextCursor(v) = v.more
    BY <1>3, <2>6 DEF NextCursor
  <2> QED BY <1>1, <1>2, <2>1, <2>3, <2>5, <2>7
<1>5. CASE ~ByCursor(args)
  <2>1. PICK what : what = "spaces" /\ what \in Listed
    BY DEF Listed
  <2>2. \/ confluenceListSpaces(args, <<>>) = Fail
        \/ confluenceListSpaces(args, <<>>) = Ask("confluence", what, args.at, Clipped(tool, args))
    BY <1>5, <2>1 DEF confluenceListSpaces, Once, ByCursor
  <2>3. v.what = what
    BY <1>1, <2>2 DEF Heard, Replies, Fail, Ask
  <2>4. confluenceListSpaces(args, <<v>>).do = "give"
    BY <1>1 DEF Heard
  <2>5. confluenceListSpaces(args, <<v>>).reply = Paged(v, NextStart(v), LinkNext(v))
    BY <1>5, <2>4, OneOf DEF confluenceListSpaces, Once, Fail, Give, ByCursor
  <2>6. v.pager = "start"
    <3>1. v.pager = IF what = "spaces v2" THEN "cursor" ELSE IF what = "cql" THEN x.pager ELSE "start"
      BY <1>3, <2>1, <2>3 DEF Heard, Fair
    <3> QED BY <2>1, <3>1
  <2>7. NextStart(v) = v.more
    BY <1>3, <2>6 DEF NextStart, Linked
  <2> QED BY <1>1, <1>2, <2>1, <2>3, <2>5, <2>7
<1> QED BY <1>4, <1>5

LEMMA EndsSearch ==
    ASSUME NEW x, x.total \in Nat, NEW args, NEW v, Heard("confluence_search_cql", args, x, v)
    PROVE  Ends(Handle("confluence_search_cql", args, <<v>>).reply, x.total)
<1> DEFINE tool == "confluence_search_cql"
<1>1. /\ Handle(tool, args, <<>>) = confluenceSearchCQL(args, <<>>)
      /\ Handle(tool, args, <<v>>) = confluenceSearchCQL(args, <<v>>)
  BY Dispatch
<1>2. v.what = "cql"
  BY <1>1 DEF Heard, Replies, confluenceSearchCQL, Once, Fail, Ask
<1>3. Handle(tool, args, <<v>>).reply = Paged(v, Linked(v), LinkNext(v))
  BY <1>1, OneOf DEF Heard, confluenceSearchCQL, Once, Fail, Give
<1>4. v.what \in Listed
  BY <1>2 DEF Listed
<1>5. \A next : Ends(Paged(v, v.more, next), x.total)
  BY <1>4, PageEnds DEF Heard
<1>6. Linked(v) = v.more
  BY DEF Heard, GoodAnswer, Linked
<1> QED BY <1>3, <1>5, <1>6

LEMMA EndsBelow ==
    ASSUME NEW x, x.total \in Nat, NEW args, NEW v,
           NEW tool \in {"confluence_get_page_children", "confluence_list_page_attachments"},
           Heard(tool, args, x, v)
    PROVE  Ends(Handle(tool, args, <<v>>).reply, x.total)
<1> DEFINE what == IF tool = "confluence_get_page_children" THEN "children" ELSE "attachments"
           size == IF args.size = 0 THEN Default[tool] ELSE args.size
<1>1. \E next : /\ \/ Handle(tool, args, <<>>) = Fail
                   \/ Handle(tool, args, <<>>) = Ask("confluence", what, args.at, size)
                /\ \/ Handle(tool, args, <<v>>) = Fail
                   \/ Handle(tool, args, <<v>>) =
                          Give([Paged(v, Linked(v), next) EXCEPT !.told = Linked(v)])
  <2>1. CASE tool = "confluence_get_page_children"
    <3>1. \A got : Handle(tool, args, got) = confluenceGetPageChildren(args, got)
      BY <2>1, Dispatch
    <3>2. PICK next : next = LinkNext(v)
      OBVIOUS
    <3>3. \/ Handle(tool, args, <<>>) = Fail
          \/ Handle(tool, args, <<>>) = Ask("confluence", what, args.at, size)
      BY <2>1, <3>1 DEF confluenceGetPageChildren, Children, Once
    <3>4. \/ Handle(tool, args, <<v>>) = Fail
          \/ Handle(tool, args, <<v>>) = Give([Paged(v, Linked(v), next) EXCEPT !.told = Linked(v)])
      BY <2>1, <3>1, <3>2, OneOf DEF confluenceGetPageChildren, Children, Once
    <3> QED BY <3>3, <3>4
  <2>2. CASE tool = "confluence_list_page_attachments"
    <3>1. \A got : Handle(tool, args, got) = confluenceListPageAttachments(args, got)
      BY <2>2, Dispatch
    <3>2. PICK next : next = IF v.pager = "start" THEN LinkNext(v) ELSE NoNext
      OBVIOUS
    <3>3. \/ Handle(tool, args, <<>>) = Fail
          \/ Handle(tool, args, <<>>) = Ask("confluence", what, args.at, size)
      BY <2>2, <3>1 DEF confluenceListPageAttachments, Children, Once
    <3>4. \/ Handle(tool, args, <<v>>) = Fail
          \/ Handle(tool, args, <<v>>) = Give([Paged(v, Linked(v), next) EXCEPT !.told = Linked(v)])
      BY <2>2, <3>1, <3>2, OneOf DEF confluenceListPageAttachments, Children, Once
    <3> QED BY <3>3, <3>4
  <2> QED BY <2>1, <2>2
<1>2. what \in Listed
  BY DEF Listed
<1> HIDE DEF what, size
<1>3. v.what = what
  BY <1>1 DEF Heard, Replies, Ask, Fail
<1>4. PICK next : Handle(tool, args, <<v>>) =
                      Give([Paged(v, Linked(v), next) EXCEPT !.told = Linked(v)])
  BY <1>1 DEF Heard, Fail
<1>5. Linked(v) = v.more
  BY DEF Heard, GoodAnswer, Linked
<1>6. PICK r, p : r = Handle(tool, args, <<v>>).reply /\ p = Paged(v, v.more, next)
  OBVIOUS
<1>7. Ends(p, x.total)
  BY <1>2, <1>3, <1>6, PageEnds DEF Heard
<1>8. r.told = p.told /\ r.lo = p.lo /\ r.n = p.n /\ r.partial = p.partial
  <2>1. r = [p EXCEPT !.told = v.more]
    BY <1>4, <1>5, <1>6 DEF Give
  <2>2. v.more \in BOOLEAN
    BY DEF Heard, GoodAnswer
  <2> QED BY <1>6, <2>1, <2>2 DEF Paged, Items, Plain
<1> QED BY <1>6, <1>7, <1>8 DEF Ends

LEMMA EndsPanels ==
    ASSUME NEW x, x.total \in Nat, NEW args \in Args, NEW v,
           Heard("grafana_get_dashboard_summary", args, x, v),
           Default["grafana_get_dashboard_summary"] \in Nat
    PROVE  Ends(Handle("grafana_get_dashboard_summary", args, <<v>>).reply, x.total)
<1> DEFINE tool == "grafana_get_dashboard_summary"
           max  == Limit(tool, args)
<1>1. \A got : Handle(tool, args, got) = grafanaGetDashboardSummary(args, got)
  BY DEF Handle
<1>2. /\ Handle(tool, args, <<>>) = grafanaGetDashboardSummary(args, <<>>)
      /\ Handle(tool, args, <<v>>) = grafanaGetDashboardSummary(args, <<v>>)
  BY <1>1
<1>3. v.what = "panels"
  <2>1. \/ Handle(tool, args, <<>>) = Fail
        \/ Handle(tool, args, <<>>) = Ask("grafana", "panels", 0, 1)
    BY <1>2 DEF grafanaGetDashboardSummary, Once, One
  <2> QED BY <2>1 DEF Heard, Replies, Fail, Ask
<1>4. Handle(tool, args, <<v>>).reply = [Plain EXCEPT !.n = Least(v.n, max), !.told = v.n > max]
  <2>1. \/ Handle(tool, args, <<v>>) = Fail
        \/ Handle(tool, args, <<v>>) =
               Give([Plain EXCEPT !.n = Least(v.n, max), !.told = v.n > max])
    <3>1. grafanaGetDashboardSummary(args, <<v>>).do \in {"fail", "give"}
      BY <1>2 DEF Heard
    <3> QED BY <1>2, OneOf DEF grafanaGetDashboardSummary, Once
  <2> HIDE DEF max
  <2> QED BY <2>1 DEF Heard, Fail, Give
<1>5. v.n = x.total
  <2>1. "panels" \in Whole
    BY DEF Whole
  <2> QED BY <1>3, <2>1 DEF Heard, Fair
<1>6. max \in Int
  BY DEF Limit, Args
<1>7. PICK r : r = Handle(tool, args, <<v>>).reply
  OBVIOUS
<1> HIDE DEF max
<1>8. r.told = (v.n > max) /\ r.lo = 0 /\ r.n = Least(v.n, max)
  BY <1>4, <1>7 DEF Plain
<1>9. v.n > max \/ 0 + Least(v.n, max) >= x.total
  BY <1>5, <1>6 DEF Least
<1> QED BY <1>7, <1>8, <1>9 DEF Ends

\* A bundle carries the page of the changed files that its second part gives.
LEMMA EndsBundle ==
    ASSUME NEW x, x.total \in Nat, NEW args \in Args, NEW got, GoodAnswers(got),
           \A v \in Elements(got) : Fair(x, v) /\ v.v # "garbled",
           preparePullRequestReviewBundle(args, got).do = "give"
    PROVE  Ends(preparePullRequestReviewBundle(args, got).reply, x.total)
<1>1. PICK parts, files, move : /\ parts = BundleParts(args, got) /\ files = Of(got, "files")
                                /\ move = preparePullRequestReviewBundle(args, got)
  OBVIOUS
<1>2. DOMAIN parts = 1..5 /\ parts[2] = PageOf("list_pull_request_files", "files", args, files)
  BY <1>1, PartsAre DEF listPullRequestFiles
<1>3. move = Give(BundleReply(parts)) /\ parts[2].do # "ask"
  <2> DEFINE open  == {j \in DOMAIN parts : parts[j].do = "ask"}
             first == {j \in open : \A i \in open : j <= i}
  <2>1. move = IF ~args.fit THEN Fail
               ELSE IF first # {} THEN parts[CHOOSE j \in first : TRUE]
               ELSE Give(BundleReply(parts))
    BY <1>1 DEF preparePullRequestReviewBundle
  <2>2. args.fit /\ (first # {} => move = parts[CHOOSE j \in first : TRUE])
    BY <1>1, <2>1 DEF Fail
  <2>3. \A j \in first : parts[j].do = "ask"
    OBVIOUS
  <2>4. open # {} => first # {}
    <3>1. open \subseteq Nat
      BY <1>2
    <3> HIDE DEF open
    <3> QED BY <3>1, LeastOf
  <2>5. first = {}
    <3> HIDE DEF first
    <3>1. SUFFICES ASSUME first # {} PROVE FALSE
      OBVIOUS
    <3>2. (CHOOSE j \in first : TRUE) \in first
      BY <3>1
    <3> QED BY <1>1, <2>2, <2>3, <3>1, <3>2
  <2>6. open = {}
    BY <2>4, <2>5
  <2> QED BY <1>2, <2>1, <2>2, <2>5, <2>6
<1>4. PICK part : part = IF parts[2].do = "give" THEN parts[2].reply ELSE Plain
  OBVIOUS
<1>5. GoodReply(part)
  <2>1. GoodMove(parts[2])
    BY <1>1, <1>2, GoodOf, GoodGitHub DEF listPullRequestFiles
  <2> QED BY <1>4, <2>1, GoodPlain DEF GoodMove
<1>6. PICK partial \in BOOLEAN : partial = (\E k \in DOMAIN parts : parts[k].do = "fail")
  OBVIOUS
<1>7. PICK r : r = move.reply
  OBVIOUS
<1>8. r.told = part.told /\ r.lo = part.lo /\ r.n = part.n /\ r.partial = partial
  <2>1. r = [part EXCEPT !.hasNext = FALSE, !.next = NoNext, !.partial = partial]
    BY <1>3, <1>4, <1>6, <1>7 DEF BundleReply, Give
  <2>2. {"told", "lo", "n", "partial"} \subseteq DOMAIN part
    BY <1>5 DEF GoodReply, Plain
  <2> QED BY <2>1, <2>2
<1>9. CASE parts[2].do = "fail"
  <2>1. partial = TRUE
    BY <1>2, <1>6, <1>9
  <2> QED BY <1>1, <1>7, <1>8, <2>1 DEF Ends
<1>10. CASE parts[2].do # "fail"
  <2>1. PICK size, lo : size = Clipped("list_pull_request_files", args) /\ lo = (Page(args) - 1) * size
    OBVIOUS
  <2>2. \/ parts[2] = Fail \/ parts[2] = Ask("github", "files", lo, size)
        \/ files # <<>> /\ ~Refused(files[1]) /\ parts[2] = Give(NextPage(files[1], args))
    BY <1>2, <2>1 DEF PageOf, Once
  <2>3. files # <<>> /\ ~Refused(files[1]) /\ parts[2] = Give(NextPage(files[1], args))
    BY <1>3, <1>10, <2>2 DEF Fail, Ask
  <2>4. PICK v : v = files[1]
    OBVIOUS
  <2>5. v \in Elements(got) /\ v.what = "files" /\ GoodAnswer(v)
    <3>1. PICK S : got \in Seq(S) /\ S = Elements(got) /\ \A u \in S : GoodAnswer(u)
      BY DEF GoodAnswers
    <3>2. files \in Seq(S) /\ Elements(files) = {u \in Elements(got) : u.what = "files"}
      BY <1>1, <3>1, OfElements
    <3>3. v \in Elements(files)
      BY <2>3, <2>4, <3>2 DEF Elements
    <3> QED BY <3>1, <3>2, <3>3
  <2>6. v.v = "whole" /\ Fair(x, v)
    BY <2>3, <2>4, <2>5 DEF Refused, GoodAnswer
  <2>7. "files" \in Listed
    BY DEF Listed
  <2>8. \A next : Ends(Paged(v, v.more, next), x.total)
    BY <2>5, <2>6, <2>7, PageEnds
  <2>9. part = NextPage(v, args)
    BY <1>4, <2>3, <2>4 DEF Give
  <2>10. Ends(part, x.total)
    BY <2>8, <2>9 DEF NextPage
  <2>11. part.partial = FALSE
    BY <2>5, <2>9 DEF NextPage, Paged, Items, Plain, GoodAnswer
  <2> QED BY <1>1, <1>7, <1>8, <2>10, <2>11 DEF Ends
<1> QED BY <1>9, <1>10

\* The summary counts the changed files page by page.
LEMMA EndsSummary ==
    ASSUME NEW x \in Worlds, NEW args \in Args, NEW got, GoodAnswers(got),
           \A v \in Elements(got) : Fair(x, v) /\ v.v = "whole",
           Counted(Largest["get_pull_request_summary"], x, Of(got, "files")),
           getPullRequestSummary(args, got).do = "give"
    PROVE  Ends(getPullRequestSummary(args, got).reply, x.total)
<1>1. PICK S, files : got \in Seq(S) /\ files = Of(got, "files") /\ files \in Seq(S)
                      /\ \A v \in Elements(files) : v \in Elements(got) /\ v.what = "files"
  BY OfElements DEF GoodAnswers
<1>2. PICK details, loop : /\ details = getPullRequestDetails(args, Of(got, "pr"))
                           /\ loop = FilesLoop("get_pull_request_summary", files)
  OBVIOUS
<1>3. getPullRequestSummary(args, got) =
          IF details.do # "give" THEN details
          ELSE IF loop.do # "give" THEN loop ELSE Give(ItemsOf(files))
  BY <1>1, <1>2 DEF getPullRequestSummary
<1>4. loop.do = "give" /\ getPullRequestSummary(args, got).reply = ItemsOf(files)
  BY <1>3 DEF Give
<1>5. x.total \in Nat /\ Largest["get_pull_request_summary"] \in Nat \ {0}
  BY FetchAssumption, LoopPages DEF Loops
<1>6. Total(files) = x.total
  BY <1>1, <1>2, <1>4, <1>5, CountedEnds
<1>7. ItemsOf(files).lo = 0 /\ ItemsOf(files).n = x.total
  BY <1>6 DEF ItemsOf, Plain
<1> QED BY <1>4, <1>5, <1>7 DEF Ends

LEMMA EndsOne ==
    ASSUME NEW x \in Worlds, NEW args \in Args, NEW v,
           NEW tool \in Listings \ {"get_pull_request_summary", "prepare_pull_request_review_bundle"},
           Heard(tool, args, x, v)
    PROVE  Ends(Handle(tool, args, <<v>>).reply, Goal(tool, args, x))
<1>1. x.total \in Nat /\ x.kept \in 0..x.total
  BY FetchAssumption
<1>2. tool \in Sizing
  BY DEF Listings, Sizing, Continued
<1>3. Default[tool] \in Nat \ {0} /\ Largest[tool] \in Nat \ {0}
  BY <1>2, PageAssumption
<1>4. tool # "get_pull_request_diff" => tool # "fetch_complete_pr_diff" /\ Goal(tool, args, x) = x.total
  BY DEF Listings, JiraPaged, PagePaged, Goal
<1>5. {"files", "commits", "runs", "jobs", "issues", "comments", "projects", "search", "folders"} \subseteq Listed
  BY DEF Listed
<1>6. CASE tool \in {"list_pull_request_files", "list_pull_request_commits",
                     "github_list_workflow_runs", "github_list_workflow_jobs"}
  <2> DEFINE what == CASE tool = "list_pull_request_files" -> "files"
                       [] tool = "list_pull_request_commits" -> "commits"
                       [] tool = "github_list_workflow_runs" -> "runs"
                       [] OTHER -> "jobs"
  <2>1. what \in Listed
    BY <1>5
  <2>2. /\ Handle(tool, args, <<>>) = PageOf(tool, what, args, <<>>)
        /\ Handle(tool, args, <<v>>) = PageOf(tool, what, args, <<v>>)
    <3>1. Decoded(<<>>) /\ Decoded(<<v>>)
      BY OneOf DEF Decoded, Heard
    <3>2. CASE tool = "list_pull_request_files"
      BY <3>2, Dispatch DEF listPullRequestFiles
    <3>3. CASE tool = "list_pull_request_commits"
      BY <3>3, Dispatch DEF listPullRequestCommits
    <3>4. CASE tool = "github_list_workflow_runs"
      <4>1. \A got : Handle(tool, args, got) = githubListWorkflowRuns(args, got)
        BY <3>4 DEF Handle
      <4>2. /\ Handle(tool, args, <<>>) = githubListWorkflowRuns(args, <<>>)
            /\ Handle(tool, args, <<v>>) = githubListWorkflowRuns(args, <<v>>)
        BY <4>1
      <4> QED BY <3>1, <3>4, <4>2 DEF githubListWorkflowRuns
    <3>5. CASE tool = "github_list_workflow_jobs"
      <4>1. \A got : Handle(tool, args, got) = githubListWorkflowJobs(args, got)
        BY <3>5 DEF Handle
      <4>2. /\ Handle(tool, args, <<>>) = githubListWorkflowJobs(args, <<>>)
            /\ Handle(tool, args, <<v>>) = githubListWorkflowJobs(args, <<v>>)
        BY <4>1
      <4> QED BY <3>1, <3>5, <4>2 DEF githubListWorkflowJobs
    <3> QED BY <1>6, <3>2, <3>3, <3>4, <3>5
  <2>3. tool # "get_pull_request_diff"
    BY <1>6
  <2> HIDE DEF what
  <2> QED BY <1>1, <1>4, <2>1, <2>2, <2>3, EndsByPage
<1>7. CASE tool \in JiraPaged
  <2>1. CASE tool = "jira_search_issues"
    <3>1. \A got : Handle(tool, args, got) = WindowOf(tool, "issues", args, got)
      BY <2>1, Dispatch DEF jiraSearchIssues
    <3> QED BY <1>1, <1>4, <1>5, <2>1, <3>1, EndsByWindow
  <2>2. CASE tool = "jira_get_issue_comments"
    <3>1. \A got : Handle(tool, args, got) = WindowOf(tool, "comments", args, got)
      BY <2>2, Dispatch DEF jiraGetIssueComments
    <3> QED BY <1>1, <1>4, <1>5, <2>2, <3>1, EndsByWindow
  <2>3. CASE tool = "jira_list_projects" /\ ApiVersion(args) = 3
    <3>1. \A got : Handle(tool, args, got) = WindowOf(tool, "projects", args, got)
      BY <2>3, Dispatch DEF jiraListProjects
    <3> QED BY <1>1, <1>4, <1>5, <2>3, <3>1, EndsByWindow, SMTT(30)
  <2>4. CASE tool = "jira_list_projects" /\ ApiVersion(args) # 3
    <3>1. PICK what, ok : what = "all projects" /\ ok \in BOOLEAN /\ ok
      OBVIOUS
    <3>2. \A got : Handle(tool, args, got) = Single(what, ok, args, got)
      BY <2>4, <3>1, Dispatch DEF jiraListProjects
    <3>3. /\ Handle(tool, args, <<>>) = Single(what, ok, args, <<>>)
          /\ Handle(tool, args, <<v>>) = Single(what, ok, args, <<v>>)
      BY <3>2
    <3>4. v.what = what
      BY <3>3 DEF Heard, Replies, Single, Once, Fail, One, Ask
    <3>5. Handle(tool, args, <<v>>).reply = Items(v)
      BY <3>3, OneOf DEF Heard, Single, Once, Fail, Give
    <3>6. v.n = x.total
      <4>1. what \in Whole
        BY <3>1 DEF Whole
      <4> QED BY <3>4, <4>1 DEF Heard, Fair
    <3>7. v.lo \in Nat /\ v.n \in Nat
      BY DEF Heard, GoodAnswer
    <3>8. Items(v).lo = v.lo /\ Items(v).n = v.n
      BY DEF Items, Plain
    <3> QED BY <1>1, <1>4, <2>4, <3>5, <3>6, <3>7, <3>8 DEF Ends
  <2> QED BY <1>7, <2>1, <2>2, <2>3, <2>4 DEF JiraPaged
<1>8. CASE tool = "get_pull_request_diff"
  BY <1>1, <1>3, <1>8, EndsDiff
<1>9. CASE tool \in {"confluence_list_spaces", "confluence_search_cql",
                     "confluence_get_page_children", "confluence_list_page_attachments"}
  <2>1. Goal(tool, args, x) = x.total
    BY <1>4, <1>9
  <2>2. CASE tool = "confluence_list_spaces"
    BY <1>1, <2>1, <2>2, EndsSpaces
  <2>3. CASE tool = "confluence_search_cql"
    BY <1>1, <2>1, <2>3, EndsSearch
  <2>4. CASE tool \in {"confluence_get_page_children", "confluence_list_page_attachments"}
    BY <1>1, <2>1, <2>4, EndsBelow
  <2> QED BY <1>9, <2>2, <2>3, <2>4
<1>10. CASE tool = "grafana_search"
  <2>1. \A got : Handle(tool, args, got) = ByPage(tool, "search", args, got)
    BY <1>10 DEF Handle, grafanaSearch
  <2> QED BY <1>1, <1>4, <1>5, <1>10, <2>1, EndsFull, SMTT(30)
<1>11. CASE tool = "grafana_list_folders"
  <2>1. \A got : Handle(tool, args, got) = ByPage(tool, "folders", args, got)
    BY <1>11 DEF Handle, grafanaListFolders
  <2> QED BY <1>1, <1>4, <1>5, <1>11, <2>1, EndsFull
<1>12. CASE tool = "grafana_get_dashboard_summary"
  BY <1>1, <1>3, <1>4, <1>12, EndsPanels
<1> QED BY <1>6, <1>7, <1>8, <1>9, <1>10, <1>11, <1>12 DEF Listings, PagePaged

\* A listing that is silent of more has its last item.
LEMMA Silent ==
    ASSUME NEW x \in Worlds, NEW tool \in Listings, NEW args \in Args, NEW got, GoodAnswers(got),
           Shows(tool, args, got), Traced(tool, args, x, got),
           \A v \in Elements(got) : Fair(x, v) /\ v.v # "garbled",
           Handle(tool, args, got).do = "give"
    PROVE  Ends(Handle(tool, args, got).reply, Goal(tool, args, x))
<1>1. x.total \in Nat
  BY FetchAssumption
<1>2. CASE tool = "prepare_pull_request_review_bundle"
  <2>1. Handle(tool, args, got) = preparePullRequestReviewBundle(args, got)
    BY <1>2, LenientHandle
  <2>2. Goal(tool, args, x) = x.total
    BY <1>2 DEF Goal
  <2> QED BY <1>1, <2>1, <2>2, EndsBundle
<1>3. ASSUME tool # "prepare_pull_request_review_bundle"
      PROVE  \A v \in Elements(got) : Fair(x, v) /\ v.v = "whole"
  <2>1. tool \notin Lenient
    BY <1>3 DEF Lenient, Listings, JiraPaged, PagePaged
  <2>2. \A v \in Elements(got) : ~Refused(v)
    BY <2>1 DEF Shows
  <2> QED BY <2>2 DEF GoodAnswers, GoodAnswer, Refused
<1>4. CASE tool = "get_pull_request_summary"
  <2>1. tool \in Loops /\ Handle(tool, args, got) = getPullRequestSummary(args, got)
    BY <1>4 DEF Loops, Handle
  <2>2. Goal(tool, args, x) = x.total
    BY <1>4 DEF Goal
  <2>3. Counted(Largest["get_pull_request_summary"], x, Of(got, "files"))
    BY <1>4, <2>1 DEF Traced
  <2> QED BY <1>3, <1>4, <2>1, <2>2, <2>3, EndsSummary
<1>5. CASE tool \notin {"get_pull_request_summary", "prepare_pull_request_review_bundle"}
  <2>1. tool \notin TwoSteps \cup Loops \cup Lenient \cup {"jira_get_issue_bundle"}
    BY <1>5 DEF TwoSteps, Loops, Lenient, Listings, JiraPaged, PagePaged
  <2>2. got # <<>>
    <3>1. CASE tool \in Continued
      BY <3>1, OneRequest
    <3>2. CASE tool \notin Continued
      <4>1. tool \in {"github_list_workflow_runs", "github_list_workflow_jobs", "grafana_search",
                      "grafana_list_folders", "grafana_get_dashboard_summary"}
        BY <1>5, <3>2 DEF Listings, Continued
      <4>2. ASSUME got = <<>>
            PROVE  FALSE
        <5>1. CASE tool \in {"github_list_workflow_runs", "github_list_workflow_jobs"}
          BY <4>2, <5>1 DEF Handle, githubListWorkflowRuns, githubListWorkflowJobs, PageOf, Once,
                            Ask, Fail
        <5>2. CASE tool \in {"grafana_search", "grafana_list_folders"}
          BY <4>2, <5>2 DEF Handle, grafanaSearch, grafanaListFolders, ByPage, Once, Ask, Fail
        <5>3. CASE tool = "grafana_get_dashboard_summary"
          BY <4>2, <5>3 DEF Handle, grafanaGetDashboardSummary, Once, One, Ask, Fail
        <5> QED BY <4>1, <5>1, <5>2, <5>3
      <4> QED BY <4>2
    <3> QED BY <3>1, <3>2
  <2>3. PICK v : v = got[1]
    OBVIOUS
  <2>4. got = <<v>> /\ Replies(v, Handle(tool, args, <<>>))
    BY <2>1, <2>2, <2>3 DEF Traced
  <2>5. v \in Elements(got)
    <3>1. 1 \in DOMAIN got
      BY <2>4
    <3> QED BY <2>3, <3>1 DEF Elements
  <2>6. GoodAnswer(v) /\ Fair(x, v) /\ v.v = "whole"
    BY <1>3, <1>5, <2>5 DEF GoodAnswers
  <2>7. Heard(tool, args, x, v)
    BY <2>4, <2>6 DEF Heard
  <2> QED BY <1>5, <2>4, <2>7, EndsOne
<1> QED BY <1>2, <1>4, <1>5

\* The two tools that report a file complete.
Fetched == {"fetch_complete_pr_diff", "fetch_complete_pr_files"}

LEMMA Complete ==
    ASSUME NEW x \in Worlds, NEW tool \in Fetched, NEW args \in Args, NEW got, GoodAnswers(got),
           Shows(tool, args, got), Traced(tool, args, x, got),
           \A v \in Elements(got) : Fair(x, v) /\ v.v # "garbled",
           Handle(tool, args, got).do = "give"
    PROVE  Handle(tool, args, got).reply.n = Goal(tool, args, x)
<1>1. x.total \in Nat /\ x.kept \in 0..x.total
  BY FetchAssumption
<1>2. \A v \in Elements(got) : Fair(x, v) /\ v.v = "whole"
  <2>1. tool \notin Lenient
    BY DEF Lenient, Fetched
  <2>2. \A v \in Elements(got) : ~Refused(v)
    BY <2>1 DEF Shows
  <2> QED BY <2>2 DEF GoodAnswers, GoodAnswer, Refused
<1>3. CASE tool = "fetch_complete_pr_diff"
  <2>1. PICK v : v = got[1]
    OBVIOUS
  <2>2. PICK move : move = Handle(tool, args, got)
    OBVIOUS
  <2>3. move = fetchCompletePRDiff(args, got)
    BY <1>3, <2>2 DEF Handle
  <2>4. PICK r : r = [Plain EXCEPT !.n = Wanted(v, args)]
    OBVIOUS
  <2>5. got # <<>> /\ move.reply = [r EXCEPT !.complete = TRUE]
    <3>1. PICK first : first = Once(args.fit, One("github", "diff"), got,
                                    LAMBDA u : [Plain EXCEPT !.n = Wanted(u, args)])
      OBVIOUS
    <3>2. move = IF first.do # "give" THEN first
                 ELSE Once(TRUE, One("disk", "write"), Tail(got),
                           LAMBDA u : [first.reply EXCEPT !.complete = TRUE])
      BY <2>3, <3>1 DEF fetchCompletePRDiff
    <3>3. first.do = "give"
      BY <2>2, <3>2
    <3>4. got # <<>> /\ first.reply = r
      BY <2>1, <2>4, <3>1, <3>3 DEF Once, One, Ask, Fail, Give
    <3>5. move.reply = [first.reply EXCEPT !.complete = TRUE]
      BY <2>2, <3>2, <3>3 DEF Once, One, Ask, Fail, Give
    <3> QED BY <3>4, <3>5
  <2>6. move.reply.n = Wanted(v, args)
    BY <2>4, <2>5 DEF Plain
  <2>7. v \in Elements(got) /\ v.what = "diff"
    <3>1. v.what = "diff"
      BY <1>3, <2>1, <2>5 DEF Traced
    <3>2. 1 \in DOMAIN got
      BY <2>5 DEF GoodAnswers
    <3> QED BY <2>1, <3>1, <3>2 DEF Elements
  <2>8. v.n = x.total /\ v.kept = Least(v.n, x.kept)
    <3>1. "diff" \in Whole
      BY DEF Whole
    <3> QED BY <1>2, <2>7, <3>1 DEF Fair
  <2>9. Wanted(v, args) = Goal(tool, args, x)
    BY <1>1, <1>3, <2>8 DEF Wanted, Goal, Least
  <2> QED BY <2>2, <2>6, <2>9
<1>4. CASE tool = "fetch_complete_pr_files"
  <2>1. PICK S, files : got \in Seq(S) /\ files = Of(got, "files") /\ files \in Seq(S)
                        /\ \A v \in Elements(files) : v \in Elements(got) /\ v.what = "files"
    BY OfElements DEF GoodAnswers
  <2>2. PICK loop, move : /\ loop = FilesLoop("fetch_complete_pr_files", files)
                          /\ move = Handle(tool, args, got)
    OBVIOUS
  <2>3. PICK r : r = ItemsOf(files)
    OBVIOUS
  <2>4. move = IF ~args.fit THEN Fail
               ELSE IF loop.do # "give" THEN loop
               ELSE Once(TRUE, One("disk", "write"), Of(got, "write"),
                         LAMBDA v : [r EXCEPT !.complete = TRUE])
    BY <1>4, <2>1, <2>2, <2>3 DEF Handle, fetchCompletePRFiles
  <2>5. loop.do = "give" /\ move.reply = [r EXCEPT !.complete = TRUE]
    BY <2>2, <2>4 DEF Once, One, Ask, Fail, Give
  <2>6. Counted(Largest["fetch_complete_pr_files"], x, files)
    BY <1>4, <2>1 DEF Traced, Loops
  <2>7. Largest["fetch_complete_pr_files"] \in Nat \ {0}
    BY LoopPages DEF Loops
  <2>8. Total(files) = x.total
    BY <1>1, <1>2, <2>1, <2>2, <2>5, <2>6, <2>7, CountedEnds
  <2>9. move.reply.n = x.total
    BY <2>3, <2>5, <2>8 DEF ItemsOf, Plain
  <2>10. Goal(tool, args, x) = x.total
    BY <1>4 DEF Goal
  <2> QED BY <2>2, <2>9, <2>10
<1> QED BY <1>3, <1>4 DEF Fetched

-----------------------------------------------------------------------------
(* What replies promise                                                    *)

\* The inductive invariant: a run's answers are those of its world, to the requests the
\* handler makes.
Carried ==
    /\ Shown
    /\ \A v \in Elements(rs) : Fair(w, v) /\ (v.v = "garbled" => garbled)
    /\ phase = "run" => Traced(t, a, w, rs)

LEMMA CarriedStart == Init => Carried
<1>1. SUFFICES ASSUME Init PROVE Carried
  OBVIOUS
<1>2. Shown /\ phase = "idle"
  BY <1>1, ShownStart DEF Init
<1>3. Elements(rs) = {}
  <2>1. PICK none : none = <<>>
    OBVIOUS
  <2>2. Elements(none) = {}
    BY <2>1 DEF Elements
  <2> QED BY <1>1, <2>1, <2>2 DEF Init
<1> QED BY <1>2, <1>3 DEF Carried

LEMMA CarriedStep == Carried /\ [Next]_vars => Carried'
<1>1. SUFFICES ASSUME Carried, [Next]_vars PROVE Carried'
  OBVIOUS
<1>2. Shown /\ Shown' /\ Typed
  BY <1>1, ShownStep DEF Carried, Shown
<1>3. w \in Worlds /\ w.total \in Nat /\ w' = w
  <2>1. w' = w
    BY <1>1 DEF Next, Call, Answer, Return, ReturnError, NextStep, vars
  <2> QED BY <1>2, <2>1, FetchAssumption DEF Typed
<1>4. ASSUME rs' = <<>>
      PROVE  Carried'
  <2>1. Elements(rs)' = {}
    BY <1>4 DEF Elements
  <2>2. Traced(t', a', w', rs')
    BY <1>3, <1>4, TracedNone
  <2> QED BY <1>2, <2>1, <2>2 DEF Carried
<1>5. ASSUME NEW answer, Answer(answer)
      PROVE  Carried'
  <2>1. /\ phase = "run" /\ phase' = "run" /\ t' = t /\ a' = a
        /\ garbled' = (garbled \/ View(Outcome, answer).v = "garbled")
    BY <1>5 DEF Answer
  <2>2. PICK v : v = View(Outcome, answer)
    OBVIOUS
  <2>3. /\ GoodMove(Outcome) /\ Outcome.do = "ask" /\ v.what = Outcome.what /\ v.lo = Outcome.lo
        /\ rs' = Append(rs, v)
    BY <1>2, <1>5, <2>2, Asking
  <2>4. Fair(w, v) /\ (Outcome.client \notin {"jira", "confluence"} => v.size = Outcome.size)
    BY <1>3, <2>2, <2>3, FairView
  <2>5. PICK S : rs \in Seq(S)
    BY <1>2 DEF Typed, GoodAnswers
  <2>6. \A u \in Elements(rs)' : u \in Elements(rs) \/ u = v
    <3>1. PICK all : all = Append(rs, v)
      OBVIOUS
    <3>2. Elements(all) = Elements(rs) \cup {v}
      BY <2>5, <3>1, AppendElements
    <3>3. Elements(rs)' = Elements(all)
      BY <2>3, <3>1 DEF Elements
    <3> QED BY <3>2, <3>3
  <2>7. \A u \in Elements(rs)' : Fair(w, u) /\ (u.v = "garbled" => garbled')
    BY <1>1, <2>1, <2>2, <2>4, <2>6 DEF Carried
  <2>8. Traced(t, a, w, Append(rs, v))
    <3>1. Replies(v, Outcome)
      BY <2>3, <2>4 DEF Replies
    <3>2. Traced(t, a, w, rs) /\ GoodAnswers(rs)
      BY <1>1, <1>2, <2>1 DEF Carried, Typed
    <3> QED BY <1>3, <2>4, <3>1, <3>2, TracedNext DEF Outcome
  <2>9. \A u \in Elements(rs)' : Fair(w, u)'
    BY <1>3, <2>7 DEF Fair
  <2> QED BY <1>2, <1>3, <2>1, <2>3, <2>7, <2>8, <2>9 DEF Carried
<1>6. ASSUME rs' = rs, garbled => garbled', phase' = "run" => phase = "run" /\ t' = t /\ a' = a
      PROVE  Carried'
  <2>1. Elements(rs)' = Elements(rs)
    BY <1>6 DEF Elements
  <2>2. \A v \in Elements(rs)' : Fair(w, v)' /\ (v.v = "garbled" => garbled')
    BY <1>1, <1>3, <1>6, <2>1 DEF Carried, Fair
  <2>3. phase' = "run" => Traced(t', a', w', rs')
    BY <1>1, <1>3, <1>6 DEF Carried
  <2> QED BY <1>2, <2>2, <2>3 DEF Carried
<1>7. ASSUME NEW c \in Calls, Call(c)
      PROVE  Carried'
  BY <1>4, <1>7 DEF Call
<1>8. CASE Return
  BY <1>4, <1>6, <1>8 DEF Return
<1>9. CASE ReturnError
  BY <1>6, <1>9 DEF ReturnError
<1>10. CASE NextStep
  BY <1>4, <1>10 DEF NextStep
<1>11. CASE UNCHANGED vars
  BY <1>6, <1>11 DEF vars
<1> QED BY <1>1, <1>5, <1>7, <1>8, <1>9, <1>10, <1>11 DEF Next

\* What holds of a run that has not met a garbled answer when its handler gives.
LEMMA Given ==
    ASSUME Carried, phase = "run", ~garbled, Outcome.do = "give"
    PROVE  /\ t \in Listings => Ends(Outcome.reply, Sought)
           /\ t \in Fetched => Outcome.reply.n = Sought
<1>1. /\ w \in Worlds /\ a \in Args /\ GoodAnswers(rs) /\ Shows(t, a, rs) /\ Traced(t, a, w, rs)
      /\ \A v \in Elements(rs) : Fair(w, v) /\ v.v # "garbled"
  BY DEF Carried, Shown, Typed
<1>2. Sought = Goal(t, a, w)
  BY DEF Sought, Goal
<1>3. t \in Listings => Ends(Outcome.reply, Goal(t, a, w))
  BY <1>1, Silent DEF Outcome
<1>4. t \in Fetched => Outcome.reply.n = Goal(t, a, w)
  BY <1>1, Complete DEF Outcome
<1> QED BY <1>2, <1>3, <1>4

\* However the services page and refuse, a listing that has ended without an error, short
\* of a garbled answer, has carried the last item or says that there is more
\* (has_next, the Link header, a full page, a Jira window, panels_truncated).
THEOREM SilenceIsTheEnd == Spec => []SilenceMeansEnd
<1> DEFINE Inv == Carried /\ SilenceMeansEnd
<1>1. Init => Inv
  BY CarriedStart DEF Init, SilenceMeansEnd
<1>2. Inv /\ [Next]_vars => Inv'
  <2>1. SUFFICES ASSUME Carried, SilenceMeansEnd, [Next]_vars
                 PROVE  SilenceMeansEnd'
    BY CarriedStep
  <2>2. CASE Return
    <3>1. PICK r : r = Outcome.reply
      OBVIOUS
    <3>2. /\ phase = "run" /\ Outcome.do = "give" /\ replies' = Append(replies, r)
          /\ phase' = "run" \/ (phase' = "done" /\ a' = a)
          /\ w' = w /\ t' = t /\ garbled' = garbled
      BY <2>2, <3>1 DEF Return
    <3>3. SUFFICES ASSUME phase' = "done", ~garbled, t \in Listings
                   PROVE  Ends(replies'[Len(replies')], Sought')
      BY <3>2 DEF SilenceMeansEnd, Ends
    <3>4. PICK S : replies \in Seq(S)
      BY <2>1 DEF Carried, Shown, Typed, GoodReplies
    <3>5. replies'[Len(replies')] = r
      BY <3>2, <3>4, Last
    <3>6. Ends(r, Sought)
      BY <2>1, <3>1, <3>2, <3>3, Given
    <3>7. Sought' = Sought
      BY <3>2, <3>3 DEF Sought
    <3> QED BY <3>5, <3>6, <3>7
  <2>3. CASE \/ \E c \in Calls : Call(c)
             \/ \E answer \in {"whole", "net", "status", "cut", "html", "redirect"} : Answer(answer)
             \/ ReturnError \/ NextStep
    <3>1. phase' # "done" \/ failed'
      BY <2>3 DEF Call, Answer, ReturnError, NextStep
    <3> QED BY <3>1 DEF SilenceMeansEnd
  <2>4. CASE UNCHANGED vars
    BY <2>1, <2>4 DEF vars, SilenceMeansEnd, Sought
  <2> QED BY <2>1, <2>2, <2>3, <2>4 DEF Next
<1>3. Inv => SilenceMeansEnd
  OBVIOUS
<1> HIDE DEF Inv
<1> QED BY <1>1, <1>2, <1>3, PTL DEF Spec

\* A file that fetch_complete_pr_diff or fetch_complete_pr_files reports with complete =
\* true holds everything the listing, or the filtered diff, has, whatever the page size
\* and however many requests were refused on the way.
THEOREM CompleteIsAll == Spec => []CompleteMeansComplete
<1> DEFINE Alone == phase = "run" /\ t \notin Continued => replies = <<>>
           Unflagged == t \notin Fetched => \A k \in DOMAIN replies : replies[k].complete = FALSE
           Inv == Carried /\ Alone /\ Unflagged /\ CompleteMeansComplete
<1>1. Init => Inv
  <2>1. SUFFICES ASSUME Init PROVE Inv
    OBVIOUS
  <2>2. PICK none : none = <<>>
    OBVIOUS
  <2>3. replies = none
    <3>1. replies = <<>>
      BY <2>1 DEF Init
    <3> QED BY <2>2, <3>1
  <2>4. DOMAIN none = {}
    BY <2>2
  <2>5. \A k \in DOMAIN replies : FALSE
    BY <2>3, <2>4
  <2>6. Carried /\ Alone /\ Unflagged
    <3>1. replies = <<>>
      BY <2>2, <2>3
    <3> QED BY <2>1, <2>5, <3>1, CarriedStart
  <2> QED BY <2>5, <2>6 DEF CompleteMeansComplete
<1>2. Inv /\ [Next]_vars => Inv'
  <2>1. SUFFICES ASSUME Carried, Alone, Unflagged, CompleteMeansComplete, [Next]_vars
                 PROVE  Alone' /\ Unflagged' /\ CompleteMeansComplete'
    BY CarriedStep
  <2>2. ASSUME replies' = <<>>
        PROVE  Alone' /\ Unflagged' /\ CompleteMeansComplete'
    <3>1. PICK none : none = <<>>
      OBVIOUS
    <3>2. DOMAIN none = {} /\ DOMAIN replies' = DOMAIN none
      BY <2>2, <3>1
    <3>3. \A k \in DOMAIN replies' : FALSE
      BY <3>2
    <3> QED BY <2>2, <3>3 DEF CompleteMeansComplete
  <2>3. ASSUME NEW c \in Calls, Call(c)
        PROVE  replies' = <<>>
    BY <2>1, <2>3 DEF Call, Carried, Shown, Typed
  <2>4. CASE NextStep
    BY <2>2, <2>4 DEF NextStep
  <2>5. CASE ReturnError \/ UNCHANGED vars \/ \E answer : Answer(answer)
    <3>1. /\ w' = w /\ t' = t /\ a' = a /\ replies' = replies /\ (garbled => garbled' = TRUE)
          /\ phase' = "run" => phase = "run"
      <4>1. garbled \in BOOLEAN
        BY <2>1 DEF Carried, Shown, Typed
      <4> QED BY <2>5, <4>1 DEF ReturnError, vars, Answer
    <3> QED BY <2>1, <3>1 DEF CompleteMeansComplete, Sought
  <2>6. CASE Return
    <3>1. PICK r : r = Outcome.reply
      OBVIOUS
    <3>2. PICK next : next = Continuation(t, a, r)
      OBVIOUS
    <3>3. /\ phase = "run" /\ Outcome.do = "give" /\ replies' = Append(replies, r)
          /\ \/ next # {} /\ phase' = "run"
             \/ phase' = "done" /\ a' = a
          /\ w' = w /\ t' = t /\ garbled' = garbled
      BY <2>6, <3>1, <3>2 DEF Return
    <3>4. a \in Args /\ GoodAnswers(rs) /\ GoodReplies(replies)
      BY <2>1, <3>3 DEF Carried, Shown, Typed
    <3>5. PICK S : replies \in Seq(S)
      BY <3>4 DEF GoodReplies
    <3>6. /\ Len(replies) \in Nat /\ Len(replies') = Len(replies) + 1
          /\ DOMAIN replies' = 1..(Len(replies) + 1) /\ DOMAIN replies = 1..Len(replies)
          /\ replies'[Len(replies) + 1] = r
          /\ \A k \in 1..Len(replies) : replies'[k] = replies[k]
      BY <3>3, <3>5
    <3>7. t \notin Continued => next = {}
      BY <3>1, <3>2, <3>3, NotContinued DEF Outcome
    <3>8. Alone'
      BY <3>3, <3>7
    <3>9. t \notin Fetched => r.complete = FALSE
      BY <3>1, <3>3, <3>4, HandleReply DEF Outcome, Fetched
    <3>10. ASSUME t \notin Fetched
           PROVE  \A k \in DOMAIN replies' : replies'[k].complete = FALSE
      <4>1. \A k \in 1..Len(replies) : replies'[k].complete = FALSE
        BY <2>1, <3>6, <3>10
      <4> QED BY <3>6, <3>9, <3>10, <4>1
    <3>11. CompleteMeansComplete'
      <4>1. SUFFICES ASSUME ~garbled, NEW k \in DOMAIN replies', replies'[k].complete
                     PROVE  replies'[k].n = Sought'
        BY <3>3 DEF CompleteMeansComplete
      <4>2. t \in Fetched
        BY <3>10, <4>1
      <4>3. t \notin Continued
        BY <4>2 DEF Fetched, Continued, JiraPaged, PagePaged
      <4>4. replies = <<>> /\ next = {}
        BY <2>1, <3>3, <3>7, <4>3
      <4>5. replies'[k] = r
        <5>1. Len(replies) = 0
          BY <4>4
        <5>2. k = Len(replies) + 1
          BY <3>6, <4>1, <5>1
        <5> QED BY <3>6, <5>2
      <4>6. r.n = Sought
        BY <2>1, <3>1, <3>3, <4>1, <4>2, Given
      <4>7. Sought' = Sought
        BY <3>3, <4>4 DEF Sought
      <4> QED BY <4>5, <4>6, <4>7
    <3> QED BY <3>3, <3>8, <3>10, <3>11
  <2> QED BY <2>1, <2>2, <2>3, <2>4, <2>5, <2>6 DEF Next
<1>3. Inv => CompleteMeansComplete
  OBVIOUS
<1> HIDE DEF Inv
<1> QED BY <1>1, <1>2, <1>3, PTL DEF Spec

\* An export names every issue its search found, and its index lists exactly those whose
\* file was written: a failure half way through one issue loses neither it nor the next
\* (jira_export_tasks).
THEOREM ExportsAccount == Spec => []ExportAccountsForAll
<1>1. Carried => ExportAccountsForAll
  <2>1. SUFFICES ASSUME Carried, phase = "run", t = "jira_export_tasks", Outcome.do = "give"
                 PROVE  LET found == {k \in 0..w.total : \E i \in DOMAIN rs : rs[i].what = "issues" /\ k < rs[i].n}
                            saved == {rs[i].lo : i \in {j \in DOMAIN rs : rs[j].what = "write" /\ ~Refused(rs[j])}}
                        IN  Outcome.reply.named = found /\ Outcome.reply.listed = saved
    BY DEF ExportAccountsForAll
  <2>2. /\ a \in Args /\ GoodAnswers(rs) /\ ExportHistory(a, rs) /\ w.total \in Nat
        /\ \A v \in Elements(rs) : Fair(w, v)
    BY <2>1, FetchAssumption DEF Carried, Shown, Typed, Shows
  <2>3. PICK reply : reply = Outcome.reply
    OBVIOUS
  <2>4. /\ reply.named = Found(rs) /\ Of(rs, "issues") # <<>>
        /\ \A k : k \in reply.listed <=>
               \E v \in Elements(rs) : v.what = "write" /\ ~Refused(v) /\ v.lo = k
    <3>1. Outcome = jiraExportTasks(a, rs)
      BY <2>1, LenientHandle DEF Outcome
    <3> QED BY <2>1, <2>2, <2>3, <3>1, ExportMeans
  <2>5. PICK S, part : rs \in Seq(S) /\ part = Of(rs, "issues")
    BY <2>2 DEF GoodAnswers
  <2>6. part \in Seq(S) /\ Elements(part) = {v \in Elements(rs) : v.what = "issues"}
    BY <2>5, OfElements
  <2>7. PICK v : v = part[1]
    OBVIOUS
  <2>8. v \in Elements(part)
    <3>1. part # <<>>
      BY <2>4, <2>5
    <3>2. 1 \in DOMAIN part
      BY <2>6, <3>1
    <3> QED BY <2>7, <3>2 DEF Elements
  <2>9. \A u \in Elements(part) : u = v
    <3>1. Len(part) <= 1
      BY <2>2, <2>5 DEF ExportHistory
    <3> QED BY <2>6, <2>7, <3>1, FewElements
  <2>10. v.n \in Nat /\ v.n <= w.total
    <3>1. v \in Elements(rs) /\ v.what = "issues"
      BY <2>6, <2>8
    <3>2. "issues" \in Listed
      BY DEF Listed
    <3> QED BY <2>2, <3>1, <3>2 DEF GoodAnswers, GoodAnswer, Fair
  <2>11. \A k : (\E i \in DOMAIN rs : rs[i].what = "issues" /\ k < rs[i].n) <=> k < v.n
    <3>1. \A i \in DOMAIN rs : rs[i].what = "issues" => rs[i] = v
      BY <2>6, <2>9 DEF Elements
    <3>2. \E i \in DOMAIN rs : rs[i].what = "issues" /\ rs[i] = v
      BY <2>6, <2>8 DEF Elements
    <3> QED BY <3>1, <3>2
  <2>12. Found(rs) = 0..(v.n - 1)
    BY <2>5, <2>7 DEF Found
  <2>13. Found(rs) = {k \in 0..w.total : \E i \in DOMAIN rs : rs[i].what = "issues" /\ k < rs[i].n}
    <3>1. \A k : k \in Found(rs) <=> k \in 0..w.total /\ k < v.n
      BY <2>2, <2>10, <2>12
    <3> QED BY <2>11, <3>1
  <2>14. reply.listed = {rs[i].lo : i \in {j \in DOMAIN rs : rs[j].what = "write" /\ ~Refused(rs[j])}}
    <3>1. \A k : (\E u \in Elements(rs) : u.what = "write" /\ ~Refused(u) /\ u.lo = k)
                     <=> k \in {rs[i].lo : i \in {j \in DOMAIN rs : rs[j].what = "write" /\ ~Refused(rs[j])}}
      BY DEF Elements
    <3> QED BY <2>4, <3>1
  <2> QED BY <2>3, <2>4, <2>13, <2>14
<1> QED BY <1>1, CarriedStart, CarriedStep, PTL DEF Spec
=============================================================================
