----------------------------- MODULE HTTPCalls -----------------------------
(***************************************************************************)
(* What the fetch tools of internal/tools have in common: the site a call  *)
(* is for, the requests a handler sends, what its client's `do` hands back *)
(* and the reply it builds.                                                *)
(*                                                                         *)
(* A handler is an operator of the call's arguments a and of rs, the       *)
(* answers it has had so far, in order.  It says what the handler does     *)
(* next: send one more request (Ask), end with an error result (Fail), or  *)
(* end with a reply (Give).                                                *)
(***************************************************************************)
EXTENDS Integers, Sequences, FiniteSets

CONSTANTS
    Default,    \* Default[t]: the page size of tool t when the call gives none
    Largest     \* Largest[t]: the page size tool t never goes beyond

Least(m, n) == IF m < n THEN m ELSE n

\* The arguments of a call.  fit: the required ones are there and in range.
Args == [fit : BOOLEAN,
         at : Int,              \* page, offset, startAt or start
         cursor : Nat,          \* where the page's cursor points; 0 is none
         size : Int,            \* per_page, max_bytes, maxResults or limit
         opts : SUBSET STRING,  \* the options given
         version : Nat,         \* api_version (Jira); 0 is none
         site : [bases : SUBSET {"call", "alias", "env", "bridge"},
                 cloud : SUBSET {"call", "alias", "env", "bridge"},
                 auth : BOOLEAN, noAuth : BOOLEAN, version : Nat]]

Clipped(t, a) == IF a.size <= 0 THEN Default[t] ELSE Least(a.size, Largest[t])

-----------------------------------------------------------------------------
(* The site: the base URL of the call, else of its client alias, else of   *)
(* the environment, else the bridge of an OAuth token with its cloud id.   *)

BaseOf(site) ==
    LET there == SelectSeq(<<"call", "alias", "env", "bridge">>, LAMBDA p : p \in site.bases)
    IN  IF there = <<>> THEN "none" ELSE Head(there)

OnCloud(site) == BaseOf(site) \in site.cloud

\* Whatever place the credentials come from, some must be there.
ResolveConfig(site) == BaseOf(site) # "none" /\ site.auth

-----------------------------------------------------------------------------
(* Requests and answers                                                    *)

Ask(client, what, lo, size) ==
    [do |-> "ask", client |-> client, what |-> what, lo |-> lo, size |-> size]
One(client, what) == Ask(client, what, 0, 1)
Fail == [do |-> "fail"]
Give(r) == [do |-> "give", reply |-> r]

\* An answer as the handler sees it: refused (an error of `do` or a status it does
\* not take), garbled (a 2xx body that is not what was asked for) or whole.
Refused(v) == v.v = "refused"

\* The answers at the positions ks, in order, and how many items the answers bring:
\* functions by recursion, which proofs can reason about.
Picked(rs, ks) ==
    LET upto[n \in 0..Len(rs)] ==
            IF n = 0 THEN <<>>
            ELSE IF n \in ks THEN Append(upto[n - 1], rs[n]) ELSE upto[n - 1]
    IN  upto[Len(rs)]

Total(rs) ==
    LET upto[n \in 0..Len(rs)] == IF n = 0 THEN 0 ELSE upto[n - 1] + rs[n].n
    IN  upto[Len(rs)]

Of(rs, what) == Picked(rs, {k \in DOMAIN rs : rs[k].what = what})

\* The shape of most handlers: check the arguments, send one request, give its body.
Once(ok, request, rs, Reply(_)) ==
    IF ~ok THEN Fail
    ELSE IF rs = <<>> THEN request
    ELSE IF Refused(rs[1]) THEN Fail ELSE Give(Reply(rs[1]))

-----------------------------------------------------------------------------
(* Replies                                                                 *)

NoNext == [kind |-> "none", at |-> 0]

\* lo, n: the items the reply carries.  hasNext and next: what it says of a next
\* page.  window: startAt, maxResults and total of a Jira body.  told: it says, in
\* these or in other words, that there is more.  complete, partial: its flags.
\* listed: what an export's index lists; named: what its results name.
Plain == [lo |-> 0, n |-> 0, hasNext |-> FALSE, next |-> NoNext, window |-> <<>>,
          told |-> FALSE, complete |-> FALSE, partial |-> FALSE,
          listed |-> {}, named |-> {}]

Items(v) == [Plain EXCEPT !.lo = v.lo, !.n = v.n]

Paged(v, hasNext, next) ==
    [Items(v) EXCEPT !.hasNext = hasNext, !.next = IF hasNext THEN next ELSE NoNext,
                     !.told = hasNext]
=============================================================================
