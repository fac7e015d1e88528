------------------------------ MODULE MCRouter ------------------------------
(***************************************************************************)
(* Requests and plans for TLC.  "files" is a paged tool, "issues" a plain  *)
(* one, "execute_tool" is in the catalog and not allowed, "ghost" unknown. *)
(***************************************************************************)
EXTENDS Router

S(name, source, args, group) ==
    [name |-> name, source |-> source, args |-> args, group |-> group,
     page |-> 1, origin |-> 0]

Good == {S("files", "local", "object", g) : g \in {"", "g"}}
            \cup {S("issues", "local", "object", "g")}
Bad  == {S("execute_tool", "local", "object", ""), S("files", "upstream", "object", ""),
         S("query", "local", "object", ""), S("ghost", "local", "object", ""),
         S("files", "LOCAL", "object", ""), S("files", "local", "other", ""),
         S("files", "local", "unfit", "")}

MCPlans == UNION {[1..n -> Good] : n \in 0..3} \cup {<<b>> : b \in Bad}

Request(mode, given, fast) ==
    [mode : {mode}, steps : given, fast : fast, maxSteps : {0}, parallelism : {0, 2},
     dryRun : {FALSE}, answer : {TRUE}, cut : BOOLEAN]

MCQueries ==
    Request("auto", {<<>>}, {<<>>})
    \cup Request("planner", {<<>>}, {<<>>})
    \cup Request("executor", {<<>>} \cup [1..2 -> Good], {<<>>})
    \cup Request("auto", {<<>>}, {<<S("issues", "local", "object", "")>>})
    \cup [mode : {"auto", "bad"}, steps : {[n \in 1..4 |-> S("issues", "local", "object", "")], <<>>},
          fast : {<<>>}, maxSteps : {1, 4, 9}, parallelism : {3, 9}, dryRun : BOOLEAN,
          answer : {FALSE}, cut : {FALSE}]

\* Requests whose arguments may be null as well.
NullQueries ==
    Request("executor", [1..1 -> Good \cup {S("files", "local", "null", "")}], {<<>>})
=============================================================================
