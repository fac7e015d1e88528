---------------------------- MODULE GitHubTools ----------------------------
(***************************************************************************)
(* The GitHub tools (internal/tools/github_pr_review.go,                   *)
(* github_actions.go), one operator per handler.                           *)
(***************************************************************************)
EXTENDS HTTPCalls

\* githubClient.do: redirects are followed; an answer of a status the handler takes
\* may still be a login page.  With the response cache, an error while the body is
\* read is dropped (httpcache) and the handler is given what had arrived.
GitHubDo(answer, cached) ==
    CASE answer = "whole"                    -> "whole"
      [] answer = "html"                     -> "garbled"
      [] answer = "cut" /\ cached            -> "garbled"
      [] OTHER                               -> "refused"

Page(a) == IF a.at <= 0 THEN 1 ELSE a.at

\* parseNextPage reads the Link header, which a garbled body leaves alone.
NextPage(v, a) == Paged(v, v.more, [kind |-> "page", at |-> Page(a) + 1])

PageOf(t, what, a, rs) ==
    Once(a.fit, Ask("github", what, (Page(a) - 1) * Clipped(t, a), Clipped(t, a)), rs,
         LAMBDA v : NextPage(v, a))

getPullRequestDetails(a, rs) == Once(a.fit, One("github", "pr"), rs, LAMBDA v : Items(v))
listPullRequestFiles(a, rs) == PageOf("list_pull_request_files", "files", a, rs)
listPullRequestCommits(a, rs) == PageOf("list_pull_request_commits", "commits", a, rs)
getFileAtRef(a, rs) == Once(a.fit, One("github", "file"), rs, LAMBDA v : Items(v))

\* These two decode their body into a type and give up when that fails.
Decoded(rs) == rs # <<>> => rs[1].v # "garbled"
githubListWorkflowRuns(a, rs) ==
    IF Decoded(rs) THEN PageOf("github_list_workflow_runs", "runs", a, rs) ELSE Fail
githubListWorkflowJobs(a, rs) ==
    IF Decoded(rs) THEN PageOf("github_list_workflow_jobs", "jobs", a, rs) ELSE Fail

-----------------------------------------------------------------------------
(* The diff: every call fetches all of it and gives a piece                *)

Wanted(v, a) == IF "filter" \in a.opts THEN v.kept ELSE v.n

Chunk(v, a, largest) ==
    LET from == Least(a.at, Wanted(v, a))
        end  == Least(from + largest, Wanted(v, a))
    IN  Paged([lo |-> from, n |-> end - from], end < Wanted(v, a), [kind |-> "offset", at |-> end])

getPullRequestDiff(a, rs) ==
    Once(a.fit /\ a.at >= 0, One("github", "diff"), rs,
         LAMBDA v : Chunk(v, a, Clipped("get_pull_request_diff", a)))

\* filterDiffByFile: an empty result is an error.
getPullRequestFileDiff(a, rs) ==
    IF rs # <<>> /\ rs[1].kept = 0 THEN Fail
    ELSE Once(a.fit, One("github", "diff"), rs, LAMBDA v : [Plain EXCEPT !.n = v.kept])

\* The whole diff to a file.
fetchCompletePRDiff(a, rs) ==
    LET got == Once(a.fit, One("github", "diff"), rs, LAMBDA v : [Plain EXCEPT !.n = Wanted(v, a)])
    IN  IF got.do # "give" THEN got
        ELSE Once(TRUE, One("disk", "write"), Tail(rs), LAMBDA v : [got.reply EXCEPT !.complete = TRUE])

-----------------------------------------------------------------------------
(* Loops over every page of the changed files                              *)

\* Mutant: the loop ends without an error at a page that cannot be had.
FilesLoopGivesUp(t, rs) ==
    IF rs = <<>> THEN Ask("github", "files", 0, Largest[t])
    ELSE IF rs[Len(rs)].n = 0 \/ ~rs[Len(rs)].more THEN Give(Plain)
    ELSE Ask("github", "files", Len(rs) * Largest[t], Largest[t])

\* A page that brings nothing, or names no next one, is the last.
FilesLoop(t, rs) ==
    IF rs = <<>> THEN Ask("github", "files", 0, Largest[t])
    ELSE IF Refused(rs[Len(rs)]) THEN Fail
    ELSE IF rs[Len(rs)].n = 0 \/ ~rs[Len(rs)].more THEN Give(Plain)
    ELSE Ask("github", "files", Len(rs) * Largest[t], Largest[t])

ItemsOf(rs) == [Plain EXCEPT !.n = Total(rs)]

getPullRequestSummary(a, rs) ==
    LET details == getPullRequestDetails(a, Of(rs, "pr"))
        files   == FilesLoop("get_pull_request_summary", Of(rs, "files"))
    IN  IF details.do # "give" THEN details
        ELSE IF files.do # "give" THEN files ELSE Give(ItemsOf(Of(rs, "files")))

fetchCompletePRFiles(a, rs) ==
    LET files == FilesLoop("fetch_complete_pr_files", Of(rs, "files"))
    IN  IF ~a.fit THEN Fail
        ELSE IF files.do # "give" THEN files
        ELSE Once(TRUE, One("disk", "write"), Of(rs, "write"),
                  LAMBDA v : [ItemsOf(Of(rs, "files")) EXCEPT !.complete = TRUE])

-----------------------------------------------------------------------------
(* Handlers that call handlers                                             *)

\* Details that failed, or that cannot be read, have no head to look up.
getPullRequestChecks(a, rs) ==
    IF rs = <<>> \/ ~a.fit THEN getPullRequestDetails(a, rs)
    ELSE IF rs[1].v # "whole" THEN Fail
    ELSE Once(TRUE, Ask("github", "checks", 0, Default["get_pull_request_checks"]), Tail(rs),
              LAMBDA v : Items(v))

\* The parts of a review bundle, in the order they are fetched; one that is not asked
\* for is there from the start.
BundleParts(a, rs) ==
    LET pr == Of(rs, "pr")
        inner == [a EXCEPT !.at = 0, !.size = 0]
        Part(opt, outcome) == IF opt \in a.opts THEN outcome ELSE Give(Plain)
    IN  <<getPullRequestDetails(a, SubSeq(pr, 1, Least(1, Len(pr)))),
          listPullRequestFiles(a, Of(rs, "files")),
          Part("diff", getPullRequestDiff(inner, Of(rs, "diff"))),
          Part("commits", listPullRequestCommits(inner, Of(rs, "commits"))),
          Part("checks", getPullRequestChecks(a, SubSeq(pr, 2, Len(pr)) \o Of(rs, "checks")))>>

\* Mutant: only the details and the files are looked at for errors.
BundleForgets(parts) ==
    [(IF parts[2].do = "give" THEN parts[2].reply ELSE Plain)
        EXCEPT !.hasNext = FALSE, !.next = NoNext, !.partial = "fail" \in {parts[1].do, parts[2].do}]

BundleReply(parts) ==
    [(IF parts[2].do = "give" THEN parts[2].reply ELSE Plain)
        EXCEPT !.hasNext = FALSE, !.next = NoNext,
               !.partial = \E k \in DOMAIN parts : parts[k].do = "fail"]

\* A part that fails is named under errors and the bundle marked partial.  The paging
\* fields are those of its parts, below the top of the reply.
preparePullRequestReviewBundle(a, rs) ==
    LET parts == BundleParts(a, rs)
        open  == {k \in DOMAIN parts : parts[k].do = "ask"}
        first == {k \in open : \A j \in open : k <= j}
    IN  IF ~a.fit THEN Fail
        ELSE IF first # {} THEN parts[CHOOSE k \in first : TRUE]
        ELSE Give(BundleReply(parts))

\* The client has followed the redirect to the log; the store then takes the bytes.
githubDownloadJobLogs(a, rs) ==
    LET got == Once(a.fit, One("github", "log"), rs, LAMBDA v : Items(v))
    IN  IF got.do # "give" THEN got
        ELSE Once(TRUE, One("disk", "store"), Tail(rs), LAMBDA v : got.reply)
=============================================================================
