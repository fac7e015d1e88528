----------------------------- MODULE JiraTools -----------------------------
(***************************************************************************)
(* The Jira tools (internal/tools/jira.go, jira_bundle.go), one            *)
(* operator per handler.                                                   *)
(***************************************************************************)
EXTENDS HTTPCalls

\* resolveJiraConfig: the version of the call, else the alias's, else the site's.
ApiVersion(a) ==
    IF a.version # 0 THEN a.version
    ELSE IF a.site.version # 0 THEN a.site.version ELSE IF OnCloud(a.site) THEN 3 ELSE 2

newJiraClient(a) == ResolveConfig(a.site) /\ ApiVersion(a) \in {2, 3}

\* jiraClient.do: redirects and pages are errors, whatever their status.  The response
\* cache, which only takes GET, hides an error while the body is read.
JiraDo(answer, cached) ==
    CASE answer = "whole"         -> "whole"
      [] answer = "cut" /\ cached -> "garbled"
      [] OTHER                    -> "refused"

\* jiraAddAttachment sends its own request: a page with a good status is a body to it.
JiraUpload(answer) == IF answer = "html" THEN "garbled" ELSE JiraDo(answer, FALSE)

\* mustUnmarshalAny: a body that does not decode is passed on as {"raw": ...}.
Single(what, ok, a, rs) ==
    Once(a.fit /\ ok /\ newJiraClient(a), One("jira", what), rs, LAMBDA v : Items(v))

jiraGetMyself(a, rs) == Single("myself", TRUE, a, rs)
jiraGetIssue(a, rs) == Single("issue", TRUE, a, rs)
jiraGetIssueTransitions(a, rs) == Single("transitions", TRUE, a, rs)
jiraAddComment(a, rs) == Single("add comment", TRUE, a, rs)
jiraTransitionIssue(a, rs) == Single("transition", TRUE, a, rs)
jiraCreateIssue(a, rs) == Single("create", "fields" \in a.opts, a, rs)
jiraUpdateIssue(a, rs) == Single("update", a.opts \cap {"fields", "update"} # {}, a, rs)

jiraAddAttachment(a, rs) ==
    LET file == Once(a.fit /\ newJiraClient(a), One("disk", "read"), rs, LAMBDA v : Plain)
    IN  IF file.do # "give" THEN file
        ELSE Once(TRUE, One("jira", "upload"), Tail(rs), LAMBDA v : Items(v))

-----------------------------------------------------------------------------
(* Listings: the body says startAt, maxResults and total                   *)

Size(t, a) == IF a.size = 0 THEN Default[t] ELSE a.size

More(v) == v.lo + v.size < v.total

\* The window is that of the answer: the server may have lowered the size.
Windowed(v) ==
    IF v.v = "garbled" THEN Plain
    ELSE [Items(v) EXCEPT !.window = <<v.lo, v.size, v.total>>, !.told = More(v)]

WindowOf(t, what, a, rs) ==
    Once(a.fit /\ a.size >= 0 /\ a.at >= 0 /\ newJiraClient(a),
         Ask("jira", what, a.at, Size(t, a)), rs, Windowed)

jiraSearchIssues(a, rs) == WindowOf("jira_search_issues", "issues", a, rs)
jiraGetIssueComments(a, rs) == WindowOf("jira_get_issue_comments", "comments", a, rs)

\* Version 2 has one array of all the projects and ignores the window.
jiraListProjects(a, rs) ==
    IF ApiVersion(a) = 3 THEN WindowOf("jira_list_projects", "projects", a, rs)
    ELSE Single("all projects", TRUE, a, rs)

\* The comments' own hints are below the top of the reply and never continued.
jiraGetIssueBundle(a, rs) ==
    LET issue == Single("issue", a.size >= 0 /\ a.at >= 0, a, Of(rs, "issue"))
        comments == WindowOf("jira_get_issue_bundle", "comments", a, Of(rs, "comments"))
    IN  IF issue.do # "give" \/ "comments" \notin a.opts THEN issue
        ELSE IF comments.do # "give" THEN comments
        ELSE Give([comments.reply EXCEPT !.window = <<>>])

=============================================================================
