----------------------------- MODULE FetchTools -----------------------------
(***************************************************************************)
(* One step of a plan that calls a fetch tool, with the steps executePlan  *)
(* appends for the further pages its results announce                      *)
(* (createContinuationStep): the tool's handler runs, its requests are     *)
(* answered one by one by GitHub, Jira, Confluence, Grafana and the disk,  *)
(* each of which may refuse, cut an answer short or answer with a page of  *)
(* HTML, and the reply is looked at for a next page.                       *)
(*                                                                         *)
(* What the services hold does not change while the pages are fetched.     *)
(***************************************************************************)
EXTENDS GitHubTools, GrafanaTools, JiraExport

CONSTANTS
    Worlds,             \* what the services may hold, and how they page
    Calls,              \* the calls a plan may make: a tool and its arguments
    MaxContinuations    \* maxContinuations, 10 in the code

\* total: the items of every listing; kept: those a filter keeps; cap: the page size
\* Jira and Confluence lower a larger one to; pager: whether a search's next link has a
\* cursor or a start; links: the issues' links; cached: the response cache is on.
World == [total : Nat, kept : Nat, cap : Nat \ {0}, pager : {"cursor", "start"},
          links : [Nat -> {"none", "page", "issue", "other"}], cached : BOOLEAN]

\* A cursor is one the service has handed out: there is none where it pages by starts.
ASSUME FetchAssumption ==
    /\ MaxContinuations \in Nat
    /\ \A x \in Worlds : x.total \in Nat /\ x.kept \in 0..x.total /\ x.cap \in Nat \ {0}
                         /\ x.pager \in {"cursor", "start"}
    /\ \A c \in Calls : c.args \in Args
    /\ \A c \in Calls, x \in Worlds : x.pager = "start" => c.args.cursor = 0

VARIABLES
    w,          \* the world
    phase,      \* "idle", "run" or "done"
    t, a,       \* the tool that runs and its arguments
    rs,         \* the answers its handler has had
    replies,    \* the replies of the step and its continuations
    failed,     \* the last of them was an error result
    garbled     \* some answer so far was not what was asked for

vars == <<w, phase, t, a, rs, replies, failed, garbled>>

-----------------------------------------------------------------------------
(* Handler.Handle                                                          *)

Handle(tool, args, got) ==
    CASE tool = "get_pull_request_details"      -> getPullRequestDetails(args, got)
      [] tool = "list_pull_request_files"       -> listPullRequestFiles(args, got)
      [] tool = "get_pull_request_diff"         -> getPullRequestDiff(args, got)
      [] tool = "get_pull_request_summary"      -> getPullRequestSummary(args, got)
      [] tool = "get_pull_request_file_diff"    -> getPullRequestFileDiff(args, got)
      [] tool = "get_file_at_ref"               -> getFileAtRef(args, got)
      [] tool = "prepare_pull_request_review_bundle" -> preparePullRequestReviewBundle(args, got)
      [] tool = "list_pull_request_commits"     -> listPullRequestCommits(args, got)
      [] tool = "get_pull_request_checks"       -> getPullRequestChecks(args, got)
      [] tool = "github_list_workflow_runs"     -> githubListWorkflowRuns(args, got)
      [] tool = "github_list_workflow_jobs"     -> githubListWorkflowJobs(args, got)
      [] tool = "github_download_job_logs"      -> githubDownloadJobLogs(args, got)
      [] tool = "fetch_complete_pr_diff"        -> fetchCompletePRDiff(args, got)
      [] tool = "fetch_complete_pr_files"       -> fetchCompletePRFiles(args, got)
      [] tool = "jira_get_myself"               -> jiraGetMyself(args, got)
      [] tool = "jira_get_issue"                -> jiraGetIssue(args, got)
      [] tool = "jira_get_issue_bundle"         -> jiraGetIssueBundle(args, got)
      [] tool = "jira_search_issues"            -> jiraSearchIssues(args, got)
      [] tool = "jira_get_issue_comments"       -> jiraGetIssueComments(args, got)
      [] tool = "jira_get_issue_transitions"    -> jiraGetIssueTransitions(args, got)
      [] tool = "jira_list_projects"            -> jiraListProjects(args, got)
      [] tool = "jira_export_tasks"             -> jiraExportTasks(args, got)
      [] tool = "jira_add_comment"              -> jiraAddComment(args, got)
      [] tool = "jira_transition_issue"         -> jiraTransitionIssue(args, got)
      [] tool = "jira_create_issue"             -> jiraCreateIssue(args, got)
      [] tool = "jira_update_issue"             -> jiraUpdateIssue(args, got)
      [] tool = "jira_add_attachment"           -> jiraAddAttachment(args, got)
      [] tool = "confluence_list_spaces"        -> confluenceListSpaces(args, got)
      [] tool = "confluence_get_page"           -> confluenceGetPage(args, got)
      [] tool = "confluence_get_page_by_title"  -> confluenceGetPageByTitle(args, got)
      [] tool = "confluence_search_cql"         -> confluenceSearchCQL(args, got)
      [] tool = "confluence_get_page_children"  -> confluenceGetPageChildren(args, got)
      [] tool = "confluence_list_page_attachments" -> confluenceListPageAttachments(args, got)
      [] tool = "confluence_download_attachment" -> confluenceDownloadAttachment(args, got)
      [] tool = "grafana_health"                -> grafanaHealth(args, got)
      [] tool = "grafana_get_current_user"      -> grafanaGetCurrentUser(args, got)
      [] tool = "grafana_search"                -> grafanaSearch(args, got)
      [] tool = "grafana_get_dashboard"         -> grafanaGetDashboard(args, got)
      [] tool = "grafana_get_dashboard_summary" -> grafanaGetDashboardSummary(args, got)
      [] tool = "grafana_list_folders"          -> grafanaListFolders(args, got)
      [] tool = "grafana_get_folder"            -> grafanaGetFolder(args, got)
      [] tool = "grafana_list_datasources"      -> grafanaListDatasources(args, got)
      [] tool = "grafana_get_datasource"        -> grafanaGetDatasource(args, got)
      [] tool = "grafana_query_annotations"     -> grafanaQueryAnnotations(args, got)
      [] tool = "grafana_list_annotation_tags"  -> grafanaListAnnotationTags(args, got)
      [] tool = "grafana_list_alerts"           -> grafanaListAlerts(args, got)
      [] tool = "grafana_get_alert"             -> grafanaGetAlert(args, got)
      [] tool = "grafana_list_alert_rules"      -> grafanaListAlertRules(args, got)
      [] tool = "grafana_get_alert_rule"        -> grafanaGetAlertRule(args, got)
      [] OTHER                                  -> Fail

Outcome == Handle(t, a, rs)

-----------------------------------------------------------------------------
(* The services                                                            *)

Listed == {"files", "commits", "runs", "jobs", "checks", "issues", "comments", "projects",
           "spaces", "spaces v2", "cql", "children", "attachments", "by title",
           "search", "folders", "annotations", "annotation tags", "alerts"}
Whole  == {"diff", "panels", "all projects"}
Text   == {"diff", "file", "log"}

Do(request, answer) ==
    LET cached == w.cached /\ request.what \notin
                      {"add comment", "transition", "create", "update", "upload"}
    IN  CASE request.client = "github"     -> GitHubDo(answer, cached)
          [] request.client = "grafana"    -> GrafanaDo(answer)
          [] request.client = "disk"       -> IF answer = "whole" THEN "whole" ELSE "refused"
          [] request.what = "upload"       -> JiraUpload(answer)
          [] request.what = "attachment"   -> ConfluenceDownload(answer, cached)
          [] request.client = "jira"       -> JiraDo(answer, cached)
          [] request.client = "confluence" -> ConfluenceDo(answer)

\* A failing disk is one more refusal.
Answers(client) ==
    {"whole", "status"} \cup (IF client = "disk" THEN {} ELSE {"net", "cut", "html"})
                        \cup (IF client \in {"jira", "confluence"} THEN {"redirect"} ELSE {})

\* The answer the handler is given.  A garbled listing has no items, a text cut short
\* is shorter; what stands in the Link header stays.
View(request, answer) ==
    LET v    == Do(request, answer)
        size == IF request.client \in {"jira", "confluence"}
                THEN Least(request.size, w.cap) ELSE request.size
        held == IF request.what \in Listed
                THEN IF request.lo >= w.total THEN 0 ELSE Least(size, w.total - request.lo)
                ELSE IF request.what \in Whole THEN w.total ELSE 1
        n    == CASE v = "whole" -> held
                  [] v = "garbled" /\ request.what \in Text -> held \div 2
                  [] OTHER -> 0
    IN  [v |-> v, what |-> request.what, lo |-> request.lo, n |-> n, size |-> size,
         total |-> w.total, to |-> request.lo + held, kept |-> Least(n, w.kept),
         more |-> /\ v = "whole" \/ (v = "garbled" /\ request.what \in {"files", "commits", "spaces v2"})
                  /\ request.what \in Listed /\ request.lo + held < w.total,
         pager |-> CASE request.what = "spaces v2" -> "cursor"
                     [] request.what = "cql" -> w.pager
                     [] OTHER -> "start",
         link |-> IF request.what = "issue" THEN w.links[request.lo] ELSE "none"]

-----------------------------------------------------------------------------
(* createContinuationStep                                                  *)

JiraPaged == {"jira_search_issues", "jira_get_issue_comments", "jira_list_projects"}
PagePaged == {"list_pull_request_files", "list_pull_request_commits"}

\* The tools whose results can be continued.
Continued == JiraPaged \cup PagePaged \cup
    {"get_pull_request_diff", "confluence_list_spaces", "confluence_search_cql",
     "confluence_get_page_children", "confluence_list_page_attachments"}

\* The tools that ask for pages of a size.
Sizing == Continued \cup
    {"get_pull_request_checks", "get_pull_request_summary", "fetch_complete_pr_files",
     "github_list_workflow_runs", "github_list_workflow_jobs", "jira_get_issue_bundle",
     "jira_export_tasks", "confluence_get_page_by_title", "grafana_search",
     "grafana_list_folders", "grafana_query_annotations", "grafana_list_annotation_tags",
     "grafana_list_alerts", "grafana_get_dashboard_summary"}

ASSUME PageAssumption ==
    \A tool \in Sizing : Default[tool] \in Nat \ {0} /\ Largest[tool] \in Nat \ {0}

\* The arguments of the next step, or none.  A next page is continued for two tools, an
\* offset for one, a cursor or a start for all.
Continuation(tool, args, r) ==
    IF tool \in JiraPaged /\ r.window # <<>> /\ r.window[1] + r.window[2] < r.window[3]
    THEN {[args EXCEPT !.at = r.window[1] + r.window[2]]}
    ELSE IF ~r.hasNext THEN {}
    ELSE IF \/ r.next.kind = "offset" /\ tool = "get_pull_request_diff"
            \/ r.next.kind = "page" /\ tool \in PagePaged
            \/ r.next.kind = "start"
    THEN {[args EXCEPT !.at = r.next.at]}
    ELSE IF r.next.kind = "cursor" THEN {[args EXCEPT !.cursor = r.next.at]} ELSE {}

-----------------------------------------------------------------------------
(* The step                                                                *)

Init ==
    /\ w \in Worlds
    /\ phase = "idle" /\ t = "" /\ a = <<>> /\ rs = <<>>
    /\ replies = <<>> /\ failed = FALSE /\ garbled = FALSE

Call(c) ==
    /\ phase = "idle"
    /\ phase' = "run" /\ t' = c.tool /\ a' = c.args /\ rs' = <<>>
    /\ UNCHANGED <<w, replies, failed, garbled>>

Answer(answer) ==
    /\ phase = "run"
    /\ \E request \in {Outcome} :
       /\ request.do = "ask" /\ answer \in Answers(request.client)
       /\ LET v == View(request, answer) IN
          rs' = Append(rs, v) /\ garbled' = (garbled \/ v.v = "garbled")
    /\ UNCHANGED <<w, phase, t, a, replies, failed>>

\* Mutant: the number of continuations is not looked at.
ReturnUnbounded ==
    /\ phase = "run" /\ Outcome.do = "give"
    /\ replies' = Append(replies, Outcome.reply)
    /\ LET next == Continuation(t, a, Outcome.reply) IN
       IF next # {}
       THEN a' \in next /\ rs' = <<>> /\ UNCHANGED phase
       ELSE phase' = "done" /\ UNCHANGED <<a, rs>>
    /\ UNCHANGED <<w, t, failed, garbled>>

Return ==
    /\ phase = "run" /\ Outcome.do = "give"
    /\ replies' = Append(replies, Outcome.reply)
    /\ LET next == Continuation(t, a, Outcome.reply) IN
       IF next # {} /\ Len(replies) < MaxContinuations
       THEN a' \in next /\ rs' = <<>> /\ UNCHANGED phase
       ELSE phase' = "done" /\ UNCHANGED <<a, rs>>
    /\ UNCHANGED <<w, t, failed, garbled>>

ReturnError ==
    /\ phase = "run" /\ Outcome.do = "fail"
    /\ phase' = "done" /\ failed' = TRUE
    /\ UNCHANGED <<w, t, a, rs, replies, garbled>>

\* The plan's next step.
NextStep ==
    /\ phase = "done"
    /\ phase' = "idle" /\ t' = "" /\ a' = <<>> /\ rs' = <<>> /\ replies' = <<>>
    /\ failed' = FALSE /\ garbled' = FALSE
    /\ UNCHANGED w

Next ==
    \/ \E c \in Calls : Call(c)
    \/ \E answer \in {"whole", "net", "status", "cut", "html", "redirect"} : Answer(answer)
    \/ Return \/ ReturnError \/ NextStep

Spec == Init /\ [][Next]_vars

-----------------------------------------------------------------------------
(* Properties                                                              *)

TypeOK ==
    /\ w \in Worlds /\ phase \in {"idle", "run", "done"}
    /\ t \in {""} \cup {c.tool : c \in Calls}
    /\ t # "" => a \in Args
    /\ \A k \in DOMAIN rs : rs[k].v \in {"refused", "garbled", "whole"} /\ rs[k].n \in Nat
    /\ Len(replies) <= MaxContinuations + 1
    /\ \A k \in DOMAIN replies : DOMAIN replies[k] = DOMAIN Plain /\ replies[k].n \in Nat
    /\ failed \in BOOLEAN /\ garbled \in BOOLEAN

\* What the tool has to get through; file_filter is an option of the diff.
Sought == IF "filter" \in a.opts /\ t \in {"get_pull_request_diff", "fetch_complete_pr_diff"}
          THEN w.kept ELSE w.total

\* The tools that promise every item, by pages or at one go.
Listings == JiraPaged \cup PagePaged \cup
    {"get_pull_request_diff", "get_pull_request_summary", "github_list_workflow_runs",
     "github_list_workflow_jobs", "prepare_pull_request_review_bundle",
     "confluence_list_spaces", "confluence_search_cql", "confluence_get_page_children",
     "confluence_list_page_attachments", "grafana_search", "grafana_list_folders",
     "grafana_get_dashboard_summary"}

\* Every further page starts where the one before it ended: nothing is left out between
\* two pages and nothing comes twice, whatever page sizes the call asks for and the
\* service allows (createContinuationStep against the paging fields of each handler).
PagesInOrder ==
    ~garbled => \A k \in 2..Len(replies) :
        replies[k].lo = replies[k - 1].lo + replies[k - 1].n

\* A listing that has ended without an error and says nothing of more has carried the
\* last item (has_next, the Link header, a full page, a Jira window, panels_truncated).
SilenceMeansEnd ==
    (phase = "done" /\ ~failed /\ ~garbled /\ t \in Listings) =>
        LET last == replies[Len(replies)] IN
        last.told \/ last.partial \/ last.lo + last.n >= Sought

\* A file reported with complete = true holds everything, even when a request of the
\* loop over the pages was refused (fetch_complete_pr_diff, fetch_complete_pr_files).
CompleteMeansComplete ==
    ~garbled => \A k \in DOMAIN replies : replies[k].complete => replies[k].n = Sought

\* A reply that is no error, is not marked partial and has no warning rests on requests
\* and writes that all went through.  Two failures are passed over in silence by
\* design: the provisioning API's (the ruler API is asked) and the export's index file.
NoSilentFailure ==
    (phase = "run" /\ Outcome.do = "give" /\ ~Outcome.reply.partial) =>
        \A k \in DOMAIN rs : Refused(rs[k]) => rs[k].what \in {"provisioned rules", "index"}

\* An export names every issue the search found, and its index lists those whose file
\* is on disk: a failure half way through one issue neither loses it nor the next.
ExportAccountsForAll ==
    (phase = "run" /\ t = "jira_export_tasks" /\ Outcome.do = "give") =>
        LET found == {k \in 0..w.total : \E i \in DOMAIN rs : rs[i].what = "issues" /\ k < rs[i].n}
            saved == {rs[i].lo : i \in {j \in DOMAIN rs : rs[j].what = "write" /\ ~Refused(rs[j])}}
        IN  Outcome.reply.named = found /\ Outcome.reply.listed = saved

\* "If a tool returns has_next=true, the system will automatically fetch the next
\* page/chunk" (internal/router/prompt.go), below the limit on continuations.  The code
\* does so for the tools createContinuationStep knows.
AutoPagination ==
    (phase = "done" /\ ~failed /\ Len(replies) <= MaxContinuations) => ~replies[Len(replies)].hasNext
=============================================================================
