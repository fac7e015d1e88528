---------------------------- MODULE MCFetchTools ----------------------------
(***************************************************************************)
(* Worlds and calls for TLC.  Page sizes: two items when the call gives    *)
(* none, three at most, against listings of up to five.                    *)
(***************************************************************************)
EXTENDS FetchTools

PageThenOther == [k \in 0..9 |-> IF k = 0 THEN "page" ELSE "other"]
NoneThenIssue == [k \in 0..9 |-> IF k = 0 THEN "none" ELSE "issue"]

WorldOf(total, cap, pager, links, cached) ==
    [total |-> total, kept |-> total \div 2, cap |-> cap, pager |-> pager, links |-> links,
     cached |-> cached]

MCWorlds == {WorldOf(0, 2, "start", PageThenOther, FALSE),
             WorldOf(5, 1, "start", NoneThenIssue, FALSE),
             WorldOf(5, 2, "cursor", PageThenOther, FALSE),
             WorldOf(3, 3, "cursor", NoneThenIssue, TRUE),
             WorldOf(4, 2, "start", PageThenOther, TRUE)}

Server == [bases |-> {"env"}, cloud |-> {}, auth |-> TRUE, noAuth |-> FALSE, version |-> 0]
OwnCloud == [Server EXCEPT !.bases = {"call", "env"}, !.cloud = {"call"}]
Bridge == [Server EXCEPT !.bases = {"bridge"}, !.cloud = {"bridge"}]
Sites == {Server, OwnCloud, Bridge, [OwnCloud EXCEPT !.bases = {"env"}, !.version = 3],
          [Server EXCEPT !.bases = {}], [Server EXCEPT !.auth = FALSE],
          [Server EXCEPT !.auth = FALSE, !.noAuth = TRUE], [Server EXCEPT !.version = 4]}

Usual == [fit |-> TRUE, at |-> 0, cursor |-> 0, size |-> 0, opts |-> {}, version |-> 0, site |-> Server]

With(tools, args) == [tool : tools, args : args]

Sized(tools) ==
    With(tools, {[Usual EXCEPT !.at = p[1], !.size = p[2]] :
                    p \in {<<-1, 0>>, <<0, -1>>, <<0, 0>>, <<1, 1>>, <<2, 1>>, <<9, 0>>, <<1, 9>>}})

Opted(tools, sets) == With(tools, {[Usual EXCEPT !.opts = o] : o \in sets})

Placed(tools) ==
    With(tools, {[Usual EXCEPT !.site = s] : s \in Sites} \cup {[Usual EXCEPT !.fit = FALSE]})

GitHubSingle == {"get_pull_request_details", "get_file_at_ref", "get_pull_request_checks",
                 "github_download_job_logs", "get_pull_request_summary", "fetch_complete_pr_files"}
JiraSingle == {"jira_get_myself", "jira_get_issue", "jira_get_issue_transitions",
               "jira_add_comment", "jira_transition_issue", "jira_add_attachment", "jira_list_projects"}
GrafanaSingle == {"grafana_health", "grafana_get_current_user", "grafana_get_dashboard",
                  "grafana_get_folder", "grafana_list_datasources", "grafana_get_datasource",
                  "grafana_get_alert", "grafana_list_alert_rules", "grafana_get_alert_rule"}

MCCalls ==
    Sized(PagePaged \cup JiraPaged \cup
          {"get_pull_request_diff", "github_list_workflow_runs", "github_list_workflow_jobs",
           "jira_get_issue_bundle", "confluence_list_spaces", "confluence_search_cql",
           "confluence_get_page_children", "confluence_list_page_attachments",
           "confluence_get_page_by_title", "grafana_search", "grafana_list_folders",
           "grafana_query_annotations", "grafana_list_annotation_tags", "grafana_list_alerts",
           "grafana_get_dashboard_summary"})
    \cup With(GitHubSingle, {Usual, [Usual EXCEPT !.fit = FALSE]})
    \cup Placed(JiraSingle \cup GrafanaSingle \cup
                {"confluence_list_spaces", "confluence_get_page", "jira_search_issues"})
    \cup Opted({"get_pull_request_diff", "fetch_complete_pr_diff", "get_pull_request_file_diff"},
               {{}, {"filter"}})
    \cup Opted({"prepare_pull_request_review_bundle"}, {{}, {"diff", "checks"}, {"commits"}})
    \cup Opted({"jira_get_issue_bundle"}, {{"comments"}})
    \cup Opted({"jira_create_issue", "jira_update_issue"}, {{}, {"fields"}, {"update"}})
    \cup Opted({"jira_export_tasks"}, {{}, {"no confluence"}, {"confluence unset"}})
    \cup Opted({"confluence_get_page", "confluence_get_page_by_title"}, {{}, {"bad format"}})
    \cup Opted({"confluence_download_attachment"}, {{}, {"other host"}})
    \cup With({"confluence_list_spaces"}, {[Usual EXCEPT !.site = OwnCloud, !.opts = o, !.size = s] :
                                              o \in {{}, {"v1"}}, s \in {0, 1}})
    \cup With({"jira_list_projects"}, {[Usual EXCEPT !.version = 3, !.size = s] : s \in {0, 1}}
                                          \cup {[Usual EXCEPT !.site = OwnCloud, !.version = 2]})
    \cup With({"jira_export_tasks"}, {[Usual EXCEPT !.size = 9]})

MCDefault == [tool \in {c.tool : c \in MCCalls} |-> 2]
MCLargest == [tool \in {c.tool : c \in MCCalls} |-> 3]
=============================================================================
