---------------------------- MODULE GrafanaTools ----------------------------
(***************************************************************************)
(* The Grafana tools (internal/tools/grafana.go, grafana_alerts.go), one   *)
(* operator per handler.                                                   *)
(***************************************************************************)
EXTENDS HTTPCalls

\* resolveGrafanaConfig: no credentials are needed where the tool, or the alias, says so.
newGrafanaClient(a, noAuth) ==
    \/ ResolveConfig(a.site)
    \/ BaseOf(a.site) # "none" /\ (noAuth \/ a.site.noAuth)

\* grafanaClient.do: redirects are followed and an error while the body is read is
\* dropped; a login page is a body like another.
GrafanaDo(answer) ==
    CASE answer = "whole"           -> "whole"
      [] answer \in {"cut", "html"} -> "garbled"
      [] OTHER                      -> "refused"

Record(what, noAuth, a, rs) ==
    Once(a.fit /\ newGrafanaClient(a, noAuth), One("grafana", what), rs, LAMBDA v : Items(v))

grafanaHealth(a, rs) == Record("health", TRUE, a, rs)
grafanaGetCurrentUser(a, rs) == Record("user", FALSE, a, rs)
grafanaGetDashboard(a, rs) == Record("dashboard", FALSE, a, rs)
grafanaGetFolder(a, rs) == Record("folder", FALSE, a, rs)
grafanaGetDatasource(a, rs) == Record("datasource", FALSE, a, rs)
grafanaListDatasources(a, rs) == Record("datasources", FALSE, a, rs)
grafanaGetAlert(a, rs) == Record("alert", TRUE, a, rs)
grafanaGetAlertRule(a, rs) == Record("alert rule", TRUE, a, rs)

\* limit, unclipped; none when it is not given and the tool has no default.
Limit(t, a) == IF a.size <= 0 THEN Default[t] ELSE a.size

PageNo(a) == IF a.at <= 0 THEN 1 ELSE a.at

\* Mutant: a page that is not full is taken for a full one, and the other way round.
FullInverted(t, v, a) == v.n # Limit(t, a)

\* No answer says whether there is more: a full page is taken for it.
Full(t, v, a) == v.n = Limit(t, a)

ByPage(t, what, a, rs) ==
    Once(a.fit /\ newGrafanaClient(a, FALSE),
         Ask("grafana", what, (PageNo(a) - 1) * Limit(t, a), Limit(t, a)), rs,
         LAMBDA v : Paged(v, Full(t, v, a), [kind |-> "page", at |-> PageNo(a) + 1]))

grafanaSearch(a, rs) == ByPage("grafana_search", "search", a, rs)
grafanaListFolders(a, rs) == ByPage("grafana_list_folders", "folders", a, rs)

\* One page and no word of a next one.
FirstPage(t, what, noAuth, a, rs) ==
    Once(a.fit /\ newGrafanaClient(a, noAuth), Ask("grafana", what, 0, Limit(t, a)), rs,
         LAMBDA v : Items(v))

grafanaQueryAnnotations(a, rs) ==
    FirstPage("grafana_query_annotations", "annotations", FALSE, a, rs)
grafanaListAnnotationTags(a, rs) ==
    FirstPage("grafana_list_annotation_tags", "annotation tags", FALSE, a, rs)
grafanaListAlerts(a, rs) == FirstPage("grafana_list_alerts", "alerts", TRUE, a, rs)

\* The dashboard's panels, as many as max_panels: panels_truncated when there are more.
\* The uid, or the URL it is parsed from, is part of fit.
grafanaGetDashboardSummary(a, rs) ==
    Once(a.fit /\ newGrafanaClient(a, FALSE), One("grafana", "panels"), rs,
         LAMBDA v : LET max == Limit("grafana_get_dashboard_summary", a) IN
                    [Plain EXCEPT !.n = Least(v.n, max), !.told = v.n > max])

\* The provisioning API first, the ruler API when it refuses.
grafanaListAlertRules(a, rs) ==
    IF rs # <<>> /\ Refused(rs[1]) THEN Record("ruler rules", TRUE, a, Tail(rs))
    ELSE Record("provisioned rules", TRUE, a, rs)
=============================================================================
