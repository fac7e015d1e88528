----------------------------- MODULE JiraExport -----------------------------
(***************************************************************************)
(* jira_export_tasks (internal/tools/jira_export.go): the issues a search  *)
(* finds, one file each, with the Confluence pages they link to and an     *)
(* index.  The issues are numbered from 0; every request about issue k     *)
(* carries k.  An issue's description has one link or none: "page" for a   *)
(* Confluence page, "issue" for a Jira issue, "other".                     *)
(***************************************************************************)
EXTENDS JiraTools, ConfluenceTools

\* Requests and writes one after the other, the first failure ending them.
InTurn(requests, rs) ==
    IF \E k \in DOMAIN rs : Refused(rs[k]) THEN Fail
    ELSE IF Len(rs) < Len(requests) THEN requests[Len(rs) + 1] ELSE Give(Plain)

\* exportConfluencePage: a page without a body is an error.  The html file stays when
\* the text file cannot be written.
exportConfluencePage(k, a, rs) ==
    IF \/ \E i \in DOMAIN rs : rs[i].what = "page" /\ rs[i].v = "garbled"
       \/ rs # <<>> /\ "confluence unset" \in a.opts
    THEN Fail
    ELSE InTurn(<<Ask("disk", "mkdir", k, 1), Ask("confluence", "page", k, 1),
                  Ask("disk", "html", k, 1), Ask("disk", "text", k, 1)>>, rs)

\* An issue's description is read from a body that decodes.
LinkOf(v) == IF v.v = "whole" THEN v.link ELSE "none"

\* The links of an issue that could be read.
ExportLinks(k, v, a, rs) ==
    IF LinkOf(v) = "page" /\ "no confluence" \notin a.opts THEN exportConfluencePage(k, a, rs)
    ELSE IF LinkOf(v) = "none" THEN Give(Plain) ELSE Fail

\* Mutant: an issue whose file cannot be written is in the index all the same.
EntryListed(issue, links, file) ==
    [file |-> issue.do = "give", warned |-> issue.do = "fail",
     unresolved |-> links.do = "fail"]

\* What the results say of an issue: its file, a warning, an unresolved link.
Entry(issue, links, file) ==
    [file |-> issue.do = "give" /\ file.do = "give",
     warned |-> issue.do = "fail" \/ file.do = "fail",
     unresolved |-> issue.do = "give" /\ links.do = "fail"]

\* The answers about issue k.
About(k, rs) ==
    Picked(rs, {i \in DOMAIN rs : rs[i].lo = k /\ rs[i].what \notin {"export dir", "issues", "index"}})

\* One issue, from the answers about it: its next request, or its entry.
ExportIssue(k, a, rs) ==
    LET issue == InTurn(<<Ask("jira", "issue", k, 1)>>, Of(rs, "issue"))
        links == ExportLinks(k, rs[1], a,
                     Picked(rs, {i \in DOMAIN rs : rs[i].what \notin {"issue", "write"}}))
        file  == InTurn(<<Ask("disk", "write", k, 1)>>, Of(rs, "write"))
    IN  IF issue.do # "give" THEN (IF issue.do = "ask" THEN issue ELSE Give(Entry(issue, Fail, Fail)))
        ELSE IF links.do = "ask" THEN links
        ELSE IF file.do = "ask" THEN file
        ELSE Give(Entry(issue, links, file))

ExportReply(entries) ==
    [Plain EXCEPT !.n = Cardinality(DOMAIN entries), !.named = DOMAIN entries,
                  !.listed = {k \in DOMAIN entries : entries[k].file},
                  !.partial = \E k \in DOMAIN entries : entries[k].warned \/ entries[k].unresolved]

\* The directory, the search, the issues in order, the index.  A search that finds
\* nothing, or whose answer cannot be read, is an export of nothing and has no index;
\* an index that cannot be written is not looked at.
jiraExportTasks(a, rs) ==
    LET t == "jira_export_tasks"
        size == IF a.size = 0 THEN Default[t] ELSE a.size
        opened == InTurn(<<One("disk", "export dir")>>, Of(rs, "export dir"))
        search == jiraSearchIssues([a EXCEPT !.at = 0, !.size = size], Of(rs, "issues"))
        found == 0..(Of(rs, "issues")[1].n - 1)
        done  == [k \in found |-> ExportIssue(k, a, About(k, rs))]
        open  == {k \in found : done[k].do = "ask"}
        first == {k \in open : \A j \in open : k <= j}
    IN  IF ~a.fit \/ size \notin 1..Largest[t] THEN Fail
        ELSE IF opened.do # "give" THEN opened
        ELSE IF search.do # "give" THEN search
        ELSE IF found = {} THEN Give(Plain)
        ELSE IF first # {} THEN done[CHOOSE k \in first : TRUE]
        ELSE IF Of(rs, "index") = <<>> THEN One("disk", "index")
        ELSE Give(ExportReply([k \in found |-> done[k].reply]))
=============================================================================
