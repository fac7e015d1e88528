-------------------------- MODULE FetchToolsProofs --------------------------
(***************************************************************************)
(* Proofs about FetchTools, for any services, calls, page sizes and bound  *)
(* on the continuations: pages follow one another without gap or repeat.   *)
(***************************************************************************)
EXTENDS FetchTools, TLAPS

-----------------------------------------------------------------------------
(* The invariant                                                           *)

\* An answer to a request.
IsAnswer(v, request) == \E answer \in Answers(request.client) : v = View(request, answer)

\* Where the listing of a call starts.
StartOf(tool, args) ==
    CASE tool \in PagePaged -> (Page(args) - 1) * Clipped(tool, args)
      [] tool = "jira_list_projects" /\ ApiVersion(args) # 3 -> 0
      [] tool = "get_pull_request_diff" ->
            Least(args.at, IF "filter" \in args.opts THEN Least(w.total, w.kept) ELSE w.total)
      [] tool = "confluence_list_spaces" /\ OnCloud(args.site)
            /\ BaseOf(args.site) # "bridge" /\ "v1" \notin args.opts -> args.cursor
      [] tool = "confluence_search_cql" -> CQLFrom(args)
      [] OTHER -> args.at

\* A service that pages by starts is not asked for a cursor.
Cursored(tool, args) == tool = "confluence_search_cql" /\ w.pager = "start" => args.cursor = 0

\* The step's arguments are good ones.
Asked ==
    /\ w \in Worlds
    /\ phase = "run" => \E c \in Calls : c.tool = t
    /\ phase = "run" /\ ~garbled => a \in Args /\ Cursored(t, a)

\* A tool that can be continued has sent its one request or not yet.
OneAnswer ==
    phase = "run" /\ t \in Continued /\ rs # <<>> =>
        /\ rs = <<rs[1]>> /\ (rs[1].v = "garbled" => garbled)
        /\ Handle(t, a, <<>>).do = "ask" /\ IsAnswer(rs[1], Handle(t, a, <<>>))

\* A continuation starts where the last reply ended.
Seamless ==
    phase = "run" /\ replies # <<>> /\ ~garbled =>
        /\ t \in Continued
        /\ StartOf(t, a) = replies[Len(replies)].lo + replies[Len(replies)].n

PagingInv ==
    /\ replies \in Seq({replies[k] : k \in DOMAIN replies})
    /\ garbled \in BOOLEAN
    /\ phase = "idle" => replies = <<>>
    /\ Asked /\ OneAnswer /\ Seamless /\ PagesInOrder

-----------------------------------------------------------------------------
(* Answers                                                                 *)

LEMMA AnswerKinds ==
    ASSUME NEW client \in {"github", "jira", "confluence", "grafana", "disk"},
           NEW what, NEW lo, NEW size, NEW v, IsAnswer(v, Ask(client, what, lo, size))
    PROVE  v.v \in {"whole", "garbled", "refused"} /\ v.lo = lo
<1>1. PICK answer : v = View(Ask(client, what, lo, size), answer)
  BY DEF IsAnswer
<1>2. Do(Ask(client, what, lo, size), answer) \in {"whole", "garbled", "refused"}
  BY DEF Do, Ask, GitHubDo, GrafanaDo, JiraDo, JiraUpload, ConfluenceDo, ConfluenceDownload
<1> QED BY <1>1, <1>2 DEF View, Ask

\* A page of a listing: unless it is the last it is full.
Filled(v, client, what, lo, size) ==
    /\ v.lo = lo /\ v.n \in Nat /\ v.total = w.total /\ v.to = lo + v.n
    /\ v.size \in Nat \ {0} /\ (client = "github" => v.size = size)
    /\ v.more \in BOOLEAN /\ (v.more <=> lo + v.n < w.total)
    /\ v.more \/ lo + v.size < v.total => v.n = v.size
    /\ v.pager = IF what = "spaces v2" THEN "cursor"
                 ELSE IF what = "cql" THEN w.pager ELSE "start"

LEMMA PageAnswered ==
    ASSUME w \in Worlds, NEW client \in {"github", "jira", "confluence", "grafana"},
           NEW what \in Listed, NEW lo \in Nat, NEW size \in Nat \ {0},
           NEW v, IsAnswer(v, Ask(client, what, lo, size)), v.v = "whole"
    PROVE  Filled(v, client, what, lo, size)
<1>1. PICK answer : v = View(Ask(client, what, lo, size), answer)
  BY DEF IsAnswer
<1>2. w.total \in Nat /\ w.cap \in Nat \ {0}
  BY FetchAssumption
<1> DEFINE s == IF client \in {"jira", "confluence"} THEN Least(size, w.cap) ELSE size
           held == IF lo >= w.total THEN 0 ELSE Least(s, w.total - lo)
<1>3. s \in Nat \ {0} /\ held \in Nat /\ (client = "github" => s = size)
  BY <1>2 DEF Least
<1>4. /\ lo + held < w.total => held = s
      /\ lo + s < w.total => held = s
  BY <1>2, <1>3 DEF Least
<1>5. /\ v.lo = lo /\ v.n = held /\ v.total = w.total /\ v.to = lo + held /\ v.size = s
      /\ v.more \in BOOLEAN /\ (v.more <=> lo + held < w.total)
  <2>1. what \notin Text /\ what \notin Whole
    BY DEF Listed, Text, Whole
  <2>2. v.v = Do(Ask(client, what, lo, size), answer)
    BY <1>1 DEF View
  <2> QED BY <1>1, <2>1, <2>2 DEF View, Ask
<1>6. v.pager = IF what = "spaces v2" THEN "cursor"
                ELSE IF what = "cql" THEN w.pager ELSE "start"
  BY <1>1 DEF View, Ask
<1> HIDE DEF s, held
<1> QED BY <1>3, <1>4, <1>5, <1>6 DEF Filled

LEMMA PagedFields ==
    ASSUME NEW v, NEW hasNext \in BOOLEAN, NEW next
    PROVE  /\ Paged(v, hasNext, next).lo = v.lo /\ Paged(v, hasNext, next).n = v.n
           /\ Paged(v, hasNext, next).hasNext = hasNext
           /\ Paged(v, hasNext, next).window = <<>>
           /\ hasNext => Paged(v, hasNext, next).next = next
BY DEF Paged, Items, Plain

-----------------------------------------------------------------------------
(* The tools that can be continued                                         *)

\* The reply of a call is where it should be, and so are its continuations.
Follows(tool, args, r) ==
    /\ r.lo = StartOf(tool, args)
    /\ \A x \in Continuation(tool, args, r) :
          x \in Args /\ Cursored(tool, x) /\ StartOf(tool, x) = r.lo + r.n

\* v is the answer to the request of a call, and the handler gives a reply for it.
Answered(tool, args, v) ==
    /\ Handle(tool, args, <<>>).do = "ask" /\ IsAnswer(v, Handle(tool, args, <<>>))
    /\ Handle(tool, args, <<v>>).do = "give" /\ v.v # "garbled"
    /\ args \in Args /\ Cursored(tool, args)
    /\ Default[tool] \in Nat \ {0} /\ Largest[tool] \in Nat \ {0}

LEMMA OneOf ==
    ASSUME NEW v
    PROVE  <<v>> # <<>> /\ <<v>>[1] = v
OBVIOUS

\* Which handler a tool has.
LEMMA Dispatch ==
    ASSUME NEW args, NEW got
    PROVE  /\ Handle("list_pull_request_files", args, got) = listPullRequestFiles(args, got)
           /\ Handle("list_pull_request_commits", args, got) = listPullRequestCommits(args, got)
           /\ Handle("get_pull_request_diff", args, got) = getPullRequestDiff(args, got)
           /\ Handle("jira_search_issues", args, got) = jiraSearchIssues(args, got)
           /\ Handle("jira_get_issue_comments", args, got) = jiraGetIssueComments(args, got)
           /\ Handle("jira_list_projects", args, got) = jiraListProjects(args, got)
           /\ Handle("confluence_list_spaces", args, got) = confluenceListSpaces(args, got)
           /\ Handle("confluence_search_cql", args, got) = confluenceSearchCQL(args, got)
           /\ Handle("confluence_get_page_children", args, got) = confluenceGetPageChildren(args, got)
           /\ Handle("confluence_list_page_attachments", args, got) = confluenceListPageAttachments(args, got)
<1>1. Handle("list_pull_request_files", args, got) = listPullRequestFiles(args, got)
  BY DEF Handle
<1>2. Handle("list_pull_request_commits", args, got) = listPullRequestCommits(args, got)
  BY DEF Handle
<1>3. Handle("get_pull_request_diff", args, got) = getPullRequestDiff(args, got)
  BY DEF Handle
<1>4. Handle("jira_search_issues", args, got) = jiraSearchIssues(args, got)
  BY DEF Handle
<1>5. Handle("jira_get_issue_comments", args, got) = jiraGetIssueComments(args, got)
  BY DEF Handle
<1>6. Handle("jira_list_projects", args, got) = jiraListProjects(args, got)
  BY DEF Handle
<1>7. Handle("confluence_list_spaces", args, got) = confluenceListSpaces(args, got)
  BY DEF Handle
<1>8. Handle("confluence_search_cql", args, got) = confluenceSearchCQL(args, got)
  BY DEF Handle
<1>9. Handle("confluence_get_page_children", args, got) = confluenceGetPageChildren(args, got)
  BY DEF Handle
<1>10. Handle("confluence_list_page_attachments", args, got) = confluenceListPageAttachments(args, got)
  BY DEF Handle
<1> QED BY <1>1, <1>2, <1>3, <1>4, <1>5, <1>6, <1>7, <1>8, <1>9, <1>10

LEMMA ClippedSize ==
    ASSUME NEW tool, NEW args \in Args,
           Default[tool] \in Nat \ {0}, Largest[tool] \in Nat \ {0}
    PROVE  Clipped(tool, args) \in Nat \ {0}
BY DEF Clipped, Least, Args

\* The pages of GitHub's listings.
LEMMA GitHubPages ==
    ASSUME w \in Worlds, NEW args, NEW v, NEW tool \in PagePaged, Answered(tool, args, v)
    PROVE  Follows(tool, args, Handle(tool, args, <<v>>).reply)
<1> DEFINE what == IF tool = "list_pull_request_files" THEN "files" ELSE "commits"
           C    == Clipped(tool, args)
           lo   == (Page(args) - 1) * C
<1>1. /\ Handle(tool, args, <<>>) = PageOf(tool, what, args, <<>>)
      /\ Handle(tool, args, <<v>>) = PageOf(tool, what, args, <<v>>)
  <2>1. CASE tool = "list_pull_request_files"
    BY <2>1, Dispatch DEF listPullRequestFiles
  <2>2. CASE tool = "list_pull_request_commits"
    BY <2>2, Dispatch DEF listPullRequestCommits
  <2> QED BY <2>1, <2>2 DEF PagePaged
<1>2. Handle(tool, args, <<>>) = Ask("github", what, lo, C)
  BY <1>1 DEF Answered, PageOf, Once, Fail
<1>3. ~Refused(v) /\ Handle(tool, args, <<v>>).reply = NextPage(v, args)
  BY <1>1, OneOf DEF Answered, PageOf, Once, Fail, Give
<1>4. C \in Nat \ {0} /\ args \in Args /\ Page(args) \in Nat \ {0}
  <2>1. args.at \in Int
    BY DEF Answered, Args
  <2> QED BY <2>1, ClippedSize DEF Answered, Page
<1>5. lo \in Nat /\ lo + C = Page(args) * C
  BY <1>4
<1>6. what \in Listed
  BY DEF Listed
<1> HIDE DEF what, C
<1>7. v.v = "whole"
  BY <1>2, <1>3, AnswerKinds DEF Answered, Refused
<1>8. /\ v.lo = lo /\ v.n \in Nat /\ v.more \in BOOLEAN
      /\ v.more => v.n = v.size
      /\ v.size = C
  <2>1. IsAnswer(v, Ask("github", what, lo, C))
    BY <1>2 DEF Answered
  <2>2. lo \in Nat /\ C \in Nat \ {0}
    BY <1>4, <1>5
  <2>3. "github" \in {"github", "jira", "confluence", "grafana"}
    OBVIOUS
  <2> HIDE DEF lo
  <2>4. Filled(v, "github", what, lo, C)
    BY <2>1, <2>2, <2>3, <1>6, <1>7, PageAnswered
  <2> QED BY <2>4 DEF Filled
<1>9. PICK r : r = Handle(tool, args, <<v>>).reply
  OBVIOUS
<1>10. /\ r.lo = v.lo /\ r.n = v.n /\ r.window = <<>> /\ r.hasNext = v.more
       /\ v.more => r.next = [kind |-> "page", at |-> Page(args) + 1]
  BY <1>3, <1>8, <1>9, PagedFields DEF NextPage
<1>11. \A x : StartOf(tool, x) = (Page(x) - 1) * Clipped(tool, x)
  BY DEF StartOf, PagePaged
<1>12. ASSUME NEW x \in Continuation(tool, args, r)
       PROVE  v.more /\ x = [args EXCEPT !.at = Page(args) + 1]
  <2>1. tool \notin JiraPaged
    BY DEF PagePaged, JiraPaged
  <2>2. v.more
    BY <1>10, <1>12, <2>1 DEF Continuation
  <2> QED BY <1>10, <1>12, <2>1, <2>2 DEF Continuation
<1>13. ASSUME NEW x, x = [args EXCEPT !.at = Page(args) + 1]
       PROVE  x \in Args /\ StartOf(tool, x) = Page(args) * C
  <2>1. x \in Args /\ x.at = Page(args) + 1 /\ x.size = args.size
    BY <1>4, <1>13 DEF Args
  <2>2. Page(x) = Page(args) + 1
    BY <1>4, <2>1 DEF Page
  <2>3. Clipped(tool, x) = C
    BY <2>1 DEF C, Clipped
  <2> QED BY <1>4, <1>11, <2>1, <2>2, <2>3
<1>14. \A x : Cursored(tool, x)
  BY DEF PagePaged, Cursored
<1>15. StartOf(tool, args) = lo
  BY <1>11 DEF C
<1> QED BY <1>5, <1>8, <1>9, <1>10, <1>12, <1>13, <1>14, <1>15 DEF Follows

\* A Jira listing with a window goes on at its end.
LEMMA JiraWindow ==
    ASSUME w \in Worlds, NEW args, NEW v, NEW tool \in JiraPaged, NEW what \in Listed,
           Answered(tool, args, v),
           \A got : Handle(tool, args, got) = WindowOf(tool, what, args, got),
           tool = "jira_list_projects" => ApiVersion(args) = 3
    PROVE  Follows(tool, args, Handle(tool, args, <<v>>).reply)
<1> DEFINE S == Size(tool, args)
<1>1. /\ Handle(tool, args, <<>>) = WindowOf(tool, what, args, <<>>)
      /\ Handle(tool, args, <<v>>) = WindowOf(tool, what, args, <<v>>)
  OBVIOUS
<1>2. /\ args.at >= 0 /\ args.size >= 0
      /\ Handle(tool, args, <<>>) = Ask("jira", what, args.at, S)
  BY <1>1 DEF Answered, WindowOf, Once, Fail
<1>3. ~Refused(v) /\ Handle(tool, args, <<v>>).reply = Windowed(v)
  BY <1>1, OneOf DEF Answered, WindowOf, Once, Fail, Give
<1>4. args \in Args /\ args.at \in Nat /\ S \in Nat \ {0}
  BY <1>2 DEF Answered, Args, Size
<1> HIDE DEF S
<1>5. v.v = "whole"
  BY <1>2, <1>3, AnswerKinds DEF Answered, Refused
<1>6. Filled(v, "jira", what, args.at, S)
  <2>1. IsAnswer(v, Ask("jira", what, args.at, S))
    BY <1>2 DEF Answered
  <2>2. "jira" \in {"github", "jira", "confluence", "grafana"}
    OBVIOUS
  <2> QED BY <2>1, <2>2, <1>4, <1>5, PageAnswered
<1>7. /\ v.lo = args.at /\ v.n \in Nat /\ v.size \in Nat
      /\ v.lo + v.size < v.total => v.n = v.size
  BY <1>6 DEF Filled
<1>8. PICK r : r = Handle(tool, args, <<v>>).reply
  OBVIOUS
<1>9. /\ r.lo = v.lo /\ r.n = v.n /\ ~r.hasNext
      /\ r.window = <<v.lo, v.size, v.total>>
  BY <1>3, <1>5, <1>8 DEF Windowed, Items, Plain
<1>10. ASSUME NEW x \in Continuation(tool, args, r)
       PROVE  x = [args EXCEPT !.at = v.lo + v.n]
  <2>1. v.lo + v.size < v.total
    BY <1>9, <1>10 DEF Continuation
  <2> QED BY <1>7, <1>9, <1>10, <2>1 DEF Continuation
<1>11. ASSUME NEW x, ApiVersion(x) = ApiVersion(args)
       PROVE  StartOf(tool, x) = x.at
  BY <1>11 DEF StartOf, JiraPaged, PagePaged
<1>12. ASSUME NEW x, x = [args EXCEPT !.at = v.lo + v.n]
       PROVE  x \in Args /\ StartOf(tool, x) = v.lo + v.n
  <2>1. /\ x \in Args /\ x.at = v.lo + v.n /\ x.version = args.version /\ x.site = args.site
    BY <1>4, <1>7, <1>12 DEF Args
  <2>2. ApiVersion(x) = ApiVersion(args)
    BY <2>1 DEF ApiVersion
  <2> QED BY <1>11, <2>1, <2>2
<1>13. \A x : Cursored(tool, x)
  BY DEF JiraPaged, Cursored
<1> QED BY <1>7, <1>8, <1>9, <1>10, <1>11, <1>12, <1>13 DEF Follows

\* Version 2 of the projects has no pages.
LEMMA JiraArray ==
    ASSUME NEW args, NEW v, NEW what, NEW ok \in BOOLEAN, Answered("jira_list_projects", args, v),
           \A got : Handle("jira_list_projects", args, got) = Single(what, ok, args, got),
           ApiVersion(args) # 3
    PROVE  Follows("jira_list_projects", args, Handle("jira_list_projects", args, <<v>>).reply)
<1> DEFINE tool == "jira_list_projects"
<1>1. /\ Handle(tool, args, <<>>) = Single(what, ok, args, <<>>)
      /\ Handle(tool, args, <<v>>) = Single(what, ok, args, <<v>>)
  OBVIOUS
<1>2. Handle(tool, args, <<>>) = One("jira", what)
  BY <1>1 DEF Answered, Single, Once, Fail
<1>3. Handle(tool, args, <<v>>).reply = Items(v)
  BY <1>1, OneOf DEF Answered, Single, Once, Fail, Give
<1>4. v.lo = 0
  <2>1. IsAnswer(v, Ask("jira", what, 0, 1))
    BY <1>2 DEF Answered, One
  <2>2. "jira" \in {"github", "jira", "confluence", "grafana", "disk"}
    OBVIOUS
  <2> QED BY <2>1, <2>2, AnswerKinds
<1>5. PICK r : r = Handle(tool, args, <<v>>).reply
  OBVIOUS
<1>6. r.lo = v.lo /\ r.window = <<>> /\ ~r.hasNext
  BY <1>3, <1>5 DEF Items, Plain
<1>7. Continuation(tool, args, r) = {}
  BY <1>6 DEF Continuation
<1>8. StartOf(tool, args) = 0
  BY DEF StartOf, PagePaged
<1> QED BY <1>4, <1>5, <1>6, <1>7, <1>8 DEF Follows

LEMMA JiraPages ==
    ASSUME w \in Worlds, NEW args, NEW v, NEW tool \in JiraPaged, Answered(tool, args, v)
    PROVE  Follows(tool, args, Handle(tool, args, <<v>>).reply)
<1>1. "issues" \in Listed /\ "comments" \in Listed /\ "projects" \in Listed
  BY DEF Listed
<1>2. CASE tool = "jira_search_issues"
  <2>1. \A got : Handle(tool, args, got) = WindowOf(tool, "issues", args, got)
    BY <1>2, Dispatch DEF jiraSearchIssues
  <2> QED BY <1>1, <1>2, <2>1, JiraWindow
<1>3. CASE tool = "jira_get_issue_comments"
  <2>1. \A got : Handle(tool, args, got) = WindowOf(tool, "comments", args, got)
    BY <1>3, Dispatch DEF jiraGetIssueComments
  <2> QED BY <1>1, <1>3, <2>1, JiraWindow
<1>4. CASE tool = "jira_list_projects" /\ ApiVersion(args) = 3
  <2>1. \A got : Handle(tool, args, got) = WindowOf(tool, "projects", args, got)
    BY <1>4, Dispatch DEF jiraListProjects
  <2> QED BY <1>1, <1>4, <2>1, JiraWindow
<1>5. CASE tool = "jira_list_projects" /\ ApiVersion(args) # 3
  <2>1. PICK what, ok : what = "all projects" /\ ok \in BOOLEAN /\ ok
    OBVIOUS
  <2>2. \A got : Handle(tool, args, got) = Single(what, ok, args, got)
    BY <1>5, <2>1, Dispatch DEF jiraListProjects
  <2> QED BY <1>5, <2>1, <2>2, JiraArray
<1> QED BY <1>2, <1>3, <1>4, <1>5 DEF JiraPaged

\* The chunks of a diff, which is fetched anew for each.
LEMMA DiffChunks ==
    ASSUME w \in Worlds, NEW args, NEW v, Answered("get_pull_request_diff", args, v)
    PROVE  Follows("get_pull_request_diff", args,
                   Handle("get_pull_request_diff", args, <<v>>).reply)
<1> DEFINE tool  == "get_pull_request_diff"
           held  == IF "filter" \in args.opts THEN Least(w.total, w.kept) ELSE w.total
           C     == Clipped(tool, args)
           from  == Least(args.at, held)
           end   == Least(from + C, held)
<1>1. /\ Handle(tool, args, <<>>) = getPullRequestDiff(args, <<>>)
      /\ Handle(tool, args, <<v>>) = getPullRequestDiff(args, <<v>>)
  BY Dispatch
<1>2. args.at >= 0 /\ Handle(tool, args, <<>>) = Ask("github", "diff", 0, 1)
  BY <1>1 DEF Answered, getPullRequestDiff, Once, Fail, One
<1>3. ~Refused(v) /\ Handle(tool, args, <<v>>).reply = Chunk(v, args, C)
  BY <1>1, OneOf DEF Answered, getPullRequestDiff, Once, Fail, Give
<1>4. args \in Args /\ args.at \in Nat /\ C \in Nat \ {0} /\ w.total \in Nat /\ w.kept \in Nat
  BY <1>2, ClippedSize, FetchAssumption DEF Answered, Args
<1>5. v.v = "whole"
  BY <1>2, <1>3, AnswerKinds DEF Answered, Refused
<1>6. Wanted(v, args) = held
  <2>1. PICK answer : v = View(Ask("github", "diff", 0, 1), answer)
    BY <1>2 DEF Answered, IsAnswer
  <2>2. "diff" \in Whole /\ "diff" \notin Listed
    BY DEF Whole, Listed
  <2>3. v.v = Do(Ask("github", "diff", 0, 1), answer)
    BY <2>1 DEF View
  <2>4. v.n = w.total /\ v.kept = Least(v.n, w.kept)
    BY <1>5, <2>1, <2>2, <2>3 DEF View, Ask
  <2> QED BY <2>4 DEF Wanted
<1>7. /\ held \in Nat /\ from \in Nat /\ end \in Nat /\ from <= held /\ end <= held
      /\ Least(end, held) = end
  BY <1>4 DEF Least
<1>8. PICK r : r = Handle(tool, args, <<v>>).reply
  OBVIOUS
<1>9. r = Paged([lo |-> from, n |-> end - from], end < held, [kind |-> "offset", at |-> end])
  BY <1>3, <1>6, <1>8 DEF Chunk
<1> HIDE DEF held, C
<1>10. /\ r.lo = from /\ r.n = end - from /\ r.window = <<>>
       /\ r.hasNext => r.next = [kind |-> "offset", at |-> end]
  <2> HIDE DEF from, end
  <2> QED BY <1>9 DEF Paged, Items, Plain
<1>11. ASSUME NEW x \in Continuation(tool, args, r)
       PROVE  x = [args EXCEPT !.at = end]
  <2> HIDE DEF from, end
  <2>1. r.hasNext /\ tool \notin JiraPaged
    BY <1>10, <1>11 DEF Continuation, JiraPaged
  <2> QED BY <1>10, <1>11, <2>1 DEF Continuation
<1>12. ASSUME NEW x, x = [args EXCEPT !.at = end]
       PROVE  x \in Args /\ StartOf(tool, x) = end
  <2>1. x \in Args /\ x.at = end /\ x.opts = args.opts
    BY <1>4, <1>7, <1>12 DEF Args
  <2>2. StartOf(tool, x) = Least(end, held)
    BY <2>1 DEF StartOf, PagePaged, held
  <2> QED BY <1>7, <2>1, <2>2
<1>13. StartOf(tool, args) = from
  BY DEF StartOf, PagePaged, held
<1>14. from + (end - from) = end
  BY <1>7
<1>15. \A x : Cursored(tool, x)
  BY DEF Cursored
<1> HIDE DEF from, end
<1> QED BY <1>8, <1>10, <1>11, <1>12, <1>13, <1>14, <1>15 DEF Follows

\* Confluence's next link: a cursor or a start, where the page ended.
LEMMA LinkedFields ==
    ASSUME NEW v, NEW hasNext \in BOOLEAN
    PROVE  LET r == Paged(v, hasNext, LinkNext(v)) IN
           /\ r.lo = v.lo /\ r.n = v.n /\ r.hasNext = hasNext /\ r.window = <<>>
           /\ hasNext => /\ r.next.kind = IF v.pager = "cursor" THEN "cursor" ELSE "start"
                         /\ r.next.at = v.to
<1>1. PICK next : next = LinkNext(v)
  OBVIOUS
<1>2. PICK r : r = Paged(v, hasNext, next)
  OBVIOUS
<1>3. /\ r.lo = v.lo /\ r.n = v.n /\ r.hasNext = hasNext /\ r.window = <<>>
      /\ hasNext => r.next = next
  BY <1>2, PagedFields
<1>4. next.kind = (IF v.pager = "cursor" THEN "cursor" ELSE "start") /\ next.at = v.to
  BY <1>1 DEF LinkNext
<1> QED BY <1>1, <1>2, <1>3, <1>4

\* What a reply with such a link is continued with.
LEMMA LinkContinued ==
    ASSUME NEW args, NEW v, NEW tool, tool \notin JiraPaged,
           NEW r, r.hasNext \in BOOLEAN,
           r.hasNext => /\ r.next.kind = IF v.pager = "cursor" THEN "cursor" ELSE "start"
                        /\ r.next.at = v.to,
           NEW x \in Continuation(tool, args, r)
    PROVE  /\ r.hasNext
           /\ v.pager = "cursor" => x = [args EXCEPT !.cursor = v.to]
           /\ v.pager # "cursor" => x = [args EXCEPT !.at = v.to]
<1>1. r.hasNext
  BY DEF Continuation
<1>2. CASE v.pager = "cursor"
  <2>1. x = [args EXCEPT !.cursor = r.next.at]
    BY <1>1, <1>2 DEF Continuation
  <2> QED BY <1>1, <1>2, <2>1
<1>3. CASE v.pager # "cursor"
  <2>1. x = [args EXCEPT !.at = r.next.at]
    BY <1>1, <1>3 DEF Continuation
  <2> QED BY <1>1, <1>3, <2>1
<1> QED BY <1>2, <1>3

LEMMA Moved ==
    ASSUME NEW args \in Args, NEW n \in Nat
    PROVE  /\ [args EXCEPT !.at = n] \in Args
           /\ [args EXCEPT !.at = n].at = n
           /\ [args EXCEPT !.at = n].cursor = args.cursor
           /\ [args EXCEPT !.at = n].opts = args.opts
           /\ [args EXCEPT !.at = n].site = args.site
           /\ [args EXCEPT !.cursor = n] \in Args
           /\ [args EXCEPT !.cursor = n].cursor = n
           /\ [args EXCEPT !.cursor = n].at = args.at
           /\ [args EXCEPT !.cursor = n].opts = args.opts
           /\ [args EXCEPT !.cursor = n].site = args.site
BY DEF Args

\* Whether the spaces are listed by version 2 of the API.
ByCursor(args) ==
    OnCloud(args.site) /\ BaseOf(args.site) # "bridge" /\ "v1" \notin args.opts

LEMMA SpacesByCursor ==
    ASSUME w \in Worlds, NEW args, NEW v, Answered("confluence_list_spaces", args, v),
           ByCursor(args)
    PROVE  Follows("confluence_list_spaces", args,
                   Handle("confluence_list_spaces", args, <<v>>).reply)
<1> DEFINE tool == "confluence_list_spaces"
           C    == Clipped(tool, args)
<1>1. /\ Handle(tool, args, <<>>) = confluenceListSpaces(args, <<>>)
      /\ Handle(tool, args, <<v>>) = confluenceListSpaces(args, <<v>>)
  BY Dispatch
<1>2. Handle(tool, args, <<>>) = Ask("confluence", "spaces v2", args.cursor, C)
  BY <1>1 DEF Answered, confluenceListSpaces, Once, Fail, ByCursor
<1>3. ~Refused(v) /\ Handle(tool, args, <<v>>).reply = Paged(v, NextCursor(v), LinkNext(v))
  <2>1. confluenceListSpaces(args, <<v>>).do = "give"
    BY <1>1 DEF Answered
  <2>2. /\ ~Refused(v)
        /\ confluenceListSpaces(args, <<v>>).reply = Paged(v, NextCursor(v), LinkNext(v))
    BY <2>1, OneOf DEF confluenceListSpaces, Once, Fail, Give, ByCursor
  <2> QED BY <1>1, <2>2
<1>4. args \in Args /\ args.cursor \in Nat /\ C \in Nat \ {0}
  BY ClippedSize DEF Answered, Args
<1> HIDE DEF C
<1>5. PICK what : what = "spaces v2" /\ what \in Listed
  BY DEF Listed
<1>6. v.v = "whole" /\ IsAnswer(v, Ask("confluence", what, args.cursor, C))
  <2>1. IsAnswer(v, Ask("confluence", what, args.cursor, C))
    BY <1>2, <1>5 DEF Answered
  <2>2. "confluence" \in {"github", "jira", "confluence", "grafana", "disk"}
    OBVIOUS
  <2>3. v.v \in {"whole", "garbled", "refused"}
    BY <2>1, <2>2, AnswerKinds
  <2> QED BY <1>3, <2>1, <2>3 DEF Answered, Refused
<1>7. Filled(v, "confluence", what, args.cursor, C)
  <2>1. "confluence" \in {"github", "jira", "confluence", "grafana"}
    OBVIOUS
  <2> QED BY <2>1, <1>4, <1>5, <1>6, PageAnswered
<1>8. /\ v.lo = args.cursor /\ v.n \in Nat /\ v.to = args.cursor + v.n
      /\ v.more \in BOOLEAN /\ v.pager = "cursor"
  BY <1>5, <1>7 DEF Filled
<1>9. PICK r : r = Handle(tool, args, <<v>>).reply
  OBVIOUS
<1>10. r = Paged(v, v.more, LinkNext(v))
  BY <1>3, <1>8, <1>9 DEF NextCursor
<1>11. /\ r.lo = v.lo /\ r.n = v.n /\ r.hasNext \in BOOLEAN
       /\ r.hasNext => /\ r.next.kind = IF v.pager = "cursor" THEN "cursor" ELSE "start"
                       /\ r.next.at = v.to
  BY <1>8, <1>10, LinkedFields
<1>12. tool \notin JiraPaged
  BY DEF JiraPaged
<1>13. ASSUME NEW x \in Continuation(tool, args, r)
       PROVE  x = [args EXCEPT !.cursor = v.to]
  BY <1>8, <1>11, <1>12, <1>13, LinkContinued
<1>14. ASSUME NEW x, ByCursor(x)
       PROVE  StartOf(tool, x) = x.cursor
  BY <1>14 DEF StartOf, PagePaged, ByCursor
<1>15. ASSUME NEW x, x = [args EXCEPT !.cursor = v.to]
       PROVE  x \in Args /\ StartOf(tool, x) = v.to
  <2>1. v.to \in Nat
    BY <1>4, <1>8
  <2>2. x \in Args /\ x.cursor = v.to /\ x.opts = args.opts /\ x.site = args.site
    BY <1>4, <1>15, <2>1, Moved
  <2>3. ByCursor(x)
    BY <2>2 DEF ByCursor
  <2> QED BY <1>14, <2>2, <2>3
<1>16. \A x : Cursored(tool, x)
  BY DEF Cursored
<1> QED BY <1>8, <1>9, <1>11, <1>13, <1>14, <1>15, <1>16 DEF Follows

LEMMA SpacesByStart ==
    ASSUME w \in Worlds, NEW args, NEW v, Answered("confluence_list_spaces", args, v),
           ~ByCursor(args)
    PROVE  Follows("confluence_list_spaces", args,
                   Handle("confluence_list_spaces", args, <<v>>).reply)
<1> DEFINE tool == "confluence_list_spaces"
           C    == Clipped(tool, args)
<1>1. /\ Handle(tool, args, <<>>) = confluenceListSpaces(args, <<>>)
      /\ Handle(tool, args, <<v>>) = confluenceListSpaces(args, <<v>>)
  BY Dispatch
<1>2. args.at >= 0 /\ Handle(tool, args, <<>>) = Ask("confluence", "spaces", args.at, C)
  BY <1>1 DEF Answered, confluenceListSpaces, Once, Fail, ByCursor, InRange
<1>3. ~Refused(v) /\ Handle(tool, args, <<v>>).reply = Paged(v, NextStart(v), LinkNext(v))
  <2>1. confluenceListSpaces(args, <<v>>).do = "give"
    BY <1>1 DEF Answered
  <2>2. /\ ~Refused(v)
        /\ confluenceListSpaces(args, <<v>>).reply = Paged(v, NextStart(v), LinkNext(v))
    BY <2>1, OneOf DEF confluenceListSpaces, Once, Fail, Give, ByCursor
  <2> QED BY <1>1, <2>2
<1>4. args \in Args /\ args.at \in Nat /\ C \in Nat \ {0}
  BY <1>2, ClippedSize DEF Answered, Args
<1> HIDE DEF C
<1>5. PICK what : what = "spaces" /\ what \in Listed
  BY DEF Listed
<1>6. v.v = "whole" /\ IsAnswer(v, Ask("confluence", what, args.at, C))
  <2>1. IsAnswer(v, Ask("confluence", what, args.at, C))
    BY <1>2, <1>5 DEF Answered
  <2>2. "confluence" \in {"github", "jira", "confluence", "grafana", "disk"}
    OBVIOUS
  <2>3. v.v \in {"whole", "garbled", "refused"}
    BY <2>1, <2>2, AnswerKinds
  <2> QED BY <1>3, <2>1, <2>3 DEF Answered, Refused
<1>7. Filled(v, "confluence", what, args.at, C)
  <2>1. "confluence" \in {"github", "jira", "confluence", "grafana"}
    OBVIOUS
  <2> QED BY <2>1, <1>4, <1>5, <1>6, PageAnswered
<1>8. /\ v.lo = args.at /\ v.n \in Nat /\ v.to = args.at + v.n
      /\ v.more \in BOOLEAN /\ v.pager = "start"
  BY <1>5, <1>7 DEF Filled
<1>9. PICK r : r = Handle(tool, args, <<v>>).reply
  OBVIOUS
<1>10. r = Paged(v, v.more, LinkNext(v))
  BY <1>3, <1>6, <1>8, <1>9 DEF NextStart, Linked
<1>11. /\ r.lo = v.lo /\ r.n = v.n /\ r.hasNext \in BOOLEAN
       /\ r.hasNext => /\ r.next.kind = IF v.pager = "cursor" THEN "cursor" ELSE "start"
                       /\ r.next.at = v.to
  BY <1>8, <1>10, LinkedFields
<1>12. tool \notin JiraPaged
  BY DEF JiraPaged
<1>13. ASSUME NEW x \in Continuation(tool, args, r)
       PROVE  x = [args EXCEPT !.at = v.to]
  BY <1>8, <1>11, <1>12, <1>13, LinkContinued
<1>14. ASSUME NEW x, ~ByCursor(x)
       PROVE  StartOf(tool, x) = x.at
  BY <1>14 DEF StartOf, PagePaged, ByCursor
<1>15. ASSUME NEW x, x = [args EXCEPT !.at = v.to]
       PROVE  x \in Args /\ StartOf(tool, x) = v.to
  <2>1. v.to \in Nat
    BY <1>4, <1>8
  <2>2. x \in Args /\ x.at = v.to /\ x.opts = args.opts /\ x.site = args.site
    BY <1>4, <1>15, <2>1, Moved
  <2>3. ~ByCursor(x)
    BY <2>2 DEF ByCursor
  <2> QED BY <1>14, <2>2, <2>3
<1>16. \A x : Cursored(tool, x)
  BY DEF Cursored
<1> QED BY <1>8, <1>9, <1>11, <1>13, <1>14, <1>15, <1>16 DEF Follows

\* A search goes on by a cursor, which wins over the start, or by a start.
LEMMA CQLPages ==
    ASSUME w \in Worlds, NEW args, NEW v, Answered("confluence_search_cql", args, v)
    PROVE  Follows("confluence_search_cql", args,
                   Handle("confluence_search_cql", args, <<v>>).reply)
<1> DEFINE tool == "confluence_search_cql"
           C    == Clipped(tool, args)
           from == CQLFrom(args)
<1>1. /\ Handle(tool, args, <<>>) = confluenceSearchCQL(args, <<>>)
      /\ Handle(tool, args, <<v>>) = confluenceSearchCQL(args, <<v>>)
  BY Dispatch
<1>2. args.at >= 0 /\ Handle(tool, args, <<>>) = Ask("confluence", "cql", from, C)
  BY <1>1 DEF Answered, confluenceSearchCQL, Once, Fail, InRange
<1>3. ~Refused(v) /\ Handle(tool, args, <<v>>).reply = Paged(v, Linked(v), LinkNext(v))
  BY <1>1, OneOf DEF Answered, confluenceSearchCQL, Once, Fail, Give
<1>4. args \in Args /\ from \in Nat /\ C \in Nat \ {0} /\ Cursored(tool, args)
  BY <1>2, ClippedSize DEF Answered, Args, CQLFrom
<1>5. v.v = "whole"
  BY <1>2, <1>3, AnswerKinds DEF Answered, Refused
<1>6. PICK what : what = "cql" /\ what \in Listed
  BY DEF Listed
<1>7. PICK start : start = from
  OBVIOUS
<1> HIDE DEF C, from
<1>8. Filled(v, "confluence", what, start, C)
  <2>1. IsAnswer(v, Ask("confluence", what, start, C))
    BY <1>2, <1>6, <1>7 DEF Answered
  <2>2. "confluence" \in {"github", "jira", "confluence", "grafana"}
    OBVIOUS
  <2> QED BY <2>1, <2>2, <1>4, <1>5, <1>6, <1>7, PageAnswered
<1>9. /\ v.lo = start /\ v.n \in Nat /\ v.to = start + v.n
      /\ v.more \in BOOLEAN /\ v.pager = w.pager
      /\ v.more => v.n \in Nat \ {0}
  BY <1>6, <1>8 DEF Filled
<1>10. PICK r : r = Handle(tool, args, <<v>>).reply
  OBVIOUS
<1>11. r = Paged(v, v.more, LinkNext(v))
  BY <1>3, <1>5, <1>9, <1>10 DEF Linked
<1>12. /\ r.lo = v.lo /\ r.n = v.n /\ r.hasNext = v.more
       /\ r.hasNext => /\ r.next.kind = IF v.pager = "cursor" THEN "cursor" ELSE "start"
                       /\ r.next.at = v.to
  BY <1>9, <1>11, LinkedFields
<1>13. tool \notin JiraPaged
  BY DEF JiraPaged
<1>14. ASSUME NEW x \in Continuation(tool, args, r)
       PROVE  /\ v.more
              /\ v.pager = "cursor" => x = [args EXCEPT !.cursor = v.to]
              /\ v.pager # "cursor" => x = [args EXCEPT !.at = v.to]
  <2>1. r.hasNext \in BOOLEAN
    BY <1>9, <1>12
  <2> HIDE DEF tool
  <2> QED BY <2>1, <1>12, <1>13, <1>14, LinkContinued
<1>15. \A x : StartOf(tool, x) = CQLFrom(x)
  BY DEF StartOf, PagePaged
<1>16. ASSUME NEW x \in Continuation(tool, args, r)
       PROVE  x \in Args /\ Cursored(tool, x) /\ StartOf(tool, x) = v.to
  <2>1. v.to \in Nat /\ v.to # 0
    BY <1>4, <1>7, <1>9, <1>14, <1>16
  <2>2. CASE v.pager = "cursor"
    <3>1. x \in Args /\ x.cursor = v.to
      <4>1. x = [args EXCEPT !.cursor = v.to]
        BY <1>14, <1>16, <2>2
      <4> QED BY <1>4, <2>1, <4>1, Moved
    <3>2. w.pager # "start"
      BY <1>9, <2>2
    <3> QED BY <1>15, <2>1, <3>1, <3>2 DEF CQLFrom, Cursored
  <2>3. CASE v.pager # "cursor"
    <3>1. x \in Args /\ x.at = v.to /\ x.cursor = args.cursor
      <4>1. x = [args EXCEPT !.at = v.to]
        BY <1>14, <1>16, <2>3
      <4> QED BY <1>4, <2>1, <4>1, Moved
    <3>2. w.pager = "start"
      BY <1>9, <2>3, FetchAssumption
    <3>3. args.cursor = 0
      BY <1>4, <3>2 DEF Cursored
    <3> QED BY <1>15, <2>1, <3>1, <3>3 DEF CQLFrom, Cursored
  <2> QED BY <2>2, <2>3
<1>17. StartOf(tool, args) = start
  BY <1>7, <1>15 DEF from
<1> QED BY <1>9, <1>10, <1>12, <1>16, <1>17 DEF Follows

LEMMA ToldFields ==
    ASSUME NEW v, NEW hasNext \in BOOLEAN, NEW next, NEW told \in BOOLEAN
    PROVE  LET p == Paged(v, hasNext, next)
               r == [p EXCEPT !.told = told]
           IN  r.lo = p.lo /\ r.n = p.n /\ r.hasNext = p.hasNext /\ r.next = p.next
BY DEF Paged, Items, Plain

\* The handler of a listing below a page, its next link one of any kind.
ByLink(tool, what, args, got) == Children(tool, what, args, got, LinkNext)

\* The children of a page and its attachments, whose next link has a start.
LEMMA ChildrenPages ==
    ASSUME w \in Worlds, NEW args, NEW v, NEW what \in {"children", "attachments"},
           NEW tool \in {"confluence_get_page_children", "confluence_list_page_attachments"},
           Answered(tool, args, v),
           Handle(tool, args, <<>>) = ByLink(tool, what, args, <<>>),
           v.pager = "start" =>
                Handle(tool, args, <<v>>) = ByLink(tool, what, args, <<v>>)
    PROVE  Follows(tool, args, Handle(tool, args, <<v>>).reply)
<1> DEFINE size == IF args.size = 0 THEN Default[tool] ELSE args.size
<1>1. /\ args.at >= 0 /\ size \in 1..Largest[tool]
      /\ Handle(tool, args, <<>>) = Ask("confluence", what, args.at, size)
  BY DEF Answered, ByLink, Children, Once, Fail, InRange
<1>2. what \in Listed /\ what \notin {"spaces v2", "cql"}
  BY DEF Listed
<1>3. Handle(tool, args, <<v>>) = ByLink(tool, what, args, <<v>>)
  <2>1. PICK answer : v = View(Ask("confluence", what, args.at, size), answer)
    BY <1>1 DEF Answered, IsAnswer
  <2> HIDE DEF size
  <2>2. v.pager = IF what = "spaces v2" THEN "cursor"
                  ELSE IF what = "cql" THEN w.pager ELSE "start"
    BY <2>1 DEF View, Ask
  <2> QED BY <1>2, <2>2
<1>4. /\ ~Refused(v)
      /\ Handle(tool, args, <<v>>).reply =
            [Paged(v, Linked(v), LinkNext(v)) EXCEPT !.told = Linked(v)]
  BY <1>3, OneOf DEF Answered, ByLink, Children, Once, Fail, Give
<1>5. args \in Args /\ args.at \in Nat /\ size \in Nat \ {0}
  BY <1>1 DEF Answered, Args
<1> HIDE DEF size
<1>6. v.v = "whole" /\ IsAnswer(v, Ask("confluence", what, args.at, size))
  <2>1. IsAnswer(v, Ask("confluence", what, args.at, size))
    BY <1>1 DEF Answered
  <2>2. "confluence" \in {"github", "jira", "confluence", "grafana", "disk"}
    OBVIOUS
  <2>3. v.v \in {"whole", "garbled", "refused"}
    BY <2>1, <2>2, AnswerKinds
  <2> QED BY <1>4, <2>1, <2>3 DEF Answered, Refused
<1>7. Filled(v, "confluence", what, args.at, size)
  <2>1. "confluence" \in {"github", "jira", "confluence", "grafana"}
    OBVIOUS
  <2> QED BY <2>1, <1>5, <1>2, <1>6, PageAnswered
<1>8. /\ v.lo = args.at /\ v.n \in Nat /\ v.to = args.at + v.n
      /\ v.more \in BOOLEAN /\ v.pager = "start"
  BY <1>2, <1>7 DEF Filled
<1>9. PICK r : r = Handle(tool, args, <<v>>).reply
  OBVIOUS
<1>10. PICK p : p = Paged(v, v.more, LinkNext(v))
  OBVIOUS
<1>11. /\ p.lo = v.lo /\ p.n = v.n /\ p.hasNext \in BOOLEAN
       /\ p.hasNext => /\ p.next.kind = IF v.pager = "cursor" THEN "cursor" ELSE "start"
                       /\ p.next.at = v.to
  BY <1>8, <1>10, LinkedFields
<1>12. r.lo = p.lo /\ r.n = p.n /\ r.hasNext = p.hasNext /\ r.next = p.next
  <2>1. Linked(v) = v.more
    BY <1>6, <1>8 DEF Linked
  <2>2. PICK next : next = LinkNext(v)
    OBVIOUS
  <2>3. r = [Paged(v, v.more, next) EXCEPT !.told = v.more] /\ p = Paged(v, v.more, next)
    BY <1>4, <1>9, <1>10, <2>1, <2>2
  <2> QED BY <1>8, <2>3, ToldFields
<1>13. /\ r.lo = v.lo /\ r.n = v.n /\ r.hasNext \in BOOLEAN
       /\ r.hasNext => /\ r.next.kind = IF v.pager = "cursor" THEN "cursor" ELSE "start"
                       /\ r.next.at = v.to
  BY <1>11, <1>12
<1>14. tool \notin JiraPaged
  BY DEF JiraPaged
<1>15. ASSUME NEW x \in Continuation(tool, args, r)
       PROVE  x = [args EXCEPT !.at = v.to]
  BY <1>8, <1>13, <1>14, <1>15, LinkContinued
<1>16. \A x : StartOf(tool, x) = x.at /\ Cursored(tool, x)
  BY DEF StartOf, PagePaged, Cursored
<1>17. ASSUME NEW x, x = [args EXCEPT !.at = v.to]
       PROVE  x \in Args /\ StartOf(tool, x) = v.to
  <2>1. PICK to \in Nat : to = v.to
    BY <1>5, <1>8
  <2>2. x = [args EXCEPT !.at = to]
    BY <1>17, <2>1
  <2>3. x \in Args /\ x.at = to
    BY <1>5, <2>2, Moved
  <2> QED BY <1>16, <2>1, <2>3
<1> QED BY <1>8, <1>9, <1>13, <1>15, <1>16, <1>17 DEF Follows

LEMMA ConfluencePages ==
    ASSUME w \in Worlds, NEW args, NEW v,
           NEW tool \in {"confluence_list_spaces", "confluence_search_cql",
                         "confluence_get_page_children", "confluence_list_page_attachments"},
           Answered(tool, args, v)
    PROVE  Follows(tool, args, Handle(tool, args, <<v>>).reply)
<1>1. CASE tool = "confluence_list_spaces"
  BY <1>1, SpacesByCursor, SpacesByStart
<1>2. CASE tool = "confluence_search_cql"
  BY <1>2, CQLPages
<1>3. CASE tool = "confluence_get_page_children"
  <2>1. PICK what \in {"children", "attachments"} : what = "children"
    OBVIOUS
  <2>2. \A got : Handle(tool, args, got) = ByLink(tool, what, args, got)
    BY <1>3, <2>1, Dispatch DEF confluenceGetPageChildren, ByLink
  <2> QED BY <1>3, <2>1, <2>2, ChildrenPages
<1>4. CASE tool = "confluence_list_page_attachments"
  <2>1. PICK what \in {"children", "attachments"} : what = "attachments"
    OBVIOUS
  <2>2. \A got : Handle(tool, args, got) = confluenceListPageAttachments(args, got)
    BY <1>4, Dispatch
  <2>3. Handle(tool, args, <<>>) = ByLink(tool, what, args, <<>>)
    BY <1>4, <2>1, <2>2 DEF confluenceListPageAttachments, ByLink, Children, Once
  <2>4. ASSUME v.pager = "start"
        PROVE  Handle(tool, args, <<v>>) = ByLink(tool, what, args, <<v>>)
    BY <1>4, <2>1, <2>2, <2>4, OneOf DEF confluenceListPageAttachments, ByLink, Children, Once
  <2> QED BY <1>4, <2>1, <2>3, <2>4, ChildrenPages
<1> QED BY <1>1, <1>2, <1>3, <1>4

\* Every tool whose result can be continued gives its page where the call asks for it, and
\* is continued where that page ends.
LEMMA ContinuedPages ==
    ASSUME w \in Worlds, NEW args, NEW v, NEW tool \in Continued, Answered(tool, args, v)
    PROVE  Follows(tool, args, Handle(tool, args, <<v>>).reply)
<1>1. CASE tool \in JiraPaged
  BY <1>1, JiraPages
<1>2. CASE tool \in PagePaged
  BY <1>2, GitHubPages
<1>3. CASE tool = "get_pull_request_diff"
  BY <1>3, DiffChunks
<1>4. CASE tool \in {"confluence_list_spaces", "confluence_search_cql",
                     "confluence_get_page_children", "confluence_list_page_attachments"}
  BY <1>4, ConfluencePages
<1> QED BY <1>1, <1>2, <1>3, <1>4 DEF Continued

-----------------------------------------------------------------------------
(* The tools that cannot be continued                                      *)

\* A handler's next move is no reply with a next page, or one with a page number.
NoMore(move) ==
    move.do = "give" => ~move.reply.hasNext \/ move.reply.next.kind = "page"

LEMMA ByPageEnds ==
    ASSUME NEW tool, NEW what, NEW args, NEW got
    PROVE  NoMore(ByPage(tool, what, args, got))
<1>1. CASE Full(tool, got[1], args)
  BY <1>1 DEF ByPage, Once, Ask, Fail, Give, Paged, Items, Plain, NoMore
<1>2. CASE ~Full(tool, got[1], args)
  BY <1>2 DEF ByPage, Once, Ask, Fail, Give, Paged, Items, Plain, NoMore
<1> QED BY <1>1, <1>2

LEMMA GitHubEnds ==
    ASSUME NEW args, NEW got
    PROVE  /\ NoMore(getPullRequestDetails(args, got))
           /\ NoMore(getPullRequestSummary(args, got))
           /\ NoMore(getPullRequestFileDiff(args, got))
           /\ NoMore(getFileAtRef(args, got))
           /\ NoMore(preparePullRequestReviewBundle(args, got))
           /\ NoMore(getPullRequestChecks(args, got))
           /\ NoMore(githubListWorkflowRuns(args, got))
           /\ NoMore(githubListWorkflowJobs(args, got))
           /\ NoMore(githubDownloadJobLogs(args, got))
           /\ NoMore(fetchCompletePRDiff(args, got))
           /\ NoMore(fetchCompletePRFiles(args, got))
<1> USE DEF One, Ask, Once, Fail, Give, Items, Plain, NoMore
<1>1. NoMore(getPullRequestDetails(args, got))
  BY DEF getPullRequestDetails
<1>2. NoMore(getPullRequestSummary(args, got))
  BY DEF getPullRequestSummary, getPullRequestDetails, FilesLoop, ItemsOf
<1>3. NoMore(getPullRequestFileDiff(args, got))
  BY DEF getPullRequestFileDiff
<1>4. NoMore(getFileAtRef(args, got))
  BY DEF getFileAtRef
<1>5. NoMore(preparePullRequestReviewBundle(args, got))
  BY DEF preparePullRequestReviewBundle, BundleReply
<1>6. NoMore(getPullRequestChecks(args, got))
  BY DEF getPullRequestChecks, getPullRequestDetails
<1>7. NoMore(githubListWorkflowRuns(args, got))
  BY DEF githubListWorkflowRuns, PageOf, NextPage, Paged
<1>8. NoMore(githubListWorkflowJobs(args, got))
  BY DEF githubListWorkflowJobs, PageOf, NextPage, Paged
<1>9. NoMore(githubDownloadJobLogs(args, got))
  BY DEF githubDownloadJobLogs
<1>10. NoMore(fetchCompletePRDiff(args, got))
  BY DEF fetchCompletePRDiff
<1>11. NoMore(fetchCompletePRFiles(args, got))
  BY DEF fetchCompletePRFiles, ItemsOf
<1> HIDE DEF One, Ask, Once, Fail, Give, Items, Plain, NoMore
<1> QED BY <1>1, <1>2, <1>3, <1>4, <1>5, <1>6, <1>7, <1>8, <1>9, <1>10, <1>11

LEMMA JiraEnds ==
    ASSUME NEW args, NEW got
    PROVE  /\ NoMore(jiraGetMyself(args, got))
           /\ NoMore(jiraGetIssue(args, got))
           /\ NoMore(jiraGetIssueBundle(args, got))
           /\ NoMore(jiraGetIssueTransitions(args, got))
           /\ NoMore(jiraExportTasks(args, got))
           /\ NoMore(jiraAddComment(args, got))
           /\ NoMore(jiraTransitionIssue(args, got))
           /\ NoMore(jiraCreateIssue(args, got))
           /\ NoMore(jiraUpdateIssue(args, got))
           /\ NoMore(jiraAddAttachment(args, got))
<1> USE DEF One, Ask, Once, Fail, Give, Items, Plain, NoMore
<1>1. NoMore(jiraGetMyself(args, got))
  BY DEF jiraGetMyself, Single
<1>2. NoMore(jiraGetIssue(args, got))
  BY DEF jiraGetIssue, Single
<1>3. NoMore(jiraGetIssueBundle(args, got))
  BY DEF jiraGetIssueBundle, Single, WindowOf, Windowed
<1>4. NoMore(jiraGetIssueTransitions(args, got))
  BY DEF jiraGetIssueTransitions, Single
<1>5. NoMore(jiraExportTasks(args, got))
  BY DEF jiraExportTasks, ExportReply
<1>6. NoMore(jiraAddComment(args, got))
  BY DEF jiraAddComment, Single
<1>7. NoMore(jiraTransitionIssue(args, got))
  BY DEF jiraTransitionIssue, Single
<1>8. NoMore(jiraCreateIssue(args, got))
  BY DEF jiraCreateIssue, Single
<1>9. NoMore(jiraUpdateIssue(args, got))
  BY DEF jiraUpdateIssue, Single
<1>10. NoMore(jiraAddAttachment(args, got))
  BY DEF jiraAddAttachment
<1> HIDE DEF One, Ask, Once, Fail, Give, Items, Plain, NoMore
<1> QED BY <1>1, <1>2, <1>3, <1>4, <1>5, <1>6, <1>7, <1>8, <1>9, <1>10

LEMMA ConfluenceEnds ==
    ASSUME NEW args, NEW got
    PROVE  /\ NoMore(confluenceGetPage(args, got))
           /\ NoMore(confluenceGetPageByTitle(args, got))
           /\ NoMore(confluenceDownloadAttachment(args, got))
<1> USE DEF One, Ask, Once, Fail, Give, Items, Plain, NoMore
<1>1. NoMore(confluenceGetPage(args, got))
  BY DEF confluenceGetPage
<1>2. NoMore(confluenceGetPageByTitle(args, got))
  BY DEF confluenceGetPageByTitle
<1>3. NoMore(confluenceDownloadAttachment(args, got))
  BY DEF confluenceDownloadAttachment
<1> HIDE DEF One, Ask, Once, Fail, Give, Items, Plain, NoMore
<1> QED BY <1>1, <1>2, <1>3

LEMMA GrafanaEnds ==
    ASSUME NEW args, NEW got
    PROVE  /\ NoMore(grafanaHealth(args, got))
           /\ NoMore(grafanaGetCurrentUser(args, got))
           /\ NoMore(grafanaSearch(args, got))
           /\ NoMore(grafanaGetDashboard(args, got))
           /\ NoMore(grafanaGetDashboardSummary(args, got))
           /\ NoMore(grafanaListFolders(args, got))
           /\ NoMore(grafanaGetFolder(args, got))
           /\ NoMore(grafanaListDatasources(args, got))
           /\ NoMore(grafanaGetDatasource(args, got))
           /\ NoMore(grafanaQueryAnnotations(args, got))
           /\ NoMore(grafanaListAnnotationTags(args, got))
           /\ NoMore(grafanaListAlerts(args, got))
           /\ NoMore(grafanaGetAlert(args, got))
           /\ NoMore(grafanaListAlertRules(args, got))
           /\ NoMore(grafanaGetAlertRule(args, got))
<1> USE DEF One, Ask, Once, Fail, Give, Items, Plain, NoMore
<1>1. NoMore(grafanaHealth(args, got))
  BY DEF grafanaHealth, Record
<1>2. NoMore(grafanaGetCurrentUser(args, got))
  BY DEF grafanaGetCurrentUser, Record
<1>3. NoMore(grafanaSearch(args, got))
  BY ByPageEnds DEF grafanaSearch
<1>4. NoMore(grafanaGetDashboard(args, got))
  BY DEF grafanaGetDashboard, Record
<1>5. NoMore(grafanaGetDashboardSummary(args, got))
  BY DEF grafanaGetDashboardSummary
<1>6. NoMore(grafanaListFolders(args, got))
  BY ByPageEnds DEF grafanaListFolders
<1>7. NoMore(grafanaGetFolder(args, got))
  BY DEF grafanaGetFolder, Record
<1>8. NoMore(grafanaListDatasources(args, got))
  BY DEF grafanaListDatasources, Record
<1>9. NoMore(grafanaGetDatasource(args, got))
  BY DEF grafanaGetDatasource, Record
<1>10. NoMore(grafanaQueryAnnotations(args, got))
  BY DEF grafanaQueryAnnotations, FirstPage
<1>11. NoMore(grafanaListAnnotationTags(args, got))
  BY DEF grafanaListAnnotationTags, FirstPage
<1>12. NoMore(grafanaListAlerts(args, got))
  BY DEF grafanaListAlerts, FirstPage
<1>13. NoMore(grafanaGetAlert(args, got))
  BY DEF grafanaGetAlert, Record
<1>14. NoMore(grafanaListAlertRules(args, got))
  BY DEF grafanaListAlertRules, Record
<1>15. NoMore(grafanaGetAlertRule(args, got))
  BY DEF grafanaGetAlertRule, Record
<1> HIDE DEF One, Ask, Once, Fail, Give, Items, Plain, NoMore
<1> QED BY <1>1, <1>2, <1>3, <1>4, <1>5, <1>6, <1>7, <1>8, <1>9, <1>10, <1>11, <1>12,
           <1>13, <1>14, <1>15

\* A tool whose result cannot be continued: what it ends in is the last of the step.
LEMMA NotContinued ==
    ASSUME NEW args, NEW got, NEW tool, tool \notin Continued,
           Handle(tool, args, got).do = "give"
    PROVE  Continuation(tool, args, Handle(tool, args, got).reply) = {}
<1>1. NoMore(Fail)
  BY DEF NoMore, Fail
<1>2. tool \notin JiraPaged /\ tool \notin PagePaged /\ tool \notin
        {"get_pull_request_diff", "confluence_list_spaces", "confluence_search_cql",
         "confluence_get_page_children", "confluence_list_page_attachments"}
  BY DEF Continued
<1>3. NoMore(Handle(tool, args, got))
  BY <1>1, <1>2, GitHubEnds, JiraEnds, ConfluenceEnds, GrafanaEnds
     DEF Handle, JiraPaged, PagePaged
<1>4. PICK r : r = Handle(tool, args, got).reply
  OBVIOUS
<1>5. ~r.hasNext \/ r.next.kind = "page"
  BY <1>3, <1>4 DEF NoMore
<1> QED BY <1>2, <1>4, <1>5 DEF Continuation

\* The handlers of the others send one request and end.
LEMMA OneRequest ==
    ASSUME NEW args, NEW v, NEW tool \in Continued
    PROVE  Handle(tool, args, <<>>).do # "give" /\ Handle(tool, args, <<v>>).do # "ask"
<1> USE OneOf DEF Once, Ask, One, Fail, Give
<1>1. CASE tool = "list_pull_request_files"
  BY <1>1, Dispatch DEF listPullRequestFiles, PageOf
<1>2. CASE tool = "list_pull_request_commits"
  BY <1>2, Dispatch DEF listPullRequestCommits, PageOf
<1>3. CASE tool = "get_pull_request_diff"
  BY <1>3, Dispatch DEF getPullRequestDiff
<1>4. CASE tool = "jira_search_issues"
  BY <1>4, Dispatch DEF jiraSearchIssues, WindowOf
<1>5. CASE tool = "jira_get_issue_comments"
  BY <1>5, Dispatch DEF jiraGetIssueComments, WindowOf
<1>6. CASE tool = "jira_list_projects"
  <2>1. \A got : Handle(tool, args, got) = jiraListProjects(args, got)
    BY <1>6, Dispatch
  <2>2. CASE ApiVersion(args) = 3
    BY <2>1, <2>2 DEF jiraListProjects, WindowOf
  <2>3. CASE ApiVersion(args) # 3
    <3>1. PICK what, ok : what = "all projects" /\ ok \in BOOLEAN /\ ok
      OBVIOUS
    <3>2. \A got : Handle(tool, args, got) = Single(what, ok, args, got)
      BY <2>1, <2>3, <3>1 DEF jiraListProjects
    <3> QED BY <3>2 DEF Single
  <2> QED BY <2>2, <2>3
<1>7. CASE tool = "confluence_list_spaces"
  <2>1. confluenceListSpaces(args, <<>>).do # "give"
    BY DEF confluenceListSpaces
  <2>2. confluenceListSpaces(args, <<v>>).do # "ask"
    BY DEF confluenceListSpaces
  <2> QED BY <1>7, <2>1, <2>2, Dispatch
<1>8. CASE tool = "confluence_search_cql"
  BY <1>8, Dispatch DEF confluenceSearchCQL
<1>9. CASE tool = "confluence_get_page_children"
  BY <1>9, Dispatch DEF confluenceGetPageChildren, Children
<1>10. CASE tool = "confluence_list_page_attachments"
  BY <1>10, Dispatch DEF confluenceListPageAttachments, Children
<1> QED BY <1>1, <1>2, <1>3, <1>4, <1>5, <1>6, <1>7, <1>8, <1>9, <1>10
        DEF Continued, JiraPaged, PagePaged

-----------------------------------------------------------------------------
(* The steps                                                               *)

LEMMA OwnElements ==
    ASSUME NEW S, NEW s \in Seq(S), NEW e
    PROVE  /\ Append(s, e) \in Seq({Append(s, e)[k] : k \in DOMAIN Append(s, e)})
           /\ Len(Append(s, e)) = Len(s) + 1 /\ Append(s, e)[Len(s) + 1] = e
           /\ \A k \in 1..Len(s) : Append(s, e)[k] = s[k]
<1>1. PICK r, T : r = Append(s, e) /\ T = S \cup {e}
  OBVIOUS
<1>2. r \in Seq(T) /\ Len(r) = Len(s) + 1 /\ r[Len(s) + 1] = e
      /\ \A k \in 1..Len(s) : r[k] = s[k]
  BY <1>1
<1>3. r \in Seq({r[k] : k \in DOMAIN r})
  BY <1>2
<1> QED BY <1>1, <1>2, <1>3

\* What an answer is depends on the world alone.
LEMMA SameView ==
    ASSUME w' = w, NEW request, NEW answer
    PROVE  View(request, answer)' = View(request, answer)
BY DEF View, Do

LEMMA SameAnswer ==
    ASSUME w' = w, NEW request, NEW answer \in Answers(request.client),
           NEW v, v = View(request, answer)
    PROVE  IsAnswer(v, request)'
BY SameView DEF IsAnswer

LEMMA PagingStart == Init => PagingInv
<1>1. (\A S : <<>> \in Seq(S)) /\ Len(<<>>) = 0
  OBVIOUS
<1>2. SUFFICES ASSUME Init PROVE PagingInv
  OBVIOUS
<1>3. phase = "idle" /\ replies = <<>> /\ w \in Worlds /\ garbled \in BOOLEAN
  BY <1>2 DEF Init
<1>4. Asked /\ OneAnswer /\ Seamless /\ PagesInOrder
  BY <1>1, <1>3 DEF Asked, OneAnswer, Seamless, PagesInOrder
<1> QED BY <1>1, <1>3, <1>4 DEF PagingInv

LEMMA AnswerKeepsPaging ==
    ASSUME PagingInv, NEW answer, Answer(answer)
    PROVE  PagingInv'
<1>1. /\ phase = "run" /\ Outcome.do = "ask" /\ answer \in Answers(Outcome.client)
      /\ rs' = Append(rs, View(Outcome, answer))
      /\ garbled' = (garbled \/ View(Outcome, answer).v = "garbled")
      /\ w' = w /\ phase' = phase /\ t' = t /\ a' = a /\ replies' = replies
  BY DEF Answer
<1>2. garbled' \in BOOLEAN /\ (garbled => garbled')
  BY <1>1 DEF PagingInv
<1>3. Asked' /\ Seamless' /\ PagesInOrder'
  BY <1>1, <1>2 DEF PagingInv, Asked, Cursored, Seamless, StartOf, PagesInOrder
<1>4. OneAnswer'
  <2>1. SUFFICES ASSUME t \in Continued
                 PROVE  /\ rs' = <<rs'[1]>> /\ (rs'[1].v = "garbled" => garbled')
                        /\ Handle(t, a, <<>>).do = "ask"
                        /\ IsAnswer(rs[1], Handle(t, a, <<>>))'
    BY <1>1 DEF OneAnswer
  <2>2. rs = <<>>
    <3>1. CASE rs # <<>>
      <4>1. rs = <<rs[1]>>
        BY <1>1, <2>1, <3>1 DEF PagingInv, OneAnswer
      <4>2. Outcome = Handle(t, a, <<rs[1]>>)
        BY <4>1 DEF Outcome
      <4> QED BY <1>1, <2>1, <4>2, OneRequest
    <3> QED BY <3>1
  <2>3. PICK v : v = View(Outcome, answer)
    OBVIOUS
  <2>4. rs' = <<v>> /\ rs'[1] = v
    BY <1>1, <2>2, <2>3
  <2>5. Outcome = Handle(t, a, <<>>)
    BY <2>2 DEF Outcome
  <2>6. PICK request : request = Handle(t, a, <<>>)
    OBVIOUS
  <2>7. IsAnswer(v, request)'
    BY <1>1, <2>3, <2>5, <2>6, SameAnswer
  <2>8. rs'[1] = v /\ Handle(t, a, <<>>)' = request
    BY <1>1, <2>4, <2>6
  <2> QED BY <1>1, <2>3, <2>4, <2>5, <2>6, <2>7, <2>8
<1> QED BY <1>1, <1>2, <1>3, <1>4 DEF PagingInv

LEMMA ReturnKeepsPaging ==
    ASSUME PagingInv, Return
    PROVE  PagingInv'
<1> DEFINE r    == Outcome.reply
           next == Continuation(t, a, r)
<1>1. /\ phase = "run" /\ Outcome.do = "give" /\ replies' = Append(replies, r)
      /\ w' = w /\ t' = t /\ garbled' = garbled
      /\ \/ phase' = "run" /\ a' \in next /\ rs' = <<>>
         \/ phase' = "done"
  BY DEF Return
<1>2. PICK S : replies \in Seq(S)
  BY DEF PagingInv
<1>3. /\ replies' \in Seq({replies[k] : k \in DOMAIN replies})'
      /\ Len(replies') = Len(replies) + 1 /\ Len(replies) \in Nat
      /\ replies'[Len(replies')] = r
      /\ \A k \in 1..Len(replies) : replies'[k] = replies[k]
  BY <1>1, <1>2, OwnElements
<1>4. ASSUME ~garbled
      PROVE  /\ replies # <<>> => r.lo = replies[Len(replies)].lo + replies[Len(replies)].n
             /\ \A x \in next : t \in Continued /\ x \in Args /\ Cursored(t, x)
                                /\ StartOf(t, x) = r.lo + r.n
  <2>1. CASE t \notin Continued
    <3>1. replies = <<>>
      BY <1>1, <1>4, <2>1 DEF PagingInv, Seamless
    <3>2. next = {}
      BY <1>1, <2>1, NotContinued DEF Outcome
    <3> QED BY <3>1, <3>2
  <2>2. CASE t \in Continued
    <3>1. rs # <<>>
      BY <1>1, <2>2, OneRequest DEF Outcome
    <3>2. PICK v : v = rs[1]
      OBVIOUS
    <3>3. /\ rs = <<v>> /\ (v.v = "garbled" => garbled)
          /\ Handle(t, a, <<>>).do = "ask" /\ IsAnswer(v, Handle(t, a, <<>>))
      BY <1>1, <2>2, <3>1, <3>2 DEF PagingInv, OneAnswer
    <3>4. Outcome = Handle(t, a, <<v>>)
      BY <3>3 DEF Outcome
    <3>5. /\ w \in Worlds /\ a \in Args /\ Cursored(t, a)
          /\ Default[t] \in Nat \ {0} /\ Largest[t] \in Nat \ {0}
      BY <1>1, <1>4, <2>2, PageAssumption DEF PagingInv, Asked, Sizing
    <3>6. Answered(t, a, v)
      BY <1>1, <1>4, <3>3, <3>4, <3>5 DEF Answered
    <3>7. Follows(t, a, r)
      BY <2>2, <3>4, <3>5, <3>6, ContinuedPages
    <3>8. replies # <<>> => StartOf(t, a) = replies[Len(replies)].lo + replies[Len(replies)].n
      BY <1>1, <1>4 DEF PagingInv, Seamless
    <3> HIDE DEF r
    <3> QED BY <2>2, <3>7, <3>8 DEF Follows
  <2> QED BY <2>1, <2>2
<1> HIDE DEF r, next
<1>5. PagesInOrder'
  <2>1. SUFFICES ASSUME ~garbled, NEW k \in 2..Len(replies')
                 PROVE  replies'[k].lo = replies'[k - 1].lo + replies'[k - 1].n
    BY <1>1 DEF PagesInOrder
  <2>2. CASE k \in 2..Len(replies)
    <3>1. replies'[k] = replies[k] /\ replies'[k - 1] = replies[k - 1]
      BY <1>3, <2>2
    <3> QED BY <2>1, <2>2, <3>1 DEF PagingInv, PagesInOrder
  <2>3. CASE k = Len(replies')
    <3>1. Len(replies) \in 1..Len(replies) /\ k - 1 = Len(replies) /\ replies # <<>>
      BY <1>2, <1>3, <2>1, <2>3
    <3>2. replies'[k] = r /\ replies'[k - 1] = replies[Len(replies)]
      BY <1>3, <2>3, <3>1
    <3> QED BY <1>4, <2>1, <3>1, <3>2
  <2> QED BY <1>3, <2>1, <2>2, <2>3
<1>6. Asked'
  <2>1. w' \in Worlds /\ \E c \in Calls : c.tool = t'
    BY <1>1 DEF PagingInv, Asked
  <2>2. ASSUME phase' = "run", ~garbled'
        PROVE  a' \in Args /\ Cursored(t, a)'
    BY <1>1, <1>4, <2>2 DEF Cursored
  <2> QED BY <2>1, <2>2 DEF Asked
<1>7. OneAnswer'
  BY <1>1 DEF OneAnswer
<1>8. Seamless'
  <2>1. ASSUME phase' = "run", ~garbled'
        PROVE  t \in Continued /\ StartOf(t, a)' = r.lo + r.n
    BY <1>1, <1>4, <2>1 DEF StartOf
  <2> QED BY <1>1, <1>3, <2>1 DEF Seamless
<1> QED BY <1>1, <1>3, <1>5, <1>6, <1>7, <1>8 DEF PagingInv

LEMMA PagingStep == PagingInv /\ [Next]_vars => PagingInv'
<1>1. SUFFICES ASSUME PagingInv, [Next]_vars
               PROVE  PagingInv'
  OBVIOUS
<1>2. ASSUME NEW c \in Calls, Call(c)
      PROVE  PagingInv'
  <2>1. /\ phase' = "run" /\ t' = c.tool /\ a' = c.args /\ rs' = <<>> /\ w' = w
        /\ replies = <<>> /\ replies' = <<>> /\ garbled' = garbled
    BY <1>1, <1>2 DEF Call, PagingInv
  <2>2. c.args \in Args /\ (w.pager = "start" => c.args.cursor = 0)
    BY <1>1, FetchAssumption DEF PagingInv, Asked
  <2>3. Asked'
    BY <1>1, <2>1, <2>2 DEF PagingInv, Asked, Cursored
  <2> QED BY <1>1, <2>1, <2>3 DEF PagingInv, OneAnswer, Seamless, PagesInOrder
<1>3. ASSUME NEW answer, Answer(answer)
      PROVE  PagingInv'
  BY <1>1, <1>3, AnswerKeepsPaging
<1>4. CASE Return
  BY <1>1, <1>4, ReturnKeepsPaging
<1>5. CASE ReturnError
  BY <1>1, <1>5 DEF ReturnError, PagingInv, Asked, OneAnswer, Seamless, PagesInOrder
<1>6. CASE NextStep
  <2>1. phase' = "idle" /\ replies' = <<>> /\ w' = w /\ garbled' \in BOOLEAN
    BY <1>6 DEF NextStep
  <2>2. (\A S : <<>> \in Seq(S)) /\ Len(<<>>) = 0
    OBVIOUS
  <2>3. Asked' /\ OneAnswer' /\ Seamless' /\ PagesInOrder'
    BY <1>1, <2>1, <2>2 DEF PagingInv, Asked, OneAnswer, Seamless, PagesInOrder
  <2> QED BY <2>1, <2>2, <2>3 DEF PagingInv
<1>7. CASE UNCHANGED vars
  <2>1. /\ w' = w /\ phase' = phase /\ t' = t /\ a' = a /\ rs' = rs
        /\ replies' = replies /\ garbled' = garbled
    BY <1>7 DEF vars
  <2>2. Asked' /\ Seamless' /\ PagesInOrder'
    BY <1>1, <2>1 DEF PagingInv, Asked, Cursored, Seamless, StartOf, PagesInOrder
  <2>3. OneAnswer'
    <3>1. PICK v, request : v = rs[1] /\ request = Handle(t, a, <<>>)
      OBVIOUS
    <3>2. v = rs'[1] /\ request = Handle(t, a, <<>>)'
      BY <2>1, <3>1
    <3>3. IsAnswer(v, request) => IsAnswer(v, request)'
      <4>1. SUFFICES ASSUME NEW answer \in Answers(request.client), v = View(request, answer)
                     PROVE  IsAnswer(v, request)'
        BY DEF IsAnswer
      <4> QED BY <2>1, <4>1, SameAnswer
    <3> QED BY <1>1, <2>1, <3>1, <3>2, <3>3 DEF PagingInv, OneAnswer
  <2> QED BY <1>1, <2>1, <2>2, <2>3 DEF PagingInv
<1> QED BY <1>1, <1>2, <1>3, <1>4, <1>5, <1>6, <1>7 DEF Next

\* However the services answer, short of a garbled answer, every further page of a step
\* starts where the one before it ended: nothing is left out between two pages and
\* nothing comes twice (createContinuationStep with the handlers' paging fields).
THEOREM PagesFollow == Spec => []PagesInOrder
<1>1. PagingInv => PagesInOrder
  BY DEF PagingInv
<1> QED BY <1>1, PagingStart, PagingStep, PTL DEF Spec
=============================================================================
