-------------------------- MODULE ConfluenceTools --------------------------
(***************************************************************************)
(* The Confluence tools (internal/tools/confluence.go,                     *)
(* confluence_extra.go), one operator per handler.                         *)
(***************************************************************************)
EXTENDS HTTPCalls

newConfluenceClient(a) == ResolveConfig(a.site)

\* confluenceClient.do: redirects are not followed and their status is no 2xx; pages are
\* errors; an error while the body is read is dropped.
ConfluenceDo(answer) ==
    CASE answer = "whole" -> "whole"
      [] answer = "cut"   -> "garbled"
      [] OTHER            -> "refused"

\* parseNextCursorFromRelative: a next link has a cursor, else a start.
LinkNext(v) ==
    [kind |-> IF v.pager = "cursor" THEN "cursor" ELSE "start", at |-> v.to]

\* The next link is in the body and lost with it.
Linked(v) == v.v = "whole" /\ v.more

\* The spaces' next link: version 2 wants a cursor and also looks into the Link header,
\* which survives; version 1 wants a start.
NextCursor(v) == v.pager = "cursor" /\ v.more
NextStart(v) == v.pager = "start" /\ Linked(v)

InRange(a) == a.at >= 0

confluenceListSpaces(a, rs) ==
    LET t == "confluence_list_spaces"
        ok == a.fit /\ InRange(a) /\ newConfluenceClient(a)
        bridge == BaseOf(a.site) = "bridge"
    IN  IF OnCloud(a.site) /\ ~bridge /\ "v1" \notin a.opts
        THEN Once(ok, Ask("confluence", "spaces v2", a.cursor, Clipped(t, a)), rs,
                  LAMBDA v : Paged(v, NextCursor(v), LinkNext(v)))
        ELSE Once(ok, Ask("confluence", "spaces", a.at, Clipped(t, a)), rs,
                  LAMBDA v : Paged(v, NextStart(v), LinkNext(v)))

\* A body format other than storage, view and export_view is an error.
confluenceGetPage(a, rs) ==
    Once(a.fit /\ newConfluenceClient(a) /\ "bad format" \notin a.opts,
         One("confluence", "page"), rs, LAMBDA v : Items(v))

confluenceGetPageByTitle(a, rs) ==
    IF rs # <<>> /\ rs[1].n = 0 THEN Fail
    ELSE Once(a.fit /\ newConfluenceClient(a) /\ "bad format" \notin a.opts,
              Ask("confluence", "by title", 0, Clipped("confluence_get_page_by_title", a)), rs,
              LAMBDA v : Items(v))

\* Mutant: the start of a call wins over its cursor.
CQLFromStart(a) == IF a.at > 0 THEN a.at ELSE a.cursor

\* The cursor wins over the start.
CQLFrom(a) == IF a.cursor # 0 THEN a.cursor ELSE a.at

confluenceSearchCQL(a, rs) ==
    Once(a.fit /\ InRange(a) /\ newConfluenceClient(a),
         Ask("confluence", "cql", CQLFrom(a), Clipped("confluence_search_cql", a)), rs,
         LAMBDA v : Paged(v, Linked(v), LinkNext(v)))

\* These two refuse a limit out of range where the others clip it.
Children(t, what, a, rs, Next(_)) ==
    LET size == IF a.size = 0 THEN Default[t] ELSE a.size
    IN  Once(a.fit /\ InRange(a) /\ size \in 1..Largest[t] /\ newConfluenceClient(a),
             Ask("confluence", what, a.at, size), rs,
             LAMBDA v : [Paged(v, Linked(v), Next(v)) EXCEPT !.told = Linked(v)])

confluenceGetPageChildren(a, rs) ==
    Children("confluence_get_page_children", "children", a, rs, LinkNext)

\* Only a start is looked for.
confluenceListPageAttachments(a, rs) ==
    Children("confluence_list_page_attachments", "attachments", a, rs,
             LAMBDA v : IF v.pager = "start" THEN LinkNext(v) ELSE NoNext)

\* A request of its own, to the configured host only; an error while the body is read is
\* an error here, unless the response cache has dropped it, and a login page is a file.
ConfluenceDownload(answer, cached) ==
    IF answer = "html" \/ (answer = "cut" /\ cached) THEN "garbled"
    ELSE IF answer = "whole" THEN "whole" ELSE "refused"

confluenceDownloadAttachment(a, rs) ==
    LET got == Once(a.fit /\ newConfluenceClient(a) /\ "other host" \notin a.opts,
                    One("confluence", "attachment"), rs, LAMBDA v : Items(v))
    IN  IF got.do # "give" THEN got
        ELSE Once(TRUE, One("disk", "store"), Tail(rs), LAMBDA v : got.reply)
=============================================================================
