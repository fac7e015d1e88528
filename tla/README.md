# mcp-lens in TLA+

mcp-lens is an MCP server that sits between a client and one upstream MCP server. It
hides all tools behind a single one, `query`: a request is turned into a plan of tool
calls (by given steps, by a discovery fast path or by a planner model), the plan is checked
against a read-only policy and executed. This directory holds TLA+ modules of its
components, the TLC configurations that check them and TLAPS proofs about them.

    tlc -workers 2 -config ProxySafety.cfg MCProxy.tla
    tlapm ProxyProofs.tla

## 1. The system

| component | source | state it keeps | operations |
|---|---|---|---|
| server session | `cmd/proxy/main.go`, `internal/server`, `pkg/mcp` | stdin/stdout transport, context | start-up, sequential request loop, resources |
| upstream proxy | `internal/proxy` | child process, `pending` table, `nextID`, `initialized` | Initialize, ListTools, CallTool, Stop, reader goroutine |
| tool catalog | `internal/registry` | tools, active set, summaries, categories | LoadTools, Search, Activate, ListActive |
| query router | `internal/tools/router.go`, `internal/router` | none between queries | runRouter, ValidatePlan, executePlan |
| artifact store | `internal/artifacts`, `artifacts_tools.go` | files, index by content hash | StoreBytes, MaybeStore, List, Read, the artifact tools, resources/list and resources/read |
| HTTP cache | `internal/httpcache` | LRU list and map of responses | RoundTrip (Get, Put, Touch) |
| dynamic tools | `internal/tool` | SQLite tables, TTL cache | Register, Get, Update, Delete, Rollback |
| native executors | `internal/executor`, `native` | one JavaScript runtime, status | Execute, StartRuntime, StopRuntime |
| Docker runtimes | `internal/executor/docker` | life cycle per language, warm pool | Start, Execute, Stop, Cleanup |
| API discovery | `internal/discovery` | result cache | DiscoverAPI, strategies |
| fetch tools | `internal/tools` (GitHub, Jira, Confluence, Grafana) | clients, rate limit, exported files | some fifty handlers: single records, pages, diff chunks, bundles, exports |
| configuration | `internal/presets` | none | precedence of environment, file, preset, default |

How they interact. The server reads one request at a time and calls the router. The router
reads the catalog, calls the planner model, and for each step either the handler (fetch
tools, executors, discovery, dynamic tools) or the proxy; steps of a parallel group call the
handler concurrently. Fetch tools share an HTTP client whose transport is the HTTP cache;
large results go to the artifact store, which the server also exposes as resources. The
proxy owns the one child process.

What is hard, and what makes each component correct:

- proxy: answers out of order, late, twice or never; racing first callers; upstream's death.
  A caller gets its own answer, nothing leaks from the table, one handshake comes first.
- router: goroutines of a group, steps appended to the list being walked, failing steps.
  Results in plan order, only validated steps, complete pages, every artifact listed.
- dynamic tools: cache against database, locks taken twice in one operation, crashes. No
  stale answer, an append-only history.
- HTTP cache: overlapping round trips, a 304 for an entry that has been replaced.
- artifact store: files written in place outside the lock, an index that a restart loses.
- Docker runtimes: a start that goes on after its caller has returned, failures of each call.
  Code keeps its container, no container without an owner.
- executors: a shared runtime, timeouts that race with completion.
- server: plans whose steps share the store, a kill at any moment. What a client has been
  told of an artifact stays true.
- fetch tools: every service pages in its own way, lowers page sizes, refuses, cuts answers
  short or answers with a login page. Pages without gap or repeat, silence only at the end,
  `complete` only for everything, no failure passed over.

`PROJECT.json` lists every hazard at its line with the properties that would catch it.

## 2. Modules

**Proxy** (`internal/proxy/proxy.go`). One process per caller, with `pc` naming the places
where the code can be interrupted: waiting for `initMu` (`lock`), before the table entry
(`register`), before the write to the pipe (`write`), in `call`'s select (`wait`), before its
deferred delete (`leave`), before the notification (`notify`). `pending` and `slot` are the table and the
one-slot channels, `reader` is the `readResponses` goroutine, `stdin` and `stdout` are the
pipes. Upstream is the environment: it reads, answers any request in any order and up to
`MaxAnswers` times, sends requests of its own, prints noise and may die. Every exported
operation begins with `Initialize`, so `Begin` starts a caller there. `stage` says
which request the caller has under way; as history, an answer carries the method it is an answer to, so that
`ReplyIsOwn` can tell an answer to this request from one that only has its id.

**Router** (`internal/tools/router.go`, `internal/router`). `Receive` is the head of
`runRouter` with its checks and the choice of where the plan comes from; `ModelPlan` and
`ModelFails` are the planner model; `Validate` is `ValidatePlan` and the dry run; `Dispatch`,
`StartStep`, `FinishStep`, `Collect` and `Complete` are `executePlan`: a lone step is a batch
of one. Tool results are reduced to success, an announced page and whether they are
large enough for the artifact store. A step carries, as history, the planned step it
continues and its page. Of output shaping only the effect on the paging fields is kept
(`cut`); arguments are an object that fits the tool's schema, one that does not, null, or something else.

**ToolRegistry** (`internal/tool/registry.go`, `cache.go`, `rollback_tool`). The lock, the
cache's entries, their order of expiry and which are still fresh, the two tables as one row
with its history. A reader goes lookup, query, fill; a writer goes commit, invalidate;
`ChoosePrevious` is the read half of `rollback_tool`. `Restart` is a crash at any moment
followed by `loadCache`. **VersionedTools** is the specification it implements: one step per
operation, no cache, no lock, no crash.

**HTTPCache** (`internal/httpcache`). A round trip is three steps, because the cache's mutex is
not held while the origin is asked: `Begin` (`Get` and, when the entry is fresh, the answer),
`Respond` or `Unreachable`, and `Store` (`Put`, or `Touch` after a 304). The list, the map and
the entries' age are kept apart as in the code; `Expire` is the passing of time. The origin
is the environment: its content is a version number, it may send an ETag, none, or an error
page. `others` (the keys used since a key's last use), `raced`, `answer` and a round trip's
`since` are history.

**DockerRuntimes** (`internal/executor/docker`, and the tools above it in
`internal/tools/builtin_execution.go`). A lifecycle is the goroutine that `Manager.Start`
leaves behind: `Create`, then `StartContainer`, each of which may fail or lose its context.
`Start` locks, inspects, stops what is stale and spawns; the three cases of its `select` are
`StartEnds`, `StartTimesOut` (two seconds) and `StartCancelled`. `Status` and `Execute` are
execute_code, which holds the read lock until `CodeEnds`. The lock is derived from what the
callers do: a waiting Start has it for writing, running code for reading. `trouble` is history.
**RuntimeTable** is the specification it implements: a table with at most one container for each
language, which a container enters once at most and does not leave while code runs in it, with
no Docker, no lock and no time.

**HTTPCalls**, **GitHubTools**, **JiraTools**, **ConfluenceTools**, **GrafanaTools** and
**JiraExport** are the handlers of the fetch tools, as pure operators: a handler is given the
call's arguments and the answers it has had so far, and says what it does next (`Ask` one more
request, `Fail`, or `Give` a reply). A handler that calls handlers (the review bundle, the
checks, the export) is composed of their operators in the same way. A reply keeps what its
paging fields, flags and lists say, not the items. `HTTPCalls` has what they share: the choice
of site and credentials, page sizes, requests. Each client's `do` is an operator from what the
service sent (`whole`, no connection, an error status, a body cut short, a page of HTML, a
redirect) to what the handler sees (`whole`, `refused`, `garbled`). **FetchTools** is the
state machine around them: a plan's step (`Call`), the services and the disk (`Answer`), the
end of the handler and the next page that `createContinuationStep` appends (`Return`,
`Continuation`), the next step. Where Router takes the announced pages as given, FetchTools is
where the announcements come from.

**Artifacts** is the store: a directory of files and an index in memory, with the file's
opening, its writing and the index update as separate steps, because only the last is under
the lock. A content is the sequence of pieces it was put together from and is its own hash.
Some pieces are not UTF-8 (`Binary`): `confluence_download_attachment` stores the bytes of any
attachment. `TextOf` is the way of such bytes through `string(b)` and JSON, where U+FFFD
(`Replaced`) stands for what is not UTF-8; resources/read answers with that, while
artifact_append_text works on the bytes. A file may fail to open, to be written or to be read.
**Session** is the server around it: start-up, the loop that answers one line at a time, a
query whose steps store, download, fetch, append, list and search in goroutines of their own,
the two resource methods, errors of the directory, the end of the input, and a client that kills the process and
starts it again. `uris` and `paths` (what has been handed out) and `hurt` (files whose last
write failed or was cut off) are history. The restart keeps the directory and loses the index.

**MCProxy**, **MCRouter**, **MCToolRegistry**, **MCHTTPCache**, **MCDockerRuntimes**,
**MCFetchTools** and **MCSession** give TLC's instances: symmetric model values, and the sets
of requests, plans, worlds and calls. **ProxyProofs**, **RouterProofs**,
**ToolRegistryProofs**, **HTTPCacheProofs**, **DockerRuntimesProofs**, **SessionProofs**,
**FetchToolsProofs** (the order of the pages) and **FetchOutcomeProofs** (what replies promise)
hold the proofs.

## 3. What the runs show

| run | shows | bounds |
|---|---|---|
| ProxySafety | typing; a reply answers the caller's own request; the pending table is exactly the calls under way; handshake first and once; the reader blocks only when upstream repeats itself; only its context ends a call the dead upstream left | 2 callers, 4 ids (two operations with a handshake each, or retries of it), pipes of one line, each request answered up to twice, death at any moment |
| ProxyLive | a cancelled waiting call returns; nobody waits for the handshake's mutex once all contexts have ended; every operation returns when upstream lives and answers | the same with one answer per request and one line of upstream's own |
| ProxyRequests | violation: a request of upstream's own is taken for a response | |
| RouterExec | results in plan order, nothing after a failure, concurrency only within a group and within the limit, only validated steps run, complete pages, complete manifest, every query answered, no deadlock | plans of up to 3 steps over a paged and a plain tool plus every kind of bad step, 3 pages, 3 continuations, limits 4 and 3 in place of 8 |
| RouterArgs | violation: null passes for an object | |
| ToolRegistry | cache coherence, contiguous versions, the chosen version exists, refinement of VersionedTools, whose histories only grow | 2 goroutines, 2 names, 2 contents, cache of 1, 2 versions |
| HTTPCache | exactly the most recently used keys are cached; an ETag belongs to its body; a validated answer was current during the round trip; answers go back to older content only when round trips of a key overlap | 2 goroutines, 3 keys, cache of 2, 1 change of content |
| DockerRuntimes | code keeps the container it runs in; without a failure or a slow start no container is lost; the lock excludes; refinement of RuntimeTable | 2 callers, 2 languages, 3 lifecycles, every Docker call may fail |
| DockerClose | violation: a container is created after Close has returned without an error | the same |
| FetchTools | pages follow one another without gap or repeat; a listing that says nothing of more is at its end; `complete` means everything; no refused request behind a reply without a flag; an export names every issue and lists what is on disk | five worlds of 0 to 5 items, every tool, page sizes by default 2 and at most 3, services that allow 1, 2 or 3, 3 continuations, every answer at every request |
| FetchPaging | violation: tools that return `has_next` are not continued | the same |
| Session | files handed out hold what their hash says, over restarts too; URIs handed out lead to such a file; resources/read answers with not found or with the whole of what the URI names: the content itself when that is text, its text when it is not; an append builds on the bytes | 2 steps to a plan, 3 begun in all, 2 texts (one of them U+FFFD) and a binary attachment, contents of up to 2, 2 seconds, 1 restart |

Why the bounds are enough. Two callers are what an interleaving of the proxy needs: the
shared state is a table by id, a mutex and the pipes, and a third caller only adds another
entry. Four ids allow a failed handshake, its retry and both operations. A pipe of one line
makes both writers block. Three continuations with three pages let the limit cut a page loop
in the middle, let two paged steps compete for the last one, and let a group announce
several. A cache of one entry for two names evicts on every fill. Three keys for a cache of two evict and leave one behind; one change of content
makes two versions, which is what an old and a new response need. Three lifecycles allow a
container, its replacement and one of the other language. The code's limits (8 steps,
8 goroutines, 10 continuations) are constants.

In FetchTools a listing of five items with pages of one to three has first, middle, last and
cut pages, and is longer than the continuations reach; page sizes below, at and above the
default, the largest and what the service allows are all there. The sizes and the two limits
are constants, so that 2 and 3 stand for the code's 30 and 100. What the services hold stays
the same while pages are fetched. In Session two concurrent steps and one earlier one are what
a file of the same name needs: a content stored in the same second, by the same tool, while
another step reads it; a second plan finds what the first has stored, and a restart what both
have. One of the texts is U+FFFD itself, so that a binary content can be answered with what is
another artifact's content. Session may stop: the process ends at the end of its input or when upstream cannot be
started, hence its CHECK_DEADLOCK FALSE.

The four violations are disagreements between the code and what its own text says; each is
recorded under `findings` with the line it quotes.

Fairness. `Proxy!FairSpec` assumes that goroutines run: weak fairness for the reader, strong
fairness for each caller, because Go's mutex hands over to a waiter that starves and the
write lock of an `os.File` is fair in the same way; a step that is possible again and again is taken. Nothing is assumed of
upstream except in the premise of `OperationReturns`. `Router!FairSpec` assumes that
started work goes on (goroutines run, tools and the model return, as their HTTP clients and
contexts make them); clients need not ask anything. `FetchTools` and `Session` state safety
only and assume no fairness.

## 4. What is proved

Every safety property that holds in a run, invariants and action properties, is a theorem, for
every value of the constants the assumptions allow. Only liveness is left to TLC.

`ProxyProofs`: `TypeCorrect`, `PendingIsExact`, `RepliesAreOwn`, `HandshakeComesFirst`,
`OneHandshake`, `BlockedByRepetition`, `OrphansAreLost`. The type invariant
needs `nextID` to bound every id in use, which is what makes a fresh id fresh. `PendingExact` is inductive once it
is known that two calls under way never share an id and that no id above `nextID` is in use.
`ReplyIsOwn` needs what it follows from: every answer that exists anywhere (printed, held
by the reader, in a slot, taken) has the method of the request with its id, and the requests
written or read agree with the caller that wrote them while it is in `call`; an id is never used twice, so they go on
agreeing. The handshake (`HandshakeInv`): a caller that makes it holds `initMu` from its
registration to the end of the notification; whoever has a later request to register or to
write has found `initialized`, and once that is set the notification is in the pipe or read,
so that everything else is written behind it. The reader (`AnswersInv`): for every id the
lines in stdout, in the reader's hand and in the channel never outnumber those upstream has
printed; a line moves along these three places and is never copied. It is enough to tell none,
one and two apart. `OrphansAreLost` is about single steps and needs types only.

`RouterProofs`: `TypeCorrect`, `ResultsInPlanOrder`, `FailureStopsThePlan`, `GroupsRunAlone`,
`StartedStepsAreValid`, `ManifestAgreesWithDisk`, `EveryPageOnce`. One invariant carries them:
`Control` says what each phase leaves empty, `Execution` what is true of the loop. The planned
steps come first and every appended one is valid (`Planned`); what ran is collected,
what runs is in the batch (`Ending`); a batch of several is local and of one group
(`Grouped`); the reply follows the collected steps (`Collected`); the manifest grows in step order
(`Disk`). For the pages (`Paging`) every step of an origin asks for a page of its own, a page beyond the planned
one was announced by a step already collected, and every collected announcement is followed as
long as the limit is not reached. That each page was then fetched is shown by its least
counterexample: the page before it was fetched, was not cut, and announced it. A
batch appends its continuations in step order; that the n-th of a finite set of numbers exists
and grows with n (`Nth`, `Rank`) is proved from the well-foundedness of the numbers.

`HTTPCacheProofs`: `TypeCorrect`, `EvictsLeastRecentlyUsed`, `ETagsMatch`, `AnswersAreCurrent`,
`AnswersNeverGoBack`. The list holds the cached keys once each in the order of their last use:
what was used since the n-th one is what stands before it, and a key that is not cached was
never used, or as many keys as the cache holds have been used since. For the contents it says what
the origin can have sent for a key (an ETag always goes with the version it was sent with),
what a round trip holds, and for keys no two round trips of which overlap, that the entry is
what was last answered and that the round trip will answer with nothing older.

`ToolRegistryProofs`: `TypeCorrect`, `VersionsStayContiguous`, `HistoriesGrow`,
`CacheStaysCoherent`, `ChosenVersionStays`, `RegistryImplementsStore`. The inductive
invariant says that the write lock excludes readers and other writers, that only its holder
is between commit and invalidate, and that what a reader has read from the database is still
the row while it holds the read lock. The refinement maps a row to its history, content and
status; commits and the answering steps of Get are the abstract steps, all else stutters.
`HistoriesGrow` is proved by itself; TLC checks it as part of the refinement, which allows no
other step.

`DockerRuntimesProofs`: `TypeCorrect`, `CodeStaysInItsContainer`, `NothingIsLost`,
`ManagerImplementsTable`. The
invariant adds that the map and the callers agree with a lifecycle's language, so that the
container found by its ID is the language's own, and that the language of a waiting Start has
no other container, so that recording the new one forgets none. `NothingLost` also needs that,
without trouble, no start has failed and each one under way is waited for.
`ManagerImplementsTable` is the refinement of `RuntimeTable`, and holds with trouble too. A
container is spent once no Start waits for it, recorded or not; a caller is busy with the
container in which its code runs. A Start that begins is the step that drops the language's old
container, the one that returns records the new one or abandons it; Docker's own steps and
Status stutter. That a Start finds its language empty when it records is what `IInv` says of a
waiting Start.

`SessionProofs`: `TypeCorrect`, `HandedOutArtifactsStay`, `ReadsAreWhole`. The invariant says
of every file that is neither hurt nor being written that it holds what the hash in its name is
of, and never more than that (a prefix, after a failed write), so that an append of what was
read stays within the bound and its text is that of what the hash is of; that a step past its opening works on a file that is there and
whose hash is its content; and that every artifact in an answer, in the hands of a step or with
a client has its file, and its entry in `byID` when the index is kept. Files and entries only
come while a process lives, which carries all of that from step to step. `ReadsAreWhole` adds
that no step runs unless the loop waits for a plan.

`FetchToolsProofs`: `PagesFollow` (`PagesInOrder`). The ten tools whose results
`createContinuationStep` can continue (`Continued`) send one request each. For each of them a
lemma says that the reply starts where the call's arguments ask for it (`StartOf`) and that
the arguments of the continuation ask for the place where the reply ends (`Follows`): by page
numbers, offsets, Jira's windows, starts and cursors, whatever the services hold, however far
they lower the page size, and whatever sizes the calls give. Every other handler ends in a
reply without a next page or with a page number, which is not followed for it. The invariant
carries the start from one page to the next, and that the one answer of the page is an answer
to its request. It needs that a call's cursor is one the service has handed out and that a
page of a continued tool has at least one item.

`FetchOutcomeProofs`: `AnswersTyped`, `FailuresShow`, `SilenceIsTheEnd`, `CompleteIsAll`,
`ExportsAccount`. A handler may take any number of answers, so the invariants speak of the
whole sequence it has had. There are three, each containing the one before:

- `Typed`: the world, the call and every answer and reply have their types. For each handler a
  lemma says that its next move is one a service can answer or a typed reply.
- `Shown`: unless the tool is one of the three that go on after a failure, no answer so far was
  refused, or the handler fails next. For those three it says how the answers came about: the
  review bundle has at most as many answers of each kind as the part they belong to asks for,
  and none for a part left out; the export has searched once, every later answer is about an
  issue found, and what it has heard of each issue is what that issue's own order of requests
  allows; the alert rules were asked of one API and then of the other. `NoSilentFailure` follows
  from the shape of each handler's reply.
- `Carried`: moreover every answer is one the services can have given to its request (`Fair`:
  a listing brings exactly what there is at that place, a filtered diff no more than was kept,
  more is announced where more is), a garbled one is on record, and the answers are those of the
  requests the handler sent (`Traced`). For the loop over the pages of a pull request this is the
  induction the loop performs: page n was answered with the items that follow the ones counted
  so far, so that the pages read end where the sum of their items says. The loop's exit then
  gives `CompleteMeansComplete`, since only a page that announces no more, or one without items,
  ends it. `SilenceMeansEnd` goes through the `Listings` by how they end: by pages, offsets,
  windows, a full page, or all at once.

The answers of one kind are collected, and the items of all counted, by functions recursive over
the positions (`Picked`, `Total` in HTTPCalls). That such a function exists and has the values its
equation gives is proved from the least counterexample (`PickingExists`), which needs no induction
theorem; that appending an answer adds one element, or none, or its items, follows
(`PickedNext`, `CountedNext`).

What the proofs found about the models, each of them since true in the module: `file_filter`
is an option of the two diff tools only, so `Sought` looks at it for those alone; what a filter
keeps is no more than there is (`FetchAssumption`); and every tool that asks for pages, not only
those that can be continued, needs page sizes above zero (`PageAssumption` over `Sizing`): a page
of size zero has no items, which the loop takes for the end. The code sets them to 30 to 100.

The assumptions are the named ASSUMEs of the modules: nobody is not a process, the answer
"not found" is not a definition, bounds are natural numbers, arguments are of the right types,
page sizes are positive, a filter keeps at most everything.

Only model-checked: liveness (`CancelledCallReturns`, `OperationReturns`, `QueryAnswered`),
which TLAPS does not prove here. The four violations are counterexamples and have no theorem.

## 5. What the models leave open

Behaviour that the models have and no property forbids, because it is what the code does:

- Router: planner mode executes the plan unless the call asks for a dry run. Output shaping
  can cut the paging fields, which ends the pagination (`PagesComplete` leaves these out). A
  step of a group whose result was parsed and then could not be stored is a failed step and still
  announces its next page; the plan stops before that page runs.
- Paging: `jira_export_tasks` takes one page of its search and ignores the total;
  `grafana_query_annotations`, `grafana_list_annotation_tags`, `grafana_list_alerts`, the check
  runs and `confluence_get_page_by_title` take a first page without a word of more (they are not
  in `Listings`). The code of `confluence_get_page_children`
  would announce a cursor it has no argument for; the model's service gives it starts.
  A diff is fetched anew for every chunk. Grafana is taken to honour `limit`.
- Garbled answers: the httpcache transport drops an error while a body is read. The loop over
  the pages of a pull request takes a page without items for the last one, so a file can be
  reported complete after such an answer (`garbled` in `CompleteMeansComplete`). The transport
  also caches the cut body with its ETag; HTTPCache has whole bodies only, and its properties say
  which version of a content is answered, not that all of it is.
- Files: a failed write destroys an earlier artifact of the same name (`hurt`); two exports of a
  diff share a name; an index file that cannot be written is not reported. Without
  `MCP_LENS_ARTIFACT_KEEP_INDEX` the URIs handed out cannot be read. resources/read changes what
  is not UTF-8, so an image or an archive that resources/list offers does not come back as it
  was stored, although `tasks/0002-artifact-store-and-mcp-resources.md:66` says that
  resources/read returns the content of the stored artifact: `ReadIsWhole` promises the content
  for text alone. It answers "not found" when the file is there and cannot be read. Nobody but the process changes the directory.
- Jira: a mutating request whose answer is lost is an error although it was carried out.
- Session: an unknown notification is answered like an unknown method; an error of the read
  that is not the end of the input is tried again for ever; a signal ends nothing while the
  loop waits for its next line.
- Docker: a lifecycle without a container has no ID yet, and Stop with an empty one drops any
  such lifecycle (`Stop`). The warm pool cancels its context when Start returns "starting"; Execute holds the
  read lock for as long as code runs, and a Start waits behind it.
- Proxy: a write to a full pipe watches no context.

## 6. What is not modelled, and the plan

Left out on purpose: message texts and formats, the fields a compacted item keeps, XHTML and
ADF conversion, prompt wording, the installer, git scaffolding. The server accepts `query` and
`router` only, the policy lets no plan run `execute_code` or a mutating Jira tool, and no
program calls `SetExecutionDependencies`: dynamic tools, executors and discovery run only where
the handler is used as a library. Of those, the registry and the Docker runtimes are modelled
because they keep state that concurrent calls share under locks. The native executors are not:
two calls share an interpreter that is not safe for concurrent use, and what the code then does
is undefined. API discovery is text extraction around a cache, presets are a merge of maps,
the tool catalog is read-only once the server has started. `PROJECT.json` names the reason at
each component.

What could come next: `NativeExecutors` with one call at a time (the pending interrupt of the
shared JavaScript runtime, the goroutines that a timed-out Go execution leaves, Python's
process).
