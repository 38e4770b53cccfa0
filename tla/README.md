# A TLA+ model of Server.js, the Linked Data Fragments server

Server.js answers HTTP requests for *fragments* of RDF datasets: the page of
all quads that match a pattern, with the total number of matches and links to
the other pages. This directory holds TLA+ modules that model the parts of it
whose correctness depends on the order of events, the TLC configurations that
check them, and machine-checked proofs of the most important results.

All paths below are relative to the repository; `lib` is
`packages/<package>/lib`.

## Inventory

| Component | Source | State it keeps | Operations | Hard behaviour |
|---|---|---|---|---|
| Cluster master | core: `CliRunner.ts` | the worker processes, the reload in progress | fork, respawn, SIGHUP, SIGINT | crashes, signals and reloads in any order |
| Worker startup | core: `LinkedDataFragmentsServerWorker.ts`, `Datasource.initialize` | countdown of pending datasources, `hide` flags | construct, run, initialized/error events, SIGINT | datasources settle in any order; the index reads the flags of the others; a stop while they load |
| HTTP server | core: `LinkedDataFragmentsServer.ts` | open sockets, per request: controller index, `response.error` | `_processRequest`, `_reportError`, `stop` | errors after the response has started; recursion of error handling |
| Controllers | core: `Controller.ts`, `ErrorController.ts`, `NotFoundController.ts`, `DereferenceController.ts`, `AssetsController.ts` | none across requests | `handleRequest`, `next` | `next` called late or twice |
| Fragments feature | feature-qpf: controller, routers, views | metadata written into the shared datasource object | extract query, select, render | data and metadata of a stream arrive in any order; errors midway |
| Views | core: `View.ts`, `RdfView.ts`, `HtmlView.ts`, `ViewCollection.ts` | per response: writer | `render`, extensions | asynchronous templates and writers |
| Datasource base | core: `Datasource.ts` | `initialized` | `initialize`, `supportsQuery`, `select`, `close` | use before initialization and after close |
| In-memory datasources | core: `MemoryDatasource.ts`, `IndexDatasource.ts`; datasource-n3, -jsonld, -rdfa | a quad store | load, query | loading order (index) |
| HDT datasources | datasource-hdt | an HDT document, or one process per query | open, query, close | close while opening; exit code and output of a process in any order |
| SPARQL datasource | datasource-sparql | count cache, count queries under way | query, count with timeout | answer, error and timeout of a count race; other requests join a count |
| Composite datasource | datasource-composite | count cache | query across sub-datasources | recursion over asynchronous counts; concurrent requests |
| Memento | feature-memento | time maps | datetime negotiation | interval edges |
| Summaries, WebID | feature-summary, feature-webid | certificate cache (WebID) | serve a file; verify a certificate | a file that cannot be read after rendering began |

How they interact: the master forks workers; a worker owns the datasources and
one HTTP server. A request goes through the chain of controllers by callbacks
(`next`); the fragments controller asks the routers for a query, calls `select`
on a datasource and hands the stream to a view, which writes the response. The
composite datasource calls `select` on other datasources. All requests of a
worker share its datasources, on one event loop: between two callbacks of a
request any other request may run its own.

What makes each component correct is stated in its module. In one line each:
the master keeps its number of workers and reloads without downtime; a worker
listens once all datasources have settled; every request gets exactly one
complete response, and a response that says 200 is a complete fragment; a page
is the slice of the matches it claims to be, the pages of a fragment cover it
without overlap, an exact total is the true one; a count query is asked once at
a time and always asked again after a failure; a document is opened and closed
once and never used after.

## Modules

| Module | Models | Checked by | Proofs |
|---|---|---|---|
| `CompositeDatasource` | `CompositeDatasource.ts` | `MCCompositeRefinement` | `CompositeDatasourceProofs` |
| `ConcatenatedSource` | what a composite datasource promises | | |
| `CompositeRefinement` | the refinement of the two | `MCCompositeRefinement` | `CompositeDatasourceProofs` |
| `ClusterMaster` | `startClusterMaster` of `CliRunner.ts` | itself | `ClusterMasterProofs` |
| `RequestPipeline` | one request: server, controllers, views, the stream of a datasource, errors | `MCRequestPipeline` | `RequestPipelineProofs` |
| `SparqlDatasource` | `SparqlDatasource.ts` | `MCSparqlDatasource` | `SparqlDatasourceProofs` |
| `WorkerLifecycle` | the worker, `Datasource.initialize` and `_fetch`, the index, `HdtDatasource.close`, the sockets and `stop` of the server | `MCWorkerLifecycle` | `WorkerLifecycleProofs` |
| `Timegate` | the timemap and the choice of `TimegateController.ts` (operators) | `MCFragmentCrawl` | `SelectionProofs` |
| `Selection` | the translations of `Datasource.select` (operators) | `MCFragmentCrawl` | `SelectionProofs` |
| `FragmentCrawl` | clients that follow links: routers, timegate, fragments controller, totals and links; composes the two above | `MCFragmentCrawl` | `FragmentCrawlProofs` |
| `OrderLemmas` | facts about smallest and largest elements | | itself |

### CompositeDatasource

Each step is one callback of the code. `pc[r]` names the callback that request
`r` waits for: `find` (a `findRecursive` scheduled by `setImmediate`),
`metadata` (the `getProperty` callback of a sub-datasource), `count` (the end of
a manual count), `stream` (the next event of the current sub-stream). `search`
holds the arguments of `findRecursive`, `sub` the sub-query being piped, `cache`
is `_countCache`, shared by all requests. A quad is `<<d, i>>`, match number `i`
of sub-datasource `d`, so that where a quad came from can be seen in the output.
A skipped sub-datasource (`NextMatching`) is passed over in the step that
reaches it, as the code recurses synchronously there.

A sub-datasource may reply with an estimate instead of its count (`Replies`).
Estimates may be wrong in both directions, but not 0 when there are matches,
which is what the HDT datasource ensures (lines 49-52) and what the SPARQL
fallback of 1e9 gives. A count that a sub-datasource calls exact is its number of
matches: `ExactTotalIsTrue` and the slices rest on that, while a SPARQL endpoint may
answer any number (`SparqlDatasource.ts:123`). An error event of a sub-stream has no listener, so
`SubDatasourceError` ends the process.

The key of a cached count (line 67) is made of `String(term)` of the four terms of
the query. RDF/JS terms have no `toString`, so a bound term gives
`[object Object]` and an unbound one `undefined`: the key is the set of bound
positions, shared by all sub-datasources and by all patterns of the same shape.
`CacheKey` gives each pattern its key, and the patterns of the runs share one. So
a request for a later page may take the count of another pattern or of another
sub-datasource; the history variable `misled` holds the requests that took a count
which is not the number of matches.

Properties: the output is a contiguous run of the concatenation, from the
requested offset if the request was not misled (`PageIsSlice`); a closed stream has
delivered all of its page (`ClosedPageIsFull`); a total that is called exact is true
for who was not misled (`ExactTotalIsTrue`); metadata
comes first, once, and nothing follows the close (`StreamProtocol`); every
accepted query closes (`EveryQueryCloses`); and, as a refinement, the whole is
one concatenated source (`IsConcatenation`). In `ConcatenatedSource`, a request
that has to skip a part of the source may be misled about its size (`Mislead`,
`Misplace`): its page may start anywhere and its total be anything, but a request
without an offset is never misled, and what is delivered is always contiguous and
ends at the limit or at the end.

That all pages start where they should is `EveryPageIsSlice`, which the code
violates already with one estimating sub-datasource, if two patterns bind the same
positions (`composite_shared_cache`). With two sub-datasources that estimate it
violates it with one pattern, too. `SoundKeysSuffice` proves what would do: a key
per pattern and one sub-datasource that estimates.

A sub-datasource that failed to initialize answers with an empty stream and no
metadata, and the walk waits for it for ever. `available` is the set of
sub-datasources that are up, chosen once; `Broken(r)` says that request `r` ends
at one that is not, or at a process that an error ended. In `ConcatenatedSource`
that is the action `Break`: until then, what was sent is a correct prefix, and no
request breaks when all sub-datasources are up and none fails
(`EveryQueryCloses`).

### ClusterMaster

Workers are numbered by `fork()`. `starting` and `listening` are the live
workers, `leaving` those with `exitedAfterDisconnect`, `round` the reload in
progress: the `workers` list of line 96 (`old`), and the variables `newWorker`
and `worker` of `respawnNext`. An event is one step with all listeners that the
code has attached to it, in the order of their attachment: `Exit` runs the
replacing listener of line 76 before those of the reload.

`KillDisconnects` stands for a difference between Node versions: whether
`worker.kill()` disconnects first, and so sets `exitedAfterDisconnect`.

Properties: no series of events loses a worker, except deaths before listening
(`CapacityKept`), or adds one (`NoSurplus`); a reload has no downtime
(`NoDowntime`), leaves no old worker behind (`ReloadIsComplete`) and ends,
unless a worker died before its turn (`ReloadEndsOrStalls`); after a SIGINT
outside of a reload all workers end (`CleanTermination`).

### RequestPipeline

One request. The chain of controllers runs synchronously (`HandleRequest`, one
action per outcome of a controller); then the extensions, the events of the
stream, the callback of its metadata and the asynchronous parts of the views run
in any order. `stream` is what `select()` returned, `response` the HTTP response.
Its `body` is a sequence of parts, with a part `End` for the end of what a view
or serializer produces, so that a body that breaks off is distinct from a
complete one. A view that has not written its parts yet keeps them in
`pending`: `fragment` for the fragment, `page` for the page of an error or a
missing resource. The three kinds of views differ in what `Finish` does: RDF text
is written at once when it is complete, JSON-LD is piped part by part (`Flush`,
`SerializerFails`), HTML waits for a template (`RenderTemplate`, `RenderFails`).

`ReportError` is `_reportError`: a response that has started is just ended, and
another one gets the error page (`SendErrorPage`). The view of that page may throw
after the headers (`pageFails`); the catch at line 113 then logs it, and nothing
ends the response. The code never removes the views and the stream of a failed request, so they go on
and try to write to the ended response, which Node refuses; the model keeps
these steps, since the properties are about what they may do.

Properties: a complete fragment with status 200 has every quad once, in order,
and the metadata (`CompleteFragment`); a failed query never looks like a
complete fragment (`FailureIsVisible`); an error in RDF text is the error page
and nothing else, unless the view of that page throws (`TextErrorsAreShown`). Every
request is answered (`EveryRequestEnds`), for two reasons apart, which are those for
which the code itself waits for ever: its stream neither fails nor delivers its
metadata and its end (`AwaitsStream`), as with a SPARQL endpoint that never answers
a SELECT query or a composite datasource with a part that is down; or the error page
failed (`LostErrorPage`). In HTML, the error page can be lost (`ErrorsAreShown`).

Requests do not share state here. What they do share, the object of a
datasource, is in `FragmentCrawl`.

### SparqlDatasource

Requests to one datasource, each with its SELECT and, if needed, its COUNT query.
`cache` is `_countCache`, `resolving` the keys of `_resolvingCountQueries`. Per
request: `stream` (none, open until the SELECT response ends, errored when its
request has failed, failed when the response is not JSON, closed, ended when the view
has read it), `error` (the `errored` flag,
and whether someone listened), `count` (the COUNT query of its own), `settled`
(the promise of `_getPatternCount`) and `metadata`. `answers` is a history of the
numbers that count queries returned. The pattern of a request is a constant.

The endpoint is free: it may answer any number, no number, late, or never; it may
answer with something that is not JSON, or with JSON that is not SPARQL results,
which throws in a listener and ends the process (`SelectMalformed`). An HTTP
request that fails may or may not also end, depending on whether its response had
begun; hence `errored` is a state of a SELECT query from which `SelectEnd` is still
possible, and of a COUNT query from which `CountNumber` and `CountRejected` are.

An error after the stream has ended has no listener, as the stream of `select` has
detached itself from its source by then. It is thrown within the callback of a
promise, which ends the process in newer versions of Node and is only a
warning in older ones (`EmitError`). Errors before that are heard: a view
always selects with an error callback.

Properties: one count query at a time for a pattern, marked from its start to its
end (`OneCountAtATime`); an exact total is a number that was counted for that
pattern (`ExactTotalsWereCounted`), not necessarily the right one, since line 123
takes the first number in whatever came back; a request that gets no quads, because
its SELECT request failed or was not answered in JSON, or no total has an error
(`FailuresAreReported`); a late answer does not disturb a request
that was given the default (`LateAnswersAreHarmless`); every request gets a
total or an error, from an endpoint that never answers too
(`EveryRequestGetsTotal`). A count query that fails leaves its mark behind, so its
pattern is not counted again (`FallbackMeansCounting`, violated).

### WorkerLifecycle

One worker process from its start to its end. Datasources are known by their
kind: how they load is all that matters here. Every action is one turn of the
event loop with all listeners it runs, in the order in which the code attaches
them: those of the worker's constructor (which hide a datasource that failed),
then the countdown of `run()`, then the deferred close of an HDT datasource.
`emitted[d]` is what datasource `d` has emitted; `pending` and `hide` are as in
the code (`Hidden` is the union of what sets that flag). `Run` is all of `run()`,
since `initialize()` is called in a loop: datasources that are disabled or that
throw settle within it, and the index, whose quads are made in its turn, lists
what is not hidden by then (`Listed`).

A bad port makes `listen()` throw within the listener of the last event. Within
a `then`, the `catch` of `initialize()` takes it for an error of the datasource;
within `run()`, `CliRunner` exits; within a `catch`, it is an unhandled rejection,
which ends the process or not, depending on the version of Node.

Properties: the server listens exactly when all datasources have settled
(`ListensWhenSettled`) and does so in the end (`WorkerListens`); the index has
every datasource that answers and is not hidden (`IndexListsWhatIsServed`); a stop
is final (`StopIsFinal`), ends all connections (`ConnectionsEnd`) and leaves no
HDT document open, not even one that was just being opened (`DocumentsAreClosed`).

What they do not say, as the code does not do it:

* A SIGINT before all datasources have settled does not stop the worker:
  `close()` does nothing to a server that does not listen yet
  (`LinkedDataFragmentsServer.ts:119`), and the countdown goes on and listens.
  `StopIsFinal` excludes this by `stoppedEarly`.
* The index keeps the quads of a datasource that fails after they were made,
  although the worker hides it and says that it skipped it
  (`LinkedDataFragmentsServerWorker.ts:29-30`). The list that the HTML page of the
  index shows above them (`index.html:11`) does read the flag in time.
* A worker without datasources never listens: nothing counts down.
* With a bad port, a worker does not listen and may not end; an HDT document whose
  load was the last event then stays open, because the listener that would close
  it comes after the one that throws.

### Selection and Timegate

Operators, without state. `Selection` has the two translations of `select()`: of
the terms of a query, and of the quads of the results; `Answer` is what they are
meant to give together: the published quads that match. A term is a record; that an
IRI begins with the prefix of blank nodes is a flag of it. `Found` searches as an N3
store and an HDT document do. Other datasources read a translated query in their
own way: to a SPARQL endpoint, a blank node in a query is a variable
(`SparqlDatasource.ts:192`), and `GRAPH ?g` leaves out its default graph (lines
165-168); so `Found` is not used for them. `Regular` says when the
published names are unambiguous; without it the code does not promise anything:
a datasource without quads that has the `graph` option searches the empty graph
for every query (`Datasource.ts:161-166`), for example.

`Timegate` has the sort, the choice and the inverted map. Dates are numbers, and
`NaN` is the invalid date, which the empty string becomes; a version that is
configured without a final date ends at the start of the process (`toDate`,
`TimegateController.ts:205-207`), a date like any other. The header
`Memento-Datetime` is cut to whole seconds (`HeaderDate`, for `toUTCString()` in
`MementoControllerExtension.ts:35`); `Second` is the number of clock ticks in one.
`IsClosest` is the reference: a version whose interval holds the date; else the last
one that had started by then; else the first. The code meets it when intervals end
and do not contain each other (`Orderly`). A version with an invalid end is chosen
only up to its start. If intervals touch or overlap, as those in the README of
the Memento package do, the announced date of a memento leads the timegate to the
version before it; so does that of a memento that starts at a fraction of a second,
since the header cuts it off. Hence `DatetimeLeadsBack` is about separate intervals
and mementos that start on a whole second.

### FragmentCrawl

Clients ask for a first page, of a datasource or of a timegate, and then follow
the link to the next page. A request is two turns: `HandleRequest` (controllers,
routers, the URLs written into the object of the datasource, the start of the
query and of the view) and `Respond` (the quads, the metadata and the end of the
page). Requests of other clients come in between, and the clock may tick.
`world` is the configuration and data of the server, chosen once; `owner[d]` is
the host in `datasource.url` of the shared object `d`; `fragment[c]` is what the
settings of the view of client `c` keep; `got[c]` and `visited[c]` are what the
client received and from where.

A page parameter is known by whether it is all digits, as `PageRouter` requires, and
by what `parseInt` reads, as the controller uses it. Those disagree on values such
as `2abc` (page 1, with a link to page 3), which only `ProperStart` clients avoid.

Datasources are of two sorts. In-memory datasources and HDT documents (`Local`) are
searched by the server: `Found` gives their quads, `PageOf` the page, and `Totals`
their exact count or an estimate that is any of `Estimates`, raised by the code
(`Raised`). The others are `"remote"`: a SPARQL endpoint, the external HDT utility or
a composite. Another program reads the query of the first two, orders its answer
as it likes, and the total is the first number in whatever it answers
(`SparqlDatasource.ts:123`); the pages of the last depend on its cache (see above).
They answer with any page and any total, and only the properties that do not depend
on the answers are about them. `format` tells RDF views and HTML pages apart: they
have different rules for the next link (`HasNextInRdf`, `HasNextInHtml`) and read
the URLs of the controls at different times (`ControlsInRdf`, `ControlsInHtml`).

Properties: whatever the page it starts with, a client of a local datasource
receives a slice of the published matches in order, none twice (`GotIsSlice`), and
when there is no next link it has all (`NothingMissed`), except in HTML pages of HDT
documents (`MayStopShort`); every crawl, of any datasource, ends (`CrawlEnds`); the
links of a page and the controls of RDF pages name the client's own
host while other clients ask under other hosts (`ControlsAreOwn`); a crawl from a
timegate stays with one memento (`OneMemento`), which is a closest one
(`ClosestMementoServed`), and its announced date leads back to it
(`DatetimeLeadsBack`).

What they do not say, as the code does not do it:

* `dct:source` is written after the results arrived, from the shared object: it
  may name the host of another request (`QuadPatternFragmentsRdfView.ts:113`), and
  so may the controls of an HTML page (`fragment.html:9` and `17`).
  `ControlsAreOwn` promises them only when all clients use one host.
* An HDT estimate that is the very end of a full page is not raised. The RDF views
  still link to a next page (`QuadPatternFragmentsRdfView.ts:125` asks for no more
  than a full page), but an HTML page does not (`fragment.html:48`).
* Clients of a SPARQL endpoint, the external HDT utility or a composite have no
  promise about the quads they receive. Where an endpoint does not count in time,
  the default of 1e9 gives empty pages a next link until the offset passes it: the
  crawl ends, but late.
* The list of datasources that `index.html` puts above a fragment of the index is
  not modelled.
* The timegate reads `timegates.baseUrl`, the extension that links to it
  `timegates.baseURL` (`TimegateController.ts:69`,
  `MementoControllerExtension.ts:21`), so one of them always uses the default. The
  link is not modelled, as the clients here know the timegate. The variable
  `originalBaseURL` of `TimegateController.ts:123` is never assigned.

## Runs

| Run | Shows | Bounds, and why they are enough |
|---|---|---|
| `composite_refinement` | the properties of the composite datasource, and that it implements `ConcatenatedSource` | 3 sub-datasources, so that one is skipped between two others and a page can span two ends, all up or the last one down; up to 2 matches each, pages of 2, offsets up to 3: pages that begin before, at and after each end; 2 requests that share the cache, whose entries may be evicted at any time; patterns that bind the same positions, so that they share its entries |
| `composite_shared_cache` | **violation**: the cache mixes up patterns | 2 patterns that bind the same positions, 1 estimating sub-datasource |
| `cluster` | the properties of the master | 3 workers, 2 crashes, 2 reloads, 1 SIGINT in every order: a crash before, during and after a reload step, of an old and of a new worker |
| `cluster_crash` | **violation**: a worker that dies before listening is not replaced | 2 workers, 1 crash |
| `cluster_reload` | **violation**: a reload waits for a dead worker | 2 workers, 1 crash, 1 reload |
| `cluster_stop` | **violation**: SIGINT during a reload leaves a worker running | 2 workers, 1 reload |
| `pipeline` | the properties of a request | pages of 0, 1 and 2 quads, so that an error, the metadata and the end fall before, between and after the quads; chains with and without a controller for missing pages; every format; GET, HEAD (which OPTIONS equals) and a rejected method; streams that fail, or never end; templates, serializers and error pages that fail |
| `pipeline_errors` | **violation**: a failing template leaves an empty response | GET in HTML |
| `sparql` | the properties of the SPARQL datasource | 3 requests, two for one pattern and one for another: one counts while another joins, and the third can tell entries of the cache apart; counts of 5 and 100001, below and above the threshold for caching; eviction at any time |
| `sparql_recount` | **violation**: a failed count query leaves its mark | as `sparql` |
| `lifecycle` | the properties of a worker | 3 datasources of all kinds in all orders (so an index stands before, between and after others, and two settle in any order while a third hangs), the second hidden or not, good and bad ports, 2 connections, both SIGINTs at any time |
| `crawl` | the properties of clients that follow links | 2 clients, so that one request comes between the turns of another, for the same datasource under another host; pages of 2, up to 5 quads, so that answers end before, at and after the end of a page; 5 servers: every kind of datasource, timemaps in any order, with gaps, overlaps and an invalid end, versions that start on and off whole seconds (`Second` is 2); RDF and HTML pages; estimates of 0, 2 and 5: below every total, the very end of a page, and above. A remote datasource holds one quad, which it may repeat, so that the sequences it answers with stay few. `MaxPage` is above every page that a link can lead to. The clock ticks once |

The violating runs are disagreements between the code and what its comments and
documentation say, listed with their quotes in `PROJECT.json`. `CacheThreshold`
is 1000 in the code and 1 here, so that small counts are cached; the totals of remote
datasources in `FragmentCrawl` are bounded by `Estimates`, where the code has 1e9 or
more, so that crawls past the end of an answer stay short.

Deadlock is not checked where the system may stop: a request that is answered
does nothing more, a process without workers or after a crash has ended.

### Fairness

The composite datasource has weak fairness per request: the event loop runs
each callback whose event has happened, and a stream that has data emits it. It
gives no fairness to cache eviction or to errors. The master has weak fairness on
the workers' own progress (`Settle`: a starting worker listens or dies, a
worker asked to die does), never on crashes or signals. In the request pipeline,
controllers and extensions call back, and templates and serializers make progress
or fail; there is no fairness for streams, before or after an error, since a SPARQL
endpoint may never answer and a composite may wait for ever: `EveryRequestEnds` says
of such a stream that it is awaited. In the SPARQL datasource
only the timer of 3 seconds is fair; nothing is assumed of the endpoint. A worker
is run, files are read to their end or fail, and destroyed sockets close; a fetch
over HTTP has no timeout and is not fair, so `WorkerListens` assumes that each of
them settles. Clients of `FragmentCrawl` are answered, by remote datasources too,
since `CrawlEnds` is about the number of pages and not about an endpoint that is
silent; they need not ask.

## Proofs

Proved by TLAPS for every value of the constants that satisfies the
assumptions:

* `CompositeDatasource`: the type invariant, `PageIsSlice`, `ClosedPageIsFull`,
  `ExactTotalIsTrue` and `StreamProtocol`, and that it implements
  `ConcatenatedSource`, whatever the cache holds and the keys are.
  `FirstPagesAreRight` says how far a wrong count reaches: never to a request
  without an offset, since its walk asks for no exact count. `SoundKeysSuffice` says
  when no count is wrong: if keys tell patterns apart and one sub-datasource
  estimates, each entry of the cache is the true count for it, no request is misled,
  and `EveryPageIsSlice` follows. The inductive invariant relates the arguments of
  `findRecursive` to the prefix walked so far, for requests that are not misled: the
  remaining offset is the requested one minus the counts of that prefix, which are
  true as long as the offset is positive; the chosen offset is the distance into the
  chosen sub-datasource; while streaming, the quads sent plus those of earlier
  sub-streams are the output. Without it `PageIsSlice` is not inductive, since it says
  nothing of a request still searching. Of a misled request it keeps that the
  output is contiguous from wherever it starts. Sizes of
  prefixes are cardinalities, so lemmas about adding one sub-datasource to
  a prefix carry the arithmetic. `StreamProtocol` needs no more than that nothing is
  written before the walk ends (`ProtocolInv`).

  The refinement (`ImplementsConcatenation`) maps each action to a step of
  `ConcatenatedSource` or to none: `ExecuteQuery` accepts; `UseCachedCount` misleads if
  the count is wrong; `SelectMetadata` breaks the stream off if the sub-datasource is down, and is invisible otherwise, like the
  rest of the walk and evictions; `StartResults` announces an exact total, and closes
  when nothing is left, or misplaces a misled request; `PushToDestination` delivers
  the quad that has as many before it as the reader's position (`BeforeSize`);
  `CloseDestination` closes or is invisible; the end of the process breaks off every open stream. It is the safety
  part of `IsConcatenation`; that accepted queries are answered stays with TLC.
* `ClusterMaster`: the type invariant, `CapacityKept`, `NoSurplus` (assuming
  `KillDisconnects`), `NoDowntime` and `ReloadIsComplete`. The type invariant needs
  `OldWorkerLeft` to be inductive: while a new worker starts, the list of old
  ones is not empty, so `workers.pop()` never yields undefined and the branch of
  line 105 is unreachable. The counting properties are inductive with it;
  `ReloadIsComplete` needs that all staying workers are new, listed, or the one
  being killed. `NoDowntime` is about a single step, and yet needs an invariant: the
  new worker of a reload is not one that the reload will kill, nor was it told to go
  before it listens (`NewWorkerInv`); only then does it make up for the old one.
* `RequestPipeline`: the type invariant, `CompleteFragment`, `FailureIsVisible` and
  `TextErrorsAreShown`. Lemmas say what each operator on responses keeps
  (`Ordered`: a response ends, and has a body, only after its headers; `Sound`
  adds that an error in RDF text is complete once its status is known, unless the
  page throws). The
  invariant `IInv` adds that as long as a view reads the stream, its end is neither
  in the body nor pending, unless the status says 500 (`Unfinished`): this is what
  makes it safe for `_reportError` to end a response that has started. For
  `CompleteFragment`, `FragInv` accounts for every quad received: the body followed by
  what the view holds back has the quads emitted so far, in order, and a body that
  ended is that of a view that was done, or lacks its end (`Accounted`); nothing is
  received before the view reads (`Started`), and a HEAD request gets no body
  (`Silent`).
* `SparqlDatasource`: the type invariant, `OneCountAtATime`,
  `ExactTotalsWereCounted`, `FailuresAreReported` and `LateAnswersAreHarmless`.
  `FailuresAreReported` covers both queries. `OneCountAtATime` is inductive, in a
  form that speaks of the members of `resolving` (`MarksAreCounts`): the mark is what keeps a second count query from
  starting, so it must outlive the timer. Exact totals need that the entries of the
  cache were counted (`CacheWasCounted`), late answers that a total implies a
  settled promise (`SettledInv`).
* `WorkerLifecycle`: the type invariant, `ListensWhenSettled`,
  `IndexListsWhatIsServed`, `StopIsFinal` and
  `DocumentsAreClosed`, for any number of datasources and connections. The
  countdown is the number of datasources that have not settled (`CountdownInv`), a
  cardinality, which `CountdownStep` takes through one event; without it nothing
  relates `pending = 0` to the datasources. A document is closed because every
  HDT datasource that is still loading after a stop is in `closeWhenReady`
  (`DocumentInv`).
* `Timegate` and `Selection` (in `SelectionProofs`): `SortTimemapSorts`, from the
  facts that places are numbers from 1 to n (`PlaceType`), distinct and therefore
  all taken (`PlaceBijective`); `ClosestMementoIsClosest`, by cases of where the
  loop stops; `TranslationIsFaithful`, the heart of `GotIsSlice`: a translated
  query matches a quad exactly if the query matches the published quad; and from it
  `AnswerIsFound`: what an N3 store or HDT document finds, published, is what it is
  meant to answer. Both are for unambiguous names (`Regular`).
* `FragmentCrawl`: every invariant of the run, and `FullPageHasNext` about the raised
  estimates. The invariants add where the client is between its pages: that the path
  it asks and the fragment being served are of the datasource it has visited
  (`StaysInv`), that hosts are its own from the request to the settings of the view
  (`HostInv`, `SourceInv`), and that the date a page announces is that of the
  memento visited (`DateInv`). `ClosestMementoServed` puts the sort and the choice together.
  `GotIsSlice` and `NothingMissed` rest on `SliceInv`: while a client continues, what
  it has is the part of its slice before the offset of its next request, and a client
  that is done has the whole slice. `NextOffset` says that the number in a next link
  and the offset that the router makes of it agree, `LastPageIsLast` that a total
  which is not too low has no next link only on the last page, and `SlicesJoin` that a
  page after a slice is a longer slice. The assumption `CrawlAssumption` gives the
  types of the configuration and of requests; a page parameter made of digits is not
  negative.
* `OrderLemmas`: finite sets of integers have a smallest and a largest element.

So each invariant and each action property that a run checks is proved. Only
model-checked is what needs fairness, since TLAPS cannot reason about `ENABLED`:
`EveryQueryCloses` and the liveness of `IsConcatenation`, `ReloadEndsOrStalls`,
`CleanTermination`, `EveryRequestEnds`, `EveryRequestGetsTotal`, `WorkerListens`,
`ConnectionsEnd` and `CrawlEnds`. What `Subsequence`, a recursive function, computes
is known by what `AnswerIsFound` needs of it: choosing the same positions gives the
same result, of the right type; an induction that compares it with a definition
without recursion is out of reach, and its definition is short enough to read.

## Not modelled, and why

In the request pipeline, errors that a datasource emits after its stream has ended:
the stream has detached its listener by then, so they end the process or are lost.
`SparqlDatasource` has them.

The WebID extension cannot be constructed (its constructor calls a class without
`new`). The summary controller streams one file to one response and keeps no
state; its error after the view has started is listed as a hazard.

In `FragmentCrawl`, the order of the quads of a datasource does not change between
pages. The SPARQL queries have no `ORDER BY`, so an endpoint may order each page
differently; nothing the server does could be checked then. Predicates are not
translated by `select()`, and are left out. Requests other than GET do not
crawl. The previous link, which clients do not follow here, is left out.

Serialisation (RDF writers, templates, SPARQL text, routers' regular
expressions) is data conversion without state; parsers and HTTP are libraries;
assets are read once and served; configuration and dependency injection
(`componentsjs`, presets, `migrate-config`) run once before anything else.

## Plan

Done: every component that keeps state or depends on the order of events. What
could be added:

1. A composition of `ClusterMaster` and `WorkerLifecycle`, in which a worker
   listens because its datasources settle: a SIGINT during its load would then
   meet a master that waits for it.
2. Two renderings of one response, for the late error of the summary controller.
