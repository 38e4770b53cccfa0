--------------------------- MODULE FragmentCrawl ---------------------------
(***************************************************************************)
(* Clients that read fragments page by page.  A client asks for a pattern, *)
(* of a datasource or of a timegate, and follows the link to the next page *)
(* as long as there is one.  A request is handled in two turns of the      *)
(* event loop: first the controllers negotiate the time, route the request *)
(* to a datasource and start its query; later, the results come in and the *)
(* page is finished.  In between, other requests are handled.              *)
(***************************************************************************)
EXTENDS Timegate, Selection

CONSTANTS
  Clients,
  Worlds,     \* configurations of the server, with the data it serves
  Requests,   \* Requests[c]: what client c may ask first
  PageSize,
  Estimates,  \* the total counts that estimating datasources may report
  MaxNow,     \* bound of the clock
  MaxPage     \* bound of the page numbers that clients follow

\* Datasources that are searched in the server, and "remote" ones: a SPARQL
\* endpoint, the external HDT utility, or a composite of datasources.
Kinds == {"memory", "hdt", "remote", "failed"}
Formats == {"rdf", "html"}
Routes == {"direct", "forwarded", "xforwarded", "silent"}
Gate == "gate"         \* the path of the timegate
Internal == "internal" \* the host by which a proxy knows the server
NoHost == "none"
Absent == -2           \* there is no Accept-Datetime header

\* A page parameter: whether it is made of digits only, and the number that
\* parseInt reads from it (0 if there is none).
PageParameters == [digits : BOOLEAN, int : Int]
NoPage == [digits |-> FALSE, int |-> 0]
Page(n) == [digits |-> TRUE, int |-> n]

\* The quads and the options of a datasource; HDT documents hold triples only.
IsStore(store) ==
  /\ store.kind \in Kinds /\ store.quads \in BOOLEAN
  /\ store.graph = Unbound \/ (store.graph \in Terms /\ store.graph.type = "iri")
  /\ store.content \in Seq([Positions -> DataTerms])
  /\ store.kind = "hdt" => \A i \in DOMAIN store.content : store.content[i].graph = Default

ASSUME CrawlAssumption ==
  /\ PageSize \in Nat /\ PageSize > 1
  /\ MaxNow \in Nat /\ MaxPage \in Nat
  /\ Estimates \subseteq Nat
  /\ \A w \in Worlds :
       /\ \A d \in DOMAIN w.stores : IsStore(w.stores[d])
       /\ Gate \notin DOMAIN w.stores
       /\ w.versions \in Seq([datasource : DOMAIN w.stores, start : Nat, end : Dates])
       /\ \E i \in DOMAIN w.controllers : w.controllers[i] = "timegate"
  /\ \A c \in Clients : \A r \in Requests[c] :
       /\ r.page \in PageParameters /\ (r.page.digits => r.page.int >= 0)
       /\ r.route \in Routes /\ r.host # NoHost /\ r.format \in Formats
       /\ r.accept \in Dates \cup {Absent}
       /\ \A p \in Positions : r.pattern[p] \in QueryTerms

VARIABLES
  world,     \* the configuration of this server; it does not change
  now,       \* the clock
  owner,     \* owner[d]: the host in the URLs last assigned to the object of d
  request,   \* request[c]: what client c asked first
  url,       \* url[c]: the host, path and page of its current request
  pc,        \* "idle", "asking", "selecting", "done" or "refused"
  fragment,  \* fragment[c]: what the controllers made of its current request
  page,      \* page[c]: the hosts and the date that its last page names
  got,       \* got[c]: the quads it has received
  visited,   \* the datasources it received pages of (history)
  negotiated \* the date that the timegate chose for, and its choice (history)

clientVars == <<request, url, pc, fragment, page, got, visited, negotiated>>
vars == <<world, now, owner, clientVars>>

Stores == world.stores

NoRequest == [path |-> Gate, pattern |-> [p \in Positions |-> Unbound], page |-> NoPage,
              host |-> NoHost, route |-> "direct", accept |-> Absent, format |-> "rdf"]
NoFragment == [datasource |-> "none", offset |-> 0, page |-> 0, host |-> NoHost]

Init ==
  /\ world \in Worlds
  /\ now = 0
  /\ owner = [d \in DOMAIN world.stores |-> world.baseHost]
  /\ request = [c \in Clients |-> NoRequest]
  /\ url = [c \in Clients |-> [host |-> NoHost, path |-> Gate, page |-> NoPage]]
  /\ pc = [c \in Clients |-> "idle"]
  /\ fragment = [c \in Clients |-> NoFragment]
  /\ page = [c \in Clients |-> [controls |-> NoHost, source |-> NoHost, datetime |-> NaN]]
  /\ got = [c \in Clients |-> <<>>]
  /\ visited = [c \in Clients |-> {}]
  /\ negotiated = [c \in Clients |-> [date |-> NaN, path |-> Gate]]

-----------------------------------------------------------------------------
(* The controllers.                                                        *)

Timemap == SortTimemap(world.versions)

\* The worker puts the controllers that have to be first in front and those that
\* have to be last at the end, and keeps their order otherwise.
Group(controller) ==
  IF controller = "timegate" THEN 0 ELSE IF controller = "notfound" THEN 2 ELSE 1

Precedes(controllers, i, j) ==
  \/ Group(controllers[i]) < Group(controllers[j])
  \/ Group(controllers[i]) = Group(controllers[j]) /\ i < j

\* The timegate has its turn before the fragments controller.
NegotiatesFirst ==
  \E i \in DOMAIN world.controllers :
    /\ world.controllers[i] = "timegate"
    /\ \A j \in DOMAIN world.controllers :
         world.controllers[j] = "fragments" => Precedes(world.controllers, i, j)

AcceptDatetime(c) == IF request[c].accept = Absent THEN now ELSE request[c].accept

\* The path of the request after the timegate had its turn: that of the memento
\* in place of its own.
NegotiatedPath(c) ==
  LET memento == ClosestMemento(Timemap, AcceptDatetime(c))
  IN  IF url[c].path = Gate /\ NegotiatesFirst /\ memento # NoMemento
        THEN memento.datasource ELSE url[c].path

\* The host in the headers of a proxy, Forwarded or X-Forwarded-Host.
ForwardedHost(c) == IF request[c].route \in {"forwarded", "xforwarded"} THEN url[c].host ELSE NoHost

\* The host by which the server knows itself: from the headers of a proxy, or
\* from its base URL, or from the request.
PublicHost(c) ==
  IF ForwardedHost(c) # NoHost THEN ForwardedHost(c)
  ELSE IF world.baseHost # NoHost THEN world.baseHost
  ELSE IF request[c].route = "silent" THEN Internal
  ELSE url[c].host

\* Mutant: a page 0 gets an offset, too.
OffsetOfAnyPage(p) == IF p.digits THEN PageSize * (p.int - 1) ELSE 0

\* The router: page numbers from 2 on make an offset.
Offset(p) == IF p.digits /\ p.int > 1 THEN PageSize * (p.int - 1) ELSE 0

\* The controller: the number of the page for the links to other pages.
CurrentPage(p) == IF p.int # 0 THEN p.int ELSE 1

\* The router of patterns: a query with a graph needs the feature of quads.
UsesQuads(pattern) == pattern.graph # Unbound

SupportsQuery(d, pattern) ==
  Stores[d].kind # "failed" /\ (UsesQuads(pattern) => Stores[d].quads)

Serves(path, pattern) == path \in DOMAIN Stores /\ SupportsQuery(path, pattern)

-----------------------------------------------------------------------------
(* The results.                                                            *)

\* Mutant: the estimate of HDT stays below what was found.
RaisedNot(estimate, offset, found) == estimate

\* HDT: the total is raised to cover the page, and a full one points further.
Raised(estimate, offset, found) ==
  IF found > 0 /\ estimate < offset + found
    THEN offset + (IF found < PageSize THEN found ELSE 2 * found)
    ELSE estimate

\* The quads of the page at an offset.
PageOf(quads, offset) ==
  LET end == IF offset + PageSize < Len(quads) THEN offset + PageSize ELSE Len(quads)
  IN  SubSeq(quads, offset + 1, end)

\* A datasource that searches its quads itself.
Local(d) == Stores[d].kind \in {"memory", "hdt"}

\* Any page of quads of a store.
AnyPages(store) ==
  UNION {[1 .. n -> {store.content[i] : i \in DOMAIN store.content}] : n \in 0 .. PageSize}

\* The pages that d may answer with.  Another program answers for a remote
\* datasource, after its own reading of the pattern and in its own order; a
\* composite counts on estimates that may be those of other patterns.
Pages(d, pattern, offset) ==
  IF Local(d) THEN {PageOf(Found(Stores[d], pattern), offset)} ELSE AnyPages(Stores[d])

\* The totals that HDT may report: it only searches the default graph.
HdtTotals(d, pattern, offset, found) ==
  IF QueryGraph(Stores[d], pattern.graph) \in {Unbound, Default}
    THEN {Raised(e, offset, found) : e \in Estimates}
    ELSE {0}

\* The total counts that d may report with a page of so many quads: N3 stores
\* count, HDT estimates, and nothing is known of the numbers of the others.
Totals(d, pattern, offset, found) ==
  CASE Stores[d].kind = "memory" -> {Len(Found(Stores[d], pattern))}
    [] Stores[d].kind = "hdt" -> HdtTotals(d, pattern, offset, found)
    [] OTHER -> Estimates

\* Mutant: the link to the next page does not look at the offset.
HasNextFromStart(total, offset) == total >= PageSize

\* The RDF views compare the total with the limit of the page, and HTML pages
\* with what the page shows.
HasNextInRdf(total, offset) == total >= PageSize + offset

HasNextInHtml(total, offset, found) == total > offset + found

HasNext(format, total, offset, found) ==
  \/ format = "rdf" /\ HasNextInRdf(total, offset)
  \/ format = "html" /\ HasNextInHtml(total, offset, found)

\* Mutant: the links come from the URL that the client asked first.
NextLinkAsAsked(c) ==
  [host |-> fragment[c].host, path |-> request[c].path, page |-> Page(fragment[c].page + 1)]

\* The link to the next page: the negotiated path with the same pattern.
NextLink(c) ==
  [host |-> fragment[c].host, path |-> fragment[c].datasource, page |-> Page(fragment[c].page + 1)]

\* Mutant: the controls of RDF pages are written with the results.
ControlsWithResults(c) == owner[fragment[c].datasource]

\* The RDF views write the controls in the turn that assigns the URLs to the
\* object of the datasource; the HTML page is written after the results, with
\* the URLs that the object has by then.
ControlsInRdf(c) == fragment[c].host

ControlsInHtml(c) == owner[fragment[c].datasource]

Controls(c) == IF request[c].format = "rdf" THEN ControlsInRdf(c) ELSE ControlsInHtml(c)

\* The header Memento-Datetime of the pages of d.
DatetimeHeader(d) == MementoDatetime(Timemap, d)

-----------------------------------------------------------------------------
(* The actions.                                                            *)

\* A client asks for the first time.
Ask(c) ==
  /\ pc[c] = "idle"
  /\ \E r \in Requests[c] :
       /\ request' = [request EXCEPT ![c] = r]
       /\ url' = [url EXCEPT ![c] = [host |-> r.host, path |-> r.path, page |-> r.page]]
  /\ pc' = [pc EXCEPT ![c] = "asking"]
  /\ UNCHANGED <<world, now, owner, fragment, page, got, visited, negotiated>>

Tick ==
  /\ now < MaxNow
  /\ now' = now + 1
  /\ UNCHANGED <<world, owner, clientVars>>

\* The controllers handle a request: the URLs of the answer are assigned to the
\* object of the datasource and the query starts; without such a datasource,
\* the request is left to the controller of missing pages.
HandleRequest(c) ==
  LET path == NegotiatedPath(c)
  IN  /\ pc[c] = "asking"
      /\ url[c].page.int <= MaxPage
      /\ negotiated' = IF url[c].path = Gate
                         THEN [negotiated EXCEPT ![c] = [date |-> AcceptDatetime(c), path |-> path]]
                         ELSE negotiated
      /\ \/ /\ Serves(path, request[c].pattern)
            /\ owner' = [owner EXCEPT ![path] = PublicHost(c)]
            /\ fragment' = [fragment EXCEPT ![c] =
                 [datasource |-> path, offset |-> Offset(url[c].page),
                  page |-> CurrentPage(url[c].page), host |-> PublicHost(c)]]
            /\ pc' = [pc EXCEPT ![c] = "selecting"]
         \/ /\ ~Serves(path, request[c].pattern)
            /\ pc' = [pc EXCEPT ![c] = "refused"]
            /\ UNCHANGED <<owner, fragment>>
      /\ UNCHANGED <<world, now, request, url, page, got, visited>>

\* The results of the datasource arrive, and the client gets its page.
Respond(c) ==
  LET d == fragment[c].datasource
      offset == fragment[c].offset
  IN  /\ pc[c] = "selecting"
      /\ page' = [page EXCEPT ![c] = [controls |-> Controls(c), source |-> owner[d],
                                      datetime |-> DatetimeHeader(d)]]
      /\ visited' = [visited EXCEPT ![c] = @ \cup {d}]
      /\ \E quads \in Pages(d, request[c].pattern, offset) :
           /\ got' = [got EXCEPT ![c] = @ \o [i \in DOMAIN quads |-> Published(Stores[d], quads[i])]]
           /\ \E total \in Totals(d, request[c].pattern, offset, Len(quads)) :
                \/ /\ HasNext(request[c].format, total, offset, Len(quads))
                   /\ url' = [url EXCEPT ![c] = NextLink(c)]
                   /\ pc' = [pc EXCEPT ![c] = "asking"]
                \/ /\ ~HasNext(request[c].format, total, offset, Len(quads))
                   /\ pc' = [pc EXCEPT ![c] = "done"]
                   /\ UNCHANGED url
      /\ UNCHANGED <<world, now, owner, request, fragment, negotiated>>

Next ==
  \/ Tick
  \/ \E c \in Clients : Ask(c) \/ HandleRequest(c) \/ Respond(c)

Spec == Init /\ [][Next]_vars

\* The server handles what it is asked, its datasources answer, and clients
\* follow the links.
FairSpec ==
  Spec /\ \A c \in Clients : WF_vars(HandleRequest(c)) /\ WF_vars(Respond(c))

-----------------------------------------------------------------------------
(* What the clients may rely on.                                           *)

TypeOK ==
  /\ world \in Worlds
  /\ now \in 0 .. MaxNow
  /\ pc \in [Clients -> {"idle", "asking", "selecting", "done", "refused"}]
  /\ \A c \in Clients :
       /\ request[c] \in Requests[c] \cup {NoRequest}
       /\ url[c].page \in PageParameters
       /\ fragment[c].offset \in Nat /\ fragment[c].page \in Int
       /\ visited[c] \subseteq DOMAIN Stores
       /\ pc[c] = "selecting" =>
            Serves(fragment[c].datasource, request[c].pattern)
       /\ negotiated[c].date \in Dates

\* The page parameter of the first request is one that the server's own links
\* could have had.
ProperStart(c) == request[c].page.digits \/ request[c].page = NoPage

\* What c is to receive from its first page on.
Wanted(c, d) ==
  LET answer == Answer(Stores[d], request[c].pattern)
      first == IF request[c].page.int > 1 THEN PageSize * (request[c].page.int - 1) ELSE 0
  IN  SubSeq(answer, first + 1, Len(answer))

\* Page after page, a client of an in-memory or HDT datasource receives the
\* published quads that match its pattern, in the order of the datasource and none
\* of them twice, wherever it starts.
GotIsSlice ==
  \A c \in Clients : \A d \in visited[c] :
    ProperStart(c) /\ Local(d) /\ Regular(Stores[d]) =>
      /\ Len(got[c]) <= Len(Wanted(c, d))
      /\ got[c] = SubSeq(Wanted(c, d), 1, Len(got[c]))

\* An estimate of HDT that is the very end of a full page is not raised: the RDF
\* views link to a next page, but an HTML page does not.
MayStopShort(c, d) == request[c].format = "html" /\ Stores[d].kind = "hdt"

\* When there is no next page of an in-memory or HDT datasource, the client has
\* received everything that matches, however HDT estimates, unless an HTML page
\* takes an estimate for the end.
NothingMissed ==
  \A c \in Clients : \A d \in visited[c] :
    pc[c] = "done" /\ ProperStart(c) /\ Local(d) /\ Regular(Stores[d]) /\ ~MayStopShort(c, d) =>
      got[c] = Wanted(c, d)

\* The server knows c by the host that c uses.
OwnHost(c) ==
  \/ request[c].route \in {"forwarded", "xforwarded"}
  \/ request[c].route = "direct" /\ world.baseHost \in {NoHost, request[c].host}

\* All clients are known by the host that c uses.
OneHost(c) ==
  \A e \in Clients : pc[e] # "idle" => OwnHost(e) /\ request[e].host = request[c].host

\* A client that is known to the server by the host it uses finds that host in
\* the links, and in the controls of RDF pages, whatever others ask at the same
\* time.  The controls of HTML pages and the source that a page names are right
\* if all clients use the same host.
ControlsAreOwn ==
  \A c \in Clients : visited[c] # {} /\ OwnHost(c) =>
    /\ url[c].host = request[c].host
    /\ request[c].format = "rdf" \/ OneHost(c) => page[c].controls = request[c].host
    /\ OneHost(c) => page[c].source = request[c].host

\* All pages of a crawl are of one datasource, also if the clock moves on while
\* a client crawls from a timegate.
OneMemento == \A c \in Clients : \A d, e \in visited[c] : d = e

\* A timegate answers for a version that is closest to the date, if the intervals
\* of the versions are orderly.
ClosestMementoServed ==
  \A c \in Clients :
    negotiated[c].date # NaN /\ world.versions # <<>> /\ Orderly(world.versions) =>
      \E i \in DOMAIN world.versions :
        /\ world.versions[i].datasource = negotiated[c].path
        /\ IsClosest(world.versions, world.versions[i], negotiated[c].date)

\* The date that a memento announces leads a timegate back to that memento, if
\* no two versions share a date and the memento starts on a whole second.
DatetimeLeadsBack ==
  \A c \in Clients :
    page[c].datetime # NaN /\ Separate(world.versions) /\ StartsWhole(world.versions, visited[c]) =>
      ClosestMemento(Timemap, page[c].datetime).datasource \in visited[c]

\* Every crawl comes to an end, however the totals are estimated.
CrawlEnds == \A c \in Clients : pc[c] = "asking" ~> pc[c] \in {"done", "refused"}
=============================================================================
