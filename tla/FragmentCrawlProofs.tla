------------------------ MODULE FragmentCrawlProofs ------------------------
(***************************************************************************)
(* Theorems about clients that read fragments page by page, for any number *)
(* of clients and datasources, any data and any timemap.                   *)
(***************************************************************************)
EXTENDS FragmentCrawl, SelectionProofs, SequenceTheorems, TLAPS

\* The variables of the clients are functions of the clients.
Shape ==
  /\ DOMAIN request = Clients /\ DOMAIN url = Clients /\ DOMAIN fragment = Clients
  /\ DOMAIN page = Clients /\ DOMAIN visited = Clients /\ DOMAIN negotiated = Clients
  /\ DOMAIN owner = DOMAIN world.stores

\* A client stays with the datasource of its first page.
StaysInv ==
  \A c \in Clients :
    /\ pc[c] = "idle" => visited[c] = {}
    /\ \A d \in visited[c] :
         /\ visited[c] = {d}
         /\ pc[c] = "asking" => url[c].path = d
         /\ pc[c] = "selecting" => fragment[c].datasource = d

\* What a client that is known by its own host has got from the server.
HostInv ==
  \A c \in Clients : pc[c] # "idle" /\ OwnHost(c) =>
    /\ url[c].host = request[c].host
    /\ pc[c] = "selecting" => fragment[c].host = request[c].host
    /\ visited[c] # {} /\ request[c].format = "rdf" => page[c].controls = request[c].host

\* All active clients use host h, and the server knows them by it.
AllUse(h) == \A e \in Clients : pc[e] # "idle" => OwnHost(e) /\ request[e].host = h

SourceInv ==
  \A c \in Clients : pc[c] # "idle" /\ AllUse(request[c].host) =>
    /\ pc[c] = "selecting" => owner[fragment[c].datasource] = request[c].host
    /\ visited[c] # {} => page[c].source = request[c].host /\ page[c].controls = request[c].host

Inv == /\ Shape
       /\ TypeOK
       /\ StaysInv
       /\ HostInv
       /\ SourceInv
       /\ ClosestMementoServed

\* The part of TypeOK about one client.
Typed(c) ==
  /\ request[c] \in Requests[c] \cup {NoRequest}
  /\ url[c].page \in PageParameters
  /\ fragment[c].offset \in Nat /\ fragment[c].page \in Int
  /\ visited[c] \subseteq DOMAIN Stores
  /\ pc[c] = "selecting" => Serves(fragment[c].datasource, request[c].pattern)
  /\ negotiated[c].date \in Dates

-----------------------------------------------------------------------------
(* Requests, pages and offsets.                                            *)

LEMMA RequestFields ==
  ASSUME NEW c \in Clients, NEW r \in Requests[c] \cup {NoRequest}
  PROVE  /\ r.page \in PageParameters /\ r.accept \in Dates \cup {Absent}
         /\ r.route \in Routes /\ r.format \in Formats
<1>1. NoPage \in PageParameters /\ NoRequest.page = NoPage
  BY DEF NoPage, PageParameters, NoRequest
<1>2. NoRequest.accept = Absent /\ NoRequest.route = "direct" /\ NoRequest.format = "rdf"
  BY DEF NoRequest
<1>3. CASE r = NoRequest
  BY <1>1, <1>2, <1>3 DEF Routes, Formats
<1>4. CASE r \in Requests[c]
  BY <1>4, CrawlAssumption
<1> QED
  BY <1>3, <1>4

LEMMA PageIsParameter ==
  ASSUME NEW n \in Int PROVE Page(n) \in PageParameters
BY DEF Page, PageParameters

LEMMA OffsetType ==
  ASSUME NEW p \in PageParameters
  PROVE  Offset(p) \in Nat /\ CurrentPage(p) \in Int
<1>1. p.int \in Int
  BY DEF PageParameters
<1>2. CurrentPage(p) \in Int
  BY <1>1 DEF CurrentPage
<1>3. CASE p.digits /\ p.int > 1
  <2>1. p.int - 1 \in Nat /\ PageSize \in Nat
    BY <1>1, <1>3, CrawlAssumption
  <2>2. \A m, n \in Nat : m * n \in Nat
    OBVIOUS
  <2>3. PageSize * (p.int - 1) \in Nat
    BY <2>1, <2>2
  <2> QED
    BY <1>2, <1>3, <2>3 DEF Offset
<1>4. CASE ~(p.digits /\ p.int > 1)
  BY <1>2, <1>4 DEF Offset
<1> QED
  BY <1>3, <1>4

\* In RDF, however low HDT estimates, a full page is never the last one: the
\* raised total leaves room for another.  A page that is not full is the last one,
\* unless the estimate itself promises more (HdtDatasource, sendFragmentMetadata).
THEOREM FullPageHasNext ==
  ASSUME NEW estimate \in Nat, NEW offset \in Nat, NEW found \in 1 .. PageSize
  PROVE  /\ found = PageSize => HasNextInRdf(Raised(estimate, offset, found), offset)
         /\ found < PageSize /\ estimate < offset + PageSize =>
              ~HasNextInRdf(Raised(estimate, offset, found), offset)
BY CrawlAssumption DEF HasNextInRdf, Raised

-----------------------------------------------------------------------------
(* The negotiation.                                                        *)

LEMMA TimegateIsFirst ==
  ASSUME world \in Worlds PROVE NegotiatesFirst
<1>1. PICK i \in DOMAIN world.controllers : world.controllers[i] = "timegate"
  BY CrawlAssumption
<1>2. ASSUME NEW j \in DOMAIN world.controllers, world.controllers[j] = "fragments"
      PROVE  Precedes(world.controllers, i, j)
  BY <1>1, <1>2 DEF Precedes, Group
<1> QED
  BY <1>1, <1>2 DEF NegotiatesFirst

LEMMA VersionFields ==
  ASSUME NEW w \in Worlds, NEW i \in DOMAIN w.versions
  PROVE  /\ w.versions[i].datasource \in DOMAIN w.stores
         /\ w.versions[i].start \in Nat /\ w.versions[i].end \in Dates
<1> DEFINE V == [datasource : DOMAIN w.stores, start : Nat, end : Dates]
<1>1. w.versions \in Seq(V)
  BY CrawlAssumption
<1>2. w.versions[i] \in V
  <2> HIDE DEF V
  <2> QED
    BY <1>1, LenProperties
<1> QED
  BY <1>2

LEMMA OrderlyKept ==
  ASSUME NEW s, NEW t, Orderly(t),
         \A k \in DOMAIN s : \E l \in DOMAIN t : s[k] = t[l]
  PROVE  Orderly(s)
<1>1. ASSUME NEW i \in DOMAIN s
      PROVE  s[i].start <= s[i].end
  BY <1>1 DEF Orderly
<1>2. ASSUME NEW i \in DOMAIN s, NEW j \in DOMAIN s, s[i].start <= s[j].start
      PROVE  s[i].end <= s[j].end
  <2>1. PICK k \in DOMAIN t : s[i] = t[k]
    OBVIOUS
  <2>2. PICK l \in DOMAIN t : s[j] = t[l]
    OBVIOUS
  <2> QED
    BY <1>2, <2>1, <2>2 DEF Orderly
<1> QED
  BY <1>1, <1>2 DEF Orderly

\* The timegate chooses a closest version of the configured ones.
LEMMA TimegateChoosesClosest ==
  ASSUME NEW w \in Worlds, w.versions # <<>>, Orderly(w.versions), NEW date \in Nat
  PROVE  \E i \in DOMAIN w.versions :
           /\ ClosestMemento(SortTimemap(w.versions), date) = w.versions[i]
           /\ IsClosest(w.versions, w.versions[i], date)
<1> DEFINE V == [datasource : DOMAIN w.stores, start : Nat, end : Dates]
           s == w.versions
           tm == SortTimemap(s)
<1>1. s \in Seq(V)
  BY CrawlAssumption
<1>2. /\ Len(s) \in Nat /\ DOMAIN s = 1 .. Len(s) /\ Len(s) # 0
      /\ \A i \in DOMAIN s : s[i] \in V
  <2> HIDE DEF V
  <2> QED
    BY <1>1, EmptySeq, LenProperties
<1>3. \A v \in V : v.start \in Nat /\ v.end \in Dates
  OBVIOUS
<1>4. IsTimemap(s)
  BY <1>2, <1>3 DEF IsTimemap
<1>5. /\ DOMAIN tm = DOMAIN s
      /\ \A k \in DOMAIN tm : \E i \in DOMAIN s : tm[k] = s[i]
      /\ \A i \in DOMAIN s : \E k \in DOMAIN tm : tm[k] = s[i]
      /\ Sorted(tm)
  BY <1>4, SortTimemapSorts DEF Sorted
<1>6. tm \in Seq(V) /\ Len(tm) = Len(s)
  <2>1. tm = [k \in 1 .. Len(s) |-> tm[k]]
    BY <1>2, SortIsAt
  <2>2. \A k \in 1 .. Len(s) : tm[k] \in V
    BY <1>2, <1>5
  <2> HIDE DEF tm, s, V
  <2> QED
    BY <1>2, <2>1, <2>2
<1>7. IsTimemap(tm) /\ tm # <<>> /\ Len(tm) # 0
  BY <1>2, <1>3, <1>5, <1>6 DEF IsTimemap
<1>8. Orderly(tm)
  BY <1>5, OrderlyKept
<1> HIDE DEF tm
<1>9. PICK k \in DOMAIN tm : ClosestMemento(tm, date) = tm[k] /\ IsClosest(tm, tm[k], date)
  BY <1>5, <1>7, <1>8, ClosestMementoIsClosest
<1>10. PICK i \in DOMAIN s : tm[k] = s[i]
  BY <1>5
<1>11. IsClosest(s, s[i], date)
  \* which version is closest only depends on the set of the versions
  <2>1. {tm[l] : l \in DOMAIN tm} = {s[l] : l \in DOMAIN s}
    BY <1>5
  <2> QED
    BY <1>9, <1>10, <2>1 DEF IsClosest
<1>12. ClosestMemento(SortTimemap(s), date) = s[i]
  BY <1>9, <1>10 DEF tm
<1> HIDE DEF s
<1>13. \E j \in DOMAIN s : /\ ClosestMemento(SortTimemap(s), date) = s[j]
                           /\ IsClosest(s, s[j], date)
  BY <1>10, <1>11, <1>12
<1> QED
  BY <1>13 DEF s

LEMMA AcceptType ==
  ASSUME NEW c \in Clients, Typed(c), now \in 0 .. MaxNow
  PROVE  AcceptDatetime(c) \in Dates
<1>1. request[c].accept \in Dates \cup {Absent}
  BY RequestFields DEF Typed
<1>2. now \in Nat
  BY CrawlAssumption
<1> QED
  BY <1>1, <1>2 DEF AcceptDatetime, Dates
-----------------------------------------------------------------------------
(* The invariant.                                                          *)

LEMMA TypeOKSplit ==
  TypeOK <=> /\ world \in Worlds /\ now \in 0 .. MaxNow
             /\ pc \in [Clients -> {"idle", "asking", "selecting", "done", "refused"}]
             /\ \A c \in Clients : Typed(c)
BY DEF TypeOK, Typed

LEMMA InvInit == Init => Inv
<1> SUFFICES ASSUME Init PROVE Inv
  OBVIOUS
<1>1. Shape
  BY DEF Init, Shape
<1>2. ASSUME NEW c \in Clients
      PROVE  /\ request[c] = NoRequest /\ url[c].page = NoPage /\ pc[c] = "idle"
             /\ fragment[c].offset = 0 /\ fragment[c].page = 0
             /\ visited[c] = {} /\ negotiated[c].date = NaN
  BY DEF Init, NoFragment
<1>3. \A c \in Clients : Typed(c)
  <2>1. NoPage \in PageParameters
    BY DEF NoPage, PageParameters
  <2> QED
    BY <1>2, <2>1 DEF Typed, Dates
<1>4. TypeOK
  <2>1. now \in 0 .. MaxNow /\ world \in Worlds
    BY CrawlAssumption DEF Init
  <2>2. pc \in [Clients -> {"idle", "asking", "selecting", "done", "refused"}]
    BY DEF Init
  <2> QED
    BY <1>3, <2>1, <2>2, TypeOKSplit
<1>5. StaysInv /\ HostInv /\ SourceInv /\ ClosestMementoServed
  BY <1>2 DEF StaysInv, HostInv, SourceInv, ClosestMementoServed
<1> QED
  BY <1>1, <1>4, <1>5 DEF Inv

\* A step of client c leaves the other clients alone.
Others(c) ==
  \A e \in Clients \ {c} :
    /\ pc'[e] = pc[e] /\ request'[e] = request[e] /\ url'[e] = url[e]
    /\ fragment'[e] = fragment[e] /\ page'[e] = page[e] /\ visited'[e] = visited[e]
    /\ negotiated'[e] = negotiated[e]

\* What the invariant needs to know of a step: that it holds for the client of
\* the step, and the hosts of the others stay right.
LEMMA StepOfClient ==
  ASSUME Inv, NEW c \in Clients, Others(c), Shape', world' = world, now' = now,
         pc' \in [Clients -> {"idle", "asking", "selecting", "done", "refused"}],
         Typed(c)',
         pc'[c] = "idle" => visited'[c] = {},
         \A d \in visited'[c] : /\ visited'[c] = {d}
                                /\ pc'[c] = "asking" => url'[c].path = d
                                /\ pc'[c] = "selecting" => fragment'[c].datasource = d
  PROVE  Shape' /\ TypeOK' /\ StaysInv'
<1>1. \A e \in Clients : Typed(e)'
  <2>1. \A e \in Clients : Typed(e)
    BY TypeOKSplit DEF Inv
  <2>2. \A e \in Clients \ {c} : Typed(e)'
    BY <2>1 DEF Others, Typed, Stores, Serves, SupportsQuery
  <2> QED
    BY <2>2
<1>2. TypeOK'
  <2>1. world \in Worlds /\ now \in 0 .. MaxNow
    BY DEF Inv, TypeOK
  <2>2. world' \in Worlds /\ now' \in 0 .. MaxNow
    BY <2>1
  <2>3. \A e \in Clients : Typed(e)'
    BY <1>1
  <2> QED
    BY <2>2, <2>3 DEF TypeOK, Typed
<1>3. StaysInv'
  BY DEF Inv, StaysInv, Others
<1> QED
  BY <1>2, <1>3

LEMMA OwnHostKept ==
  ASSUME NEW c \in Clients, world' = world, request'[c] = request[c]
  PROVE  OwnHost(c)' = OwnHost(c)
BY DEF OwnHost

LEMMA AskStep ==
  ASSUME Inv, NEW c \in Clients, Ask(c) PROVE Inv'
<1>1. /\ Shape' /\ Others(c) /\ pc[c] = "idle" /\ pc'[c] = "asking"
      /\ pc' \in [Clients -> {"idle", "asking", "selecting", "done", "refused"}]
  BY DEF Ask, Inv, Shape, TypeOK, Others
<1>2. PICK r \in Requests[c] : request'[c] = r /\ url'[c].host = r.host /\ url'[c].page = r.page
  BY DEF Ask, Inv, Shape
<1>3. /\ world' = world /\ now' = now /\ owner' = owner /\ fragment' = fragment
      /\ page' = page /\ visited' = visited /\ negotiated' = negotiated
  BY DEF Ask
<1>4. visited[c] = {}
  BY <1>1 DEF Inv, StaysInv
<1>5. Typed(c)'
  <2>1. Typed(c)
    BY DEF Inv, TypeOK, Typed
  <2>2. r.page \in PageParameters
    BY RequestFields
  <2> QED
    BY <1>1, <1>2, <1>3, <2>1, <2>2 DEF Typed, Stores
<1>6. Shape' /\ TypeOK' /\ StaysInv'
  BY <1>1, <1>3, <1>4, <1>5, StepOfClient
<1>7. HostInv'
  BY <1>1, <1>2, <1>3, <1>4 DEF Inv, HostInv, OwnHost, Others
<1>8. SourceInv'
  <2> SUFFICES ASSUME NEW e \in Clients, pc'[e] # "idle", AllUse(request[e].host)'
               PROVE  /\ pc'[e] = "selecting" => owner'[fragment'[e].datasource] = request'[e].host
                      /\ visited'[e] # {} => /\ page'[e].source = request'[e].host
                                             /\ page'[e].controls = request'[e].host
    BY DEF SourceInv
  <2>1. CASE e = c
    BY <1>1, <1>3, <1>4, <2>1
  <2>2. CASE e # c
    <3>1. pc[e] # "idle" /\ request'[e] = request[e] /\ pc'[e] = pc[e]
      BY <1>1, <2>2 DEF Others
    <3>2. AllUse(request[e].host)
      BY <1>1, <1>3, <3>1 DEF AllUse, OwnHost, Others
    <3> QED
      BY <1>3, <3>1, <3>2 DEF Inv, SourceInv
  <2> QED
    BY <2>1, <2>2
<1>9. ClosestMementoServed'
  BY <1>3 DEF Inv, ClosestMementoServed
<1> QED
  BY <1>6, <1>7, <1>8, <1>9 DEF Inv

LEMMA HandleStep ==
  ASSUME Inv, NEW c \in Clients, HandleRequest(c) PROVE Inv'
<1> DEFINE target == NegotiatedPath(c)
           served == Serves(target, request[c].pattern)
<1>1. /\ world' = world /\ now' = now /\ request' = request /\ url' = url
      /\ page' = page /\ visited' = visited /\ pc[c] = "asking"
  BY DEF HandleRequest
<1>2. world \in Worlds /\ now \in 0 .. MaxNow /\ \A e \in Clients : Typed(e)
  BY TypeOKSplit DEF Inv
<1>3. /\ served => /\ owner' = [owner EXCEPT ![target] = PublicHost(c)]
                   /\ fragment' = [fragment EXCEPT ![c] =
                        [datasource |-> target, offset |-> Offset(url[c].page),
                         page |-> CurrentPage(url[c].page), host |-> PublicHost(c)]]
                   /\ pc' = [pc EXCEPT ![c] = "selecting"]
      /\ ~served => /\ owner' = owner /\ fragment' = fragment
                    /\ pc' = [pc EXCEPT ![c] = "refused"]
      /\ negotiated' = IF url[c].path = Gate
                         THEN [negotiated EXCEPT ![c] = [date |-> AcceptDatetime(c), path |-> target]]
                         ELSE negotiated
  BY DEF HandleRequest
<1>4. served => target \in DOMAIN Stores
  BY DEF Serves
<1> HIDE DEF target, served
<1>5. /\ Shape' /\ Others(c)
      /\ pc' \in [Clients -> {"idle", "asking", "selecting", "done", "refused"}]
      /\ pc'[c] = IF served THEN "selecting" ELSE "refused"
  BY <1>1, <1>3 DEF Inv, Shape, TypeOK, Others
<1>6. served => /\ fragment'[c].datasource = target /\ fragment'[c].host = PublicHost(c)
                /\ fragment'[c].offset = Offset(url[c].page)
                /\ fragment'[c].page = CurrentPage(url[c].page)
  BY <1>3 DEF Inv, Shape
<1>7. served => owner'[target] = PublicHost(c)
  BY <1>3, <1>4 DEF Inv, Shape, Stores
<1>8. url[c].path # Gate => target = url[c].path
  BY DEF NegotiatedPath, target
<1>9. Typed(c)'
  <2>1. AcceptDatetime(c) \in Dates
    BY <1>2, AcceptType
  <2>2. negotiated'[c].date \in Dates
    BY <1>2, <1>3, <2>1 DEF Inv, Shape, Typed
  <2>3. Offset(url[c].page) \in Nat /\ CurrentPage(url[c].page) \in Int
    BY <1>2, OffsetType DEF Typed
  <2>4. fragment'[c].offset \in Nat /\ fragment'[c].page \in Int
    BY <1>2, <1>3, <1>6, <2>3 DEF Typed
  <2>5. served => Serves(fragment[c].datasource, request[c].pattern)'
    BY <1>1, <1>6 DEF served, Serves, SupportsQuery, Stores
  <2> QED
    BY <1>1, <1>2, <1>5, <2>2, <2>4, <2>5 DEF Typed, Stores, Serves, SupportsQuery
<1>10. Shape' /\ TypeOK' /\ StaysInv'
  <2>1. Gate \notin visited[c]
    BY <1>2, CrawlAssumption DEF Typed, Stores
  <2>2. \A d \in visited[c] : visited[c] = {d} /\ url[c].path = d
    BY <1>1 DEF Inv, StaysInv
  <2>3. \A d \in visited'[c] : /\ visited'[c] = {d}
                               /\ pc'[c] = "asking" => url'[c].path = d
                               /\ pc'[c] = "selecting" => fragment'[c].datasource = d
    BY <1>1, <1>5, <1>6, <1>8, <2>1, <2>2
  <2>4. pc'[c] # "idle"
    BY <1>5
  <2> QED
    BY <1>1, <1>5, <1>9, <2>3, <2>4, StepOfClient
<1>11. OwnHost(c) => PublicHost(c) = request[c].host /\ url[c].host = request[c].host
  <2>1. OwnHost(c) => url[c].host = request[c].host
    BY <1>1 DEF Inv, HostInv
  <2>2. request[c].route \in {"forwarded", "xforwarded"} => request[c].host # NoHost
    <3>1. CASE request[c] = NoRequest
      BY <3>1 DEF NoRequest
    <3>2. CASE request[c] \in Requests[c]
      BY <3>2, CrawlAssumption
    <3> QED
      BY <1>2, <3>1, <3>2 DEF Typed
  <2> QED
    BY <2>1, <2>2 DEF OwnHost, PublicHost, ForwardedHost
<1>12. HostInv'
  BY <1>1, <1>5, <1>6, <1>11 DEF Inv, HostInv, OwnHost, Others
<1>13. SourceInv'
  <2> SUFFICES ASSUME NEW e \in Clients, pc'[e] # "idle", AllUse(request[e].host)'
               PROVE  /\ pc'[e] = "selecting" => owner'[fragment'[e].datasource] = request'[e].host
                      /\ visited'[e] # {} => /\ page'[e].source = request'[e].host
                                             /\ page'[e].controls = request'[e].host
    BY DEF SourceInv
  <2>1. \A x \in Clients : pc'[x] = "idle" <=> pc[x] = "idle"
    BY <1>1, <1>5 DEF Others
  <2>2. AllUse(request[e].host)
    BY <1>1, <2>1 DEF AllUse, OwnHost
  <2>3. visited'[e] # {} => /\ page'[e].source = request'[e].host
                           /\ page'[e].controls = request'[e].host
    BY <1>1, <2>1, <2>2 DEF Inv, SourceInv
  <2>4. PublicHost(c) = request[e].host
    BY <1>1, <1>11, <2>2 DEF AllUse
  <2>5. CASE e = c
    BY <1>1, <1>5, <1>6, <1>7, <2>3, <2>4, <2>5
  <2>6. CASE e # c /\ pc'[e] = "selecting"
    <3>1. pc[e] = "selecting" /\ fragment'[e] = fragment[e]
      BY <1>5, <2>6 DEF Others
    <3>2. owner[fragment[e].datasource] = request[e].host
      BY <2>2, <3>1 DEF Inv, SourceInv
    <3>3. fragment[e].datasource \in DOMAIN owner
      BY <1>2, <3>1 DEF Inv, Shape, Typed, Serves, Stores
    <3>4. owner'[fragment[e].datasource] = request[e].host
      BY <1>3, <2>4, <3>2, <3>3
    <3> QED
      BY <1>1, <2>3, <3>1, <3>4
  <2> QED
    BY <2>3, <2>5, <2>6
<1>14. ClosestMementoServed'
  <2> SUFFICES ASSUME NEW e \in Clients, negotiated'[e].date # NaN,
                      world.versions # <<>>, Orderly(world.versions)
               PROVE  \E i \in DOMAIN world.versions :
                        /\ world.versions[i].datasource = negotiated'[e].path
                        /\ IsClosest(world.versions, world.versions[i], negotiated'[e].date)
    BY <1>1 DEF ClosestMementoServed
  <2>1. CASE negotiated'[e] = negotiated[e]
    BY <2>1 DEF Inv, ClosestMementoServed
  <2>2. CASE negotiated'[e] # negotiated[e]
    <3>1. e = c /\ url[c].path = Gate
      BY <1>3, <1>5, <2>2 DEF Others
    <3>2. negotiated'[e].date = AcceptDatetime(c) /\ negotiated'[e].path = target
      BY <1>3, <3>1 DEF Inv, Shape
    <3>3. AcceptDatetime(c) \in Nat
      BY <1>2, <3>2, AcceptType DEF Dates
    <3>4. PICK i \in DOMAIN world.versions :
            /\ ClosestMemento(SortTimemap(world.versions), AcceptDatetime(c)) = world.versions[i]
            /\ IsClosest(world.versions, world.versions[i], AcceptDatetime(c))
      BY <1>2, <3>3, TimegateChoosesClosest
    <3>5. world.versions[i].datasource \in DOMAIN world.stores
          /\ world.versions[i].start \in Nat
      BY <1>2, VersionFields
    <3>6. world.versions[i] # NoMemento
      BY <3>5 DEF NoMemento, NaN
    <3>7. target = world.versions[i].datasource
      BY <1>2, <3>1, <3>4, <3>6, TimegateIsFirst DEF target, NegotiatedPath, Timemap
    <3> QED
      BY <3>2, <3>4, <3>7
  <2> QED
    BY <2>1, <2>2
<1> QED
  BY <1>10, <1>12, <1>13, <1>14 DEF Inv

LEMMA RespondStep ==
  ASSUME Inv, NEW c \in Clients, Respond(c) PROVE Inv'
<1>1. /\ world' = world /\ now' = now /\ owner' = owner /\ request' = request
      /\ fragment' = fragment /\ negotiated' = negotiated /\ pc[c] = "selecting"
  BY DEF Respond
<1>2. world \in Worlds /\ now \in 0 .. MaxNow /\ \A e \in Clients : Typed(e)
  BY TypeOKSplit DEF Inv
<1>3. /\ page' = [page EXCEPT ![c] =
           [controls |-> Controls(c), source |-> owner[fragment[c].datasource],
            datetime |-> DatetimeHeader(fragment[c].datasource)]]
      /\ visited' = [visited EXCEPT ![c] = @ \cup {fragment[c].datasource}]
  BY DEF Respond
<1>4. \/ /\ url' = [url EXCEPT ![c] = NextLink(c)]
         /\ pc' = [pc EXCEPT ![c] = "asking"]
      \/ url' = url /\ pc' = [pc EXCEPT ![c] = "done"]
  BY DEF Respond
<1>5. /\ Shape' /\ Others(c)
      /\ pc' \in [Clients -> {"idle", "asking", "selecting", "done", "refused"}]
      /\ pc'[c] \in {"asking", "done"}
  BY <1>1, <1>3, <1>4 DEF Inv, Shape, TypeOK, Others
<1>6. /\ page'[c].controls = IF request[c].format = "rdf" THEN fragment[c].host
                                ELSE owner[fragment[c].datasource]
      /\ page'[c].source = owner[fragment[c].datasource]
      /\ visited'[c] = visited[c] \cup {fragment[c].datasource}
  BY <1>3 DEF Inv, Shape, Controls, ControlsInRdf, ControlsInHtml
<1>7. \/ /\ pc'[c] = "asking" /\ url'[c].host = fragment[c].host
         /\ url'[c].path = fragment[c].datasource
         /\ url'[c].page = Page(fragment[c].page + 1)
      \/ pc'[c] = "done" /\ url'[c] = url[c]
  BY <1>4 DEF Inv, Shape, TypeOK, NextLink
<1>8. Typed(c)'
  <2>1. Typed(c)
    BY <1>2
  <2>2. Page(fragment[c].page + 1) \in PageParameters
    BY <2>1, PageIsParameter DEF Typed
  <2>3. fragment[c].datasource \in DOMAIN Stores
    BY <1>1, <2>1 DEF Typed, Serves
  <2> QED
    BY <1>1, <1>5, <1>6, <1>7, <2>1, <2>2, <2>3 DEF Typed, Stores
<1>9. Shape' /\ TypeOK' /\ StaysInv'
  <2>1. \A d \in visited[c] : visited[c] = {d} /\ fragment[c].datasource = d
    BY <1>1 DEF Inv, StaysInv
  <2>2. visited'[c] = {fragment[c].datasource}
    BY <1>6, <2>1
  <2>3. \A d \in visited'[c] : /\ visited'[c] = {d}
                               /\ pc'[c] = "asking" => url'[c].path = d
                               /\ pc'[c] = "selecting" => fragment'[c].datasource = d
    BY <1>5, <1>7, <2>2
  <2>4. pc'[c] # "idle"
    BY <1>5
  <2> QED
    BY <1>1, <1>5, <1>8, <2>3, <2>4, StepOfClient
<1>10. HostInv'
  BY <1>1, <1>5, <1>6, <1>7 DEF Inv, HostInv, OwnHost, Others
<1>11. SourceInv'
  <2> SUFFICES ASSUME NEW e \in Clients, pc'[e] # "idle", AllUse(request[e].host)'
               PROVE  /\ pc'[e] = "selecting" => owner'[fragment'[e].datasource] = request'[e].host
                      /\ visited'[e] # {} => /\ page'[e].source = request'[e].host
                                             /\ page'[e].controls = request'[e].host
    BY DEF SourceInv
  <2>1. \A x \in Clients : pc'[x] = "idle" <=> pc[x] = "idle"
    BY <1>1, <1>5 DEF Others
  <2>2. AllUse(request[e].host)
    BY <1>1, <2>1 DEF AllUse, OwnHost
  <2>3. CASE e = c
    <3>1. owner[fragment[c].datasource] = request[c].host
      BY <1>1, <2>2, <2>3 DEF Inv, SourceInv
    <3>2. fragment[c].host = request[c].host
      BY <1>1, <2>2, <2>3 DEF Inv, HostInv, AllUse
    <3> QED
      BY <1>1, <1>5, <1>6, <2>3, <3>1, <3>2
  <2>4. CASE e # c
    BY <1>1, <1>5, <2>1, <2>2, <2>4 DEF Inv, SourceInv, Others
  <2> QED
    BY <2>3, <2>4
<1>12. ClosestMementoServed'
  BY <1>1 DEF Inv, ClosestMementoServed
<1> QED
  BY <1>9, <1>10, <1>11, <1>12 DEF Inv

LEMMA TickStep ==
  ASSUME Inv, Tick PROVE Inv'
<1>1. world' = world /\ owner' = owner /\ clientVars' = clientVars
  BY DEF Tick
<1>2. TypeOK'
  <2>1. now' \in 0 .. MaxNow
    BY CrawlAssumption DEF Tick, Inv, TypeOK
  <2> QED
    BY <1>1, <2>1 DEF Inv, TypeOK, clientVars, Stores, Serves, SupportsQuery
<1> QED
  BY <1>1, <1>2 DEF Inv, Shape, StaysInv, HostInv, SourceInv, AllUse, OwnHost,
                    ClosestMementoServed, clientVars

LEMMA InvStep == Inv /\ [Next]_vars => Inv'
<1> SUFFICES ASSUME Inv, [Next]_vars PROVE Inv'
  OBVIOUS
<1>1. CASE Tick
  BY <1>1, TickStep
<1>2. ASSUME NEW c \in Clients, Ask(c) PROVE Inv'
  BY <1>2, AskStep
<1>3. ASSUME NEW c \in Clients, HandleRequest(c) PROVE Inv'
  BY <1>3, HandleStep
<1>4. ASSUME NEW c \in Clients, Respond(c) PROVE Inv'
  BY <1>4, RespondStep
<1>5. CASE UNCHANGED vars
  BY <1>5 DEF vars, clientVars, Inv, Shape, TypeOK, Stores, Serves, SupportsQuery, StaysInv,
              HostInv, SourceInv, AllUse, OwnHost, ClosestMementoServed
<1> QED
  BY <1>1, <1>2, <1>3, <1>4, <1>5 DEF Next

LEMMA InvAlways == Spec => []Inv
BY InvInit, InvStep, PTL DEF Spec

-----------------------------------------------------------------------------
(* The theorems.                                                           *)

\* The variables keep their types; in particular, a query is only started on a
\* datasource that supports it (supportsQuery).
THEOREM TypeCorrect == Spec => []TypeOK
<1>1. Inv => TypeOK
  BY DEF Inv
<1> QED
  BY <1>1, InvAlways, PTL

\* A crawl that starts at a timegate stays with one datasource, whatever the
\* clock and the other clients do (the rewritten URL of TimegateController).
THEOREM OneMementoPerCrawl == Spec => []OneMemento
<1>1. Inv => OneMemento
  BY DEF Inv, StaysInv, OneMemento
<1> QED
  BY <1>1, InvAlways, PTL

\* The links of a page and the controls of RDF pages name the host of the client
\* of that page (Controller, _generateControls), although all requests share the
\* objects of the datasources; so do the controls of HTML pages and the source if
\* all clients use one host (fragment.html).
THEOREM ControlsNameTheHost == Spec => []ControlsAreOwn
<1>1. Inv => ControlsAreOwn
  <2> SUFFICES ASSUME Inv, NEW c \in Clients, visited[c] # {}, OwnHost(c)
               PROVE  /\ url[c].host = request[c].host
                      /\ request[c].format = "rdf" \/ AllUse(request[c].host) =>
                           page[c].controls = request[c].host
                      /\ AllUse(request[c].host) => page[c].source = request[c].host
    BY DEF ControlsAreOwn, AllUse, OneHost
  <2>1. pc[c] # "idle"
    BY DEF Inv, StaysInv
  <2> QED
    BY <2>1 DEF Inv, HostInv, SourceInv
<1> QED
  BY <1>1, InvAlways, PTL

\* Timegates serve a version closest to the date that was asked for, for every
\* timemap with orderly intervals (handleRequest of TimegateController).
THEOREM ClosestServed == Spec => []ClosestMementoServed
<1>1. Inv => ClosestMementoServed
  BY DEF Inv
<1> QED
  BY <1>1, InvAlways, PTL

-----------------------------------------------------------------------------
(* The dates that mementos announce.                                       *)

\* The date of a version of an unambiguous timemap is answered by that version.
LEMMA StartLeadsBack ==
  ASSUME NEW w \in Worlds, Separate(w.versions), NEW k \in DOMAIN w.versions
  PROVE  ClosestMemento(SortTimemap(w.versions), w.versions[k].start) = w.versions[k]
<1> DEFINE s == w.versions
           date == s[k].start
<1>1. \A i \in DOMAIN s : s[i].start \in Nat /\ s[i].end \in Dates
  BY VersionFields
<1>2. /\ Orderly(s)
      /\ \A i \in DOMAIN s : s[i].start <= s[i].end
      /\ \A i, j \in DOMAIN s : i # j => s[i].end < s[j].start \/ s[j].end < s[i].start
  BY DEF Separate, Orderly
<1>3. s # << >> /\ date \in Nat
  BY <1>1
<1>4. PICK j \in DOMAIN s : /\ ClosestMemento(SortTimemap(s), date) = s[j]
                            /\ IsClosest(s, s[j], date)
  BY <1>2, <1>3, TimegateChoosesClosest
<1> HIDE DEF s
<1>5. Covers(s[k], date)
  BY <1>1, <1>2 DEF Covers, s
<1>6. s[k] \in {v \in {s[i] : i \in DOMAIN s} : v.start <= date}
  BY <1>5 DEF Covers, s
<1>7. Covers(s[j], date)
  BY <1>4, <1>5, <1>6 DEF IsClosest
<1>8. j = k
  <2>1. s[j].start \in Nat /\ s[j].end \in Int /\ s[k].start \in Nat /\ s[k].end \in Int
    BY <1>1, <1>4 DEF Dates, NaN, s
  <2>2. s[j].start <= date /\ date <= s[j].end /\ date <= s[k].end
    BY <1>5, <1>7 DEF Covers
  <2>3. j # k => s[j].end < date \/ s[k].end < s[j].start
    BY <1>2, <1>4 DEF s
  <2> QED
    BY <1>3, <2>1, <2>2, <2>3
<1> QED
  BY <1>4, <1>8 DEF s

\* The date that a datasource announces is the start of one of its versions,
\* without the fraction of the second.
LEMMA DatetimeIsStart ==
  ASSUME NEW w \in Worlds, NEW d, MementoDatetime(SortTimemap(w.versions), d) # NaN
  PROVE  \E k \in DOMAIN w.versions :
           /\ w.versions[k].datasource = d
           /\ MementoDatetime(SortTimemap(w.versions), d) = HeaderDate(w.versions[k].start)
<1> DEFINE s == w.versions
           tm == SortTimemap(s)
           own == {i \in DOMAIN tm : tm[i].datasource = d}
           last == CHOOSE i \in own : \A j \in own : j <= i
<1>1. s \in Seq([datasource : DOMAIN w.stores, start : Nat, end : Dates])
  BY CrawlAssumption
<1>2. Len(s) \in Nat /\ DOMAIN s = 1 .. Len(s)
  BY <1>1, LenProperties
<1>3. IsTimemap(s)
  BY <1>2, VersionFields DEF IsTimemap
<1>4. DOMAIN tm = DOMAIN s /\ \A k \in DOMAIN tm : \E i \in DOMAIN s : tm[k] = s[i]
  BY <1>3, SortTimemapSorts
<1> HIDE DEF tm, s
<1>5. MementoDatetime(tm, d) = IF own = {} THEN NaN ELSE HeaderDate(tm[last].start)
  BY DEF MementoDatetime
<1>6. own # {}
  BY <1>5 DEF tm, s
<1>7. last \in own
  <2>1. own \in SUBSET (1 .. Len(s))
    BY <1>2, <1>4
  <2>2. \E i \in own : \A j \in own : i >= j
    <3> HIDE DEF own
    <3> QED
      BY <1>2, <1>6, <2>1, LargestElement
  <2>3. \E i \in own : \A j \in own : j <= i
    BY <2>1, <2>2
  <2> QED
    BY <2>3
<1>8. PICK k \in DOMAIN s : tm[last] = s[k]
  BY <1>4, <1>7
<1>9. s[k].datasource = d /\ MementoDatetime(tm, d) = HeaderDate(s[k].start)
  BY <1>5, <1>6, <1>7, <1>8
<1> QED
  BY <1>9 DEF tm, s

\* A page announces the date of the datasource that it comes from.
DateInv ==
  \A c \in Clients :
    /\ visited[c] = {} => page[c].datetime = NaN
    /\ \A d \in visited[c] : page[c].datetime = DatetimeHeader(d)

LEMMA DateStep == Inv /\ DateInv /\ [Next]_vars => DateInv'
<1> SUFFICES ASSUME Inv, DateInv, [Next]_vars PROVE DateInv'
  OBVIOUS
<1>1. CASE UNCHANGED <<world, page, visited>>
  BY <1>1 DEF DateInv, DatetimeHeader, Timemap
<1>2. ASSUME NEW c \in Clients, Respond(c) PROVE DateInv'
  <2>1. /\ world' = world /\ pc[c] = "selecting"
        /\ page'[c].datetime = DatetimeHeader(fragment[c].datasource)
        /\ visited'[c] = visited[c] \cup {fragment[c].datasource}
        /\ \A e \in Clients \ {c} : page'[e] = page[e] /\ visited'[e] = visited[e]
    BY <1>2 DEF Respond, Inv, Shape
  <2>2. visited'[c] = {fragment[c].datasource}
    BY <2>1 DEF Inv, StaysInv
  <2> QED
    BY <2>1, <2>2 DEF DateInv, DatetimeHeader, Timemap
<1> QED
  BY <1>1, <1>2 DEF Next, Tick, Ask, HandleRequest, vars, clientVars

LEMMA DateAlways == Spec => []DateInv
<1>1. Init => DateInv
  BY DEF Init, DateInv
<1>2. Inv /\ DateInv /\ [Next]_vars => DateInv'
  BY DateStep
<1> QED
  BY <1>1, <1>2, InvAlways, PTL DEF Spec

\* A client that asks a timegate for the date in the header Memento-Datetime of
\* its page is sent to the same datasource again, for every order of the
\* versions, if none of them share a date and that of the memento is not cut by
\* the header (MementoControllerExtension).
THEOREM DatesLeadBack == Spec => []DatetimeLeadsBack
<1>1. Inv /\ DateInv => DatetimeLeadsBack
  <2> SUFFICES ASSUME Inv, DateInv, NEW c \in Clients, page[c].datetime # NaN,
                      Separate(world.versions), StartsWhole(world.versions, visited[c])
               PROVE  ClosestMemento(Timemap, page[c].datetime).datasource \in visited[c]
    BY DEF DatetimeLeadsBack
  <2>1. PICK d \in visited[c] : page[c].datetime = DatetimeHeader(d)
    BY DEF DateInv
  <2>2. world \in Worlds
    BY DEF Inv, TypeOK
  <2>3. PICK k \in DOMAIN world.versions :
          /\ world.versions[k].datasource = d
          /\ page[c].datetime = HeaderDate(world.versions[k].start)
    BY <2>1, <2>2, DatetimeIsStart DEF DatetimeHeader, Timemap
  <2>4. page[c].datetime = world.versions[k].start
    <3>1. world.versions[k].start % Second = 0
      BY <2>1, <2>3 DEF StartsWhole
    <3>2. world.versions[k].start \in Nat
      BY <2>2, <2>3, VersionFields
    <3> QED
      BY <2>3, <3>1, <3>2 DEF HeaderDate
  <2>5. ClosestMemento(Timemap, page[c].datetime) = world.versions[k]
    BY <2>2, <2>3, <2>4, StartLeadsBack DEF Timemap
  <2> QED
    BY <2>1, <2>3, <2>5
<1> QED
  BY <1>1, InvAlways, DateAlways, PTL

-----------------------------------------------------------------------------
(* Slices of sequences: pages are adjacent slices of an answer.            *)

Upto(seq, n) == IF n < Len(seq) THEN n ELSE Len(seq)

\* The members of a sequence after some position, up to another one.
Slice(seq, from, to) == SubSeq(seq, from + 1, Upto(seq, to))

LEMMA SliceProperties ==
  ASSUME NEW S, NEW seq \in Seq(S), NEW from \in Nat, NEW to \in Nat
  PROVE  /\ Upto(seq, to) \in Nat /\ Upto(seq, to) <= Len(seq)
         /\ Slice(seq, from, to) \in Seq(S)
         /\ Len(Slice(seq, from, to)) = IF from < Upto(seq, to) THEN Upto(seq, to) - from ELSE 0
         /\ \A i \in 1 .. Len(Slice(seq, from, to)) :
              from + i \in 1 .. Len(seq) /\ Slice(seq, from, to)[i] = seq[from + i]
<1> DEFINE m == from + 1
           n == Upto(seq, to)
<1>1. Len(seq) \in Nat /\ \A i \in 1 .. Len(seq) : seq[i] \in S
  BY LenProperties
<1>2. n \in Nat /\ n <= Len(seq)
  BY <1>1 DEF Upto
<1>3. m \in Int /\ n \in Int /\ m = from + 1
  BY <1>2
<1>4. Slice(seq, from, to) = SubSeq(seq, m, n)
  BY DEF Slice
<1> HIDE DEF m, n
<1>5. \A i \in m .. n : seq[i] \in S
  BY <1>1, <1>2, <1>3
<1>6. /\ SubSeq(seq, m, n) \in Seq(S)
      /\ Len(SubSeq(seq, m, n)) = IF m <= n THEN n - m + 1 ELSE 0
      /\ \A i \in 1 .. n - m + 1 : SubSeq(seq, m, n)[i] = seq[m + i - 1]
  BY <1>3, <1>5, SubSeqProperties
<1>7. Len(SubSeq(seq, m, n)) = IF from < n THEN n - from ELSE 0
  BY <1>2, <1>3, <1>6
<1>8. ASSUME NEW i \in 1 .. Len(SubSeq(seq, m, n))
      PROVE  from + i \in 1 .. Len(seq) /\ SubSeq(seq, m, n)[i] = seq[from + i]
  <2>1. from < n /\ i \in Int /\ 1 <= i /\ i <= n - from
    BY <1>2, <1>7
  <2>2. i \in 1 .. n - m + 1 /\ m + i - 1 = from + i /\ from + i \in 1 .. Len(seq)
    BY <1>1, <1>2, <1>3, <2>1
  <2> QED
    BY <1>6, <2>2
<1> QED
  BY <1>2, <1>4, <1>6, <1>7, <1>8 DEF n

LEMMA SlicesJoin ==
  ASSUME NEW S, NEW seq \in Seq(S), NEW i \in Nat, NEW j \in Nat, NEW k \in Nat, i <= j, j <= k
  PROVE  /\ Slice(seq, i, i) = << >>
         /\ Slice(seq, i, j) \o Slice(seq, j, k) = Slice(seq, i, k)
<1>1. Len(seq) \in Nat
  BY LenProperties
<1>2. Slice(seq, i, i) = << >>
  <2>1. i + 1 \in Int /\ Upto(seq, i) \in Int /\ Upto(seq, i) < i + 1
    BY <1>1 DEF Upto
  <2> QED
    BY <2>1, SubSeqEmpty, Zenon DEF Slice
<1>3. CASE j < Len(seq)
  <2> DEFINE n == Upto(seq, k)
             m == i + 1
  <2>1. m \in 1 .. Len(seq) + 1 /\ j \in m - 1 .. Len(seq) /\ n \in j .. Len(seq)
    BY <1>1, <1>3 DEF Upto
  <2>2. Upto(seq, j) = j
    BY <1>3 DEF Upto
  <2> HIDE DEF m, n
  <2>3. SubSeq(seq, m, j) \o SubSeq(seq, j + 1, n) = SubSeq(seq, m, n)
    BY <2>1, ConcatAdjacentSubSeq, Zenon
  <2> QED
    BY <1>2, <2>2, <2>3, Zenon DEF Slice, m, n
<1>4. CASE ~(j < Len(seq))
  <2>1. Upto(seq, j) = Len(seq) /\ Upto(seq, k) = Len(seq)
    BY <1>1, <1>4 DEF Upto
  <2>2. Slice(seq, i, j) = Slice(seq, i, k)
    BY <2>1, Zenon DEF Slice
  <2>3. j + 1 \in Int /\ Upto(seq, k) \in Int /\ Upto(seq, k) < j + 1
    BY <1>1, <1>4, <2>1
  <2>4. Slice(seq, j, k) = << >>
    BY <2>3, SubSeqEmpty, Zenon DEF Slice
  <2>5. Slice(seq, i, j) \in Seq(S)
    BY SliceProperties, Zenon
  <2> QED
    BY <1>2, <2>2, <2>4, <2>5, ConcatEmptySeq, Zenon
<1> QED
  BY <1>3, <1>4

\* What has been received of a slice is a prefix of it.
LEMMA SliceIsPrefix ==
  ASSUME NEW S, NEW seq \in Seq(S), NEW i \in Nat, NEW j \in Nat, i <= j
  PROVE  LET all == SubSeq(seq, i + 1, Len(seq))
             part == Slice(seq, i, j)
         IN  /\ Len(part) <= Len(all) /\ part = SubSeq(all, 1, Len(part))
             /\ Len(seq) <= j => part = all
<1> DEFINE all == SubSeq(seq, i + 1, Len(seq))
           part == Slice(seq, i, j)
           u == Upto(seq, j)
<1>1. Len(seq) \in Nat /\ Len(seq) <= Len(seq)
  BY LenProperties
<1>2. Upto(seq, Len(seq)) = Len(seq) /\ u \in Nat /\ u <= Len(seq) /\ (Len(seq) <= j => u = Len(seq))
  BY <1>1 DEF Upto
<1>3. all = Slice(seq, i, Len(seq))
  BY <1>2, Zenon DEF Slice
<1>4. /\ all \in Seq(S) /\ Len(all) = IF i < Len(seq) THEN Len(seq) - i ELSE 0
      /\ \A k \in 1 .. Len(all) : all[k] = seq[i + k]
  <2> DEFINE n == Len(seq)
             whole == Slice(seq, i, n)
  <2>1. /\ whole \in Seq(S) /\ Len(whole) = IF i < Upto(seq, n) THEN Upto(seq, n) - i ELSE 0
        /\ \A k \in 1 .. Len(whole) : whole[k] = seq[i + k]
    <3>1. n \in Nat
      BY <1>1
    <3> HIDE DEF n
    <3> QED
      BY <3>1, SliceProperties, Zenon
  <2> HIDE DEF whole, all
  <2> QED
    BY <1>2, <1>3, <2>1 DEF whole
<1>5. /\ part \in Seq(S) /\ Len(part) = IF i < u THEN u - i ELSE 0
      /\ \A k \in 1 .. Len(part) : part[k] = seq[i + k]
  BY <1>1, SliceProperties, Zenon
<1>6. Len(seq) <= j => part = all
  BY <1>2, Zenon DEF Slice
<1> HIDE DEF all, part, u
<1>7. Len(part) \in Nat /\ Len(all) \in Nat /\ Len(part) <= Len(all)
  BY <1>1, <1>2, <1>4, <1>5
<1> DEFINE front == SubSeq(all, 1, Len(part))
<1>8. /\ front \in Seq(S) /\ Len(front) = Len(part)
      /\ \A k \in 1 .. Len(part) : front[k] = all[k]
  <2>1. \A k \in 1 .. Len(part) : all[k] \in S
    <3>1. \A k \in 1 .. Len(all) : all[k] \in S
      BY <1>4, LenProperties
    <3> QED
      BY <1>7, <3>1
  <2>2. 1 \in Int /\ Len(part) \in Int
    BY <1>7
  <2>3. /\ front \in Seq(S) /\ Len(front) = IF 1 <= Len(part) THEN Len(part) - 1 + 1 ELSE 0
        /\ \A k \in 1 .. Len(part) - 1 + 1 : front[k] = all[1 + k - 1]
    BY <2>1, <2>2, SubSeqProperties
  <2> HIDE DEF front
  <2>4. Len(part) - 1 + 1 = Len(part) /\ \A k \in 1 .. Len(part) : 1 + k - 1 = k
    BY <1>7
  <2> QED
    BY <1>7, <2>3, <2>4
<1> HIDE DEF front
<1>9. \A k \in 1 .. Len(part) : part[k] = front[k]
  <2>1. \A k \in 1 .. Len(part) : k \in 1 .. Len(all)
    BY <1>7
  <2> QED
    BY <1>4, <1>5, <1>8, <2>1
<1>10. part = front
  BY <1>5, <1>8, <1>9, SeqEqual, Zenon
<1> QED
  BY <1>6, <1>7, <1>10, Zenon DEF all, part, front

\* The published form of quads.
Quads(store) == {Published(store, q) : q \in [Positions -> DataTerms]}

LEMMA PublishedSlice ==
  ASSUME NEW store, NEW seq \in Seq([Positions -> DataTerms]), NEW i \in Nat, NEW j \in Nat
  PROVE  LET all == [k \in DOMAIN seq |-> Published(store, seq[k])]
             part == Slice(seq, i, j)
         IN  /\ all \in Seq(Quads(store)) /\ Len(all) = Len(seq)
             /\ [k \in DOMAIN part |-> Published(store, part[k])] = Slice(all, i, j)
<1> DEFINE all == [k \in DOMAIN seq |-> Published(store, seq[k])]
           part == Slice(seq, i, j)
           shown == [k \in DOMAIN part |-> Published(store, part[k])]
           S == [Positions -> DataTerms]
<1>1. Len(seq) \in Nat /\ DOMAIN seq = 1 .. Len(seq) /\ \A k \in 1 .. Len(seq) : seq[k] \in S
  BY LenProperties
<1> HIDE DEF S
<1>2. ASSUME NEW s \in Seq(S)
      PROVE  /\ [k \in DOMAIN s |-> Published(store, s[k])] \in Seq(Quads(store))
             /\ Len([k \in DOMAIN s |-> Published(store, s[k])]) = Len(s)
  <2> DEFINE t == [k \in DOMAIN s |-> Published(store, s[k])]
  <2>1. Len(s) \in Nat /\ DOMAIN s = 1 .. Len(s) /\ \A k \in 1 .. Len(s) : s[k] \in S
    BY LenProperties
  <2>2. t \in [1 .. Len(s) -> Quads(store)]
    BY <2>1 DEF Quads, S
  <2>3. t \in Seq(Quads(store))
    <3> HIDE DEF t
    <3> QED
      BY <2>1, <2>2, SeqDef
  <2>4. DOMAIN t = 1 .. Len(s)
    BY <2>1
  <2>5. Len(t) = Len(s)
    <3> HIDE DEF t
    <3> QED
      BY <2>1, <2>3, <2>4, LenProperties
  <2> QED
    BY <2>3, <2>5
<1>3. all \in Seq(Quads(store)) /\ Len(all) = Len(seq)
  BY <1>2 DEF S
<1>4. part \in Seq(S) /\ \A k \in 1 .. Len(part) : i + k \in 1 .. Len(seq) /\ part[k] = seq[i + k]
  BY SliceProperties, Zenon DEF S
<1> HIDE DEF part
<1>5. shown \in Seq(Quads(store)) /\ Len(shown) = Len(part)
  BY <1>2, <1>4
<1>6. Len(part) \in Nat /\ DOMAIN part = 1 .. Len(part)
  BY <1>4, LenProperties
<1>7. /\ Slice(all, i, j) \in Seq(Quads(store))
      /\ \A k \in 1 .. Len(Slice(all, i, j)) :
           i + k \in 1 .. Len(all) /\ Slice(all, i, j)[k] = all[i + k]
  <2> HIDE DEF all
  <2> QED
    BY <1>3, SliceProperties, Zenon
<1>8. Len(Slice(all, i, j)) = Len(part)
  <2> HIDE DEF all
  <2>1. Len(part) = IF i < Upto(seq, j) THEN Upto(seq, j) - i ELSE 0
    BY SliceProperties, Zenon DEF part, S
  <2>2. Len(Slice(all, i, j)) = IF i < Upto(all, j) THEN Upto(all, j) - i ELSE 0
    BY <1>3, SliceProperties, Zenon
  <2>3. Upto(all, j) = Upto(seq, j)
    BY <1>3, Zenon DEF Upto
  <2> QED
    BY <2>1, <2>2, <2>3
<1>9. \A k \in 1 .. Len(part) : shown[k] = Slice(all, i, j)[k]
  <2> TAKE k \in 1 .. Len(part)
  <2>1. shown[k] = Published(store, part[k])
    BY <1>6
  <2>2. i + k \in DOMAIN seq /\ part[k] = seq[i + k]
    BY <1>1, <1>4
  <2>3. all[i + k] = Published(store, seq[i + k])
    BY <2>2
  <2>4. Slice(all, i, j)[k] = all[i + k]
    BY <1>7, <1>8
  <2> QED
    BY <2>1, <2>2, <2>3, <2>4
<1> HIDE DEF all, shown
<1>10. shown = Slice(all, i, j)
  BY <1>5, <1>7, <1>8, <1>9, SeqEqual, Zenon
<1> QED
  BY <1>3, <1>10, Zenon DEF all, part, shown

-----------------------------------------------------------------------------
(* What a client has received.                                             *)

\* A page parameter of the links of the server.
Proper(p) == p = NoPage \/ (p.digits /\ p.int >= 0)

LEMMA ProperOffset ==
  ASSUME NEW p \in PageParameters, Proper(p)
  PROVE  /\ Offset(p) \in Nat /\ CurrentPage(p) \in Int /\ CurrentPage(p) >= 1
         /\ Offset(p) = PageSize * (CurrentPage(p) - 1)
         /\ Offset(p) = IF p.int > 1 THEN PageSize * (p.int - 1) ELSE 0
<1>1. p.int \in Int /\ p.int >= 0 /\ (p.int > 1 => p.digits)
  BY DEF PageParameters, Proper, NoPage
<1>2. PageSize \in Nat
  BY CrawlAssumption
<1>3. Offset(p) \in Nat /\ CurrentPage(p) \in Int
  BY OffsetType
<1>4. CASE p.int > 1
  BY <1>1, <1>2, <1>3, <1>4 DEF Offset, CurrentPage
<1>5. CASE ~(p.int > 1)
  <2>1. Offset(p) = 0 /\ CurrentPage(p) = 1
    BY <1>1, <1>5 DEF Offset, CurrentPage
  <2>2. PageSize * (1 - 1) = 0
    BY <1>2
  <2> QED
    BY <1>3, <1>5, <2>1, <2>2
<1> QED
  BY <1>4, <1>5

LEMMA NextOffset ==
  ASSUME NEW n \in Int, n >= 1
  PROVE  /\ Proper(Page(n + 1)) /\ Page(n + 1) \in PageParameters
         /\ Offset(Page(n + 1)) = PageSize * (n - 1) + PageSize
<1>1. Page(n + 1).digits = TRUE /\ Page(n + 1).int = n + 1
  BY DEF Page
<1>2. PageSize \in Nat
  BY CrawlAssumption
<1>3. Offset(Page(n + 1)) = PageSize * (n + 1 - 1)
  BY <1>1 DEF Offset
<1>4. PageSize * (n + 1 - 1) = PageSize * (n - 1) + PageSize
  BY <1>2
<1> QED
  BY <1>1, <1>3, <1>4, PageIsParameter DEF Proper

LEMMA StoreOf ==
  ASSUME world \in Worlds, NEW d \in DOMAIN Stores PROVE IsStore(Stores[d])
BY CrawlAssumption DEF Stores

LEMMA PatternOf ==
  ASSUME NEW c \in Clients, Typed(c), NEW p \in Positions
  PROVE  request[c].pattern[p] \in QueryTerms
<1>1. CASE request[c] = NoRequest
  BY <1>1 DEF NoRequest, QueryTerms
<1>2. CASE request[c] \in Requests[c]
  BY <1>2, CrawlAssumption
<1> QED
  BY <1>1, <1>2 DEF Typed

\* What a datasource finds and what it is meant to answer have the same pages.
LEMMA PageOfAnswer ==
  ASSUME NEW store, NEW pattern, IsStore(store), Regular(store), NEW offset \in Nat,
         \A p \in Positions : pattern[p] \in QueryTerms,
         UsesQuads(pattern) => store.quads
  PROVE  LET page0 == PageOf(Found(store, pattern), offset)
             all == Answer(store, pattern)
         IN  /\ Found(store, pattern) \in Seq([Positions -> DataTerms])
             /\ all \in Seq(Quads(store)) /\ Len(all) = Len(Found(store, pattern))
             /\ [i \in DOMAIN page0 |-> Published(store, page0[i])]
                  = Slice(all, offset, offset + PageSize)
<1>1. /\ store.quads \in BOOLEAN
      /\ store.graph = Unbound \/ (store.graph \in Terms /\ store.graph.type = "iri")
      /\ store.content \in Seq([Positions -> DataTerms])
  BY DEF IsStore
<1>2. pattern.graph # Unbound => store.quads
  BY DEF UsesQuads
<1> DEFINE F == Found(store, pattern)
<1>3. /\ F \in Seq([Positions -> DataTerms])
      /\ Answer(store, pattern) = [i \in DOMAIN F |-> Published(store, F[i])]
  BY <1>1, <1>2, AnswerIsFound
<1>4. PageOf(F, offset) = Slice(F, offset, offset + PageSize)
  BY Zenon DEF PageOf, Slice, Upto
<1> DEFINE end == offset + PageSize
<1>5. end \in Nat
  BY CrawlAssumption
<1> HIDE DEF F, end
<1>6. /\ [i \in DOMAIN F |-> Published(store, F[i])] \in Seq(Quads(store))
      /\ Len([i \in DOMAIN F |-> Published(store, F[i])]) = Len(F)
      /\ [i \in DOMAIN Slice(F, offset, end) |-> Published(store, Slice(F, offset, end)[i])]
           = Slice([i \in DOMAIN F |-> Published(store, F[i])], offset, end)
  <2>1. F \in Seq([Positions -> DataTerms])
    BY <1>3
  <2> QED
    BY <1>5, <2>1, PublishedSlice, ZenonT(60)
<1> QED
  BY <1>3, <1>4, <1>6, Zenon DEF F, end

\* An in-memory or HDT datasource has no more quads than the last page shows:
\* memory counts, HDT raises its estimate for a full page, and RDF views link to a
\* next page after every full one.
LEMMA LastPageIsLast ==
  ASSUME world \in Worlds, NEW d \in DOMAIN Stores, NEW pattern, NEW offset \in Nat,
         NEW format \in Formats, Local(d), ~(format = "html" /\ Stores[d].kind = "hdt"),
         Found(Stores[d], pattern) \in Seq([Positions -> DataTerms]),
         NEW total \in Totals(d, pattern, offset, Len(PageOf(Found(Stores[d], pattern), offset))),
         ~HasNext(format, total, offset, Len(PageOf(Found(Stores[d], pattern), offset)))
  PROVE  Len(Found(Stores[d], pattern)) <= offset + PageSize
<1> DEFINE F == Found(Stores[d], pattern)
           n == Len(PageOf(F, offset))
<1>1. Len(F) \in Nat
  BY LenProperties
<1>2. PageSize \in Nat /\ PageSize > 1 /\ Estimates \subseteq Nat
  BY CrawlAssumption
<1>3. IsStore(Stores[d])
  BY StoreOf
<1>4. /\ format = "rdf" => ~(total >= PageSize + offset)
      /\ format = "html" => ~(total > offset + n)
  BY DEF HasNext, HasNextInRdf, HasNextInHtml
<1>5. Stores[d].kind \in {"memory", "hdt"} /\ (format = "rdf" \/ format = "html")
  BY DEF Local, Formats
<1>6. PageOf(F, offset) = Slice(F, offset, offset + PageSize)
  BY Zenon DEF PageOf, Slice, Upto
<1>7. n = IF offset < Upto(F, offset + PageSize) THEN Upto(F, offset + PageSize) - offset ELSE 0
  <2> DEFINE end == offset + PageSize
  <2>1. end \in Nat
    BY <1>2
  <2> HIDE DEF F, end
  <2>2. Len(Slice(F, offset, end)) = IF offset < Upto(F, end) THEN Upto(F, end) - offset ELSE 0
    BY <2>1, SliceProperties, Zenon DEF F
  <2> QED
    BY <1>6, <2>2, Zenon DEF end
<1>8. n \in Nat /\ (n < PageSize => Len(F) <= offset + PageSize) /\ n <= PageSize
      /\ (Len(F) <= offset + n => Len(F) <= offset + PageSize)
  BY <1>1, <1>2, <1>7 DEF Upto
<1>9. total \in Totals(d, pattern, offset, n)
  OBVIOUS
<1>10. CASE Stores[d].kind = "memory"
  <2>1. total = Len(F)
    BY <1>9, <1>10 DEF Totals
  <2> HIDE DEF F, n
  <2> QED
    BY <1>1, <1>2, <1>4, <1>5, <1>8, <2>1 DEF F
<1>11. CASE Stores[d].kind = "hdt"
  <2> HIDE DEF n
  <2>1. total \in HdtTotals(d, pattern, offset, n)
    BY <1>9, <1>11 DEF Totals
  <2> DEFINE g == QueryGraph(Stores[d], pattern.graph)
  <2>2. CASE g \in {Unbound, Default}
    <3>1. PICK e \in Estimates : total = Raised(e, offset, n)
      BY <2>1, <2>2 DEF HdtTotals
    <3>2. CASE n = PageSize
      <4>1. n \in 1 .. PageSize /\ e \in Nat
        BY <1>2, <3>2
      <4>2. HasNextInRdf(Raised(e, offset, n), offset)
        BY <3>2, <4>1, FullPageHasNext
      <4>3. format = "rdf"
        BY <1>5, <1>11
      <4> QED
        BY <1>4, <3>1, <4>2, <4>3 DEF HasNextInRdf
    <3>3. CASE n # PageSize
      BY <1>2, <1>8, <3>3
    <3> QED
      BY <3>2, <3>3
  <2>3. CASE g \notin {Unbound, Default}
    <3> DEFINE store == Stores[d]
               chosen == [i \in DOMAIN store.content |->
                           Matches(Translated(store, pattern), store.content[i])]
    <3>1. Translated(store, pattern)["graph"] = g
      BY DEF Translated
    <3>2. store.content \in Seq([Positions -> DataTerms])
          /\ DOMAIN store.content = 1 .. Len(store.content)
      BY <1>3, LenProperties DEF IsStore
    <3>3. \A i \in 1 .. Len(store.content) : store.content[i]["graph"] = Default
      BY <1>3, <1>11, <3>2 DEF IsStore
    <3>4. "graph" \in Positions
      BY DEF Positions
    <3>5. \A i \in 1 .. Len(store.content) : ~Matches(Translated(store, pattern), store.content[i])
      BY <2>3, <3>1, <3>3, <3>4 DEF Matches
    <3>6. \A i \in 1 .. Len(store.content) : ~chosen[i]
      BY <3>2, <3>5
    <3>7. F = Subsequence(store.content, chosen)
      BY Zenon DEF Found
    <3> HIDE DEF chosen, F
    <3>8. F = << >>
      BY <3>2, <3>6, <3>7, SubsequenceType, Zenon
    <3>9. Len(F) = 0
      BY <3>8
    <3> QED
      BY <1>2, <3>9 DEF F
  <2> QED
    BY <2>2, <2>3
<1> QED
  BY <1>5, <1>10, <1>11

\* The position in the answer that the crawl of c starts at, and the one that it
\* has come to.
Begin(c) == Offset(request[c].page)
Reached(c) == IF pc[c] = "selecting" THEN fragment[c].offset
              ELSE IF pc[c] = "done" THEN fragment[c].offset + PageSize
              ELSE Offset(url[c].page)

AnswerTo(c, d) == Answer(Stores[d], request[c].pattern)

\* The current request of c continues where the last page ended.
Continues(c) ==
  /\ Begin(c) <= Reached(c)
  /\ visited[c] = {} => Reached(c) = Begin(c)
  /\ pc[c] = "asking" => Proper(url[c].page)
  /\ pc[c] = "selecting" => /\ fragment[c].page >= 1
                            /\ fragment[c].offset = PageSize * (fragment[c].page - 1)

\* What c has got of d is the part of the answer in between, and all of it after
\* the last page.
HasSlice(c, d) ==
  /\ SupportsQuery(d, request[c].pattern)
  /\ Local(d) /\ Regular(Stores[d]) =>
       /\ got[c] = Slice(AnswerTo(c, d), Begin(c), Reached(c))
       /\ pc[c] = "done" /\ ~MayStopShort(c, d) => Len(AnswerTo(c, d)) <= Reached(c)

SliceInvOf(c) ==
  /\ visited[c] = {} => got[c] = << >>
  /\ pc[c] # "idle" /\ ProperStart(c) =>
       Continues(c) /\ \A d \in visited[c] : HasSlice(c, d)

SliceInv == DOMAIN got = Clients /\ \A c \in Clients : SliceInvOf(c)

LEMMA ProperRequest ==
  ASSUME NEW c \in Clients, Typed(c), ProperStart(c)
  PROVE  request[c].page \in PageParameters /\ Proper(request[c].page)
<1>1. CASE request[c] = NoRequest
  BY <1>1, RequestFields DEF NoRequest, Proper
<1>2. CASE request[c] \in Requests[c]
  BY <1>2, CrawlAssumption DEF Proper, ProperStart
<1> QED
  BY <1>1, <1>2 DEF Typed

\* Nothing changes for the clients that do not act.
LEMMA SliceOfOthers ==
  ASSUME NEW c \in Clients, SliceInvOf(c), world' = world, pc'[c] = pc[c],
         request'[c] = request[c], url'[c] = url[c], fragment'[c] = fragment[c],
         got'[c] = got[c], visited'[c] = visited[c]
  PROVE  SliceInvOf(c)'
BY DEF SliceInvOf, ProperStart, Continues, HasSlice, Begin, Reached, AnswerTo, Stores,
       SupportsQuery, Local, MayStopShort

LEMMA SliceAsk ==
  ASSUME Inv, SliceInv, NEW c \in Clients, Ask(c) PROVE SliceInv'
<1>1. /\ world' = world /\ fragment' = fragment /\ got' = got /\ visited' = visited
      /\ pc[c] = "idle" /\ pc'[c] = "asking"
      /\ \A e \in Clients \ {c} : pc'[e] = pc[e] /\ request'[e] = request[e] /\ url'[e] = url[e]
  BY DEF Ask, Inv, Shape, TypeOK
<1>2. PICK r \in Requests[c] : request'[c] = r /\ url'[c].page = r.page
  BY DEF Ask, Inv, Shape
<1>3. \A e \in Clients \ {c} : SliceInvOf(e)'
  BY <1>1, SliceOfOthers DEF SliceInv
<1>4. SliceInvOf(c)'
  <2>1. visited'[c] = {} /\ got'[c] = << >>
    BY <1>1 DEF Inv, StaysInv, SliceInv, SliceInvOf
  <2>2. r.page \in PageParameters /\ (r.page.digits => r.page.int >= 0)
    BY CrawlAssumption
  <2>3. ProperStart(c)' => Proper(r.page)
    BY <1>2, <2>2 DEF ProperStart, Proper
  <2>4. Offset(r.page) \in Nat
    BY <2>2, OffsetType
  <2>5. Reached(c)' = Offset(r.page) /\ Begin(c)' = Offset(r.page)
    BY <1>1, <1>2 DEF Reached, Begin
  <2>6. Proper(r.page) => Continues(c)'
    BY <1>1, <1>2, <2>4, <2>5 DEF Continues
  <2> QED
    BY <2>1, <2>3, <2>6 DEF SliceInvOf
<1> QED
  BY <1>1, <1>3, <1>4 DEF SliceInv

LEMMA SliceHandle ==
  ASSUME Inv, SliceInv, NEW c \in Clients, HandleRequest(c) PROVE SliceInv'
<1>1. /\ world' = world /\ request' = request /\ url' = url /\ got' = got
      /\ visited' = visited /\ pc[c] = "asking"
      /\ \A e \in Clients \ {c} : pc'[e] = pc[e] /\ fragment'[e] = fragment[e]
  BY DEF HandleRequest, Inv, Shape, TypeOK
<1>2. \/ /\ pc'[c] = "selecting" /\ fragment'[c].offset = Offset(url[c].page)
         /\ fragment'[c].page = CurrentPage(url[c].page)
      \/ pc'[c] = "refused" /\ fragment' = fragment
  BY DEF HandleRequest, Inv, Shape, TypeOK
<1>3. \A e \in Clients \ {c} : SliceInvOf(e)'
  BY <1>1, SliceOfOthers DEF SliceInv
<1>4. SliceInvOf(c)'
  <2>1. SliceInvOf(c) /\ Typed(c)
    BY TypeOKSplit DEF SliceInv, Inv
  <2>2. Begin(c)' = Begin(c) /\ Reached(c)' = Reached(c)
    BY <1>1, <1>2 DEF Begin, Reached
  <2>3. ProperStart(c)' = ProperStart(c) /\ visited'[c] = visited[c] /\ got'[c] = got[c]
        /\ pc'[c] # "done"
    BY <1>1, <1>2 DEF ProperStart
  <2>4. \A d : HasSlice(c, d) => HasSlice(c, d)'
    BY <1>1, <2>2, <2>3 DEF HasSlice, AnswerTo, Stores, SupportsQuery, Local
  <2>5. Continues(c) => Continues(c)'
    <3> SUFFICES ASSUME Continues(c) PROVE Continues(c)'
      OBVIOUS
    <3>1. pc'[c] # "asking"
      BY <1>2
    <3>2. Proper(url[c].page) /\ url[c].page \in PageParameters
      BY <1>1, <2>1 DEF Continues, Typed
    <3>3. pc'[c] = "selecting" => /\ fragment'[c].page >= 1
                                  /\ fragment'[c].offset = PageSize * (fragment'[c].page - 1)
      BY <1>2, <3>2, ProperOffset
    <3> QED
      BY <2>2, <2>3, <3>1, <3>3 DEF Continues
  <2> QED
    BY <1>1, <2>1, <2>3, <2>4, <2>5 DEF SliceInvOf
<1> QED
  BY <1>1, <1>3, <1>4 DEF SliceInv

LEMMA SliceRespond ==
  ASSUME Inv, SliceInv, NEW c \in Clients, Respond(c) PROVE SliceInv'
<1> DEFINE d == fragment[c].datasource
           offset == fragment[c].offset
           q == request[c].pattern
           format == request[c].format
           found == Found(Stores[d], q)
<1>0. PICK quads \in Pages(d, q, offset) :
        /\ got' = [got EXCEPT ![c] = @ \o [i \in DOMAIN quads |-> Published(Stores[d], quads[i])]]
        /\ \E total \in Totals(d, q, offset, Len(quads)) :
             \/ /\ HasNext(format, total, offset, Len(quads))
                /\ url' = [url EXCEPT ![c] = NextLink(c)]
                /\ pc' = [pc EXCEPT ![c] = "asking"]
             \/ /\ ~HasNext(format, total, offset, Len(quads))
                /\ pc' = [pc EXCEPT ![c] = "done"]
                /\ UNCHANGED url
  BY DEF Respond
<1> DEFINE shown == [i \in DOMAIN quads |-> Published(Stores[d], quads[i])]
<1>1. /\ world' = world /\ request' = request /\ fragment' = fragment /\ pc[c] = "selecting"
      /\ visited' = [visited EXCEPT ![c] = @ \cup {d}]
      /\ got' = [got EXCEPT ![c] = @ \o shown]
  BY <1>0 DEF Respond
<1>2. PICK total \in Totals(d, q, offset, Len(quads)) :
        \/ /\ HasNext(format, total, offset, Len(quads))
           /\ url' = [url EXCEPT ![c] = NextLink(c)]
           /\ pc' = [pc EXCEPT ![c] = "asking"]
        \/ /\ ~HasNext(format, total, offset, Len(quads))
           /\ pc' = [pc EXCEPT ![c] = "done"]
           /\ UNCHANGED url
  BY <1>0
<1>3. /\ SliceInvOf(c) /\ Typed(c) /\ world \in Worlds /\ offset \in Nat /\ PageSize \in Nat
      /\ format \in Formats
  BY TypeOKSplit, RequestFields, CrawlAssumption DEF SliceInv, Inv, Typed
<1>4. d \in DOMAIN Stores /\ SupportsQuery(d, q)
  BY <1>1, <1>3 DEF Typed, Serves
<1>5. /\ visited[c] \subseteq {d} /\ visited'[c] = {d} /\ got'[c] = got[c] \o shown
      /\ \A e \in Clients \ {c} : got'[e] = got[e] /\ visited'[e] = visited[e]
  <2>1. visited[c] \subseteq {d}
    BY <1>1 DEF Inv, StaysInv
  <2> HIDE DEF shown, d
  <2> QED
    BY <1>1, <2>1 DEF SliceInv, Inv, Shape
<1>6. /\ \A e \in Clients \ {c} : pc'[e] = pc[e] /\ url'[e] = url[e]
      /\ \/ pc'[c] = "asking" /\ url'[c].page = Page(fragment[c].page + 1)
         \/ pc'[c] = "done" /\ ~HasNext(format, total, offset, Len(quads))
  BY <1>2 DEF Inv, Shape, TypeOK, NextLink
<1>6a. Local(d) => quads = PageOf(found, offset)
  BY <1>0 DEF Pages
<1> HIDE DEF shown, found, format
<1>7. \A e \in Clients \ {c} : SliceInvOf(e)'
  BY <1>1, <1>5, <1>6, SliceOfOthers DEF SliceInv
<1>8. ASSUME ProperStart(c)
      PROVE  /\ Continues(c)' /\ Reached(c)' = offset + PageSize /\ Begin(c)' = Begin(c)
             /\ Begin(c) \in Nat /\ Begin(c) <= offset /\ (visited[c] = {} => offset = Begin(c))
  <2>1. Continues(c)
    BY <1>1, <1>3, <1>8 DEF SliceInvOf
  <2>2. Begin(c) \in Nat /\ Begin(c)' = Begin(c)
    BY <1>1, <1>3, <1>8, ProperRequest, ProperOffset DEF Begin
  <2>3. Begin(c) <= offset /\ (visited[c] = {} => offset = Begin(c))
    BY <1>1, <2>1 DEF Continues, Reached
  <2>4. fragment[c].page \in Int /\ fragment[c].page >= 1
        /\ offset = PageSize * (fragment[c].page - 1)
    BY <1>1, <1>3, <2>1 DEF Continues, Typed
  <2>5. /\ Proper(Page(fragment[c].page + 1))
        /\ Offset(Page(fragment[c].page + 1)) = offset + PageSize
    BY <2>4, NextOffset
  <2>6. Reached(c)' = offset + PageSize
    BY <1>1, <1>6, <2>5 DEF Reached
  <2>7. Begin(c) <= offset + PageSize
    BY <1>3, <2>2, <2>3
  <2>8. Continues(c)'
    BY <1>5, <1>6, <2>2, <2>5, <2>6, <2>7 DEF Continues
  <2> QED
    BY <2>2, <2>3, <2>6, <2>8
<1>9. ASSUME ProperStart(c), Local(d), Regular(Stores[d])
      PROVE  /\ got'[c] = Slice(AnswerTo(c, d), Begin(c), offset + PageSize)
             /\ pc'[c] = "done" /\ ~MayStopShort(c, d) =>
                  Len(AnswerTo(c, d)) <= offset + PageSize
  <2>1. /\ IsStore(Stores[d]) /\ \A p \in Positions : q[p] \in QueryTerms
        /\ (UsesQuads(q) => Stores[d].quads)
    BY <1>3, <1>4, StoreOf, PatternOf DEF SupportsQuery
  <2>2. /\ found \in Seq([Positions -> DataTerms])
        /\ AnswerTo(c, d) \in Seq(Quads(Stores[d])) /\ Len(AnswerTo(c, d)) = Len(found)
        /\ shown = Slice(AnswerTo(c, d), offset, offset + PageSize)
    <3>1. shown = LET page0 == PageOf(found, offset)
                  IN  [i \in DOMAIN page0 |-> Published(Stores[d], page0[i])]
      BY <1>9, <1>6a, Zenon DEF shown
    <3> QED
      BY <1>3, <1>9, <2>1, <3>1, PageOfAnswer, Zenon DEF AnswerTo, found
  <2>3. got[c] = Slice(AnswerTo(c, d), Begin(c), offset)
    <3>1. CASE visited[c] = {}
      <4>1. got[c] = << >> /\ offset = Begin(c)
        BY <1>3, <1>8, <1>9, <3>1 DEF SliceInvOf
      <4> QED
        BY <1>3, <2>2, <4>1, SlicesJoin
    <3>2. CASE visited[c] # {}
      <4>1. HasSlice(c, d)
        BY <1>1, <1>3, <1>5, <1>9, <3>2 DEF SliceInvOf
      <4>2. Reached(c) = offset
        BY <1>1 DEF Reached
      <4> QED
        BY <1>9, <4>1, <4>2 DEF HasSlice
    <3> QED
      BY <3>1, <3>2
  <2>4. got'[c] = Slice(AnswerTo(c, d), Begin(c), offset + PageSize)
    <3> DEFINE end == offset + PageSize
    <3>1. end \in Nat /\ offset <= end
      BY <1>3
    <3> HIDE DEF end, d, offset
    <3>2. Slice(AnswerTo(c, d), Begin(c), offset) \o Slice(AnswerTo(c, d), offset, end)
            = Slice(AnswerTo(c, d), Begin(c), end)
      BY <1>3, <1>8, <1>9, <2>2, <3>1, SlicesJoin
    <3> QED
      BY <1>5, <2>2, <2>3, <3>2 DEF end
  <2>5. ASSUME pc'[c] = "done", ~MayStopShort(c, d)
        PROVE  Len(AnswerTo(c, d)) <= offset + PageSize
    <3>1. ~HasNext(format, total, offset, Len(quads))
      BY <1>6, <2>5
    <3>2. Len(Answer(Stores[d], q)) = Len(found)
      BY <2>2 DEF AnswerTo
    <3>3. Len(found) <= offset + PageSize
      <4>1. ~(format = "html" /\ Stores[d].kind = "hdt")
        BY <2>5 DEF MayStopShort, format
      <4> HIDE DEF d, q, offset
      <4>2. /\ total \in Totals(d, q, offset, Len(PageOf(Found(Stores[d], q), offset)))
            /\ ~HasNext(format, total, offset, Len(PageOf(Found(Stores[d], q), offset)))
        BY <1>2, <1>9, <1>6a, <3>1 DEF found
      <4>3. Found(Stores[d], q) \in Seq([Positions -> DataTerms])
        BY <2>2 DEF found
      <4> QED
        BY <1>3, <1>4, <1>9, <4>1, <4>2, <4>3, LastPageIsLast DEF found
    <3> QED
      BY <2>2, <3>3
  <2> QED
    BY <2>4, <2>5
<1>10. SliceInvOf(c)'
  <2>1. visited'[c] = {d} /\ ProperStart(c)' = ProperStart(c)
    BY <1>1, <1>5 DEF ProperStart
  <2>2. ASSUME ProperStart(c) PROVE HasSlice(c, d)'
    <3>1. /\ Stores' = Stores /\ request'[c] = request[c] /\ AnswerTo(c, d)' = AnswerTo(c, d)
          /\ (SupportsQuery(d, q) <=> SupportsQuery(d, q)')
          /\ (MayStopShort(c, d) <=> MayStopShort(c, d)') /\ (Local(d) <=> Local(d)')
      BY <1>1 DEF Stores, AnswerTo, SupportsQuery, MayStopShort, Local
    <3>2. /\ d' = d /\ q' = q
      BY <1>1
    <3> HIDE DEF offset
    <3>3. Reached(c)' = offset + PageSize /\ Begin(c)' = Begin(c)
      BY <1>8, <2>2
    <3>4. SupportsQuery(d, q)' /\ (Regular(Stores[d])' => Regular(Stores[d]))
      BY <1>4, <3>1, <3>2
    <3>5. Local(d)' /\ Regular(Stores[d]) =>
            /\ got'[c] = Slice(AnswerTo(c, d)', Begin(c)', Reached(c)')
            /\ pc'[c] = "done" /\ ~MayStopShort(c, d)' => Len(AnswerTo(c, d)') <= Reached(c)'
      BY <1>9, <2>2, <3>1, <3>3
    <3> QED
      BY <3>4, <3>5 DEF HasSlice
  <2>3. d' = d
    BY <1>1
  <2>4. visited'[c] # {}
    BY <2>1
  <2> HIDE DEF d
  <2> QED
    BY <1>8, <2>1, <2>2, <2>3, <2>4 DEF SliceInvOf
<1>11. DOMAIN got' = Clients
  <2> HIDE DEF shown
  <2> QED
    BY <1>1 DEF SliceInv
<1> QED
  BY <1>7, <1>10, <1>11 DEF SliceInv

LEMMA SliceStep == Inv /\ SliceInv /\ [Next]_vars => SliceInv'
<1> SUFFICES ASSUME Inv, SliceInv, [Next]_vars PROVE SliceInv'
  OBVIOUS
<1>1. CASE Tick \/ UNCHANGED vars
  <2>1. world' = world /\ clientVars' = clientVars
    BY <1>1 DEF Tick, vars
  <2>2. \A c \in Clients : SliceInvOf(c)'
    BY <2>1, SliceOfOthers DEF SliceInv, clientVars
  <2> QED
    BY <2>1, <2>2 DEF SliceInv, clientVars
<1>2. ASSUME NEW c \in Clients, Ask(c) PROVE SliceInv'
  BY <1>2, SliceAsk
<1>3. ASSUME NEW c \in Clients, HandleRequest(c) PROVE SliceInv'
  BY <1>3, SliceHandle
<1>4. ASSUME NEW c \in Clients, Respond(c) PROVE SliceInv'
  BY <1>4, SliceRespond
<1> QED
  BY <1>1, <1>2, <1>3, <1>4 DEF Next

LEMMA SliceAlways == Spec => []SliceInv
<1>1. Init => SliceInv
  BY DEF Init, SliceInv, SliceInvOf
<1>2. Inv /\ SliceInv /\ [Next]_vars => SliceInv'
  BY SliceStep
<1> QED
  BY <1>1, <1>2, InvAlways, PTL DEF Spec

\* What a client has got, as the properties put it.
LEMMA SliceOfWanted ==
  ASSUME Inv, SliceInv, NEW c \in Clients, NEW d \in visited[c],
         ProperStart(c), Local(d), Regular(Stores[d])
  PROVE  /\ Len(got[c]) <= Len(Wanted(c, d))
         /\ got[c] = SubSeq(Wanted(c, d), 1, Len(got[c]))
         /\ pc[c] = "done" /\ ~MayStopShort(c, d) => got[c] = Wanted(c, d)
<1>1. /\ Typed(c) /\ world \in Worlds /\ pc[c] # "idle" /\ SliceInvOf(c)
      /\ d \in DOMAIN Stores
  BY TypeOKSplit DEF Inv, StaysInv, SliceInv, Typed
<1>2. HasSlice(c, d) /\ Continues(c)
  BY <1>1 DEF SliceInvOf
<1>3. AnswerTo(c, d) \in Seq(Quads(Stores[d]))
  <2>1. /\ IsStore(Stores[d]) /\ \A p \in Positions : request[c].pattern[p] \in QueryTerms
        /\ (UsesQuads(request[c].pattern) => Stores[d].quads)
    BY <1>1, <1>2, StoreOf, PatternOf DEF HasSlice, SupportsQuery
  <2>2. 0 \in Nat
    OBVIOUS
  <2> QED
    BY <2>1, <2>2, PageOfAnswer, Zenon DEF AnswerTo
<1>4. request[c].page \in PageParameters /\ Proper(request[c].page)
  BY <1>1, ProperRequest
<1>5. Begin(c) \in Nat
      /\ Begin(c) = IF request[c].page.int > 1 THEN PageSize * (request[c].page.int - 1) ELSE 0
  BY <1>4, ProperOffset DEF Begin
<1>6. Wanted(c, d) = SubSeq(AnswerTo(c, d), Begin(c) + 1, Len(AnswerTo(c, d)))
  BY <1>5, Zenon DEF Wanted, AnswerTo
<1>7. Reached(c) \in Nat /\ Begin(c) <= Reached(c)
  BY <1>1, <1>2, OffsetType, CrawlAssumption DEF Typed, Reached, Continues
<1>8. got[c] = Slice(AnswerTo(c, d), Begin(c), Reached(c))
  BY <1>2 DEF HasSlice
<1>9. /\ Len(got[c]) <= Len(Wanted(c, d)) /\ got[c] = SubSeq(Wanted(c, d), 1, Len(got[c]))
      /\ Len(AnswerTo(c, d)) <= Reached(c) => got[c] = Wanted(c, d)
  <2> DEFINE A == AnswerTo(c, d)
             b == Begin(c)
             r == Reached(c)
             all == SubSeq(A, b + 1, Len(A))
             part == Slice(A, b, r)
  <2>1. A \in Seq(Quads(Stores[d])) /\ b \in Nat /\ r \in Nat /\ b <= r
    BY <1>3, <1>5, <1>7
  <2>2. all = Wanted(c, d) /\ part = got[c]
    BY <1>6, <1>8
  <2> HIDE DEF A, b, r
  <2>3. /\ Len(part) <= Len(all) /\ part = SubSeq(all, 1, Len(part))
        /\ Len(A) <= r => part = all
    BY <2>1, SliceIsPrefix
  <2> HIDE DEF all, part
  <2> QED
    BY <2>2, <2>3 DEF A, r
<1> QED
  BY <1>2, <1>9 DEF HasSlice

\* Page after page, a client receives the published quads that match its pattern,
\* in order and none of them twice or left out, from the page that it starts at:
\* for every data, pattern and page size, on in-memory and HDT datasources.
THEOREM CrawlsAreSlices == Spec => []GotIsSlice
<1>1. Inv /\ SliceInv => GotIsSlice
  BY SliceOfWanted DEF GotIsSlice
<1> QED
  BY <1>1, InvAlways, SliceAlways, PTL

\* A client that follows the links of an in-memory or HDT datasource until there
\* are none has all that matches, however HDT estimates, except in HTML pages of
\* HDT documents (sendFragmentMetadata, fragment.html).
THEOREM CrawlsAreComplete == Spec => []NothingMissed
<1>1. Inv /\ SliceInv => NothingMissed
  BY SliceOfWanted DEF NothingMissed
<1> QED
  BY <1>1, InvAlways, SliceAlways, PTL
=============================================================================
