-------------------------- MODULE MCFragmentCrawl --------------------------
(* A small instance of FragmentCrawl for TLC.                              *)
EXTENDS FragmentCrawl, TLC

CONSTANTS c1, c2

Quad(s, o, g) == [subject |-> s, object |-> o, graph |-> g]

\* Quads with blank nodes in every position, in the default graph and others.
Mixed == <<Quad(Blank("b"), Iri("a"), Default), Quad(Iri("a"), Blank("b"), Iri("g")),
           Quad(Iri("a"), Iri("a"), Blank("b")), Quad(Iri("a"), Iri("a"), Default),
           Quad(Blank("c"), Blank("b"), Default)>>

\* Triples, of which a page and a half match on the blank node b.
Triples == <<Quad(Blank("b"), Iri("a"), Default), Quad(Blank("b"), Iri("b"), Default),
             Quad(Iri("a"), Blank("b"), Default), Quad(Blank("b"), Blank("b"), Default)>>

\* What a remote datasource holds: it answers with any page of these.
Remote == <<Quad(Blank("b"), Iri("a"), Default)>>

Store(kind, quads, graph, content) ==
  [kind |-> kind, quads |-> quads, graph |-> graph, blacklist |-> {}, content |-> content]

Version(d, start, end) == [datasource |-> d, start |-> start, end |-> end]

World(v1, v2, versions, controllers, baseHost) ==
  [stores |-> [v1 |-> v1, v2 |-> v2], versions |-> versions,
   controllers |-> controllers, baseHost |-> baseHost]

TimegateFirst == <<"timegate", "fragments", "notfound">>
TimegateLast == <<"notfound", "fragments", "timegate">>

SomeWorlds == {
  \* versions in reverse order; a default graph with a name
  World(Store("memory", TRUE, Unbound, Mixed), Store("memory", TRUE, Iri("d"), Mixed),
        <<Version("v2", 1, 3), Version("v1", 0, 0)>>, TimegateLast, NoHost),
  \* overlapping versions; triples only
  World(Store("hdt", TRUE, Unbound, Triples), Store("memory", FALSE, Unbound, Mixed),
        <<Version("v1", 0, 2), Version("v2", 1, 3)>>, TimegateFirst, "h1"),
  \* a gap between the versions; a remote datasource, and one that estimates
  World(Store("hdt", TRUE, Iri("d"), Triples), Store("remote", TRUE, Unbound, Remote),
        <<Version("v1", 0, 0), Version("v2", 2, 3)>>, TimegateFirst, NoHost),
  \* a version with an invalid end; a datasource that failed
  World(Store("hdt", TRUE, Unbound, Triples), Store("failed", TRUE, Unbound, <<>>),
        <<Version("v1", 0, 1), Version("v2", 2, NaN)>>, TimegateLast, "h1"),
  \* a name for the default graph that the data or the features do not allow
  World(Store("memory", TRUE, Iri("g"), Mixed), Store("memory", FALSE, Iri("d"), Mixed),
        <<>>, TimegateFirst, NoHost) }

Pattern(s, g) == [subject |-> s, object |-> Unbound, graph |-> g]
All == Pattern(Unbound, Unbound)

First(path, pattern, p, host, route, accept) ==
  [path |-> path, pattern |-> pattern, page |-> p, host |-> host, route |-> route,
   accept |-> accept, format |-> "rdf"]
InHtml(r) == [r EXCEPT !.format = "html"]

\* The first client asks for everything that makes a difference.
AllRequests ==
  \* patterns, on datasources of all kinds
  {First(d, q, NoPage, "h1", "direct", Absent) :
     d \in {"v1", "v2"},
     q \in {All, Pattern(Genid("b"), Unbound), Pattern(Unbound, Default), Pattern(Unbound, Iri("d")),
            Pattern(Unbound, Iri("g")), Pattern(Unbound, Genid("b"))}}
  \* page parameters
  \cup {First("v1", All, p, "h2", "forwarded", Absent) :
          p \in {Page(0), Page(2), Page(9), [digits |-> FALSE, int |-> 2],
                 [digits |-> FALSE, int |-> -1]}}
  \* dates
  \cup {First(Gate, All, NoPage, "h2", "xforwarded", t) : t \in {Absent, NaN} \cup 0 .. 3}
  \* HTML pages
  \cup {InHtml(First(d, All, p, "h1", "direct", Absent)) :
          d \in {"v1", "v2"}, p \in {NoPage, Page(2)}}
  \* a proxy that does not tell the host
  \cup {First(d, All, NoPage, "h1", "silent", Absent) : d \in {Gate, "v1"}}

\* The second one asks the same datasources by the same host or another one.
SomeRequests ==
  c1 :> AllRequests @@
  c2 :> {First("v1", Pattern(Unbound, Default), NoPage, "h1", "direct", Absent),
         First(Gate, Pattern(Unbound, Default), NoPage, "h2", "forwarded", Absent),
         First("v2", All, Page(2), "h2", "xforwarded", Absent)}
=============================================================================
