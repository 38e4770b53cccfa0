--------------------------- MODULE RequestPipeline ---------------------------
(***************************************************************************)
(* One HTTP request on its way through the server: the chain of            *)
(* controllers, the fragments controller that selects a stream of quads,   *)
(* the view that writes the stream to the response, and the error handling *)
(* that may answer in its place.                                           *)
(*                                                                         *)
(* The chain runs synchronously; after it, the data, the metadata, the end *)
(* and the errors of the stream, the extensions of the controller and the  *)
(* asynchronous parts of the views run in any order.  Requests share no    *)
(* state here, so one is enough.                                           *)
(*                                                                         *)
(* A body is a sequence of parts; <<"quad", i>> is the i-th quad of the    *)
(* page.  A view collects its parts in "pending".  The views of RDF text   *)
(* ("turtle") write them when they are complete, those of HTML when the    *)
(* template is rendered, and JSON-LD pipes each of them to the response.   *)
(***************************************************************************)
EXTENDS Integers, Sequences

CONSTANTS
  NumQuads,  \* at most this many quads on a page
  Chains,    \* lists of controllers, each "other", "fragments" or "notfound"
  Methods,   \* "GET", "HEAD" (as OPTIONS) and others
  Formats    \* "html", "turtle", "jsonld", or "none" when no view is acceptable

Kinds == {"other", "fragments", "notfound"}

ASSUME PipelineAssumption ==
  /\ NumQuads \in Nat
  /\ Chains \subseteq Seq(Kinds)
  /\ Formats \subseteq {"html", "turtle", "jsonld", "none"}

VARIABLES
  method, format, size,  \* the request, and the number of quads on its page
  pageFails, \* whether the view of the error page throws
  chain,     \* the controllers of the server that are left to try
  pc,        \* whether the next controller is to be tried
  view,      \* the fragment: none, extensions, open or closed
  stream,    \* the stream of quads that select() returned
  received,  \* whether the view has received the metadata
  response   \* the response, with what the views have yet to write to it

vars == <<method, format, size, pageFails, chain, pc, view, stream, received, response>>
request == <<method, format, size, pageFails>>

NewStream == [metadata |-> FALSE, emitted |-> 0, ended |-> FALSE, failed |-> FALSE]
NewResponse ==
  [headersSent |-> FALSE, status |-> 200, ended |-> FALSE, error |-> FALSE, body |-> << >>,
   pending |-> [fragment |-> << >>, page |-> << >>]]

Part(kind) == <<kind, 0>>
End == Part("end")

Init ==
  /\ method \in Methods /\ format \in Formats /\ size \in 0 .. NumQuads /\ chain \in Chains
  /\ pageFails \in BOOLEAN
  /\ pc = "next"
  /\ view = "none"
  /\ stream = NewStream
  /\ received = FALSE
  /\ response = NewResponse

-----------------------------------------------------------------------------
(* Writing to the response.                                                *)

\* Node refuses to write to an ended response (with an 'error' event, on
\* which _reportError ends it once more).  For HEAD, write() does nothing.
Write(s, parts) ==
  IF s.ended \/ parts = << >> \/ method = "HEAD" THEN s
  ELSE [s EXCEPT !.headersSent = TRUE, !.body = @ \o parts]

EndResponse(s) == [s EXCEPT !.ended = TRUE, !.headersSent = TRUE]

\* A complete response in plain text.
Plain(s, status, kind) ==
  EndResponse(Write([s EXCEPT !.status = status], <<Part(kind), End>>))

\* View v has all of its parts and writes them at once.
Deliver(s, v) == EndResponse(Write([s EXCEPT !.pending[v] = << >>], s.pending[v]))

\* Mutant: a text view forgets to end the response.
FinishWithoutEnd(s, v) ==
  LET complete == [s EXCEPT !.pending[v] = Append(@, End)]
  IN  IF format = "turtle" THEN Write([s EXCEPT !.pending[v] = << >>], complete.pending[v])
                           ELSE complete

\* The last part of view v is known: a text view writes all of them, the
\* others go on asynchronously.
Finish(s, v) ==
  LET complete == [s EXCEPT !.pending[v] = Append(@, End)]
  IN  IF format = "turtle" THEN Deliver(complete, v) ELSE complete

\* The page of an error or a missing resource, through its view.
SendPage(s, status, kind) ==
  IF format = "none" THEN Plain(s, status, kind)
  ELSE Finish([s EXCEPT !.status = status, !.headersSent = TRUE,
                        !.pending.page = <<Part(kind)>>], "page")

\* The headers of the error page, and the page itself.  What its view throws
\* after them is caught and logged, and nothing ends the response.
SendErrorPage(s) ==
  IF pageFails /\ format # "none" THEN [s EXCEPT !.status = 500, !.headersSent = TRUE]
  ELSE SendPage(s, 500, "error")

\* Mutant: leave a response that has started alone.
ReportErrorUnlessStarted(s) ==
  IF s.error \/ s.headersSent THEN s ELSE SendErrorPage([s EXCEPT !.error = TRUE])

\* _reportError: end a response that has started, and otherwise answer with
\* an error page.
ReportError(s) ==
  IF s.error \/ s.headersSent THEN EndResponse(s) ELSE SendErrorPage([s EXCEPT !.error = TRUE])

-----------------------------------------------------------------------------
(* The controllers.                                                        *)

RejectMethod ==
  /\ pc = "next"
  /\ method \notin {"GET", "HEAD"}
  /\ response' = Plain(response, 405, "rejected")
  /\ pc' = "handled"
  /\ UNCHANGED <<request, chain, view, stream, received>>

Trying(kind) == /\ pc = "next" /\ method \in {"GET", "HEAD"}
                /\ chain # << >> /\ Head(chain) = kind

\* nextController without an error: on to the next one.  Any controller
\* that is not the last may leave the request to others.
NextController ==
  /\ Trying("other") \/ Trying("fragments")
  /\ chain' = Tail(chain)
  /\ UNCHANGED <<request, pc, view, stream, received, response>>

\* A controller throws or calls next with an error, or there is none left.
ControllerError ==
  /\ Trying("other") \/ (pc = "next" /\ method \in {"GET", "HEAD"} /\ chain = << >>)
  /\ response' = ReportError(response)
  /\ pc' = "handled"
  /\ UNCHANGED <<request, chain, view, stream, received>>

\* Another controller answers at once: an asset or a redirection.
ServeOther ==
  /\ Trying("other")
  /\ \E status \in {200, 303} : response' = Plain(response, status, "other")
  /\ pc' = "handled"
  /\ UNCHANGED <<request, chain, view, stream, received>>

ServeNotFound ==
  /\ Trying("notfound")
  /\ response' = SendPage(response, 404, "notfound")
  /\ pc' = "handled"
  /\ UNCHANGED <<request, chain, view, stream, received>>

\* The fragments controller has no view for the client: 406.
NotAcceptable ==
  /\ Trying("fragments") /\ format = "none"
  /\ response' = Plain(response, 406, "unacceptable")
  /\ pc' = "handled"
  /\ UNCHANGED <<request, chain, view, stream, received>>

\* It selects the quads.  An error of the datasource in select() itself is
\* reported at once, and the request goes on all the same.
ServeFragment ==
  /\ Trying("fragments") /\ format # "none"
  /\ pc' = "handled"
  /\ view' = "extensions"
  /\ \/ UNCHANGED <<stream, response>>
     \/ /\ stream' = [stream EXCEPT !.failed = TRUE]
        /\ response' = ReportError(response)
  /\ UNCHANGED <<request, chain, received>>

\* The last extension is done: render the result.  The view writes the
\* controls, and listens to the stream from now on.
RenderFragment ==
  /\ view = "extensions"
  /\ view' = "open"
  /\ response' = [response EXCEPT !.pending.fragment = <<Part("controls")>>]
  /\ UNCHANGED <<request, chain, pc, stream, received>>

-----------------------------------------------------------------------------
(* The stream, and the view that reads it.                                 *)

Selected == view # "none"

\* The datasource sets the metadata property.
SetMetadata ==
  /\ Selected /\ ~stream.metadata
  /\ stream' = [stream EXCEPT !.metadata = TRUE]
  /\ UNCHANGED <<request, chain, pc, view, received, response>>

\* Mutant: finish as soon as the metadata has been written.
ReceiveMetadataAndFinish ==
  LET s == [response EXCEPT !.pending.fragment = Append(@, Part("metadata"))]
  IN  /\ view = "open" /\ stream.metadata /\ ~received
      /\ received' = TRUE
      /\ response' = Finish(s, "fragment")
      /\ view' = "closed"
      /\ UNCHANGED <<request, chain, pc, stream>>

\* Mutant: leave it to the end of the data to finish.
ReceiveMetadataOnly ==
  /\ view = "open" /\ stream.metadata /\ ~received
  /\ received' = TRUE
  /\ response' = [response EXCEPT !.pending.fragment = Append(@, Part("metadata"))]
  /\ UNCHANGED <<request, chain, pc, view, stream>>

\* The callback of getProperty: write the metadata, and finish if the data
\* has ended already.
ReceiveMetadata ==
  LET s == [response EXCEPT !.pending.fragment = Append(@, Part("metadata"))]
  IN  /\ view = "open" /\ stream.metadata /\ ~received
      /\ received' = TRUE
      /\ response' = IF stream.ended THEN Finish(s, "fragment") ELSE s
      /\ view' = IF stream.ended THEN "closed" ELSE "open"
      /\ UNCHANGED <<request, chain, pc, stream>>

\* Mutant: the datasource sends a quad beyond the limit.
ReceiveDataBeyondLimit ==
  /\ view = "open" /\ ~stream.ended /\ stream.emitted <= size
  /\ stream' = [stream EXCEPT !.emitted = @ + 1]
  /\ response' = [response EXCEPT !.pending.fragment = Append(@, <<"quad", stream'.emitted>>)]
  /\ UNCHANGED <<request, chain, pc, view, received>>

\* A quad arrives.  A stream only flows once the view listens to its data.
ReceiveData ==
  /\ view = "open" /\ ~stream.ended /\ stream.emitted < size
  /\ stream' = [stream EXCEPT !.emitted = @ + 1]
  /\ response' = [response EXCEPT !.pending.fragment = Append(@, <<"quad", stream'.emitted>>)]
  /\ UNCHANGED <<request, chain, pc, view, received>>

\* The stream ends (an empty one possibly before the view listens); finish
\* if the metadata has been written already.
EndStream ==
  LET last == view = "open" /\ received
  IN  /\ Selected /\ ~stream.ended /\ stream.emitted = size
      /\ stream' = [stream EXCEPT !.ended = TRUE]
      /\ response' = IF last THEN Finish(response, "fragment") ELSE response
      /\ view' = IF last THEN "closed" ELSE view
      /\ UNCHANGED <<request, chain, pc, received>>

\* The stream emits an error, and next(error) reports it.  It may go on
\* afterwards: a process has failed but its output is still being parsed, or
\* one of the two requests to a SPARQL endpoint.
FailStream ==
  /\ Selected /\ ~stream.failed /\ ~stream.ended
  /\ stream' = [stream EXCEPT !.failed = TRUE]
  /\ response' = ReportError(response)
  /\ UNCHANGED <<request, chain, pc, view, received>>

\* The JSON-LD serializer of view v hands a part to the response, which ends
\* with the last one.
Flush(v) ==
  LET part == Head(response.pending[v])
      s == Write([response EXCEPT !.pending[v] = Tail(@)], <<part>>)
  IN  /\ format = "jsonld" /\ response.pending[v] # << >>
      /\ response' = IF part = End THEN EndResponse(s) ELSE s
      /\ UNCHANGED <<request, chain, pc, view, stream, received>>

\* The serializer of view v emits an error: done(error), as for a template.
SerializerFails(v) ==
  /\ format = "jsonld" /\ response.pending[v] # << >>
  /\ response' = EndResponse(ReportError([response EXCEPT !.pending[v] = << >>]))
  /\ UNCHANGED <<request, chain, pc, view, stream, received>>

Finished(v) == LET p == response.pending[v] IN p # << >> /\ p[Len(p)] = End

\* The HTML template of view v has been rendered.
RenderTemplate(v) ==
  /\ format = "html" /\ Finished(v)
  /\ response' = Deliver(response, v)
  /\ UNCHANGED <<request, chain, pc, view, stream, received>>

\* The template cannot be rendered: done(error) emits the error on the
\* response, and then ends the response.
RenderFails(v) ==
  /\ format = "html" /\ Finished(v)
  /\ response' = EndResponse(ReportError([response EXCEPT !.pending[v] = << >>]))
  /\ UNCHANGED <<request, chain, pc, view, stream, received>>

Views == {"fragment", "page"}

HandleRequest == \/ RejectMethod \/ NextController \/ ControllerError \/ ServeOther
                 \/ ServeNotFound \/ NotAcceptable \/ ServeFragment

StreamEvent == SetMetadata \/ ReceiveData \/ EndStream \/ FailStream

Next ==
  \/ HandleRequest
  \/ RenderFragment
  \/ StreamEvent
  \/ ReceiveMetadata
  \/ \E v \in Views : Flush(v) \/ SerializerFails(v) \/ RenderTemplate(v) \/ RenderFails(v)

Spec == Init /\ [][Next]_vars

\* Handlers and extensions call back, templates and serializers make
\* progress.  A stream need not: a SPARQL endpoint may never answer a query,
\* and a composite datasource waits for ever for one that is down.
FairSpec ==
  /\ Spec
  /\ WF_vars(HandleRequest) /\ WF_vars(RenderFragment) /\ WF_vars(ReceiveMetadata)
  /\ \A v \in Views : /\ WF_vars(Flush(v) \/ SerializerFails(v))
                      /\ WF_vars(RenderTemplate(v) \/ RenderFails(v))

-----------------------------------------------------------------------------
(* What a client may rely on.                                              *)

Parts == {"rejected", "other", "notfound", "unacceptable", "error", "controls", "metadata",
          "quad", "end"} \X (0 .. NumQuads)

TypeOK ==
  /\ method \in Methods /\ format \in Formats /\ size \in 0 .. NumQuads /\ chain \in Seq(Kinds)
  /\ pageFails \in BOOLEAN
  /\ pc \in {"next", "handled"}
  /\ view \in {"none", "extensions", "open", "closed"}
  /\ stream \in [metadata : BOOLEAN, emitted : 0 .. NumQuads, ended : BOOLEAN, failed : BOOLEAN]
  /\ received \in BOOLEAN
  /\ response \in [headersSent : BOOLEAN, status : {200, 303, 404, 405, 406, 500},
                   ended : BOOLEAN, error : BOOLEAN, body : Seq(Parts),
                   pending : [fragment : Seq(Parts), page : Seq(Parts)]]

IsQuad(part) == part[1] = "quad"
Complete(parts) == parts # << >> /\ parts[Len(parts)] = End

\* The quads among the parts are the first n of the page, each once, in order.
InOrder(parts, n) ==
  /\ \A k \in DOMAIN parts : IsQuad(parts[k]) => parts[k][2] \in 1 .. n
  /\ \A i \in 1 .. n : \E k \in DOMAIN parts : parts[k] = <<"quad", i>>
  /\ \A k, l \in DOMAIN parts :
       k < l /\ IsQuad(parts[k]) /\ IsQuad(parts[l]) => parts[k][2] < parts[l][2]

\* A complete fragment with status 200 is a whole one: the quads of the page,
\* each once and in order, and the metadata, whichever came last.
CompleteFragment ==
  Selected /\ response.status = 200 /\ Complete(response.body) =>
    /\ InOrder(response.body, size)
    /\ \E k \in DOMAIN response.body : response.body[k] = Part("metadata")

\* No client takes the answer to a failed query for a fragment: its status
\* is 500, or its body breaks off.
FailureIsVisible ==
  stream.failed => response.status = 500 \/ ~Complete(response.body)

\* The body is the error page, unless the template of that page failed.
ErrorPage == <<Part("error"), End>>
PageFailed == response.body = << >> /\ response.pending.page = << >>
ShowsError == ~pageFails /\ response.status = 500 /\ response.ended /\ method = "GET"
                => response.body = ErrorPage \/ PageFailed

\* A client that asked for RDF text gets the error page and nothing else,
\* whatever the stream does after its error.
TextErrorsAreShown ==
  format = "turtle" /\ ~pageFails /\ response.status = 500 /\ method = "GET"
    => response.ended /\ response.body = ErrorPage

\* The two reasons for which the server may keep a client waiting: the
\* stream has not delivered all it has, nor failed; or the error page failed.
AwaitsStream == Selected /\ ~stream.failed /\ ~(stream.metadata /\ stream.ended)
LostErrorPage == pageFails /\ response.error

\* Every request is answered, for these reasons apart: whichever controller
\* takes it, and in whatever order metadata, data, end and errors come.
EveryRequestEnds == <>[](response.ended \/ AwaitsStream \/ LostErrorPage)

\* Violated.  "Try to report the error in the response", and "don't modify
\* an already started response" (LinkedDataFragmentsServer.ts:105 and 107):
\* the body of a response with status 500 is the error page.  (The template
\* of the fragment fails, or its late results overtake the error page.)
ErrorsAreShown == ShowsError
=============================================================================
