----------------------- MODULE RequestPipelineProofs -----------------------
(***************************************************************************)
(* Proofs about RequestPipeline, for every page size, chain of controllers *)
(* and set of formats.  The first half is about the operators that change  *)
(* a response, the second about the actions.                               *)
(***************************************************************************)
EXTENDS RequestPipeline, SequenceTheorems, TLAPS

Statuses == {200, 303, 404, 405, 406, 500}
Pending == [fragment : Seq(Parts), page : Seq(Parts)]
Response == [headersSent : BOOLEAN, status : Statuses, ended : BOOLEAN, error : BOOLEAN,
             body : Seq(Parts), pending : Pending]

Stream == [metadata : BOOLEAN, emitted : 0 .. NumQuads, ended : BOOLEAN, failed : BOOLEAN]

\* The kinds of complete answers.
Answers == {"rejected", "other", "notfound", "unacceptable", "error"}

NoEnd(parts) == \A k \in DOMAIN parts : parts[k] # End

\* What holds of a response at all times: nothing precedes its headers, and
\* an error in RDF text is complete once its status is known.
Ordered(r) ==
  /\ r \in Response
  /\ r.ended => r.headersSent
  /\ ~r.headersSent /\ method # "HEAD" => r.body = << >>

Sound(r) ==
  /\ Ordered(r)
  /\ r.status = 500 => r.headersSent
  /\ format = "turtle" /\ ~pageFails /\ r.status = 500 /\ method = "GET"
       => r.ended /\ r.body = ErrorPage

-----------------------------------------------------------------------------
(* Parts, and updates of single fields.                                    *)

LEMMA PartTypes ==
  /\ End \in Parts
  /\ \A kind \in Answers \cup {"controls", "metadata"} : Part(kind) \in Parts /\ Part(kind) # End
  /\ \A i \in 1 .. NumQuads : <<"quad", i>> \in Parts /\ <<"quad", i>> # End
BY PipelineAssumption DEF End, Part, Parts, Answers

LEMMA AppendNoEnd ==
  ASSUME NEW parts \in Seq(Parts), NoEnd(parts), NEW part \in Parts, part # End
  PROVE  NoEnd(Append(parts, part))
BY DEF NoEnd

LEMMA ConcatNoEnd ==
  ASSUME NEW parts \in Seq(Parts), NoEnd(parts), NEW part \in Parts, part # End
  PROVE  NoEnd(parts \o <<part>>)
BY DEF NoEnd

LEMMA TailNoEnd ==
  ASSUME NEW parts \in Seq(Parts), NoEnd(parts), parts # << >>
  PROVE  Head(parts) \in Parts /\ Head(parts) # End /\ Tail(parts) \in Seq(Parts) /\ NoEnd(Tail(parts))
BY DEF NoEnd

LEMMA TwoParts ==
  ASSUME NEW S, NEW x \in S, NEW y \in S
  PROVE  Append(<<x>>, y) = <<x, y>>
<1> DEFINE a == Append(<<x>>, y)
           b == <<x, y>>
<1>1. <<x>> \in Seq(S) /\ Len(<<x>>) = 1 /\ <<x>>[1] = x
  OBVIOUS
<1>2. a \in Seq(S) /\ Len(a) = 2 /\ a[1] = x /\ a[2] = y
  BY <1>1, AppendProperties
<1>3. b \in Seq(S) /\ Len(b) = 2 /\ b[1] = x /\ b[2] = y
  OBVIOUS
<1> HIDE DEF a, b
<1>4. a = b
  BY <1>2, <1>3, SeqEqual
<1> QED
  BY <1>4 DEF a, b

LEMMA SetPending ==
  ASSUME NEW s \in Response, NEW parts \in Seq(Parts), NEW v \in Views
  PROVE  [s EXCEPT !.pending[v] = parts] \in Response
BY DEF Response, Pending, Views

LEMMA SetPendingFields ==
  ASSUME NEW s \in Response, NEW parts \in Seq(Parts), NEW v \in Views
  PROVE  LET t == [s EXCEPT !.pending[v] = parts]
         IN  /\ t.headersSent = s.headersSent /\ t.status = s.status /\ t.ended = s.ended
             /\ t.error = s.error /\ t.body = s.body
             /\ t.pending[v] = parts
             /\ \A w \in Views \ {v} : t.pending[w] = s.pending[w]
BY DEF Response, Pending, Views

LEMMA SetFragment ==
  ASSUME NEW s \in Response, NEW parts \in Seq(Parts)
  PROVE  [s EXCEPT !.pending.fragment = parts] \in Response
BY DEF Response, Pending

LEMMA SetFragmentFields ==
  ASSUME NEW s \in Response, NEW parts \in Seq(Parts)
  PROVE  LET t == [s EXCEPT !.pending.fragment = parts]
         IN  /\ t.headersSent = s.headersSent /\ t.status = s.status /\ t.ended = s.ended
             /\ t.error = s.error /\ t.body = s.body
             /\ t.pending.fragment = parts /\ t.pending.page = s.pending.page
BY DEF Response, Pending

LEMMA SetBody ==
  ASSUME NEW s \in Response, NEW body \in Seq(Parts)
  PROVE  [s EXCEPT !.headersSent = TRUE, !.body = body] \in Response
BY DEF Response

LEMMA SetBodyFields ==
  ASSUME NEW s \in Response, NEW body \in Seq(Parts)
  PROVE  LET t == [s EXCEPT !.headersSent = TRUE, !.body = body]
         IN  /\ t.headersSent /\ t.status = s.status /\ t.ended = s.ended
             /\ t.error = s.error /\ t.body = body /\ t.pending = s.pending
BY DEF Response

LEMMA SetStatus ==
  ASSUME NEW s \in Response, NEW status \in Statuses
  PROVE  [s EXCEPT !.status = status] \in Response
BY DEF Response

LEMMA SetStatusFields ==
  ASSUME NEW s \in Response, NEW status \in Statuses
  PROVE  LET t == [s EXCEPT !.status = status]
         IN  /\ t.headersSent = s.headersSent /\ t.status = status /\ t.ended = s.ended
             /\ t.error = s.error /\ t.body = s.body /\ t.pending = s.pending
BY DEF Response

LEMMA SetPage ==
  ASSUME NEW s \in Response, NEW status \in Statuses, NEW parts \in Seq(Parts)
  PROVE  [s EXCEPT !.status = status, !.headersSent = TRUE, !.pending.page = parts] \in Response
BY DEF Response, Pending

LEMMA SetPageFields ==
  ASSUME NEW s \in Response, NEW status \in Statuses, NEW parts \in Seq(Parts)
  PROVE  LET t == [s EXCEPT !.status = status, !.headersSent = TRUE, !.pending.page = parts]
         IN  /\ t.headersSent /\ t.status = status /\ t.ended = s.ended
             /\ t.error = s.error /\ t.body = s.body
             /\ t.pending.page = parts /\ t.pending.fragment = s.pending.fragment
BY DEF Response, Pending

LEMMA SetError ==
  ASSUME NEW s \in Response
  PROVE  [s EXCEPT !.error = TRUE] \in Response
BY DEF Response

LEMMA SetErrorFields ==
  ASSUME NEW s \in Response
  PROVE  LET t == [s EXCEPT !.error = TRUE]
         IN  /\ t.headersSent = s.headersSent /\ t.status = s.status /\ t.ended = s.ended
             /\ t.body = s.body /\ t.pending = s.pending
BY DEF Response

LEMMA FieldTypes ==
  ASSUME NEW s \in Response
  PROVE  /\ s.body \in Seq(Parts) /\ s.status \in Statuses /\ s.pending \in Pending
         /\ s.pending.fragment \in Seq(Parts) /\ s.pending.page \in Seq(Parts)
         /\ \A v \in Views : s.pending[v] \in Seq(Parts)
BY DEF Response, Pending, Views

-----------------------------------------------------------------------------
(* What the operators on responses do.                                     *)

\* Write adds the parts or does nothing; an ended response stays as it is.
LEMMA WriteFacts ==
  ASSUME NEW s, Ordered(s), NEW parts \in Seq(Parts)
  PROVE  LET t == Write(s, parts)
         IN  /\ t \in Response
             /\ t.status = s.status /\ t.ended = s.ended /\ t.pending = s.pending
             /\ s.headersSent => t.headersSent
             /\ s.ended => t = s
             /\ ~t.headersSent /\ method # "HEAD" => t.body = << >>
             /\ t.body = s.body \/ (~s.ended /\ t.body = s.body \o parts)
<1> DEFINE b == s.body \o parts
<1>1. s \in Response /\ s.body \in Seq(Parts) /\ b \in Seq(Parts)
  BY FieldTypes DEF Ordered
<1> HIDE DEF b
<1>2. CASE s.ended \/ parts = << >> \/ method = "HEAD"
  <2>1. Write(s, parts) = s
    BY <1>2 DEF Write
  <2> QED
    BY <1>1, <1>2, <2>1 DEF Ordered
<1>3. CASE ~(s.ended \/ parts = << >> \/ method = "HEAD")
  <2>1. Write(s, parts) = [s EXCEPT !.headersSent = TRUE, !.body = b]
    BY <1>3 DEF Write, b
  <2>2. Write(s, parts) \in Response
    BY <1>1, <2>1, SetBody
  <2>3. LET t == Write(s, parts)
        IN  /\ t.headersSent /\ t.status = s.status /\ t.ended = s.ended
            /\ t.body = b /\ t.pending = s.pending
    BY <1>1, <2>1, SetBodyFields
  <2> QED
    BY <1>3, <2>2, <2>3 DEF b
<1> QED
  BY <1>2, <1>3

LEMMA EndResponseFacts ==
  ASSUME NEW s \in Response
  PROVE  LET t == EndResponse(s)
         IN  /\ t \in Response
             /\ t.ended /\ t.headersSent
             /\ t.status = s.status /\ t.body = s.body /\ t.pending = s.pending
<1>1. EndResponse(s) \in Response
  BY DEF EndResponse, Response
<1>2. LET t == EndResponse(s)
      IN  t.ended /\ t.headersSent /\ t.status = s.status /\ t.body = s.body /\ t.pending = s.pending
  BY DEF EndResponse, Response
<1> QED
  BY <1>1, <1>2

LEMMA EndResponseSound ==
  ASSUME NEW s, Sound(s)
  PROVE  Sound(EndResponse(s))
BY EndResponseFacts DEF Sound, Ordered

\* A plain response is complete, and leaves what is pending alone.
LEMMA PlainFacts ==
  ASSUME NEW s, Sound(s), NEW status \in Statuses, NEW kind \in Answers,
         format # "turtle" \/ status # 500
  PROVE  LET t == Plain(s, status, kind)
         IN  Sound(t) /\ t.ended /\ t.status = status /\ t.pending = s.pending
<1> DEFINE u == [s EXCEPT !.status = status]
           p == <<Part(kind), End>>
           w == Write(u, p)
<1>1. s \in Response
  BY DEF Sound, Ordered
<1>2. u \in Response
  BY <1>1, SetStatus
<1>3. /\ u.headersSent = s.headersSent /\ u.status = status /\ u.ended = s.ended
      /\ u.body = s.body /\ u.pending = s.pending
  BY <1>1, SetStatusFields
<1> HIDE DEF u
<1>4. Ordered(u)
  BY <1>2, <1>3 DEF Sound, Ordered
<1>5. p \in Seq(Parts)
  BY PartTypes
<1> HIDE DEF p
<1>6. w \in Response /\ w.status = status /\ w.pending = s.pending
  BY <1>3, <1>4, <1>5, WriteFacts DEF Sound
<1>7. Plain(s, status, kind) = EndResponse(w)
  BY DEF Plain, u, p
<1> HIDE DEF w
<1> QED
  BY <1>6, <1>7, EndResponseFacts DEF Sound, Ordered

\* A view that delivers its parts ends the response, and changes no other
\* view.  It adds nothing to a response that has ended.
LEMMA DeliverFacts ==
  ASSUME NEW s, Ordered(s), NEW v \in Views
  PROVE  LET t == Deliver(s, v)
         IN  /\ Ordered(t) /\ t.ended /\ t.status = s.status
             /\ s.ended => t.body = s.body
             /\ t.pending[v] = << >>
             /\ \A w \in Views \ {v} : t.pending[w] = s.pending[w]
<1> DEFINE u == [s EXCEPT !.pending[v] = << >>]
           p == s.pending[v]
           w == Write(u, p)
<1>1. s \in Response /\ p \in Seq(Parts) /\ << >> \in Seq(Parts)
  BY FieldTypes DEF Ordered
<1> HIDE DEF p
<1>2. u \in Response
  BY <1>1, SetPending
<1>3. /\ u.headersSent = s.headersSent /\ u.status = s.status /\ u.ended = s.ended
      /\ u.body = s.body /\ u.pending[v] = << >>
      /\ \A x \in Views \ {v} : u.pending[x] = s.pending[x]
  <2> DEFINE Fields(e) ==
        LET t == [s EXCEPT !.pending[v] = e]
        IN  /\ t.headersSent = s.headersSent /\ t.status = s.status /\ t.ended = s.ended
            /\ t.error = s.error /\ t.body = s.body
            /\ t.pending[v] = e
            /\ \A x \in Views \ {v} : t.pending[x] = s.pending[x]
  <2>1. ASSUME NEW e \in Seq(Parts) PROVE Fields(e)
    BY <1>1, SetPendingFields, Zenon
  <2>2. Fields(<< >>)
    <3> HIDE DEF Fields
    <3> QED
      BY <1>1, <2>1, Zenon
  <2> QED
    BY <2>2, Zenon DEF Fields, u
<1> HIDE DEF u
<1>4. Ordered(u)
  BY <1>2, <1>3 DEF Ordered
<1>5. w \in Response /\ w.status = u.status /\ w.pending = u.pending /\ (u.ended => w = u)
  BY <1>1, <1>4, WriteFacts
<1>6. Deliver(s, v) = EndResponse(w)
  BY DEF Deliver, u, p
<1> HIDE DEF w
<1>7. LET t == Deliver(s, v)
      IN  t \in Response /\ t.ended /\ t.headersSent /\ t.status = w.status /\ t.body = w.body
            /\ t.pending = w.pending
  BY <1>5, <1>6, EndResponseFacts
<1> QED
  BY <1>3, <1>5, <1>7 DEF Ordered

\* The first that a view delivers is the whole body.
LEMMA DeliverFirst ==
  ASSUME NEW s, Ordered(s), ~s.ended, method # "HEAD", s.body = << >>, NEW v \in Views,
         s.pending[v] # << >>
  PROVE  Deliver(s, v).ended /\ Deliver(s, v).body = s.pending[v]
<1> DEFINE u == [s EXCEPT !.pending[v] = << >>]
           p == s.pending[v]
           w == [u EXCEPT !.headersSent = TRUE, !.body = p]
<1>1. s \in Response /\ p \in Seq(Parts) /\ << >> \in Seq(Parts)
  BY FieldTypes DEF Ordered
<1> HIDE DEF p
<1>2. u \in Response
  BY <1>1, SetPending
<1>3. u.ended = s.ended /\ u.body = s.body
  BY <1>1, SetPendingFields
<1> HIDE DEF u
<1>4. << >> \o p = p
  BY <1>1
<1>5. Write(u, p) = w
  BY <1>3, <1>4 DEF Write, p
<1>6. w \in Response /\ w.body = p
  BY <1>1, <1>2, SetBody, SetBodyFields
<1>7. Deliver(s, v) = EndResponse(w)
  BY <1>5 DEF Deliver, u, p
<1> HIDE DEF w
<1> QED
  BY <1>6, <1>7, EndResponseFacts DEF p

\* Finish keeps the status, and adds nothing to a response that has ended.
LEMMA FinishFacts ==
  ASSUME NEW s, Ordered(s), NEW v \in Views
  PROVE  LET t == Finish(s, v)
         IN  /\ Ordered(t) /\ t.status = s.status
             /\ s.headersSent => t.headersSent
             /\ s.ended => t.ended /\ t.body = s.body
             /\ \A w \in Views \ {v} : t.pending[w] = s.pending[w]
<1> DEFINE p == Append(s.pending[v], End)
           u == [s EXCEPT !.pending[v] = p]
<1>1. s \in Response /\ p \in Seq(Parts)
  BY FieldTypes, PartTypes DEF Ordered
<1>2. Finish(s, v) = IF format = "turtle" THEN Deliver(u, v) ELSE u
  BY <1>1 DEF Finish, Response, Pending, Views
<1> HIDE DEF p
<1>3. u \in Response
  BY <1>1, SetPending
<1>4. /\ u.headersSent = s.headersSent /\ u.status = s.status /\ u.ended = s.ended
      /\ u.body = s.body
      /\ \A w \in Views \ {v} : u.pending[w] = s.pending[w]
  BY <1>1, SetPendingFields
<1> HIDE DEF u
<1>5. Ordered(u)
  BY <1>3, <1>4 DEF Ordered
<1>6. CASE format = "turtle"
  BY <1>2, <1>4, <1>5, <1>6, DeliverFacts DEF Ordered
<1>7. CASE format # "turtle"
  BY <1>2, <1>4, <1>5, <1>7
<1> QED
  BY <1>6, <1>7

\* A text view that finishes has written all of its parts.
LEMMA FinishText ==
  ASSUME NEW s, Ordered(s), ~s.ended, s.body = << >>, NEW v \in Views,
         format = "turtle", method # "HEAD"
  PROVE  Finish(s, v).ended /\ Finish(s, v).body = Append(s.pending[v], End)
<1> DEFINE p == Append(s.pending[v], End)
           u == [s EXCEPT !.pending[v] = p]
<1>1. s \in Response /\ p \in Seq(Parts) /\ p # << >>
  BY FieldTypes, PartTypes, AppendProperties DEF Ordered
<1>2. Finish(s, v) = Deliver(u, v)
  BY <1>1 DEF Finish, Response, Pending, Views
<1> HIDE DEF p
<1>3. u \in Response
  BY <1>1, SetPending
<1>4. /\ u.headersSent = s.headersSent /\ u.status = s.status /\ u.ended = s.ended
      /\ u.body = s.body /\ u.pending[v] = p
  BY <1>1, SetPendingFields
<1> HIDE DEF u
<1>5. Ordered(u)
  BY <1>3, <1>4 DEF Ordered
<1> QED
  BY <1>1, <1>2, <1>4, <1>5, DeliverFirst DEF p

LEMMA FinishSound ==
  ASSUME NEW s, Sound(s), NEW v \in Views
  PROVE  Sound(Finish(s, v))
<1> DEFINE t == Finish(s, v)
<1>1. /\ Ordered(t) /\ t.status = s.status /\ (s.headersSent => t.headersSent)
      /\ (s.ended => t.ended /\ t.body = s.body)
  BY FinishFacts DEF Sound
<1> HIDE DEF t
<1>2. Sound(t)
  BY <1>1 DEF Sound
<1> QED
  BY <1>2 DEF t

\* A page in the place of a response that has not started.
LEMMA SendPageFacts ==
  ASSUME NEW s, Ordered(s), ~s.headersSent, NEW status \in Statuses, status # s.status,
         s.status # 500, NEW kind \in Answers, status = 500 => kind = "error"
  PROVE  LET t == SendPage(s, status, kind)
         IN  Sound(t) /\ t.status = status /\ t.pending.fragment = s.pending.fragment
<1>1. CASE format = "none"
  <2>1. SendPage(s, status, kind) = Plain(s, status, kind)
    BY <1>1 DEF SendPage
  <2>2. Sound(s)
    BY <1>1 DEF Sound
  <2> QED
    BY <1>1, <2>1, <2>2, PlainFacts
<1>2. CASE format # "none"
  <2> DEFINE p == <<Part(kind)>>
             u == [s EXCEPT !.status = status, !.headersSent = TRUE, !.pending.page = p]
             t == Finish(u, "page")
  <2>1. SendPage(s, status, kind) = t
    BY <1>2 DEF SendPage
  <2>2. s \in Response /\ p \in Seq(Parts) /\ ~s.ended /\ (method # "HEAD" => s.body = << >>)
    BY PartTypes DEF Ordered
  <2> HIDE DEF p
  <2>3. u \in Response
    BY <2>2, SetPage
  <2>4. /\ u.headersSent /\ u.status = status /\ u.ended = s.ended /\ u.body = s.body
        /\ u.pending.page = p /\ u.pending.fragment = s.pending.fragment
    BY <2>2, SetPageFields
  <2> HIDE DEF u
  <2>5. Ordered(u)
    BY <2>2, <2>3, <2>4 DEF Ordered
  <2>6. "page" \in Views /\ "fragment" \in Views \ {"page"}
    BY DEF Views
  <2>7. /\ Ordered(t) /\ t.status = u.status /\ t.headersSent
        /\ \A w \in Views \ {"page"} : t.pending[w] = u.pending[w]
    BY <2>4, <2>5, <2>6, FinishFacts
  <2>8. t.pending["fragment"] = u.pending["fragment"]
    BY <2>6, <2>7
  <2>9. ASSUME format = "turtle", status = 500, method = "GET"
        PROVE  t.ended /\ t.body = ErrorPage
    <3>1. u.pending["page"] = <<Part("error")>> /\ u.body = << >> /\ ~u.ended
      BY <2>2, <2>4, <2>9 DEF p
    <3>2. Part("error") \in Parts /\ End \in Parts
      BY PartTypes DEF Answers
    <3>3. Append(u.pending["page"], End) = ErrorPage
      BY <3>1, <3>2, TwoParts DEF ErrorPage
    <3>4. t.ended /\ t.body = Append(u.pending["page"], End)
      BY <2>5, <2>6, <2>9, <3>1, FinishText
    <3> QED
      BY <3>3, <3>4
  <2> HIDE DEF t
  <2> QED
    BY <2>1, <2>4, <2>7, <2>8, <2>9 DEF Sound
<1> QED
  BY <1>1, <1>2

LEMMA SendErrorPageFacts ==
  ASSUME NEW s, Ordered(s), ~s.headersSent, s.status # 500
  PROVE  LET t == SendErrorPage(s)
         IN  Sound(t) /\ t.status = 500 /\ t.pending.fragment = s.pending.fragment
<1>1. CASE pageFails /\ format # "none"
  <2> DEFINE w == [s EXCEPT !.status = 500]
             u == [s EXCEPT !.status = 500, !.headersSent = TRUE]
  <2>1. s \in Response
    BY DEF Ordered
  <2>2. u \in Response
    <3>1. w \in Response
      BY <2>1, SetStatus DEF Statuses
    <3>2. u = [w EXCEPT !.headersSent = TRUE]
      OBVIOUS
    <3> HIDE DEF w, u
    <3> QED
      BY <3>1, <3>2 DEF Response
  <2>3. /\ u.headersSent /\ u.status = 500 /\ u.ended = s.ended /\ u.body = s.body
        /\ u.pending = s.pending
    BY <2>1 DEF Response
  <2>4. SendErrorPage(s) = u
    BY <1>1 DEF SendErrorPage
  <2> HIDE DEF u
  <2>5. Sound(u)
    BY <1>1, <2>2, <2>3 DEF Sound, Ordered
  <2> QED
    BY <2>3, <2>4, <2>5
<1>2. CASE ~(pageFails /\ format # "none")
  <2>1. SendErrorPage(s) = SendPage(s, 500, "error")
    BY <1>2 DEF SendErrorPage
  <2> QED
    BY <2>1, SendPageFacts DEF Statuses, Answers
<1> QED
  BY <1>1, <1>2

\* An error is reported with status 500, or ends a response that has started
\* without adding to it.
LEMMA ReportErrorFacts ==
  ASSUME NEW s, Sound(s)
  PROVE  LET t == ReportError(s)
         IN  /\ Sound(t)
             /\ t.pending.fragment = s.pending.fragment
             /\ \/ t.status = 500
                \/ t.ended /\ t.status = s.status /\ t.body = s.body /\ t.pending = s.pending
<1>1. CASE s.error \/ s.headersSent
  <2>1. ReportError(s) = EndResponse(s)
    BY <1>1 DEF ReportError
  <2> QED
    BY <2>1, EndResponseFacts, EndResponseSound DEF Sound, Ordered
<1>2. CASE ~(s.error \/ s.headersSent)
  <2> DEFINE u == [s EXCEPT !.error = TRUE]
  <2>1. s \in Response
    BY DEF Sound, Ordered
  <2>2. u \in Response
    BY <2>1, SetError
  <2>3. /\ u.headersSent = s.headersSent /\ u.status = s.status /\ u.ended = s.ended
        /\ u.body = s.body /\ u.pending = s.pending
    BY <2>1, SetErrorFields
  <2>4. ReportError(s) = SendErrorPage(u)
    BY <1>2 DEF ReportError
  <2> HIDE DEF u
  <2>5. Ordered(u)
    BY <2>2, <2>3 DEF Sound, Ordered
  <2>6. LET t == SendErrorPage(u)
        IN  Sound(t) /\ t.status = 500 /\ t.pending.fragment = u.pending.fragment
    BY <1>2, <2>3, <2>5, SendErrorPageFacts DEF Sound
  <2> QED
    BY <2>3, <2>4, <2>6
<1> QED
  BY <1>1, <1>2

-----------------------------------------------------------------------------
(* The invariant.                                                          *)

\* A request whose chain still runs is as it arrived.
Fresh == pc = "next" => view = "none" /\ response = NewResponse /\ stream = NewStream

\* A view that reads the stream has not written its end anywhere, and the
\* page of an error is there only with its status.
Reading == view \in {"extensions", "open"}
Unfinished ==
  Reading => /\ NoEnd(response.pending.fragment)
             /\ response.status # 500 => NoEnd(response.body) /\ response.pending.page = << >>

\* A stream fails before the view has read it to its end.
Closed == view = "closed" => stream.ended
Broken ==
  stream.failed =>
    /\ view # "none"
    /\ response.status = 500 \/ (response.ended /\ NoEnd(response.body))

IInv == TypeOK /\ Sound(response) /\ Fresh /\ Unfinished /\ Closed /\ Broken

\* How a response may change: it keeps its status or becomes an error, and
\* nothing is added once it has ended.
Keeps(r, t) ==
  /\ Sound(t)
  /\ \/ t.status = 500
     \/ t.status = r.status /\ (r.ended => t.ended /\ t.body = r.body)

LEMMA NewResponseFacts == NewResponse \in Response /\ Sound(NewResponse)
<1>1. NewResponse \in Response
  BY DEF NewResponse, Response, Pending, Statuses
<1>2. /\ ~NewResponse.headersSent /\ ~NewResponse.ended /\ NewResponse.status = 200
      /\ NewResponse.body = << >>
  BY DEF NewResponse
<1> QED
  BY <1>1, <1>2 DEF Sound, Ordered

LEMMA NewPending ==
  /\ NewResponse.status = 200 /\ NewResponse.body = << >>
  /\ NewResponse.pending.fragment = << >> /\ NewResponse.pending.page = << >>
  /\ NoEnd(<< >>)
BY DEF NewResponse, NoEnd

LEMMA FailStreamFacts ==
  ASSUME stream \in Stream
  PROVE  LET t == [stream EXCEPT !.failed = TRUE]
         IN  /\ t \in Stream /\ t.failed
             /\ t.ended = stream.ended /\ t.emitted = stream.emitted
<1>1. [stream EXCEPT !.failed = TRUE] \in Stream
  BY DEF Stream
<1> QED
  BY <1>1 DEF Stream

LEMMA SetMetadataFacts ==
  ASSUME stream \in Stream
  PROVE  LET t == [stream EXCEPT !.metadata = TRUE]
         IN  t \in Stream /\ t.failed = stream.failed /\ t.ended = stream.ended
<1>1. [stream EXCEPT !.metadata = TRUE] \in Stream
  BY DEF Stream
<1> QED
  BY <1>1 DEF Stream

LEMMA EndStreamFacts ==
  ASSUME stream \in Stream
  PROVE  LET t == [stream EXCEPT !.ended = TRUE]
         IN  t \in Stream /\ t.failed = stream.failed /\ t.ended
<1>1. [stream EXCEPT !.ended = TRUE] \in Stream
  BY DEF Stream
<1> QED
  BY <1>1 DEF Stream

LEMMA ReceiveDataFacts ==
  ASSUME stream \in Stream, size \in 0 .. NumQuads, stream.emitted < size
  PROVE  LET t == [stream EXCEPT !.emitted = @ + 1]
         IN  /\ t \in Stream /\ t.failed = stream.failed /\ t.ended = stream.ended
             /\ t.emitted \in 1 .. NumQuads
<1>1. stream.emitted + 1 \in 0 .. NumQuads /\ stream.emitted + 1 \in 1 .. NumQuads
  BY PipelineAssumption DEF Stream
<1>2. [stream EXCEPT !.emitted = @ + 1] \in Stream
  BY <1>1 DEF Stream
<1> QED
  BY <1>1, <1>2 DEF Stream

LEMMA InitIInv == Init => IInv
<1> SUFFICES ASSUME Init PROVE IInv
  OBVIOUS
<1>1. TypeOK
  <2>1. response \in Response
    BY NewResponseFacts DEF Init
  <2>2. stream \in Stream
    BY PipelineAssumption DEF Init, NewStream, Stream
  <2>3. chain \in Seq(Kinds)
    BY PipelineAssumption DEF Init
  <2> QED
    BY <2>1, <2>2, <2>3 DEF Init, TypeOK, Stream, Response, Pending, Statuses
<1>2. Sound(response)
  BY NewResponseFacts DEF Init
<1>3. Fresh /\ Unfinished /\ Closed
  BY DEF Init, Fresh, Unfinished, Reading, Closed
<1>4. Broken
  BY DEF Init, Broken, NewStream
<1> QED
  BY <1>1, <1>2, <1>3, <1>4 DEF IInv

LEMMA TypeOKFields == TypeOK => response \in Response /\ stream \in Stream
BY DEF TypeOK, Response, Pending, Statuses, Stream

\* Answering a request that has not selected a stream.
LEMMA Answered ==
  ASSUME IInv, pc = "next", Sound(response'),
         pc' = "handled", chain' \in Seq(Kinds), UNCHANGED <<request, view, stream, received>>
  PROVE  IInv'
<1>1. view = "none" /\ stream = NewStream
  BY DEF IInv, Fresh
<1>2. TypeOK'
  <2>1. response' \in Response
    BY DEF Sound, Ordered
  <2> QED
    BY <2>1 DEF IInv, TypeOK, Response, Pending, Statuses, request
<1>3. Fresh' /\ Unfinished' /\ Closed'
  BY <1>1 DEF Fresh, Unfinished, Reading, Closed
<1>4. Broken'
  BY <1>1 DEF Broken, NewStream
<1>5. Sound(response)'
  BY DEF Sound, Ordered, request
<1> QED
  BY <1>2, <1>3, <1>4, <1>5 DEF IInv

\* A step of a request that is being answered: the parts of the invariant
\* that follow from the way in which the response changes.
LEMMA Handled ==
  ASSUME IInv, pc' = pc, view # "none", view' # "none", Keeps(response, response'),
         UNCHANGED <<request, chain>>, received' \in BOOLEAN,
         view' \in {"extensions", "open", "closed"}, view' = "closed" => stream'.ended,
         stream' \in Stream,
         stream'.failed => stream.failed, response.status = 500 => response'.status = 500,
         Unfinished'
  PROVE  IInv'
<1>1. pc = "handled"
  BY DEF IInv, Fresh, TypeOK
<1>2. TypeOK'
  <2>1. response' \in Response
    BY DEF Keeps, Sound, Ordered
  <2> QED
    BY <2>1 DEF IInv, TypeOK, Stream, Response, Pending, Statuses, request
<1>3. Sound(response)'
  BY DEF Keeps, Sound, Ordered, request
<1>4. Fresh' /\ Closed'
  BY <1>1 DEF Fresh, Closed
<1>5. Broken'
  BY DEF IInv, Broken, Keeps
<1> QED
  BY <1>2, <1>3, <1>4, <1>5 DEF IInv

-----------------------------------------------------------------------------
(* The steps.                                                              *)

\* The chain of controllers.
LEMMA HandleRequestStep == IInv /\ HandleRequest => IInv'
<1> SUFFICES ASSUME IInv, HandleRequest PROVE IInv'
  OBVIOUS
<1>1. pc = "next" /\ view = "none" /\ response = NewResponse /\ stream = NewStream
  BY DEF IInv, Fresh, HandleRequest, RejectMethod, NextController, ControllerError, ServeOther,
         ServeNotFound, NotAcceptable, ServeFragment, Trying
<1>2. chain \in Seq(Kinds) /\ Sound(response) /\ response.status = 200 /\ ~response.headersSent
  BY <1>1, NewResponseFacts DEF IInv, TypeOK, NewResponse
<1>3. CASE RejectMethod
  <2>1. Sound(response')
    BY <1>2, <1>3, PlainFacts DEF RejectMethod, Statuses, Answers
  <2> QED
    BY <1>1, <1>2, <1>3, <2>1, Answered DEF RejectMethod
<1>4. CASE NextController
  <2>1. chain # << >> /\ Tail(chain) \in Seq(Kinds)
    BY <1>2, <1>4 DEF NextController, Trying
  <2>2. TypeOK'
    BY <1>4, <2>1 DEF NextController, IInv, TypeOK, request
  <2> QED
    BY <1>4, <2>2 DEF NextController, IInv, Sound, Ordered, Fresh, Unfinished, Reading, Closed,
                      Broken, request
<1>5. CASE ControllerError
  <2>1. Sound(response')
    BY <1>2, <1>5, ReportErrorFacts DEF ControllerError
  <2> QED
    BY <1>1, <1>2, <1>5, <2>1, Answered DEF ControllerError
<1>6. CASE ServeOther
  <2>1. Sound(response')
    BY <1>2, <1>6, PlainFacts DEF ServeOther, Statuses, Answers
  <2> QED
    BY <1>1, <1>2, <1>6, <2>1, Answered DEF ServeOther
<1>7. CASE ServeNotFound
  <2>1. Sound(response')
    BY <1>2, <1>7, SendPageFacts DEF ServeNotFound, Statuses, Answers, Sound
  <2> QED
    BY <1>1, <1>2, <1>7, <2>1, Answered DEF ServeNotFound
<1>8. CASE NotAcceptable
  <2>1. Sound(response')
    BY <1>2, <1>8, PlainFacts DEF NotAcceptable, Statuses, Answers
  <2> QED
    BY <1>1, <1>2, <1>8, <2>1, Answered DEF NotAcceptable
<1>9. CASE ServeFragment
  <2>1. /\ Sound(response') /\ response'.pending.fragment = << >>
        /\ \/ response'.status = 500
           \/ response'.body = << >> /\ response'.pending.page = << >> /\ stream' = stream
           \/ response'.body = << >> /\ response'.pending.page = << >> /\ response'.ended
    BY <1>1, <1>2, <1>9, NewPending, ReportErrorFacts DEF ServeFragment
  <2>2. TypeOK'
    <3>1. response' \in Response
      BY <2>1 DEF Sound, Ordered
    <3>2. stream' \in Stream
      BY <1>9, FailStreamFacts DEF ServeFragment, IInv, TypeOK, Stream
    <3> QED
      BY <1>9, <3>1, <3>2 DEF ServeFragment, IInv, TypeOK, Stream, Response, Pending, Statuses, request
  <2>3. Sound(response)'
    BY <1>9, <2>1 DEF ServeFragment, Sound, Ordered, request
  <2>4. view' = "extensions" /\ pc' = "handled"
    BY <1>9 DEF ServeFragment
  <2>5. Fresh' /\ Closed'
    BY <2>4 DEF Fresh, Closed
  <2>6. Unfinished'
    BY <2>1, NewPending DEF Unfinished
  <2>7. Broken'
    BY <1>1, <2>1, <2>4, NewPending DEF Broken, NewStream
  <2> QED
    BY <2>2, <2>3, <2>5, <2>6, <2>7 DEF IInv
<1> QED
  BY <1>3, <1>4, <1>5, <1>6, <1>7, <1>8, <1>9 DEF HandleRequest

LEMMA RenderFragmentStep == IInv /\ RenderFragment => IInv'
<1> SUFFICES ASSUME IInv, RenderFragment PROVE IInv'
  OBVIOUS
<1> DEFINE p == <<Part("controls")>>
<1>1. p \in Seq(Parts) /\ NoEnd(p)
  BY PartTypes DEF NoEnd
<1>2. response' = [response EXCEPT !.pending.fragment = p] /\ response \in Response
  BY TypeOKFields DEF RenderFragment, IInv
<1> HIDE DEF p
<1>3. response' \in Response
  BY <1>1, <1>2, SetFragment
<1>4. /\ response'.headersSent = response.headersSent /\ response'.status = response.status
      /\ response'.ended = response.ended /\ response'.body = response.body
      /\ response'.pending.fragment = p /\ response'.pending.page = response.pending.page
  BY <1>1, <1>2, SetFragmentFields
<1>5. Keeps(response, response')
  BY <1>3, <1>4 DEF Keeps, IInv, Sound, Ordered
<1>6. Unfinished'
  BY <1>1, <1>4 DEF RenderFragment, IInv, Unfinished, Reading
<1> QED
  BY <1>4, <1>5, <1>6, TypeOKFields, Handled DEF RenderFragment, IInv, TypeOK

\* The callback of the metadata.
LEMMA ReceiveMetadataStep == IInv /\ ReceiveMetadata => IInv'
<1> SUFFICES ASSUME IInv, ReceiveMetadata PROVE IInv'
  OBVIOUS
<1> DEFINE part == Part("metadata")
           p == Append(response.pending.fragment, part)
           s == [response EXCEPT !.pending.fragment = p]
<1>1. part \in Parts /\ part # End
  BY PartTypes
<1> HIDE DEF part
<1>2. response \in Response /\ response.pending.fragment \in Seq(Parts) /\ p \in Seq(Parts)
  BY <1>1, TypeOKFields, FieldTypes DEF IInv
<1>3. view = "open" /\ NoEnd(p)
  BY <1>1, <1>2, AppendNoEnd DEF ReceiveMetadata, IInv, Unfinished, Reading
<1>4. /\ response' = IF stream.ended THEN Finish(s, "fragment") ELSE s
      /\ view' = IF stream.ended THEN "closed" ELSE "open"
      /\ stream' = stream /\ received' = TRUE /\ UNCHANGED <<request, chain, pc>>
  BY <1>2 DEF ReceiveMetadata, part, Response, Pending
<1> HIDE DEF p
<1>5. s \in Response
  BY <1>2, SetFragment
<1>6. /\ s.headersSent = response.headersSent /\ s.status = response.status
      /\ s.ended = response.ended /\ s.body = response.body
      /\ s.pending.fragment = p /\ s.pending.page = response.pending.page
  BY <1>2, SetFragmentFields
<1> HIDE DEF s
<1>7. Sound(s)
  BY <1>5, <1>6 DEF IInv, Sound, Ordered
<1>8. CASE stream.ended
  <2>1. Keeps(response, response') /\ response'.status = response.status
    BY <1>4, <1>6, <1>7, <1>8, FinishFacts, FinishSound DEF Keeps, Sound, Views
  <2>2. Unfinished'
    BY <1>4, <1>8 DEF Unfinished, Reading
  <2> QED
    BY <1>3, <1>4, <1>8, <2>1, <2>2, TypeOKFields, Handled DEF IInv
<1>9. CASE ~stream.ended
  <2>1. Keeps(response, response') /\ response'.status = response.status
    BY <1>4, <1>6, <1>7, <1>9 DEF Keeps
  <2>2. Unfinished'
    BY <1>3, <1>4, <1>6, <1>9 DEF IInv, Unfinished, Reading
  <2> QED
    BY <1>3, <1>4, <1>9, <2>1, <2>2, TypeOKFields, Handled DEF IInv
<1> QED
  BY <1>8, <1>9

\* The events of the stream.
LEMMA StreamEventStep == IInv /\ StreamEvent => IInv'
<1> SUFFICES ASSUME IInv, StreamEvent PROVE IInv'
  OBVIOUS
<1>1. /\ response \in Response /\ stream \in Stream /\ received \in BOOLEAN /\ Sound(response)
      /\ view \in {"none", "extensions", "open", "closed"}
      /\ Keeps(response, response)
  BY TypeOKFields DEF IInv, TypeOK, Keeps
<1>2. CASE SetMetadata
  <2>1. Unfinished'
    BY <1>2 DEF SetMetadata, IInv, Unfinished, Reading
  <2>2. stream' \in Stream /\ stream'.failed = stream.failed /\ stream'.ended = stream.ended
    BY <1>1, <1>2, SetMetadataFacts DEF SetMetadata
  <2> QED
    BY <1>1, <1>2, <2>1, <2>2, Handled DEF SetMetadata, Selected, IInv, Closed
<1>3. CASE ReceiveData
  <2>1. /\ stream' \in Stream /\ stream'.failed = stream.failed /\ stream'.ended = stream.ended
        /\ stream'.emitted \in 1 .. NumQuads
    BY <1>1, <1>3, ReceiveDataFacts DEF ReceiveData, IInv, TypeOK
  <2> DEFINE part == <<"quad", stream'.emitted>>
             p == Append(response.pending.fragment, part)
  <2>2. part \in Parts /\ part # End
    BY <2>1, PartTypes
  <2> HIDE DEF part
  <2>3. response.pending.fragment \in Seq(Parts) /\ p \in Seq(Parts)
    BY <1>1, <2>2, FieldTypes
  <2>4. view = "open" /\ view' = "open" /\ NoEnd(p)
    BY <1>3, <2>2, <2>3, AppendNoEnd DEF ReceiveData, IInv, Unfinished, Reading
  <2>5. response' = [response EXCEPT !.pending.fragment = p]
    BY <1>1, <1>3 DEF ReceiveData, part, Response, Pending
  <2> HIDE DEF p
  <2>6. response' \in Response
    BY <1>1, <2>3, <2>5, SetFragment
  <2>7. /\ response'.headersSent = response.headersSent /\ response'.status = response.status
        /\ response'.ended = response.ended /\ response'.body = response.body
        /\ response'.pending.fragment = p /\ response'.pending.page = response.pending.page
    BY <1>1, <2>3, <2>5, SetFragmentFields
  <2>8. Keeps(response, response')
    BY <1>1, <2>6, <2>7 DEF Keeps, Sound, Ordered
  <2>9. Unfinished'
    BY <2>4, <2>7 DEF IInv, Unfinished, Reading
  <2> QED
    BY <1>1, <1>3, <2>1, <2>4, <2>7, <2>8, <2>9, Handled DEF ReceiveData
<1>4. CASE EndStream
  <2> DEFINE last == view = "open" /\ received
  <2>1. stream' \in Stream /\ stream'.failed = stream.failed /\ stream'.ended
    BY <1>1, <1>4, EndStreamFacts DEF EndStream
  <2>2. CASE last
    <3>1. view' = "closed" /\ response' = Finish(response, "fragment")
      BY <1>4, <2>2 DEF EndStream
    <3>2. Keeps(response, response') /\ response'.status = response.status
      BY <1>1, <3>1, FinishFacts, FinishSound DEF Keeps, Sound, Views
    <3>3. Unfinished'
      BY <3>1 DEF Unfinished, Reading
    <3> QED
      BY <1>1, <1>4, <2>1, <3>1, <3>2, <3>3, Handled DEF EndStream, Selected
  <2>3. CASE ~last
    <3>1. view' = view /\ response' = response
      BY <1>4, <2>3 DEF EndStream
    <3>2. Unfinished'
      BY <3>1 DEF IInv, Unfinished, Reading
    <3> QED
      BY <1>1, <1>4, <2>1, <3>1, <3>2, Handled DEF EndStream, Selected
  <2> QED
    BY <2>2, <2>3
<1>5. CASE FailStream
  <2>1. /\ stream' \in Stream /\ stream'.failed /\ stream'.ended = stream.ended
    BY <1>1, <1>5, FailStreamFacts DEF FailStream
  <2>2. view # "none" /\ view' = view /\ Reading
    BY <1>1, <1>5 DEF FailStream, Selected, IInv, Closed, Reading
  <2>3. NoEnd(response.pending.fragment)
        /\ (response.status # 500 => NoEnd(response.body) /\ response.pending.page = << >>)
    BY <2>2 DEF IInv, Unfinished
  <2>4. /\ Sound(response') /\ response'.pending.fragment = response.pending.fragment
        /\ \/ response'.status = 500
           \/ /\ response'.ended /\ response'.status = response.status
              /\ response'.body = response.body /\ response'.pending = response.pending
    BY <1>1, <1>5, ReportErrorFacts DEF FailStream
  <2>5. UNCHANGED <<request, chain, pc, received>>
    BY <1>5 DEF FailStream
  <2>6. Unfinished'
    BY <2>3, <2>4 DEF Unfinished
  <2>7. Broken'
    BY <2>2, <2>3, <2>4 DEF Broken
  <2>8. TypeOK'
    <3>1. response' \in Response
      BY <2>4 DEF Sound, Ordered
    <3> QED
      BY <1>1, <2>1, <2>2, <2>5, <3>1
         DEF IInv, TypeOK, Stream, Response, Pending, Statuses, request
  <2>9. Sound(response)'
    BY <2>4, <2>5 DEF Sound, Ordered, request
  <2>10. Fresh' /\ Closed'
    BY <2>1, <2>2, <2>5 DEF IInv, Fresh, Closed
  <2> QED
    BY <2>6, <2>7, <2>8, <2>9, <2>10 DEF IInv
<1> QED
  BY <1>2, <1>3, <1>4, <1>5 DEF StreamEvent

\* A view has something to write only while a request is handled.
LEMMA PendingHandled ==
  ASSUME IInv, NEW v \in Views, response.pending[v] # << >>
  PROVE  pc = "handled"
BY NewPending DEF IInv, Fresh, TypeOK, Views

\* Steps of the asynchronous parts of the views.
LEMMA Written ==
  ASSUME IInv, pc = "handled", Keeps(response, response'), Unfinished',
         response.status = 500 => response'.status = 500,
         UNCHANGED <<request, chain, pc, view, stream, received>>
  PROVE  IInv'
<1>1. TypeOK'
  <2>1. response' \in Response
    BY DEF Keeps, Sound, Ordered
  <2> QED
    BY <2>1 DEF IInv, TypeOK, Response, Pending, Statuses, request
<1>2. Sound(response)'
  BY DEF Keeps, Sound, Ordered, request
<1>3. Fresh' /\ Closed' /\ Broken'
  BY DEF IInv, Fresh, Closed, Broken, Keeps
<1> QED
  BY <1>1, <1>2, <1>3 DEF IInv

LEMMA FlushStep ==
  ASSUME IInv, NEW v \in Views, Flush(v)
  PROVE  IInv'
<1> DEFINE rest == Tail(response.pending[v])
           part == Head(response.pending[v])
           u == [response EXCEPT !.pending[v] = rest]
           parts == <<part>>
           s == Write(u, parts)
<1>1. /\ response \in Response /\ Sound(response) /\ response.pending[v] \in Seq(Parts)
      /\ response.body \in Seq(Parts)
      /\ response.pending[v] # << >> /\ format = "jsonld"
  BY TypeOKFields, FieldTypes DEF IInv, Flush
<1>2. rest \in Seq(Parts) /\ part \in Parts /\ parts \in Seq(Parts)
  BY <1>1
<1>3. response' = IF part = End THEN EndResponse(s) ELSE s
  BY <1>1 DEF Flush, Response, Pending, Views
<1>4. Reading /\ v = "fragment" => part # End /\ NoEnd(rest)
  BY <1>1, TailNoEnd DEF IInv, Unfinished
<1> HIDE DEF rest, part
<1>5. u \in Response
  BY <1>1, <1>2, SetPending
<1>6. /\ u.headersSent = response.headersSent /\ u.status = response.status
      /\ u.ended = response.ended /\ u.body = response.body /\ u.pending[v] = rest
      /\ \A w \in Views \ {v} : u.pending[w] = response.pending[w]
  BY <1>1, <1>2, SetPendingFields
<1> HIDE DEF u
<1>7. Ordered(u)
  BY <1>1, <1>5, <1>6 DEF Sound, Ordered
<1> HIDE DEF parts
<1>8. /\ Ordered(s) /\ s.status = u.status /\ s.ended = u.ended /\ s.pending = u.pending
      /\ u.headersSent => s.headersSent
      /\ u.ended => s = u
  BY <1>2, <1>7, WriteFacts DEF Ordered
<1>9. s.body = u.body \/ s.body = u.body \o parts
  BY <1>2, <1>7, WriteFacts
<1>10. Sound(s) /\ Sound(EndResponse(s))
  BY <1>1, <1>6, <1>8, EndResponseSound DEF Sound
<1> HIDE DEF s
<1>11. /\ Sound(response') /\ response'.status = response.status
       /\ response'.pending = u.pending /\ response'.body = s.body
       /\ response.ended => response'.ended /\ response'.body = response.body
  BY <1>3, <1>6, <1>8, <1>10, EndResponseFacts DEF Ordered
<1>12. Keeps(response, response')
  BY <1>11 DEF Keeps
<1>13. UNCHANGED <<request, chain, pc, view, stream, received>>
  BY DEF Flush
<1>14. Unfinished'
  <2> SUFFICES ASSUME Reading' PROVE /\ NoEnd(response'.pending.fragment)
                                     /\ response'.status # 500 => /\ NoEnd(response'.body)
                                                                  /\ response'.pending.page = << >>
    BY DEF Unfinished
  <2>1. Reading
    BY <1>13 DEF Reading
  <2>2. CASE v = "fragment"
    <3>1. NoEnd(rest) /\ part # End
      BY <1>4, <2>1, <2>2
    <3>2. response'.pending.fragment = rest /\ response'.pending.page = response.pending.page
      BY <1>6, <1>11, <2>2 DEF Views
    <3>3. ASSUME NoEnd(response.body) PROVE NoEnd(response'.body)
      <4>1. NoEnd(response.body \o parts)
        BY <1>1, <1>2, <3>1, <3>3, ConcatNoEnd DEF parts
      <4> DEFINE b == response.body \o parts
      <4>2. response'.body = response.body \/ response'.body = b
        BY <1>6, <1>9, <1>11
      <4>3. NoEnd(b)
        BY <4>1
      <4> HIDE DEF b
      <4> QED
        BY <3>3, <4>2, <4>3
    <3> QED
      BY <1>11, <2>1, <3>1, <3>2, <3>3 DEF IInv, Unfinished
  <2>3. CASE v = "page"
    <3>1. response.status = 500
      BY <1>1, <2>1, <2>3 DEF IInv, Unfinished
    <3>2. response'.pending.fragment = response.pending.fragment
      BY <1>6, <1>11, <2>3 DEF Views
    <3> QED
      BY <1>11, <2>1, <3>1, <3>2 DEF IInv, Unfinished
  <2> QED
    BY <2>2, <2>3 DEF Views
<1> QED
  BY <1>1, <1>11, <1>12, <1>13, <1>14, PendingHandled, Written

\* While the stream is read, only the page of an error can be complete.
LEMMA FinishedView ==
  ASSUME IInv, NEW v \in Views, Finished(v), Reading
  PROVE  v = "page" /\ response.status = 500
<1>1. response.pending[v] \in Seq(Parts) /\ response.pending[v] # << >>
  BY TypeOKFields, FieldTypes DEF IInv, Finished
<1> DEFINE p == response.pending[v]
<1>2. Len(p) \in DOMAIN p /\ p[Len(p)] = End
  BY <1>1 DEF Finished
<1>3. ~NoEnd(p)
  BY <1>2 DEF NoEnd
<1>4. v = "page"
  BY <1>3 DEF IInv, Unfinished, Views
<1> QED
  BY <1>1, <1>4 DEF IInv, Unfinished

LEMMA RenderTemplateStep ==
  ASSUME IInv, NEW v \in Views, RenderTemplate(v)
  PROVE  IInv'
<1>1. /\ Sound(response) /\ format = "html" /\ Finished(v) /\ response' = Deliver(response, v)
      /\ UNCHANGED <<request, chain, pc, view, stream, received>>
  BY DEF IInv, RenderTemplate
<1>2. /\ Ordered(response') /\ response'.ended /\ response'.status = response.status
      /\ response.ended => response'.body = response.body
      /\ \A w \in Views \ {v} : response'.pending[w] = response.pending[w]
  BY <1>1, DeliverFacts DEF Sound
<1>3. Keeps(response, response')
  BY <1>1, <1>2 DEF Keeps, Sound, Ordered
<1>4. Unfinished'
  <2>1. Reading => v = "page" /\ response.status = 500
    BY <1>1, FinishedView
  <2>2. Reading => response'.pending.fragment = response.pending.fragment
    BY <1>2, <2>1 DEF Views
  <2> QED
    BY <1>1, <1>2, <2>1, <2>2 DEF IInv, Unfinished, Reading
<1>5. pc = "handled"
  BY <1>1, PendingHandled DEF Finished
<1> QED
  BY <1>1, <1>2, <1>3, <1>4, <1>5, Written

\* A view, its template or its serializer, emits an error with parts that it
\* has not written.
ViewFails(v) ==
  /\ response.pending[v] # << >>
  /\ response' = EndResponse(ReportError([response EXCEPT !.pending[v] = << >>]))
  /\ UNCHANGED <<request, chain, pc, view, stream, received>>

LEMMA Failing ==
  ASSUME NEW v \in Views, SerializerFails(v) \/ RenderFails(v)
  PROVE  ViewFails(v)
BY DEF SerializerFails, RenderFails, Finished, ViewFails

LEMMA ViewFailsStep ==
  ASSUME IInv, NEW v \in Views, ViewFails(v)
  PROVE  IInv'
<1> DEFINE none == << >>
           u == [response EXCEPT !.pending[v] = none]
           s == ReportError(u)
<1>1. /\ Sound(response) /\ response \in Response /\ response.pending[v] # << >>
      /\ none \in Seq(Parts) /\ NoEnd(none)
      /\ response' = EndResponse(s)
      /\ UNCHANGED <<request, chain, pc, view, stream, received>>
  BY TypeOKFields DEF IInv, ViewFails, NoEnd
<1> HIDE DEF none
<1>2. u \in Response
  BY <1>1, SetPending
<1>3. /\ u.headersSent = response.headersSent /\ u.status = response.status
      /\ u.ended = response.ended /\ u.body = response.body /\ u.pending[v] = none
      /\ \A w \in Views \ {v} : u.pending[w] = response.pending[w]
  BY <1>1, SetPendingFields
<1> HIDE DEF u
<1>4. Sound(u)
  BY <1>1, <1>2, <1>3 DEF Sound, Ordered
<1>5. /\ Sound(s) /\ s.pending.fragment = u.pending.fragment
      /\ \/ s.status = 500
         \/ s.status = u.status /\ s.body = u.body /\ s.pending = u.pending
  BY <1>4, ReportErrorFacts
<1> HIDE DEF s
<1>6. /\ Sound(response') /\ response'.ended /\ response'.status = s.status
      /\ response'.body = s.body /\ response'.pending = s.pending
  BY <1>1, <1>5, EndResponseSound, EndResponseFacts DEF Sound, Ordered
<1>7. Keeps(response, response')
  BY <1>3, <1>5, <1>6 DEF Keeps
<1>8. response.status = 500 => response'.status = 500
  BY <1>3, <1>5, <1>6
<1>9. Unfinished'
  <2> SUFFICES ASSUME Reading PROVE /\ NoEnd(response'.pending.fragment)
                                    /\ response'.status # 500 => /\ NoEnd(response'.body)
                                                                 /\ response'.pending.page = << >>
    BY <1>1 DEF Unfinished, Reading
  <2>1. NoEnd(response.pending.fragment)
    BY DEF IInv, Unfinished
  <2>2. NoEnd(u.pending.fragment)
    BY <1>1, <1>3, <2>1 DEF Views
  <2>3. NoEnd(response'.pending.fragment)
    BY <1>5, <1>6, <2>2
  <2>4. ASSUME response'.status # 500 PROVE NoEnd(response'.body) /\ response'.pending.page = << >>
    <3>1. /\ response.status # 500 /\ response'.body = response.body
          /\ response'.pending = u.pending
      BY <1>3, <1>5, <1>6, <2>4
    <3>2. NoEnd(response.body) /\ response.pending.page = << >>
      BY <3>1 DEF IInv, Unfinished
    <3>3. v = "fragment"
      BY <1>1, <3>2 DEF Views
    <3> QED
      BY <1>3, <3>1, <3>2, <3>3 DEF Views
  <2> QED
    BY <2>3, <2>4
<1>10. pc = "handled"
  BY <1>1, PendingHandled
<1> QED
  BY <1>1, <1>7, <1>8, <1>9, <1>10, Written

-----------------------------------------------------------------------------

LEMMA NextIInv == IInv /\ [Next]_vars => IInv'
<1> SUFFICES ASSUME IInv, [Next]_vars PROVE IInv'
  OBVIOUS
<1>1. CASE HandleRequest
  BY <1>1, HandleRequestStep
<1>2. CASE RenderFragment
  BY <1>2, RenderFragmentStep
<1>3. CASE StreamEvent
  BY <1>3, StreamEventStep
<1>4. CASE ReceiveMetadata
  BY <1>4, ReceiveMetadataStep
<1>5. CASE \E v \in Views : Flush(v)
  BY <1>5, FlushStep
<1>6. CASE \E v \in Views : RenderTemplate(v)
  BY <1>6, RenderTemplateStep
<1>7. CASE \E v \in Views : SerializerFails(v) \/ RenderFails(v)
  BY <1>7, Failing, ViewFailsStep
<1>8. CASE UNCHANGED vars
  BY <1>8 DEF vars, request, IInv, TypeOK, Sound, Ordered, Fresh, Unfinished, Reading, Closed,
              Broken
<1> QED
  BY <1>1, <1>2, <1>3, <1>4, <1>5, <1>6, <1>7, <1>8 DEF Next

LEMMA Invariant == Spec => []IInv
BY InitIInv, NextIInv, PTL DEF Spec

\* Every variable keeps to its type, whatever the size of the page.
THEOREM TypeCorrect == Spec => []TypeOK
<1>1. IInv => TypeOK
  BY DEF IInv
<1> QED
  BY <1>1, Invariant, PTL

\* A failed query is never answered by what looks like a complete fragment,
\* in any format and whichever steps of the stream and the views follow.
THEOREM FailuresAreVisible == Spec => []FailureIsVisible
<1>1. IInv => FailureIsVisible
  <2> SUFFICES ASSUME IInv, stream.failed, response.status # 500, Complete(response.body)
               PROVE  FALSE
    BY DEF FailureIsVisible
  <2> DEFINE b == response.body
  <2>1. NoEnd(b) /\ b \in Seq(Parts)
    BY TypeOKFields, FieldTypes DEF IInv, Broken
  <2>2. Len(b) \in DOMAIN b /\ b[Len(b)] = End
    BY <2>1 DEF Complete
  <2> QED
    BY <2>1, <2>2 DEF NoEnd
<1> QED
  BY <1>1, Invariant, PTL

\* In RDF text, a response with status 500 is the whole error page and
\* nothing else, from the step that sets the status on.
THEOREM TextErrorsShown == Spec => []TextErrorsAreShown
<1>1. IInv => TextErrorsAreShown
  BY DEF IInv, Sound, TextErrorsAreShown
<1> QED
  BY <1>1, Invariant, PTL

-----------------------------------------------------------------------------
(* The fragment.  What the client has received and what the view has yet   *)
(* to write are, together, the quads that the stream has emitted, in order *)
(* and each once; metadata and end included once the view has them.        *)

\* The parts of a page of which n quads have arrived, with its metadata if r
\* holds; only a view v that is closed has an end, and nothing follows it.
Whole(parts, n, r, v) ==
  /\ InOrder(parts, n)
  /\ r => \E k \in DOMAIN parts : parts[k] = Part("metadata")
  /\ \A k \in DOMAIN parts : parts[k] = End => v = "closed" /\ k = Len(parts)

IsWhole(parts) == Whole(parts, stream.emitted, received, view)

Started ==
  /\ view \in {"none", "extensions"} => stream.emitted = 0 /\ ~received
  /\ view = "extensions" => response.pending.fragment = << >>
  /\ view = "closed" => received
  /\ stream.ended => stream.emitted = size

Silent == method = "HEAD" => response.body = << >>

Accounted ==
  Selected /\ response.status = 200 /\ method # "HEAD" =>
    IF response.ended
      THEN NoEnd(response.body) \/ (view = "closed" /\ IsWhole(response.body))
      ELSE response.pending.page = << >> /\ IsWhole(response.body \o response.pending.fragment)

FragInv == Started /\ Silent /\ Accounted

\* Sequences of parts.

LEMMA AppendInOrder ==
  ASSUME NEW parts \in Seq(Parts), NEW n \in Nat, InOrder(parts, n),
         NEW part \in Parts, ~IsQuad(part)
  PROVE  InOrder(Append(parts, part), n)
<1> DEFINE p == Append(parts, part)
<1>1. /\ p \in Seq(Parts) /\ DOMAIN p = 1 .. Len(parts) + 1 /\ p[Len(parts) + 1] = part
      /\ \A k \in DOMAIN parts : k \in DOMAIN p /\ p[k] = parts[k]
      /\ DOMAIN parts = 1 .. Len(parts) /\ Len(parts) \in Nat
  OBVIOUS
<1>2. \A k \in DOMAIN p : IsQuad(p[k]) => k \in DOMAIN parts /\ p[k] = parts[k]
  BY <1>1
<1> HIDE DEF p
<1>3. ASSUME NEW i \in 1 .. n PROVE \E k \in DOMAIN p : p[k] = <<"quad", i>>
  BY <1>1 DEF InOrder
<1>4. ASSUME NEW k \in DOMAIN p, IsQuad(p[k]) PROVE p[k][2] \in 1 .. n
  BY <1>2, <1>4 DEF InOrder
<1>5. ASSUME NEW k \in DOMAIN p, NEW l \in DOMAIN p, k < l, IsQuad(p[k]), IsQuad(p[l])
      PROVE  p[k][2] < p[l][2]
  BY <1>2, <1>5 DEF InOrder
<1> QED
  BY <1>3, <1>4, <1>5 DEF InOrder, p

LEMMA AppendQuad ==
  ASSUME NEW parts \in Seq(Parts), NEW n \in Nat, InOrder(parts, n)
  PROVE  InOrder(Append(parts, <<"quad", n + 1>>), n + 1)
<1> DEFINE part == <<"quad", n + 1>>
           p == Append(parts, part)
<1>1. /\ DOMAIN p = 1 .. Len(parts) + 1 /\ p[Len(parts) + 1] = part
      /\ \A k \in DOMAIN parts : k \in DOMAIN p /\ p[k] = parts[k]
      /\ DOMAIN parts = 1 .. Len(parts) /\ Len(parts) \in Nat
  OBVIOUS
<1>2. part[1] = "quad" /\ part[2] = n + 1
  OBVIOUS
<1>3. \A k \in DOMAIN p : (k \in DOMAIN parts /\ p[k] = parts[k]) \/ (k = Len(parts) + 1 /\ p[k] = part)
  BY <1>1
<1> HIDE DEF p
<1>4. ASSUME NEW i \in 1 .. n + 1 PROVE \E k \in DOMAIN p : p[k] = <<"quad", i>>
  <2>1. CASE i = n + 1
    BY <1>1, <2>1
  <2>2. CASE i \in 1 .. n
    BY <1>1, <2>2 DEF InOrder
  <2> QED
    BY <2>1, <2>2
<1> HIDE DEF part
<1>5. ASSUME NEW k \in DOMAIN p, IsQuad(p[k]) PROVE p[k][2] \in 1 .. n + 1
  <2>1. CASE k \in DOMAIN parts /\ p[k] = parts[k]
    <3>1. parts[k][2] \in 1 .. n
      BY <1>5, <2>1 DEF InOrder
    <3> QED
      BY <2>1, <3>1
  <2>2. CASE p[k] = part
    BY <1>2, <2>2
  <2> QED
    BY <1>3, <2>1, <2>2
<1>6. ASSUME NEW k \in DOMAIN p, NEW l \in DOMAIN p, k < l, IsQuad(p[k]), IsQuad(p[l])
      PROVE  p[k][2] < p[l][2]
  <2>1. k \in DOMAIN parts /\ p[k] = parts[k]
    BY <1>1, <1>6
  <2>2. parts[k][2] \in 1 .. n
    BY <1>6, <2>1 DEF InOrder
  <2>3. CASE l \in DOMAIN parts /\ p[l] = parts[l]
    BY <1>6, <2>1, <2>3 DEF InOrder
  <2>4. CASE p[l] = part
    BY <1>2, <2>1, <2>2, <2>4
  <2> QED
    BY <1>3, <2>3, <2>4
<1> QED
  BY <1>4, <1>5, <1>6 DEF InOrder, p, part

LEMMA ConcatAppend ==
  ASSUME NEW p \in Seq(Parts), NEW q \in Seq(Parts), NEW part \in Parts
  PROVE  /\ p \o q \in Seq(Parts)
         /\ p \o Append(q, part) = Append(p \o q, part)
<1> DEFINE a == p \o Append(q, part)
           b == Append(p \o q, part)
<1>1. /\ a \in Seq(Parts) /\ b \in Seq(Parts) /\ p \o q \in Seq(Parts)
      /\ Len(a) = Len(p) + Len(q) + 1 /\ Len(b) = Len(p) + Len(q) + 1
  OBVIOUS
<1>2. \A k \in 1 .. Len(a) : a[k] = b[k]
  OBVIOUS
<1> HIDE DEF a, b
<1>3. a = b
  BY <1>1, <1>2, SeqEqual
<1> QED
  BY <1>1, <1>3 DEF a, b

LEMMA ConcatHead ==
  ASSUME NEW p \in Seq(Parts), NEW q \in Seq(Parts), q # << >>
  PROVE  /\ Head(q) \in Parts /\ Tail(q) \in Seq(Parts)
         /\ (p \o <<Head(q)>>) \o Tail(q) = p \o q
<1> DEFINE a == (p \o <<Head(q)>>) \o Tail(q)
           b == p \o q
<1>1. Head(q) \in Parts /\ Tail(q) \in Seq(Parts) /\ Len(Tail(q)) = Len(q) - 1 /\ Len(q) \in Nat
  OBVIOUS
<1>2. <<Head(q)>> \in Seq(Parts) /\ Len(<<Head(q)>>) = 1 /\ <<Head(q)>>[1] = q[1]
  BY <1>1
<1> DEFINE h == <<Head(q)>>
           t == Tail(q)
           ph == p \o h
<1>3. h \in Seq(Parts) /\ Len(h) = 1 /\ h[1] = q[1]
  BY <1>2
<1>4. t \in Seq(Parts) /\ Len(t) = Len(q) - 1 /\ \A k \in 1 .. Len(q) - 1 : t[k] = q[k + 1]
  BY <1>1
<1> HIDE DEF h, t
<1>5. /\ ph \in Seq(Parts) /\ Len(ph) = Len(p) + 1 /\ Len(p) \in Nat
      /\ \A k \in 1 .. Len(p) : ph[k] = p[k]
      /\ ph[Len(p) + 1] = q[1]
  <2>1. ph \in Seq(Parts) /\ Len(ph) = Len(p) + Len(h) /\ Len(p) \in Nat
    BY <1>3, ConcatProperties, LenProperties, Zenon
  <2>2. \A k \in 1 .. Len(p) + Len(h) : ph[k] = IF k <= Len(p) THEN p[k] ELSE h[k - Len(p)]
    BY <1>3, ConcatProperties, Zenon
  <2>3. (Len(p) + 1) - Len(p) = 1
    BY <2>1
  <2> HIDE DEF ph
  <2> QED
    BY <1>3, <2>1, <2>2, <2>3
<1> HIDE DEF ph
<1> DEFINE c == ph \o t
<1>6. /\ c \in Seq(Parts) /\ Len(c) = Len(p) + Len(q)
      /\ \A k \in 1 .. Len(p) + 1 : c[k] = ph[k]
      /\ \A k \in Len(p) + 2 .. Len(p) + Len(q) : c[k] = t[k - (Len(p) + 1)]
  <2>1. c \in Seq(Parts) /\ Len(c) = Len(ph) + Len(t)
    BY <1>4, <1>5, ConcatProperties, Zenon
  <2>2. \A k \in 1 .. Len(ph) + Len(t) :
          c[k] = IF k <= Len(ph) THEN ph[k] ELSE t[k - Len(ph)]
    BY <1>4, <1>5, ConcatProperties, Zenon
  <2> HIDE DEF c
  <2>3. Len(ph) \in Nat /\ Len(ph) + Len(t) = Len(p) + Len(q) /\ Len(p) + 1 <= Len(p) + Len(q)
    BY <1>1, <1>4, <1>5
  <2>4. ASSUME NEW k \in 1 .. Len(p) + 1 PROVE c[k] = ph[k]
    BY <1>5, <2>2, <2>3
  <2>5. ASSUME NEW k \in Len(p) + 2 .. Len(p) + Len(q) PROVE c[k] = t[k - (Len(p) + 1)]
    BY <1>5, <2>2, <2>3
  <2> QED
    BY <2>1, <2>3, <2>4, <2>5
<1> HIDE DEF c
<1>7. /\ b \in Seq(Parts) /\ Len(b) = Len(p) + Len(q)
      /\ \A k \in 1 .. Len(p) : b[k] = p[k]
      /\ \A k \in Len(p) + 1 .. Len(p) + Len(q) : b[k] = q[k - Len(p)]
  OBVIOUS
<1> HIDE DEF b
<1>8. \A k \in 1 .. Len(c) : c[k] = b[k]
  <2> SUFFICES ASSUME NEW k \in 1 .. Len(c) PROVE c[k] = b[k]
    OBVIOUS
  <2>1. CASE k \in 1 .. Len(p)
    BY <1>5, <1>6, <1>7, <2>1
  <2>2. CASE k = Len(p) + 1
    <3>1. k \in 1 .. Len(p) + 1 /\ k \in Len(p) + 1 .. Len(p) + Len(q) /\ k - Len(p) = 1
      BY <1>1, <1>5, <1>6, <2>2
    <3>2. c[k] = ph[k] /\ b[k] = q[k - Len(p)]
      BY <1>6, <1>7, <3>1
    <3> QED
      BY <1>5, <2>2, <3>1, <3>2
  <2>3. CASE k \in Len(p) + 2 .. Len(p) + Len(q)
    <3> DEFINE j == k - (Len(p) + 1)
    <3>1. j \in 1 .. Len(q) - 1 /\ j + 1 = k - Len(p) /\ k \in Len(p) + 1 .. Len(p) + Len(q)
      BY <1>1, <1>5, <2>3
    <3>2. c[k] = t[j] /\ t[j] = q[j + 1] /\ b[k] = q[k - Len(p)]
      BY <1>4, <1>6, <1>7, <2>3, <3>1
    <3> QED
      BY <3>1, <3>2
  <2> QED
    BY <1>5, <1>6, <2>1, <2>2, <2>3
<1>9. c = b
  BY <1>6, <1>7, <1>8, SeqEqual
<1> QED
  BY <1>1, <1>9 DEF h, t, ph, c, b

\* What precedes further parts is not the end.
LEMMA WholeBegins ==
  ASSUME NEW p \in Seq(Parts), NEW q \in Seq(Parts), q # << >>, NEW n, NEW r, NEW v,
         Whole(p \o q, n, r, v)
  PROVE  NoEnd(p)
<1>1. /\ Len(p) \in Nat /\ Len(q) \in Nat \ {0} /\ Len(p \o q) = Len(p) + Len(q)
      /\ \A k \in DOMAIN p : k \in 1 .. Len(p) /\ k \in DOMAIN (p \o q) /\ (p \o q)[k] = p[k]
  OBVIOUS
<1> QED
  BY <1>1 DEF Whole, NoEnd

LEMMA WholeOpen ==
  ASSUME NEW parts, NEW n, NEW r, NEW v, v # "closed", Whole(parts, n, r, v)
  PROVE  NoEnd(parts)
BY DEF Whole, NoEnd

LEMMA NotQuads ==
  \A kind \in {"controls", "metadata", "end"} : Part(kind) \in Parts /\ ~IsQuad(Part(kind))
BY PipelineAssumption DEF Part, Parts, IsQuad

\* A part that is no quad adds the metadata or the end, or nothing that counts.
LEMMA WholeAppend ==
  ASSUME NEW parts \in Seq(Parts), NEW n \in Nat, NEW r \in BOOLEAN, NEW t \in BOOLEAN,
         NEW v, v # "closed", Whole(parts, n, r, v), NEW w,
         NEW kind \in {"controls", "metadata", "end"},
         t => r \/ kind = "metadata", kind = "end" => w = "closed"
  PROVE  Whole(Append(parts, Part(kind)), n, t, w)
<1> DEFINE part == Part(kind)
           p == Append(parts, part)
<1>1. part \in Parts /\ ~IsQuad(part) /\ (part = End => kind = "end")
  BY NotQuads, PartTypes
<1>2. InOrder(p, n)
  BY <1>1, AppendInOrder DEF Whole
<1> HIDE DEF part
<1>3. /\ DOMAIN p = 1 .. Len(parts) + 1 /\ p[Len(parts) + 1] = part /\ Len(p) = Len(parts) + 1
      /\ \A k \in DOMAIN parts : k \in DOMAIN p /\ p[k] = parts[k]
      /\ DOMAIN parts = 1 .. Len(parts) /\ Len(parts) \in Nat
  BY <1>1
<1>4. \A k \in DOMAIN p : k \in DOMAIN parts \/ k = Len(p)
  BY <1>3
<1> HIDE DEF p
<1>5. t => \E k \in DOMAIN p : p[k] = Part("metadata")
  <2>1. CASE r
    BY <1>3, <2>1 DEF Whole
  <2>2. CASE kind = "metadata"
    BY <1>3, <2>2 DEF part
  <2> QED
    BY <2>1, <2>2
<1>6. ASSUME NEW k \in DOMAIN p, p[k] = End PROVE w = "closed" /\ k = Len(p)
  <2>1. k \notin DOMAIN parts
    BY <1>3, <1>6 DEF Whole
  <2> QED
    BY <1>1, <1>3, <1>4, <1>6, <2>1
<1> QED
  BY <1>2, <1>5, <1>6 DEF Whole, p, part

LEMMA WholeQuad ==
  ASSUME NEW parts \in Seq(Parts), NEW n \in Nat, n < NumQuads, NEW r \in BOOLEAN,
         NEW v, v # "closed", Whole(parts, n, r, v)
  PROVE  Whole(Append(parts, <<"quad", n + 1>>), n + 1, r, v)
<1> DEFINE part == <<"quad", n + 1>>
           p == Append(parts, part)
<1>1. n + 1 \in 1 .. NumQuads
  BY PipelineAssumption
<1>2. part \in Parts /\ part # End
  BY <1>1, PartTypes
<1>3. InOrder(p, n + 1)
  BY AppendQuad DEF Whole
<1> HIDE DEF part
<1>4. NoEnd(p)
  BY <1>2, AppendNoEnd, WholeOpen
<1>5. \A k \in DOMAIN parts : k \in DOMAIN p /\ p[k] = parts[k]
  BY <1>2
<1> HIDE DEF p
<1>6. r => \E k \in DOMAIN p : p[k] = Part("metadata")
  BY <1>5 DEF Whole
<1> QED
  BY <1>3, <1>4, <1>6 DEF Whole, NoEnd, p, part

\* What the operators write, exactly.

LEMMA WriteExact ==
  ASSUME NEW s \in Response, NEW parts \in Seq(Parts)
  PROVE  LET t == Write(s, parts)
         IN  t.body = IF s.ended \/ method = "HEAD" THEN s.body ELSE s.body \o parts
<1> DEFINE b == s.body \o parts
<1>1. s.body \in Seq(Parts) /\ b \in Seq(Parts)
  BY FieldTypes
<1>2. parts = << >> => b = s.body
  BY <1>1
<1>3. b = s.body \o parts
  OBVIOUS
<1> HIDE DEF b
<1>4. CASE s.ended \/ parts = << >> \/ method = "HEAD"
  BY <1>2, <1>3, <1>4 DEF Write
<1>5. CASE ~(s.ended \/ parts = << >> \/ method = "HEAD")
  <2>1. Write(s, parts) = [s EXCEPT !.headersSent = TRUE, !.body = b]
    BY <1>3, <1>5 DEF Write
  <2> QED
    BY <1>1, <1>3, <1>5, <2>1, SetBodyFields
<1> QED
  BY <1>4, <1>5

LEMMA DeliverExact ==
  ASSUME NEW s, Ordered(s), NEW v \in Views
  PROVE  LET t == Deliver(s, v)
         IN  t.body = IF s.ended \/ method = "HEAD" THEN s.body ELSE s.body \o s.pending[v]
<1> DEFINE p == s.pending[v]
           none == << >>
           u == [s EXCEPT !.pending[v] = none]
           w == Write(u, p)
<1>1. s \in Response /\ p \in Seq(Parts) /\ none \in Seq(Parts)
  BY FieldTypes DEF Ordered
<1>2. Deliver(s, v) = EndResponse(w)
  BY DEF Deliver
<1> HIDE DEF p, none
<1>3. u \in Response /\ u.ended = s.ended /\ u.body = s.body /\ u.headersSent = s.headersSent
  BY <1>1, SetPending, SetPendingFields
<1> HIDE DEF u
<1>4. w.body = IF s.ended \/ method = "HEAD" THEN s.body ELSE s.body \o p
  BY <1>1, <1>3, WriteExact
<1>5. w \in Response
  BY <1>1, <1>3, WriteFacts DEF Ordered
<1> HIDE DEF w
<1>6. Deliver(s, v).body = w.body
  BY <1>2, <1>5, EndResponseFacts
<1> QED
  BY <1>4, <1>6 DEF p

\* A view that finishes has written its parts, or keeps them with their end.
LEMMA FinishExact ==
  ASSUME NEW s, Ordered(s), NEW v \in Views
  PROVE  LET t == Finish(s, v)
             all == Append(s.pending[v], End)
         IN  /\ s.ended \/ method = "HEAD" => t.body = s.body
             /\ ~s.ended /\ method # "HEAD" =>
                  \/ t.ended /\ t.body = s.body \o all
                  \/ ~t.ended /\ t.body = s.body /\ t.pending[v] = all
<1> DEFINE p == Append(s.pending[v], End)
           u == [s EXCEPT !.pending[v] = p]
<1>1. s \in Response /\ p \in Seq(Parts)
  BY FieldTypes, PartTypes DEF Ordered
<1>2. Finish(s, v) = IF format = "turtle" THEN Deliver(u, v) ELSE u
  BY <1>1 DEF Finish, Response, Pending, Views
<1>3. p = Append(s.pending[v], End)
  OBVIOUS
<1> HIDE DEF p
<1>4. /\ u \in Response
      /\ u.headersSent = s.headersSent /\ u.ended = s.ended /\ u.body = s.body
      /\ u.pending[v] = p
  BY <1>1, SetPending, SetPendingFields
<1> HIDE DEF u
<1>5. Ordered(u)
  BY <1>4 DEF Ordered
<1>6. CASE format = "turtle"
  <2> DEFINE t == Deliver(u, v)
  <2>1. t.ended /\ t.body = IF u.ended \/ method = "HEAD" THEN u.body ELSE u.body \o u.pending[v]
    BY <1>5, DeliverExact, DeliverFacts
  <2>2. Finish(s, v) = t
    BY <1>2, <1>6
  <2> HIDE DEF t
  <2> QED
    BY <1>3, <1>4, <2>1, <2>2
<1>7. CASE format # "turtle"
  BY <1>2, <1>3, <1>4, <1>7
<1> QED
  BY <1>6, <1>7

\* Nothing is ever written for HEAD.

LEMMA PlainSilent ==
  ASSUME NEW s, Ordered(s), method = "HEAD", NEW status \in Statuses, NEW kind \in Answers
  PROVE  Plain(s, status, kind).body = s.body
<1> DEFINE u == [s EXCEPT !.status = status]
           p == <<Part(kind), End>>
<1>1. u \in Response /\ u.body = s.body
  BY SetStatus, SetStatusFields DEF Ordered
<1>2. Plain(s, status, kind) = EndResponse(Write(u, p))
  BY DEF Plain
<1> HIDE DEF u, p
<1>3. Write(u, p) = u
  BY DEF Write
<1> QED
  BY <1>1, <1>2, <1>3, EndResponseFacts

LEMMA SendPageSilent ==
  ASSUME NEW s, Ordered(s), ~s.headersSent, method = "HEAD", NEW status \in Statuses,
         NEW kind \in Answers
  PROVE  SendPage(s, status, kind).body = s.body
<1>1. CASE format = "none"
  BY <1>1, PlainSilent DEF SendPage
<1>2. CASE format # "none"
  <2> DEFINE p == <<Part(kind)>>
             u == [s EXCEPT !.status = status, !.headersSent = TRUE, !.pending.page = p]
  <2>1. SendPage(s, status, kind) = Finish(u, "page")
    BY <1>2 DEF SendPage
  <2>2. s \in Response /\ p \in Seq(Parts)
    BY PartTypes DEF Ordered
  <2> HIDE DEF p
  <2>3. u \in Response
    BY <2>2, SetPage
  <2>4. u.headersSent /\ u.body = s.body
    BY <2>2, SetPageFields
  <2> HIDE DEF u
  <2>5. Ordered(u)
    BY <2>3, <2>4 DEF Ordered
  <2> QED
    BY <2>1, <2>4, <2>5, FinishExact DEF Views
<1> QED
  BY <1>1, <1>2

LEMMA ReportErrorSilent ==
  ASSUME NEW s, Sound(s), method = "HEAD"
  PROVE  ReportError(s).body = s.body
<1>1. CASE s.error \/ s.headersSent
  BY <1>1, EndResponseFacts DEF ReportError, Sound, Ordered
<1>2. CASE ~(s.error \/ s.headersSent)
  <2> DEFINE u == [s EXCEPT !.error = TRUE]
  <2>1. u \in Response /\ u.headersSent = s.headersSent /\ u.ended = s.ended /\ u.body = s.body
    BY SetError, SetErrorFields DEF Sound, Ordered
  <2>2. ReportError(s) = SendErrorPage(u)
    BY <1>2 DEF ReportError
  <2> HIDE DEF u
  <2>3. Ordered(u) /\ ~u.headersSent
    BY <1>2, <2>1 DEF Sound, Ordered
  <2>4. CASE pageFails /\ format # "none"
    <3>1. SendErrorPage(u) = [u EXCEPT !.status = 500, !.headersSent = TRUE]
      BY <2>4 DEF SendErrorPage
    <3> QED
      BY <2>1, <2>2, <3>1 DEF Response
  <2>5. CASE ~(pageFails /\ format # "none")
    <3>1. SendErrorPage(u) = SendPage(u, 500, "error")
      BY <2>5 DEF SendErrorPage
    <3> QED
      BY <2>1, <2>2, <2>3, <3>1, SendPageSilent DEF Statuses, Answers
  <2> QED
    BY <2>4, <2>5
<1> QED
  BY <1>1, <1>2

-----------------------------------------------------------------------------
(* The steps of the fragment.                                              *)

LEMMA EmptyWhole ==
  ASSUME NEW v
  PROVE  Whole(<< >>, 0, FALSE, v)
BY DEF Whole, InOrder

LEMMA InitFragInv == Init => FragInv
<1> SUFFICES ASSUME Init PROVE FragInv
  OBVIOUS
<1>1. view = "none" /\ stream.emitted = 0 /\ ~stream.ended /\ ~received /\ response.body = << >>
  BY NewPending DEF Init, NewStream
<1> QED
  BY <1>1 DEF FragInv, Started, Silent, Accounted, Selected

\* Answering without a stream.
LEMMA AnsweredFrag ==
  ASSUME FragInv, view = "none", UNCHANGED <<request, view, stream, received>>,
         method = "HEAD" => response'.body = response.body
  PROVE  FragInv'
BY DEF FragInv, Started, Silent, Accounted, Selected, request

LEMMA HandleRequestFrag == IInv /\ FragInv /\ HandleRequest => FragInv'
<1> SUFFICES ASSUME IInv, FragInv, HandleRequest PROVE FragInv'
  OBVIOUS
<1>1. pc = "next" /\ view = "none" /\ response = NewResponse /\ stream = NewStream
  BY DEF IInv, Fresh, HandleRequest, RejectMethod, NextController, ControllerError, ServeOther,
         ServeNotFound, NotAcceptable, ServeFragment, Trying
<1>2. Sound(response) /\ Ordered(response) /\ ~response.headersSent
  BY <1>1, NewResponseFacts DEF IInv, NewResponse, Sound
<1>3. CASE RejectMethod
  BY <1>1, <1>3, AnsweredFrag DEF RejectMethod
<1>4. CASE NextController
  BY <1>1, <1>4, AnsweredFrag DEF NextController
<1>5. CASE ControllerError
  BY <1>1, <1>2, <1>5, ReportErrorSilent, AnsweredFrag DEF ControllerError
<1>6. CASE ServeOther
  <2>1. method = "HEAD" => response'.body = response.body
    BY <1>2, <1>6, PlainSilent DEF ServeOther, Statuses, Answers
  <2> QED
    BY <1>1, <1>6, <2>1, AnsweredFrag DEF ServeOther
<1>7. CASE ServeNotFound
  <2>1. method = "HEAD" => response'.body = response.body
    BY <1>2, <1>7, SendPageSilent DEF ServeNotFound, Statuses, Answers
  <2> QED
    BY <1>1, <1>7, <2>1, AnsweredFrag DEF ServeNotFound
<1>8. CASE NotAcceptable
  <2>1. method = "HEAD" => response'.body = response.body
    BY <1>2, <1>8, PlainSilent DEF NotAcceptable, Statuses, Answers
  <2> QED
    BY <1>1, <1>8, <2>1, AnsweredFrag DEF NotAcceptable
<1>9. CASE ServeFragment
  <2>1. /\ response'.pending.fragment = << >>
        /\ \/ response'.status = 500
           \/ response'.body = << >> /\ response'.pending.page = << >>
    BY <1>1, <1>2, <1>9, NewPending, ReportErrorFacts DEF ServeFragment
  <2>2. method = "HEAD" => response'.body = response.body
    BY <1>2, <1>9, ReportErrorSilent DEF ServeFragment
  <2>3. /\ stream'.emitted = 0 /\ ~stream'.ended /\ ~received' /\ view' = "extensions"
        /\ UNCHANGED request
    BY <1>1, <1>9 DEF ServeFragment, NewStream, FragInv, Started
  <2>4. << >> \o << >> = << >>
    OBVIOUS
  <2>5. Started' /\ Silent'
    BY <2>1, <2>2, <2>3 DEF Started, Silent, FragInv, request
  <2>6. ASSUME response'.status # 500 PROVE IsWhole(response.body \o response.pending.fragment)'
    <3>1. response'.body \o response'.pending.fragment = << >>
      BY <2>1, <2>4, <2>6
    <3>2. stream'.emitted = 0 /\ received' = FALSE
      BY <2>3, TypeOKFields DEF IInv, TypeOK
    <3> QED
      BY <3>1, <3>2, EmptyWhole DEF IsWhole
  <2>7. response'.status # 500 => NoEnd(response.body)'
    BY <2>1, NewPending DEF NoEnd
  <2>8. Accounted'
    BY <2>1, <2>6, <2>7 DEF Accounted
  <2> QED
    BY <2>5, <2>8 DEF FragInv
<1> QED
  BY <1>3, <1>4, <1>5, <1>6, <1>7, <1>8, <1>9 DEF HandleRequest

\* What the steps of an open view rely on.
LEMMA OpenText ==
  ASSUME IInv, FragInv, Reading
  PROVE  LET text == response.body \o response.pending.fragment
         IN  /\ response.body \in Seq(Parts) /\ response.pending.fragment \in Seq(Parts)
             /\ text \in Seq(Parts)
             /\ stream.emitted \in Nat /\ received \in BOOLEAN
             /\ response.status = 200 /\ method # "HEAD" /\ ~response.ended
                  => /\ Whole(text, stream.emitted, received, view)
                     /\ response.pending.page = << >>
             /\ response.status = 200 => NoEnd(response.body)
<1>1. response.body \in Seq(Parts) /\ response.pending.fragment \in Seq(Parts)
  BY TypeOKFields, FieldTypes DEF IInv
<1>2. stream.emitted \in Nat /\ received \in BOOLEAN
  BY TypeOKFields, PipelineAssumption DEF IInv, TypeOK, Stream
<1>3. view # "none"
  BY DEF Reading
<1>4. response.status = 200 => NoEnd(response.body)
  BY DEF IInv, Unfinished
<1> QED
  BY <1>1, <1>2, <1>3, <1>4 DEF FragInv, Accounted, IsWhole, Selected

\* A view that receives a part, and goes on.
LEMMA ReceivedFrag ==
  ASSUME IInv, FragInv, Reading, Started', UNCHANGED request,
         response' \in Response, response'.status = response.status,
         response'.ended = response.ended, response'.body = response.body,
         response'.pending.page = response.pending.page,
         Whole(response.body \o response.pending.fragment, stream.emitted, received, view)
           => IsWhole(response.body \o response.pending.fragment)'
  PROVE  FragInv'
<1>1. Silent'
  BY DEF FragInv, Silent, request
<1>2. view # "none"
  BY DEF Reading
<1>3. response.status = 200 => NoEnd(response.body)
  BY OpenText
<1>4. Accounted'
  BY <1>2, <1>3, OpenText DEF Accounted, NoEnd, request
<1> QED
  BY <1>1, <1>4 DEF FragInv

\* A view that has received its last part.
LEMMA FinishedFrag ==
  ASSUME IInv, FragInv, Reading, NEW s, Ordered(s), s.status = response.status,
         s.ended = response.ended, s.body = response.body,
         s.pending.page = response.pending.page,
         Whole(response.body \o response.pending.fragment, stream.emitted, received, view)
           => Whole(s.body \o s.pending.fragment, stream.emitted, TRUE, view),
         response' = Finish(s, "fragment"), view' = "closed", received' = TRUE,
         stream'.emitted = stream.emitted, stream'.emitted = size, UNCHANGED request
  PROVE  FragInv'
<1> DEFINE p == s.pending.fragment
           all == Append(p, End)
<1>1. s \in Response /\ s.body \in Seq(Parts) /\ p \in Seq(Parts) /\ End \in Parts
  BY FieldTypes, PartTypes DEF Ordered
<1>2. /\ response'.status = response.status
      /\ response.ended => response'.ended
      /\ response'.pending.page = s.pending.page
  BY FinishFacts DEF Views
<1>3. /\ s.ended \/ method = "HEAD" => response'.body = s.body
      /\ ~s.ended /\ method # "HEAD" =>
           \/ response'.ended /\ response'.body = s.body \o all
           \/ ~response'.ended /\ response'.body = s.body /\ response'.pending.fragment = all
  BY FinishExact DEF Views
<1>4. s.body \o all = Append(s.body \o p, End) /\ s.body \o p \in Seq(Parts)
  BY <1>1, ConcatAppend
<1> HIDE DEF all
<1>5. Silent'
  BY <1>3 DEF FragInv, Silent, request
<1>6. Started'
  BY DEF Started, request
<1>8. ASSUME response.status = 200, method # "HEAD", ~response.ended
      PROVE  IsWhole(s.body \o all)'
  <2>1. /\ Whole(s.body \o p, stream.emitted, TRUE, view)
        /\ stream.emitted \in Nat /\ view # "closed"
    BY <1>8, OpenText DEF Reading
  <2>2. Whole(Append(s.body \o p, Part("end")), stream.emitted, TRUE, "closed")
    BY <1>4, <2>1, WholeAppend
  <2>3. Whole(s.body \o all, stream'.emitted, received', view')
    BY <1>4, <2>2 DEF End
  <2> QED
    BY <2>3 DEF IsWhole
<1>9. response.status = 200 => NoEnd(response.body)
  BY OpenText
<1>10. response.status = 200 /\ method # "HEAD" /\ ~response.ended => response.pending.page = << >>
  BY OpenText
<1>11. Accounted'
  <2> SUFFICES ASSUME response'.status = 200, method # "HEAD"
               PROVE  \/ response'.ended /\ NoEnd(response'.body)
                      \/ response'.ended /\ IsWhole(response.body)'
                      \/ /\ ~response'.ended /\ response'.pending.page = << >>
                         /\ IsWhole(response.body \o response.pending.fragment)'
    BY DEF Accounted, NoEnd, request
  <2>1. CASE response.ended
    BY <1>2, <1>3, <1>9, <2>1
  <2>2. CASE ~response.ended
    BY <1>2, <1>3, <1>8, <1>10, <2>2 DEF IsWhole
  <2> QED
    BY <2>1, <2>2
<1> QED
  BY <1>5, <1>6, <1>11 DEF FragInv

LEMMA RenderFragmentFrag == IInv /\ FragInv /\ RenderFragment => FragInv'
<1> SUFFICES ASSUME IInv, FragInv, RenderFragment PROVE FragInv'
  OBVIOUS
<1> DEFINE part == Part("controls")
           p == <<part>>
<1>1. part \in Parts /\ p \in Seq(Parts) /\ response \in Response
  BY PartTypes, TypeOKFields DEF IInv
<1>2. /\ view = "extensions" /\ view' = "open" /\ Reading
      /\ response' = [response EXCEPT !.pending.fragment = p]
      /\ UNCHANGED <<request, stream, received>>
  BY DEF RenderFragment, Reading
<1>3. p = Append(<< >>, part)
  BY <1>1
<1> HIDE DEF p
<1>4. response' \in Response
  BY <1>1, <1>2, SetFragment
<1>5. /\ response'.status = response.status /\ response'.ended = response.ended
      /\ response'.body = response.body
      /\ response'.pending.fragment = p /\ response'.pending.page = response.pending.page
  BY <1>1, <1>2, SetFragmentFields
<1>6. Started'
  BY <1>2 DEF FragInv, Started, request
<1>7. response.pending.fragment = << >>
  BY <1>2 DEF FragInv, Started
<1>8. ASSUME Whole(response.body \o response.pending.fragment, stream.emitted, received, view)
      PROVE  IsWhole(response.body \o response.pending.fragment)'
  <2> DEFINE text == response.body \o response.pending.fragment
  <2>1. text \in Seq(Parts) /\ stream.emitted \in Nat /\ received \in BOOLEAN
        /\ response.body \in Seq(Parts) /\ << >> \in Seq(Parts)
    BY <1>2, OpenText
  <2>2. response.body \o p = Append(text, part)
    BY <1>1, <1>3, <1>7, <2>1, ConcatAppend
  <2> HIDE DEF text
  <2>3. Whole(text, stream.emitted, received, view) /\ view # "closed"
    BY <1>2, <1>8 DEF text
  <2>4. Whole(Append(text, part), stream.emitted, received, "open")
    BY <2>1, <2>3, WholeAppend
  <2> QED
    BY <1>2, <1>5, <2>2, <2>4 DEF IsWhole
<1> QED
  BY <1>2, <1>4, <1>5, <1>6, <1>8, ReceivedFrag

LEMMA ReceiveMetadataFrag == IInv /\ FragInv /\ ReceiveMetadata => FragInv'
<1> SUFFICES ASSUME IInv, FragInv, ReceiveMetadata PROVE FragInv'
  OBVIOUS
<1> DEFINE part == Part("metadata")
           p == Append(response.pending.fragment, part)
           s == [response EXCEPT !.pending.fragment = p]
<1>1. part \in Parts
  BY PartTypes
<1>2. response \in Response /\ response.pending.fragment \in Seq(Parts) /\ p \in Seq(Parts)
  BY <1>1, TypeOKFields, FieldTypes DEF IInv
<1>3. /\ view = "open" /\ Reading
      /\ response' = IF stream.ended THEN Finish(s, "fragment") ELSE s
      /\ view' = IF stream.ended THEN "closed" ELSE "open"
      /\ stream' = stream /\ received' = TRUE /\ UNCHANGED request
  BY <1>2 DEF ReceiveMetadata, Response, Pending, Reading
<1>4. p = Append(response.pending.fragment, part)
  OBVIOUS
<1> HIDE DEF p
<1>5. s \in Response
  BY <1>2, SetFragment
<1>6. /\ s.headersSent = response.headersSent /\ s.status = response.status
      /\ s.ended = response.ended /\ s.body = response.body
      /\ s.pending.fragment = p /\ s.pending.page = response.pending.page
  BY <1>2, SetFragmentFields
<1> HIDE DEF s
<1>7. Ordered(s)
  BY <1>5, <1>6 DEF IInv, Sound, Ordered
<1>8. ASSUME Whole(response.body \o response.pending.fragment, stream.emitted, received, view)
      PROVE  Whole(s.body \o s.pending.fragment, stream.emitted, TRUE, view)
  <2> DEFINE text == response.body \o response.pending.fragment
  <2>1. text \in Seq(Parts) /\ stream.emitted \in Nat /\ received \in BOOLEAN
        /\ response.body \in Seq(Parts)
    BY <1>3, OpenText
  <2>2. response.body \o p = Append(text, part)
    BY <1>1, <1>2, <1>4, <2>1, ConcatAppend
  <2> HIDE DEF text
  <2>3. Whole(text, stream.emitted, received, view) /\ view # "closed"
    BY <1>3, <1>8 DEF text
  <2>4. Whole(Append(text, part), stream.emitted, TRUE, view)
    BY <2>1, <2>3, WholeAppend
  <2> QED
    BY <1>6, <2>2, <2>4
<1>9. CASE stream.ended
  BY <1>3, <1>6, <1>7, <1>8, <1>9, FinishedFrag DEF FragInv, Started
<1>10. CASE ~stream.ended
  <2>1. response' = s /\ view' = "open"
    BY <1>3, <1>10
  <2>2. Started'
    BY <1>3, <1>10, <2>1 DEF Started
  <2>3. Whole(response.body \o response.pending.fragment, stream.emitted, received, view)
          => IsWhole(response.body \o response.pending.fragment)'
    BY <1>3, <1>8, <2>1 DEF IsWhole
  <2> QED
    BY <1>3, <1>5, <1>6, <2>1, <2>2, <2>3, ReceivedFrag
<1> QED
  BY <1>9, <1>10

\* A stream that changes without a change of what counts here.
LEMMA SameFrag ==
  ASSUME FragInv, UNCHANGED <<request, view, received, response>>,
         stream'.emitted = stream.emitted, stream'.ended => stream'.emitted = size
  PROVE  FragInv'
BY DEF FragInv, Started, Silent, Accounted, Selected, IsWhole, request

LEMMA ReceiveDataFrag == IInv /\ FragInv /\ ReceiveData => FragInv'
<1> SUFFICES ASSUME IInv, FragInv, ReceiveData PROVE FragInv'
  OBVIOUS
<1> DEFINE n == stream.emitted
           part == <<"quad", n + 1>>
           p == Append(response.pending.fragment, part)
<1>1. /\ view = "open" /\ view' = view /\ Reading /\ ~stream.ended /\ n < size
      /\ stream' = [stream EXCEPT !.emitted = @ + 1]
      /\ UNCHANGED <<request, received>>
  BY DEF ReceiveData, Reading
<1>2. response \in Response /\ stream \in Stream /\ size \in 0 .. NumQuads
  BY TypeOKFields DEF IInv, TypeOK
<1>3. n \in Nat /\ n < NumQuads /\ n + 1 \in 1 .. NumQuads
  BY <1>1, <1>2, PipelineAssumption DEF Stream
<1>4. stream'.emitted = n + 1 /\ ~stream'.ended
  BY <1>1, <1>2 DEF Stream
<1>5. part \in Parts
  BY <1>3, PartTypes
<1>6. response' = [response EXCEPT !.pending.fragment = p]
  BY <1>2, <1>4 DEF ReceiveData, Response, Pending
<1> HIDE DEF n, part
<1>7. response.pending.fragment \in Seq(Parts) /\ p \in Seq(Parts)
  BY <1>2, <1>5, FieldTypes
<1>8. p = Append(response.pending.fragment, part)
  OBVIOUS
<1> HIDE DEF p
<1>9. response' \in Response
  BY <1>2, <1>6, <1>7, SetFragment
<1>10. /\ response'.status = response.status /\ response'.ended = response.ended
       /\ response'.body = response.body
       /\ response'.pending.fragment = p /\ response'.pending.page = response.pending.page
  BY <1>2, <1>6, <1>7, SetFragmentFields
<1>11. Started'
  BY <1>1, <1>4 DEF FragInv, Started, request
<1>12. ASSUME Whole(response.body \o response.pending.fragment, stream.emitted, received, view)
       PROVE  IsWhole(response.body \o response.pending.fragment)'
  <2> DEFINE text == response.body \o response.pending.fragment
  <2>1. text \in Seq(Parts) /\ received \in BOOLEAN /\ response.body \in Seq(Parts)
    BY <1>1, OpenText
  <2>2. response.body \o p = Append(text, part)
    BY <1>5, <1>7, <1>8, <2>1, ConcatAppend
  <2> HIDE DEF text
  <2>3. Whole(text, n, received, view) /\ view # "closed"
    BY <1>1, <1>12 DEF text, n
  <2>4. Whole(Append(text, part), n + 1, received, view)
    BY <1>3, <2>1, <2>3, WholeQuad DEF part
  <2> QED
    BY <1>1, <1>4, <1>10, <2>2, <2>4 DEF IsWhole
<1> QED
  BY <1>1, <1>9, <1>10, <1>11, <1>12, ReceivedFrag

LEMMA StreamEventFrag == IInv /\ FragInv /\ StreamEvent => FragInv'
<1> SUFFICES ASSUME IInv, FragInv, StreamEvent PROVE FragInv'
  OBVIOUS
<1>1. response \in Response /\ stream \in Stream /\ Ordered(response) /\ Sound(response)
      /\ received \in BOOLEAN /\ view \in {"none", "extensions", "open", "closed"}
  BY TypeOKFields DEF IInv, Sound, TypeOK
<1>2. CASE SetMetadata
  <2>1. stream'.emitted = stream.emitted /\ stream'.ended = stream.ended
    BY <1>1, <1>2 DEF SetMetadata, Stream
  <2> QED
    BY <1>2, <2>1, SameFrag DEF SetMetadata, FragInv, Started
<1>3. CASE ReceiveData
  BY <1>3, ReceiveDataFrag
<1>4. CASE EndStream
  <2>1. /\ stream'.emitted = stream.emitted /\ stream.emitted = size
        /\ UNCHANGED <<request, received>>
    BY <1>1, <1>4 DEF EndStream, Stream
  <2>2. CASE view = "open" /\ received
    <3>1. response' = Finish(response, "fragment") /\ view' = "closed" /\ Reading
          /\ received = TRUE
      BY <1>1, <1>4, <2>2 DEF EndStream, Reading
    <3> QED
      BY <1>1, <2>1, <3>1, FinishedFrag
  <2>3. CASE ~(view = "open" /\ received)
    BY <1>4, <2>1, <2>3, SameFrag DEF EndStream
  <2> QED
    BY <2>2, <2>3
<1>5. CASE FailStream
  <2>1. /\ stream'.emitted = stream.emitted /\ stream'.ended = stream.ended
    BY <1>1, <1>5 DEF FailStream, Stream
  <2>2. /\ Reading /\ response' = ReportError(response)
        /\ UNCHANGED <<request, view, received>>
    BY <1>1, <1>5 DEF FailStream, IInv, Closed, Reading, Selected
  <2>3. /\ response'.pending.fragment = response.pending.fragment
        /\ \/ response'.status = 500
           \/ /\ response'.ended /\ response'.status = response.status
              /\ response'.body = response.body
    BY <1>1, <2>2, ReportErrorFacts
  <2>4. response.status = 200 => NoEnd(response.body)
    BY <2>2, OpenText
  <2>5. Started'
    BY <2>1, <2>2, <2>3 DEF FragInv, Started, request
  <2>6. Silent'
    BY <1>1, <2>2, ReportErrorSilent DEF FragInv, Silent, request
  <2>7. Accounted'
    BY <2>3, <2>4 DEF Accounted, NoEnd
  <2> QED
    BY <2>5, <2>6, <2>7 DEF FragInv
<1> QED
  BY <1>2, <1>3, <1>4, <1>5 DEF StreamEvent

\* A step of a view after the response has ended, or of one that is not
\* accounted for.
LEMMA EndedFrag ==
  ASSUME FragInv, UNCHANGED <<request, view, stream, received>>, Started', Silent',
         response'.status = response.status \/ response'.status = 500,
         response.ended => response'.ended /\ response'.body = response.body,
         response.ended \/ response'.status # 200 \/ method = "HEAD" \/ ~Selected
  PROVE  FragInv'
BY DEF FragInv, Accounted, Selected, IsWhole, NoEnd, request

\* What a view that writes relies on.
LEMMA ClosedText ==
  ASSUME IInv, FragInv, Selected, response.status = 200, method # "HEAD", ~response.ended
  PROVE  /\ response.body \in Seq(Parts) /\ response.pending.fragment \in Seq(Parts)
         /\ response.pending.page = << >>
         /\ IsWhole(response.body \o response.pending.fragment)
BY TypeOKFields, FieldTypes DEF IInv, FragInv, Accounted

LEMMA FlushFrag ==
  ASSUME IInv, FragInv, NEW v \in Views, Flush(v)
  PROVE  FragInv'
<1> DEFINE rest == Tail(response.pending[v])
           part == Head(response.pending[v])
           u == [response EXCEPT !.pending[v] = rest]
           parts == <<part>>
           s == Write(u, parts)
<1>1. /\ response \in Response /\ Ordered(response) /\ response.pending[v] \in Seq(Parts)
      /\ response.pending[v] # << >> /\ response.body \in Seq(Parts)
      /\ UNCHANGED <<request, view, stream, received>>
  BY TypeOKFields, FieldTypes DEF IInv, Flush, Sound
<1>2. rest \in Seq(Parts) /\ part \in Parts /\ parts \in Seq(Parts)
  BY <1>1
<1>3. response' = IF part = End THEN EndResponse(s) ELSE s
  BY <1>1 DEF Flush, Response, Pending, Views
<1>4. (response.body \o parts) \o rest = response.body \o response.pending[v]
  BY <1>1, ConcatHead
<1> HIDE DEF rest, part
<1>5. u \in Response
  BY <1>1, <1>2, SetPending
<1>6. /\ u.headersSent = response.headersSent /\ u.status = response.status
      /\ u.ended = response.ended /\ u.body = response.body /\ u.pending[v] = rest
      /\ \A w \in Views \ {v} : u.pending[w] = response.pending[w]
  BY <1>1, <1>2, SetPendingFields
<1> HIDE DEF u
<1>7. Ordered(u)
  BY <1>1, <1>5, <1>6 DEF Ordered
<1>8. parts[1] = part /\ Len(parts) = 1
  OBVIOUS
<1> HIDE DEF parts
<1>9. /\ s \in Response /\ s.status = response.status /\ s.ended = response.ended
      /\ s.pending = u.pending
  BY <1>2, <1>6, <1>7, WriteFacts
<1>10. s.body = IF response.ended \/ method = "HEAD" THEN response.body ELSE response.body \o parts
  BY <1>2, <1>5, <1>6, WriteExact
<1> HIDE DEF s
<1>11. /\ response'.status = response.status /\ response'.pending = u.pending
       /\ response'.body = s.body
       /\ response'.ended = (response.ended \/ part = End)
  BY <1>3, <1>9, EndResponseFacts DEF Response
<1>12. Started'
  <2>1. CASE v = "fragment"
    BY <1>1, <2>1 DEF FragInv, Started, request
  <2>2. CASE v = "page"
    <3>1. response'.pending.fragment = response.pending.fragment
      BY <1>6, <1>11, <2>2 DEF Views
    <3> QED
      BY <1>1, <3>1 DEF FragInv, Started, request
  <2> QED
    BY <2>1, <2>2 DEF Views
<1>13. Silent'
  BY <1>1, <1>10, <1>11 DEF FragInv, Silent, request
<1>14. CASE response.ended \/ response.status # 200 \/ method = "HEAD" \/ ~Selected
  BY <1>1, <1>10, <1>11, <1>12, <1>13, <1>14, EndedFrag
<1>15. CASE ~response.ended /\ response.status = 200 /\ method # "HEAD" /\ Selected
  <2> DEFINE text == response.body \o response.pending.fragment
             body == response.body \o parts
  <2>1. response.pending.page = << >> /\ IsWhole(text)
    BY <1>15, ClosedText
  <2>2. v = "fragment"
    BY <1>1, <2>1 DEF Views
  <2>3. /\ response'.body = body /\ response'.pending.fragment = rest
        /\ response'.pending.page = << >>
    BY <1>6, <1>10, <1>11, <1>15, <2>1, <2>2 DEF Views
  <2>4. body \o rest = text /\ body \in Seq(Parts)
    <3>1. response.pending[v] = response.pending.fragment
      BY <2>2
    <3>2. body \in Seq(Parts)
      BY <1>1, <1>2, ConcatProperties, Zenon
    <3> QED
      BY <1>4, <3>1, <3>2, Zenon
  <2>5. body[Len(body)] = part /\ Len(body) \in DOMAIN body
    <3>1. /\ Len(body) = Len(response.body) + Len(parts) /\ Len(response.body) \in Nat
          /\ \A k \in 1 .. Len(response.body) + Len(parts) :
               body[k] = IF k <= Len(response.body) THEN response.body[k]
                         ELSE parts[k - Len(response.body)]
      BY <1>1, <1>2, ConcatProperties, LenProperties, Zenon
    <3>2. DOMAIN body = 1 .. Len(body)
      BY <2>4, LenProperties, Zenon
    <3> HIDE DEF body
    <3> QED
      BY <1>8, <3>1, <3>2
  <2> HIDE DEF text, body
  <2>6. CASE part = End
    <3>1. ~NoEnd(body)
      BY <2>5, <2>6 DEF NoEnd
    <3>2. rest = << >>
      BY <1>2, <2>1, <2>4, <3>1, WholeBegins DEF IsWhole
    <3>3. body = text
      BY <2>4, <3>2
    <3>4. view = "closed"
      BY <2>1, <2>5, <2>6, <3>3 DEF IsWhole, Whole
    <3>5. Accounted'
      BY <1>1, <1>11, <2>1, <2>3, <2>6, <3>3, <3>4 DEF Accounted, IsWhole
    <3> QED
      BY <1>12, <1>13, <3>5 DEF FragInv
  <2>7. CASE part # End
    <3>1. Accounted'
      BY <1>1, <1>11, <1>15, <2>1, <2>3, <2>4, <2>7 DEF Accounted, IsWhole
    <3> QED
      BY <1>12, <1>13, <3>1 DEF FragInv
  <2> QED
    BY <2>6, <2>7
<1> QED
  BY <1>14, <1>15

\* A view can only be rendered once the fragment is closed, or for an error.
LEMMA FinishedText ==
  ASSUME IInv, FragInv, NEW v \in Views, Finished(v),
         Selected, response.status = 200, method # "HEAD", ~response.ended
  PROVE  /\ v = "fragment" /\ view = "closed" /\ response.pending.fragment # << >>
         /\ NoEnd(response.body)
         /\ IsWhole(response.body \o response.pending.fragment)
<1>1. /\ response.body \in Seq(Parts) /\ response.pending.fragment \in Seq(Parts)
      /\ response.pending.page = << >>
      /\ IsWhole(response.body \o response.pending.fragment)
  BY ClosedText
<1>2. v = "fragment" /\ response.pending.fragment # << >>
  BY <1>1 DEF Views, Finished
<1>3. view = "closed"
  <2>1. ~Reading
    BY <1>2, FinishedView
  <2> QED
    BY <2>1 DEF Reading, Selected, IInv, TypeOK
<1>4. NoEnd(response.body)
  BY <1>1, <1>2, WholeBegins DEF IsWhole
<1> QED
  BY <1>1, <1>2, <1>3, <1>4

LEMMA RenderTemplateFrag ==
  ASSUME IInv, FragInv, NEW v \in Views, RenderTemplate(v)
  PROVE  FragInv'
<1>1. /\ Ordered(response) /\ Finished(v) /\ response' = Deliver(response, v)
      /\ UNCHANGED <<request, view, stream, received>>
  BY DEF IInv, RenderTemplate, Sound
<1>2. /\ response'.ended /\ response'.status = response.status
      /\ response.ended => response'.body = response.body
      /\ response'.pending[v] = << >>
      /\ \A w \in Views \ {v} : response'.pending[w] = response.pending[w]
  BY <1>1, DeliverFacts
<1>3. response'.body = IF response.ended \/ method = "HEAD" THEN response.body
                       ELSE response.body \o response.pending[v]
  BY <1>1, DeliverExact
<1>4. response'.pending.fragment = << >> \/ response'.pending.fragment = response.pending.fragment
  BY <1>2 DEF Views
<1>5. Started'
  BY <1>1, <1>4 DEF FragInv, Started, request
<1>6. Silent'
  BY <1>1, <1>3 DEF FragInv, Silent, request
<1>7. CASE response.ended \/ response.status # 200 \/ method = "HEAD" \/ ~Selected
  BY <1>1, <1>2, <1>5, <1>6, <1>7, EndedFrag
<1>8. CASE ~response.ended /\ response.status = 200 /\ method # "HEAD" /\ Selected
  <2>1. v = "fragment" /\ view = "closed" /\ IsWhole(response.body \o response.pending.fragment)
    BY <1>1, <1>8, FinishedText
  <2>2. IsWhole(response.body)'
    BY <1>1, <1>3, <1>8, <2>1 DEF IsWhole
  <2>3. Accounted'
    BY <1>1, <1>2, <2>1, <2>2 DEF Accounted
  <2> QED
    BY <1>5, <1>6, <2>3 DEF FragInv
<1> QED
  BY <1>7, <1>8

LEMMA ViewFailsFrag ==
  ASSUME IInv, FragInv, NEW v \in Views, ViewFails(v)
  PROVE  FragInv'
<1> DEFINE none == << >>
           u == [response EXCEPT !.pending[v] = none]
           s == ReportError(u)
<1>1. /\ Sound(response) /\ response \in Response /\ response.pending[v] # << >>
      /\ none \in Seq(Parts)
      /\ response' = EndResponse(s)
      /\ UNCHANGED <<request, view, stream, received>>
  BY TypeOKFields DEF IInv, ViewFails
<1>2. none = << >>
  OBVIOUS
<1> HIDE DEF none
<1>3. u \in Response
  BY <1>1, SetPending
<1>4. /\ u.headersSent = response.headersSent /\ u.status = response.status
      /\ u.ended = response.ended /\ u.body = response.body
      /\ u.pending[v] = none
      /\ \A w \in Views \ {v} : u.pending[w] = response.pending[w]
  BY <1>1, SetPendingFields
<1> HIDE DEF u
<1>5. Sound(u)
  BY <1>1, <1>3, <1>4 DEF Sound, Ordered
<1>6. /\ Sound(s) /\ s.pending.fragment = u.pending.fragment
      /\ s.status = 500 \/ (s.status = u.status /\ s.body = u.body)
  BY <1>5, ReportErrorFacts
<1>7. method = "HEAD" => s.body = u.body
  BY <1>5, ReportErrorSilent
<1>8. u.ended => s.body = u.body
  BY <1>3, <1>5, EndResponseFacts DEF ReportError, Sound, Ordered
<1> HIDE DEF s
<1>9. /\ response'.ended /\ response'.status = s.status
      /\ response'.body = s.body /\ response'.pending = s.pending
  BY <1>1, <1>6, EndResponseFacts DEF Sound, Ordered
<1>10. response'.pending.fragment = << >> \/ response'.pending.fragment = response.pending.fragment
  BY <1>2, <1>4, <1>6, <1>9 DEF Views
<1>11. Started'
  BY <1>1, <1>10 DEF FragInv, Started, request
<1>12. Silent'
  BY <1>1, <1>4, <1>7, <1>9 DEF FragInv, Silent, request
<1>13. CASE response.ended \/ response'.status # 200 \/ method = "HEAD" \/ ~Selected
  BY <1>1, <1>4, <1>6, <1>8, <1>9, <1>11, <1>12, <1>13, EndedFrag
<1>14. CASE ~response.ended /\ response'.status = 200 /\ method # "HEAD" /\ Selected
  <2>1. response.status = 200 /\ response'.body = response.body
    BY <1>4, <1>6, <1>9, <1>14
  <2>2. NoEnd(response.body)
    <3>1. ~response.ended /\ Selected /\ method # "HEAD"
      BY <1>1, <1>14 DEF Selected
    <3>2. /\ response.body \in Seq(Parts) /\ response.pending.fragment \in Seq(Parts)
          /\ response.pending.page = << >>
          /\ IsWhole(response.body \o response.pending.fragment)
      BY <2>1, <3>1, ClosedText
    <3>3. response.pending.fragment # << >>
      BY <1>1, <3>2 DEF Views
    <3> QED
      BY <3>2, <3>3, WholeBegins DEF IsWhole
  <2>3. Accounted'
    BY <1>9, <2>1, <2>2 DEF Accounted, NoEnd
  <2> QED
    BY <1>11, <1>12, <2>3 DEF FragInv
<1> QED
  BY <1>13, <1>14

LEMMA NextFragInv == IInv /\ FragInv /\ [Next]_vars => FragInv'
<1> SUFFICES ASSUME IInv, FragInv, [Next]_vars PROVE FragInv'
  OBVIOUS
<1>1. CASE HandleRequest
  BY <1>1, HandleRequestFrag
<1>2. CASE RenderFragment
  BY <1>2, RenderFragmentFrag
<1>3. CASE StreamEvent
  BY <1>3, StreamEventFrag
<1>4. CASE ReceiveMetadata
  BY <1>4, ReceiveMetadataFrag
<1>5. CASE \E v \in Views : Flush(v)
  BY <1>5, FlushFrag
<1>6. CASE \E v \in Views : RenderTemplate(v)
  BY <1>6, RenderTemplateFrag
<1>7. CASE \E v \in Views : SerializerFails(v) \/ RenderFails(v)
  BY <1>7, Failing, ViewFailsFrag
<1>8. CASE UNCHANGED vars
  BY <1>8 DEF vars, request, FragInv, Started, Silent, Accounted, Selected, IsWhole, NoEnd
<1> QED
  BY <1>1, <1>2, <1>3, <1>4, <1>5, <1>6, <1>7, <1>8 DEF Next

LEMMA FragInvariant == Spec => []FragInv
<1>1. IInv /\ FragInv /\ [Next]_vars => FragInv'
  BY NextFragInv
<1> QED
  BY <1>1, Invariant, InitFragInv, PTL DEF Spec

\* In any format and whichever order the data, the metadata, the end, the
\* errors and the steps of the views come in, what looks like a complete
\* fragment with status 200 has every quad of its page, once and in order,
\* and its metadata.
THEOREM FragmentsAreComplete == Spec => []CompleteFragment
<1>1. IInv /\ FragInv => CompleteFragment
  <2> SUFFICES ASSUME IInv, FragInv, Selected, response.status = 200, Complete(response.body)
               PROVE  /\ InOrder(response.body, size)
                      /\ \E k \in DOMAIN response.body : response.body[k] = Part("metadata")
    BY DEF CompleteFragment
  <2> DEFINE b == response.body
  <2>1. b \in Seq(Parts) /\ response.pending.fragment \in Seq(Parts)
    BY TypeOKFields, FieldTypes DEF IInv
  <2>2. b # << >> /\ Len(b) \in DOMAIN b /\ b[Len(b)] = End
    BY <2>1 DEF Complete
  <2>3. ~NoEnd(b)
    BY <2>2 DEF NoEnd
  <2>4. method # "HEAD"
    BY <2>2 DEF FragInv, Silent
  <2>5. IsWhole(b)
    <3>1. CASE response.ended
      BY <2>3, <2>4, <3>1 DEF FragInv, Accounted
    <3>2. CASE ~response.ended
      <4>1. IsWhole(b \o response.pending.fragment)
        BY <2>4, <3>2, ClosedText
      <4>2. response.pending.fragment = << >>
        BY <2>1, <2>3, <4>1, WholeBegins DEF IsWhole
      <4>3. b \o << >> = b
        BY <2>1
      <4> QED
        BY <4>1, <4>2, <4>3
    <3> QED
      BY <3>1, <3>2
  <2>6. view = "closed"
    BY <2>2, <2>5 DEF IsWhole, Whole
  <2>7. received /\ stream.emitted = size
    BY <2>6 DEF IInv, Closed, FragInv, Started
  <2> QED
    BY <2>5, <2>7 DEF IsWhole, Whole
<1> QED
  BY <1>1, Invariant, FragInvariant, PTL
=============================================================================
