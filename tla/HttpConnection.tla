--------------------------- MODULE HttpConnection ---------------------------
(***************************************************************************)
(* One TCP connection of HttpServer/HTTP: the parser HttpContext, which is *)
(* resumed whenever data arrives, and HttpServer::onMessage(), onRequest() *)
(* and handleRequest() with middleware and router behind it.  No SSL.      *)
(*                                                                         *)
(* The stream is a sequence of tokens: request line, header lines, empty   *)
(* line and units of a body, each naming the request it belongs to and its *)
(* place in it.  Data may be cut anywhere: a line without its end is not   *)
(* there yet for findCRLF().  After shutdown() muduo sends nothing more on *)
(* a connection, but still delivers what the client had sent.              *)
(***************************************************************************)
EXTENDS Integers, Sequences, FiniteSets

CONSTANTS Shapes,   \* the requests clients send
          Routes,   \* <<method, path>> pairs the router knows
          Window,   \* requests a client sends ahead of their responses
          MaxReqs,  \* bound: requests on one connection
          Word,     \* 2^64, the numbers a uint64_t holds
          MaxBytes  \* bound: what the input buffer can hold

Methods   == {"GET", "POST", "PUT", "HEAD", "DELETE"}   \* what setMethod() knows

\* The Content-Length header is absent, a text that stoi() throws for, or a number
\* that an int holds.  No memory holds as many bytes as a negative one becomes.
ASSUME HttpAssumption ==
  /\ \A s \in Shapes : /\ s.method \in Methods \cup {"OPTIONS"}
                       /\ s.header \in {"none", "text", "number"} /\ s.length \in Int
                       /\ s.length < 0 => MaxBytes < Word + s.length
  /\ Window \in Nat \ {0} /\ MaxReqs \in Nat /\ Word \in Nat /\ MaxBytes \in Nat

VARIABLES sent,      \* requests the client has sent on this connection
          ahead,     \* those it sent before all earlier ones were answered
          wire,      \* tokens on their way
          buf,       \* muduo's input buffer
          busy,      \* is onMessage() running?
          state,     \* HttpContext::state_
          request,   \* HttpContext::request_: for each part the request it came from
          open,      \* has shutdown() not been called?
          handled,   \* history: the requests given to handleRequest(), and whether open held
          answers,   \* history: for each response sent the request it answers
          aborted    \* an assert has failed

clientVars == <<sent, ahead, wire>>
parseVars  == <<state, request>>
logVars    == <<handled, answers>>
vars == <<clientVars, buf, busy, parseVars, open, logVars, aborted>>

Nobody == 0
NewRequest == [line |-> Nobody, connection |-> Nobody, length |-> Nobody,
               contentLength |-> 0, content |-> Nobody]

\* onConnection(): a fresh HttpContext.
Fresh ==
  [sent |-> << >>, ahead |-> {}, wire |-> << >>, buf |-> << >>, busy |-> FALSE,
   state |-> "line", request |-> NewRequest, open |-> TRUE, handled |-> << >>, answers |-> << >>]

Init ==
  /\ sent = Fresh.sent /\ ahead = Fresh.ahead /\ wire = Fresh.wire
  /\ buf = Fresh.buf /\ busy = Fresh.busy
  /\ state = Fresh.state /\ request = Fresh.request
  /\ open = Fresh.open /\ handled = Fresh.handled /\ answers = Fresh.answers
  /\ aborted = FALSE

-----------------------------------------------------------------------------
(* The client and the network                                              *)

HasBody(s) == s.method \in {"POST", "PUT"} /\ s.header = "number" /\ s.length > 0
Opt(b, k) == IF b THEN <<k>> ELSE << >>

\* The parts of a request in the order in which they are sent.  A client sends a
\* body only with POST and PUT, which is what the server takes for granted
\* (HttpContext.cpp:76); with another method it would read it as request lines.
Parts(s) ==
  <<"line">> \o Opt(s.connection # "none", "connection") \o Opt(s.junk, "junk")
  \o Opt(s.header # "none", "length") \o <<"empty">>
  \o (IF HasBody(s) THEN [j \in 1..s.length |-> "body"] ELSE << >>)
Tokens(s, i) == [k \in 1..Len(Parts(s)) |-> [kind |-> Parts(s)[k], of |-> i, at |-> k]]

Send(s) ==
  /\ ~aborted /\ open
  /\ Len(sent) < MaxReqs
  /\ Len(sent) - Len(answers) < Window
  /\ sent' = Append(sent, s)
  /\ ahead' = IF Len(answers) < Len(sent) THEN ahead \cup {Len(sent) + 1} ELSE ahead
  /\ wire' = wire \o Tokens(s, Len(sent) + 1)
  /\ UNCHANGED <<buf, busy, parseVars, open, logVars, aborted>>

\* n tokens arrive and onMessage() is called.
Deliver(n) ==
  /\ ~aborted /\ ~busy
  /\ n <= Len(wire) /\ Len(buf) + n <= MaxBytes
  /\ buf' = buf \o SubSeq(wire, 1, n)
  /\ wire' = SubSeq(wire, n + 1, Len(wire))
  /\ busy' = TRUE
  /\ UNCHANGED <<sent, ahead, parseVars, open, logVars, aborted>>

\* The connection ends and the client opens another one.
Reconnect ==
  /\ ~aborted /\ ~busy
  /\ sent' = Fresh.sent /\ ahead' = Fresh.ahead /\ wire' = Fresh.wire
  /\ buf' = Fresh.buf /\ busy' = Fresh.busy
  /\ state' = Fresh.state /\ request' = Fresh.request
  /\ open' = Fresh.open /\ handled' = Fresh.handled /\ answers' = Fresh.answers
  /\ UNCHANGED aborted

-----------------------------------------------------------------------------
(* parseRequest(), one round of its loop per action                        *)

At(s) == ~aborted /\ busy /\ state = s
Line == Head(buf)
Pop  == buf' = Tail(buf)

\* Mutant of Reject: the connection stays open.
RejectKeepsOpen(i) ==
  /\ answers' = IF open THEN Append(answers, i) ELSE answers
  /\ busy' = FALSE
  /\ UNCHANGED <<clientVars, open, handled, aborted>>

\* parseRequest() returns false or throws: 400 and shutdown().
Reject(i) ==
  /\ answers' = IF open THEN Append(answers, i) ELSE answers
  /\ open' = FALSE
  /\ busy' = FALSE
  /\ UNCHANGED <<clientVars, handled, aborted>>

Continue == UNCHANGED <<clientVars, busy, open, logVars, aborted>>

\* No complete line: the rest comes with the next call.
NeedLine ==
  /\ At("line") \/ At("headers")
  /\ buf = << >>
  /\ busy' = FALSE
  /\ UNCHANGED <<clientVars, buf, parseVars, open, logVars, aborted>>

MethodOf(r) == sent[r.line].method

\* setMethod() asserts that no method was set before.
LineAsserts ==
  /\ At("line") /\ buf # << >>
  /\ Line.kind = "line"
  /\ request.line # Nobody
  /\ aborted' = TRUE
  /\ UNCHANGED <<clientVars, buf, busy, parseVars, open, logVars>>

\* processRequestLine() knows the method and the version.
RequestLine ==
  /\ At("line") /\ buf # << >>
  /\ Line.kind = "line" /\ request.line = Nobody
  /\ sent[Line.of].method \in Methods
  /\ sent[Line.of].version \in {"1.0", "1.1"}
  /\ request' = [request EXCEPT !.line = Line.of]
  /\ state' = "headers"
  /\ Pop /\ Continue

\* It does not: the line stays in the buffer, and a known method in the request.
BadLine ==
  /\ At("line") /\ buf # << >>
  /\ IF Line.kind = "line"
     THEN /\ request.line = Nobody
          /\ sent[Line.of].method \notin Methods \/ sent[Line.of].version = "2.0"
          /\ request' = [request EXCEPT !.line = IF sent[Line.of].method \in Methods THEN Line.of ELSE @]
     ELSE UNCHANGED request
  /\ Reject(Line.of)
  /\ UNCHANGED <<buf, state>>

Header ==
  /\ At("headers") /\ buf # << >>
  /\ Line.kind \in {"connection", "length"}
  /\ request' = [request EXCEPT ![Line.kind] = Line.of]
  /\ Pop /\ Continue
  /\ UNCHANGED state

\* A line without a colon: it is taken out, the parser still expects headers.
BadHeader ==
  /\ At("headers") /\ buf # << >>
  /\ Line.kind \notin {"connection", "length", "empty"}
  /\ Reject(Line.of)
  /\ Pop
  /\ UNCHANGED parseVars

EndOfHeaders == At("headers") /\ buf # << >> /\ Line.kind = "empty"
ExpectsBody  == MethodOf(request) \in {"POST", "PUT"}
LengthHeader == IF request.length = Nobody THEN "none" ELSE sent[request.length].header

\* stoi() gives an int, setContentLength() takes a uint64_t.
Unsigned(n) == IF n < 0 THEN Word + n ELSE n

NoBody ==
  /\ EndOfHeaders
  /\ ~ExpectsBody
  /\ state' = "gotAll"
  /\ Pop /\ Continue
  /\ UNCHANGED request

BodyFollows ==
  /\ EndOfHeaders
  /\ ExpectsBody
  /\ LengthHeader = "number"
  /\ request' = [request EXCEPT !.contentLength = Unsigned(sent[request.length].length)]
  /\ state' = IF request'.contentLength > 0 THEN "body" ELSE "gotAll"
  /\ Pop /\ Continue

\* Without Content-Length the empty line is taken out; stoi() throws before that.
BadLength ==
  /\ EndOfHeaders
  /\ ExpectsBody
  /\ LengthHeader # "number"
  /\ Reject(Line.of)
  /\ IF LengthHeader = "none" THEN Pop ELSE UNCHANGED buf
  /\ UNCHANGED parseVars

\* Mutant of NeedBody: <= for <.
NeedBodyOneMore ==
  /\ At("body")
  /\ Len(buf) <= request.contentLength
  /\ busy' = FALSE
  /\ UNCHANGED <<clientVars, buf, parseVars, open, logVars, aborted>>

NeedBody ==
  /\ At("body")
  /\ Len(buf) < request.contentLength
  /\ busy' = FALSE
  /\ UNCHANGED <<clientVars, buf, parseVars, open, logVars, aborted>>

Body ==
  /\ At("body")
  /\ Len(buf) >= request.contentLength
  /\ request' = [request EXCEPT !.content = Line.of]
  /\ buf' = SubSeq(buf, request.contentLength + 1, Len(buf))
  /\ state' = "gotAll"
  /\ Continue

-----------------------------------------------------------------------------
(* onRequest() and handleRequest()                                         *)

\* The client does not want the connection to be kept.
WantsClose(r) ==
  LET c == IF r.connection = Nobody THEN "none" ELSE sent[r.connection].connection
  IN c = "close" \/ (sent[r.line].version = "1.0" /\ c # "Keep-Alive")

\* CorsMiddleware::before() throws a response of its own.
Preflight(r) == MethodOf(r) = "OPTIONS"

\* Router::route() finds a handler.
Routed(r) == <<MethodOf(r), sent[r.line].path>> \in Routes

\* Whether the connection may be closed after the response.  The response to a
\* preflight closes it, and so does 404; a handler decides, unless it throws (500)
\* and what the client wants stays.
handleRequest(r) ==
  IF Preflight(r) \/ ~Routed(r) THEN {TRUE} ELSE {WantsClose(r)} \cup BOOLEAN

\* Mutant of Reset: the headers stay.
ResetKeepsHeaders(r) == [r EXCEPT !.line = Nobody]

\* HttpContext::reset(): swap() leaves content_ and contentLength_ out.
Reset(r) == [NewRequest EXCEPT !.content = r.content, !.contentLength = r.contentLength]

\* The response goes out if the connection is not shut down yet.
OnRequest ==
  /\ At("gotAll")
  /\ handled' = Append(handled, [req |-> request, open |-> open])
  /\ answers' = IF open THEN Append(answers, request.line) ELSE answers
  /\ \E close \in handleRequest(request) : open' = (open /\ ~close)
  /\ state' = "line"
  /\ request' = Reset(request)
  /\ busy' = FALSE
  /\ UNCHANGED <<clientVars, buf, aborted>>

-----------------------------------------------------------------------------
Parse == \/ NeedLine \/ LineAsserts \/ RequestLine \/ BadLine \/ Header \/ BadHeader
         \/ NoBody \/ BodyFollows \/ BadLength \/ NeedBody \/ Body
Arrive == \E n \in 1..Len(wire) : Deliver(n)

\* A failed assert ends the process.
Dead == aborted /\ UNCHANGED vars

Next == (\E s \in Shapes : Send(s)) \/ Arrive \/ Reconnect \/ Parse \/ OnRequest \/ Dead

Spec == Init /\ [][Next]_vars

\* TCP delivers what was sent, and the loop of the connection's IO thread runs.
FairSpec == Spec /\ WF_vars(Arrive) /\ WF_vars(Parse \/ OnRequest)
-----------------------------------------------------------------------------
Kinds == {"line", "connection", "junk", "length", "empty", "body"}
TokenType == [kind : Kinds, of : 1..MaxReqs, at : Nat]
RequestType == [line : 0..MaxReqs, connection : 0..MaxReqs, length : 0..MaxReqs,
                contentLength : Nat, content : 0..MaxReqs]

\* Types of all variables.
TypeOK ==
  /\ sent \in Seq(Shapes) /\ Len(sent) <= MaxReqs
  /\ ahead \subseteq 1..MaxReqs
  /\ wire \in Seq(TokenType) /\ buf \in Seq(TokenType)
  /\ busy \in BOOLEAN /\ open \in BOOLEAN /\ aborted \in BOOLEAN
  /\ state \in {"line", "headers", "body", "gotAll"}
  /\ request \in RequestType
  /\ handled \in Seq([req : RequestType, open : BOOLEAN])
  /\ answers \in Seq(1..MaxReqs)

\* However the stream is cut into deliveries and whatever was sent ahead, a
\* request that a handler answers is put together from the parts of one request:
\* its headers are those sent with its line, present if they were sent, and a
\* body that was sent is its own.
PartsBelongTogether ==
  \A i \in 1..Len(handled) :
    LET r == handled[i].req
        s == sent[r.line]
    IN handled[i].open =>
       /\ r.connection = (IF s.connection = "none" THEN Nobody ELSE r.line)
       /\ r.length = (IF s.header = "none" THEN Nobody ELSE r.line)
       /\ HasBody(s) => r.content = r.line

\* The n-th response the client gets answers its n-th request: none is answered
\* twice, skipped or overtaken, with requests sent ahead and with rejected ones
\* whose remaining lines arrive after the 400.
AnswersInOrder == \A i \in 1..Len(answers) : answers[i] = i

\* The length of s is negative and becomes one that no buffer reaches.
Wraps(s) == s.method \in {"POST", "PUT"} /\ s.header = "number" /\ s.length < 0

\* A request sent when all earlier ones had been answered is answered, unless the
\* connection ends: wherever the stream is cut, the parser never waits for data
\* that will not come.  Except for a negative Content-Length (HttpContext.cpp:56):
\* that request, and what follows it, waits until the client gives up.
Answered ==
  \A i \in 1..MaxReqs :
    (Len(sent) = i /\ i \notin ahead /\ ~Wraps(sent[i]))
      ~> (Len(answers) >= i \/ ~open \/ aborted \/ sent = << >>)
=============================================================================
