-------------------------- MODULE HttpServerProofs --------------------------
(***************************************************************************)
(* Proofs about the two parts of HttpServer in which nothing runs          *)
(* concurrently: one connection (HttpConnection) and one game (AiGame).    *)
(*                                                                         *)
(* A connection: however the stream is cut and whatever is sent ahead, an  *)
(* answered request was put together from parts of one request, and the    *)
(* answers come in the order of the requests.  For any requests, any       *)
(* number of them and any body lengths.                                    *)
(*                                                                         *)
(* A game: the players alternate, checkwin() finds a row exactly when      *)
(* there is one, and the AI leaves the human no winning cell that it could *)
(* block.  For every size of the board and length of a row.                *)
(***************************************************************************)
EXTENDS AiGame, HttpConnection, FiniteSetTheorems, SequenceTheorems, WellFoundedInduction, TLAPS

-----------------------------------------------------------------------------
(* A connection: the inductive invariant                                   *)

\* What the parser has not read yet.
Stream == buf \o wire

\* The number of parts of request i among the requests S.
Extent(S, i) == Len(Parts(S[i]))

\* Token j of q is a part of one of the requests S; the parts behind it follow, and
\* after them the next request, if there is one.
InPlace(S, q, j) ==
  LET i == q[j].of
      k == q[j].at
      after == j + Extent(S, i) - k + 1
  IN /\ i \in 1..Len(S) /\ k \in 1..Extent(S, i) /\ q[j].kind = Parts(S[i])[k]
     /\ \A m \in k..Extent(S, i) : j + m - k <= Len(q) /\ q[j + m - k].of = i /\ q[j + m - k].at = m
     /\ IF i = Len(S) THEN after = Len(q) + 1
        ELSE after <= Len(q) /\ q[after].of = i + 1 /\ q[after].at = 1

\* The tokens q consist of whole requests, in order, up to the last one of S; of
\* the first one a part may be missing in front.
InLine(S, q) == \A j \in 1..Len(q) : InPlace(S, q, j)

\* Part k of request i comes next.
Starts(S, q, i, k) ==
  IF q = << >> THEN i = Len(S) + 1 /\ k = 1 ELSE q[1].of = i /\ q[1].at = k

\* The headers of request i that come before part k have been stored.
Seen(i, k, kind) == \E m \in 1..k-1 : Parts(sent[i])[m] = kind
Stored(i, k) ==
  /\ request.connection = (IF Seen(i, k, "connection") THEN i ELSE Nobody)
  /\ request.length = (IF Seen(i, k, "length") THEN i ELSE Nobody)

\* Line and headers of r are those of one request, and so is a body.
Together(r) ==
  /\ r.connection = (IF sent[r.line].connection = "none" THEN Nobody ELSE r.line)
  /\ r.length = (IF sent[r.line].header = "none" THEN Nobody ELSE r.line)
OwnBody(r) == HasBody(sent[r.line]) => r.content = r.line

\* As long as the connection is open the parser works on the request after the
\* last one answered, and what it has stored is what it has read of that one.
AtLine(i) ==
  /\ request.line = Nobody /\ request.connection = Nobody /\ request.length = Nobody
  /\ Starts(sent, Stream, i, 1)
AtHeaders(i) ==
  /\ i <= Len(sent) /\ request.line = i
  /\ \E k \in 2..Extent(sent, i) : Starts(sent, Stream, i, k) /\ Stored(i, k) /\ ~Seen(i, k, "empty")
AtBody(i) ==
  /\ i <= Len(sent) /\ request.line = i /\ Together(request)
  /\ HasBody(sent[i]) /\ request.contentLength = sent[i].length
  /\ Starts(sent, Stream, i, Extent(sent, i) - sent[i].length + 1)
\* A negative Content-Length has become more than the buffer can hold.
Stuck == request.contentLength > MaxBytes
AtEnd(i) ==
  /\ i <= Len(sent) /\ request.line = i /\ Together(request) /\ OwnBody(request)
  /\ Starts(sent, Stream, i + 1, 1)

Current == Len(answers) + 1
PlaceInv ==
  /\ state = "line" => AtLine(Current)
  /\ state = "headers" => AtHeaders(Current)
  /\ state = "body" => AtBody(Current) \/ Stuck
  /\ state = "gotAll" => AtEnd(Current)
ParserInv == open => InLine(sent, Stream) /\ PlaceInv

HandledInv ==
  \A n \in 1..Len(handled) :
    handled[n].open => /\ handled[n].req.line \in 1..Len(sent)
                       /\ Together(handled[n].req) /\ OwnBody(handled[n].req)

BodyInv == state = "body" => request.contentLength > 0

\* On a closed connection too: the buffer has its bound, and every token and the
\* stored length come from a request that was sent.
Bounds ==
  /\ Len(buf) <= MaxBytes
  /\ request.length <= Len(sent) /\ \A j \in 1..Len(Stream) : Stream[j].of <= Len(sent)

HttpInv == TypeOK /\ Bounds /\ BodyInv /\ ParserInv /\ AnswersInOrder /\ HandledInv

-----------------------------------------------------------------------------
(* The parts of a request                                                  *)

LEMMA ShapeFacts ==
  ASSUME NEW s \in Shapes
  PROVE  /\ s.length \in Int /\ Word \in Nat /\ MaxBytes \in Nat
         /\ s.length < 0 => MaxBytes < Unsigned(s.length) /\ Unsigned(s.length) \in Nat \ {0}
         /\ s.length >= 0 => Unsigned(s.length) = s.length
<1>1. s.length \in Int /\ Word \in Nat /\ MaxBytes \in Nat
  BY HttpAssumption
<1>2. s.length < 0 => MaxBytes < Word + s.length
  BY HttpAssumption
<1> QED
  BY <1>1, <1>2 DEF Unsigned

\* What \o does, with the second half counted from its own beginning.
LEMMA Joined ==
  ASSUME NEW S, NEW p \in Seq(S), NEW q \in Seq(S)
  PROVE  /\ p \o q \in Seq(S) /\ Len(p) \in Nat /\ Len(q) \in Nat /\ Len(p \o q) = Len(p) + Len(q)
         /\ \A m \in 1..Len(p) : (p \o q)[m] = p[m]
         /\ \A m \in Len(p)+1..Len(p)+Len(q) : (p \o q)[m] = q[m - Len(p)]
<1>1. Len(p) \in Nat /\ Len(q) \in Nat
  BY LenProperties
<1>2. /\ p \o q \in Seq(S) /\ Len(p \o q) = Len(p) + Len(q)
      /\ \A m \in 1..Len(p) + Len(q) : (p \o q)[m] = IF m <= Len(p) THEN p[m] ELSE q[m - Len(p)]
  BY ConcatProperties
<1> QED
  BY <1>1, <1>2

\* A sequence in which only k occurs.
Only(q, k) == q \in Seq(Kinds) /\ \A m \in 1..Len(q) : q[m] = k

LEMMA OptOnly ==
  ASSUME NEW b, NEW k \in Kinds
  PROVE  Only(Opt(b, k), k) /\ Len(Opt(b, k)) = (IF b THEN 1 ELSE 0)
<1>1. CASE b
  BY <1>1 DEF Opt, Only
<1>2. CASE ~b
  BY <1>2 DEF Opt, Only
<1> QED
  BY <1>1, <1>2

LEMMA JoinedOnly ==
  ASSUME NEW p \in Seq(Kinds), NEW q, NEW k, Only(q, k)
  PROVE  /\ p \o q \in Seq(Kinds) /\ Len(p) \in Nat /\ Len(q) \in Nat /\ Len(p \o q) = Len(p) + Len(q)
         /\ \A m \in 1..Len(p) : (p \o q)[m] = p[m]
         /\ \A m \in Len(p)+1..Len(p \o q) : (p \o q)[m] = k
<1>1. q \in Seq(Kinds) /\ \A m \in 1..Len(q) : q[m] = k
  BY DEF Only
<1>2. /\ p \o q \in Seq(Kinds) /\ Len(p) \in Nat /\ Len(q) \in Nat /\ Len(p \o q) = Len(p) + Len(q)
      /\ \A m \in 1..Len(p) : (p \o q)[m] = p[m]
      /\ \A m \in Len(p)+1..Len(p)+Len(q) : (p \o q)[m] = q[m - Len(p)]
  BY <1>1, Joined
<1>3. ASSUME NEW m \in Len(p)+1..Len(p)+Len(q) PROVE m - Len(p) \in 1..Len(q)
  BY <1>2
<1> QED
  BY <1>1, <1>2, <1>3

\* Where the empty line is: everything before it is line or header, each header
\* that was given is there, and everything behind it is body.
Ends(s, e) ==
  /\ e \in 1..Len(Parts(s)) /\ Parts(s)[e] = "empty" /\ e > 1
  /\ Parts(s)[1] = "line"
  /\ \A m \in 2..e-1 : Parts(s)[m] \in {"connection", "junk", "length"}
  /\ \A m \in e+1..Len(Parts(s)) : Parts(s)[m] = "body"
  /\ (\E m \in 1..e-1 : Parts(s)[m] = "connection") <=> s.connection # "none"
  /\ (\E m \in 1..e-1 : Parts(s)[m] = "length") <=> s.header # "none"
  /\ Len(Parts(s)) = e + (IF HasBody(s) THEN s.length ELSE 0)

LEMMA PartsEnd == ASSUME NEW s \in Shapes PROVE Parts(s) \in Seq(Kinds) /\ \E e : Ends(s, e)
<1> DEFINE l == <<"line">>
           c == Opt(s.connection # "none", "connection")
           j == Opt(s.junk, "junk")
           n == Opt(s.header # "none", "length")
           x == <<"empty">>
           b == IF HasBody(s) THEN [i \in 1..s.length |-> "body"] ELSE << >>
<1>1. /\ l \in Seq(Kinds) /\ Len(l) = 1 /\ l[1] = "line"
      /\ Only(c, "connection") /\ Len(c) = (IF s.connection # "none" THEN 1 ELSE 0)
      /\ Only(j, "junk") /\ Len(j) \in {0, 1}
      /\ Only(n, "length") /\ Len(n) = (IF s.header # "none" THEN 1 ELSE 0)
      /\ Only(x, "empty") /\ Len(x) = 1
  <2>1. {"line", "connection", "junk", "length", "empty"} \subseteq Kinds
    BY DEF Kinds
  <2>2. l \in Seq(Kinds) /\ Len(l) = 1 /\ l[1] = "line" /\ Only(x, "empty") /\ Len(x) = 1
    BY <2>1 DEF Only
  <2>3. Only(c, "connection") /\ Len(c) = (IF s.connection # "none" THEN 1 ELSE 0)
    BY <2>1, OptOnly
  <2>4. Only(j, "junk") /\ Len(j) = (IF s.junk THEN 1 ELSE 0)
    BY <2>1, OptOnly
  <2>5. Only(n, "length") /\ Len(n) = (IF s.header # "none" THEN 1 ELSE 0)
    BY <2>1, OptOnly
  <2> QED
    BY <2>2, <2>3, <2>4, <2>5
<1>2. Only(b, "body") /\ Len(b) = (IF HasBody(s) THEN s.length ELSE 0)
  <2>1. CASE HasBody(s)
    <3>1. s.length \in Nat
      BY <2>1, ShapeFacts DEF HasBody
    <3> QED
      BY <2>1, <3>1 DEF Kinds, Only
  <2>2. CASE ~HasBody(s)
    BY <2>2 DEF Only
  <2> QED
    BY <2>1, <2>2
<1> HIDE DEF l, c, j, n, x, b
<1> DEFINE p1 == l \o c
           p2 == p1 \o j
           p3 == p2 \o n
           p4 == p3 \o x
           p5 == p4 \o b
<1>3. /\ p1 \in Seq(Kinds) /\ Len(p1) = 1 + Len(c) /\ Len(c) \in Nat /\ p1[1] = "line"
      /\ \A m \in 2..Len(p1) : p1[m] = "connection"
  <2>1. /\ p1 \in Seq(Kinds) /\ Len(c) \in Nat /\ Len(p1) = Len(l) + Len(c)
        /\ \A m \in 1..Len(l) : p1[m] = l[m]
        /\ \A m \in Len(l)+1..Len(p1) : p1[m] = "connection"
    BY <1>1, JoinedOnly
  <2> QED
    BY <1>1, <2>1
<1> HIDE DEF p1
<1>4. /\ p2 \in Seq(Kinds) /\ Len(p1) \in Nat /\ Len(j) \in Nat /\ Len(p2) = Len(p1) + Len(j)
      /\ \A m \in 1..Len(p1) : p2[m] = p1[m]
      /\ \A m \in Len(p1)+1..Len(p2) : p2[m] = "junk"
  BY <1>1, <1>3, JoinedOnly
<1> HIDE DEF p2
<1>5. /\ p3 \in Seq(Kinds) /\ Len(p2) \in Nat /\ Len(n) \in Nat /\ Len(p3) = Len(p2) + Len(n)
      /\ \A m \in 1..Len(p2) : p3[m] = p2[m]
      /\ \A m \in Len(p2)+1..Len(p3) : p3[m] = "length"
  BY <1>1, <1>4, JoinedOnly
<1> HIDE DEF p3
<1>6. /\ p4 \in Seq(Kinds) /\ Len(p3) \in Nat /\ Len(p4) = Len(p3) + 1
      /\ \A m \in 1..Len(p3) : p4[m] = p3[m]
      /\ p4[Len(p4)] = "empty"
  <2>1. /\ p4 \in Seq(Kinds) /\ Len(p3) \in Nat /\ Len(p4) = Len(p3) + Len(x)
        /\ \A m \in 1..Len(p3) : p4[m] = p3[m]
        /\ \A m \in Len(p3)+1..Len(p4) : p4[m] = "empty"
    <3>1. p3 \in Seq(Kinds) /\ Only(x, "empty")
      BY <1>1, <1>5
    <3> QED
      BY <3>1, JoinedOnly
  <2> QED
    BY <1>1, <2>1
<1> HIDE DEF p4
<1>7. /\ p5 \in Seq(Kinds) /\ Len(p4) \in Nat /\ Len(b) \in Nat /\ Len(p5) = Len(p4) + Len(b)
      /\ \A m \in 1..Len(p4) : p5[m] = p4[m]
      /\ \A m \in Len(p4)+1..Len(p5) : p5[m] = "body"
  BY <1>2, <1>6, JoinedOnly
<1>8. Parts(s) = p5
  BY DEF Parts, p5, p4, p3, p2, p1, l, c, j, n, x, b
<1> HIDE DEF p5
<1> DEFINE e == Len(p4)
<1>9. /\ Len(p5) \in Nat /\ 1 <= Len(p1) /\ Len(p1) <= Len(p2) /\ Len(p2) <= Len(p3)
      /\ Len(p3) + 1 = e /\ e <= Len(p5)
  BY <1>3, <1>4, <1>5, <1>6, <1>7
<1>10. /\ \A m \in 1..e-1 : p5[m] = p3[m]
       /\ \A m \in 1..Len(p2) : p5[m] = p2[m]
       /\ \A m \in 1..Len(p1) : p5[m] = p1[m]
  BY <1>4, <1>5, <1>6, <1>7, <1>9
<1>11. /\ p5[1] = "line"
       /\ \A m \in 2..Len(p1) : p5[m] = "connection"
       /\ \A m \in Len(p1)+1..Len(p2) : p5[m] = "junk"
       /\ \A m \in Len(p2)+1..Len(p3) : p5[m] = "length"
  <2>1. p5[1] = "line" /\ \A m \in 2..Len(p1) : p5[m] = "connection"
    BY <1>3, <1>9, <1>10
  <2>2. \A m \in Len(p1)+1..Len(p2) : p5[m] = "junk"
    BY <1>4, <1>9, <1>10
  <2>3. \A m \in Len(p2)+1..Len(p3) : p5[m] = "length"
    <3>1. ASSUME NEW m \in Len(p2)+1..Len(p3) PROVE m \in 1..e-1
      BY <1>5, <1>6, <1>9
    <3> QED
      BY <1>5, <1>10, <3>1
  <2> QED
    BY <2>1, <2>2, <2>3
<1>12. (\E m \in 1..e-1 : p5[m] = "connection") <=> s.connection # "none"
  <2>1. CASE s.connection # "none"
    <3>1. Len(p1) = 2
      BY <1>1, <1>3, <2>1
    <3> QED
      BY <1>9, <1>11, <2>1, <3>1
  <2>2. CASE s.connection = "none"
    <3>1. Len(p1) = 1
      BY <1>1, <1>3, <2>2
    <3> QED
      BY <1>9, <1>11, <2>2, <3>1
  <2> QED
    BY <2>1, <2>2
<1>13. (\E m \in 1..e-1 : p5[m] = "length") <=> s.header # "none"
  <2>1. CASE s.header # "none"
    <3>1. Len(p3) = Len(p2) + 1
      BY <1>1, <1>5, <2>1
    <3> QED
      BY <1>9, <1>11, <2>1, <3>1
  <2>2. CASE s.header = "none"
    <3>1. Len(p3) = Len(p2)
      BY <1>1, <1>5, <2>2
    <3> QED
      BY <1>9, <1>11, <2>2, <3>1
  <2> QED
    BY <2>1, <2>2
<1>14. \A m \in 2..e-1 : p5[m] \in {"connection", "junk", "length"}
  BY <1>9, <1>11
<1>15. p5[e] = "empty" /\ e \in 1..Len(p5) /\ e > 1
  BY <1>6, <1>7, <1>9
<1>16. Ends(s, e)
  BY <1>2, <1>7, <1>8, <1>11, <1>12, <1>13, <1>14, <1>15 DEF Ends
<1> QED
  BY <1>7, <1>8, <1>16
-----------------------------------------------------------------------------
(* The stream                                                              *)

\* q without its first n tokens is r.
Drops(q, r, n) ==
  /\ n \in 0..Len(q) /\ Len(r) = Len(q) - n
  /\ \A j \in 1..Len(r) : r[j] = q[j + n]

LEMMA StreamType ==
  ASSUME TypeOK
  PROVE  /\ Stream \in Seq(TokenType) /\ Len(buf) \in Nat /\ Len(wire) \in Nat
         /\ Len(Stream) = Len(buf) + Len(wire)
         /\ \A j \in 1..Len(buf) : Stream[j] = buf[j]
         /\ \A j \in Len(buf)+1..Len(buf)+Len(wire) : Stream[j] = wire[j - Len(buf)]
<1>1. buf \in Seq(TokenType) /\ wire \in Seq(TokenType)
  BY DEF TypeOK
<1> QED
  BY <1>1, Joined DEF Stream

\* The line the parser looks at is the first token of the stream.
LEMMA LineIsFirst ==
  ASSUME TypeOK, buf # << >>
  PROVE  /\ Line = Stream[1] /\ Stream # << >> /\ Len(Stream) \in Nat \ {0} /\ Line \in TokenType
         /\ Line.of \in 1..MaxReqs /\ Line.kind \in Kinds /\ Line.at \in Nat
<1>1. buf \in Seq(TokenType) /\ Len(buf) \in Nat /\ Len(buf) > 0 /\ Line = buf[1] /\ Line \in TokenType
  BY DEF TypeOK, Line
<1>2. Len(Stream) \in Nat \ {0} /\ Line = Stream[1]
  BY <1>1, StreamType
<1>3. Stream # << >>
  BY <1>2
<1> QED
  BY <1>1, <1>2, <1>3 DEF TokenType

LEMMA JoinedDrops ==
  ASSUME NEW S, NEW p \in Seq(S), NEW q \in Seq(S), NEW r \in Seq(S), NEW n, Drops(p, r, n)
  PROVE  Drops(p \o q, r \o q, n)
<1> DEFINE P == p \o q
           R == r \o q
<1>1. /\ Len(p) \in Nat /\ Len(q) \in Nat /\ Len(r) \in Nat /\ n \in 0..Len(p) /\ Len(r) = Len(p) - n
      /\ \A j \in 1..Len(r) : r[j] = p[j + n]
  BY LenProperties DEF Drops
<1>2. /\ Len(P) = Len(p) + Len(q)
      /\ \A m \in 1..Len(p) : P[m] = p[m]
      /\ \A m \in Len(p)+1..Len(p)+Len(q) : P[m] = q[m - Len(p)]
  BY Joined
<1>3. /\ Len(R) = Len(r) + Len(q)
      /\ \A m \in 1..Len(r) : R[m] = r[m]
      /\ \A m \in Len(r)+1..Len(r)+Len(q) : R[m] = q[m - Len(r)]
  BY Joined
<1> HIDE DEF P, R
<1>4. ASSUME NEW j \in 1..Len(r) + Len(q) PROVE R[j] = P[j + n]
  <2>1. CASE j <= Len(r)
    <3>1. j \in 1..Len(r) /\ j + n \in 1..Len(p)
      BY <1>1, <2>1
    <3> QED
      BY <1>1, <1>2, <1>3, <3>1
  <2>2. CASE j > Len(r)
    <3>1. j \in Len(r)+1..Len(r)+Len(q) /\ j + n \in Len(p)+1..Len(p)+Len(q) /\ j - Len(r) = j + n - Len(p)
      BY <1>1, <2>2
    <3>2. R[j] = q[j - Len(r)]
      BY <1>3, <3>1
    <3>3. PICK i : i = j + n
      OBVIOUS
    <3>4. P[i] = q[i - Len(p)]
      BY <1>2, <3>1, <3>3
    <3>5. i - Len(p) = j - Len(r)
      BY <1>1, <3>1, <3>3
    <3> QED
      BY <3>2, <3>3, <3>4, <3>5
  <2> QED
    BY <1>1, <2>1, <2>2
<1>5. n \in 0..Len(P) /\ Len(R) = Len(P) - n
  BY <1>1, <1>2, <1>3
<1>6. Drops(P, R, n)
  BY <1>3, <1>4, <1>5 DEF Drops
<1> QED
  BY <1>6 DEF P, R

LEMMA SubSeqDrops ==
  ASSUME NEW S, NEW p \in Seq(S), NEW n \in 0..Len(p)
  PROVE  SubSeq(p, n + 1, Len(p)) \in Seq(S) /\ Drops(p, SubSeq(p, n + 1, Len(p)), n)
BY DEF Drops

\* Taking tokens out of the buffer drops them from the stream.
LEMMA TakeDrops ==
  ASSUME TypeOK, NEW n \in 0..Len(buf), buf' = SubSeq(buf, n + 1, Len(buf)), wire' = wire
  PROVE  buf' \in Seq(TokenType) /\ Drops(Stream, Stream', n)
<1>1. buf \in Seq(TokenType) /\ wire \in Seq(TokenType)
  BY DEF TypeOK
<1>2. buf' \in Seq(TokenType) /\ Drops(buf, buf', n)
  BY <1>1, SubSeqDrops
<1>3. Drops(buf \o wire, buf' \o wire, n)
  BY <1>1, <1>2, JoinedDrops
<1> QED
  BY <1>2, <1>3 DEF Stream

LEMMA PopDrops ==
  ASSUME TypeOK, buf # << >>, Pop, wire' = wire
  PROVE  buf' \in Seq(TokenType) /\ Drops(Stream, Stream', 1)
<1>1. buf \in Seq(TokenType)
  BY DEF TypeOK
<1>2. Tail(buf) = SubSeq(buf, 2, Len(buf)) /\ Len(buf) \in Nat \ {0}
  BY <1>1, TailIsSubSeq, EmptySeq
<1>3. 1 \in 0..Len(buf) /\ buf' = SubSeq(buf, 1 + 1, Len(buf))
  BY <1>2 DEF Pop
<1> QED
  BY <1>3, TakeDrops

\* q is cut into a and b after n tokens.
Cut(q, n, a, b) == n \in 1..Len(q) /\ a = SubSeq(q, 1, n) /\ b = SubSeq(q, n + 1, Len(q))

LEMMA CutAnywhere ==
  ASSUME NEW S, NEW p \in Seq(S), NEW q \in Seq(S), NEW n, NEW a, NEW b, Cut(q, n, a, b)
  PROVE  p \o a \in Seq(S) /\ b \in Seq(S) /\ (p \o a) \o b = p \o q
<1> DEFINE c == p \o a
           d == c \o b
           e == p \o q
<1>1. Len(p) \in Nat /\ Len(q) \in Nat /\ n \in 1..Len(q)
  BY LenProperties DEF Cut
<1>2. a \in Seq(S) /\ Len(a) = n /\ \A m \in 1..n : a[m] = q[m]
  BY <1>1 DEF Cut
<1>3. b \in Seq(S) /\ Len(b) = Len(q) - n /\ \A m \in 1..Len(q) - n : b[m] = q[m + n]
  BY <1>1 DEF Cut
<1>4. /\ c \in Seq(S) /\ Len(c) = Len(p) + n
      /\ \A m \in 1..Len(p) : c[m] = p[m]
      /\ \A m \in Len(p)+1..Len(p)+n : c[m] = a[m - Len(p)]
  <2>1. /\ c \in Seq(S) /\ Len(c) = Len(p) + Len(a)
        /\ \A m \in 1..Len(p) : c[m] = p[m]
        /\ \A m \in Len(p)+1..Len(p)+Len(a) : c[m] = a[m - Len(p)]
    <3>1. a \in Seq(S)
      BY <1>2
    <3> QED
      BY <3>1, Joined
  <2> HIDE DEF c
  <2> QED
    BY <1>2, <2>1
<1> HIDE DEF c
<1>5. /\ d \in Seq(S) /\ Len(d) = Len(c) + Len(b)
      /\ \A m \in 1..Len(c) : d[m] = c[m]
      /\ \A m \in Len(c)+1..Len(c)+Len(b) : d[m] = b[m - Len(c)]
  <2>1. b \in Seq(S) /\ c \in Seq(S)
    BY <1>3, <1>4
  <2> QED
    BY <2>1, Joined
<1>6. /\ e \in Seq(S) /\ Len(e) = Len(p) + Len(q)
      /\ \A m \in 1..Len(p) : e[m] = p[m]
      /\ \A m \in Len(p)+1..Len(p)+Len(q) : e[m] = q[m - Len(p)]
  BY Joined
<1> HIDE DEF d, e
<1>7. Len(d) = Len(e) /\ Len(e) \in Nat
  BY <1>1, <1>3, <1>4, <1>5, <1>6
<1>8. ASSUME NEW m \in 1..Len(d) PROVE d[m] = e[m]
  <2>1. CASE m \in 1..Len(p)
    BY <1>1, <1>4, <1>5, <1>6, <2>1
  <2>2. CASE m \in Len(p)+1..Len(p)+n
    <3>1. m \in 1..Len(c) /\ m \in Len(p)+1..Len(p)+Len(q) /\ m - Len(p) \in 1..n
      BY <1>1, <1>4, <2>2
    <3> QED
      BY <1>2, <1>4, <1>5, <1>6, <2>2, <3>1
  <2>3. CASE m > Len(p)+n
    <3>1. /\ m \in Len(c)+1..Len(c)+Len(b) /\ m \in Len(p)+1..Len(p)+Len(q)
          /\ m - Len(c) \in 1..Len(q) - n /\ m - Len(c) + n = m - Len(p)
      BY <1>1, <1>3, <1>4, <1>5, <2>3
    <3>2. d[m] = b[m - Len(c)] /\ b[m - Len(c)] = q[m - Len(c) + n] /\ e[m] = q[m - Len(p)]
      BY <1>3, <1>5, <1>6, <3>1
    <3> QED
      BY <3>1, <3>2
  <2> QED
    BY <1>1, <1>5, <1>7, <2>1, <2>2, <2>3
<1>9. d = e
  BY <1>5, <1>6, <1>7, <1>8, SeqEqual
<1> QED
  BY <1>3, <1>4, <1>9 DEF c, d, e

\* Delivery leaves the stream as it is.
LEMMA DeliverKeeps ==
  ASSUME TypeOK, NEW n \in 1..Len(wire), Deliver(n)
  PROVE  buf' \in Seq(TokenType) /\ wire' \in Seq(TokenType) /\ Stream' = Stream
<1>1. buf \in Seq(TokenType) /\ wire \in Seq(TokenType)
  BY DEF TypeOK
<1>2. buf' = buf \o SubSeq(wire, 1, n) /\ wire' = SubSeq(wire, n + 1, Len(wire))
  BY DEF Deliver
<1>3. PICK a, b : Cut(wire, n, a, b)
  BY DEF Cut
<1>4. buf \o a \in Seq(TokenType) /\ b \in Seq(TokenType) /\ (buf \o a) \o b = buf \o wire
  BY <1>1, <1>3, CutAnywhere
<1>5. buf' = buf \o a /\ wire' = b
  BY <1>2, <1>3 DEF Cut
<1> QED
  BY <1>4, <1>5 DEF Stream
-----------------------------------------------------------------------------
(* What is in line stays in line                                           *)

LEMMA ExtentType == ASSUME NEW S \in Seq(Shapes), NEW i \in 1..Len(S)
                    PROVE  Extent(S, i) \in Nat \ {0} /\ S[i] \in Shapes
<1>1. S[i] \in Shapes
  BY ElementOfSeq
<1>2. PICK e : Ends(S[i], e)
  BY <1>1, PartsEnd
<1>3. Len(Parts(S[i])) \in Nat
  BY <1>1, PartsEnd, LenProperties
<1> QED
  BY <1>1, <1>2, <1>3 DEF Extent, Ends

LEMMA DropInLine ==
  ASSUME NEW S \in Seq(Shapes), NEW q \in Seq(TokenType), NEW r \in Seq(TokenType), NEW n,
         Drops(q, r, n), InLine(S, q)
  PROVE  InLine(S, r)
<1>1. /\ Len(q) \in Nat /\ Len(r) \in Nat /\ n \in 0..Len(q) /\ Len(r) = Len(q) - n /\ Len(S) \in Nat
      /\ \A j \in 1..Len(r) : r[j] = q[j + n]
  BY LenProperties DEF Drops
<1> SUFFICES ASSUME NEW j \in 1..Len(r) PROVE InPlace(S, r, j)
  BY DEF InLine
<1> DEFINE i == r[j].of
           k == r[j].at
           x == Extent(S, i)
<1>2. j + n \in 1..Len(q) /\ r[j] = q[j + n]
  BY <1>1
<1>3. InPlace(S, q, j + n)
  BY <1>2 DEF InLine
<1>4. /\ i \in 1..Len(S) /\ k \in 1..x /\ r[j].kind = Parts(S[i])[k]
      /\ \A m \in k..x : (j + n) + m - k <= Len(q) /\ q[(j + n) + m - k].of = i /\ q[(j + n) + m - k].at = m
      /\ i = Len(S) => (j + n) + x - k + 1 = Len(q) + 1
      /\ i # Len(S) => /\ (j + n) + x - k + 1 <= Len(q)
                       /\ q[(j + n) + x - k + 1].of = i + 1 /\ q[(j + n) + x - k + 1].at = 1
  BY <1>2, <1>3 DEF InPlace
<1>5. x \in Nat
  BY <1>4, ExtentType
<1> HIDE DEF i, k, x
<1>6. j \in Nat /\ n \in Nat /\ k \in Nat /\ k >= 1 /\ k <= x /\ j >= 1
  <2>1. k \in 1..x
    BY <1>4
  <2>2. j \in 1..Len(r) /\ n \in 0..Len(q) /\ Len(q) \in Nat /\ Len(r) \in Nat
    BY <1>1
  <2> QED
    BY <1>5, <2>1, <2>2
<1>7. Len(q) \in Nat /\ Len(r) \in Nat /\ Len(r) = Len(q) - n
  BY <1>1
<1>8. ASSUME NEW m \in k..x PROVE j + m - k <= Len(r) /\ r[j + m - k].of = i /\ r[j + m - k].at = m
  <2>1. m \in Nat /\ k <= m
    BY <1>5, <1>6
  <2>2. (j + n) + m - k <= Len(q)
    BY <1>4
  <2>3. j + m - k \in 1..Len(r) /\ (j + m - k) + n = (j + n) + m - k
    BY <1>6, <1>7, <2>1, <2>2
  <2>4. r[j + m - k] = q[(j + n) + m - k]
    BY <1>1, <2>3
  <2> QED
    BY <1>4, <2>3, <2>4
<1>9. i = Len(S) => j + x - k + 1 = Len(r) + 1
  <2>1. i = Len(S) => (j + n) + x - k + 1 = Len(q) + 1
    BY <1>4
  <2> QED
    BY <1>5, <1>6, <1>7, <2>1
<1>10. ASSUME i # Len(S)
      PROVE  j + x - k + 1 <= Len(r) /\ r[j + x - k + 1].of = i + 1 /\ r[j + x - k + 1].at = 1
  <2>1. (j + n) + x - k + 1 <= Len(q)
    BY <1>4, <1>10
  <2>2. PICK h : h = j + x - k + 1
    OBVIOUS
  <2>3. h \in 1..Len(r) /\ h + n = (j + n) + x - k + 1
    BY <1>5, <1>6, <1>7, <2>1, <2>2
  <2>4. r[h] = q[(j + n) + x - k + 1] /\ h <= Len(r)
    BY <1>1, <2>3
  <2> QED
    BY <1>4, <1>10, <2>2, <2>4
<1> QED
  BY <1>4, <1>8, <1>9, <1>10 DEF InPlace, i, k, x

\* Reading the first token: the next part, or the next request, comes first.
LEMMA DropFirst ==
  ASSUME NEW S \in Seq(Shapes), NEW q \in Seq(TokenType), NEW r \in Seq(TokenType),
         q # << >>, Drops(q, r, 1), InLine(S, q), NEW i, NEW k, Starts(S, q, i, k)
  PROVE  /\ i \in 1..Len(S) /\ k \in 1..Extent(S, i) /\ q[1].kind = Parts(S[i])[k]
         /\ k < Extent(S, i) => Starts(S, r, i, k + 1)
         /\ k = Extent(S, i) => Starts(S, r, i + 1, 1)
<1>1. /\ Len(q) \in Nat \ {0} /\ Len(r) \in Nat /\ Len(r) = Len(q) - 1 /\ Len(S) \in Nat
      /\ \A j \in 1..Len(r) : r[j] = q[j + 1]
  BY LenProperties, EmptySeq DEF Drops
<1>2. q[1].of = i /\ q[1].at = k
  BY DEF Starts
<1>3. InPlace(S, q, 1)
  BY <1>1 DEF InLine
<1> DEFINE x == Extent(S, i)
<1>4. /\ i \in 1..Len(S) /\ k \in 1..x /\ q[1].kind = Parts(S[i])[k]
      /\ \A m \in k..x : 1 + m - k <= Len(q) /\ q[1 + m - k].of = i /\ q[1 + m - k].at = m
      /\ i = Len(S) => 1 + x - k + 1 = Len(q) + 1
      /\ i # Len(S) => 1 + x - k + 1 <= Len(q) /\ q[1 + x - k + 1].of = i + 1 /\ q[1 + x - k + 1].at = 1
  BY <1>2, <1>3 DEF InPlace
<1>5. x \in Nat
  BY <1>4, ExtentType
<1> HIDE DEF x
<1>6. ASSUME k < x PROVE Starts(S, r, i, k + 1)
  <2>1. k + 1 \in k..x /\ 1 + (k + 1) - k = 2
    BY <1>4, <1>5, <1>6
  <2>2. 2 <= Len(q) /\ q[2].of = i /\ q[2].at = k + 1
    BY <1>4, <2>1
  <2>3. r[1] = q[2] /\ Len(r) > 0
    BY <1>1, <2>2
  <2>4. r # << >>
    BY <2>3
  <2> QED
    BY <2>2, <2>3, <2>4 DEF Starts
<1>7. ASSUME k = x PROVE Starts(S, r, i + 1, 1)
  <2>0. 1 + x - k + 1 = 2
    BY <1>4, <1>5, <1>7
  <2>1. CASE i = Len(S)
    <3>1. Len(r) = 0
      BY <1>1, <1>4, <2>0, <2>1
    <3>2. r = << >>
      BY <3>1, EmptySeq
    <3> QED
      BY <2>1, <3>2 DEF Starts
  <2>2. CASE i # Len(S)
    <3>1. 2 <= Len(q) /\ q[2].of = i + 1 /\ q[2].at = 1
      BY <1>4, <2>0, <2>2
    <3>2. r[1] = q[2] /\ Len(r) > 0
      BY <1>1, <3>1
    <3>3. r # << >>
      BY <3>2
    <3> QED
      BY <3>1, <3>2, <3>3 DEF Starts
  <2> QED
    BY <2>1, <2>2
<1> QED
  BY <1>4, <1>6, <1>7 DEF x

\* Reading what is left of the first request: the next one comes first.
LEMMA DropRest ==
  ASSUME NEW S \in Seq(Shapes), NEW q \in Seq(TokenType), NEW r \in Seq(TokenType),
         q # << >>, InLine(S, q), NEW i, NEW k, Starts(S, q, i, k),
         Drops(q, r, Extent(S, i) - k + 1)
  PROVE  Starts(S, r, i + 1, 1)
<1> DEFINE x == Extent(S, i)
<1>1. /\ Len(q) \in Nat \ {0} /\ Len(r) \in Nat /\ Len(r) = Len(q) - (x - k + 1) /\ Len(S) \in Nat
      /\ \A j \in 1..Len(r) : r[j] = q[j + (x - k + 1)]
  BY LenProperties, EmptySeq DEF Drops
<1>2. q[1].of = i /\ q[1].at = k
  BY DEF Starts
<1>3. InPlace(S, q, 1)
  BY <1>1 DEF InLine
<1>4. /\ i \in 1..Len(S) /\ k \in 1..x
      /\ i = Len(S) => 1 + x - k + 1 = Len(q) + 1
      /\ i # Len(S) => 1 + x - k + 1 <= Len(q) /\ q[1 + x - k + 1].of = i + 1 /\ q[1 + x - k + 1].at = 1
  BY <1>2, <1>3 DEF InPlace
<1>5. x \in Nat
  BY <1>4, ExtentType
<1> HIDE DEF x
<1>6. CASE i = Len(S)
  <2>1. k \in Nat /\ 1 + x - k + 1 = Len(q) + 1
    BY <1>4, <1>5, <1>6
  <2>2. Len(r) = 0
    BY <1>1, <1>5, <2>1
  <2>3. r = << >>
    BY <2>2, EmptySeq
  <2> QED
    BY <1>6, <2>3 DEF Starts
<1>7. CASE i # Len(S)
  <2>1. 1 + x - k + 1 = 1 + (x - k + 1)
    BY <1>4, <1>5
  <2>2. Len(r) >= 1
    BY <1>1, <1>4, <1>5, <1>7
  <2>3. r[1] = q[1 + (x - k + 1)]
    BY <1>1, <2>2
  <2>4. r[1].of = i + 1 /\ r[1].at = 1 /\ r # << >>
    BY <1>4, <1>7, <2>1, <2>2, <2>3
  <2> QED
    BY <2>4 DEF Starts
<1> QED
  BY <1>6, <1>7

-----------------------------------------------------------------------------
(* What is sent stands in line                                             *)

LEMMA TokensType ==
  ASSUME NEW s \in Shapes, NEW i \in 1..MaxReqs
  PROVE  /\ Tokens(s, i) \in Seq(TokenType) /\ Len(Tokens(s, i)) = Len(Parts(s)) /\ Len(Parts(s)) \in Nat \ {0}
         /\ \A k \in 1..Len(Parts(s)) : /\ Tokens(s, i)[k].kind = Parts(s)[k]
                                        /\ Tokens(s, i)[k].of = i /\ Tokens(s, i)[k].at = k
<1>1. Parts(s) \in Seq(Kinds) /\ Len(Parts(s)) \in Nat
  BY PartsEnd, LenProperties
<1>2. PICK e : Ends(s, e)
  BY PartsEnd
<1>3. Len(Parts(s)) # 0
  BY <1>1, <1>2 DEF Ends
<1>4. ASSUME NEW k \in 1..Len(Parts(s)) PROVE [kind |-> Parts(s)[k], of |-> i, at |-> k] \in TokenType
  <2>1. Parts(s)[k] \in Kinds /\ k \in Nat
    BY <1>1, ElementOfSeq
  <2> QED
    BY <2>1 DEF TokenType
<1> DEFINE n == Len(Parts(s))
           t == [k \in 1..n |-> [kind |-> Parts(s)[k], of |-> i, at |-> k]]
<1>5. t \in [1..n -> TokenType]
  BY <1>4
<1>6. t \in Seq(TokenType) /\ Len(t) = n
  BY <1>1, <1>5
<1>7. Tokens(s, i) = t
  BY DEF Tokens
<1> QED
  BY <1>1, <1>3, <1>6, <1>7

\* One more request is sent.
LEMMA Appended ==
  ASSUME NEW S \in Seq(Shapes), NEW s \in Shapes
  PROVE  /\ Append(S, s) \in Seq(Shapes) /\ Len(S) \in Nat /\ Len(Append(S, s)) = Len(S) + 1
         /\ \A i \in 1..Len(S) : Append(S, s)[i] = S[i] /\ Extent(Append(S, s), i) = Extent(S, i)
         /\ Append(S, s)[Len(S) + 1] = s /\ Extent(Append(S, s), Len(S) + 1) = Len(Parts(s))
<1>1. /\ Append(S, s) \in Seq(Shapes) /\ Len(S) \in Nat /\ Len(Append(S, s)) = Len(S) + 1
      /\ \A i \in 1..Len(S) : Append(S, s)[i] = S[i]
      /\ Append(S, s)[Len(S) + 1] = s
  BY AppendProperties, LenProperties
<1> QED
  BY <1>1 DEF Extent

LEMMA SendInLine ==
  ASSUME NEW S \in Seq(Shapes), NEW q \in Seq(TokenType), NEW s \in Shapes, InLine(S, q),
         Len(S) + 1 \in 1..MaxReqs
  PROVE  InLine(Append(S, s), q \o Tokens(s, Len(S) + 1))
<1> DEFINE T == Append(S, s)
           t == Tokens(s, Len(S) + 1)
           x == Len(Parts(s))
           p == q \o t
<1>1. /\ T \in Seq(Shapes) /\ Len(S) \in Nat /\ Len(T) = Len(S) + 1
      /\ \A i \in 1..Len(S) : T[i] = S[i] /\ Extent(T, i) = Extent(S, i)
      /\ T[Len(S) + 1] = s /\ Extent(T, Len(S) + 1) = x
  BY Appended
<1>2. /\ t \in Seq(TokenType) /\ Len(t) = x /\ x \in Nat \ {0}
      /\ \A k \in 1..x : t[k].kind = Parts(s)[k] /\ t[k].of = Len(S) + 1 /\ t[k].at = k
  BY TokensType
<1> HIDE DEF T, t, x
<1>3. /\ p \in Seq(TokenType) /\ Len(q) \in Nat /\ Len(p) = Len(q) + x
      /\ \A m \in 1..Len(q) : p[m] = q[m]
      /\ \A m \in Len(q)+1..Len(q)+x : p[m] = t[m - Len(q)]
  <2>1. t \in Seq(TokenType) /\ Len(t) = x
    BY <1>2
  <2>2. /\ p \in Seq(TokenType) /\ Len(q) \in Nat /\ Len(p) = Len(q) + Len(t)
        /\ \A m \in 1..Len(q) : p[m] = q[m]
        /\ \A m \in Len(q)+1..Len(q)+Len(t) : p[m] = t[m - Len(q)]
    BY <2>1, Joined
  <2> HIDE DEF p
  <2> QED
    BY <2>1, <2>2
<1> HIDE DEF p
<1>4. ASSUME NEW j \in 1..x PROVE p[Len(q) + j] = t[j]
  <2>1. PICK m : m = Len(q) + j
    OBVIOUS
  <2>2. m \in Len(q)+1..Len(q)+x /\ m - Len(q) = j
    BY <1>2, <1>3, <2>1
  <2> QED
    BY <1>3, <2>1, <2>2
<1>5. ASSUME NEW j \in 1..Len(q) PROVE InPlace(T, p, j)
  <2> DEFINE i == q[j].of
             k == q[j].at
             y == Extent(S, i)
  <2>1. InPlace(S, q, j) /\ p[j] = q[j]
    BY <1>3 DEF InLine
  <2>2. /\ i \in 1..Len(S) /\ k \in 1..y /\ p[j].kind = Parts(S[i])[k]
        /\ \A m \in k..y : j + m - k <= Len(q) /\ q[j + m - k].of = i /\ q[j + m - k].at = m
        /\ i = Len(S) => j + y - k + 1 = Len(q) + 1
        /\ i # Len(S) => j + y - k + 1 <= Len(q) /\ q[j + y - k + 1].of = i + 1 /\ q[j + y - k + 1].at = 1
    BY <2>1 DEF InPlace
  <2>3. y \in Nat
    BY <2>2, ExtentType
  <2>4. T[i] = S[i] /\ Extent(T, i) = y /\ i # Len(T)
    BY <1>1, <2>2
  <2> HIDE DEF i, k, y
  <2>5. ASSUME NEW m \in k..y PROVE j + m - k <= Len(p) /\ p[j + m - k].of = i /\ p[j + m - k].at = m
    <3>1. j \in Nat /\ k \in Nat /\ m \in Nat /\ j >= 1 /\ k <= m
      BY <1>3, <2>2, <2>3
    <3>2. j + m - k <= Len(q)
      BY <2>2
    <3>3. j + m - k \in 1..Len(q)
      BY <1>3, <3>1, <3>2
    <3>4. PICK n \in 1..Len(q) : n = j + m - k
      BY <3>3
    <3>5. p[n] = q[n] /\ n <= Len(p)
      BY <1>2, <1>3, <3>4
    <3> QED
      BY <2>2, <3>4, <3>5
  <2>6. j + y - k + 1 <= Len(p) /\ p[j + y - k + 1].of = i + 1 /\ p[j + y - k + 1].at = 1
    <3>1. CASE i = Len(S)
      <4>1. j + y - k + 1 = Len(q) + 1 /\ 1 \in 1..x
        BY <1>2, <2>2, <3>1
      <4>2. p[Len(q) + 1] = t[1]
        BY <1>4, <4>1
      <4>3. t[1].of = Len(S) + 1 /\ t[1].at = 1
        BY <1>2, <4>1
      <4>4. Len(q) + 1 <= Len(p)
        BY <1>2, <1>3
      <4> QED
        BY <3>1, <4>1, <4>2, <4>3, <4>4
    <3>2. CASE i # Len(S)
      <4>1. PICK n : n = j + y - k + 1
        OBVIOUS
      <4>2. n <= Len(q) /\ q[n].of = i + 1 /\ q[n].at = 1
        BY <2>2, <3>2, <4>1
      <4>3. n \in 1..Len(q)
        BY <1>3, <2>2, <2>3, <4>1, <4>2
      <4>4. p[n] = q[n] /\ n <= Len(p)
        BY <1>2, <1>3, <4>3
      <4> QED
        BY <4>1, <4>2, <4>4
    <3> QED
      BY <3>1, <3>2
  <2>7. p[j].of = i /\ p[j].at = k /\ i \in 1..Len(T)
    BY <1>1, <2>1, <2>2 DEF i, k
  <2> QED
    BY <2>2, <2>4, <2>5, <2>6, <2>7 DEF InPlace
<1>6. ASSUME NEW k \in 1..x PROVE InPlace(T, p, Len(q) + k)
  <2>1. PICK j : j = Len(q) + k
    OBVIOUS
  <2>2. p[j].kind = Parts(s)[k] /\ p[j].of = Len(T) /\ p[j].at = k
    BY <1>1, <1>2, <1>4, <2>1
  <2>3. /\ Len(T) \in 1..Len(T) /\ T[Len(T)] = s /\ Extent(T, Len(T)) = x
        /\ j + x - k + 1 = Len(p) + 1
    BY <1>1, <1>2, <1>3, <2>1
  <2>4. ASSUME NEW m \in k..x
        PROVE j + m - k <= Len(p) /\ p[j + m - k].of = Len(T) /\ p[j + m - k].at = m
    <3>1. m \in 1..x /\ j + m - k = Len(q) + m /\ j + m - k <= Len(p)
      BY <1>2, <1>3, <2>1
    <3>2. p[Len(q) + m].of = Len(S) + 1 /\ p[Len(q) + m].at = m
      BY <1>2, <1>4, <3>1
    <3> QED
      BY <1>1, <3>1, <3>2
  <2>5. InPlace(T, p, j)
    BY <2>2, <2>3, <2>4 DEF InPlace
  <2> QED
    BY <2>1, <2>5
<1>7. ASSUME NEW j \in 1..Len(p) PROVE InPlace(T, p, j)
  <2>1. CASE j <= Len(q)
    BY <1>3, <1>5, <2>1
  <2>2. CASE j > Len(q)
    <3>1. PICK k : k = j - Len(q)
      OBVIOUS
    <3>2. k \in 1..x /\ j = Len(q) + k
      BY <1>2, <1>3, <2>2, <3>1
    <3> QED
      BY <1>6, <3>2
  <2> QED
    BY <1>3, <2>1, <2>2
<1>8. InLine(T, p)
  BY <1>7 DEF InLine
<1> QED
  BY <1>8 DEF T, p, t

LEMMA SendStarts ==
  ASSUME NEW S \in Seq(Shapes), NEW q \in Seq(TokenType), NEW s \in Shapes,
         Len(S) + 1 \in 1..MaxReqs, NEW i, NEW k, Starts(S, q, i, k)
  PROVE  Starts(Append(S, s), q \o Tokens(s, Len(S) + 1), i, k)
<1> DEFINE t == Tokens(s, Len(S) + 1)
           p == q \o t
<1>1. t \in Seq(TokenType) /\ Len(t) \in Nat \ {0} /\ t[1].of = Len(S) + 1 /\ t[1].at = 1
  BY TokensType
<1> HIDE DEF t
<1>2. /\ Len(q) \in Nat /\ Len(p) = Len(q) + Len(t)
      /\ \A m \in 1..Len(q) : p[m] = q[m]
      /\ \A m \in Len(q)+1..Len(q)+Len(t) : p[m] = t[m - Len(q)]
  BY <1>1, Joined
<1> HIDE DEF p
<1>3. Len(p) # 0 /\ p # << >>
  BY <1>1, <1>2
<1>4. CASE q = << >>
  <2>1. Len(q) = 0 /\ i = Len(S) + 1 /\ k = 1
    BY <1>4 DEF Starts
  <2>2. p[1] = t[1]
    BY <1>1, <1>2, <2>1
  <2> QED
    BY <1>1, <1>3, <2>1, <2>2 DEF Starts, p, t
<1>5. CASE q # << >>
  <2>1. Len(q) # 0 /\ q[1].of = i /\ q[1].at = k
    BY <1>5, EmptySeq DEF Starts
  <2>2. p[1] = q[1]
    BY <1>2, <2>1
  <2> QED
    BY <1>3, <2>1, <2>2 DEF Starts, p, t
<1> QED
  BY <1>4, <1>5

-----------------------------------------------------------------------------
(* Types                                                                   *)

LEMMA RequestFields ==
  ASSUME request \in RequestType
  PROVE  /\ request.line \in 0..MaxReqs /\ request.connection \in 0..MaxReqs /\ request.length \in 0..MaxReqs
         /\ request.contentLength \in Nat /\ request.content \in 0..MaxReqs
BY DEF RequestType

LEMMA CurrentType == TypeOK => Current \in Nat \ {0} /\ Len(answers) \in Nat /\ Len(sent) \in Nat
<1> SUFFICES ASSUME TypeOK PROVE Current \in Nat \ {0} /\ Len(answers) \in Nat /\ Len(sent) \in Nat
  OBVIOUS
<1>1. Len(answers) \in Nat /\ Len(sent) \in Nat
  BY LenProperties DEF TypeOK
<1> QED
  BY <1>1 DEF Current

\* A part of the request is replaced by a number in the right range.
LEMMA RequestWith ==
  ASSUME request \in RequestType
  PROVE  /\ \A i \in 0..MaxReqs : /\ [request EXCEPT !.line = i] \in RequestType
                                  /\ [request EXCEPT !.content = i] \in RequestType
                                  /\ [request EXCEPT !["connection"] = i] \in RequestType
                                  /\ [request EXCEPT !["length"] = i] \in RequestType
         /\ \A n \in Nat : [request EXCEPT !.contentLength = n] \in RequestType
BY DEF RequestType

LEMMA ResetType == ASSUME request \in RequestType PROVE Reset(request) \in RequestType
<1>1. MaxReqs \in Nat
  BY HttpAssumption
<1>2. NewRequest \in RequestType
  BY <1>1 DEF NewRequest, Nobody, RequestType
<1>3. \A r \in RequestType, i \in 0..MaxReqs, n \in Nat :
        [r EXCEPT !.content = i, !.contentLength = n] \in RequestType
  BY DEF RequestType
<1> QED
  BY <1>2, <1>3, RequestFields DEF Reset

LEMMA HttpInitType == Init => TypeOK
<1>1. MaxReqs \in Nat
  BY HttpAssumption
<1>2. NewRequest \in RequestType
  BY <1>1 DEF NewRequest, Nobody, RequestType
<1> SUFFICES ASSUME Init PROVE TypeOK
  OBVIOUS
<1>3. /\ sent = << >> /\ ahead = {} /\ wire = << >> /\ buf = << >> /\ handled = << >> /\ answers = << >>
      /\ busy \in BOOLEAN /\ open \in BOOLEAN /\ aborted \in BOOLEAN /\ state = "line" /\ request \in RequestType
  BY <1>2 DEF Init, Fresh
<1>4. Len(sent) <= MaxReqs
  BY <1>1, <1>3
<1> QED
  BY <1>3, <1>4 DEF TypeOK

\* What Reject() does to the types of the variables it changes.
LEMMA RejectType ==
  ASSUME TypeOK, NEW i \in 1..MaxReqs, Reject(i), buf' \in Seq(TokenType), request' \in RequestType, UNCHANGED state
  PROVE  TypeOK'
<1>1. answers' \in Seq(1..MaxReqs)
  <2>1. CASE open
    BY <2>1, AppendProperties DEF Reject, TypeOK
  <2>2. CASE ~open
    BY <2>2 DEF Reject, TypeOK
  <2> QED
    BY <2>1, <2>2
<1> QED
  BY <1>1 DEF TypeOK, Reject, clientVars

LEMMA ContinueType ==
  ASSUME TypeOK, Continue, buf' \in Seq(TokenType), request' \in RequestType,
         state' \in {"line", "headers", "body", "gotAll"}
  PROVE  TypeOK'
BY DEF TypeOK, Continue, clientVars, logVars

LEMMA WaitType ==
  ASSUME TypeOK, busy' \in BOOLEAN, aborted' \in BOOLEAN, UNCHANGED <<clientVars, buf, parseVars, open, logVars>>
  PROVE  TypeOK'
BY DEF TypeOK, clientVars, parseVars, logVars

LEMMA PopType == ASSUME TypeOK, buf # << >>, Pop PROVE buf' \in Seq(TokenType)
BY DEF TypeOK, Pop

\* The number that is converted is the length of a request that was sent.
LEMMA LengthIsSent ==
  ASSUME TypeOK, Bounds, LengthHeader = "number"
  PROVE  /\ request.length # Nobody /\ sent[request.length] \in Shapes
         /\ sent[request.length].header = "number" /\ sent[request.length].length \in Int
         /\ Unsigned(sent[request.length].length) \in Nat
<1>1. request.length # Nobody /\ sent[request.length].header = "number"
  BY DEF LengthHeader
<1>2. request.length \in 1..Len(sent) /\ sent \in Seq(Shapes)
  BY <1>1, RequestFields, CurrentType DEF TypeOK, Bounds, Nobody
<1>3. sent[request.length] \in Shapes
  BY <1>2, ElementOfSeq
<1> QED
  BY <1>1, <1>3, ShapeFacts

LEMMA SendStream ==
  ASSUME TypeOK, NEW s \in Shapes, Len(sent) + 1 \in 1..MaxReqs, buf' = buf,
         wire' = wire \o Tokens(s, Len(sent) + 1)
  PROVE  Stream' = Stream \o Tokens(s, Len(sent) + 1) /\ Stream \in Seq(TokenType)
<1>1. Tokens(s, Len(sent) + 1) \in Seq(TokenType) /\ Stream \in Seq(TokenType)
  BY TokensType, StreamType
<1>2. buf \in Seq(TokenType) /\ wire \in Seq(TokenType)
  BY DEF TypeOK
<1>3. PICK t \in Seq(TokenType) : t = Tokens(s, Len(sent) + 1)
  BY <1>1
<1>4. (buf \o wire) \o t = buf \o (wire \o t)
  BY <1>2, ConcatAssociative
<1> QED
  BY <1>1, <1>3, <1>4 DEF Stream

\* What is taken out of the stream leaves the bounds as they are.
LEMMA DropBounds ==
  ASSUME TypeOK, Bounds, NEW n, Drops(Stream, Stream', n), Len(buf') <= Len(buf), Len(buf') \in Nat,
         sent' = sent, request'.length <= Len(sent)
  PROVE  Bounds'
<1>1. Len(Stream) \in Nat /\ Len(Stream') = Len(Stream) - n /\ n \in 0..Len(Stream) /\ Len(buf) \in Nat
  BY StreamType DEF Drops
<1>2. \A j \in 1..Len(Stream') : j + n \in 1..Len(Stream) /\ Stream'[j] = Stream[j + n]
  BY <1>1 DEF Drops
<1>3. \A j \in 1..Len(Stream') : Stream'[j].of <= Len(sent')
  BY <1>2 DEF Bounds
<1>4. MaxBytes \in Nat
  BY HttpAssumption
<1> QED
  BY <1>1, <1>3, <1>4 DEF Bounds

LEMMA BoundsStep == TypeOK /\ BodyInv /\ Bounds /\ [Next]_vars => Bounds'
<1> SUFFICES ASSUME TypeOK, BodyInv, Bounds, [Next]_vars PROVE Bounds'
  OBVIOUS
<1>0. /\ sent \in Seq(Shapes) /\ Len(sent) \in Nat /\ MaxReqs \in Nat /\ MaxBytes \in Nat
      /\ buf \in Seq(TokenType) /\ wire \in Seq(TokenType) /\ Len(buf) \in Nat /\ Len(wire) \in Nat
      /\ request \in RequestType /\ request.length \in Nat /\ request.length <= Len(sent)
  BY HttpAssumption, CurrentType, RequestFields, StreamType DEF TypeOK, Bounds
<1>1. ASSUME NEW s \in Shapes, Send(s) PROVE Bounds'
  <2>1. /\ Len(sent) + 1 \in 1..MaxReqs /\ UNCHANGED <<buf, request>>
        /\ sent' = Append(sent, s) /\ wire' = wire \o Tokens(s, Len(sent) + 1)
    BY <1>0, <1>1 DEF Send, parseVars
  <2>2. Len(sent') = Len(sent) + 1
    BY <1>0, <2>1, Appended
  <2>3. PICK t \in Seq(TokenType) : t = Tokens(s, Len(sent) + 1)
    BY <2>1, TokensType
  <2>4. Len(t) \in Nat /\ \A k \in 1..Len(t) : t[k].of = Len(sent) + 1
    BY <2>1, <2>3, TokensType
  <2>5. Stream' = Stream \o t /\ Stream \in Seq(TokenType) /\ Len(Stream) \in Nat
    <3>1. Stream' = Stream \o Tokens(s, Len(sent) + 1)
      BY <2>1, SendStream
    <3> QED
      BY <2>3, <3>1, StreamType, LenProperties
  <2>6. /\ Len(Stream') = Len(Stream) + Len(t)
        /\ \A m \in 1..Len(Stream) : Stream'[m] = Stream[m]
        /\ \A m \in Len(Stream)+1..Len(Stream)+Len(t) : Stream'[m] = t[m - Len(Stream)]
    BY <2>5, Joined
  <2>7. ASSUME NEW m \in 1..Len(Stream') PROVE Stream'[m].of <= Len(sent')
    <3>1. CASE m \in 1..Len(Stream)
      <4>1. Stream[m].of <= Len(sent) /\ Stream[m].of \in Nat
        <5>1. Stream[m] \in TokenType
          BY <2>5, <3>1, ElementOfSeq
        <5>2. Stream[m].of \in 1..MaxReqs
          BY <5>1 DEF TokenType
        <5> QED
          BY <3>1, <5>2 DEF Bounds
      <4> QED
        BY <1>0, <2>2, <2>6, <3>1, <4>1
    <3>2. CASE m \in Len(Stream)+1..Len(Stream)+Len(t)
      <4>1. m - Len(Stream) \in 1..Len(t)
        BY <2>4, <2>5, <3>2
      <4>2. Stream'[m].of = Len(sent) + 1
        BY <2>4, <2>6, <3>2, <4>1
      <4> QED
        BY <1>0, <2>2, <4>2
    <3> QED
      BY <2>4, <2>5, <2>6, <3>1, <3>2
  <2> QED
    BY <1>0, <2>1, <2>2, <2>7 DEF Bounds
<1>2. ASSUME NEW n \in 1..Len(wire), Deliver(n) PROVE Bounds'
  <2>1. Stream' = Stream /\ UNCHANGED <<sent, request>> /\ buf' = buf \o SubSeq(wire, 1, n)
    BY <1>2, DeliverKeeps DEF Deliver, parseVars
  <2>2. Len(buf) + n <= MaxBytes /\ SubSeq(wire, 1, n) \in Seq(TokenType) /\ Len(SubSeq(wire, 1, n)) = n
    BY <1>0, <1>2 DEF Deliver
  <2>3. Len(buf') = Len(buf) + n
    BY <1>0, <2>1, <2>2, Joined
  <2> QED
    BY <2>1, <2>2, <2>3 DEF Bounds
<1>3. CASE Reconnect
  <2>1. sent' = << >> /\ wire' = << >> /\ buf' = << >> /\ request'.length = 0
    BY <1>3 DEF Reconnect, Fresh, NewRequest, Nobody
  <2>2. Stream' = << >>
    BY <2>1 DEF Stream
  <2> QED
    BY <1>0, <2>1, <2>2 DEF Bounds
\* The line is taken out.
<1>4. ASSUME buf # << >>, Pop, UNCHANGED <<sent, wire>>, request'.length <= Len(sent) PROVE Bounds'
  <2>1. Drops(Stream, Stream', 1)
    BY <1>4, PopDrops
  <2>2. Len(buf') <= Len(buf) /\ Len(buf') \in Nat
    BY <1>0, <1>4 DEF Pop
  <2> QED
    BY <1>4, <2>1, <2>2, DropBounds
<1>5. CASE RequestLine \/ NoBody \/ BodyFollows
  <2>1. buf # << >> /\ Pop /\ UNCHANGED <<sent, wire>>
    BY <1>5 DEF RequestLine, NoBody, BodyFollows, EndOfHeaders, Continue, clientVars
  <2>2. request'.length = request.length
    BY <1>0, <1>5 DEF RequestLine, NoBody, BodyFollows, RequestType
  <2> QED
    BY <1>0, <1>4, <2>1, <2>2
<1>6. CASE Header
  <2>1. /\ buf # << >> /\ Pop /\ UNCHANGED <<sent, wire>> /\ Line.kind \in {"connection", "length"}
        /\ request' = [request EXCEPT ![Line.kind] = Line.of]
    BY <1>6 DEF Header, Continue, clientVars
  <2>2. Line.of <= Len(sent)
    BY <2>1, LineIsFirst DEF Bounds
  <2>3. request'.length \in {request.length, Line.of}
    BY <1>0, <2>1 DEF RequestType
  <2> QED
    BY <1>0, <1>4, <2>1, <2>2, <2>3
<1>7. CASE BadHeader
  BY <1>0, <1>4, <1>7 DEF BadHeader, Reject, clientVars, parseVars
\* The buffer stays.
<1>8. ASSUME UNCHANGED <<sent, wire, buf>>, request'.length <= Len(sent) PROVE Bounds'
  BY <1>8 DEF Bounds, Stream
<1>9. CASE BadLength
  <2>1. buf # << >> /\ UNCHANGED <<sent, wire, request>> /\ (Pop \/ UNCHANGED buf)
    BY <1>9 DEF BadLength, EndOfHeaders, Reject, clientVars, parseVars
  <2> QED
    BY <1>0, <1>4, <1>8, <2>1
<1>10. CASE BadLine
  <2>1. UNCHANGED <<sent, wire, buf>> /\ request'.length = request.length
    BY <1>0, <1>10 DEF BadLine, Reject, clientVars, RequestType
  <2> QED
    BY <1>0, <1>8, <2>1
<1>11. CASE NeedLine \/ LineAsserts \/ NeedBody
  BY <1>0, <1>8, <1>11 DEF NeedLine, LineAsserts, NeedBody, clientVars, parseVars
<1>12. CASE Body
  <2>1. /\ request.contentLength \in 0..Len(buf) /\ UNCHANGED <<sent, wire>>
        /\ buf' = SubSeq(buf, request.contentLength + 1, Len(buf)) /\ request'.length = request.length
    BY <1>0, <1>12, RequestFields DEF Body, Continue, clientVars, RequestType
  <2>2. Drops(Stream, Stream', request.contentLength)
    BY <2>1, TakeDrops
  <2>3. Len(buf') <= Len(buf) /\ Len(buf') \in Nat
    <3>1. PICK n \in 0..Len(buf) : n = request.contentLength
      BY <2>1
    <3>2. buf' = SubSeq(buf, n + 1, Len(buf))
      BY <2>1, <3>1
    <3>3. Len(buf') = Len(buf) - n
      BY <1>0, <3>1, <3>2, SubSeqDrops DEF Drops
    <3> QED
      BY <1>0, <3>1, <3>3
  <2> QED
    BY <1>0, <2>1, <2>2, <2>3, DropBounds
<1>13. CASE OnRequest
  <2>1. UNCHANGED <<sent, wire, buf>> /\ request'.length = 0
    BY <1>13 DEF OnRequest, clientVars, Reset, NewRequest, Nobody
  <2> QED
    BY <1>0, <1>8, <2>1
<1>14. CASE UNCHANGED vars
  BY <1>0, <1>8, <1>14 DEF vars, clientVars, parseVars
<1> QED
  BY <1>1, <1>2, <1>3, <1>5, <1>6, <1>7, <1>9, <1>10, <1>11, <1>12, <1>13, <1>14
     DEF Next, Arrive, Parse, Dead

LEMMA HttpTypeStep == TypeOK /\ Bounds /\ BodyInv /\ ParserInv /\ [Next]_vars => TypeOK'
<1> SUFFICES ASSUME TypeOK, Bounds, BodyInv, ParserInv, [Next]_vars PROVE TypeOK'
  OBVIOUS
<1>0. /\ sent \in Seq(Shapes) /\ Len(sent) <= MaxReqs /\ ahead \subseteq 1..MaxReqs
      /\ wire \in Seq(TokenType) /\ buf \in Seq(TokenType)
      /\ request \in RequestType /\ open \in BOOLEAN
      /\ handled \in Seq([req : RequestType, open : BOOLEAN]) /\ answers \in Seq(1..MaxReqs)
      /\ MaxReqs \in Nat /\ Len(sent) \in Nat
  BY HttpAssumption, CurrentType DEF TypeOK
<1>1. ASSUME NEW s \in Shapes, Send(s) PROVE TypeOK'
  <2>1. Len(sent) + 1 \in 1..MaxReqs
    BY <1>0, <1>1 DEF Send
  <2>2. sent' \in Seq(Shapes) /\ Len(sent') <= MaxReqs
    BY <1>0, <1>1, <2>1, Appended DEF Send
  <2>3. wire' \in Seq(TokenType)
    BY <1>0, <1>1, <2>1, TokensType, Joined DEF Send
  <2>4. ahead' \subseteq 1..MaxReqs
    BY <1>0, <1>1, <2>1 DEF Send
  <2> QED
    BY <1>1, <2>2, <2>3, <2>4 DEF TypeOK, Send, parseVars, logVars
<1>2. ASSUME NEW n \in 1..Len(wire), Deliver(n) PROVE TypeOK'
  <2>1. buf' \in Seq(TokenType) /\ wire' \in Seq(TokenType)
    BY <1>2, DeliverKeeps
  <2> QED
    BY <1>2, <2>1 DEF TypeOK, Deliver, parseVars, logVars
<1>3. CASE Reconnect
  <2>1. NewRequest \in RequestType
    BY <1>0 DEF NewRequest, Nobody, RequestType
  <2> QED
    BY <1>0, <1>3, <2>1 DEF Reconnect, Fresh, TypeOK
<1>4. CASE NeedLine
  BY <1>4, WaitType DEF NeedLine, TypeOK
<1>5. CASE LineAsserts
  BY <1>5, WaitType DEF LineAsserts, TypeOK
<1>6. CASE RequestLine
  <2>1. Line.of \in 0..MaxReqs
    BY <1>0, <1>6, LineIsFirst DEF RequestLine
  <2>2. request' \in RequestType /\ buf' \in Seq(TokenType)
    BY <1>0, <1>6, <2>1, RequestWith, PopType DEF RequestLine
  <2> QED
    BY <1>6, <2>2, ContinueType DEF RequestLine
<1>7. CASE BadLine
  <2>1. Line.of \in 1..MaxReqs /\ Line.of \in 0..MaxReqs
    BY <1>0, <1>7, LineIsFirst DEF BadLine
  <2>2. request' \in RequestType
    <3>1. CASE Line.kind = "line"
      <4>1. request' = [request EXCEPT !.line = IF sent[Line.of].method \in Methods THEN Line.of ELSE @]
        BY <1>7, <3>1 DEF BadLine
      <4>2. request.line \in 0..MaxReqs
        BY <1>0, RequestFields
      <4> QED
        BY <1>0, <2>1, <4>1, <4>2, RequestWith
    <3>2. CASE Line.kind # "line"
      BY <1>0, <1>7, <3>2 DEF BadLine
    <3> QED
      BY <3>1, <3>2
  <2> QED
    BY <1>0, <1>7, <2>1, <2>2, RejectType DEF BadLine
<1>8. CASE Header
  <2>1. Line.of \in 0..MaxReqs /\ Line.kind \in {"connection", "length"}
    BY <1>0, <1>8, LineIsFirst DEF Header
  <2>2. request' \in RequestType
    BY <1>0, <1>8, <2>1, RequestWith DEF Header
  <2>3. buf' \in Seq(TokenType) /\ state' = state
    BY <1>8, PopType DEF Header
  <2> QED
    BY <1>8, <2>2, <2>3, ContinueType DEF Header, TypeOK
<1>9. CASE BadHeader
  <2>1. Line.of \in 1..MaxReqs /\ buf' \in Seq(TokenType)
    BY <1>0, <1>9, LineIsFirst, PopType DEF BadHeader
  <2> QED
    BY <1>0, <1>9, <2>1, RejectType DEF BadHeader, parseVars
<1>10. CASE NoBody
  <2>1. buf' \in Seq(TokenType)
    BY <1>10, PopType DEF NoBody, EndOfHeaders
  <2> QED
    BY <1>0, <1>10, <2>1, ContinueType DEF NoBody
<1>11. CASE BodyFollows
  <2>1. buf' \in Seq(TokenType)
    BY <1>11, PopType DEF BodyFollows, EndOfHeaders
  <2>2. request' \in RequestType
    BY <1>0, <1>11, RequestWith, LengthIsSent DEF BodyFollows
  <2> QED
    BY <1>11, <2>1, <2>2, ContinueType DEF BodyFollows
<1>12. CASE BadLength
  <2>1. Line.of \in 1..MaxReqs
    BY <1>12, LineIsFirst DEF BadLength, EndOfHeaders
  <2>2. buf' \in Seq(TokenType)
    BY <1>0, <1>12, PopType DEF BadLength, EndOfHeaders
  <2> QED
    BY <1>0, <1>12, <2>1, <2>2, RejectType DEF BadLength, parseVars
<1>13. CASE NeedBody
  BY <1>13, WaitType DEF NeedBody, TypeOK
<1>14. CASE Body
  <2>1. request.contentLength \in Nat \ {0} /\ request.contentLength <= Len(buf) /\ Len(buf) \in Nat
    BY <1>0, <1>14, RequestFields, LenProperties DEF Body, At, BodyInv
  <2>2. buf # << >>
    BY <2>1
  <2>3. Line.of \in 0..MaxReqs
    BY <1>0, <2>2, LineIsFirst
  <2>4. buf' \in Seq(TokenType)
    BY <1>0, <1>14, <2>1, SubSeqDrops DEF Body
  <2>5. request' \in RequestType
    BY <1>0, <1>14, <2>3, RequestWith DEF Body
  <2> QED
    BY <1>14, <2>4, <2>5, ContinueType DEF Body
<1>15. CASE OnRequest
  <2>1. handled' \in Seq([req : RequestType, open : BOOLEAN])
    <3>1. [req |-> request, open |-> open] \in [req : RequestType, open : BOOLEAN]
      BY <1>0
    <3> QED
      BY <1>0, <1>15, <3>1, AppendProperties DEF OnRequest
  <2>2. answers' \in Seq(1..MaxReqs)
    <3>1. CASE open
      <4>1. AtEnd(Current)
        BY <1>15, <3>1 DEF OnRequest, At, ParserInv, PlaceInv
      <4>2. request.line \in 1..MaxReqs
        BY <1>0, <4>1, CurrentType DEF AtEnd
      <4> QED
        BY <1>0, <1>15, <3>1, <4>2, AppendProperties DEF OnRequest
    <3>2. CASE ~open
      BY <1>0, <1>15, <3>2 DEF OnRequest
    <3> QED
      BY <3>1, <3>2
  <2>3. open' \in BOOLEAN /\ request' \in RequestType
    BY <1>0, <1>15, ResetType DEF OnRequest
  <2> QED
    BY <1>15, <2>1, <2>2, <2>3 DEF TypeOK, OnRequest, clientVars
<1>16. CASE UNCHANGED vars
  BY <1>16 DEF TypeOK, vars, clientVars, parseVars, logVars
<1> QED
  BY <1>1, <1>2, <1>3, <1>4, <1>5, <1>6, <1>7, <1>8, <1>9, <1>10, <1>11, <1>12, <1>13, <1>14, <1>15, <1>16
     DEF Next, Arrive, Parse, Dead

-----------------------------------------------------------------------------
(* The steps                                                               *)

HttpRest == BodyInv /\ ParserInv /\ AnswersInOrder /\ HandledInv

\* Neither the stream nor what the parser keeps changes.
LEMMA NothingRead ==
  ASSUME HttpRest, Stream' = Stream, UNCHANGED <<sent, state, request, open, handled, answers>>
  PROVE  HttpRest'
<1>1. Current' = Current
  BY DEF Current
<1>2. PlaceInv => PlaceInv'
  BY <1>1 DEF PlaceInv, AtLine, AtHeaders, AtBody, Stuck, AtEnd, Stored, Seen, Together, OwnBody
<1>3. HandledInv'
  BY DEF HttpRest, HandledInv, Together, OwnBody
<1> QED
  BY <1>2, <1>3 DEF HttpRest, BodyInv, ParserInv, AnswersInOrder

\* The histories do not change.
LEMMA LogsKept ==
  ASSUME HttpRest, UNCHANGED <<sent, handled, answers>>
  PROVE  AnswersInOrder' /\ HandledInv' /\ Current' = Current
BY DEF HttpRest, AnswersInOrder, HandledInv, Together, OwnBody, Current

\* One more answer, the right one.
LEMMA OneMoreAnswer ==
  ASSUME TypeOK, AnswersInOrder, answers' = Append(answers, Current)
  PROVE  AnswersInOrder' /\ Len(answers') = Len(answers) + 1
<1>1. answers \in Seq(Nat) /\ Current \in Nat /\ Len(answers) \in Nat /\ Current = Len(answers) + 1
  <2>1. 1..MaxReqs \subseteq Nat
    BY HttpAssumption
  <2> QED
    BY <2>1, CurrentType, SeqMonotonic DEF TypeOK, Current
<1>2. /\ Len(answers') = Len(answers) + 1 /\ answers'[Len(answers) + 1] = Current
      /\ \A i \in 1..Len(answers) : answers'[i] = answers[i]
  BY <1>1, AppendProperties
<1> QED
  BY <1>1, <1>2 DEF AnswersInOrder

\* What the parser looks at, if part k of request i comes next.
LEMMA Peek ==
  ASSUME TypeOK, InLine(sent, Stream), buf # << >>, NEW i, NEW k, Starts(sent, Stream, i, k)
  PROVE  /\ i \in 1..Len(sent) /\ sent[i] \in Shapes /\ Extent(sent, i) \in Nat \ {0}
         /\ k \in 1..Extent(sent, i) /\ Line.of = i /\ Line.kind = Parts(sent[i])[k]
<1>1. Line = Stream[1] /\ Stream # << >> /\ Len(Stream) \in Nat \ {0}
  BY LineIsFirst
<1>2. Stream[1].of = i /\ Stream[1].at = k /\ InPlace(sent, Stream, 1)
  BY <1>1 DEF Starts, InLine
<1>3. i \in 1..Len(sent) /\ k \in 1..Extent(sent, i) /\ Line.kind = Parts(sent[i])[k]
  BY <1>1, <1>2 DEF InPlace
<1>4. sent[i] \in Shapes /\ Extent(sent, i) \in Nat \ {0}
  BY <1>3, ExtentType DEF TypeOK
<1> QED
  BY <1>1, <1>2, <1>3, <1>4

\* The line is taken out.
LEMMA Popped ==
  ASSUME TypeOK, InLine(sent, Stream), buf # << >>, Pop, wire' = wire, sent' = sent,
         NEW i, NEW k, Starts(sent, Stream, i, k)
  PROVE  /\ InLine(sent', Stream')
         /\ k < Extent(sent, i) => Starts(sent', Stream', i, k + 1)
         /\ k = Extent(sent, i) => Starts(sent', Stream', i + 1, 1)
<1>1. buf' \in Seq(TokenType) /\ Drops(Stream, Stream', 1)
  BY PopDrops
<1>2. Stream' \in Seq(TokenType)
  <2>1. wire \in Seq(TokenType)
    BY DEF TypeOK
  <2>2. buf' \o wire \in Seq(TokenType)
    BY <1>1, <2>1, Joined
  <2> QED
    BY <2>2 DEF Stream
<1>3. Stream \in Seq(TokenType) /\ Stream # << >> /\ sent \in Seq(Shapes)
  BY StreamType, LineIsFirst DEF TypeOK
<1>4. PICK p, r : p = Stream /\ r = Stream'
  OBVIOUS
<1>5. InLine(sent, r)
  BY <1>1, <1>2, <1>3, <1>4, DropInLine
<1>6. (k < Extent(sent, i) => Starts(sent, r, i, k + 1)) /\ (k = Extent(sent, i) => Starts(sent, r, i + 1, 1))
  BY <1>1, <1>2, <1>3, <1>4, DropFirst
<1> QED
  BY <1>4, <1>5, <1>6

\* The next line of an open connection belongs to the request after the last answered.
LEMMA LineIsCurrent ==
  ASSUME TypeOK, ParserInv, open, buf # << >>, state \in {"line", "headers"}
  PROVE  Line.of = Current
<1>1. InLine(sent, Stream) /\ PlaceInv
  BY DEF ParserInv
<1>2. PICK k : Starts(sent, Stream, Current, k)
  BY <1>1 DEF PlaceInv, AtLine, AtHeaders
<1> QED
  BY <1>1, <1>2, Peek

LEMMA RejectStep ==
  ASSUME TypeOK, HttpRest, state \in {"line", "headers"}, buf # << >>, Reject(Line.of), UNCHANGED state
  PROVE  HttpRest'
<1>1. ~open' /\ UNCHANGED <<sent, handled>>
  BY DEF Reject, clientVars
<1>2. AnswersInOrder'
  <2>1. CASE open
    <3>1. answers' = Append(answers, Current)
      BY <2>1, LineIsCurrent DEF Reject, HttpRest
    <3> QED
      BY <3>1, OneMoreAnswer DEF HttpRest
  <2>2. CASE ~open
    BY <2>2 DEF Reject, HttpRest, AnswersInOrder
  <2> QED
    BY <2>1, <2>2
<1>3. HandledInv'
  BY <1>1 DEF HttpRest, HandledInv, Together, OwnBody
<1>4. BodyInv'
  BY DEF BodyInv
<1> QED
  BY <1>1, <1>2, <1>3, <1>4 DEF HttpRest, ParserInv

LEMMA RequestLineStep ==
  ASSUME TypeOK, HttpRest, RequestLine PROVE HttpRest'
<1>1. /\ buf # << >> /\ state = "line" /\ state' = "headers" /\ Pop
      /\ request' = [request EXCEPT !.line = Line.of] /\ request \in RequestType
      /\ UNCHANGED <<wire, sent, open, handled, answers>>
  BY DEF RequestLine, At, Continue, clientVars, logVars, TypeOK
<1>2. AnswersInOrder' /\ HandledInv' /\ Current' = Current
  BY <1>1, LogsKept
<1>3. ASSUME open PROVE InLine(sent, Stream)' /\ AtHeaders(Current)'
  <2>0. PICK i : i = Current
    OBVIOUS
  <2>1. InLine(sent, Stream) /\ AtLine(i)
    BY <1>1, <1>3, <2>0 DEF HttpRest, ParserInv, PlaceInv
  <2>2. /\ i \in 1..Len(sent) /\ sent[i] \in Shapes /\ Extent(sent, i) \in Nat \ {0}
        /\ Line.of = i
    BY <1>1, <2>1, Peek DEF AtLine
  <2>3. PICK e : Ends(sent[i], e)
    BY <2>2, PartsEnd
  <2>4. 1 < Extent(sent, i) /\ Parts(sent[i])[1] = "line" /\ 2 \in 2..Extent(sent, i)
    BY <2>2, <2>3 DEF Ends, Extent
  <2>5. InLine(sent', Stream') /\ Starts(sent', Stream', i, 2)
    <3>1. Starts(sent, Stream, i, 1)
      BY <2>1 DEF AtLine
    <3> QED
      BY <1>1, <2>1, <2>4, <3>1, Popped
  <2>6. request'.line = i /\ request'.connection = Nobody /\ request'.length = Nobody
    BY <1>1, <2>1, <2>2 DEF AtLine, RequestType
  <2>7. \A kind \in {"connection", "length", "empty"} : ~Seen(i, 2, kind)'
    BY <1>1, <2>4 DEF Seen
  <2>8. Stored(i, 2)' /\ ~Seen(i, 2, "empty")'
    BY <2>6, <2>7 DEF Stored
  <2>9. i <= Len(sent') /\ 2 \in 2..Extent(sent', i) /\ Current' = i
    BY <1>1, <1>2, <2>0, <2>2, <2>4
  <2> QED
    BY <2>5, <2>6, <2>8, <2>9 DEF AtHeaders
<1>4. BodyInv'
  BY <1>1 DEF BodyInv
<1>5. ParserInv'
  BY <1>1, <1>3 DEF ParserInv, PlaceInv
<1> QED
  BY <1>2, <1>4, <1>5 DEF HttpRest

\* Reading headers: how far the parser is before the empty line.
LEMMA AmongHeaders ==
  ASSUME TypeOK, InLine(sent, Stream), buf # << >>, NEW i, NEW k \in 2..Extent(sent, i),
         Starts(sent, Stream, i, k), ~Seen(i, k, "empty")
  PROVE  \E e : /\ Ends(sent[i], e) /\ k <= e /\ e \in 1..Extent(sent, i)
                /\ k = e <=> Line.kind = "empty"
<1>1. /\ i \in 1..Len(sent) /\ sent[i] \in Shapes /\ Extent(sent, i) \in Nat \ {0}
      /\ Line.kind = Parts(sent[i])[k]
  BY Peek
<1>2. PICK e : Ends(sent[i], e)
  BY <1>1, PartsEnd
<1>3. e \in 1..Extent(sent, i) /\ Parts(sent[i])[e] = "empty"
  BY <1>2 DEF Ends, Extent
<1>4. e \notin 1..k-1
  BY <1>3 DEF Seen
<1>5. k <= e
  BY <1>1, <1>3, <1>4
<1>6. k = e <=> Line.kind = "empty"
  <2>1. k < e => k \in 2..e-1
    BY <1>1, <1>3
  <2>2. k < e => Parts(sent[i])[k] \in {"connection", "junk", "length"}
    BY <1>2, <2>1 DEF Ends
  <2> QED
    BY <1>1, <1>3, <1>5, <2>2
<1> QED
  BY <1>2, <1>3, <1>5, <1>6

LEMMA HeaderStep ==
  ASSUME TypeOK, HttpRest, Header PROVE HttpRest'
<1>1. /\ buf # << >> /\ state = "headers" /\ state' = "headers" /\ Pop
      /\ Line.kind \in {"connection", "length"}
      /\ request' = [request EXCEPT ![Line.kind] = Line.of] /\ request \in RequestType
      /\ UNCHANGED <<wire, sent, open, handled, answers>>
  BY DEF Header, At, Continue, clientVars, logVars, TypeOK
<1>2. AnswersInOrder' /\ HandledInv' /\ Current' = Current
  BY <1>1, LogsKept
<1>3. ASSUME open PROVE InLine(sent, Stream)' /\ AtHeaders(Current)'
  <2>0. PICK i : i = Current
    OBVIOUS
  <2>1. InLine(sent, Stream) /\ i <= Len(sent) /\ request.line = i
    BY <1>1, <1>3, <2>0 DEF HttpRest, ParserInv, PlaceInv, AtHeaders
  <2>2. PICK k \in 2..Extent(sent, i) : Starts(sent, Stream, i, k) /\ Stored(i, k) /\ ~Seen(i, k, "empty")
    BY <1>1, <1>3, <2>0 DEF HttpRest, ParserInv, PlaceInv, AtHeaders
  <2>3. /\ i \in 1..Len(sent) /\ Extent(sent, i) \in Nat \ {0}
        /\ Line.of = i /\ Line.kind = Parts(sent[i])[k]
    BY <1>1, <2>1, <2>2, Peek
  <2>4. PICK e : k <= e /\ e \in 1..Extent(sent, i) /\ (k = e <=> Line.kind = "empty")
    BY <1>1, <2>1, <2>2, AmongHeaders
  <2>5. k < Extent(sent, i) /\ k + 1 \in 2..Extent(sent, i)
    BY <1>1, <2>3, <2>4
  <2>6. InLine(sent', Stream') /\ Starts(sent', Stream', i, k + 1)
    BY <1>1, <2>1, <2>2, <2>5, Popped
  <2>7. ASSUME NEW kind PROVE Seen(i, k + 1, kind)' <=> Seen(i, k, kind) \/ Line.kind = kind
    <3>1. 1..(k + 1)-1 = (1..k-1) \cup {k}
      BY <2>3
    <3> QED
      BY <1>1, <2>3, <3>1 DEF Seen
  <2>8. /\ request'.line = i
        /\ request'.connection = (IF Line.kind = "connection" THEN i ELSE request.connection)
        /\ request'.length = (IF Line.kind = "length" THEN i ELSE request.length)
    BY <1>1, <2>1, <2>3 DEF RequestType
  <2>9. Stored(i, k + 1)'
    BY <2>2, <2>7, <2>8 DEF Stored
  <2>10. ~Seen(i, k + 1, "empty")'
    BY <1>1, <2>2, <2>7
  <2>11. i <= Len(sent') /\ k + 1 \in 2..Extent(sent', i) /\ Current' = i
    BY <1>1, <1>2, <2>0, <2>1, <2>5
  <2> QED
    BY <2>6, <2>8, <2>9, <2>10, <2>11 DEF AtHeaders
<1>4. BodyInv'
  BY <1>1 DEF BodyInv
<1>5. ParserInv'
  BY <1>1, <1>3 DEF ParserInv, PlaceInv
<1> QED
  BY <1>2, <1>4, <1>5 DEF HttpRest

\* The empty line: all headers of the request have been stored, and what is left of
\* it is its body.
LEMMA HeadersEnd ==
  ASSUME TypeOK, ParserInv, EndOfHeaders, open, NEW i, i = Current
  PROVE  /\ InLine(sent, Stream) /\ i \in 1..Len(sent) /\ request.line = i /\ Together(request)
         /\ \E k \in 1..Extent(sent, i) :
              /\ Starts(sent, Stream, i, k)
              /\ Extent(sent, i) = k + (IF HasBody(sent[i]) THEN sent[i].length ELSE 0)
              /\ Extent(sent, i) \in Nat
<1>1. /\ buf # << >> /\ state = "headers" /\ Line.kind = "empty"
  BY DEF EndOfHeaders, At
<1>2. InLine(sent, Stream) /\ i <= Len(sent) /\ request.line = i
  BY <1>1 DEF ParserInv, PlaceInv, AtHeaders
<1>3. PICK k \in 2..Extent(sent, i) : Starts(sent, Stream, i, k) /\ Stored(i, k) /\ ~Seen(i, k, "empty")
  BY <1>1 DEF ParserInv, PlaceInv, AtHeaders
<1>4. i \in 1..Len(sent) /\ Extent(sent, i) \in Nat /\ k \in 1..Extent(sent, i)
  BY <1>1, <1>2, <1>3, Peek
<1>5. PICK e : Ends(sent[i], e) /\ (k = e <=> Line.kind = "empty")
  BY <1>1, <1>2, <1>3, AmongHeaders
<1>6. Ends(sent[i], k)
  BY <1>1, <1>5
<1>7. /\ Seen(i, k, "connection") <=> sent[i].connection # "none"
      /\ Seen(i, k, "length") <=> sent[i].header # "none"
      /\ Extent(sent, i) = k + (IF HasBody(sent[i]) THEN sent[i].length ELSE 0)
  BY <1>6 DEF Ends, Seen, Extent
<1>8. Together(request)
  BY <1>2, <1>3, <1>7 DEF Stored, Together
<1> QED
  BY <1>2, <1>3, <1>4, <1>7, <1>8

LEMMA NoBodyStep ==
  ASSUME TypeOK, HttpRest, NoBody PROVE HttpRest'
<1>1. /\ EndOfHeaders /\ buf # << >> /\ ~ExpectsBody /\ state' = "gotAll" /\ Pop
      /\ UNCHANGED <<wire, sent, request, open, handled, answers>>
  BY DEF NoBody, EndOfHeaders, Continue, clientVars, logVars
<1>2. AnswersInOrder' /\ HandledInv' /\ Current' = Current
  BY <1>1, LogsKept
<1>3. ASSUME open PROVE InLine(sent, Stream)' /\ AtEnd(Current)'
  <2>1. PICK i : i = Current
    OBVIOUS
  <2>2. InLine(sent, Stream) /\ i \in 1..Len(sent) /\ request.line = i /\ Together(request)
    BY <1>1, <1>3, <2>1, HeadersEnd DEF HttpRest
  <2>3. PICK k \in 1..Extent(sent, i) :
          /\ Starts(sent, Stream, i, k) /\ Extent(sent, i) \in Nat
          /\ Extent(sent, i) = k + (IF HasBody(sent[i]) THEN sent[i].length ELSE 0)
    BY <1>1, <1>3, <2>1, HeadersEnd DEF HttpRest
  <2>4. ~HasBody(sent[i])
    BY <1>1, <2>2 DEF ExpectsBody, MethodOf, HasBody
  <2>5. k = Extent(sent, i)
    BY <2>3, <2>4
  <2>6. InLine(sent', Stream') /\ Starts(sent', Stream', i + 1, 1)
    BY <1>1, <2>2, <2>3, <2>5, Popped
  <2>7. Together(request)' /\ OwnBody(request)'
    BY <1>1, <2>2, <2>4 DEF Together, OwnBody
  <2>8. i <= Len(sent') /\ request'.line = i /\ Current' = i
    BY <1>1, <1>2, <2>1, <2>2, CurrentType
  <2> QED
    BY <2>6, <2>7, <2>8 DEF AtEnd
<1>4. BodyInv'
  BY <1>1 DEF BodyInv
<1>5. ParserInv'
  BY <1>1, <1>3 DEF ParserInv, PlaceInv
<1> QED
  BY <1>2, <1>4, <1>5 DEF HttpRest

LEMMA BodyFollowsStep ==
  ASSUME TypeOK, Bounds, HttpRest, BodyFollows PROVE HttpRest'
<1>0. PICK n : n = sent[request.length].length
  OBVIOUS
<1>1. /\ EndOfHeaders /\ buf # << >> /\ ExpectsBody /\ LengthHeader = "number" /\ Pop
      /\ request' = [request EXCEPT !.contentLength = Unsigned(n)] /\ request \in RequestType
      /\ state' = IF request'.contentLength > 0 THEN "body" ELSE "gotAll"
      /\ UNCHANGED <<wire, sent, open, handled, answers>>
  BY <1>0 DEF BodyFollows, EndOfHeaders, Continue, clientVars, logVars, TypeOK
<1>2. AnswersInOrder' /\ HandledInv' /\ Current' = Current
  BY <1>1, LogsKept
<1>3. /\ request'.contentLength = Unsigned(n) /\ request'.line = request.line
      /\ request'.connection = request.connection /\ request'.length = request.length
  BY <1>1 DEF RequestType
<1>4. /\ request.length # Nobody /\ sent[request.length].header = "number"
      /\ n \in Int /\ Unsigned(n) \in Nat
      /\ n < 0 => MaxBytes < Unsigned(n) /\ Unsigned(n) # 0
      /\ n >= 0 => Unsigned(n) = n
  BY <1>0, <1>1, LengthIsSent, ShapeFacts
<1>s. state' = IF n = 0 THEN "gotAll" ELSE "body"
  BY <1>1, <1>3, <1>4
<1>5. ASSUME open PROVE /\ InLine(sent, Stream)' /\ (n = 0 => AtEnd(Current)')
                        /\ (n > 0 => AtBody(Current)') /\ (n < 0 => Stuck')
  <2>1. PICK i : i = Current
    OBVIOUS
  <2>2. InLine(sent, Stream) /\ i \in 1..Len(sent) /\ request.line = i /\ Together(request)
    BY <1>1, <1>5, <2>1, HeadersEnd DEF HttpRest
  <2>3. PICK k \in 1..Extent(sent, i) :
          /\ Starts(sent, Stream, i, k) /\ Extent(sent, i) \in Nat
          /\ Extent(sent, i) = k + (IF HasBody(sent[i]) THEN sent[i].length ELSE 0)
    BY <1>1, <1>5, <2>1, HeadersEnd DEF HttpRest
  <2>4. n = sent[i].length /\ sent[i].header = "number"
    BY <1>0, <1>4, <2>2 DEF Together
  <2>5. HasBody(sent[i]) <=> n > 0
    BY <1>1, <2>2, <2>4 DEF ExpectsBody, MethodOf, HasBody
  <2>6. Extent(sent, i) = k + (IF n > 0 THEN n ELSE 0)
    BY <2>3, <2>4, <2>5
  <2>7. Together(request)'
    BY <1>1, <1>3, <2>2 DEF Together
  <2>8. i <= Len(sent') /\ request'.line = i /\ Current' = i
    BY <1>1, <1>2, <1>3, <2>1, <2>2, CurrentType
  <2>9. InLine(sent', Stream')
    BY <1>1, <2>2, <2>3, Popped
  <2>10. ASSUME n = 0 PROVE AtEnd(Current)'
    <3>1. k = Extent(sent, i)
      BY <2>3, <2>6, <2>10
    <3>2. Starts(sent', Stream', i + 1, 1)
      BY <1>1, <2>2, <2>3, <3>1, Popped
    <3>3. ~HasBody(sent'[request'.line])
      BY <1>1, <1>4, <2>5, <2>8, <2>10
    <3>4. OwnBody(request)'
      BY <3>3 DEF OwnBody
    <3> QED
      BY <2>7, <2>8, <3>2, <3>4 DEF AtEnd
  <2>11. ASSUME n > 0 PROVE AtBody(Current)'
    <3>1. k < Extent(sent, i) /\ k + 1 = Extent(sent, i) - n + 1
      BY <1>4, <2>3, <2>6, <2>11
    <3>2. Starts(sent', Stream', i, k + 1)
      BY <1>1, <2>2, <2>3, <3>1, Popped
    <3>3. Starts(sent', Stream', i, Extent(sent', i) - sent'[i].length + 1)
      BY <1>1, <2>4, <3>1, <3>2
    <3>4. HasBody(sent'[i]) /\ request'.contentLength = sent'[i].length
      BY <1>1, <1>3, <1>4, <2>4, <2>5, <2>11
    <3> QED
      BY <2>7, <2>8, <3>3, <3>4 DEF AtBody
  <2>12. n < 0 => Stuck'
    <3>1. MaxBytes \in Nat
      BY HttpAssumption
    <3> QED
      BY <1>3, <1>4, <3>1 DEF Stuck
  <2> QED
    BY <2>9, <2>10, <2>11, <2>12
<1>6. BodyInv'
  BY <1>1, <1>3 DEF BodyInv
<1>7. ParserInv'
  BY <1>1, <1>4, <1>s, <1>5 DEF ParserInv, PlaceInv
<1> QED
  BY <1>2, <1>6, <1>7 DEF HttpRest

LEMMA BodyStep ==
  ASSUME TypeOK, Bounds, HttpRest, Body PROVE HttpRest'
<1> DEFINE n == request.contentLength
<1>1. /\ state = "body" /\ Len(buf) >= n /\ request \in RequestType
      /\ request' = [request EXCEPT !.content = Line.of]
      /\ buf' = SubSeq(buf, n + 1, Len(buf)) /\ state' = "gotAll"
      /\ UNCHANGED <<wire, sent, open, handled, answers>>
  BY DEF Body, At, Continue, clientVars, logVars, TypeOK
<1>2. AnswersInOrder' /\ HandledInv' /\ Current' = Current
  BY <1>1, LogsKept
<1>3. n \in Nat \ {0} /\ Len(buf) \in Nat /\ n \in 0..Len(buf)
  BY <1>1, RequestFields, LenProperties DEF HttpRest, BodyInv, TypeOK
<1>4. buf # << >>
  BY <1>1, <1>3
<1>5. buf' \in Seq(TokenType) /\ Drops(Stream, Stream', n)
  BY <1>1, <1>3, TakeDrops
<1>6. Stream' \in Seq(TokenType)
  <2>1. wire \in Seq(TokenType)
    BY DEF TypeOK
  <2>2. buf' \o wire \in Seq(TokenType)
    BY <1>5, <2>1, Joined
  <2> QED
    BY <1>1, <2>2 DEF Stream
<1>7. Stream \in Seq(TokenType) /\ Stream # << >> /\ sent \in Seq(Shapes)
  BY <1>4, StreamType, LineIsFirst DEF TypeOK
<1>8. /\ request'.line = request.line /\ request'.content = Line.of
      /\ request'.connection = request.connection /\ request'.length = request.length
  BY <1>1 DEF RequestType
<1> HIDE DEF n
<1>9. ASSUME open PROVE InLine(sent, Stream)' /\ AtEnd(Current)'
  <2>1. PICK i, r : i = Current /\ r = Stream'
    OBVIOUS
  <2>2. InLine(sent, Stream) /\ AtBody(i)
    <3>1. ~Stuck
      BY <1>1, <1>3, HttpAssumption DEF Stuck, Bounds, n
    <3> QED
      BY <1>1, <1>9, <2>1, <3>1 DEF HttpRest, ParserInv, PlaceInv
  <2>3. PICK k : k = Extent(sent, i) - n + 1
    OBVIOUS
  <2>4. Starts(sent, Stream, i, k) /\ i <= Len(sent) /\ request.line = i /\ Together(request)
    BY <2>2, <2>3 DEF AtBody, n
  <2>5. i \in 1..Len(sent) /\ Extent(sent, i) \in Nat /\ Line.of = i
    BY <1>4, <2>2, <2>4, Peek
  <2>6. Extent(sent, i) - k + 1 = n
    BY <1>3, <2>3, <2>5
  <2>7. Drops(Stream, r, Extent(sent, i) - k + 1) /\ r \in Seq(TokenType)
    BY <1>5, <1>6, <2>1, <2>6
  <2>8. InLine(sent, r)
    BY <1>7, <2>2, <2>7, DropInLine
  <2>9. Starts(sent, r, i + 1, 1)
    BY <1>7, <2>2, <2>4, <2>7, DropRest
  <2>10. Together(request)' /\ OwnBody(request)'
    BY <1>1, <1>8, <2>4, <2>5 DEF Together, OwnBody
  <2>11. i <= Len(sent') /\ request'.line = i /\ Current' = i
    BY <1>1, <1>2, <1>8, <2>1, <2>4
  <2> QED
    BY <1>1, <2>1, <2>8, <2>9, <2>10, <2>11 DEF AtEnd
<1>10. BodyInv'
  BY <1>1 DEF BodyInv
<1>11. ParserInv'
  BY <1>1, <1>9 DEF ParserInv, PlaceInv
<1> QED
  BY <1>2, <1>10, <1>11 DEF HttpRest

LEMMA OnRequestStep ==
  ASSUME TypeOK, HttpRest, OnRequest PROVE HttpRest'
<1>1. /\ state = "gotAll" /\ state' = "line" /\ request' = Reset(request)
      /\ handled' = Append(handled, [req |-> request, open |-> open])
      /\ answers' = IF open THEN Append(answers, request.line) ELSE answers
      /\ UNCHANGED <<sent, buf, wire>> /\ (open' => open)
      /\ handled \in Seq([req : RequestType, open : BOOLEAN])
      /\ [req |-> request, open |-> open] \in [req : RequestType, open : BOOLEAN]
  BY DEF OnRequest, At, clientVars, TypeOK
<1>2. open => AtEnd(Current)
  BY <1>1 DEF HttpRest, ParserInv, PlaceInv
<1>3. open => answers' = Append(answers, Current)
  BY <1>1, <1>2 DEF AtEnd
<1>4. AnswersInOrder' /\ (open => Current' = Current + 1)
  <2>1. CASE open
    BY <1>3, <2>1, OneMoreAnswer, CurrentType DEF HttpRest, Current
  <2>2. CASE ~open
    BY <1>1, <2>2 DEF HttpRest, AnswersInOrder
  <2> QED
    BY <2>1, <2>2
<1>5. HandledInv'
  <2>1. /\ Len(handled) \in Nat /\ Len(handled') = Len(handled) + 1
        /\ \A m \in 1..Len(handled) : handled'[m] = handled[m]
        /\ handled'[Len(handled) + 1] = [req |-> request, open |-> open]
    BY <1>1, AppendProperties, LenProperties
  <2>2. ASSUME NEW m \in 1..Len(handled'), handled'[m].open
        PROVE  /\ handled'[m].req.line \in 1..Len(sent')
               /\ Together(handled[m].req)' /\ OwnBody(handled[m].req)'
    <3>1. CASE m \in 1..Len(handled)
      <4>1. handled'[m] = handled[m]
        BY <2>1, <3>1
      <4>2. handled[m].req.line \in 1..Len(sent) /\ Together(handled[m].req) /\ OwnBody(handled[m].req)
        BY <2>2, <3>1, <4>1 DEF HttpRest, HandledInv
      <4> QED
        BY <1>1, <4>1, <4>2 DEF Together, OwnBody
    <3>2. CASE m = Len(handled) + 1
      <4>1. open /\ handled'[m].req = request
        BY <2>1, <2>2, <3>2
      <4>2. request.line \in 1..Len(sent) /\ Together(request) /\ OwnBody(request)
        BY <1>2, <4>1, CurrentType DEF AtEnd
      <4> QED
        BY <1>1, <4>1, <4>2 DEF Together, OwnBody
    <3> QED
      BY <2>1, <3>1, <3>2
  <2> QED
    BY <2>2 DEF HandledInv
<1>6. request'.line = Nobody /\ request'.connection = Nobody /\ request'.length = Nobody
  BY <1>1 DEF Reset, NewRequest, Nobody
<1>7. ASSUME open' PROVE InLine(sent, Stream)' /\ AtLine(Current)'
  <2>1. open /\ Stream' = Stream
    BY <1>1, <1>7 DEF Stream
  <2>2. Starts(sent, Stream, Current + 1, 1) /\ InLine(sent, Stream)
    BY <1>2, <2>1 DEF AtEnd, HttpRest, ParserInv
  <2> QED
    BY <1>1, <1>4, <1>6, <2>1, <2>2 DEF AtLine
<1>8. BodyInv'
  BY <1>1 DEF BodyInv
<1>9. ParserInv'
  BY <1>1, <1>7 DEF ParserInv, PlaceInv
<1> QED
  BY <1>4, <1>5, <1>8, <1>9 DEF HttpRest

\* Another request is sent while the parser stands anywhere.
LEMMA SendStep ==
  ASSUME TypeOK, HttpRest, NEW s \in Shapes, Send(s) PROVE HttpRest'
<1>1. /\ Len(sent) < MaxReqs /\ sent' = Append(sent, s) /\ wire' = wire \o Tokens(s, Len(sent) + 1) /\ open
      /\ UNCHANGED <<buf, state, request, open, handled, answers>>
      /\ sent \in Seq(Shapes) /\ wire \in Seq(TokenType) /\ buf \in Seq(TokenType)
      /\ MaxReqs \in Nat /\ Len(sent) \in Nat
  BY HttpAssumption, CurrentType DEF Send, parseVars, logVars, TypeOK
<1>2. Len(sent) + 1 \in 1..MaxReqs
  BY <1>1
<1>3. Stream' = Stream \o Tokens(s, Len(sent) + 1) /\ Stream \in Seq(TokenType)
  BY <1>1, <1>2, SendStream
<1>4. InLine(sent', Stream')
  BY <1>1, <1>2, <1>3, SendInLine DEF HttpRest, ParserInv
<1>5. ASSUME NEW i, NEW k, Starts(sent, Stream, i, k) PROVE Starts(sent', Stream', i, k)
  BY <1>1, <1>2, <1>3, <1>5, SendStarts
<1>6. ASSUME NEW i \in 1..Len(sent)
      PROVE  i <= Len(sent') /\ i \in 1..Len(sent') /\ sent'[i] = sent[i] /\ Extent(sent', i) = Extent(sent, i)
  BY <1>1, Appended
<1>7. Current' = Current /\ Current \in Nat \ {0}
  BY <1>1, CurrentType DEF Current
<1>8. PICK i : i = Current
  OBVIOUS
<1>9. PlaceInv'
  <2>1. CASE state = "line"
    <3>1. AtLine(i)
      BY <1>8, <2>1, <1>1 DEF HttpRest, ParserInv, PlaceInv
    <3>2. AtLine(i)'
      BY <1>1, <1>5, <3>1 DEF AtLine
    <3> QED
      BY <1>1, <1>7, <1>8, <2>1, <3>2 DEF PlaceInv
  <2>2. CASE state = "headers"
    <3>1. i <= Len(sent) /\ request.line = i
      BY <1>8, <2>2, <1>1 DEF HttpRest, ParserInv, PlaceInv, AtHeaders
    <3>2. PICK k \in 2..Extent(sent, i) : Starts(sent, Stream, i, k) /\ Stored(i, k) /\ ~Seen(i, k, "empty")
      BY <1>8, <2>2, <1>1 DEF HttpRest, ParserInv, PlaceInv, AtHeaders
    <3>3. i <= Len(sent') /\ sent'[i] = sent[i] /\ Extent(sent', i) = Extent(sent, i)
      BY <1>1, <1>6, <1>7, <1>8, <3>1
    <3>4. Starts(sent', Stream', i, k) /\ k \in 2..Extent(sent', i)
      BY <1>5, <3>2, <3>3
    <3>5. \A kind : Seen(i, k, kind)' <=> Seen(i, k, kind)
      BY <3>3 DEF Seen
    <3>6. Stored(i, k)' /\ ~Seen(i, k, "empty")'
      BY <1>1, <3>2, <3>5 DEF Stored
    <3>7. AtHeaders(i)'
      BY <1>1, <3>1, <3>3, <3>4, <3>6 DEF AtHeaders
    <3> QED
      BY <1>1, <1>7, <1>8, <2>2, <3>7 DEF PlaceInv
  <2>3. CASE state = "body" /\ Stuck
    BY <1>1, <2>3 DEF PlaceInv, Stuck
  <2>5. CASE state = "body" /\ ~Stuck
    <3>1. AtBody(i)
      BY <1>8, <2>5, <1>1 DEF HttpRest, ParserInv, PlaceInv
    <3>2. sent'[i] = sent[i] /\ Extent(sent', i) = Extent(sent, i) /\ i <= Len(sent')
      BY <1>1, <1>6, <1>7, <1>8, <3>1 DEF AtBody
    <3>3. AtBody(i)'
      BY <1>1, <1>5, <3>1, <3>2 DEF AtBody, Together
    <3> QED
      BY <1>1, <1>7, <1>8, <2>5, <3>3 DEF PlaceInv
  <2>4. CASE state = "gotAll"
    <3>1. AtEnd(i)
      BY <1>8, <2>4, <1>1 DEF HttpRest, ParserInv, PlaceInv
    <3>2. sent'[i] = sent[i] /\ i <= Len(sent')
      BY <1>1, <1>6, <1>7, <1>8, <3>1 DEF AtEnd
    <3>3. AtEnd(i)'
      BY <1>1, <1>5, <3>1, <3>2 DEF AtEnd, Together, OwnBody
    <3> QED
      BY <1>1, <1>7, <1>8, <2>4, <3>3 DEF PlaceInv
  <2> QED
    BY <2>1, <2>2, <2>3, <2>4, <2>5 DEF TypeOK
<1>10. HandledInv'
  <2>1. ASSUME NEW n \in 1..Len(handled), handled[n].open
        PROVE  /\ handled[n].req.line \in 1..Len(sent')
               /\ Together(handled[n].req)' /\ OwnBody(handled[n].req)'
    <3>1. handled[n].req.line \in 1..Len(sent) /\ Together(handled[n].req) /\ OwnBody(handled[n].req)
      BY <2>1 DEF HttpRest, HandledInv
    <3>2. handled[n].req.line \in 1..Len(sent') /\ sent'[handled[n].req.line] = sent[handled[n].req.line]
      BY <1>6, <3>1
    <3> QED
      BY <1>1, <3>1, <3>2 DEF Together, OwnBody
  <2> QED
    BY <1>1, <2>1 DEF HandledInv
<1>11. BodyInv' /\ AnswersInOrder'
  BY <1>1 DEF HttpRest, BodyInv, AnswersInOrder
<1> QED
  BY <1>4, <1>9, <1>10, <1>11 DEF HttpRest, ParserInv

\* A new connection.
LEMMA FreshRest ==
  ASSUME sent = << >>, wire = << >>, buf = << >>, state = "line", request = NewRequest,
         handled = << >>, answers = << >>
  PROVE  HttpRest
<1>1. Stream = << >>
  BY DEF Stream
<1>2. InLine(sent, Stream)
  BY <1>1 DEF InLine
<1>3. Current = Len(sent) + 1
  BY DEF Current
<1>4. AtLine(Current)
  BY <1>1, <1>3 DEF AtLine, NewRequest, Starts
<1> QED
  BY <1>2, <1>4 DEF HttpRest, BodyInv, ParserInv, PlaceInv, AnswersInOrder, HandledInv

LEMMA HttpInitHolds == Init => HttpInv
<1> SUFFICES ASSUME Init PROVE HttpInv
  OBVIOUS
<1>1. TypeOK /\ HttpRest
  BY HttpInitType, FreshRest DEF Init, Fresh
<1>2. sent = << >> /\ wire = << >> /\ buf = << >> /\ request.length = 0 /\ MaxBytes \in Nat
  BY HttpAssumption DEF Init, Fresh, NewRequest, Nobody
<1>3. Stream = << >>
  BY <1>2 DEF Stream
<1>4. Bounds
  BY <1>2, <1>3 DEF Bounds
<1> QED
  BY <1>1, <1>4 DEF HttpInv, HttpRest

LEMMA HttpRestStep == TypeOK /\ Bounds /\ HttpRest /\ [Next]_vars => HttpRest'
<1> SUFFICES ASSUME TypeOK, Bounds, HttpRest, [Next]_vars PROVE HttpRest'
  OBVIOUS
<1>1. ASSUME NEW s \in Shapes, Send(s) PROVE HttpRest'
  BY <1>1, SendStep
<1>2. ASSUME NEW n \in 1..Len(wire), Deliver(n) PROVE HttpRest'
  <2>1. Stream' = Stream
    BY <1>2, DeliverKeeps
  <2> QED
    BY <1>2, <2>1, NothingRead DEF Deliver, parseVars, logVars
<1>3. CASE Reconnect
  <2>1. /\ sent' = << >> /\ wire' = << >> /\ buf' = << >> /\ state' = "line" /\ request' = NewRequest
        /\ handled' = << >> /\ answers' = << >>
    BY <1>3 DEF Reconnect, Fresh
  <2>2. Stream' = << >>
    BY <2>1 DEF Stream
  <2>3. InLine(sent', Stream')
    BY <2>2 DEF InLine
  <2>4. Current' = Len(sent') + 1
    BY <2>1 DEF Current
  <2>5. AtLine(Current)'
    BY <2>1, <2>2, <2>4 DEF AtLine, NewRequest, Starts
  <2> QED
    BY <2>1, <2>3, <2>5 DEF HttpRest, BodyInv, ParserInv, PlaceInv, AnswersInOrder, HandledInv
<1>4. CASE NeedLine \/ LineAsserts \/ NeedBody
  BY <1>4, NothingRead DEF NeedLine, LineAsserts, NeedBody, clientVars, parseVars, logVars, Stream
<1>5. CASE RequestLine
  BY <1>5, RequestLineStep
<1>6. CASE BadLine
  BY <1>6, RejectStep DEF BadLine, At
<1>7. CASE Header
  BY <1>7, HeaderStep
<1>8. CASE BadHeader
  BY <1>8, RejectStep DEF BadHeader, At, parseVars
<1>9. CASE NoBody
  BY <1>9, NoBodyStep
<1>10. CASE BodyFollows
  BY <1>10, BodyFollowsStep
<1>11. CASE BadLength
  BY <1>11, RejectStep DEF BadLength, EndOfHeaders, At, parseVars
<1>12. CASE Body
  BY <1>12, BodyStep
<1>13. CASE OnRequest
  BY <1>13, OnRequestStep
<1>14. CASE UNCHANGED vars
  BY <1>14, NothingRead DEF vars, clientVars, parseVars, logVars, Stream
<1> QED
  BY <1>1, <1>2, <1>3, <1>4, <1>5, <1>6, <1>7, <1>8, <1>9, <1>10, <1>11, <1>12, <1>13, <1>14
     DEF Next, Arrive, Parse, Dead

\* The inductive invariant of a connection: while it is open, what the parser has not
\* read yet is in line, and what it has stored is what it has read of the request
\* after the last one answered.
THEOREM HttpInvariant == Spec => []HttpInv
<1>1. Init => HttpInv
  BY HttpInitHolds
<1>2. HttpInv /\ [Next]_vars => HttpInv'
  BY HttpTypeStep, BoundsStep, HttpRestStep DEF HttpInv, HttpRest
<1> QED
  BY <1>1, <1>2, PTL DEF Spec

\* However the stream is cut and whatever the client sends ahead, a request that is
\* answered has been put together by HttpContext from the parts of one request.
THEOREM HttpPartsBelongTogether == Spec => []PartsBelongTogether
<1>1. HttpInv => PartsBelongTogether
  BY DEF HttpInv, HandledInv, Together, OwnBody, PartsBelongTogether
<1> QED
  BY <1>1, HttpInvariant, PTL

\* The n-th response on a connection, 400 included, answers the n-th request: of
\* a rejected request nothing that arrives later is answered.
THEOREM HttpAnswersInOrder == Spec => []AnswersInOrder
<1>1. HttpInv => AnswersInOrder
  BY DEF HttpInv
<1> QED
  BY <1>1, HttpInvariant, PTL

\* setMethod()'s assert has failed only after shutdown().
AssertAfterShutdown == aborted => ~open

\* The assert in setMethod() that no method was set before can fail: a request line
\* with a known method and an unknown version stays in the buffer, and the next
\* delivery parses it again.  It never fails on a connection that is still open:
\* the 400 and shutdown() have come first.
THEOREM HttpAssertAfterShutdown == Spec => []AssertAfterShutdown
<1>1. Init => AssertAfterShutdown
  BY DEF Init, AssertAfterShutdown
<1>2. HttpInv /\ AssertAfterShutdown /\ [Next]_vars => AssertAfterShutdown'
  <2> SUFFICES ASSUME HttpInv, AssertAfterShutdown, [Next]_vars, aborted' PROVE ~open'
    BY DEF AssertAfterShutdown
  <2>1. CASE aborted
    <3>1. UNCHANGED vars
      BY <2>1 DEF Next, Send, Arrive, Deliver, Reconnect, Parse, NeedLine, LineAsserts, RequestLine, BadLine,
                  Header, BadHeader, NoBody, BodyFollows, BadLength, NeedBody, Body, EndOfHeaders, OnRequest, At, Dead
    <3> QED
      BY <2>1, <3>1 DEF vars, AssertAfterShutdown
  <2>2. CASE ~aborted
    <3>1. LineAsserts
      BY <2>2 DEF Next, Send, Arrive, Deliver, Reconnect, Parse, NeedLine, RequestLine, BadLine,
                  Header, BadHeader, NoBody, BodyFollows, BadLength, NeedBody, Body, OnRequest, Dead,
                  Reject, Continue, vars
    <3>2. state = "line" /\ request.line # Nobody /\ open' = open
      BY <3>1 DEF LineAsserts, At
    <3>3. open => request.line = Nobody
      BY <3>2 DEF HttpInv, ParserInv, PlaceInv, AtLine
    <3> QED
      BY <3>2, <3>3
  <2> QED
    BY <2>1, <2>2
<1> QED
  BY <1>1, <1>2, HttpInvariant, PTL DEF Spec

-----------------------------------------------------------------------------
(* The game: the inductive invariant                                       *)

\* The game goes on only while nobody has won and a cell is free.
TurnInv == turn # "done" => ~gameOver /\ moveCount < Size * Size

GameInv == GameType /\ StonesAlternate /\ WinnerIsExact /\ TurnInv

-----------------------------------------------------------------------------
(* Numbers and cells                                                       *)

LEMMA LeastNatural ==
  ASSUME NEW T, T \subseteq Nat, T # {}
  PROVE  \E x \in T : \A y \in T : x <= y
<1> DEFINE F == {0..x : x \in T}
           R == StrictSubsetOrdering(Nat)
<1>1. IsWellFoundedOn(R, FiniteSubsetsOf(Nat))
  BY FS_StrictSubsetOrderingWellFounded
<1>2. F \subseteq FiniteSubsetsOf(Nat) /\ F # {}
  <2>1. ASSUME NEW x \in T PROVE 0..x \in FiniteSubsetsOf(Nat)
    <3>1. IsFiniteSet(0..x)
      BY FS_Interval
    <3> QED
      BY <3>1 DEF FiniteSubsetsOf
  <2> QED
    BY <2>1
<1>3. PICK s \in F : \A u \in F : ~(<<u, s>> \in R)
  <2> HIDE DEF F, R
  <2> QED
    BY <1>1, <1>2, WFMin
<1>4. PICK x \in T : s = 0..x
  OBVIOUS
<1>5. ASSUME NEW y \in T, y < x PROVE FALSE
  <2>1. x \in Nat /\ y \in Nat /\ 0..y \subseteq 0..x /\ 0..y # 0..x
    <3>1. x \in Nat /\ y \in Nat
      OBVIOUS
    <3>2. x \in 0..x /\ x \notin 0..y /\ \A z \in 0..y : z \in 0..x
      BY <1>5, <3>1
    <3> QED
      BY <3>1, <3>2
  <2>2. <<0..y, 0..x>> \in R
    BY <2>1 DEF StrictSubsetOrdering
  <2> QED
    BY <1>3, <1>4, <2>2
<1> QED
  BY <1>5

LEMMA CellsFinite == IsFiniteSet(Cells) /\ Cardinality(Cells) = Size * Size
<1>1. IsFiniteSet(0..Size-1) /\ Cardinality(0..Size-1) = Size
  <2>1. 0 \in Int /\ Size-1 \in Int /\ ~(0 > Size-1) /\ Size-1-0+1 = Size
    BY GameAssumption
  <2> QED
    BY <2>1, FS_Interval
<1> QED
  BY <1>1, FS_Product DEF Cells

LEMMA FirstCellIn ==
  ASSUME NEW S, S \subseteq Cells, S # {}
  PROVE  FirstCell(S) \in S
<1> DEFINE K == {c[1] * Size + c[2] : c \in S}
<1>1. \A c \in S : c[1] * Size + c[2] \in Nat
  BY GameAssumption DEF Cells
<1>2. K \subseteq Nat /\ K # {}
  BY <1>1
<1>3. PICK k \in K : \A l \in K : k <= l
  BY <1>2, LeastNatural
<1>4. PICK c \in S : k = c[1] * Size + c[2]
  OBVIOUS
<1>5. \A o \in S : c[1] * Size + c[2] <= o[1] * Size + o[2]
  BY <1>3, <1>4
<1> QED
  BY <1>5 DEF FirstCell

\* getBestMove() returns an empty cell.
LEMMA BestMoveIsEmpty ==
  ASSUME NEW b, NEW c \in getBestMove(b)
  PROVE  c \in Empty(b) /\ c \in Cells
<1>1. WinningCells(b, AI) \subseteq Empty(b) /\ WinningCells(b, HUMAN) \subseteq Empty(b)
  BY DEF WinningCells
<1>2. Empty(b) \subseteq Cells /\ Candidates(b) \subseteq Empty(b)
  BY DEF Empty, Candidates
<1>3. \A S : S \subseteq Empty(b) /\ S # {} => FirstCell(S) \in Empty(b)
  BY <1>2, FirstCellIn
<1>4. c \in Empty(b)
  BY <1>1, <1>2, <1>3 DEF getBestMove
<1> QED
  BY <1>2, <1>4

-----------------------------------------------------------------------------
(* Rows                                                                    *)

RowOn(b, p) == \E c \in Cells, d \in Dirs : \A i \in 0..Win-1 : Holds(b, Along(c, d, i), p)

Run(b, c, d, s, p) == {i \in 1..Win-1 : \A j \in 1..i : Holds(b, Along(c, d, s * j), p)}

LEMMA RunFinite ==
  ASSUME NEW b, NEW c, NEW d, NEW s, NEW p
  PROVE  /\ IsFiniteSet(Run(b, c, d, s, p)) /\ RunFrom(b, c, d, s, p) = Cardinality(Run(b, c, d, s, p))
         /\ RunFrom(b, c, d, s, p) \in 0..Win-1
<1>0. Win-1 \in Nat /\ 1 \in Int /\ Win-1 \in Int /\ (IF 1 > Win-1 THEN 0 ELSE Win-1-1+1) = Win-1
  BY GameAssumption
<1>1. IsFiniteSet(1..Win-1) /\ Cardinality(1..Win-1) = Win-1 /\ Win-1 \in Nat
  BY <1>0, FS_Interval
<1>2. /\ IsFiniteSet(Run(b, c, d, s, p)) /\ Cardinality(Run(b, c, d, s, p)) <= Win-1
      /\ Cardinality(Run(b, c, d, s, p)) \in Nat
  BY <1>1, FS_Subset, FS_CardinalityType DEF Run
<1>3. RunFrom(b, c, d, s, p) = Cardinality(Run(b, c, d, s, p))
  BY DEF RunFrom, Run
<1> QED
  BY <1>1, <1>2, <1>3

\* n stones without a gap are counted.
LEMMA RunAtLeast ==
  ASSUME NEW b, NEW c, NEW d, NEW s, NEW p, NEW n \in 0..Win-1,
         \A j \in 1..n : Holds(b, Along(c, d, s * j), p)
  PROVE  RunFrom(b, c, d, s, p) >= n
<1>0. n \in Nat /\ Win-1 \in Nat /\ n <= Win-1
  BY GameAssumption
<1>1. 1..n \subseteq Run(b, c, d, s, p)
  BY <1>0 DEF Run
<1>2. Cardinality(1..n) = n
  BY <1>0, FS_Interval
<1>3. Cardinality(1..n) <= Cardinality(Run(b, c, d, s, p))
  BY <1>1, RunFinite, FS_Subset
<1> QED
  BY <1>2, <1>3, RunFinite

\* What is counted has no gap.
LEMMA RunHasNoGap ==
  ASSUME NEW b, NEW c, NEW d, NEW s, NEW p
  PROVE  \A j \in 1..RunFrom(b, c, d, s, p) : Holds(b, Along(c, d, s * j), p)
<1> DEFINE R == Run(b, c, d, s, p)
           k == RunFrom(b, c, d, s, p)
<1>1. IsFiniteSet(R) /\ k = Cardinality(R) /\ k \in 0..Win-1 /\ k \in Nat /\ Win-1 \in Nat
  BY RunFinite, GameAssumption
<1>2. CASE k = 0
  BY <1>2
<1>3. CASE k # 0 /\ k \in R
  BY <1>3 DEF Run
<1>4. CASE k # 0 /\ k \notin R
  <2>1. \A i \in R : i \in Nat /\ 1 <= i /\ i < k
    <3>1. SUFFICES ASSUME NEW i \in R, k <= i PROVE FALSE
      BY <1>1 DEF Run
    <3>2. \A j \in 1..k : j \in 1..i
      BY <1>1, <3>1 DEF Run
    <3>3. \A j \in 1..k : Holds(b, Along(c, d, s * j), p)
      BY <3>1, <3>2 DEF Run
    <3>4. k \in 1..Win-1
      BY <1>1, <1>4
    <3> QED
      BY <1>4, <3>3, <3>4 DEF Run
  <2>2. R \subseteq 1..k-1
    BY <1>1, <2>1
  <2>3. IsFiniteSet(1..k-1) /\ Cardinality(1..k-1) = k-1
    <3>1. k-1 \in Int /\ 1 \in Int /\ (IF 1 > k-1 THEN 0 ELSE k-1-1+1) = k-1
      BY <1>1, <1>4
    <3> QED
      BY <3>1, FS_Interval
  <2>4. Cardinality(R) <= k-1
    <3> HIDE DEF R
    <3>1. Cardinality(R) <= Cardinality(1..k-1)
      BY <2>2, <2>3, FS_Subset
    <3> QED
      BY <3>1, <2>3
  <2> QED
    BY <1>1, <2>4
<1> QED
  BY <1>2, <1>3, <1>4

\* Steps along a direction add up.
LEMMA AlongAdds ==
  ASSUME NEW c \in Int \X Int, NEW d \in Dirs, NEW i \in Int, NEW j \in Int
  PROVE  /\ Along(Along(c, d, i), d, j) = Along(c, d, i + j)
         /\ Along(c, d, 0) = c /\ Along(c, d, i) \in Int \X Int
<1>1. d[1] \in {-1, 0, 1} /\ d[2] \in {-1, 0, 1}
  BY DEF Dirs
<1>2. \A x \in {-1, 0, 1} : i * x + j * x = (i + j) * x /\ i * x \in Int /\ j * x \in Int /\ 0 * x = 0
  OBVIOUS
<1>3. c = <<c[1], c[2]>> /\ c[1] \in Int /\ c[2] \in Int
  OBVIOUS
<1>4. Along(c, d, i) = <<c[1] + i * d[1], c[2] + i * d[2]>>
  BY DEF Along
<1>5. Along(Along(c, d, i), d, j) = <<(c[1] + i * d[1]) + j * d[1], (c[2] + i * d[2]) + j * d[2]>>
  BY <1>4 DEF Along
<1>6. Along(c, d, i + j) = <<c[1] + (i + j) * d[1], c[2] + (i + j) * d[2]>>
  BY DEF Along
<1>7. (c[1] + i * d[1]) + j * d[1] = c[1] + (i + j) * d[1]
  BY <1>1, <1>2, <1>3
<1>8. (c[2] + i * d[2]) + j * d[2] = c[2] + (i + j) * d[2]
  BY <1>1, <1>2, <1>3
<1>9. Along(c, d, 0) = c
  BY <1>1, <1>2, <1>3 DEF Along
<1>10. Along(c, d, i) \in Int \X Int
  BY <1>1, <1>2, <1>3, <1>4
<1> QED
  BY <1>5, <1>6, <1>7, <1>8, <1>9, <1>10

LEMMA CellsAreInts == Cells \subseteq Int \X Int
BY GameAssumption DEF Cells

\* The stones that checkwin() counts around c are a row.
LEMMA CountedIsRow ==
  ASSUME NEW b, NEW p, NEW c \in Cells, b[c] = p, checkwin(b, c, p)
  PROVE  RowOn(b, p)
<1>1. PICK d \in Dirs : 1 + RunFrom(b, c, d, 1, p) + RunFrom(b, c, d, -1, p) >= Win
  BY DEF checkwin
<1> DEFINE k == RunFrom(b, c, d, 1, p)
           m == RunFrom(b, c, d, -1, p)
           e == Along(c, d, -m)
<1>2. k \in Nat /\ m \in Nat /\ Win \in Nat /\ c \in Int \X Int
  BY RunFinite, GameAssumption, CellsAreInts
<1>3. \A j \in 1..k : Holds(b, Along(c, d, 1 * j), p)
  BY RunHasNoGap
<1>4. \A j \in 1..m : Holds(b, Along(c, d, (-1) * j), p)
  BY RunHasNoGap
<1> HIDE DEF k, m
<1>5. e \in Cells
  <2>1. CASE m = 0
    BY <1>2, <2>1, AlongAdds
  <2>2. CASE m # 0
    <3>1. m \in 1..m /\ (-1) * m = -m
      BY <1>2, <2>2
    <3> QED
      BY <1>4, <3>1 DEF Holds
  <2> QED
    BY <2>1, <2>2
<1>6. ASSUME NEW i \in 0..Win-1 PROVE Holds(b, Along(e, d, i), p)
  <2>1. i \in Nat /\ i <= k + m /\ -m \in Int
    BY <1>1, <1>2 DEF k, m
  <2>2. Along(e, d, i) = Along(c, d, i - m)
    <3>1. Along(e, d, i) = Along(c, d, (-m) + i)
      BY <1>2, <2>1, AlongAdds
    <3>2. (-m) + i = i - m
      BY <1>2, <2>1
    <3> QED
      BY <3>1, <3>2
  <2>3. CASE i < m
    <3>1. m - i \in 1..m /\ (-1) * (m - i) = i - m
      BY <1>2, <2>1, <2>3
    <3> QED
      BY <1>4, <2>2, <3>1
  <2>4. CASE i = m
    <3>1. i - m = 0
      BY <1>2, <2>4
    <3> QED
      BY <1>2, <2>2, <3>1, AlongAdds DEF Holds
  <2>5. CASE i > m
    <3>1. i - m \in 1..k /\ 1 * (i - m) = i - m
      BY <1>2, <2>1, <2>5
    <3> QED
      BY <1>3, <2>2, <3>1
  <2> QED
    BY <1>2, <2>1, <2>3, <2>4, <2>5
<1> QED
  BY <1>5, <1>6 DEF RowOn

\* A row that was not there before goes through the new stone, and is counted.
LEMMA NewRowIsCounted ==
  ASSUME NEW a \in [Cells -> {EMPTY, AI, HUMAN}], NEW p, NEW c \in Cells, NEW b,
         b = [a EXCEPT ![c] = p], ~RowOn(a, p), RowOn(b, p)
  PROVE  checkwin(b, c, p)
<1>1. PICK c0 \in Cells, d \in Dirs : \A i \in 0..Win-1 : Holds(b, Along(c0, d, i), p)
  BY DEF RowOn
<1>2. PICK i0 \in 0..Win-1 : Along(c0, d, i0) = c
  <2> SUFFICES ASSUME \A i \in 0..Win-1 : Along(c0, d, i) # c PROVE FALSE
    OBVIOUS
  <2>1. \A i \in 0..Win-1 : Holds(a, Along(c0, d, i), p)
    BY <1>1 DEF Holds
  <2> QED
    BY <2>1 DEF RowOn
<1>3. i0 \in Nat /\ Win \in Nat /\ i0 <= Win-1 /\ c0 \in Int \X Int /\ c \in Int \X Int
  BY GameAssumption, CellsAreInts
<1>4. ASSUME NEW s \in {1, -1}, NEW j \in Nat, i0 + s * j \in 0..Win-1
      PROVE  Holds(b, Along(c, d, s * j), p)
  <2>1. s * j \in Int
    OBVIOUS
  <2>2. Along(c, d, s * j) = Along(c0, d, i0 + s * j)
    BY <1>2, <1>3, <2>1, AlongAdds
  <2> QED
    BY <1>1, <1>4, <2>2
<1>5. RunFrom(b, c, d, 1, p) >= Win-1-i0
  <2>1. Win-1-i0 \in 0..Win-1
    BY <1>3
  <2>2. \A j \in 1..Win-1-i0 : j \in Nat /\ i0 + 1 * j \in 0..Win-1
    BY <1>3
  <2>3. \A j \in 1..Win-1-i0 : Holds(b, Along(c, d, 1 * j), p)
    BY <1>4, <2>2
  <2> QED
    BY <2>1, <2>3, RunAtLeast
<1>6. RunFrom(b, c, d, -1, p) >= i0
  <2>1. \A j \in 1..i0 : j \in Nat /\ i0 + (-1) * j \in 0..Win-1
    BY <1>3
  <2>2. \A j \in 1..i0 : Holds(b, Along(c, d, (-1) * j), p)
    BY <1>4, <2>1
  <2> QED
    BY <2>2, RunAtLeast
<1>7. RunFrom(b, c, d, 1, p) \in Nat /\ RunFrom(b, c, d, -1, p) \in Nat
  BY RunFinite, GameAssumption
<1>8. 1 + RunFrom(b, c, d, 1, p) + RunFrom(b, c, d, -1, p) >= Win
  BY <1>3, <1>5, <1>6, <1>7
<1> QED
  BY <1>8 DEF checkwin

\* Nor does a stone of one player make a row of the other.
LEMMA OtherRows ==
  ASSUME NEW a \in [Cells -> {EMPTY, AI, HUMAN}], NEW p, NEW q, q # p, NEW c \in Cells, a[c] # q
  PROVE  RowOn([a EXCEPT ![c] = p], q) <=> RowOn(a, q)
<1>1. \A x : Holds([a EXCEPT ![c] = p], x, q) <=> Holds(a, x, q)
  BY DEF Holds
<1> QED
  BY <1>1 DEF RowOn

LEMMA EmptyHasNoRow ==
  ASSUME NEW a, \A c \in Cells : a[c] = EMPTY, NEW p, p # EMPTY
  PROVE  ~RowOn(a, p)
<1>1. 0 \in 0..Win-1
  BY GameAssumption
<1>2. \A x : ~Holds(a, x, p)
  BY DEF Holds
<1> QED
  BY <1>1, <1>2 DEF RowOn

-----------------------------------------------------------------------------
(* Stones and turns                                                        *)

Black == {c \in Cells : board[c] = HUMAN}
White == {c \in Cells : board[c] = AI}

LEMMA StonesFinite ==
  /\ IsFiniteSet(Black) /\ Cardinality(Black) \in Nat
  /\ IsFiniteSet(White) /\ Cardinality(White) \in Nat
  /\ Stones(HUMAN) = Black /\ Stones(AI) = White
<1>1. Stones(HUMAN) = Black /\ Stones(AI) = White
  BY DEF Stones, Black, White
<1>2. IsFiniteSet(Black) /\ IsFiniteSet(White)
  BY CellsFinite, FS_Subset DEF Black, White
<1> QED
  BY <1>1, <1>2, FS_CardinalityType

\* What StonesAlternate says, in numbers.
LEMMA Alternation ==
  ASSUME GameType
  PROVE  StonesAlternate <=>
           /\ moveCount = Cardinality(Black) + Cardinality(White)
           /\ turn = "human" => Cardinality(Black) = Cardinality(White)
           /\ turn = "ai" => Cardinality(Black) = Cardinality(White) + 1
           /\ turn = "done" => Cardinality(Black) \in {Cardinality(White), Cardinality(White) + 1}
<1>1. turn \in {"human", "ai", "done"} /\ Cardinality(Black) \in Nat /\ Cardinality(White) \in Nat
  BY StonesFinite DEF GameType
<1>2. CASE turn = "human"
  BY <1>1, <1>2, StonesFinite DEF StonesAlternate
<1>3. CASE turn = "ai"
  BY <1>1, <1>3, StonesFinite DEF StonesAlternate
<1>4. CASE turn = "done"
  BY <1>1, <1>4, StonesFinite DEF StonesAlternate
<1> QED
  BY <1>1, <1>2, <1>3, <1>4

LEMMA WinnerRows ==
  WinnerIsExact <=> /\ (winner = "human") <=> RowOn(board, HUMAN)
                    /\ (winner = "ai") <=> RowOn(board, AI)
                    /\ gameOver <=> winner # "none"
BY DEF WinnerIsExact, Row, RowOn

\* A stone is placed while the game is on: checkwin() tells whether there is a row.
LEMMA PlaceRows ==
  ASSUME GameInv, turn # "done", NEW p \in {AI, HUMAN}, NEW q \in {AI, HUMAN}, p # q,
         NEW c \in Cells, board[c] = EMPTY, board' = [board EXCEPT ![c] = p]
  PROVE  (RowOn(board', p) <=> checkwin(board', c, p)) /\ ~RowOn(board', q)
<1>1. board \in [Cells -> {EMPTY, AI, HUMAN}] /\ EMPTY # q
  BY DEF GameInv, GameType, EMPTY, AI, HUMAN
<1>2. winner = "none" /\ ~RowOn(board, AI) /\ ~RowOn(board, HUMAN)
  BY WinnerRows DEF GameInv, TurnInv
<1>3. ~RowOn(board, p) /\ ~RowOn(board, q)
  BY <1>2
<1>4. ~RowOn(board', q)
  BY <1>1, <1>3, OtherRows
<1>5. board'[c] = p
  BY <1>1
<1>6. checkwin(board', c, p) => RowOn(board', p)
  BY <1>5, CountedIsRow
<1>7. RowOn(board', p) => checkwin(board', c, p)
  BY <1>1, <1>3, NewRowIsCounted
<1> QED
  BY <1>4, <1>6, <1>7

\* What a move does to everything but the stones.
LEMMA PlaceTypes ==
  ASSUME GameInv, turn # "done", NEW p \in {AI, HUMAN}, NEW c \in Cells,
         NEW name \in {"human", "ai"}, NEW next \in {"human", "ai"}, Place(p, c, name, next)
  PROVE  /\ GameType' /\ TurnInv' /\ moveCount' = moveCount + 1
         /\ board' = [board EXCEPT ![c] = p]
         /\ turn' \in {"done", next}
         /\ gameOver' <=> checkwin(board', c, p)
         /\ winner' = IF checkwin(board', c, p) THEN name ELSE "none"
<1>1. GameType /\ ~gameOver /\ moveCount < Size * Size /\ winner = "none"
  BY DEF GameInv, TurnInv, WinnerIsExact
<1>2. /\ board' = [board EXCEPT ![c] = p] /\ lastMove' = c /\ moveCount' = moveCount + 1
      /\ gameOver' = (gameOver \/ checkwin(board', c, p))
      /\ winner' = IF checkwin(board', c, p) THEN name ELSE winner
      /\ turn' = IF gameOver' \/ moveCount' >= Size * Size THEN "done" ELSE next
  BY DEF Place
<1>3. checkwin(board', c, p) \in BOOLEAN /\ Size * Size \in Nat
  BY GameAssumption DEF checkwin
<1>4. board' \in [Cells -> {EMPTY, AI, HUMAN}]
  BY <1>1, <1>2 DEF GameType
<1>5. gameOver' \in BOOLEAN /\ (gameOver' <=> checkwin(board', c, p))
  BY <1>1, <1>2, <1>3
<1>6. moveCount' \in 0..Size * Size
  BY <1>1, <1>2, <1>3 DEF GameType
<1>7. turn' \in {"done", next} /\ (turn' # "done" => ~gameOver' /\ ~(moveCount' >= Size * Size))
  BY <1>2
<1>8. TurnInv'
  BY <1>3, <1>6, <1>7 DEF TurnInv
<1>9. winner' = IF checkwin(board', c, p) THEN name ELSE "none"
  BY <1>1, <1>2
<1>10. winner' \in {"none", "human", "ai"} /\ lastMove' \in Cells \cup {NoMove} /\ turn' \in {"human", "ai", "done"}
  BY <1>2, <1>7, <1>9
<1>11. GameType'
  BY <1>4, <1>5, <1>6, <1>10 DEF GameType
<1> QED
  BY <1>2, <1>5, <1>7, <1>8, <1>9, <1>11

LEMMA HumanPlaces ==
  ASSUME GameInv, turn = "human", NEW c \in Cells, board[c] = EMPTY, Place(HUMAN, c, "human", "ai")
  PROVE  GameInv'
<1>1. /\ GameType' /\ TurnInv' /\ moveCount' = moveCount + 1 /\ board' = [board EXCEPT ![c] = HUMAN]
      /\ turn' \in {"done", "ai"} /\ (gameOver' <=> checkwin(board', c, HUMAN))
      /\ winner' = IF checkwin(board', c, HUMAN) THEN "human" ELSE "none"
  BY PlaceTypes
<1>2. (RowOn(board', HUMAN) <=> checkwin(board', c, HUMAN)) /\ ~RowOn(board', AI)
  <2>1. AI # HUMAN
    BY DEF AI, HUMAN
  <2> QED
    BY <1>1, <2>1, PlaceRows
<1>3. WinnerIsExact'
  BY <1>1, <1>2 DEF WinnerIsExact, Row, RowOn
<1>4. Black' = Black \cup {c} /\ c \notin Black /\ White' = White
  BY <1>1 DEF GameInv, GameType, Black, White, EMPTY, AI, HUMAN
<1>5. Cardinality(Black') = Cardinality(Black) + 1 /\ Cardinality(White') = Cardinality(White)
  BY <1>4, StonesFinite, FS_AddElement
<1>6. moveCount = Cardinality(Black) + Cardinality(White) /\ Cardinality(Black) = Cardinality(White)
  BY Alternation DEF GameInv
<1>7. Stones(HUMAN)' = Black' /\ Stones(AI)' = White'
  BY DEF Stones, Black, White
<1>8. /\ moveCount' = Cardinality(Stones(HUMAN)') + Cardinality(Stones(AI)')
      /\ Cardinality(Stones(HUMAN)') - Cardinality(Stones(AI)') = 1
  BY <1>1, <1>5, <1>6, <1>7, StonesFinite
<1>9. StonesAlternate'
  BY <1>1, <1>8 DEF StonesAlternate
<1> QED
  BY <1>1, <1>3, <1>9 DEF GameInv

LEMMA AiPlaces ==
  ASSUME GameInv, turn = "ai", NEW c \in Cells, board[c] = EMPTY, Place(AI, c, "ai", "human")
  PROVE  GameInv'
<1>1. /\ GameType' /\ TurnInv' /\ moveCount' = moveCount + 1 /\ board' = [board EXCEPT ![c] = AI]
      /\ turn' \in {"done", "human"} /\ (gameOver' <=> checkwin(board', c, AI))
      /\ winner' = IF checkwin(board', c, AI) THEN "ai" ELSE "none"
  BY PlaceTypes
<1>2. (RowOn(board', AI) <=> checkwin(board', c, AI)) /\ ~RowOn(board', HUMAN)
  <2>1. AI # HUMAN
    BY DEF AI, HUMAN
  <2> QED
    BY <1>1, <2>1, PlaceRows
<1>3. WinnerIsExact'
  BY <1>1, <1>2 DEF WinnerIsExact, Row, RowOn
<1>4. White' = White \cup {c} /\ c \notin White /\ Black' = Black
  BY <1>1 DEF GameInv, GameType, Black, White, EMPTY, AI, HUMAN
<1>5. Cardinality(White') = Cardinality(White) + 1 /\ Cardinality(Black') = Cardinality(Black)
  BY <1>4, StonesFinite, FS_AddElement
<1>6. moveCount = Cardinality(Black) + Cardinality(White) /\ Cardinality(Black) = Cardinality(White) + 1
  BY Alternation DEF GameInv
<1>7. Stones(HUMAN)' = Black' /\ Stones(AI)' = White'
  BY DEF Stones, Black, White
<1>8. /\ moveCount' = Cardinality(Stones(HUMAN)') + Cardinality(Stones(AI)')
      /\ Cardinality(Stones(HUMAN)') - Cardinality(Stones(AI)') = 0
  BY <1>1, <1>5, <1>6, <1>7, StonesFinite
<1>9. StonesAlternate'
  BY <1>1, <1>8 DEF StonesAlternate
<1> QED
  BY <1>1, <1>3, <1>9 DEF GameInv

LEMMA GameInitInv == GameInit => GameInv
<1> SUFFICES ASSUME GameInit PROVE GameInv
  OBVIOUS
<1>1. Size * Size \in Nat /\ 0 < Size * Size
  BY GameAssumption
<1>2. GameType /\ TurnInv
  <2>1. board \in [Cells -> {EMPTY, AI, HUMAN}] /\ lastMove \in Cells \cup {NoMove}
    BY DEF GameInit
  <2>2. moveCount = 0 /\ 0 \in 0..Size * Size
    BY <1>1 DEF GameInit
  <2>3. gameOver = FALSE /\ winner = "none" /\ turn = "human"
    BY DEF GameInit
  <2>4. GameType
    BY <2>1, <2>2, <2>3 DEF GameType
  <2> QED
    BY <1>1, <2>2, <2>3, <2>4 DEF TurnInv
<1>3. \A c \in Cells : board[c] = EMPTY
  BY DEF GameInit
<1>4. Black = {} /\ White = {}
  BY <1>3 DEF Black, White, EMPTY, AI, HUMAN
<1>5. Cardinality(Black) = 0 /\ Cardinality(White) = 0
  BY <1>4, FS_EmptySet
<1>6. StonesAlternate
  BY <1>2, <1>5, Alternation DEF GameInit
<1>7. ~RowOn(board, HUMAN) /\ ~RowOn(board, AI)
  BY <1>3, EmptyHasNoRow DEF EMPTY, AI, HUMAN
<1>8. WinnerIsExact
  BY <1>7, WinnerRows DEF GameInit
<1> QED
  BY <1>2, <1>6, <1>8 DEF GameInv

\* A new game begins as the first one did.
LEMMA NewGameInv == ASSUME NewGame PROVE GameInv'
<1>1. Size * Size \in Nat /\ 0 < Size * Size
  BY GameAssumption
<1>2. GameType' /\ TurnInv'
  <2>1. board' \in [Cells -> {EMPTY, AI, HUMAN}] /\ lastMove' \in Cells \cup {NoMove}
    BY DEF NewGame
  <2>2. moveCount' = 0 /\ 0 \in 0..Size * Size
    BY <1>1 DEF NewGame
  <2>3. gameOver' = FALSE /\ winner' = "none" /\ turn' = "human"
    BY DEF NewGame
  <2>4. GameType'
    BY <2>1, <2>2, <2>3 DEF GameType
  <2> QED
    BY <1>1, <2>2, <2>3, <2>4 DEF TurnInv
<1>3. \A c \in Cells : board'[c] = EMPTY
  BY DEF NewGame
<1>4. Stones(HUMAN)' = {} /\ Stones(AI)' = {}
  BY <1>3 DEF Stones, EMPTY, AI, HUMAN
<1>5. Cardinality(Stones(HUMAN)') = 0 /\ Cardinality(Stones(AI)') = 0
  BY <1>4, FS_EmptySet
<1>6. StonesAlternate'
  BY <1>5 DEF NewGame, StonesAlternate
<1>7. ~RowOn(board', HUMAN) /\ ~RowOn(board', AI)
  BY <1>3, EmptyHasNoRow DEF EMPTY, AI, HUMAN
<1>8. WinnerIsExact'
  BY <1>7 DEF NewGame, WinnerIsExact, Row, RowOn
<1> QED
  BY <1>2, <1>6, <1>8 DEF GameInv

LEMMA GameNextInv == GameInv /\ [GameNext]_gameVars => GameInv'
<1> SUFFICES ASSUME GameInv, [GameNext]_gameVars PROVE GameInv'
  OBVIOUS
<1>1. ASSUME NEW c \in Cells, humanMove(c) PROVE GameInv'
  BY <1>1, HumanPlaces DEF humanMove, isValidMove, Empty
<1>2. CASE aiMove
  <2>1. PICK c \in getBestMove(board) : Place(AI, c, "ai", "human")
    BY <1>2 DEF aiMove
  <2>2. c \in Cells /\ board[c] = EMPTY /\ turn = "ai"
    BY <1>2, BestMoveIsEmpty DEF Empty, aiMove
  <2> QED
    BY <2>1, <2>2, AiPlaces
<1>3. CASE NewGame
  BY <1>3, NewGameInv
<1>4. CASE UNCHANGED gameVars
  <2>1. GameType' /\ TurnInv'
    BY <1>4 DEF GameInv, GameType, TurnInv, gameVars
  <2>2. StonesAlternate'
    BY <1>4 DEF GameInv, StonesAlternate, Stones, gameVars
  <2>3. WinnerIsExact'
    BY <1>4 DEF GameInv, WinnerIsExact, Row, gameVars
  <2> QED
    BY <2>1, <2>2, <2>3 DEF GameInv
<1> QED
  BY <1>1, <1>2, <1>3, <1>4 DEF GameNext

-----------------------------------------------------------------------------
(* The AI's defence                                                        *)

\* A stone of the AI opens no winning cell for the human.
LEMMA NoNewThreat ==
  ASSUME NEW a \in [Cells -> {EMPTY, AI, HUMAN}], NEW c \in Cells, a[c] = EMPTY, NEW b,
         b = [a EXCEPT ![c] = AI]
  PROVE  WinningCells(b, HUMAN) \subseteq WinningCells(a, HUMAN) \ {c}
<1>1. AI # EMPTY /\ HUMAN # EMPTY /\ AI # HUMAN
  BY DEF AI, HUMAN, EMPTY
<1>2. SUFFICES ASSUME NEW w \in WinningCells(b, HUMAN) PROVE w \in WinningCells(a, HUMAN) /\ w # c
  OBVIOUS
<1>3. w \in Cells /\ b[w] = EMPTY /\ checkwin([b EXCEPT ![w] = HUMAN], w, HUMAN)
  BY <1>2 DEF WinningCells, Empty
<1>4. w # c /\ a[w] = EMPTY
  BY <1>1, <1>3
<1>5. \A x : Holds([b EXCEPT ![w] = HUMAN], x, HUMAN) <=> Holds([a EXCEPT ![w] = HUMAN], x, HUMAN)
  BY <1>1, <1>4 DEF Holds
<1>6. \A d \in Dirs, s \in {1, -1} : RunFrom([b EXCEPT ![w] = HUMAN], w, d, s, HUMAN)
                                     = RunFrom([a EXCEPT ![w] = HUMAN], w, d, s, HUMAN)
  BY <1>5 DEF RunFrom
<1>7. checkwin([a EXCEPT ![w] = HUMAN], w, HUMAN)
  BY <1>3, <1>6 DEF checkwin
<1> QED
  BY <1>3, <1>4, <1>7 DEF WinningCells, Empty

\* A move that the AI makes while the human has at most one winning cell, and that
\* does not end the game, leaves none.
LEMMA Defence ==
  ASSUME GameInv, aiMove, turn' = "human", Cardinality(WinningCells(board, HUMAN)) <= 1
  PROVE  WinningCells(board', HUMAN) = {}
<1>1. PICK c \in getBestMove(board) : Place(AI, c, "ai", "human")
  BY DEF aiMove
<1>2. /\ c \in Cells /\ board[c] = EMPTY /\ turn = "ai"
      /\ board \in [Cells -> {EMPTY, AI, HUMAN}] /\ board' = [board EXCEPT ![c] = AI]
  BY <1>1, BestMoveIsEmpty DEF Empty, aiMove, GameInv, GameType, Place
<1>3. WinningCells(board', HUMAN) \subseteq WinningCells(board, HUMAN) \ {c}
  BY <1>2, NoNewThreat
<1>4. WinningCells(board, AI) \subseteq Cells /\ WinningCells(board, HUMAN) \subseteq Cells
  BY DEF WinningCells, Empty
<1>5. CASE WinningCells(board, AI) # {}
  <2>1. c \in WinningCells(board, AI)
    BY <1>1, <1>4, <1>5, FirstCellIn DEF getBestMove
  <2>2. checkwin(board', c, AI)
    BY <1>2, <2>1 DEF WinningCells
  <2>3. gameOver' /\ turn' = "done"
    BY <1>1, <1>2, <2>2 DEF Place
  <2> QED
    BY <2>3
<1>6. CASE WinningCells(board, AI) = {} /\ WinningCells(board, HUMAN) # {}
  <2> DEFINE W == WinningCells(board, HUMAN)
  <2>1. c \in W
    BY <1>1, <1>4, <1>6, FirstCellIn DEF getBestMove
  <2>2. IsFiniteSet(W)
    BY <1>4, CellsFinite, FS_Subset
  <2>3. IsFiniteSet(W \ {c}) /\ Cardinality(W \ {c}) = Cardinality(W) - 1
    BY <2>1, <2>2, FS_RemoveElement
  <2>4. Cardinality(W) \in Nat /\ Cardinality(W \ {c}) \in Nat
    BY <2>2, <2>3, FS_CardinalityType
  <2>5. Cardinality(W \ {c}) = 0
    BY <2>3, <2>4
  <2>6. W \ {c} = {}
    BY <2>3, <2>5, FS_EmptySet
  <2> QED
    BY <1>3, <2>6
<1>7. CASE WinningCells(board, HUMAN) = {}
  BY <1>3, <1>7
<1> QED
  BY <1>5, <1>6, <1>7

-----------------------------------------------------------------------------
(* The theorems                                                            *)

\* The inductive invariant of the game holds in every reachable state.
THEOREM GameInvariant == GameSpec => []GameInv
BY GameInitInv, GameNextInv, PTL DEF GameSpec

\* All variables keep their types.
THEOREM GameTypeOK == GameSpec => []GameType
<1>1. GameInv => GameType
  BY DEF GameInv
<1> QED
  BY <1>1, GameInvariant, PTL

\* The players alternate, no stone is overwritten, and moveCount_ counts the
\* stones (AiGame.cpp:18-84), on a board of any size.
THEOREM GameStonesAlternate == GameSpec => []StonesAlternate
<1>1. GameInv => StonesAlternate
  BY DEF GameInv
<1> QED
  BY <1>1, GameInvariant, PTL

\* checkwin() looks only at the lines through the last stone (AiGame.cpp:34-66),
\* and still the game is over exactly when the board has a row, and the winner is
\* the player whose row it is.
THEOREM GameWinnerIsExact == GameSpec => []WinnerIsExact
<1>1. GameInv => WinnerIsExact
  BY DEF GameInv
<1> QED
  BY <1>1, GameInvariant, PTL

\* After the AI's move the human can win at once only if two winning cells were
\* open before (AiGame.cpp:124).
THEOREM GameAiDefends == GameSpec => AiDefends
<1>1. GameInv /\ [GameNext]_gameVars =>
        [(turn = "ai" /\ turn' = "human" /\ Cardinality(WinningCells(board, HUMAN)) <= 1)
         => WinningCells(board', HUMAN) = {}]_gameVars
  <2> SUFFICES ASSUME GameInv, GameNext, turn = "ai", turn' = "human",
                      Cardinality(WinningCells(board, HUMAN)) <= 1
               PROVE  WinningCells(board', HUMAN) = {}
    OBVIOUS
  <2>1. aiMove
    BY DEF GameNext, humanMove, NewGame
  <2> QED
    BY <2>1, Defence
<1> QED
  BY <1>1, GameInvariant, PTL DEF GameSpec, AiDefends
=============================================================================
