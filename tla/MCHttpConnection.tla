-------------------------- MODULE MCHttpConnection --------------------------
(* Requests for HttpConnection, one for each path through parser and server. *)
EXTENDS HttpConnection

Get == [method |-> "GET", path |-> "/menu", version |-> "1.1",
        connection |-> "none", header |-> "none", length |-> 0, junk |-> FALSE]
Post == [Get EXCEPT !.method = "POST", !.path = "/login",
                    !.header = "number", !.length = 2]

MCRoutes == {<<"GET", "/menu">>, <<"POST", "/login">>}
MCShapes ==
  { Get, Post,
    [Get EXCEPT !.connection = "close"],
    [Get EXCEPT !.version = "1.0", !.connection = "Keep-Alive"],
    [Get EXCEPT !.version = "2.0"],
    [Get EXCEPT !.method = "OPTIONS"],
    [Get EXCEPT !.path = "/nowhere"],
    [Get EXCEPT !.junk = TRUE, !.connection = "Keep-Alive"],
    [Post EXCEPT !.length = 0],
    [Post EXCEPT !.length = -1],
    [Post EXCEPT !.header = "none"],
    [Post EXCEPT !.header = "text"] }
=============================================================================
