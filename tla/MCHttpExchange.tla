--------------------------- MODULE MCHttpExchange ---------------------------
(* Instances of HttpExchange for TLC. *)
EXTENDS HttpExchange, TLC

H(name, value) == [name |-> name, value |-> value]

Names == {"connection", "keep-alive", "transfer-encoding", "content-length",
          "content-type", "content-encoding", "host", "x-a", "x-b", "up", "other", ""}
MCLower == [n \in Names |-> n] @@ "Connection" :> "connection" @@ "X-A" :> "x-a" @@ "Up" :> "up"

MCTokens == "close, X-A" :> {"close", "x-a"} @@ "x-b" :> {"x-b"} @@ "close" :> {"close"}
MCNumber == "0" :> 0 @@ "1" :> 1 @@ "2" :> 2 @@ "+1" :> NotDecimal
MCCleaned == [s \in {"", "p", "up", "Up", "other", "*"} |-> s] @@ "p<tab>" :> "p" @@ "<tab>" :> ""

MCAscii == {"0", "1", "2", "+1", "a", "b", "gzip", "text", "close, X-A", "x-b", "close", "chunked",
            "up", "Up", "other"}
\* The bytes of an e with an acute accent and of a euro sign in UTF-8; in iso-8859-1
\* the first is the one byte E9, and the second has no encoding.
MCRecoded == "C3 A9" :> "E9" @@ "E2 82 AC" :> "euro"
MCLatin1 == MCAscii \cup {"C3 A9", "E2 82 AC", "E9"}

Framings == {<<>>, <<H("content-length", "1")>>, <<H("content-length", "2")>>,
             <<H("content-length", "+1")>>, <<H("transfer-encoding", "chunked")>>,
             <<H("content-length", "0"), H("content-length", "1")>>}
Hosts == {<<>>, <<H("host", "up")>>, <<H("host", "Up")>>, <<H("host", "up"), H("host", "other")>>}
Connections == {<<>>, <<H("Connection", "close, X-A")>>,
                <<H("connection", "close, X-A"), H("Connection", "x-b")>>}
Own == <<H("x-a", "a"), H("x-b", "b"), H("X-A", "b"), H("keep-alive", "a")>>

Request(target, headers, head, sends) ==
    [wellFormed |-> TRUE, target |-> target, headers |-> headers, head |-> head, sends |-> sends]
Target(scheme, segments) == [scheme |-> scheme, segments |-> segments]

MCPaths == {<<"", "">>, <<"", "p">>, <<"", "", "up", "p">>}
Origin == Target(NoScheme, <<"", "p">>)
\* /, //up/p, //other, * and nothing, with a tab here and there.
OddPaths == {<<"", "">>, <<"", "", "up", "p">>, <<"", "", "other">>, <<"*">>, <<"">>,
             <<"", "p<tab>">>, <<"", "<tab>", "other", "p">>}
Typical == <<H("host", "up")>> \o Own \o <<H("content-length", "1")>>

\* Every mixture of the headers the proxy looks at, every kind of target, and every
\* boundary for one of them.
MCRequests ==
    {Request(Origin, host \o Own \o connection \o framing, 1, 2) :
        host \in Hosts, connection \in Connections, framing \in Framings}
    \cup {Request(Target(scheme, segments), Typical, 1, 2) :
             scheme \in {NoScheme, "http", "https", "HTTP"}, segments \in OddPaths}
    \cup {Request(Target("http", <<"", "", "Up", "p">>), host \o framing, 1, 2) :
             host \in Hosts, framing \in Framings}
    \cup {Request(Origin, Typical, head, sends) : head \in 1 .. 4, sends \in 0 .. 5}
    \cup {Request(Origin, <<H("x-a", "E9")>> \o Typical, 1, 2)}
    \cup {[Request(Origin, Typical, 1, 2) EXCEPT !.wellFormed = FALSE]}

Plain(n) == [gzip |-> FALSE, size |-> n, inflated |-> n]
Gzip(n) == [gzip |-> TRUE, size |-> 1, inflated |-> n]

MCResponses ==
    {[headers |-> connection \o Own \o framing, body |-> Plain(1)] :
        connection \in Connections,
        framing \in {<<>>, <<H("content-length", "1")>>, <<H("transfer-encoding", "chunked")>>}}
    \cup {[headers |-> <<H("content-encoding", "gzip"), H("content-length", "1")>>,
           body |-> Gzip(n)] : n \in {2, 3}}
    \cup {[headers |-> <<H("x-a", value), H("x-b", other)>>, body |-> Plain(0)] :
             value \in {"C3 A9", "E2 82 AC"}, other \in {"a", "E9"}}
=============================================================================
