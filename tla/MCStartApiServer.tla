-------------------------- MODULE MCStartApiServer --------------------------
\* Two requests to a server with two containers; two for a single one, of which one is a
\* buffered invocation; two connections, one of them to an API without $connect, three
\* frames each, two of which fit into the buffer before the verdict; up to three routes of
\* an HTTP API, which has a CORS configuration, and of a REST API; every glob of up to four
\* characters or segments, and every name or path of up to three.  Every request may meet
\* every state of a reload or a shutdown.
EXTENDS RunningServer

CONSTANTS r1, c1, w1, w2

OneBuffered == {kinds \in [Requests -> Q!Kinds] : kinds[r1] = "buffered"}

Patterns ==
    {[tier |-> "full", segments |-> q] : q \in {<<"a">>, <<"{x}">>, <<"a", "{x}">>, <<"{x}", "a">>}}
    \cup {[tier |-> "greedy", segments |-> q] : q \in {<<>>, <<"a">>, <<"{x}">>}}
    \cup {[tier |-> "$default", segments |-> <<>>]}
Declared(api, methods, patterns) ==
    {[api |-> api, method |-> m, tier |-> q.tier, segments |-> q.segments] : m \in methods, q \in patterns}

DeclaredRoutes ==
    Declared("http", {"GET", "ANY", "OPTIONS"}, Patterns)
    \cup Declared("rest", {"GET", "OPTIONS"}, {q \in Patterns : q.segments \in {<<"a">>, <<"{x}">>}})
AskedPaths == {<<>>, <<"a">>, <<"b">>, <<"a", "a">>, <<"b", "a">>}
CorsMethods == [api \in {"http"} |-> {"GET"}]
=============================================================================
