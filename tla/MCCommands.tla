---------------------------- MODULE MCCommands ----------------------------
\* What the commands run on: a task of three containers, two web functions, two functions
\* behind Function URLs and one edge function, and three APIs.
EXTENDS Commands

CONSTANTS w1, w2

\* A container that comes first in the template depends on the last one, on both
\* others, or on one that depends on it.
ThreeContainers == <<"x", "y", "z">>
On(n, k) == [on |-> n, condition |-> k]
Conditions == {"START", "COMPLETE", "SUCCESS", "HEALTHY"}
NoDependency == [x |-> <<>>, y |-> <<>>, z |-> <<>>]
Graphs ==
    {[NoDependency EXCEPT !.x = <<On("z", k)>>, !.y = <<On("x", l)>>] : k \in Conditions, l \in {"START", "SUCCESS"}}
    \cup {[NoDependency EXCEPT !.x = <<On("y", k), On("z", k)>>] : k \in Conditions}
    \cup {[NoDependency EXCEPT !.x = <<On("y", "START")>>, !.y = <<On("x", "START")>>], NoDependency}

TwoUrls == <<"u", "v">>
OneEdge == <<"e">>
NoneOrBoth == {<<>>, <<w1, w2>>}

\* Two HTTP APIs, a WebSocket API that shares the Lambda of the second, whose layer is
\* downloaded.
HttpApis == <<"h", "k">>
OneSocket == <<"s">>
BackedBy == [h |-> {"g"}, k |-> {"f"}, s |-> {"f"}]
InOrder == <<"g", "f">>
=============================================================================
