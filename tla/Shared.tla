------------------------------- MODULE Shared -------------------------------
(***************************************************************************)
(* What several actors share: the docker networks of concurrent runs, the  *)
(* caches of authorizers, the front door of an ALB, the timeline and the   *)
(* serves of studio.  No two of the five components touch the same state,  *)
(* so one of them runs at a time.                                          *)
(***************************************************************************)
EXTENDS Naturals

CONSTANTS
    Nothing,
    Runs, HostOf, TaskRoles, Octets,                           \* SvcNetworks
    Requests, VerdictTtl, KeysTtl, FailureTtl, Expiry, MaxClock,  \* Authorizers
    Clients, Replicas, Lambdas, Wrap, MaxBoots,                \* FrontDoor
    Invokes, Proxied, MaxRows, MaxLogs, MaxDrops,              \* StudioTimeline
    MaxServes, MaxProxies, Upstreams                           \* StudioServeManager

VARIABLES
    program,
    at, names, name, octet, roles, subnet, sidecar, netReplicas, listed,
    kind, ttl, clock, verdicts, keys, step, request, admitted, granted, failedAt,
    phase, next, containers, entries, cursor, up, boots, asks, stage, socket, upstream,
    early, served,
    run, left, ended, said, store, logs, stream, wire, history, reply, drops, caughtUp,
    page, heard,
    entry, status, settled, stopping, child, signalled, stop, awaits, proxies, proxy,
    doomed, published, studio, swept

networkVars == <<at, names, name, octet, roles, subnet, sidecar, netReplicas, listed>>
authVars == <<kind, ttl, clock, verdicts, keys, step, request, admitted, granted, failedAt>>
doorVars == <<phase, next, containers, entries, cursor, up, boots, asks, stage, socket,
    upstream, early, served>>
timelineVars == <<run, left, ended, said, store, logs, stream, wire, history, reply, drops,
    caughtUp, page, heard>>
studioVars == <<entry, status, settled, stopping, child, signalled, stop, awaits, proxies,
    proxy, doomed, published, studio, swept>>
vars == <<program, networkVars, authVars, doorVars, timelineVars, studioVars>>

N == INSTANCE SvcNetworks WITH None <- Nothing, replicas <- netReplicas
A == INSTANCE Authorizers
F == INSTANCE FrontDoor WITH kind <- asks
L == INSTANCE StudioTimeline
S == INSTANCE StudioServeManager WITH Nobody <- Nothing

ASSUME SharedAssumption ==
    /\ N!SvcNetworksAssumption /\ A!AuthorizersAssumption /\ F!FrontDoorAssumption
    /\ L!TimelineAssumption /\ S!ServeAssumption

Init ==
    /\ program \in {"networks", "authorizers", "front door", "timeline", "serves"}
    /\ N!Init /\ A!Init /\ F!Init /\ L!Init /\ S!Init
    /\ program # "authorizers" => kind = "alb" /\ ttl = VerdictTtl

Shares(action) == program = "networks" /\ action
    /\ UNCHANGED <<program, authVars, doorVars, timelineVars, studioVars>>
Authorizes(action) == program = "authorizers" /\ action
    /\ UNCHANGED <<program, networkVars, doorVars, timelineVars, studioVars>>
Fronts(action) == program = "front door" /\ action
    /\ UNCHANGED <<program, networkVars, authVars, timelineVars, studioVars>>
Records(action) == program = "timeline" /\ action
    /\ UNCHANGED <<program, networkVars, authVars, doorVars, studioVars>>
Manages(action) == program = "serves" /\ action
    /\ UNCHANGED <<program, networkVars, authVars, doorVars, timelineVars>>

Next ==
    \/ Shares(N!Next) \/ Authorizes(A!Next) \/ Fronts(F!Next) \/ Records(L!Next)
    \/ Manages(S!Next)

\* The steps that are certain to come.  The shutdown of the front door and the serves of
\* studio take a bounded number of them, so that they need not be fair one by one; clients
\* of the front door come back.
Certain ==
    \/ Fronts(F!Command \/ F!Shutdown)
    \/ Manages(\E s \in S!Serves : S!Own(s) \/ S!SigkillArrives(s))
    \/ Manages((\E p \in S!Proxies : S!Settling(p)) \/ S!ServerCloses)

Spec ==
    /\ Init /\ [][Next]_vars /\ WF_vars(Certain)
    /\ \A i \in Clients : WF_vars(Fronts(F!Handling(i) \/ F!Cut(i) \/ F!HalfClosed(i)))

\* What is shared lasts as long as those it is for, and no longer: the networks of runs
\* and what a sweep finds of dead ones, the connections to replicas, the containers of
\* Lambda targets.
Released == N!LiveKept /\ N!OrphansReclaimed /\ F!UpstreamReleased /\ F!LambdasHeld

\* Nobody is let through but by an authorizer that said so for that route, by a token
\* that proves its claims, or while its issuer cannot be reached.
Authorized == A!LambdaSaidSo /\ A!BlindOnlyBriefly

\* What studio lists can still answer, no child is out of its reach, no capture proxy
\* outlives its serve, and a studio that has ended waited for its children.
Listed == S!TypeOK /\ S!Listed /\ S!ProxiesReleased /\ S!CleanExit

\* A row that shows how its invocation ended shows that from then on, and a page whose
\* stream was on when its history was taken shows what is kept.  A serve the user has
\* stopped is never shown as anything else.
WhatIsShown == L!EndsAreFinal /\ []L!ShowsWhatIsKept /\ S!StopIsFinal

\* While the pool stays as it is, a round serves no replica twice, up to where the cursor
\* starts over.
RoundRobin == F!RoundRobin

\* A front door that has begun to go down ends, its servers closed and its Lambda targets
\* stopped, whatever replicas, requests and open WebSockets are doing.
ShutsDown == F!ShutsDown

\* The starts, the stops and the shutdown of studio end, whatever its children do.
Settles == <>[]S!Over
=============================================================================
