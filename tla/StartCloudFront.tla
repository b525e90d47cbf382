-------------------------- MODULE StartCloudFront --------------------------
(***************************************************************************)
(* `cdkl start-cloudfront`                                                 *)
(* (src/src/cli/commands/local-start-cloudfront.ts and                     *)
(* src/src/local/cloudfront-server.ts): the containers of Function URL     *)
(* origins and Lambda@Edge functions and the web functions it boots one    *)
(* after the other, the distribution that --watch swaps under the requests,*)
(* and the three ways it ends: a boot that fails, a signal while it boots, *)
(* a signal while it serves.                                               *)
(***************************************************************************)
EXTENDS WebFunctionServe, Naturals, Sequences

CONSTANTS
    Urls, Edges,   \* the functions with a container, in the order they boot; one that
                   \* is both an origin and at the edge has two and counts as two
    MaxUpdates     \* bound: reloads

Functions == {Urls[i] : i \in DOMAIN Urls} \cup {Edges[i] : i \in DOMAIN Edges}

FrontAssumption ==
    /\ MaxUpdates \in Nat
    /\ Urls \in Seq(Functions) /\ Edges \in Seq(Functions)
    /\ \A i, j \in DOMAIN Urls : Urls[i] = Urls[j] => i = j
    /\ \A i, j \in DOMAIN Edges : Edges[i] = Edges[j] => i = j
    /\ \A i \in DOMAIN Urls, j \in DOMAIN Edges : Urls[i] # Edges[j]

Booting == {"urls", "edges", "web", "bind", "unbooting", "unwinding"}

VARIABLES
    cf,          \* what the command awaits, or how it ended
    origins,     \* the web function origins, in order
    at,          \* how many of the current kind are booted
    lambdas,     \* docker: containers of functions
    runners,     \* lambdaRunners and edgeRunners
    sink,        \* webFunctionServes
    bootAborted,
    version,     \* state.distribution
    inflight,    \* the stage of a request
    snapshot,    \* the distribution it began with
    consulted    \* the distributions its stages have read

bootVars == <<origins, at, lambdas, runners, sink, bootAborted>>
requestVars == <<inflight, snapshot, consulted>>
frontVars == <<cf, bootVars, version, requestVars>>

FrontInit ==
    /\ cf = "urls" /\ at = 0 /\ lambdas = {} /\ runners = {} /\ sink = {}
    /\ bootAborted = FALSE /\ version = 0
    /\ inflight = "none" /\ snapshot = 0 /\ consulted = {}

FrontAlive == cf \notin {"exited", "killed"}

-----------------------------------------------------------------------------
(* The boot. *)

Queue == CASE cf = "urls" -> Urls [] cf = "edges" -> Edges [] cf = "web" -> origins

Pending == cf \in {"urls", "edges", "web"} /\ at < Len(Queue)
Current == Queue[at + 1]

BootQuiet == UNCHANGED <<origins, sink, bootAborted, version, requestVars, serveVars>>

ContainerRuns ==
    /\ Pending /\ cf # "web" /\ Current \notin lambdas
    /\ lambdas' = lambdas \cup {Current}
    /\ UNCHANGED <<cf, at, runners>> /\ BootQuiet

RieAnswers ==
    /\ Pending /\ cf # "web" /\ Current \in lambdas
    /\ runners' = runners \cup {Current} /\ at' = at + 1
    /\ UNCHANGED <<cf, lambdas>> /\ BootQuiet

EarlierStopped == "unwinding"

\* A Function URL origin is essential: its own start has removed its container, and
\* those that run already are stopped before it throws.
UrlFails ==
    /\ Pending /\ cf = "urls"
    /\ lambdas' = lambdas \ {Current}
    /\ cf' = EarlierStopped
    /\ UNCHANGED <<at, runners>> /\ BootQuiet

\* An edge function is not: its stage will be skipped.
EdgeFails ==
    /\ Pending /\ cf = "edges"
    /\ lambdas' = lambdas \ {Current} /\ at' = at + 1
    /\ UNCHANGED <<cf, runners>> /\ BootQuiet

Booted ==
    /\ cf \in {"urls", "edges", "web"} /\ at = Len(Queue)
    /\ cf' = CASE cf = "urls" -> "edges" [] cf = "edges" -> "web" [] cf = "web" -> "bind"
    /\ at' = 0
    /\ UNCHANGED <<lambdas, runners>> /\ BootQuiet

\* A web function is in the sink before it starts.
ServeBegins ==
    /\ Pending /\ cf = "web"
    /\ Begins(Current)
    /\ sink' = sink \cup {Current}
    /\ UNCHANGED <<cf, origins, at, lambdas, runners, bootAborted, version, requestVars,
                   bundle, container, id, teardown>>

ServeUp ==
    /\ Pending /\ cf = "web" /\ start[Current] = "up"
    /\ at' = at + 1
    /\ UNCHANGED <<cf, lambdas, runners>> /\ BootQuiet

\* It failed, or was stopped by a signal: all of them are torn down.
ServeFails ==
    /\ Pending /\ cf = "web" /\ start[Current] \in {"stopped", "thrown"}
    /\ cf' = "unbooting"
    /\ TearsDown(sink)
    /\ UNCHANGED <<bootVars, version, requestVars, start, bundle, container, id>>

SinkDown == \A s \in sink : Down(s)

Unboots ==
    /\ cf = "unbooting" /\ SinkDown
    /\ cf' = "unwinding"
    /\ UNCHANGED <<at, lambdas, runners>> /\ BootQuiet

\* TLS and the port.
BindFails ==
    /\ cf = "bind"
    /\ cf' = "unwinding"
    /\ TearsDown(sink)
    /\ UNCHANGED <<bootVars, version, requestVars, start, bundle, container, id>>

Bound ==
    /\ cf = "bind"
    /\ cf' = IF bootAborted THEN "forever" ELSE "serving"
    /\ UNCHANGED <<at, lambdas, runners>> /\ BootQuiet

\* All runners are stopped at the same time, here and in the shutdown.
StopsRunner(f) ==
    /\ cf \in {"unwinding", "stopping"} /\ f \in runners \cap lambdas
    /\ lambdas' = lambdas \ {f}
    /\ UNCHANGED <<cf, at, runners>> /\ BootQuiet

Unwound ==
    /\ cf = "unwinding" /\ runners \cap lambdas = {} /\ SinkDown
    /\ cf' = IF bootAborted THEN "forever" ELSE "exited"
    /\ UNCHANGED <<at, lambdas, runners>> /\ BootQuiet

-----------------------------------------------------------------------------
(* A signal while it boots. *)

\* The handler is armed only for a distribution with a web function origin.
UnarmedSignal ==
    /\ cf \in Booting /\ origins = <<>>
    /\ cf' = "killed"
    /\ UNCHANGED <<at, lambdas, runners>> /\ BootQuiet

\* It drains the web functions, and only those; with none yet it exits at once.
BootSignal ==
    /\ cf \in Booting /\ origins # <<>> /\ ~bootAborted
    /\ bootAborted' = TRUE
    /\ TearsDown(sink)
    /\ cf' = IF sink = {} THEN "exited" ELSE cf
    /\ UNCHANGED <<origins, at, lambdas, runners, sink, version, requestVars, start, bundle, container, id>>

\* Then those appended while it drained.
NextBatch ==
    /\ FrontAlive /\ bootAborted /\ ~SinkDown
    /\ \A s \in sink : TornDown(s) => Down(s)
    /\ TearsDown(sink)
    /\ UNCHANGED <<cf, bootVars, version, requestVars, start, bundle, container, id>>

Drained ==
    /\ FrontAlive /\ bootAborted /\ SinkDown
    /\ cf' = "exited"
    /\ UNCHANGED <<at, lambdas, runners>> /\ BootQuiet

-----------------------------------------------------------------------------
(* Requests, and the reloads under them. *)

RequestQuiet == UNCHANGED <<cf, bootVars, version, serveVars>>

\* The request takes the distribution and picks its behavior.
Accept ==
    /\ cf = "serving" /\ inflight = "none"
    /\ inflight' = "request" /\ snapshot' = version /\ consulted' = {version}
    /\ RequestQuiet

OriginOf == snapshot

\* Its function and edge functions answer it, rewrite it, or throw; the origin is
\* looked up and asked; the response stages follow.
Requested ==
    /\ inflight = "request"
    /\ inflight' \in {"origin", "done"}
    /\ UNCHANGED <<snapshot, consulted>> /\ RequestQuiet

OriginAnswers ==
    /\ inflight = "origin"
    /\ inflight' \in {"response", "done"}
    /\ consulted' = consulted \cup {OriginOf}
    /\ UNCHANGED snapshot /\ RequestQuiet

Responded ==
    /\ inflight = "response"
    /\ inflight' = "done"
    /\ UNCHANGED <<snapshot, consulted>> /\ RequestQuiet

\* server.update() of a reload that succeeded; one that fails changes nothing.
Update ==
    /\ cf \in {"serving", "closing"} /\ version < MaxUpdates
    /\ version' = version + 1
    /\ UNCHANGED <<cf, bootVars, requestVars, serveVars>>

-----------------------------------------------------------------------------
(* The shutdown. *)

ServingSignal ==
    /\ cf = "serving"
    /\ cf' = "closing"
    /\ UNCHANGED <<at, lambdas, runners>> /\ BootQuiet

\* server.close() answers once no request is in flight.
ServerClosed == inflight \in {"none", "done"}

Closes ==
    /\ cf = "closing" /\ ServerClosed
    /\ cf' = "stopping"
    /\ TearsDown(sink)
    /\ UNCHANGED <<bootVars, version, requestVars, start, bundle, container, id>>

Stopped ==
    /\ cf = "stopping" /\ runners \cap lambdas = {} /\ SinkDown
    /\ cf' = "exited"
    /\ UNCHANGED <<at, lambdas, runners>> /\ BootQuiet

Handling == Requested \/ OriginAnswers \/ Responded

FrontStep ==
    \/ ContainerRuns \/ RieAnswers \/ UrlFails \/ EdgeFails \/ Booted
    \/ ServeBegins \/ ServeUp \/ ServeFails \/ Unboots \/ BindFails \/ Bound
    \/ (\E f \in Functions : StopsRunner(f)) \/ Unwound \/ NextBatch \/ Drained
    \/ Closes \/ Stopped

FrontNext ==
    /\ FrontAlive
    /\ \/ FrontStep \/ UnarmedSignal \/ BootSignal
       \/ Accept \/ Handling \/ Update \/ ServingSignal
       \/ \E s \in Serves : (ServeStep(s) \/ ServerExits(s)) /\ UNCHANGED frontVars

-----------------------------------------------------------------------------
(* Properties. *)

\* However the command ends by itself, its web functions are gone and so are its
\* Lambda containers, but for those of a signal while it boots: the handler of that
\* moment drains the web functions alone.
FrontLeavesNothing ==
    cf = "exited" => (\A s \in sink : Gone(s)) /\ (lambdas # {} => bootAborted)

\* A request is served by one distribution, whatever is reloaded under it.
OneDistribution == \A d, e \in consulted : d = e

\* No container is taken from a request in flight.
ServedToTheEnd ==
    inflight \notin {"none", "done"} =>
        runners \subseteq lambdas /\ \A s \in sink : ~TornDown(s)

=============================================================================
