----------------------------- MODULE FrontDoor -----------------------------
(***************************************************************************)
(* The front door of an ALB (`start-alb`): a listener, the pool of replica *)
(* endpoints behind it, the containers of its Lambda targets, and what the *)
(* command does with them from buildFrontDoor() to its shutdown.           *)
(*                                                                         *)
(* Each request is a small race of its own: the client, the upstream, the  *)
(* authentication check and a timeout each end it, while replicas register *)
(* and unregister.  Upgraded sockets are out of the HTTP server's hands:   *)
(* only their own events close them, and server.close() waits for them.    *)
(***************************************************************************)
EXTENDS Naturals, Sequences, FiniteSets, SequencesExt

CONSTANTS
    Clients,    \* connections; each makes requests, the last of them may be an upgrade
    Replicas,   \* the ECS replicas, by their ownerKey
    Lambdas,    \* the Lambda targets in the order they boot, one runner each
    Wrap,       \* where the cursor starts over, 2^53 - 1 in the code
    MaxBoots,   \* bound: registrations
    Nothing

FrontDoorAssumption ==
    /\ MaxBoots \in Nat /\ Nothing \notin Replicas /\ IsFiniteSet(Replicas)
    /\ Lambdas \in Seq(Range(Lambdas)) /\ IsInjective(Lambdas)
    /\ Wrap \in Nat \ {0}

VARIABLES
    phase,      \* what the command is doing
    next,       \* buildFrontDoor(): how many of the Lambdas are up
    containers, \* docker: the containers of Lambda targets
    entries,    \* FrontDoorEndpointPool.entries
    cursor,     \* FrontDoorEndpointPool.cursor
    up,         \* docker: the replicas that run
    boots,      \* registrations so far
    kind,       \* per client: a request for the pool, for a Lambda, or an upgrade
    stage,      \* per client: where the handling is
    socket,     \* per client: its connection
    upstream,   \* per client: the replica its upstream connection leads to
    early,      \* the clients that left while their authentication was checked
    served      \* history: the replicas picked in this round; where the cursor starts
                \* over a round begins anew, as the length may not divide Wrap

bootVars == <<phase, next, containers>>
poolVars == <<entries, cursor, up, boots>>
clientVars == <<kind, stage, socket, upstream, early>>
vars == <<bootVars, poolVars, clientVars, served>>

Init ==
    /\ phase = "binding" /\ next = 0 /\ containers = {}
    /\ entries = <<>> /\ cursor = 0 /\ up = {} /\ boots = 0
    /\ kind = [c \in Clients |-> "none"] /\ stage = [c \in Clients |-> "none"]
    /\ socket = [c \in Clients |-> "none"] /\ upstream = [c \in Clients |-> Nothing]
    /\ early = {} /\ served = {}

Listening == phase \in {"booting", "serving", "replicas"}

-----------------------------------------------------------------------------
(* buildFrontDoor(), and FrontDoorLambdaRunner.start(). *)

Binds ==
    /\ phase = "binding"
    /\ phase' \in {"booting", "failed"}
    /\ UNCHANGED <<next, containers, poolVars, clientVars, served>>

\* The listeners serve already while the Lambda targets boot.
ContainerRuns ==
    /\ phase = "booting" /\ next < Len(Lambdas) /\ Lambdas[next + 1] \notin containers
    /\ containers' = containers \cup {Lambdas[next + 1]}
    /\ UNCHANGED <<phase, next, poolVars, clientVars, served>>

RieReady ==
    /\ phase = "booting" /\ next < Len(Lambdas) /\ Lambdas[next + 1] \in containers
    /\ next' = next + 1
    /\ UNCHANGED <<phase, containers, poolVars, clientVars, served>>

\* The image, the container or its RIE fails; doStart() removes its own container.
LambdaFails ==
    /\ phase = "booting" /\ next < Len(Lambdas)
    /\ phase' = "undoing"
    /\ containers' = containers \ {Lambdas[next + 1]}
    /\ UNCHANGED <<next, poolVars, clientVars, served>>

Boots ==
    /\ phase = "booting" /\ next = Len(Lambdas)
    /\ phase' = "serving"
    /\ UNCHANGED <<next, containers, poolVars, clientVars, served>>

-----------------------------------------------------------------------------
(* The endpoints: a replica registers once it answers, and unregisters before *)
(* its container goes. *)

\* A replica has one entry at most: to register again replaces it.
Without(r) ==
    IF r \in Range(entries) THEN RemoveAt(entries, CHOOSE k \in DOMAIN entries : entries[k] = r)
    ELSE entries

Register(r) ==
    /\ phase = "serving" /\ boots < MaxBoots /\ r \notin up
    /\ up' = up \cup {r} /\ boots' = boots + 1
    /\ entries' = Append(Without(r), r)
    /\ served' = {}
    /\ UNCHANGED <<bootVars, cursor, clientVars>>

Unregister(r) ==
    /\ phase \in {"serving", "replicas"} /\ r \in Range(entries)
    /\ entries' = Without(r)
    /\ served' = {}
    /\ UNCHANGED <<bootVars, cursor, up, boots, clientVars>>

ReplicaGone(r) ==
    /\ r \in up \ Range(entries)
    /\ up' = up \ {r}
    /\ UNCHANGED <<bootVars, entries, cursor, boots, clientVars, served>>

(* Mutation: the cursor follows the length of the pool, and starts over at 1. *)
RestartedCursor(c) == IF c + 1 < Len(entries) THEN c + 1 ELSE 1

Advanced(c) == (c + 1) % Wrap

\* next(), of a pool that is not empty.
Endpoint == entries[(cursor % Len(entries)) + 1]

Picks(c) ==
    LET e == Endpoint
        all == served \cup {e} IN
    /\ upstream' = [upstream EXCEPT ![c] = e]
    /\ stage' = [stage EXCEPT ![c] = "waiting"]
    /\ cursor' = Advanced(cursor)
    /\ served' = IF all = Range(entries) \/ cursor = Wrap - 1 THEN {} ELSE all

-----------------------------------------------------------------------------
(* A request: handleProxyRequest() or handleUpgrade(), until it is over. *)

Live(c) == stage[c] \notin {"none", "over"}

\* The handling of c ends and its upstream, if any, is destroyed.
Over(c) ==
    /\ stage' = [stage EXCEPT ![c] = "over"]
    /\ upstream' = [upstream EXCEPT ![c] = Nothing]

\* A connection over HTTP is kept for the next request.
Arrives(c) ==
    /\ Listening
    /\ stage[c] = "none" \/ (stage[c] = "over" /\ socket[c] = "open")
    /\ \E k \in {"pool", "lambda", "upgrade"} : kind' = [kind EXCEPT ![c] = k]
    /\ \E s \in {"checked", "auth"} : stage' = [stage EXCEPT ![c] = s]
    /\ socket' = [socket EXCEPT ![c] = "open"]
    /\ UNCHANGED <<bootVars, poolVars, upstream, early, served>>

\* An error or a redirect: a client over HTTP keeps its connection, an upgrade is ended
\* from this side only.
Rejected(c) ==
    /\ Over(c)
    /\ socket' = IF kind[c] = "upgrade" /\ socket[c] = "open"
                 THEN [socket EXCEPT ![c] = "ended"] ELSE socket

AuthChecked(c) ==
    /\ stage[c] = "auth"
    /\ \/ stage' = [stage EXCEPT ![c] = "checked"] /\ UNCHANGED <<socket, upstream>>
       \/ Rejected(c)
    /\ UNCHANGED <<bootVars, poolVars, kind, early, served>>

\* serveAction(), at once when there was nothing to check.
Dispatches(c) ==
    /\ stage[c] = "checked"
    /\ CASE kind[c] = "lambda" ->
              /\ IF \E l \in Range(SubSeq(Lambdas, 1, next)) : l \in containers
                 THEN stage' = [stage EXCEPT ![c] = "invoking"] /\ UNCHANGED <<socket, upstream>>
                 ELSE Rejected(c)
              /\ UNCHANGED <<cursor, served>>
         [] kind[c] # "lambda" /\ entries = <<>> -> Rejected(c) /\ UNCHANGED <<cursor, served>>
         [] OTHER -> Picks(c) /\ UNCHANGED socket
    /\ UNCHANGED <<bootVars, entries, up, boots, kind, early>>

\* The upstream answers, or connects: bytes flow.
Responds(c) ==
    /\ stage[c] = "waiting" /\ upstream[c] \in up
    /\ stage' = [stage EXCEPT ![c] = "flowing"]
    /\ UNCHANGED <<bootVars, poolVars, kind, socket, upstream, early, served>>

\* The answer is complete; the Lambda's is one piece.
Finishes(c) ==
    /\ \/ stage[c] = "flowing" /\ kind[c] = "pool" /\ upstream[c] \in up
       \/ stage[c] = "invoking"
    /\ Over(c)
    /\ UNCHANGED <<bootVars, poolVars, kind, socket, early, served>>

\* The upstream fails or closes.  Before the first byte a client over HTTP is told so;
\* an upgrade, and an answer that has begun, are cut.
UpstreamCloses(c) ==
    /\ stage[c] \in {"waiting", "flowing"}
    /\ Over(c)
    /\ socket' = IF kind[c] = "upgrade" \/ stage[c] = "flowing"
                 THEN [socket EXCEPT ![c] = "gone"] ELSE socket
    /\ UNCHANGED <<bootVars, poolVars, kind, early, served>>

\* upstreamTimeoutMs, of a request; an upgrade has none.
TimesOut(c) ==
    /\ stage[c] \in {"waiting", "flowing"} /\ kind[c] = "pool"
    /\ Over(c)
    /\ socket' = IF stage[c] = "flowing" THEN [socket EXCEPT ![c] = "gone"] ELSE socket
    /\ UNCHANGED <<bootVars, poolVars, kind, early, served>>

(* Mutation: the upstream is left to itself. *)
NobodyListens(c) == UNCHANGED <<stage, upstream>>

\* 'close' of the client's connection: the upstream goes with it, if there is a listener
\* by then, and a Lambda is not told.
SocketClosed(c) ==
    IF stage[c] \in {"waiting", "flowing"} THEN Over(c) ELSE UNCHANGED <<stage, upstream>>

ClientCloses(c) ==
    /\ socket[c] \in {"open", "ended"} /\ c \notin early
    /\ socket' = [socket EXCEPT ![c] = "gone"]
    /\ SocketClosed(c)
    /\ early' = IF stage[c] \in {"auth", "checked"} THEN early \cup {c} ELSE early
    /\ UNCHANGED <<bootVars, poolVars, kind, served>>

-----------------------------------------------------------------------------
(* The shutdown: replicas, then listeners, then Lambda targets. *)

Signal ==
    /\ phase = "serving"
    /\ phase' = "replicas"
    /\ UNCHANGED <<next, containers, poolVars, clientVars, served>>

(* Mutation: the listeners are closed while the replicas still run. *)
ListenersFirst == TRUE

ReplicasDown == up = {}

\* server.close() and closeAllConnections(), which reaches the connections over HTTP.
CloseListeners ==
    /\ \/ phase = "replicas" /\ ReplicasDown /\ phase' = "servers"
       \/ phase = "undoing" /\ phase' = "closing"
    /\ LET cut == {c \in Clients : socket[c] = "open" /\ kind[c] # "upgrade"} IN
       /\ socket' = [c \in Clients |-> IF c \in cut THEN "gone" ELSE socket[c]]
       /\ stage' = [c \in Clients |->
            IF c \in cut /\ stage[c] \in {"waiting", "flowing"} THEN "over" ELSE stage[c]]
       /\ upstream' = [c \in Clients |-> IF c \in cut THEN Nothing ELSE upstream[c]]
       /\ early' = early \cup {c \in cut : stage[c] \in {"auth", "checked"}}
    /\ UNCHANGED <<next, containers, poolVars, kind, served>>

\* The callback of server.close(): every connection has ended.
ListenersClosed ==
    /\ phase \in {"servers", "closing"}
    /\ \A c \in Clients : socket[c] \in {"none", "gone"}
    /\ phase' = IF phase = "servers" THEN "lambdas" ELSE "failing"
    /\ UNCHANGED <<next, containers, poolVars, clientVars, served>>

StopLambdas ==
    /\ phase \in {"lambdas", "failing"}
    /\ phase' = IF phase = "lambdas" THEN "done" ELSE "failed"
    /\ containers' = {}
    /\ UNCHANGED <<next, poolVars, clientVars, served>>

-----------------------------------------------------------------------------

Command == Binds \/ ContainerRuns \/ RieReady \/ LambdaFails \/ Boots \/ CloseListeners \/ ListenersClosed \/ StopLambdas
Shutdown == phase = "replicas" /\ \E r \in Replicas : Unregister(r) \/ ReplicaGone(r)
Cut(c) == upstream[c] \notin up /\ UpstreamCloses(c)
HalfClosed(c) == socket[c] = "ended" /\ ClientCloses(c)
Handling(c) == AuthChecked(c) \/ Dispatches(c)

Next ==
    \/ Command \/ Signal
    \/ \E r \in Replicas : Register(r) \/ Unregister(r) \/ ReplicaGone(r)
    \/ \E c \in Clients :
        \/ Arrives(c) \/ Handling(c) \/ Responds(c) \/ Finishes(c)
        \/ UpstreamCloses(c) \/ TimesOut(c) \/ ClientCloses(c)

Spec == Init /\ [][Next]_vars

\* The command and its handlers go on, an authentication check ends by its own timeout,
\* docker cuts the connections of a container it removes, and a client that is told the
\* connection is over closes its side.  Nobody has to answer, to close or to signal.
FairSpec ==
    /\ Spec /\ WF_vars(Command) /\ WF_vars(Shutdown)
    /\ \A c \in Clients : WF_vars(Handling(c)) /\ WF_vars(Cut(c)) /\ WF_vars(HalfClosed(c))

-----------------------------------------------------------------------------
(* Properties. *)

\* No connection to a replica outlives the client it was opened for, but for a client
\* that left before anyone listened.
UpstreamReleased ==
    \A c \in Clients : upstream[c] # Nothing => socket[c] = "open" \/ c \in early

\* A Lambda target is there as long as a client waits for it, and none is left when the
\* front door is down.
LambdasHeld ==
    /\ phase \in {"done", "failed"} => containers = {}
    /\ \A c \in Clients : stage[c] = "invoking" /\ socket[c] = "open" => containers # {}

\* While the pool stays as it is, a round serves no replica twice, up to where the cursor
\* starts over.
RoundRobin ==
    [][\A c \in Clients : stage[c] = "checked" /\ stage'[c] = "waiting" => upstream'[c] \notin served]_vars

\* The shutdown ends, open WebSockets or not, and so does that of a front door that could
\* not boot.  (phase only goes on, so this is the same as ~>.)
GoingDown == {"replicas", "servers", "lambdas", "undoing", "closing", "failing"}
ShutsDown == <>[](phase \notin GoingDown)

=============================================================================
