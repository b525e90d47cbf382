--------------------------- MODULE RunningServer ---------------------------
(***************************************************************************)
(* A running `cdkl start-api` under requests: an HTTP server with its      *)
(* reloads and its shutdown, what one request does, which route serves it, *)
(* the connections of a WebSocket API, the globs of the watch.  One of the *)
(* five is looked at; none of them reads the state of another.             *)
(***************************************************************************)
EXTENDS StartApiServer, Sequences

CONSTANTS
    Pooled, Asked,                                        \* LambdaRequest
    Conns, Unguarded, MaxFrames, MAX_PRE_VERDICT_FRAMES,  \* WebSocketServer
    Routes, Paths, Cors, Placeholder, MaxRoutes,          \* RouteMatcher
    Letters, MaxGlob, MaxText                             \* GlobMatch

VARIABLES
    program,
    reqStage, route, left, answer, borrowed, armed, closed, tries, timer, drained, works,
    replies, unheard, cleared, called, again,
    connection, socket, sent, buffer, chain, running, server, closes, unsettled, latest,
    overflowed, unanswered,
    routes,
    level, glob, text, p, s, starP, starS, verdict

requestVars == <<reqStage, route, left, answer, borrowed, armed, closed, tries, timer,
    drained, works, replies, unheard, cleared, called, again>>
socketVars == <<connection, socket, sent, buffer, chain, running, server, closes,
    unsettled, latest, overflowed, unanswered>>
globVars == <<level, glob, text, p, s, starP, starS, verdict>>
runningVars == <<program, vars, requestVars, socketVars, routes, globVars>>

Q == INSTANCE LambdaRequest WITH
        Containers <- Pooled, Nothing <- NoContainer, served <- called
W == INSTANCE WebSocketServer WITH phase <- connection, drained <- unsettled
R == INSTANCE RouteMatcher
G == INSTANCE GlobMatch

\* Asked is what requests may be for; Pooled the containers of the function.
ASSUME RunningAssumption ==
    /\ Asked \subseteq [Requests -> Q!Kinds]
    /\ Q!RequestAssumption /\ W!WebSocketAssumption /\ R!RoutesAssumption /\ G!GlobAssumption

RunningInit ==
    /\ program \in {"server", "request", "websockets", "routes", "globs"}
    /\ Init /\ Q!RequestInit /\ W!Init /\ R!RoutesInit
    /\ IF program = "globs" THEN G!GlobInit
       ELSE /\ level = "path" /\ glob = <<>> /\ text = <<>> /\ p = 1 /\ s = 1
            /\ starP = 0 /\ starS = 0 /\ verdict = "yes"
    /\ route \in Asked
    /\ program # "request" => route = CHOOSE kinds \in Asked : TRUE

Server(action) == program = "server" /\ action
    /\ UNCHANGED <<program, requestVars, socketVars, routes, globVars>>
Request(action) == program = "request" /\ action
    /\ UNCHANGED <<program, vars, socketVars, routes, globVars>>
Serves(action) == program = "websockets" /\ action
    /\ UNCHANGED <<program, vars, requestVars, routes, globVars>>
Declares(action) == program = "routes" /\ action
    /\ UNCHANGED <<program, vars, requestVars, socketVars, globVars>>
Watches(action) == program = "globs" /\ action
    /\ UNCHANGED <<program, vars, requestVars, socketVars, routes>>

RunningNext ==
    \/ Server(Next) \/ Request(Q!RequestNext) \/ Serves(W!Next)
    \/ Declares(R!RoutesNext) \/ Watches(G!GlobNext)

\* The steps that are certain to come; each program takes a bounded number of steps, so
\* that they need not be fair one by one.
Certain ==
    \/ Server(stage # "exited" /\ \E g \in States : DisposeStep(g))
    \/ Server(stage # "exited" /\ \E k \in Reloads : ReloadStep(k))
    \/ Server(OnChange \/ ShutdownStep)
    \/ Request(\E r \in Requests : Q!Handles(r) \/ Q!TimesOut(r))
    \/ Serves(W!CloseStep \/ \E w \in Conns : W!SocketCloses(w))
    \/ Watches(G!GlobNext)

RunningSpec == RunningInit /\ [][RunningNext]_runningVars /\ WF_runningVars(Certain)

\* No service and no container is reached before the verdict of an authorizer; containers
\* are returned once, and lent while no handler is at another event, but for one that timed
\* out, whose stream was given up, or whose attempt failed on the way.
RequestsServed == Q!RequestsServed

\* Every frame of an admitted connection reaches a handler before $disconnect does, but
\* for those that overflowed the buffer; a server that has closed waited for the
\* $disconnect handlers.
NothingLost == W!TypeOK /\ W!NothingLost /\ W!ByeBeforeClosed

\* The handlers of a connection see its frames in order, one at a time.
DeliversInOrder == W!DeliversInOrder

\* A request is served by the first of the most specific routes that take it, a preflight
\* for the API that would serve what it announces, and a glob matches what it means.
Matched == R!RoutedAsDeclared /\ G!DecidesAsMeant

\* A change of the source is served some time, whatever becomes of the reloads before it.
\* The shutdowns of both servers end, every container is given back, and the loops of a
\* glob end.
EverythingEnds ==
    /\ ChangeServed
    /\ <>[](/\ stage \in {"serving", "exited"} /\ server \in {"up", "closed"} /\ verdict # "none"
            /\ \A r \in Requests : borrowed[r] = NoContainer \/ r \in armed \cap closed)
=============================================================================
