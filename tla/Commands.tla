------------------------------ MODULE Commands ------------------------------
\* The commands that own containers: an invocation of a Lambda function or an agent, a
\* task, and the commands that serve one agent, one web function, a distribution or APIs;
\* one of them runs.
EXTENDS Naturals, Sequences

CONSTANTS
    Nothing,
    MaxFirings,                             \* of invoke-agentcore --watch
    Template, Dependencies,                 \* of the task
    Serves, served,                         \* web functions, and that of start-web-function
    Urls, Edges, Origins, MaxUpdates,       \* of the distribution; its web functions, in order
    MaxEdits,                               \* of start-agentcore --watch
    Groups, Sockets, Backing, Resolved, Layered, MaxPasses      \* of start-api

VARIABLES
    program, mode, pc, dirs, known, running, containerId, handler, cleaning, doomed,
    exiting, port, pinged, session, pending, failed, fired, handled, reload, awaited,
    dependsOn, taskMode, taskPc, startOrder, next, waits, box, healthy, made, taskKnown, started,
    signals, taskCleaning, visited,
    start, bundle, container, id, teardown,
    web, signalled, abandoned,
    cf, origins, at, lambdas, runners, sink, bootAborted, version, inflight, snapshot, consulted,
    main, live, agentId, hostPort, serverPort, listening, creds, hash, edits, queued, reloaded,
    reloading, seen, unready, halt, shutting, thrown, stream,
    apiStage, apiWarm, apiProfile, credsFile, work, passes, changes, tmpDirs, tracked, late,
    accepting, good, present, apiVersion, pools, endpoint, warmed, background

invokeVars == <<mode, pc, dirs, known, running, containerId, handler, cleaning, doomed,
    exiting, port, pinged, session, pending, failed, fired, handled, reload, awaited>>
taskVars == <<dependsOn, taskMode, taskPc, startOrder, next, waits, box, healthy, made, taskKnown,
    started, signals, taskCleaning, visited>>
serveVars == <<start, bundle, container, id, teardown>>
webVars == <<web, signalled, abandoned>>
frontVars == <<cf, origins, at, lambdas, runners, sink, bootAborted, version, inflight, snapshot, consulted>>
agentVars == <<main, live, agentId, hostPort, serverPort, listening, creds, hash, edits, queued,
    reloaded, reloading, seen, unready, halt, shutting, thrown, stream>>
apiVars == <<apiStage, apiWarm, apiProfile, credsFile, work, passes, changes, tmpDirs, tracked,
    late, accepting, good, present, apiVersion, pools, endpoint, warmed, background>>

I == INSTANCE InvokeCommand
T == INSTANCE RunTask WITH
        Nobody <- Nothing,
        mode <- taskMode, pc <- taskPc, known <- taskKnown, cleaning <- taskCleaning
W == INSTANCE StartWebFunction
C == INSTANCE StartCloudFront
A == INSTANCE StartAgentCore
P == INSTANCE StartApiCommand WITH
        NoApi <- Nothing, warm <- apiWarm, profile <- apiProfile, version <- apiVersion

\* A task whose containers depend on none.
Alone == [c \in T!Names |-> <<>>]

ASSUME CommandsAssumption ==
    /\ I!InvokeAssumption /\ T!RunTaskAssumption /\ C!FrontAssumption /\ A!AgentAssumption
    /\ P!ApiCommandAssumption
    /\ Alone \in Dependencies
    /\ served \in Serves /\ <<>> \in Origins /\ Origins \subseteq Seq(Serves)

Init ==
    /\ program \in {"invoke", "run-task", "web function", "cloudfront", "agentcore", "start-api"}
    /\ I!Init /\ T!Init /\ W!ServesInit /\ W!WebInit /\ C!FrontInit /\ A!AgentInit /\ P!ApiInit
    /\ program # "invoke" => mode = "zip"
    /\ program # "run-task" => taskMode = "plain" /\ dependsOn = Alone
    /\ origins \in Origins
    /\ program # "cloudfront" => origins = <<>>
    /\ program # "agentcore" => creds
    /\ apiWarm = apiProfile /\ (program # "start-api" => apiWarm)

Invokes(action) == program = "invoke" /\ action
    /\ UNCHANGED <<program, taskVars, serveVars, webVars, frontVars, agentVars, apiVars>>
RunsTask(action) == program = "run-task" /\ action
    /\ UNCHANGED <<program, invokeVars, serveVars, webVars, frontVars, agentVars, apiVars>>
ServesWeb(action) == program = "web function" /\ action
    /\ UNCHANGED <<program, invokeVars, taskVars, agentVars, frontVars, apiVars>>
Distributes(action) == program = "cloudfront" /\ action
    /\ UNCHANGED <<program, invokeVars, taskVars, agentVars, webVars, apiVars>>
ServesAgent(action) == program = "agentcore" /\ action
    /\ UNCHANGED <<program, invokeVars, taskVars, serveVars, webVars, frontVars, apiVars>>
ServesApis(action) == program = "start-api" /\ action
    /\ UNCHANGED <<program, invokeVars, taskVars, serveVars, webVars, frontVars, agentVars>>

Next ==
    \/ Invokes(I!Next) \/ RunsTask(T!Next)
    \/ ServesWeb(W!WebNext) \/ Distributes(C!FrontNext) \/ ServesAgent(A!AgentNext)
    \/ ServesApis(P!ApiNext)

vars == <<program, invokeVars, taskVars, serveVars, webVars, frontVars, agentVars, apiVars>>

\* One of them runs, so that a condition on steps of several is one on those of each.
Spec ==
    /\ Init /\ [][Next]_vars
    /\ WF_vars(Invokes(I!Step) \/ RunsTask(T!Command) \/ ServesWeb(W!WebStep)
               \/ Distributes(C!FrontStep) \/ ServesAgent(A!HaltStep)
               \/ ServesApis(P!CleanStep))
    /\ WF_vars(Invokes(I!ReloadStep) \/ RunsTask(T!Cleanup) \/ ServesAgent(A!ReloadStep)
               \/ ServesWeb(W!WebAlive /\ W!ServeStep(served) /\ UNCHANGED webVars)
               \/ Distributes(C!FrontAlive /\ C!Handling)
               \/ ServesApis(P!DisposeStep))
    /\ \A s \in Serves :
         WF_vars(Distributes(C!FrontAlive /\ W!ServeStep(s) /\ UNCHANGED frontVars))

\* No command that ends leaves a directory, container, network or volume behind, but
\* for the exceptions each component states.
NothingLeftBehind ==
    /\ I!DirsReleased /\ T!NothingLeft
    /\ W!WebLeavesNothing /\ C!FrontLeavesNothing /\ A!AgentLeavesNothing
    /\ P!ApiLeavesNothing

\* A cleanup beside a command that goes on takes all but what is being made.
CleanupTakesAll == I!ContainersReleased /\ T!LeavesOnlyInFlight

\* A container starts after what it depends on; a session or a server never stays with
\* a container that was replaced; a request keeps its distribution and its containers.
Prerequisites ==
    /\ T!StartsInOrder /\ I!SessionIsCurrent
    /\ A!OneContainer /\ A!LeadsToContainer
    /\ C!OneDistribution /\ C!ServedToTheEnd

\* Every server of start-api serves the pass that was built last, from pools that are not
\* disposed, and containers post back to the WebSocket API they are for.
ServersAgree == P!OneVersion /\ P!PostsHome

\* Commands end: an invocation by itself or by its timeouts (a --watch session may be
\* stranded), the others by the signal that asks for it, but for a request to an agent
\* that its server waits for.
CommandsEnd ==
    (program = "invoke" \/ signals > 0 \/ signalled \/ bootAborted \/ cf = "closing" \/ shutting
     \/ apiStage \in P!Cleaning) ~>
        \/ I!Ended \/ I!Stranded \/ ~T!Alive
        \/ ~W!WebAlive \/ ~C!FrontAlive \/ ~A!AgentAlive \/ ~P!ApiAlive
        \/ A!HeldByRequest

=============================================================================
