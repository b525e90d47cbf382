--------------------------- MODULE InvokeCommand ---------------------------
(***************************************************************************)
(* The one-shot commands `cdkl invoke`                                     *)
(* (src/src/cli/commands/local-invoke.ts) and `cdkl invoke-agentcore`      *)
(* (src/src/cli/commands/local-invoke-agentcore.ts), from their first step *)
(* to the exit of the process, with the --watch session of the latter.     *)
(*                                                                         *)
(* Both acquire directories and one container on the way, hand them to the *)
(* variables a single-flight cleanup() reads, and run that cleanup from a  *)
(* SIGINT handler and from a `finally`.  What matters is the order of      *)
(* acquiring, handing over, registering the handler and cleaning up, so a  *)
(* resource is a name, and containers are numbered: 1 is the first one, a  *)
(* rebuild of --watch starts the next.                                     *)
(***************************************************************************)
EXTENDS Naturals

CONSTANTS
    MaxFirings,   \* bound: reloads the file watcher asks for
    Nothing       \* no container

InvokeAssumption == MaxFirings \in Nat /\ Nothing \notin Nat

Modes == {"zip", "image", "agent", "watch"}   \* --watch implies the --ws session
Containers == 1 .. MaxFirings + 1
Dirs == {"profile", "creds", "code", "layers", "bundle"}

VARIABLES
    mode,        \* which command runs, on what
    pc,          \* its next step, or how it ended
    dirs,        \* temporary directories on disk
    known,       \* those cleanup() can see
    running,     \* containers docker runs
    containerId, \* the variable cleanup() reads
    handler,     \* SIGINT has its handler
    cleaning,    \* cleanup(): "idle", "container", "dirs", "done"
    doomed,      \* the container cleanup() read when it was entered
    exiting,     \* process.exit follows cleanup(): a signal, or an error
    \* the --watch loop
    port,        \* currentHostPort, as the container it leads to
    pinged,      \* the container waitForAgentCorePing asks
    session,     \* the container the /ws session is open to
    pending,     \* pendingReload
    failed,      \* reloadFailed
    fired,       \* firings of the watcher queued on reloadChain
    handled,     \* firings whose reload has ended
    reload,      \* the step of the reload that runs
    awaited      \* the firing `await reloadChain` waits for

stepVars == <<mode, pc, dirs, known, handler>>
containerVars == <<running, containerId>>
cleanVars == <<cleaning, doomed, exiting>>
loopVars == <<port, pinged, session, awaited>>
reloadVars == <<pending, failed, fired, handled, reload>>
vars == <<stepVars, containerVars, cleanVars, loopVars, reloadVars>>

Init ==
    /\ mode \in Modes
    /\ pc = "boot" /\ dirs = {} /\ known = {} /\ handler = FALSE
    /\ running = {} /\ containerId = Nothing
    /\ cleaning = "idle" /\ doomed = Nothing /\ exiting = FALSE
    /\ port = 1 /\ pinged = Nothing /\ session = Nothing /\ awaited = 0
    /\ pending = FALSE /\ failed = FALSE /\ fired = 0 /\ handled = 0 /\ reload = "idle"

Ended == pc \in {"exited", "killed"}

\* The watch loop has the control.
Looping == pc \in {"top", "ping", "ws", "settle", "drain", "reopen"}

-----------------------------------------------------------------------------
(* The steps before the container; any of them may throw into the `finally`. *)

Goes(from, to) == pc = from /\ pc' = to

Quiet == UNCHANGED <<mode, handler, containerVars, cleanVars, loopVars, reloadVars>>

\* Role, docker, profile credentials: with --profile a directory is made for them ...
Boot ==
    /\ \/ Goes("boot", "synth") /\ UNCHANGED dirs
       \/ Goes("boot", "write") /\ dirs' = {"profile"}
    /\ UNCHANGED known /\ Quiet

\* ... and the file is written into it, which assigns the variable cleanup() reads.
WriteCredentials ==
    /\ Goes("write", "synth")
    /\ dirs' = {"creds"} /\ known' = {"creds"}
    /\ Quiet

\* Synthesis, the choice of the target, and what the command asks for it.
Synthesize ==
    /\ Goes("synth", IF mode = "zip" THEN "code" ELSE "build")
    /\ UNCHANGED <<dirs, known>> /\ Quiet

\* A ZIP function: inline code is written to a directory, an asset that is an
\* archive unpacked into one; an asset directory is mounted as it is.
MaterializeCode ==
    /\ Goes("code", "pull")
    /\ \E d \in {{}, {"code"}} : dirs' = dirs \cup d
    /\ UNCHANGED known /\ Quiet

\* ... the runtime image is pulled
PullRuntime == Goes("pull", "layers") /\ UNCHANGED <<dirs, known>> /\ Quiet

\* ... its layers fetched and merged, and only then the plan reaches cleanup().
MergeLayers ==
    /\ Goes("layers", "env")
    /\ \E d \in {{}, {"layers"}} : dirs' = dirs \cup d
    /\ known' = known \cup dirs'
    /\ Quiet

\* A container image is built from its asset, or pulled.
BuildContainerImage ==
    /\ mode = "image"
    /\ Goes("build", "env") /\ UNCHANGED <<dirs, known>> /\ Quiet

\* The code of an agent may be a bundle that is fetched into a directory ...
FetchBundle ==
    /\ mode \in {"agent", "watch"}
    /\ Goes("build", "image")
    /\ \E d \in {{}, {"bundle"}} : dirs' = dirs \cup d
    /\ UNCHANGED known /\ Quiet

Unbundled == dirs \ {"bundle"}

\* ... which a `finally` of its own removes once the image is built, or is not.
BuildAgentImage ==
    /\ Goes("image", "env")
    /\ dirs' = Unbundled
    /\ UNCHANGED known /\ Quiet

\* The environment, and the credentials in it: state, overrides, assumed role.
ResolveEnv == Goes("env", "run") /\ UNCHANGED <<dirs, known>> /\ Quiet

Throws ==
    /\ pc \in {"boot", "write", "synth", "code", "pull", "layers", "build", "image", "env", "run"}
    /\ pc' = "finally" /\ exiting' = TRUE
    /\ \E d \in {{}, IF pc = "layers" THEN {"layers"} ELSE {}} : dirs' = Unbundled \cup d
    /\ UNCHANGED <<mode, known, handler, cleaning, doomed, containerVars, loopVars, reloadVars>>

\* `docker run -d`, and what follows its answer without an await: the log stream
\* and the SIGINT handler.
DockerRuns ==
    /\ Goes("run", "started")
    /\ running' = {1}
    /\ UNCHANGED <<mode, dirs, known, handler, containerId, cleanVars, loopVars, reloadVars>>

Started ==
    /\ Goes("started", IF mode = "watch" THEN "top" ELSE "invoke")
    /\ containerId' = 1
    /\ handler' = TRUE
    /\ UNCHANGED <<mode, dirs, known, running, cleanVars, loopVars, reloadVars>>

\* The exchange answers, or throws: it timed out, or broke with the container.
Invokes ==
    /\ Goes("invoke", "finally")
    /\ exiting' \in {exiting, TRUE}
    /\ UNCHANGED <<mode, dirs, known, handler, cleaning, doomed, containerVars, loopVars, reloadVars>>

-----------------------------------------------------------------------------
(* The --watch loop of invoke-agentcore. *)

StepsLoop == UNCHANGED <<mode, dirs, known, handler, containerVars, cleaning, doomed, fired, handled, reload, failed>>

\* The loop throws: the command unwinds with an error.
ThrowsFromLoop == pc' = "left" /\ exiting' = TRUE

\* The top of the loop.
Tops ==
    /\ Goes("top", IF failed THEN "left" ELSE "ping")
    /\ pinged' = port
    /\ UNCHANGED <<port, session, awaited, pending, exiting>> /\ StepsLoop

\* waitForAgentCorePing answers only if the container is there, and throws after
\* its timeout; the session is opened to the port of that moment.
Ping ==
    /\ pc = "ping"
    /\ \/ /\ pinged \in running
          /\ pc' = "ws" /\ session' = port /\ pending' = FALSE
          /\ UNCHANGED exiting
       \/ ThrowsFromLoop /\ UNCHANGED <<session, pending>>
    /\ UNCHANGED <<port, pinged, awaited>> /\ StepsLoop

\* The session ends: the agent or its container closed it (the promise resolves),
\* or it times out or breaks (it rejects).
SessionEnds ==
    /\ pc = "ws"
    /\ session' = Nothing
    /\ (pc' = "settle" /\ UNCHANGED exiting) \/ ThrowsFromLoop
    /\ UNCHANGED <<port, pinged, awaited, pending>> /\ StepsLoop

AwaitChain == awaited' = fired

\* 250 ms later: without a pending reload the chain is drained before leaving,
\* with one it is awaited.
Settle ==
    /\ Goes("settle", IF pending THEN "reopen" ELSE "drain")
    /\ AwaitChain
    /\ UNCHANGED <<port, pinged, session, pending, exiting>> /\ StepsLoop

ChainDone == handled >= awaited

Drained ==
    /\ pc = "drain" /\ ChainDone
    /\ IF pending THEN pc' = "reopen" /\ AwaitChain ELSE pc' = "left" /\ UNCHANGED awaited
    /\ UNCHANGED <<port, pinged, session, pending, exiting>> /\ StepsLoop

\* ... and the session is opened again once the swap has ended.
Reopens ==
    /\ Goes("reopen", "top")
    /\ ChainDone
    /\ UNCHANGED <<port, pinged, session, awaited, pending, exiting>> /\ StepsLoop

\* The loop is left and its watcher closed; the command unwinds.
Leaves ==
    /\ Goes("left", "finally")
    /\ UNCHANGED <<port, pinged, session, awaited, pending, exiting>> /\ StepsLoop

-----------------------------------------------------------------------------
(* A reload: firings are queued on reloadChain and run one after the other, *)
(* beside the loop.                                                          *)

StepsReload == UNCHANGED <<mode, pc, known, handler, cleanVars, pinged, awaited>>

Fires ==
    /\ Looping
    /\ fired < MaxFirings
    /\ fired' = fired + 1
    /\ UNCHANGED <<stepVars, containerVars, cleanVars, loopVars, pending, failed, handled, reload>>

Alive == ~Ended

\* The verdict is found, the reload marked pending and the session aborted.
Marks ==
    /\ Alive /\ reload = "idle" /\ handled < fired
    /\ pending' = TRUE
    /\ reload' \in {"soft", "remove"}
    /\ IF pc = "ws" THEN pc' = "settle" /\ session' = Nothing ELSE UNCHANGED <<pc, session>>
    /\ UNCHANGED <<mode, dirs, known, handler, containerVars, cleanVars, port, pinged, awaited, failed, fired, handled>>

\* docker cp and docker restart into the container that runs.
SoftReload ==
    /\ Alive /\ reload = "soft"
    /\ containerId # Nothing
    /\ reload' = "idle" /\ handled' = handled + 1
    /\ UNCHANGED <<dirs, containerVars, port, session, pending, failed, fired>> /\ StepsReload

(* Mutation: the old container is left beside the new one. *)
OldKept == UNCHANGED running

OldRemoved == running' = running \ {containerId}

\* rebuild(): the old container is removed before anything else.
RemoveOld ==
    /\ Alive /\ reload = "remove"
    /\ OldRemoved
    /\ containerId' = Nothing
    /\ reload' = "fetch"
    /\ UNCHANGED <<dirs, port, session, pending, failed, fired, handled>> /\ StepsReload

\* Synthesis again, and the bundle; the image and the environment; `docker run`.
RebuildFetches ==
    /\ Alive /\ reload = "fetch"
    /\ reload' = "build"
    /\ \E d \in {{}, {"bundle"}} : dirs' = dirs \cup d
    /\ UNCHANGED <<containerVars, port, session, pending, failed, fired, handled>> /\ StepsReload

RebuildBuilds ==
    /\ Alive /\ reload = "build"
    /\ reload' = "run"
    /\ dirs' = Unbundled
    /\ UNCHANGED <<containerVars, port, session, pending, failed, fired, handled>> /\ StepsReload

RebuildRuns ==
    /\ Alive /\ reload = "run"
    /\ running' = running \cup {handled + 2}
    /\ reload' = "answer"
    /\ UNCHANGED <<dirs, containerId, port, session, pending, failed, fired, handled>> /\ StepsReload

\* The answer: the variables of the command and of the loop follow.
Rebuilt ==
    /\ Alive /\ reload = "answer"
    /\ containerId' = handled + 2 /\ port' = handled + 2
    /\ reload' = "idle" /\ handled' = handled + 1
    /\ UNCHANGED <<dirs, running, session, pending, failed, fired>> /\ StepsReload

\* The failure is marked, so that the loop does not ping a container that is gone.
ReloadFails ==
    /\ Alive /\ reload \in {"soft", "remove", "fetch", "build", "run"}
    /\ failed' = TRUE
    /\ dirs' = IF reload = "build" THEN Unbundled ELSE dirs
    /\ reload' = "idle" /\ handled' = handled + 1
    /\ IF pc = "ws" THEN pc' = "settle" /\ session' = Nothing ELSE UNCHANGED <<pc, session>>
    /\ UNCHANGED <<mode, known, handler, containerVars, cleanVars, port, pinged, awaited, pending, fired>>

ReloadStep == Marks \/ SoftReload \/ RemoveOld \/ RebuildFetches \/ RebuildBuilds
              \/ RebuildRuns \/ Rebuilt \/ ReloadFails

-----------------------------------------------------------------------------
(* The end. *)

StepsClean == UNCHANGED <<mode, handler, doomed, exiting, loopVars, reloadVars>>

\* cleanup() is entered once, whoever calls it.
EnterCleanup ==
    IF cleaning = "idle" THEN cleaning' = "container" /\ doomed' = containerId
                         ELSE UNCHANGED <<cleaning, doomed>>

\* SIGINT with its handler registered.
Interrupt ==
    /\ handler /\ Alive
    /\ exiting' = TRUE
    /\ EnterCleanup
    /\ UNCHANGED <<stepVars, containerVars, loopVars, reloadVars>>

\* The `finally`: the handler is gone from here on.
Unwinds ==
    /\ Goes("finally", "cleaning")
    /\ handler' = FALSE
    /\ EnterCleanup
    /\ UNCHANGED <<mode, dirs, known, containerVars, exiting, loopVars, reloadVars>>

RemoveContainer ==
    /\ Alive /\ cleaning = "container"
    /\ running' = running \ {doomed}
    /\ cleaning' = "dirs"
    /\ UNCHANGED <<pc, dirs, known, containerId>> /\ StepsClean

RemoveDirs ==
    /\ Alive /\ cleaning = "dirs"
    /\ dirs' = dirs \ known
    /\ cleaning' = "done"
    /\ UNCHANGED <<pc, known, containerVars>> /\ StepsClean

\* process.exit, whatever else runs; without it the process ends when the command
\* has returned and nothing keeps it: no reload, no container whose log it follows.
Exit ==
    /\ cleaning = "done" /\ Alive
    /\ exiting \/ (pc = "cleaning" /\ reload = "idle" /\ handled = fired /\ running = {})
    /\ pc' = "exited"
    /\ UNCHANGED <<mode, dirs, known, handler, containerVars, cleanVars, loopVars, reloadVars>>

\* SIGTERM at any time, SIGINT while its handler is not registered.
Killed ==
    /\ Alive
    /\ pc' = "killed"
    /\ UNCHANGED <<mode, dirs, known, handler, containerVars, cleanVars, loopVars, reloadVars>>

Step ==
    \/ Boot \/ WriteCredentials \/ Synthesize \/ MaterializeCode \/ PullRuntime \/ MergeLayers
    \/ BuildContainerImage \/ FetchBundle \/ BuildAgentImage \/ ResolveEnv \/ Throws \/ DockerRuns \/ Started
    \/ Invokes \/ Tops \/ Ping \/ SessionEnds \/ Settle \/ Drained \/ Reopens \/ Leaves
    \/ Unwinds \/ RemoveContainer \/ RemoveDirs \/ Exit

Next == Step \/ Fires \/ ReloadStep \/ Interrupt \/ Killed

\* Every step of the command, of a reload and of docker ends, if only by its
\* timeout: an invocation and a session have one.
Fairness == WF_vars(Step) /\ WF_vars(ReloadStep)

Spec == Init /\ [][Next]_vars /\ Fairness

-----------------------------------------------------------------------------
(* Properties. *)

\* No credentials file survives a command that ends, and no directory at all once
\* there was a container to mount it.  Three do survive: that of a credentials file that
\* cannot be written, what a plan that fails half-way had made, because imagePlan is
\* assigned only when it returns, and the bundle of a rebuild that process.exit cuts off.
DirsReleased ==
    pc = "exited" =>
        /\ "creds" \notin dirs
        /\ "profile" \in dirs => dirs = {"profile"}
        /\ containerId # Nothing => dirs = {}
        /\ "bundle" \in dirs => reload = "build"

\* When cleanup() is entered, the container it is about to remove is the only one
\* that runs, unless `docker run` of a rebuild is being answered; and when the
\* command ends that one is gone.
ContainersReleased ==
    [][/\ cleaning = "idle" /\ cleaning' # "idle" => running \subseteq {doomed'} \/ reload = "answer"
       /\ pc' = "exited" => doomed \notin running]_vars

\* The watch loop never stays in a session with a container that was replaced: the
\* session leads to the current one, or its own is gone.
SessionIsCurrent == session # Nothing => session = port \/ session \notin running

\* A rebuild that ends after the loop was left without an error starts a container
\* nobody removes, and the log it follows keeps the process.
Stranded == pc = "cleaning" /\ ~exiting /\ cleaning = "done" /\ running # {}

=============================================================================
