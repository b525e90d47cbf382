-------------------------- MODULE StartAgentCore --------------------------
(***************************************************************************)
(* `cdkl start-agentcore --watch`                                          *)
(* (src/src/cli/commands/local-start-agentcore.ts): one warm container     *)
(* behind a server that stays up (src/src/local/agentcore-http-server.ts   *)
(* and its /ws bridge), the reloads that replace the container or copy     *)
(* into it, and a teardown that only its first caller waits for.           *)
(*                                                                         *)
(* Containers are numbered as they are started, 1 by the boot, and a port  *)
(* is the container it leads to.  The source has a version, which its      *)
(* asset hash follows.                                                     *)
(***************************************************************************)
EXTENDS Naturals

CONSTANTS
    MaxEdits,   \* bound: edits of the source, each fires the watcher
    Nothing

AgentAssumption == MaxEdits \in Nat /\ Nothing \notin Nat

VARIABLES
    main,        \* what the command awaits, or how it ended
    live,        \* docker: the containers that run
    agentId,     \* containerId
    hostPort,    \* containerHostPort
    serverPort,  \* the port the server proxies to, Nothing before it listens
    listening,   \* the server takes requests
    creds,       \* the profile credentials file is on disk
    hash,        \* currentAssetHash, as the version it stands for
    edits,       \* the version of the source on disk
    queued,      \* firings on reloadChain
    reloaded,    \* those whose reload has ended
    reloading,   \* the step of the one that runs
    seen,        \* the version it synthesized
    halt,        \* what teardown() awaits: "idle" before its first call
    shutting,    \* shuttingDown
    thrown,      \* the command fails
    stream,      \* a request in flight
    unready      \* history: the container of the last rebuild did not become ready

containerVars == <<live, agentId, hostPort, serverPort>>
chainVars == <<hash, edits, queued, reloaded, reloading, seen, unready>>
endVars == <<halt, shutting, thrown>>
agentVars == <<main, containerVars, listening, creds, chainVars, endVars, stream>>

AgentInit ==
    /\ main = "boot"
    /\ live = {} /\ agentId = Nothing /\ hostPort = 1 /\ serverPort = Nothing
    /\ listening = FALSE /\ creds \in BOOLEAN
    /\ hash = 0 /\ edits = 0 /\ queued = 0 /\ reloaded = 0 /\ reloading = "idle" /\ seen = 0
    /\ unready = FALSE
    /\ halt = "idle" /\ shutting = FALSE /\ thrown = FALSE
    /\ stream = Nothing

AgentAlive == main \notin {"exited", "killed"}
TornDown == halt # "idle"

-----------------------------------------------------------------------------
(* The boot. *)

\* Synthesis, the target, its image and environment; a failure of these ends the
\* command, and the credentials file stays.
Prepared ==
    /\ main = "boot"
    /\ main' \in {"run", "killed"}
    /\ UNCHANGED <<containerVars, listening, creds, chainVars, endVars, stream>>

ContainerStarts ==
    /\ main = "run" /\ live = {}
    /\ live' = {1}
    /\ UNCHANGED <<main, agentId, hostPort, serverPort, listening, creds, chainVars, endVars, stream>>

\* Its id, its log, and the signal handlers in one turn.
HandlersArmed ==
    /\ main = "run" /\ live # {}
    /\ main' = "ready" /\ agentId' = 1
    /\ UNCHANGED <<live, hostPort, serverPort, listening, creds, chainVars, endVars, stream>>

\* It answers, and the server listens.
Listens ==
    /\ main = "ready" /\ agentId \in live
    /\ main' = "serving" /\ listening' = TRUE /\ serverPort' = hostPort
    /\ UNCHANGED <<live, agentId, hostPort, creds, chainVars, endVars, stream>>

\* Only the first caller runs the teardown.
BeginsTeardown == halt' = IF halt = "idle" THEN "chain" ELSE halt

\* It does not, or the port is taken: torn down, then thrown.
BootFails ==
    /\ main = "ready"
    /\ main' = IF TornDown THEN "exited" ELSE "unwinding"
    /\ thrown' = TRUE
    /\ BeginsTeardown
    /\ UNCHANGED <<containerVars, listening, creds, chainVars, shutting, stream>>

\* Any signal before the handlers are armed.
Unhandled ==
    /\ main \in {"boot", "run"}
    /\ main' = "killed"
    /\ UNCHANGED <<containerVars, listening, creds, chainVars, endVars, stream>>

-----------------------------------------------------------------------------
(* The container and the requests. *)

\* A container that exits is gone: it runs with --rm.
AgentExits ==
    /\ \E n \in live : live' = live \ {n}
    /\ main # "run"
    /\ UNCHANGED <<main, agentId, hostPort, serverPort, listening, creds, chainVars, endVars, stream>>

\* A request is proxied to the port of that moment, and ends when the container
\* answers, drops it, or is gone.
Proxied ==
    /\ listening /\ stream = Nothing /\ serverPort \in live
    /\ stream' = serverPort
    /\ UNCHANGED <<main, containerVars, listening, creds, chainVars, endVars>>

StreamEnds ==
    /\ stream # Nothing
    /\ stream' = Nothing
    /\ UNCHANGED <<main, containerVars, listening, creds, chainVars, endVars>>

-----------------------------------------------------------------------------
(* --watch: firings run one after the other on reloadChain. *)

ReloadQuiet == UNCHANGED <<main, listening, creds, edits, queued, endVars, stream>>

Edit ==
    /\ main = "serving" /\ ~TornDown /\ edits < MaxEdits
    /\ edits' = edits + 1 /\ queued' = queued + 1
    /\ UNCHANGED <<main, containerVars, listening, creds, hash, reloaded, reloading, seen, unready, endVars, stream>>

Ends == reloading' = "idle" /\ reloaded' = reloaded + 1

Bails == TornDown \/ shutting

\* A firing that comes to its turn after the shutdown began does nothing.
ReloadBegins ==
    /\ reloading = "idle" /\ reloaded < queued
    /\ IF Bails THEN Ends ELSE reloading' = "synth" /\ UNCHANGED reloaded
    /\ UNCHANGED <<containerVars, hash, seen, unready>> /\ ReloadQuiet

\* Synthesis and the verdict: without a new hash, or with a path that needs a build,
\* a rebuild.
Classified ==
    /\ reloading = "synth"
    /\ seen' = edits
    /\ IF Bails THEN Ends
       ELSE /\ reloading' \in {"rebuild"} \cup IF edits # hash THEN {"soft"} ELSE {}
            /\ UNCHANGED reloaded
    /\ UNCHANGED <<containerVars, hash, unready>> /\ ReloadQuiet

\* Copied into the container and restarted; the server's port is left as it is.
SoftReloaded ==
    /\ reloading = "soft"
    /\ agentId \in live
    /\ hash' = seen /\ Ends
    /\ UNCHANGED <<containerVars, seen, unready>> /\ ReloadQuiet

OldRemoved ==
    /\ reloading = "rebuild"
    /\ live' = live \ {agentId} /\ agentId' = Nothing
    /\ reloading' = "image"
    /\ UNCHANGED <<hostPort, serverPort, hash, reloaded, seen, unready>> /\ ReloadQuiet

NewStarts ==
    /\ reloading = "image"
    /\ live' = live \cup {reloaded + 2}
    /\ reloading' = "answer"
    /\ UNCHANGED <<agentId, hostPort, serverPort, hash, reloaded, seen, unready>> /\ ReloadQuiet

\* Its id and its port, before it is ready.
NewAnswers ==
    /\ reloading = "answer"
    /\ agentId' = reloaded + 2 /\ hostPort' = reloaded + 2
    /\ reloading' = "wait"
    /\ UNCHANGED <<live, serverPort, hash, reloaded, seen, unready>> /\ ReloadQuiet

Repointed == hostPort

NewReady ==
    /\ reloading = "wait" /\ agentId \in live
    /\ serverPort' = Repointed /\ unready' = FALSE
    /\ hash' = seen /\ Ends
    /\ UNCHANGED <<live, agentId, hostPort, seen>> /\ ReloadQuiet

\* Any step fails; the server stays up, whatever it leads to.
ReloadFails ==
    /\ reloading \in {"synth", "soft", "rebuild", "image", "wait"}
    /\ Ends
    /\ unready' = (unready \/ reloading = "wait")
    /\ UNCHANGED <<containerVars, hash, seen>> /\ ReloadQuiet

ReloadStep ==
    \/ ReloadBegins \/ Classified \/ SoftReloaded \/ OldRemoved \/ NewStarts \/ NewAnswers
    \/ NewReady \/ ReloadFails

-----------------------------------------------------------------------------
(* The end. *)

AgentSignal ==
    /\ main \in {"ready", "serving", "unwinding"} /\ ~shutting
    /\ shutting' = TRUE
    /\ main' = IF TornDown THEN "exited" ELSE main
    /\ BeginsTeardown
    /\ UNCHANGED <<containerVars, listening, creds, chainVars, thrown, stream>>

HaltQuiet == UNCHANGED <<main, agentId, hostPort, serverPort, chainVars, shutting, thrown, stream>>

ChainDrained == reloaded = queued

\* The watcher is closed and the chain awaited.
ChainAwaited ==
    /\ halt = "chain" /\ ChainDrained
    /\ halt' = "server"
    /\ UNCHANGED <<live, listening, creds>> /\ HaltQuiet

\* server.close(): the container legs of /ws are closed, a request in flight is
\* waited for.
ServerClosed ==
    /\ halt = "server"
    /\ listening' = FALSE
    /\ halt' = IF stream = Nothing THEN "container" ELSE "server"
    /\ UNCHANGED <<live, creds>> /\ HaltQuiet

AgentRemoved ==
    /\ halt = "container"
    /\ live' = live \ {agentId}
    /\ halt' = "files"
    /\ UNCHANGED <<listening, creds>> /\ HaltQuiet

FilesRemoved ==
    /\ halt = "files"
    /\ creds' = FALSE
    /\ halt' = "done"
    /\ UNCHANGED <<live, listening>> /\ HaltQuiet

AgentExit ==
    /\ halt = "done" /\ (shutting \/ main = "unwinding")
    /\ main' = "exited"
    /\ UNCHANGED <<containerVars, listening, creds, chainVars, endVars, stream>>

HaltStep == ChainAwaited \/ ServerClosed \/ AgentRemoved \/ FilesRemoved \/ AgentExit

BootStep == Prepared \/ ContainerStarts \/ HandlersArmed \/ Listens \/ BootFails

AgentNext ==
    /\ AgentAlive
    /\ \/ BootStep \/ Unhandled \/ AgentExits \/ Proxied \/ StreamEnds
       \/ Edit \/ ReloadStep \/ AgentSignal \/ HaltStep

-----------------------------------------------------------------------------
(* Properties. *)

\* When the command ends its containers and the credentials file are gone, unless a
\* boot that fails and a signal met: teardown() is not awaited by its second caller.
AgentLeavesNothing ==
    main = "exited" /\ ~(shutting /\ thrown) => live = {} /\ ~creds

\* The shutdown waits for a request in flight; nothing bounds that wait, and a second
\* signal is ignored.
HeldByRequest == halt = "server" /\ stream # Nothing

\* There is never more than one container, whatever reloads fail half-way; and none
\* that the teardown cannot see, but one that docker is starting.
OneContainer ==
    AgentAlive => \A n \in live : n = agentId \/ reloading = "answer" \/ main = "run"

\* Between reloads the server leads to the container, also after a reload that failed,
\* but for one whose container did not become ready: no soft reload makes up for it.
LeadsToContainer ==
    reloading = "idle" /\ listening /\ agentId # Nothing => serverPort = agentId \/ unready

=============================================================================
