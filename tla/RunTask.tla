------------------------------ MODULE RunTask ------------------------------
(***************************************************************************)
(* `cdkl run-task` (src/src/cli/commands/local-run-task.ts) and the runner *)
(* of one ECS task (src/src/local/ecs-task-runner.ts), with the network and *)
(* metadata sidecar of the task (src/src/local/ecs-network.ts).            *)
(*                                                                         *)
(* runEcsTask() creates a network, a sidecar and a volume, and starts the  *)
(* containers in dependency order, entering each in the EcsRunState when   *)
(* docker answers.  cleanup() undoes what the EcsRunState holds; a signal  *)
(* runs it beside runEcsTask(), which nobody stops.  A docker command is   *)
(* therefore two steps: its effect, and its answer.                        *)
(***************************************************************************)
EXTENDS Naturals, Sequences

CONSTANTS
    Template,      \* the containers, in the order of the task definition
    Dependencies,  \* the DependsOn lists to consider: [names -> sequences of edges]
    Nobody         \* no container

Names == {Template[i] : i \in DOMAIN Template}
Conditions == {"START", "COMPLETE", "SUCCESS", "HEALTHY"}
DependsOn == [on : Names, condition : Conditions]

RunTaskAssumption ==
    /\ Template \in Seq(Names) /\ Template # <<>> /\ Nobody \notin Names
    /\ \A d \in Dependencies : d \in [Names -> Seq(DependsOn)]

VARIABLES
    dependsOn, \* the DependsOn lists of this task
    mode,      \* "plain", "keep" (--keep-running) or "detach"
    pc,        \* the next step of the command, or how it ended
    startOrder, \* what topoSort() returned
    next,      \* the container to start, as a position of the start order
    waits,     \* the edge of it that is awaited
    box,       \* what docker knows of each container
    healthy,   \* containers that have reported healthy
    made,      \* what exists beside them: credentials file or only a directory for it,
               \* network, sidecar, volume
    known,     \* what of it cleanup() can see
    started,   \* state.startedContainers
    signals,   \* SIGINT and SIGTERM taken by the handler
    cleaning,  \* the step of cleanup()
    visited    \* containers its loop has passed

taskVars == <<dependsOn, mode>>
runVars == <<pc, startOrder, next, waits>>
dockerVars == <<box, healthy>>
cleanVars == <<cleaning, visited>>
vars == <<taskVars, runVars, dockerVars, made, known, started, signals, cleanVars>>

Exists(c) == box[c] \notin {"none", "gone"}
Up(c) == box[c] \in {"up", "healthy", "unhealthy"}
Exited(c) == box[c] \in {"ok", "failed"}

Init ==
    /\ dependsOn \in Dependencies /\ mode \in {"plain", "keep", "detach"}
    /\ pc = "prepare" /\ startOrder = <<>> /\ next = 1 /\ waits = 1
    /\ box = [c \in Names |-> "none"] /\ healthy = {}
    /\ made = {} /\ known = {} /\ started = <<>>
    /\ signals = 0 /\ cleaning = "idle" /\ visited = 0

Alive == pc \notin {"exited", "forced"}

-----------------------------------------------------------------------------
(* The start order: by the depth of a container in the dependency graph, then *)
(* by its position in the template.                                           *)

On(c) == {dependsOn[c][i].on : i \in DOMAIN dependsOn[c]}

\* The depths of a graph without cycles: one function; a cycle has none.
Depths ==
    {d \in [Names -> 0 .. Len(Template)] :
        \A c \in Names :
            /\ \A b \in On(c) : d[b] < d[c]
            /\ d[c] = 0 \/ \E b \in On(c) : d[c] = d[b] + 1}

Position(c) == CHOOSE i \in DOMAIN Template : Template[i] = c

(* Mutation: the position outranks the depth. *)
ByPosition(a, b, depth) == Position(a) < Position(b)

Before(a, b, depth) ==
    depth[a] < depth[b] \/ (depth[a] = depth[b] /\ Position(a) < Position(b))

Cyclic == Depths = {}

\* The one order of the containers in which each comes before those it ranks before.
TopoSort ==
    LET depth == CHOOSE d \in Depths : TRUE
    IN  {order \in [DOMAIN Template -> Names] :
            /\ \A c \in Names : \E i \in DOMAIN Template : order[i] = c
            /\ \A i, j \in DOMAIN Template : i < j => Before(order[i], order[j], depth)}

Starting == startOrder[next]

-----------------------------------------------------------------------------
(* The command. *)

Goes(from, to) == pc = from /\ pc' = to

KeepsRun == UNCHANGED <<taskVars, startOrder, next, waits, signals, cleanVars>>

\* Up to the target: the handlers are registered after this.
Prepare ==
    /\ Goes("prepare", "creds")
    /\ UNCHANGED <<dockerVars, made, known, started>> /\ KeepsRun

\* With --profile a directory is made for its credentials ...
MakeProfileDir ==
    /\ \/ Goes("creds", "images") /\ UNCHANGED made
       \/ Goes("creds", "write") /\ made' = made \cup {"profile"}
    /\ UNCHANGED <<dockerVars, known, started>> /\ KeepsRun

\* ... and the file is written into it, which assigns the variable cleanup() reads.
WriteCredentials ==
    /\ Goes("write", "images")
    /\ made' = (made \ {"profile"}) \cup {"creds"} /\ known' = known \cup {"creds"}
    /\ UNCHANGED <<dockerVars, started>> /\ KeepsRun

\* The start order; a cyclic task is refused.  Images, secrets and dynamic
\* references follow.
PrepareImages ==
    /\ pc = "images"
    /\ IF Cyclic THEN pc' = "finally" /\ UNCHANGED startOrder
                 ELSE pc' = "network" /\ startOrder' \in TopoSort
    /\ UNCHANGED <<taskVars, next, waits, dockerVars, made, known, started, signals, cleanVars>>

\* docker makes the network, the sidecar in it, the volume ...
Docker(step, thing, to) ==
    /\ Goes(step, to)
    /\ made' = made \cup {thing}
    /\ UNCHANGED <<dockerVars, known, started>> /\ KeepsRun

CreateNetwork == Docker("network", "network", "sidecar")
StartSidecar == "network" \in made /\ Docker("sidecar", "sidecar", "networkMade")
CreateVolume == Docker("volume", "volume", "volumeMade")

\* ... and answers, which puts it into the EcsRunState.
NetworkAnswered ==
    /\ Goes("networkMade", "volume")
    /\ known' = known \cup {"network"}
    /\ UNCHANGED <<dockerVars, made, started>> /\ KeepsRun

VolumeAnswered ==
    /\ Goes("volumeMade", "await")
    /\ known' = known \cup {"volume"}
    /\ UNCHANGED <<dockerVars, made, started>> /\ KeepsRun

\* A sidecar that does not start takes its network with it.
SidecarFails ==
    /\ Goes("sidecar", "finally")
    /\ made' = made \ {"network"}
    /\ UNCHANGED <<dockerVars, known, started>> /\ KeepsRun

\* Every other step may fail, too.
Throws ==
    /\ pc \in {"prepare", "creds", "write", "images", "network", "volume", "run"}
    /\ pc' = "finally"
    /\ UNCHANGED <<dockerVars, made, known, started>> /\ KeepsRun

-----------------------------------------------------------------------------
(* awaitDependencies(), and docker run. *)

Edge == dependsOn[Starting][waits]

\* `docker wait` answers for a container that was stopped, too.
Met ==
    \/ Edge.condition = "START"
    \/ Edge.condition = "COMPLETE" /\ (Exited(Edge.on) \/ box[Edge.on] = "gone")
    \/ Edge.condition = "SUCCESS" /\ box[Edge.on] = "ok"
    \/ Edge.condition = "HEALTHY" /\ box[Edge.on] = "healthy"

\* A bad exit code, an unhealthy container, five minutes without a healthy one, a
\* container that is not there to be waited for.
Refused ==
    \/ Edge.condition = "SUCCESS" /\ box[Edge.on] \in {"failed", "gone"}
    \/ Edge.condition = "HEALTHY" /\ box[Edge.on] # "healthy"
    \/ Edge.condition = "COMPLETE" /\ box[Edge.on] = "gone"

Awaiting == pc = "await" /\ waits <= Len(dependsOn[Starting])

DependencyMet ==
    /\ Awaiting /\ Met
    /\ waits' = waits + 1
    /\ UNCHANGED <<taskVars, startOrder, pc, next, dockerVars, made, known, started, signals, cleanVars>>

DependencyRefused ==
    /\ Awaiting /\ Refused
    /\ pc' = "finally"
    /\ UNCHANGED <<dockerVars, made, known, started>> /\ KeepsRun

AllMet ==
    /\ pc = "await" /\ waits > Len(dependsOn[Starting])
    /\ pc' = "run"
    /\ UNCHANGED <<dockerVars, made, known, started>> /\ KeepsRun

DockerRuns ==
    /\ Goes("run", "running")
    /\ "network" \in made
    /\ box' = [box EXCEPT ![Starting] = "up"]
    /\ UNCHANGED <<healthy, made, known, started>> /\ KeepsRun

RunAnswered ==
    /\ pc = "running"
    /\ started' = Append(started, Starting)
    /\ next' = next + 1 /\ waits' = 1
    /\ pc' = IF next < Len(Template) THEN "await"
             ELSE IF mode = "detach" THEN "detached" ELSE "essential"
    /\ UNCHANGED <<taskVars, startOrder, dockerVars, made, known, signals, cleanVars>>

\* The essential container, the first one, has exited or was removed.
EssentialExits ==
    /\ Goes("essential", "finally")
    /\ ~Up(Template[1])
    /\ UNCHANGED <<dockerVars, made, known, started>> /\ KeepsRun

\* --detach: the command ends without a cleanup, after an error as well; one that a
\* signal has begun is not cut short.
Detaches ==
    /\ mode = "detach" /\ pc \in {"detached", "finally"}
    /\ pc' = IF cleaning = "idle" THEN "exited" ELSE "cleaning"
    /\ UNCHANGED <<dockerVars, made, known, started>> /\ KeepsRun

-----------------------------------------------------------------------------
(* The containers, on their own. *)

Changes(c, to) ==
    /\ box' = [box EXCEPT ![c] = to]
    /\ healthy' = IF to = "healthy" THEN healthy \cup {c} ELSE healthy
    /\ UNCHANGED <<taskVars, runVars, made, known, started, signals, cleanVars>>

ContainerExits(c) == Alive /\ Up(c) /\ \E how \in {"ok", "failed"} : Changes(c, how)

\* A container has a health check if another one asks for its health.
HealthChecked(c) ==
    /\ Alive /\ box[c] = "up"
    /\ \E d \in Names : \E i \in DOMAIN dependsOn[d] :
          dependsOn[d][i] = [on |-> c, condition |-> "HEALTHY"]
    /\ \E h \in {"healthy", "unhealthy"} : Changes(c, h)

-----------------------------------------------------------------------------
(* Signals and cleanup(). *)

EnterCleanup == cleaning' = IF cleaning = "idle" THEN "containers" ELSE cleaning

\* The first signal starts the cleanup, the second one ends the process.
Signal ==
    /\ Alive /\ pc \notin {"prepare", "finally", "cleaning"}
    /\ signals' = signals + 1
    /\ IF signals = 0 THEN EnterCleanup /\ UNCHANGED pc ELSE pc' = "forced" /\ UNCHANGED cleaning
    /\ UNCHANGED <<taskVars, startOrder, next, waits, dockerVars, made, known, started, visited>>

\* The `finally`: the handlers are gone from here on.
Unwinds ==
    /\ mode # "detach"
    /\ Goes("finally", "cleaning")
    /\ EnterCleanup
    /\ UNCHANGED <<taskVars, startOrder, next, waits, dockerVars, made, known, started, signals, visited>>

KeepsCommand == UNCHANGED <<taskVars, runVars, healthy, signals>>

\* The loop runs over the list as it is at each turn: docker stop, docker rm.
StopContainer ==
    /\ Alive /\ cleaning = "containers" /\ mode # "keep" /\ visited < Len(started)
    /\ Up(started[visited + 1])
    /\ \E how \in {"ok", "failed"} : box' = [box EXCEPT ![started[visited + 1]] = how]
    /\ UNCHANGED <<made, known, started, cleanVars>> /\ KeepsCommand

RemoveContainer ==
    /\ Alive /\ cleaning = "containers" /\ mode # "keep" /\ visited < Len(started)
    /\ ~Up(started[visited + 1])
    /\ box' = [box EXCEPT ![started[visited + 1]] = "gone"]
    /\ visited' = visited + 1
    /\ UNCHANGED <<made, known, started, cleaning>> /\ KeepsCommand

\* The list is emptied.
ContainersDone ==
    /\ Alive /\ cleaning = "containers"
    /\ mode = "keep" \/ visited = Len(started)
    /\ started' = IF mode = "keep" THEN started ELSE <<>>
    /\ visited' = 0
    /\ cleaning' = "sidecar"
    /\ UNCHANGED <<box, made, known>> /\ KeepsCommand

Removes(thing, from, to) ==
    /\ Alive /\ cleaning = from
    /\ cleaning' = to
    /\ made' = made \ thing
    /\ UNCHANGED <<box, known, started, visited>> /\ KeepsCommand

RemoveSidecar ==
    Removes(IF "network" \in known THEN {"sidecar"} ELSE {}, "sidecar",
            IF "network" \in known THEN "network" ELSE "volume")

\* docker keeps a network in which a container runs; the failure is logged.
RemoveNetwork ==
    Removes(IF \E c \in Names : Up(c) THEN {} ELSE {"network"}, "network", "volume")

\* It keeps a volume that a container, running or not, uses.
RemoveVolume ==
    Removes(IF "volume" \in known /\ ~\E c \in Names : Exists(c) THEN {"volume"} ELSE {},
            "volume", "creds")

RemoveCredentials == Removes(known \cap {"creds"}, "creds", "done")

(* Mutation: the handler's exit waits for the command to unwind. *)
UnwindEnds == pc = "cleaning"

CleanupEnds == signals > 0 \/ pc = "cleaning"

\* process.exit of the handler, or the end of the command.
Exit ==
    /\ Alive /\ cleaning = "done"
    /\ CleanupEnds
    /\ pc' = "exited"
    /\ UNCHANGED <<dockerVars, made, known, started>> /\ KeepsRun

-----------------------------------------------------------------------------
Command ==
    \/ Prepare \/ MakeProfileDir \/ WriteCredentials \/ PrepareImages
    \/ CreateNetwork \/ StartSidecar \/ SidecarFails \/ NetworkAnswered
    \/ CreateVolume \/ VolumeAnswered \/ Throws
    \/ DependencyMet \/ DependencyRefused \/ AllMet
    \/ DockerRuns \/ RunAnswered \/ EssentialExits \/ Detaches \/ Unwinds

Cleanup ==
    \/ StopContainer \/ RemoveContainer \/ ContainersDone
    \/ RemoveSidecar \/ RemoveNetwork \/ RemoveVolume \/ RemoveCredentials \/ Exit

Next ==
    \/ Command \/ Cleanup \/ Signal
    \/ \E c \in Names : ContainerExits(c) \/ HealthChecked(c)

\* The command and the cleanup make progress, docker answers or times out.
Fairness == WF_vars(Command) /\ WF_vars(Cleanup)

Spec == Init /\ [][Next]_vars /\ Fairness

-----------------------------------------------------------------------------
(* Properties. *)

\* A container runs only after all its dependencies were started and had reached
\* their condition, in whatever order the template lists them, and a task whose
\* dependencies form a cycle starts nothing.
StartsInOrder ==
    \A c \in Names : box[c] # "none" =>
        /\ ~Cyclic
        /\ \A i \in DOMAIN dependsOn[c] :
              LET e == dependsOn[c][i] IN
              /\ box[e.on] # "none"
              /\ e.condition \in {"COMPLETE", "SUCCESS"} => ~Up(e.on)
              /\ e.condition = "SUCCESS" => box[e.on] \in {"ok", "gone"}
              /\ e.condition = "HEALTHY" => e.on \in healthy

\* A command that ends without a signal leaves nothing, but for the directory of a
\* credentials file that cannot be written; with --keep-running, its containers, and the
\* network and volume they hold.
NothingLeft ==
    pc = "exited" /\ mode # "detach" /\ signals = 0 =>
        /\ mode = "plain" => made \subseteq {"profile"} /\ \A c \in Names : ~Exists(c)
        /\ "profile" \in made => startOrder = <<>>
        /\ made \cap {"creds", "sidecar"} = {}
        /\ "network" \in made => \E c \in Names : Exists(c)

\* After a signal, what a step of cleanup() leaves behind is only what docker was
\* creating at that moment: the list is emptied when everything but the container
\* in flight is gone, the network goes unless it was being made.
LeavesOnlyInFlight ==
    [][/\ cleaning = "containers" /\ cleaning' # cleaning /\ mode # "keep" =>
              \A c \in Names : Exists(c) => pc = "running" /\ c = Starting
       /\ cleaning = "sidecar" /\ cleaning' # cleaning =>
              "sidecar" \notin made' \/ pc = "networkMade"]_vars

=============================================================================
