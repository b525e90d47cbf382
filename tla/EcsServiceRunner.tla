-------------------------- MODULE EcsServiceRunner --------------------------
(***************************************************************************)
(* One ECS service under `cdkl start-service`: the replicas of             *)
(* src/src/local/ecs-service-runner.ts and, of                             *)
(* src/src/cli/commands/ecs-service-emulator.ts, the boot, the reloads of  *)
(* --watch and the cleanup a signal runs.                                  *)
(*                                                                         *)
(* Concurrent promise chains share the replica list: the boot loop, one    *)
(* exit watcher per replica, the reload (one at a time, reloadChain) and   *)
(* the cleanup.  An action is what one of them runs between two awaits.    *)
(*                                                                         *)
(* Abstractions: a replica runs its essential container only; its Cloud    *)
(* Map handles and its front-door endpoint are one route; aliases on the   *)
(* shared network, images and log streams are left out; `docker stop` and  *)
(* `docker rm` of a cleanup succeed; --keep-running is off.                *)
(***************************************************************************)
EXTENDS Integers, FiniteSets

CONSTANTS
  DesiredCount,   (* service.desiredCount                                  *)
  MaxTasks,       (* --max-tasks                                           *)
  RestartPolicy,  (* --restart-policy                                      *)
  Containers,
  NoContainer,
  Verdicts,       (* what the classifier may answer: reload kinds          *)
  MaxReloads,     (* bound: source changes, so also the generation         *)
  MaxCrashes      (* bound: essential containers that exit by themselves   *)

ASSUME RunnerAssumption ==
  /\ DesiredCount \in Int
  /\ MaxTasks \in Nat \ {0}    (* computeReplicaCount rejects the others *)
  /\ RestartPolicy \in {"on-failure", "always", "none"}
  /\ NoContainer \notin Containers
  /\ Verdicts \subseteq {"rebuild", "soft-reload"}
  /\ MaxReloads \in Nat /\ MaxCrashes \in Nat

ComputeReplicaCount(desiredCount, maxTasks) ==
  IF desiredCount <= 0 THEN 1
  ELSE IF desiredCount < maxTasks THEN desiredCount ELSE maxTasks

Slots == 0 .. ComputeReplicaCount(DesiredCount, MaxTasks) - 1

(* A ServiceReplicaInstance by its index and generation: the owner key of   *)
(* its registrations.                                                       *)
Instances == Slots \X (0 .. MaxReloads)
Shadow(i) == <<i[1], i[2] + 1>>

VARIABLES
  replicas,     (* runState.replicas                                       *)
  retired,      (* instance.shuttingDown                                   *)
  shuttingDown, (* runState.shuttingDown                                   *)
  container,    (* instance.state.startedContainers                        *)
  routes,       (* instance.cloudMapHandles and the front-door endpoint    *)
  task,         (* what the instance's own chain (boot or watcher) awaits  *)
  answer,       (* of the `docker wait` in flight: "pending", or an exit   *)
  softReload,   (* instance.softReloadInProgress                           *)
  softGen,      (* instance.softReloadGeneration                           *)
  softGenSeen,  (* softReloadGenBeforeWait                                 *)
  docker,       (* state of each container                                 *)
  boot,         (* startEcsService: "booting", "up", "failed"              *)
  reload,       (* what the reload awaits, "idle" when there is none       *)
  queue,        (* replicas the reload has yet to replace                  *)
  kind,         (* its verdict                                             *)
  old,          (* the replica it replaces now                             *)
  target,       (* the container a soft reload cycles or publishes         *)
  emulator,     (* "running", "signalled", "settling", "cleaning",         *)
                (* "exited"                                                *)
  awaited,      (* boots the cleanup waits for                             *)
  cleaning,     (* containers the cleanup has yet to remove                *)
  reloads, crashes, (* bounded counters                                    *)
  unawaited,    (* history: replicas torn down while their own chain       *)
                (* was between tearing down and booting again              *)
  overtaken,    (* history: replicas a soft reload began to cycle while    *)
                (* their own chain was not waiting for their exit          *)
  dark          (* history: slots where a container exited by itself or    *)
                (* docker refused a boot, a reload or a registration       *)

instVars   == <<replicas, retired, container, routes, task, answer>>
softVars   == <<softReload, softGen, softGenSeen>>
reloadVars == <<reload, queue, kind, old, target, reloads>>
emuVars    == <<shuttingDown, boot, emulator, awaited, cleaning>>
histVars   == <<unawaited, overtaken, dark>>
vars == <<instVars, softVars, docker, reloadVars, emuVars, crashes, histVars>>

Exited == {"exit0", "exit1"}
(* The states in which instance.inFlightBoot is set. *)
InFlight == {"booting", "probing", "publishing", "verifying"}
Rebooting == InFlight \union {"clearing"}

SingleReplica == Cardinality(Slots) = 1
NoInstance == <<-1, 0>>
Stopping(i) == retired[i] \/ shuttingDown
Bare(i) == i[2] = 0 /\ boot = "booting"             (* booted by the loop  *)
Rolled(i) == reload = "shadow" /\ i = Shadow(old)   (* booted by a roll    *)
Restarted(i) == ~Bare(i) /\ ~Rolled(i)              (* booted by its watcher *)

Running(i) == container[i] # NoContainer /\ docker[container[i]] = "running"

Fresh(c) ==
  /\ docker[c] = "absent"
  /\ c \notin cleaning
  /\ c # target
  /\ \A i \in Instances : container[i] # c /\ routes[i] # c

ShouldRestart(exit) ==
  CASE RestartPolicy = "none" -> FALSE
    [] RestartPolicy = "always" -> TRUE
    [] OTHER -> exit # "exit0"

-----------------------------------------------------------------------------

Init ==
  /\ replicas = {<<0, 0>>}
  /\ retired = [i \in Instances |-> FALSE]
  /\ shuttingDown = FALSE
  /\ container = [i \in Instances |-> NoContainer]
  /\ routes = [i \in Instances |-> NoContainer]
  /\ task = [i \in Instances |-> IF i = <<0, 0>> THEN "booting" ELSE "none"]
  /\ answer = [i \in Instances |-> "none"]
  /\ softReload = [i \in Instances |-> FALSE]
  /\ softGen = [i \in Instances |-> 0]
  /\ softGenSeen = [i \in Instances |-> 0]
  /\ docker = [c \in Containers |-> "absent"]
  /\ boot = "booting"
  /\ reload = "idle" /\ queue = {} /\ kind = "none"
  /\ old = NoInstance /\ target = NoContainer
  /\ emulator = "running" /\ awaited = {} /\ cleaning = {}
  /\ reloads = 0 /\ crashes = 0
  /\ unawaited = {} /\ overtaken = {} /\ dark = {}

(* Container c takes state s; the waits in flight on it are answered.  The  *)
(* daemon may deliver an answer late: the watcher acts on it in its own     *)
(* time.                                                                    *)
DockerBecomes(c, s) ==
  /\ docker' = [docker EXCEPT ![c] = s]
  /\ answer' = [i \in Instances |->
                  IF container[i] = c /\ answer[i] = "pending" /\ s # "running"
                  THEN s ELSE answer[i]]

(* The containers in cs are removed, each cleanupEcsRun empties its state.  *)
DockerRemoves(cs) ==
  /\ docker' = [c \in Containers |-> IF c \in cs THEN "absent" ELSE docker[c]]
  /\ answer' = [i \in Instances |->
                  IF container[i] \in cs /\ answer[i] = "pending"
                  THEN "absent" ELSE answer[i]]
  /\ container' = [i \in Instances |->
                     IF container[i] \in cs THEN NoContainer ELSE container[i]]

(* The top of the watcher's loop, for the replicas in is: leave it, or note *)
(* the soft-reload generation and issue `docker wait`.                      *)
Watch(is) ==
  /\ task' = [i \in Instances |->
                IF i \notin is THEN task[i]
                ELSE IF Stopping(i) THEN "stopped"
                ELSE IF container[i] = NoContainer THEN "sleeping"
                ELSE "watching"]
  /\ answer' = [i \in Instances |->
                  IF task'[i] # "watching" THEN "none"
                  ELSE IF i \notin is THEN answer[i]
                  ELSE IF docker[container[i]] = "running" THEN "pending"
                  ELSE docker[container[i]]]
  /\ softGenSeen' = [i \in Instances |->
                       IF i \in is THEN softGen[i] ELSE softGenSeen[i]]

SetTask(i, t) == task' = [task EXCEPT ![i] = t]

(* The reload goes on to the next replica of its queue. *)
NextReplica ==
  /\ reload' = "next"
  /\ old' = NoInstance
  /\ target' = NoContainer

TornDown(i) ==
  unawaited' = IF task[i] \in Rebooting THEN unawaited \union {i} ELSE unawaited

Darken(i) == dark' = dark \union {i[1]}

Unregister(i) == routes' = [routes EXCEPT ![i] = NoContainer]

-----------------------------------------------------------------------------
(* bootReplica: the same chain for the boot loop, a roll and a restart      *)

(* `docker run` has started the container.  The boot loop and the roll of a *)
(* single replica publish at once, the others after the readiness probe.    *)
ContainerStarts(i, c) ==
  /\ task[i] = "booting"
  /\ Fresh(c)
  /\ docker' = [docker EXCEPT ![c] = "running"]
  /\ container' = [container EXCEPT ![i] = c]
  /\ SetTask(i, IF Bare(i) \/ (Rolled(i) /\ SingleReplica)
                THEN "publishing" ELSE "probing")
  /\ UNCHANGED <<replicas, retired, routes, answer, softVars, reloadVars,
                 emuVars, crashes, histVars>>

(* The boot promise of i settles.  With the boot loop's, the loop goes on:  *)
(* the next replica, or the watchers of all.                                *)
LoopContinues(i) ==
  /\ awaited' = awaited \ {i}
  /\ IF i[1] + 1 \in Slots
     THEN LET n == <<i[1] + 1, 0>> IN
          /\ replicas' = replicas \union {n}
          /\ task' = [task EXCEPT ![i] = "none", ![n] = "booting"]
          /\ UNCHANGED <<answer, softGenSeen, boot>>
     ELSE /\ Watch(replicas)
          /\ boot' = "up"
          /\ UNCHANGED replicas
  /\ UNCHANGED <<reload, old, target>>

(* A roll: the shadow is watched (single replica), or the swap retires the  *)
(* old one: its registrations go in the same turn and its watcher stops.    *)
RollContinues(i) ==
  /\ awaited' = awaited \ {i}
  /\ UNCHANGED <<replicas, boot>>
  /\ IF SingleReplica
     THEN /\ Watch({i})
          /\ NextReplica
     ELSE /\ SetTask(i, "none")
          /\ reload' = "swap"
          /\ UNCHANGED <<answer, softGenSeen, old, target>>

(* A restart: back to the top of the watcher's loop. *)
RestartContinues(i) ==
  /\ awaited' = awaited \ {i}
  /\ Watch({i})
  /\ UNCHANGED <<replicas, boot, reload, old, target>>

BootSettles(i) ==
  \/ Bare(i) /\ LoopContinues(i)
  \/ Rolled(i) /\ RollContinues(i)
  \/ Restarted(i) /\ RestartContinues(i)

settleFrame == <<retired, container, docker, queue, kind, reloads, shuttingDown,
                 emulator, cleaning, crashes, softReload, softGen, unawaited,
                 overtaken>>

(* waitForReplicaTcpReady is over: ready, out of time, or told to stop; a   *)
(* restart that sees its container exit again publishes nothing.            *)
ProbeEnds(i) ==
  /\ task[i] = "probing"
  /\ \/ /\ ~Stopping(i)
        /\ SetTask(i, "publishing")
        /\ UNCHANGED <<answer, softGenSeen, replicas, boot, reload, old, target,
                       awaited>>
     \/ /\ (Restarted(i) /\ ~Running(i)) \/ Stopping(i)
        /\ BootSettles(i)
  /\ UNCHANGED <<routes, dark, settleFrame>>

(* publishReplicaToCloudMap, publishReplicaToFrontDoor: the container found *)
(* is registered, or docker does not say where it listens and it is not.    *)
Publishes(i) ==
  /\ task[i] = "publishing"
  /\ \/ /\ Running(i)
        /\ routes' = [routes EXCEPT ![i] = container[i]]
        /\ UNCHANGED dark
     \/ UNCHANGED routes /\ Darken(i)
  /\ \/ ~(Rolled(i) /\ SingleReplica) /\ BootSettles(i)
     \/ /\ Rolled(i) /\ SingleReplica   (* its probe comes afterwards *)
        /\ SetTask(i, "verifying")
        /\ UNCHANGED <<answer, softGenSeen, replicas, boot, reload, old, target,
                       awaited>>
  /\ UNCHANGED settleFrame

SingleRollProbeEnds(i) ==
  /\ task[i] = "verifying"
  /\ BootSettles(i)
  /\ UNCHANGED <<routes, dark, settleFrame>>

(* `docker run` fails, or a gated publish finds no address.  The boot loop  *)
(* gives up and the command's finally cleans up; a roll discards its        *)
(* shadow; a restart leaves the service degraded.                           *)
BootFails(i) ==
  /\ \/ task[i] = "booting"
     \/ task[i] = "publishing" /\ ~Bare(i) /\ ~(Rolled(i) /\ SingleReplica)
  /\ awaited' = awaited \ {i}
  /\ Darken(i)
  /\ \/ /\ Bare(i)
        /\ SetTask(i, "none")
        /\ boot' = "failed"
        /\ emulator' = IF emulator = "running" THEN "signalled" ELSE emulator
        /\ UNCHANGED <<replicas, retired, reload>>
     \/ /\ Rolled(i)
        /\ SetTask(i, "none")
        /\ replicas' = replicas \ {i}
        /\ reload' = "discarding"
        /\ UNCHANGED <<retired, boot, emulator>>
     \/ /\ Restarted(i)
        /\ SetTask(i, "stopped")
        /\ retired' = [retired EXCEPT ![i] = TRUE]
        /\ UNCHANGED <<replicas, boot, reload, emulator>>
  /\ UNCHANGED <<container, routes, answer, softVars, docker, queue, kind, old,
                 target, reloads, shuttingDown, cleaning, crashes, unawaited,
                 overtaken>>

-----------------------------------------------------------------------------
(* watchReplica *)

(* The essential container exits by itself. *)
Crash(c) ==
  /\ crashes < MaxCrashes
  /\ docker[c] = "running"
  /\ crashes' = crashes + 1
  /\ \E s \in Exited : DockerBecomes(c, s)
  /\ dark' = dark \union {i[1] : i \in {j \in Instances : container[j] = c}}
  /\ UNCHANGED <<replicas, retired, container, routes, task, softVars,
                 reloadVars, emuVars, unawaited, overtaken>>

(* No container: look again in 500 ms. *)
SleepEnds(i) ==
  /\ task[i] = "sleeping"
  /\ Watch({i})
  /\ UNCHANGED <<replicas, retired, container, routes, softReload, softGen,
                 docker, reloadVars, emuVars, crashes, histVars>>

(* Mutation: only the flag is looked at. *)
NoReloadSeen(i) == softReload[i]

(* A soft reload runs, or ran from start to end during the wait. *)
ReloadSeen(i) == softReload[i] \/ softGen[i] # softGenSeen[i]

(* `docker wait` is answered. *)
ExitSeen(i) ==
  /\ task[i] = "watching"
  /\ answer[i] # "pending"
  /\ SetTask(i, IF Stopping(i) THEN "stopped"
                ELSE IF ReloadSeen(i) THEN "deferring"
                ELSE IF ShouldRestart(answer[i]) THEN "backoff"
                ELSE "leaving")
  /\ answer' = [answer EXCEPT ![i] = "none"]
  /\ UNCHANGED <<replicas, retired, container, routes, softVars, docker,
                 reloadVars, emuVars, crashes, histVars>>

(* The soft reload is over: watch the same container again. *)
DeferEnds(i) ==
  /\ task[i] = "deferring"
  /\ ~softReload[i] \/ Stopping(i)
  /\ Watch({i})
  /\ UNCHANGED <<replicas, retired, container, routes, softReload, softGen,
                 docker, reloadVars, emuVars, crashes, histVars>>

(* No restart: the replica is marked, its container and registrations stay  *)
(* for the cleanup.                                                         *)
Degrade(i) ==
  /\ task[i] = "leaving"
  /\ SetTask(i, "stopped")
  /\ retired' = [retired EXCEPT ![i] = TRUE]
  /\ UNCHANGED <<replicas, container, routes, answer, softVars, docker,
                 reloadVars, emuVars, crashes, histVars>>

(* The backoff is over: drop the registrations, then remove the container. *)
BackoffEnds(i) ==
  /\ task[i] = "backoff"
  /\ \/ /\ Stopping(i)
        /\ SetTask(i, "stopped")
        /\ UNCHANGED routes
     \/ /\ ~Stopping(i)
        /\ SetTask(i, "clearing")
        /\ Unregister(i)
  /\ UNCHANGED <<replicas, retired, container, answer, softVars, docker,
                 reloadVars, emuVars, crashes, histVars>>

(* Mutation: the dead container is left in docker. *)
RemovesNothing(cs) == UNCHANGED docker /\ UNCHANGED answer /\
  container' = [i \in Instances |->
                  IF container[i] \in cs THEN NoContainer ELSE container[i]]

ClearState(cs) == DockerRemoves(cs)

(* The container is removed: a new EcsRunState, and the boot begins.        *)
Reboot(i) ==
  /\ task[i] = "clearing"
  /\ ClearState({container[i]})
  /\ SetTask(i, "booting")
  /\ UNCHANGED <<replicas, retired, routes, softVars, reloadVars, emuVars,
                 crashes, histVars>>

-----------------------------------------------------------------------------
(* reloadAllServices: replicas are replaced or cycled one after another     *)

(* A debounced change: the live replicas of this moment are to be replaced, *)
(* in any order (the code goes down the list).  After a signal it is one    *)
(* that was chained on reloadChain before; the cleanup waits for it too.    *)
SourceChanged ==
  /\ reloads < MaxReloads
  /\ boot = "up"
  /\ emulator \in {"running", "signalled"}
  /\ reload = "idle"
  /\ \E k \in Verdicts : kind' = k
  /\ queue' = {i \in replicas : ~retired[i]}
  /\ reload' = "next"
  /\ reloads' = reloads + 1
  /\ UNCHANGED <<instVars, softVars, docker, old, target, emuVars, crashes,
                 histVars>>

ReloadEnds ==
  /\ reload = "next" /\ queue = {}
  /\ reload' = "idle"
  /\ kind' = "none"
  /\ UNCHANGED <<instVars, softVars, docker, queue, old, target, reloads,
                 emuVars, crashes, histVars>>

(* Gone, or retired by its own watcher meanwhile; for a soft reload also    *)
(* without a container.                                                     *)
SkipReplica(i) ==
  /\ reload = "next" /\ i \in queue
  /\ \/ i \notin replicas
     \/ retired[i]
     \/ kind = "soft-reload" /\ container[i] = NoContainer
  /\ queue' = queue \ {i}
  /\ UNCHANGED <<instVars, softVars, docker, reload, kind, old, target, reloads,
                 emuVars, crashes, histVars>>

(* Mutations: the old replica always goes before its shadow boots; it never *)
(* does.                                                                    *)
AlwaysTearDownFirst == TRUE
NeverTearDownFirst == FALSE

TeardownOldFirst == SingleReplica

(* rollServiceReplica: the shadow joins the list.  A single replica goes    *)
(* first, to free its host port; otherwise the shadow boots beside it.      *)
BeginRoll(i) ==
  /\ reload = "next" /\ kind = "rebuild" /\ i \in queue
  /\ i \in replicas /\ ~retired[i]
  /\ queue' = queue \ {i}
  /\ old' = i
  /\ replicas' = replicas \union {Shadow(i)}
  /\ \/ /\ TeardownOldFirst
        /\ Unregister(i)
        /\ retired' = [retired EXCEPT ![i] = TRUE]
        /\ TornDown(i)
        /\ target' = container[i]
        /\ reload' = "clearing"
        /\ UNCHANGED task
     \/ /\ ~TeardownOldFirst
        /\ SetTask(Shadow(i), "booting")
        /\ reload' = "shadow"
        /\ UNCHANGED <<routes, retired, target, unawaited>>
  /\ UNCHANGED <<container, answer, softVars, docker, kind, reloads, emuVars,
                 crashes, overtaken, dark>>

(* cleanupEcsRun of the replica that goes, or of a shadow that failed. *)
OldRemoved ==
  /\ \/ reload = "clearing" /\ reload' = "cleared"
     \/ reload = "retiring" /\ reload' = "retired"
  /\ DockerRemoves({target} \ {NoContainer})
  /\ UNCHANGED <<replicas, retired, routes, task, softVars, queue, kind, old,
                 target, reloads, emuVars, crashes, histVars>>

(* Single replica: now the shadow boots. *)
BootShadow ==
  /\ reload = "cleared"
  /\ replicas' = replicas \ {old}
  /\ SetTask(Shadow(old), "booting")
  /\ reload' = "shadow"
  /\ target' = NoContainer
  /\ UNCHANGED <<retired, container, routes, answer, softVars, docker, queue,
                 kind, old, reloads, emuVars, crashes, histVars>>

(* The swap: the registrations of the old replica go in one turn and its    *)
(* watcher is told to stop; then it drains.                                 *)
Swap ==
  /\ reload = "swap"
  /\ Unregister(old)
  /\ retired' = [retired EXCEPT ![old] = TRUE]
  /\ TornDown(old)
  /\ reload' = "draining"
  /\ UNCHANGED <<replicas, container, task, answer, softVars, docker, queue,
                 kind, old, target, reloads, emuVars, crashes, overtaken, dark>>

DrainEnds ==
  /\ reload = "draining"
  /\ reload' = "retiring"
  /\ target' = container[old]
  /\ UNCHANGED <<instVars, softVars, docker, queue, kind, old, reloads, emuVars,
                 crashes, histVars>>

(* Mutation: the shadow gets no watcher. *)
RollEndsUnwatched ==
  /\ reload = "retired"
  /\ replicas' = replicas \ {old}
  /\ NextReplica
  /\ UNCHANGED <<retired, container, routes, task, answer, softVars, docker,
                 queue, kind, reloads, emuVars, crashes, histVars>>

(* The old replica leaves the list, the shadow gets its watcher. *)
RollEnds ==
  /\ reload = "retired"
  /\ replicas' = replicas \ {old}
  /\ Watch({Shadow(old)})
  /\ NextReplica
  /\ UNCHANGED <<retired, container, routes, softReload, softGen, docker, queue,
                 kind, reloads, emuVars, crashes, histVars>>

(* The shadow failed and has left the list: remove what it started. *)
DiscardShadow ==
  /\ reload = "discarding"
  /\ DockerRemoves({container[Shadow(old)]} \ {NoContainer})
  /\ NextReplica
  /\ UNCHANGED <<replicas, retired, routes, task, softVars, queue, kind,
                 reloads, emuVars, crashes, histVars>>

(* softReloadReplica: drain the registrations, then copy the new source.    *)
BeginSoftReload(i) ==
  /\ reload = "next" /\ kind = "soft-reload" /\ i \in queue
  /\ i \in replicas /\ ~retired[i] /\ container[i] # NoContainer
  /\ queue' = queue \ {i}
  /\ old' = i
  /\ target' = container[i]
  /\ Unregister(i)
  /\ softReload' = [softReload EXCEPT ![i] = TRUE]
  /\ softGen' = [softGen EXCEPT ![i] = @ + 1]
  /\ reload' = "copying"
  /\ overtaken' = IF task[i] \in {"watching", "deferring"} THEN overtaken
                  ELSE overtaken \union {i}
  /\ UNCHANGED <<replicas, retired, container, task, answer, softGenSeen,
                 docker, kind, reloads, emuVars, crashes, unawaited, dark>>

(* docker cp, and the drain of the shared network. *)
SourceCopied ==
  /\ reload = "copying"
  /\ docker[target] # "absent"
  /\ reload' = "stopping"
  /\ UNCHANGED <<instVars, softVars, docker, queue, kind, old, target, reloads,
                 emuVars, crashes, histVars>>

SoftStop ==
  /\ reload = "stopping"
  /\ docker[target] # "absent"
  /\ \/ docker[target] = "running" /\ \E s \in Exited : DockerBecomes(target, s)
     \/ docker[target] # "running" /\ UNCHANGED <<docker, answer>>
  /\ reload' = "starting"
  /\ UNCHANGED <<replicas, retired, container, routes, task, softVars, queue,
                 kind, old, target, reloads, emuVars, crashes, histVars>>

SoftStart ==
  /\ reload = "starting"
  /\ docker[target] # "absent"
  /\ DockerBecomes(target, "running")
  /\ reload' = "probing"
  /\ UNCHANGED <<replicas, retired, container, routes, task, softVars, queue,
                 kind, old, target, reloads, emuVars, crashes, histVars>>

ClearFlag == softReload' = [softReload EXCEPT ![old] = FALSE]

SoftReloadEnds ==
  /\ ClearFlag
  /\ NextReplica

softFrame == <<replicas, retired, container, task, answer, softGen, softGenSeen,
               docker, queue, kind, reloads, emuVars, crashes, unawaited,
               overtaken>>

(* The probe ended, ready or not: what the state lists now is looked up.    *)
SoftProbeEnds ==
  /\ reload = "probing"
  /\ \/ /\ container[old] # NoContainer
        /\ reload' = "publishing"
        /\ target' = container[old]
        /\ UNCHANGED <<softReload, old, dark>>
     \/ /\ container[old] = NoContainer
        /\ SoftReloadEnds
  /\ UNCHANGED <<routes, dark, softFrame>>

SoftPublish ==
  /\ reload = "publishing"
  /\ \/ /\ docker[target] = "running"
        /\ routes' = [routes EXCEPT ![old] = target]
        /\ UNCHANGED dark
     \/ UNCHANGED routes /\ Darken(old)
  /\ SoftReloadEnds
  /\ UNCHANGED softFrame

(* Any docker command fails: the replica stays drained, its watcher takes   *)
(* over again.                                                              *)
SoftFails ==
  /\ reload \in {"copying", "stopping", "starting"}
  /\ SoftReloadEnds
  /\ Darken(old)
  /\ UNCHANGED <<routes, softFrame>>

-----------------------------------------------------------------------------
(* The emulator's cleanup                                                   *)

(* SIGINT or SIGTERM: the file watcher is closed first. *)
Signal ==
  /\ emulator = "running"
  /\ emulator' = "signalled"
  /\ UNCHANGED <<instVars, softVars, docker, reloadVars, shuttingDown, boot,
                 awaited, cleaning, crashes, histVars>>

(* Mutation: the shutdown waits for the watchers too. *)
AwaitsWatchers == {i \in replicas : task[i] \notin {"none", "stopped"}}

InFlightBoots == {i \in replicas : task[i] \in InFlight}

(* reloadChain has settled.  With a controller, doShutdown marks every      *)
(* replica; without one (the boot has not returned) nothing is marked.      *)
BeginShutdown ==
  /\ emulator = "signalled"
  /\ reload = "idle"
  /\ emulator' = "settling"
  /\ awaited' = InFlightBoots
  /\ \/ /\ boot = "up"
        /\ shuttingDown' = TRUE
        /\ retired' = [i \in Instances |-> retired[i] \/ i \in replicas]
        /\ unawaited' = unawaited \union {i \in replicas : task[i] = "clearing"}
     \/ /\ boot # "up"
        /\ unawaited' = IF boot = "failed" THEN unawaited ELSE Instances
        /\ UNCHANGED <<shuttingDown, retired>>
  /\ UNCHANGED <<replicas, container, routes, task, answer, softVars, docker,
                 reloadVars, boot, cleaning, crashes, overtaken, dark>>

(* The boots in flight have settled: registrations go, and every container  *)
(* the states list now is to be removed.                                    *)
TakeDown ==
  /\ emulator = "settling"
  /\ awaited = {}
  /\ emulator' = "cleaning"
  /\ cleaning' = {container[i] : i \in replicas} \ {NoContainer}
  /\ routes' = [i \in Instances |->
                  IF shuttingDown /\ i \in replicas THEN NoContainer ELSE routes[i]]
  /\ UNCHANGED <<replicas, retired, container, task, answer, softVars, docker,
                 reloadVars, shuttingDown, boot, awaited, crashes, histVars>>

RemoveOne(c) ==
  /\ emulator = "cleaning"
  /\ c \in cleaning
  /\ cleaning' = cleaning \ {c}
  /\ DockerRemoves({c})
  /\ UNCHANGED <<replicas, retired, routes, task, softVars, reloadVars,
                 shuttingDown, boot, emulator, awaited, crashes, histVars>>

(* process.exit: nothing runs afterwards. *)
Exit ==
  /\ emulator = "cleaning"
  /\ cleaning = {}
  /\ emulator' = "exited"
  /\ UNCHANGED <<instVars, softVars, docker, reloadVars, shuttingDown, boot,
                 awaited, cleaning, crashes, histVars>>

-----------------------------------------------------------------------------

BootStep(i) ==
  \/ \E c \in Containers : ContainerStarts(i, c)
  \/ ProbeEnds(i)
  \/ Publishes(i)
  \/ SingleRollProbeEnds(i)
  \/ BootFails(i)

WatcherStep(i) ==
  \/ SleepEnds(i)
  \/ ExitSeen(i)
  \/ DeferEnds(i)
  \/ Degrade(i)
  \/ BackoffEnds(i)
  \/ Reboot(i)

ReloadStep ==
  \/ ReloadEnds
  \/ \E i \in Instances : SkipReplica(i) \/ BeginRoll(i) \/ BeginSoftReload(i)
  \/ OldRemoved
  \/ BootShadow
  \/ Swap
  \/ DrainEnds
  \/ RollEnds
  \/ DiscardShadow
  \/ SourceCopied
  \/ SoftStop
  \/ SoftStart
  \/ SoftProbeEnds
  \/ SoftPublish
  \/ SoftFails

CleanupStep ==
  \/ BeginShutdown
  \/ TakeDown
  \/ \E c \in Containers : RemoveOne(c)
  \/ Exit

Next ==
  /\ emulator # "exited"
  /\ \/ \E i \in Instances : BootStep(i) \/ WatcherStep(i)
     \/ ReloadStep
     \/ CleanupStep
     \/ SourceChanged
     \/ Signal
     \/ \E c \in Containers : Crash(c)

Spec == Init /\ [][Next]_vars

(* Every chain goes on once what it awaits has settled.  The environment    *)
(* owes nothing: no source change, no signal, no crash.                     *)
Fairness ==
  /\ \A i \in Instances :
       /\ WF_vars(emulator # "exited" /\ BootStep(i))
       /\ WF_vars(emulator # "exited" /\ WatcherStep(i))
  /\ WF_vars(emulator # "exited" /\ ReloadStep)
  /\ WF_vars(emulator # "exited" /\ CleanupStep)

FairSpec == Spec /\ Fairness

-----------------------------------------------------------------------------
(* Properties                                                               *)

Tasks == {"none", "booting", "probing", "publishing", "verifying", "sleeping",
          "watching", "deferring", "leaving", "backoff", "clearing", "stopped"}

(* The variables have their types, and a replica that has not started its   *)
(* container yet lists none: bootReplica begins on a new EcsRunState.       *)
TypeOK ==
  /\ replicas \subseteq Instances
  /\ retired \in [Instances -> BOOLEAN]
  /\ shuttingDown \in BOOLEAN
  /\ container \in [Instances -> Containers \union {NoContainer}]
  /\ routes \in [Instances -> Containers \union {NoContainer}]
  /\ task \in [Instances -> Tasks]
  /\ answer \in [Instances -> {"none", "pending", "absent"} \union Exited]
  /\ softReload \in [Instances -> BOOLEAN]
  /\ softGen \in [Instances -> 0 .. MaxReloads]
  /\ softGenSeen \in [Instances -> 0 .. MaxReloads]
  /\ docker \in [Containers -> {"absent", "running"} \union Exited]
  /\ boot \in {"booting", "up", "failed"}
  /\ reload \in {"idle", "next", "clearing", "cleared", "shadow", "discarding",
                 "swap", "draining", "retiring", "retired", "copying",
                 "stopping", "starting", "probing", "publishing"}
  /\ queue \subseteq Instances
  /\ kind \in Verdicts \union {"none"}
  /\ old \in Instances \union {NoInstance}
  /\ target \in Containers \union {NoContainer}
  /\ emulator \in {"running", "signalled", "settling", "cleaning", "exited"}
  /\ awaited \subseteq Instances
  /\ cleaning \subseteq Containers
  /\ reloads \in 0 .. MaxReloads /\ crashes \in 0 .. MaxCrashes
  /\ unawaited \subseteq Instances
  /\ overtaken \subseteq Instances /\ dark \subseteq Slots
  /\ \A i \in Instances : task[i] = "booting" => container[i] = NoContainer

Stray(c) == \E i \in unawaited : container[i] = c

(* No container is lost: whatever is left in docker belongs to a replica of *)
(* the list, or some chain is removing it.  The exception is a replica torn *)
(* down in the middle of its own restart, which nobody waits for (see       *)
(* NoResurrection).  With the same exception no container outlives the      *)
(* command: doShutdown marks the replicas, waits for the boots in flight    *)
(* and removes what the states list afterwards.                             *)
NoOrphan ==
  /\ \A c \in Containers : docker[c] # "absent" =>
       \/ \E i \in replicas : container[i] = c
       \/ c \in cleaning
       \/ c = target
       \/ reload = "discarding" /\ c = container[Shadow(old)]
       \/ Stray(c)
  /\ emulator = "exited" =>
       \A c \in Containers : docker[c] = "absent" \/ Stray(c)

(* A single replica publishes its host ports, so no second container of the *)
(* service may run beside it: not during a roll, nor during a restart.      *)
HostPortFree ==
  SingleReplica =>
    Cardinality({c \in Containers : docker[c] = "running" /\ ~Stray(c)}) <= 1

Served(s) ==
  \E i \in replicas : /\ i[1] = s
                      /\ routes[i] # NoContainer
                      /\ docker[routes[i]] = "running"

(* A reload of a service of several replicas keeps it serving: a roll takes *)
(* no replica out before its shadow is registered, a soft reload takes out  *)
(* one at a time.  Slots where a container exited by itself, or docker      *)
(* refused something, are not counted.                                      *)
StaysServed ==
  boot = "up" /\ emulator \in {"running", "signalled"} /\ ~SingleReplica =>
    Cardinality({s \in Slots \ dark : ~Served(s)})
      <= IF kind = "soft-reload" THEN 1 ELSE 0

(* No registration leads to a container that is gone: whoever removes a     *)
(* container has dropped its registrations first.  Two chains that meet on  *)
(* one replica escape it: a watcher back from its backoff looks at the      *)
(* shutdown flags alone and may remove a replica under a soft reload.       *)
RoutesLead ==
  \A i \in Instances : routes[i] # NoContainer =>
    docker[routes[i]] # "absent" \/ i \in unawaited \union overtaken

(* Every live replica has its exit watcher, but for a shadow in the middle  *)
(* of its roll: a rolled replica that crashes later is restarted too.       *)
Watched ==
  emulator \in {"running", "signalled"} =>
    \A i \in replicas :
      ~retired[i] /\ (old = NoInstance \/ i # Shadow(old))
        => task[i] \notin {"none", "stopped"}

(* Once the service is up its replicas are attended to: what traffic is     *)
(* sent to exists, and what exits is noticed.                               *)
Attended == boot = "up" => RoutesLead /\ Watched

(* A watcher treats an exit as a crash only if its container is not         *)
(* running: the stop and start of a soft reload that began while it waited, *)
(* answered however late, is not a crash.                                   *)
CrashMeansCrash ==
  [][\A i \in Instances \ overtaken :
       task[i] = "watching" /\ task'[i] \in {"backoff", "leaving"}
         => ~Running(i)]_vars

Down(i) ==
  /\ i \in replicas /\ ~retired[i] /\ container[i] # NoContainer
  /\ docker[container[i]] \in Exited

(* Every signal ends the command: the reload, the boots and the cleanup it  *)
(* waits for all come to an end.  And a container that exits is never left  *)
(* at that: it is restarted, or its replica is marked or replaced, or the   *)
(* command ends.                                                            *)
Settles ==
  /\ emulator = "signalled" ~> emulator = "exited"
  /\ \A i \in Instances : Down(i) ~> ~Down(i) \/ emulator = "exited"

-----------------------------------------------------------------------------
(* What the comments and the documentation say and the code does not do     *)

(* Marking every replica before the cleanup is said to keep a watcher from  *)
(* restarting a replica while it is cleaned up.                             *)
NoResurrection ==
  [][\A i \in Instances :
       task[i] # "booting" /\ task'[i] = "booting" => ~shuttingDown]_vars
=============================================================================
