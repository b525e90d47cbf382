------------------------------ MODULE Reloads ------------------------------
(***************************************************************************)
(* What a reload does to running services: to the replicas of one, to the  *)
(* names the services know each other by, and to the version each replica  *)
(* runs.  Three views of the chains of runEcsServiceEmulator               *)
(* (src/src/cli/commands/ecs-service-emulator.ts), each with the variables *)
(* it needs; one of the three runs.                                        *)
(***************************************************************************)
EXTENDS EcsServiceRunner, Sequences

CONSTANTS
    Targets, ReplicasOf, Claimants, Ips,   \* of the registry
    MaxRounds, MaxRestarts,                \* bounds: its reloads, and the exits before the last
    WatchedReplicas, MaxEdits, MaxExits    \* of the watch

VARIABLES
    program,
    at, byFqdn, aliasOf, hosts, state, outdated, chain, turn, left, verdict, rolled, roll,
    changes, exits, unhurt, renewed,
    language, disk, notes, pending, firings, pass, changed, assembly, todo, order, running,
    stamp, descriptor, restarts, failed, owed, reverted

registryVars == <<at, byFqdn, aliasOf, hosts, state, outdated, chain, turn, left, verdict,
    rolled, roll, changes, exits, unhurt, renewed>>
watchVars == <<language, disk, notes, pending, firings, pass, changed, assembly, todo, order,
    running, stamp, descriptor, restarts, failed, owed, reverted>>
allVars == <<program, vars, registryVars, watchVars>>

R == INSTANCE CloudMapRegistry WITH
        Replicas <- ReplicasOf, Nothing <- NoContainer, MaxReloads <- MaxRounds,
        MaxExits <- MaxRestarts, retired <- outdated, old <- rolled, reloads <- changes

W == INSTANCE ServiceWatch WITH
        Replicas <- WatchedReplicas, queue <- firings, reload <- pass, exits <- restarts

ASSUME ReloadsAssumption == R!RegistryAssumption /\ W!WatchAssumption

ReloadsInit ==
    /\ program \in {"runner", "registry", "watch"}
    /\ Init /\ R!RegistryInit /\ W!WatchInit
    /\ program # "watch" => language = "compiled"

Runs(action) == program = "runner" /\ action /\ UNCHANGED <<program, registryVars, watchVars>>
Finds(action) == program = "registry" /\ action /\ UNCHANGED <<program, vars, watchVars>>
Watches(action) == program = "watch" /\ action /\ UNCHANGED <<program, vars, registryVars>>

ReloadsNext == Runs(Next) \/ Finds(R!RegistryNext) \/ Watches(W!WatchNext)

ReloadsSpec == ReloadsInit /\ [][ReloadsNext]_allVars

\* Every save reaches every replica, by a rebuild where copying is not enough; a service of
\* several replicas stays in the registry, and known to the services that start after it.
InStep == W!InStep /\ R!AlwaysRegistered /\ R!PeersFound

\* What the documentation says and the code does not do: peers see zero connection
\* refusals across a reload.
PeersResolve == R!PeersResolve

=============================================================================
