---------------------------- MODULE SvcNetworks ----------------------------
(***************************************************************************)
(* The shared networks of concurrent `cdkl start-service` and `start-alb`  *)
(* runs against one docker daemon (src/src/local/ecs-network.ts).          *)
(*                                                                         *)
(* A run first sweeps the networks of runs that died, then claims a /24    *)
(* for its own, starts the metadata sidecar in it, attaches its replicas   *)
(* and at its end removes both.  Runs know of each other only what docker  *)
(* tells them, a question at a time, and may die between any two steps.    *)
(* A network is named after its run, whose PID and host are its labels.    *)
(***************************************************************************)
EXTENDS Naturals

CONSTANTS
    Runs,        \* the processes
    HostOf,      \* the machine of a run; several share a remote DOCKER_HOST
    TaskRoles,   \* the runs that serve a task role, which pins their /24
    Octets,      \* bound: the /24s of the walk are 1 .. Octets, the pinned one is 0
    None         \* no network, no name

SvcNetworksAssumption ==
    /\ Octets \in Nat \ {0} /\ None \notin Runs \cup Nat
    /\ TaskRoles \subseteq Runs /\ DOMAIN HostOf = Runs

VARIABLES
    at,       \* the step of each run
    names,    \* the networks its sweep has still to look at
    name,     \* the one it looks at
    octet,    \* the /24 it tries next
    roles,    \* the task role its sidecar serves is set
    subnet,   \* docker: the /24 of the network of each run
    sidecar,  \* docker: the networks with their sidecar
    replicas, \* docker: the networks with a replica attached
    listed    \* the orphans docker listed for the sweep of each run

runVars == <<at, names, name, octet, roles>>
dockerVars == <<subnet, sidecar, replicas>>
vars == <<runVars, dockerVars, listed>>

Init ==
    /\ at = [r \in Runs |-> "off"]
    /\ names = [r \in Runs |-> {}] /\ name = [r \in Runs |-> None]
    /\ octet = [r \in Runs |-> IF r \in TaskRoles THEN 0 ELSE 1]
    /\ roles = {} /\ subnet = [r \in Runs |-> None]
    /\ sidecar = {} /\ replicas = {}
    /\ listed = [r \in Runs |-> {}]

Ended == {"dead", "failed", "done"}
Running(n) == at[n] \notin Ended
Networks == {n \in Runs : subnet[n] # None}
Orphans == {n \in Networks : ~Running(n) /\ n \notin replicas}

Goes(r, from, to) == at[r] = from /\ at' = [at EXCEPT ![r] = to]

-----------------------------------------------------------------------------
(* sweepOrphanedSvcNetworks(). *)

\* docker network ls; a failure of it skips the sweep.
ListNetworks(r) ==
    /\ Goes(r, "off", "next")
    /\ names' = [names EXCEPT ![r] = Networks]
    /\ listed' = [listed EXCEPT ![r] = Orphans]
    /\ UNCHANGED <<name, octet, roles, dockerVars>>

NextName(r) ==
    /\ at[r] = "next"
    /\ \/ \E n \in names[r] :
            /\ name' = [name EXCEPT ![r] = n]
            /\ names' = [names EXCEPT ![r] = @ \ {n}]
            /\ at' = [at EXCEPT ![r] = "attached"]
       \/ /\ names[r] = {}
          /\ at' = [at EXCEPT ![r] = "create"]
          /\ UNCHANGED <<names, name>>
    /\ UNCHANGED <<octet, roles, dockerVars, listed>>

KeepsDocker == UNCHANGED <<names, name, octet, roles, dockerVars, listed>>

\* The first inspect: a network with a replica is in use, one that is gone by now
\* is skipped.
InspectAttached(r) ==
    /\ Goes(r, "attached", IF name[r] \in Networks \ replicas THEN "owner" ELSE "next")
    /\ KeepsDocker

\* The process of the labels exists, or is on another machine.
OwnerIsAlive(r, n) == HostOf[n] # HostOf[r] \/ Running(n)

\* The second inspect, and kill(pid, 0).
InspectOwner(r) ==
    /\ Goes(r, "owner",
            IF name[r] \notin Networks \/ OwnerIsAlive(r, name[r]) THEN "next" ELSE "reclaim")
    /\ KeepsDocker

ReclaimSidecar(r) ==
    /\ Goes(r, "reclaim", "network")
    /\ sidecar' = sidecar \ {name[r]}
    /\ UNCHANGED <<names, name, octet, roles, subnet, replicas, listed>>

\* docker keeps a network that has containers.
DestroyNetworkOnly(n) ==
    subnet' = IF n \in sidecar \cup replicas THEN subnet ELSE [subnet EXCEPT ![n] = None]

ReclaimNetwork(r) ==
    /\ Goes(r, "network", "next")
    /\ DestroyNetworkOnly(name[r])
    /\ UNCHANGED <<names, name, octet, roles, sidecar, replicas, listed>>

-----------------------------------------------------------------------------
(* createNetworkAndSidecar(): docker's refusal of a taken /24 is the only lock. *)

Taken(o) == \E n \in Networks : subnet[n] = o

CreateNetwork(r) ==
    /\ at[r] = "create"
    /\ \/ /\ ~Taken(octet[r])
          /\ subnet' = [subnet EXCEPT ![r] = octet[r]]
          /\ at' = [at EXCEPT ![r] = "sidecar"]
          /\ UNCHANGED octet
       \/ /\ Taken(octet[r])
          /\ IF r \in TaskRoles \/ octet[r] = Octets
             THEN at' = [at EXCEPT ![r] = "failed"] /\ UNCHANGED octet
             ELSE octet' = [octet EXCEPT ![r] = @ + 1] /\ UNCHANGED at
          /\ UNCHANGED subnet
    /\ UNCHANGED <<names, name, roles, sidecar, replicas, listed>>

StartSidecar(r) ==
    /\ Goes(r, "sidecar", "up")
    /\ sidecar' = sidecar \cup {r}
    /\ UNCHANGED <<names, name, octet, roles, subnet, replicas, listed>>

SidecarFails(r) ==
    /\ Goes(r, "sidecar", "failed")
    /\ DestroyNetworkOnly(r)
    /\ UNCHANGED <<names, name, octet, roles, sidecar, replicas, listed>>

\* serveTaskRoleFromSharedSidecar(): the sidecar is replaced by one that was
\* started with the credentials of the role.
ReplaceSidecar(r) ==
    /\ r \in TaskRoles /\ r \notin roles /\ r \notin replicas
    /\ Goes(r, "up", "role")
    /\ sidecar' = sidecar \ {r}
    /\ UNCHANGED <<names, name, octet, roles, subnet, replicas, listed>>

ServeTaskRole(r) ==
    /\ at[r] = "role"
    /\ \/ at' = [at EXCEPT ![r] = "up"] /\ sidecar' = sidecar \cup {r} /\ roles' = roles \cup {r}
       \/ at' = [at EXCEPT ![r] = "down"] /\ UNCHANGED <<sidecar, roles>>
    /\ UNCHANGED <<names, name, octet, subnet, replicas, listed>>

\* The replicas of the run come and go.
Attach(r) ==
    /\ at[r] = "up" /\ (r \in TaskRoles => r \in roles)
    /\ replicas' \in {replicas \cup {r}, replicas \ {r}} /\ replicas' # replicas
    /\ UNCHANGED <<runVars, subnet, sidecar, listed>>

\* The end of the run, after that of its replicas.
Teardown(r) ==
    /\ at[r] = "up" /\ r \notin replicas
    /\ at' = [at EXCEPT ![r] = "down"]
    /\ KeepsDocker

DestroySidecar(r) ==
    /\ Goes(r, "down", "rm")
    /\ sidecar' = sidecar \ {r}
    /\ UNCHANGED <<names, name, octet, roles, subnet, replicas, listed>>

DestroyNetwork(r) ==
    /\ Goes(r, "rm", "done")
    /\ DestroyNetworkOnly(r)
    /\ UNCHANGED <<names, name, octet, roles, sidecar, replicas, listed>>

\* A run that is killed leaves everything where it is.
Dies(r) ==
    /\ at[r] \notin Ended \cup {"off"}
    /\ at' = [at EXCEPT ![r] = "dead"]
    /\ KeepsDocker

Sweeps(r) ==
    \/ ListNetworks(r) \/ NextName(r) \/ InspectAttached(r) \/ InspectOwner(r)
    \/ ReclaimSidecar(r) \/ ReclaimNetwork(r)
Creates(r) == CreateNetwork(r) \/ StartSidecar(r) \/ SidecarFails(r)
Serves(r) == ReplaceSidecar(r) \/ ServeTaskRole(r) \/ Attach(r)
Ends(r) == Teardown(r) \/ DestroySidecar(r) \/ DestroyNetwork(r)

Next == \E r \in Runs : Sweeps(r) \/ Creates(r) \/ Serves(r) \/ Ends(r) \/ Dies(r)

Spec == Init /\ [][Next]_vars

-----------------------------------------------------------------------------
(* Properties. *)

TypeOK ==
    /\ names \in [Runs -> SUBSET Runs] /\ listed \in [Runs -> SUBSET Runs]
    /\ name \in [Runs -> Runs \cup {None}]
    /\ octet \in [Runs -> 0 .. Octets] /\ subnet \in [Runs -> (0 .. Octets) \cup {None}]
    /\ roles \subseteq Runs /\ sidecar \subseteq Runs /\ replicas \subseteq Runs

\* No run takes the network or the sidecar of one that is alive, however early: from
\* the moment docker has made them they are there.
LiveKept ==
    \A r \in Runs :
        /\ at[r] \in {"sidecar", "up", "role", "down"} => subnet[r] # None
        /\ at[r] = "up" => r \in sidecar

\* Once a run has swept, every network that was an orphan of its machine when the
\* sweep began is gone, whoever removed it; a sweep that was killed half-way leaves
\* the rest to the next one.
OrphansReclaimed ==
    \A r \in Runs : at[r] \in {"create", "sidecar", "up"} =>
        \A n \in listed[r] : HostOf[n] = HostOf[r] => subnet[n] = None /\ n \notin sidecar

=============================================================================
