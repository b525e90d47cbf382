-------------------------- MODULE CloudMapRegistry --------------------------
(***************************************************************************)
(* How the services of one `cdkl start-service` find each other: the       *)
(* registry of src/src/local/cloud-map-registry.ts, and the /etc/hosts     *)
(* entries a container is given from it when it starts and keeps until it  *)
(* is removed (bootReplica of src/src/local/ecs-service-runner.ts).        *)
(*                                                                         *)
(* Targets boot one after another, and so does each reload of --watch go   *)
(* through them (reloadAllServices of                                      *)
(* src/src/cli/commands/ecs-service-emulator.ts); the exit watcher of each *)
(* replica takes part at any time.  What these chains do to the replica    *)
(* list is in EcsServiceRunner; here the list is the instances that are    *)
(* not retired, and a watcher's backoff and removal are one step.          *)
(*                                                                         *)
(* Abstractions: one container and one name per service, and one           *)
(* ClientAlias, which several may claim; docker hands out the lowest free  *)
(* address, so that of a container that is gone goes to the next one that  *)
(* asks; ports are left out.                                               *)
(***************************************************************************)
EXTENDS Naturals, SequencesExt

CONSTANTS
  Targets,      (* the services in the order of the command line           *)
  Replicas,     (* how many replicas each has                              *)
  Claimants,    (* services with a ClientAlias, all the same               *)
  Ips,          (* addresses of the shared network                         *)
  Nothing,
  MaxReloads,   (* bound: also the generations                             *)
  MaxExits      (* bound: containers that exit by themselves, before the   *)
                (* last reload: the properties say nothing of what follows *)

Services == {Targets[k] : k \in DOMAIN Targets}
Alias == "alias"
Instances ==
  UNION {{s} \X (0 .. Replicas[s] - 1) \X (0 .. MaxReloads) : s \in Services}
Shadow(i) == <<i[1], i[2], i[3] + 1>>

RegistryAssumption ==
  /\ Targets \in Seq(Services) \ {<<>>} /\ Alias \notin Services
  /\ \A k, l \in DOMAIN Targets : Targets[k] = Targets[l] => k = l
  /\ Replicas \in [Services -> Nat \ {0}] /\ MaxReloads \in Nat
  /\ Claimants \subseteq Services
  /\ MaxExits \in Nat /\ Ips \subseteq Nat /\ Nothing \notin Ips \union Services \union Instances

VARIABLES
  at,        (* the instance whose container holds each address            *)
  byFqdn,    (* the endpoints of each service, in order of registration    *)
  aliasOf,   (* the service the alias points at                            *)
  hosts,     (* addHostFlags of each instance: addresses by name           *)
  state,     (* what the chain that boots or watches an instance does      *)
  retired,   (* instance.shuttingDown                                      *)
  chain,     (* "boot", "idle" or "reload"                                 *)
  turn,      (* the target it is at                                        *)
  left,      (* replicas of that target it has yet to boot or replace      *)
  verdict,
  old, roll, (* the replica it replaces and how far it is                  *)
  reloads, exits,
  unhurt,    (* history: no container exited, docker refused nothing       *)
  renewed    (* history: and every target so far was booted or rolled anew *)

registryVars == <<byFqdn, aliasOf>>
chainVars == <<chain, turn, left, verdict, old, roll, reloads>>
histVars == <<unhurt, renewed>>
vars == <<at, registryVars, hosts, state, retired, chainVars, exits, histVars>>

Of(s) == {i \in Instances : i[1] = s}
Live(s) == {i \in Of(s) : state[i] # "none" /\ ~retired[i]}
AddressesOf(i) == {a \in Ips : at[a] = i}
SingleReplica(s) == Replicas[s] = 1

RegistryInit ==
  /\ at = [a \in Ips |-> Nothing]
  /\ byFqdn = [s \in Services |-> <<>>]
  /\ aliasOf = Nothing
  /\ hosts = [i \in Instances |-> [n \in Services \union {Alias} |-> Nothing]]
  /\ state = [i \in Instances |-> "none"]
  /\ retired = [i \in Instances |-> FALSE]
  /\ chain = "boot" /\ turn = 1 /\ left = {i \in Of(Targets[1]) : i[3] = 0}
  /\ verdict = "rebuild" /\ old = Nothing /\ roll = "none"
  /\ reloads = 0 /\ exits = 0
  /\ unhurt = TRUE /\ renewed = TRUE

Removed(i) == at' = [a \in Ips |-> IF at[a] = i THEN Nothing ELSE at[a]]
Hurt == unhurt' = FALSE /\ renewed' = FALSE
Go(i, s) == state' = [state EXCEPT ![i] = s]

-----------------------------------------------------------------------------
(* The registry                                                             *)

(* An owner has at most one entry of a name. *)
Without(i) ==
  LET entries == byFqdn[i[1]]
      owned == {k \in DOMAIN entries : entries[k].owner = i}
  IN  IF owned = {} THEN entries ELSE RemoveAt(entries, CHOOSE k \in owned : TRUE)

(* The entry of a replica that registers again moves to the end; the first  *)
(* service that claims the alias keeps it.                                  *)
Register(i, a) ==
  /\ byFqdn' = [byFqdn EXCEPT ![i[1]] = Append(Without(i), [owner |-> i, ip |-> a])]
  /\ aliasOf' = IF aliasOf = Nothing /\ i[1] \in Claimants THEN i[1] ELSE aliasOf

Unregister(i) == byFqdn' = [byFqdn EXCEPT ![i[1]] = Without(i)]

(* The prefix of i, `<service>:r<index>` and for a later generation         *)
(* `:g<generation>`, is compared as a string: r1 excludes r10, and the      *)
(* first generation every later one, never the other way round.  (Numbers   *)
(* of up to three digits; none but 0 itself begins with a 0.)               *)
Starts(n, m) == m = n \/ (n > 0 /\ n \in {m \div 10, m \div 100})
Excluded(i, owner) ==
  /\ owner[1] = i[1]
  /\ IF i[3] = 0 THEN Starts(i[2], owner[2])
     ELSE owner[2] = i[2] /\ owner[3] > 0 /\ Starts(i[3], owner[3])

Others(i, s) == {k \in DOMAIN byFqdn[s] : ~Excluded(i, byFqdn[s][k].owner)}
First(i, s) == IF Others(i, s) = {} THEN Nothing ELSE byFqdn[s][Min(Others(i, s))].ip

BuildAddHostFlags(i) ==
  [n \in Services \union {Alias} |->
     IF n # Alias THEN First(i, n)
     ELSE IF aliasOf = Nothing THEN Nothing ELSE First(i, aliasOf)]

-----------------------------------------------------------------------------
(* bootReplica                                                              *)

(* Before anything is awaited: the peers known now go into `docker run`.    *)
Boots(i) ==
  /\ Go(i, "booting")
  /\ hosts' = [hosts EXCEPT ![i] = BuildAddHostFlags(i)]

Free(a) == at[a] = Nothing /\ \A b \in Ips : b < a => at[b] # Nothing

ContainerStarts(i, a) ==
  /\ state[i] = "booting"
  /\ Free(a)
  /\ at' = [at EXCEPT ![a] = i]
  /\ Go(i, "started")
  /\ UNCHANGED <<registryVars, hosts, retired, chainVars, exits, histVars>>

(* At once, or after its readiness probe; one that was retired meanwhile is *)
(* not published.                                                           *)
ProbeEnds(i) ==
  /\ state[i] = "started"
  /\ Go(i, IF retired[i] THEN "up" ELSE "publishing")
  /\ UNCHANGED <<at, registryVars, hosts, retired, chainVars, exits, histVars>>

(* `docker inspect` has answered: the address is registered, if it said one. *)
Publishes(i) ==
  /\ state[i] = "publishing"
  /\ Go(i, "up")
  /\ \/ /\ \E a \in AddressesOf(i) : Register(i, a)
        /\ UNCHANGED histVars
     \/ /\ Hurt
        /\ UNCHANGED registryVars
  /\ UNCHANGED <<at, hosts, retired, chainVars, exits>>

-----------------------------------------------------------------------------
(* watchReplica                                                             *)

(* Its watcher starts with the last replica of the boot loop, or when the   *)
(* roll that booted it is over.                                             *)
Watched(i) ==
  /\ ~(chain = "boot" /\ Targets[turn] = i[1])
  /\ ~(old # Nothing /\ i = Shadow(old))

Dead(i) ==
  /\ state[i] = "up" /\ AddressesOf(i) = {}
  /\ ~retired[i] /\ Watched(i)
  /\ ~(old = i /\ roll = "cycling")

Exits(i) ==
  /\ exits < MaxExits /\ reloads < MaxReloads
  /\ state[i] \in {"started", "publishing", "up"}
  /\ \E a \in AddressesOf(i) : at' = [at EXCEPT ![a] = Nothing]
  /\ exits' = exits + 1
  /\ Hurt
  /\ UNCHANGED <<registryVars, hosts, state, retired, chainVars>>

(* The policy leaves it at that, registrations included; or restarts it:    *)
(* they go, the dead container is removed and bootReplica begins.           *)
Degrades(i) ==
  /\ Dead(i)
  /\ Go(i, "degraded")
  /\ retired' = [retired EXCEPT ![i] = TRUE]
  /\ UNCHANGED <<at, registryVars, hosts, chainVars, exits, histVars>>

Restarts(i) ==
  /\ Dead(i)
  /\ Unregister(i)
  /\ Boots(i)
  /\ UNCHANGED <<at, aliasOf, retired, chainVars, exits, histVars>>

RestartFails(i) ==
  /\ state[i] \in {"booting", "publishing"} /\ Watched(i)
  /\ Go(i, "failed")
  /\ retired' = [retired EXCEPT ![i] = TRUE]
  /\ Hurt
  /\ UNCHANGED <<at, registryVars, hosts, chainVars, exits>>

-----------------------------------------------------------------------------
(* The boot loop and the reload                                             *)

Booting(s) == \E i \in Of(s) : state[i] \in {"booting", "started", "publishing"}

BootsNext(i) ==
  /\ chain = "boot" /\ i \in left
  /\ \A j \in left : i[2] <= j[2]
  /\ ~Booting(i[1])
  /\ left' = left \ {i}
  /\ Boots(i)
  /\ UNCHANGED <<at, registryVars, retired, chain, turn, verdict, old, roll,
                 reloads, exits, histVars>>

(* The watchers of a service start when its last replica is up. *)
TargetUp ==
  /\ chain = "boot" /\ left = {}
  /\ ~Booting(Targets[turn])
  /\ turn' = turn + 1
  /\ IF turn < Len(Targets)
     THEN /\ left' = {i \in Of(Targets[turn + 1]) : i[3] = 0}
          /\ UNCHANGED chain
     ELSE chain' = "idle" /\ UNCHANGED left
  /\ UNCHANGED <<at, registryVars, hosts, state, retired, verdict, old, roll,
                 reloads, exits, histVars>>

(* Every replica of every service is up and registered, and nothing else.   *)
Sound ==
  \A s \in Services :
    /\ Cardinality(Live(s)) = Replicas[s]
    /\ \A i \in Live(s) : state[i] = "up" /\ \E e \in ToSet(byFqdn[s]) : e.owner = i
    /\ \A e \in ToSet(byFqdn[s]) : e.owner \in Live(s) /\ at[e.ip] = e.owner

SourceChanged ==
  /\ chain = "idle"
  /\ reloads < MaxReloads
  /\ reloads' = reloads + 1
  /\ chain' = "reload" /\ turn' = 1
  /\ verdict' = "none"
  /\ unhurt' = Sound
  /\ renewed' = Sound
  /\ UNCHANGED <<at, registryVars, hosts, state, retired, left, old, roll, exits>>

(* rollOneTarget: the replicas that are live now, and what is done to them; *)
(* a target may also be rejected.                                           *)
TargetBegins ==
  /\ chain = "reload" /\ verdict = "none" /\ turn <= Len(Targets)
  /\ \E v \in {"rebuild", "soft-reload", "rejected"} :
       /\ verdict' = v
       /\ left' = IF v = "rejected" THEN {} ELSE Live(Targets[turn])
       /\ renewed' = (renewed /\ v = "rebuild")
  /\ UNCHANGED <<at, registryVars, hosts, state, retired, chain, turn, old, roll,
                 reloads, exits, unhurt>>

TargetEnds ==
  /\ chain = "reload" /\ verdict # "none" /\ left = {} /\ roll = "none"
  /\ turn' = turn + 1
  /\ verdict' = "none"
  /\ chain' = IF turn = Len(Targets) THEN "idle" ELSE chain
  /\ UNCHANGED <<at, registryVars, hosts, state, retired, left, old, roll,
                 reloads, exits, histVars>>

(* Its own watcher has retired it meanwhile. *)
Skips(i) ==
  /\ chain = "reload" /\ roll = "none" /\ i \in left
  /\ retired[i]
  /\ left' = left \ {i}
  /\ UNCHANGED <<at, registryVars, hosts, state, retired, chain, turn, verdict,
                 old, roll, reloads, exits, histVars>>

(* rollServiceReplica.  A single replica goes before its shadow boots. *)
RollBegins(i) ==
  /\ chain = "reload" /\ roll = "none" /\ verdict = "rebuild"
  /\ i \in left /\ ~retired[i]
  /\ left' = left \ {i}
  /\ old' = i
  /\ \/ /\ SingleReplica(i[1])
        /\ roll' = "clearing"
        /\ Unregister(i)
        /\ retired' = [retired EXCEPT ![i] = TRUE]
        /\ UNCHANGED <<hosts, state>>
     \/ /\ ~SingleReplica(i[1])
        /\ roll' = "shadow"
        /\ Boots(Shadow(i))
        /\ UNCHANGED <<byFqdn, retired>>
  /\ UNCHANGED <<at, aliasOf, chain, turn, verdict, reloads, exits, histVars>>

OldCleared ==
  /\ roll = "clearing"
  /\ Removed(old)
  /\ Boots(Shadow(old))
  /\ roll' = "shadow"
  /\ UNCHANGED <<registryVars, retired, chain, turn, left, verdict, old, reloads,
                 exits, histVars>>

ReplicaDone == roll' = "none" /\ old' = Nothing

(* The shadow is up: the swap takes out the old registrations and retires   *)
(* the old replica, which then drains.                                      *)
Swaps ==
  /\ roll = "shadow"
  /\ state[Shadow(old)] = "up"
  /\ \/ /\ SingleReplica(old[1])
        /\ ReplicaDone
        /\ UNCHANGED <<byFqdn, retired>>
     \/ /\ ~SingleReplica(old[1])
        /\ Unregister(old)
        /\ retired' = [retired EXCEPT ![old] = TRUE]
        /\ roll' = "retiring"
        /\ UNCHANGED old
  /\ UNCHANGED <<at, aliasOf, hosts, state, chain, turn, left, verdict, reloads,
                 exits, histVars>>

OldRemoved ==
  /\ roll = "retiring"
  /\ Removed(old)
  /\ ReplicaDone
  /\ UNCHANGED <<registryVars, hosts, state, retired, chain, turn, left, verdict,
                 reloads, exits, histVars>>

(* `docker run` of the shadow fails, or its gated publish does. *)
ShadowFails ==
  /\ roll = "shadow"
  /\ state[Shadow(old)] \in {"booting"} \union
       (IF SingleReplica(old[1]) THEN {} ELSE {"publishing"})
  /\ Removed(Shadow(old))
  /\ Go(Shadow(old), "none")
  /\ ReplicaDone
  /\ Hurt
  /\ UNCHANGED <<registryVars, hosts, retired, chain, turn, left, verdict, reloads,
                 exits>>

(* softReloadReplica: out of the registry while its container is cycled. *)
SoftReloadBegins(i) ==
  /\ chain = "reload" /\ roll = "none" /\ verdict = "soft-reload"
  /\ i \in left /\ ~retired[i]
  /\ left' = left \ {i}
  /\ \/ /\ state[i] \in {"started", "publishing", "up"}
        /\ Unregister(i)
        /\ roll' = "cycling" /\ old' = i
        /\ UNCHANGED histVars
     \/ /\ state[i] = "booting"   (* no started container *)
        /\ Hurt
        /\ UNCHANGED <<byFqdn, roll, old>>
  /\ UNCHANGED <<at, aliasOf, hosts, state, retired, chain, turn, verdict,
                 reloads, exits>>

(* It runs again at its address, or a new one if it had exited; or a docker *)
(* command failed and it stays drained.                                     *)
SoftReloadEnds ==
  /\ roll = "cycling"
  /\ \/ /\ \E a \in Ips :
             /\ a \in AddressesOf(old) \/ (AddressesOf(old) = {} /\ Free(a))
             /\ at' = [at EXCEPT ![a] = old]
             /\ Register(old, a)
        /\ UNCHANGED histVars
     \/ /\ Hurt
        /\ UNCHANGED <<at, registryVars>>
  /\ ReplicaDone
  /\ UNCHANGED <<hosts, state, retired, chain, turn, left, verdict, reloads, exits>>

RegistryNext ==
  \/ \E i \in Instances :
       \/ \E a \in Ips : ContainerStarts(i, a)
       \/ ProbeEnds(i) \/ Publishes(i) \/ BootsNext(i)
       \/ Exits(i) \/ Degrades(i) \/ Restarts(i) \/ RestartFails(i)
       \/ Skips(i) \/ RollBegins(i) \/ SoftReloadBegins(i)
  \/ TargetUp \/ SourceChanged \/ TargetBegins \/ TargetEnds
  \/ OldCleared \/ Swaps \/ OldRemoved \/ ShadowFails \/ SoftReloadEnds

RegistrySpec == RegistryInit /\ [][RegistryNext]_vars

-----------------------------------------------------------------------------
(* Properties                                                               *)

LeadsTo(a, s) == a # Nothing /\ at[a] # Nothing /\ at[a][1] = s

(* Every replica is given the addresses of the services before it on the    *)
(* command line: once the boot, or a reload that rolls every target, has    *)
(* passed it, these lead to a container of the service they name, as long   *)
(* as no container exits by itself and docker refuses nothing.              *)
PeersFound ==
  renewed =>
    \A k \in 1 .. turn - 1, j \in 1 .. turn - 1 : j < k =>
      \A i \in Live(Targets[k]) : LeadsTo(hosts[i][Targets[j]], Targets[j])

(* "Consumers rebuilding their --add-host set during the swap window still  *)
(* see at least one live endpoint": a service of several replicas that is   *)
(* up is in the registry at every moment of a reload of either kind.        *)
AlwaysRegistered ==
  unhurt => \A k \in 1 .. Len(Targets) :
    (chain # "boot" \/ k < turn) /\ ~SingleReplica(Targets[k]) =>
      \E e \in ToSet(byFqdn[Targets[k]]) : at[e.ip] = e.owner

(* What the documentation says and the code does not do: peers see zero     *)
(* connection refusals across a reload, even of services of several         *)
(* replicas.  A container keeps the address it was started with.            *)
PeersResolve ==
  unhurt => \A s, t \in Services : \A i \in Live(s) :
    state[i] = "up" /\ ~SingleReplica(t) /\ s # t /\ hosts[i][t] # Nothing =>
      LeadsTo(hosts[i][t], t)
=============================================================================
