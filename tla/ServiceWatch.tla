---------------------------- MODULE ServiceWatch ----------------------------
(***************************************************************************)
(* What a save does to the replicas of one service under --watch: the      *)
(* debounced watcher (src/src/local/file-watcher.ts), the chain of reloads *)
(* and the synthesis each begins with                                      *)
(* (src/src/cli/commands/ecs-service-emulator.ts), and the choice between  *)
(* rebuilding and copying (src/src/local/source-change-classifier.ts).     *)
(*                                                                         *)
(* A save is seen on disk before its event arrives, so that a synthesis    *)
(* may read edits whose paths come with a later firing.  How a replica is  *)
(* rolled or cycled is in EcsServiceRunner; here it takes one step.        *)
(*                                                                         *)
(* Abstractions: one container per replica; paths by their kind: sources   *)
(* the container reads, what `docker build` needs (the Dockerfile, a       *)
(* manifest of dependencies, a compiled source), and the construct that    *)
(* says how the container is created.  The asset hash is that of the first *)
(* two; the image is a CDK asset.                                          *)
(***************************************************************************)
EXTENDS Naturals, SequencesExt

CONSTANTS
  Replicas,
  MaxEdits,   (* bound: saves                                              *)
  MaxExits    (* bound: containers that exit by themselves                 *)

WatchAssumption == Replicas \in Nat \ {0} /\ MaxEdits \in Nat /\ MaxExits \in Nat

Paths == {"source", "build", "construct"}
Slots == 1 .. Replicas

VARIABLES
  language,   (* of the CDK app: "compiled" or "interpreted"               *)
  disk,       (* edits of each kind so far: the version on disk            *)
  notes,      (* saves whose event has not arrived                         *)
  pending,    (* of the debounce window                                    *)
  queue,      (* changed paths of the reloads chained on reloadChain       *)
  reload,     (* "idle", "synthesized", "rebuild", "soft-reload"           *)
  changed,    (* changedPaths of the reload                                *)
  assembly,   (* the version it synthesized                                *)
  todo,       (* replicas it has yet to treat                              *)
  order,      (* runState.replicas                                         *)
  running,    (* what each container was created from and copied into it   *)
  stamp,      (* lastDeployedAssetHash                                     *)
  descriptor, (* the version a replica's watcher restarts it with          *)
  exits,
  failed,     (* history: something of the last reload failed              *)
  owed,       (* history: a rebuild was needed and is not done             *)
  reverted    (* history: replicas restarted from their descriptor since   *)

watcherVars == <<notes, pending, queue>>
reloadVars == <<reload, changed, assembly, todo>>
replicaVars == <<order, running, stamp, descriptor, reverted>>
vars == <<language, disk, watcherVars, reloadVars, replicaVars, exits, failed, owed>>

None == [p \in Paths |-> 0]
Hash(v) == <<v["source"], v["build"]>>

WatchInit ==
  /\ language \in {"compiled", "interpreted"}
  /\ disk = None
  /\ notes = {} /\ pending = {} /\ queue = <<>>
  /\ reload = "idle" /\ changed = {} /\ assembly = None /\ todo = <<>>
  /\ order = [n \in Slots |-> n]
  /\ running = [r \in Slots |-> None]
  /\ stamp = [r \in Slots |-> Hash(None)]
  /\ descriptor = [r \in Slots |-> None]
  /\ exits = 0 /\ failed = FALSE /\ owed = FALSE /\ reverted = {}

-----------------------------------------------------------------------------
(* The watcher                                                              *)

Saves(p) ==
  /\ disk["source"] + disk["build"] + disk["construct"] < MaxEdits
  /\ disk' = [disk EXCEPT ![p] = @ + 1]
  /\ notes' = notes \union {p}
  /\ UNCHANGED <<language, pending, queue, reloadVars, replicaVars, exits, failed, owed>>

(* The window is extended. *)
EventArrives(p) ==
  /\ p \in notes
  /\ notes' = notes \ {p}
  /\ pending' = pending \union {p}
  /\ UNCHANGED <<language, disk, queue, reloadVars, replicaVars, exits, failed, owed>>

(* 500 ms of quiet: the reload is chained. *)
Fires ==
  /\ pending # {}
  /\ pending' = {}
  /\ queue' = Append(queue, pending)
  /\ UNCHANGED <<language, disk, notes, reloadVars, replicaVars, exits, failed, owed>>

-----------------------------------------------------------------------------
(* reloadAllServices                                                        *)

NeedsRebuild(v) ==
  \E r \in Slots : running[r]["build"] # v["build"] \/ running[r]["construct"] # v["construct"]

Synthesizes ==
  /\ reload = "idle" /\ queue # <<>>
  /\ queue' = Tail(queue)
  /\ changed' = Head(queue)
  /\ \/ /\ reload' = "synthesized"
        /\ assembly' = disk
        /\ failed' = FALSE
        /\ UNCHANGED owed
     \/ /\ failed' = TRUE     (* the previous version is kept *)
        /\ owed' = (owed \/ NeedsRebuild(disk))
        /\ UNCHANGED <<reload, assembly>>
  /\ UNCHANGED <<language, disk, notes, pending, todo, replicaVars, exits>>

RebuildTriggers ==
  {"build"} \union (IF language = "compiled" THEN {"construct"} ELSE {})

(* Mutation: paths alone decide. *)
ByPaths ==
  IF changed \intersect RebuildTriggers # {} THEN "rebuild" ELSE "soft-reload"

ClassifySourceChange ==
  IF \/ stamp[order[1]] = Hash(assembly)
     \/ changed \intersect RebuildTriggers # {}
  THEN "rebuild"
  ELSE "soft-reload"

(* The manifest may be unreadable: a rebuild.  A construct of an            *)
(* interpreted language is no trigger by its path, and its edit passes for  *)
(* one of the sources when a source changed as well.                        *)
Classifies ==
  /\ reload = "synthesized"
  /\ reload' \in {ClassifySourceChange, "rebuild"}
  /\ todo' = order
  /\ owed' = (owed \/ /\ reload' = "soft-reload" /\ language = "interpreted"
                      /\ Hash(assembly) # stamp[order[1]]
                      /\ \E r \in Slots : running[r]["construct"] # assembly["construct"])
  /\ UNCHANGED <<language, disk, watcherVars, changed, assembly, replicaVars, exits, failed>>

Fails ==
  /\ failed' = TRUE
  /\ owed' = (owed \/ NeedsRebuild(assembly))

(* The replica that is rolled goes to the end of the list. *)
Rolls(r) ==
  /\ reload = "rebuild" /\ todo # <<>> /\ r = Head(todo)
  /\ todo' = Tail(todo)
  /\ \/ /\ running' = [running EXCEPT ![r] = assembly]
        /\ stamp' = [stamp EXCEPT ![r] = Hash(assembly)]
        /\ descriptor' = [descriptor EXCEPT ![r] = assembly]
        /\ order' = Append(RemoveAt(order, CHOOSE k \in DOMAIN order : order[k] = r), r)
        /\ reverted' = reverted \ {r}
        /\ UNCHANGED <<failed, owed>>
     \/ /\ Fails               (* the old replica keeps serving *)
        /\ UNCHANGED replicaVars
  /\ UNCHANGED <<language, disk, watcherVars, reload, changed, assembly, exits>>

(* The sources of the assembly are copied, the container starts again; or a *)
(* docker command fails before or after the copy.                           *)
SoftReloads(r) ==
  /\ reload = "soft-reload" /\ todo # <<>> /\ r = Head(todo)
  /\ todo' = Tail(todo)
  /\ \/ /\ running' = [running EXCEPT ![r]["source"] = assembly["source"]]
        /\ stamp' = [stamp EXCEPT ![r] = Hash(assembly)]
        /\ reverted' = reverted \ {r}
        /\ UNCHANGED <<failed, owed>>
     \/ /\ Fails
        /\ \/ running' = [running EXCEPT ![r]["source"] = assembly["source"]]
           \/ UNCHANGED running
        /\ UNCHANGED <<stamp, reverted>>
  /\ UNCHANGED <<language, disk, watcherVars, reload, changed, assembly, order, descriptor, exits>>

ReloadEnds ==
  /\ reload \in {"rebuild", "soft-reload"} /\ todo = <<>>
  /\ owed' = IF reload = "rebuild" /\ ~failed THEN FALSE ELSE owed
  /\ reload' = "idle"
  /\ UNCHANGED <<language, disk, watcherVars, changed, assembly, todo, replicaVars, exits, failed>>

(* A container exits and its watcher boots the version it was given: what   *)
(* was copied into the container is lost.                                   *)
Restarts(r) ==
  /\ exits < MaxExits
  /\ exits' = exits + 1
  /\ running' = [running EXCEPT ![r] = descriptor[r]]
  /\ stamp' = [stamp EXCEPT ![r] = Hash(descriptor[r])]
  /\ reverted' = reverted \union {r}
  /\ UNCHANGED <<language, disk, watcherVars, reloadVars, order, descriptor, failed, owed>>

WatchNext ==
  \/ \E p \in Paths : Saves(p) \/ EventArrives(p)
  \/ Fires \/ Synthesizes \/ Classifies \/ ReloadEnds
  \/ \E r \in Slots : Rolls(r) \/ SoftReloads(r) \/ Restarts(r)

WatchSpec == WatchInit /\ [][WatchNext]_vars

-----------------------------------------------------------------------------
(* Properties                                                               *)

Quiet == notes = {} /\ pending = {} /\ queue = <<>> /\ reload = "idle"

(* When the watcher has caught up, every replica runs the sources on disk,  *)
(* and the image and the task definition of the CDK app on disk: whatever   *)
(* came with which firing, and whatever a synthesis saw early.  Not counted *)
(* are a reload that failed, up to the next one for the sources and up to a *)
(* rebuild for the rest, and a replica restarted since from its descriptor. *)
InStep ==
  Quiet /\ ~failed =>
    \A r \in Slots \ reverted :
      /\ running[r]["source"] = disk["source"]
      /\ ~owed => running[r] = disk
=============================================================================
