---------------------------- MODULE ReloadsProofs ----------------------------
(***************************************************************************)
(* What a reload does to running services, proved for any numbers of       *)
(* services, replicas, containers, saves, reloads and crashes: the         *)
(* theorems about EcsServiceRunner, and the invariants of ServiceWatch and *)
(* of CloudMapRegistry as Reloads composes them.                           *)
(***************************************************************************)
EXTENDS Reloads, FiniteSetTheorems, SequenceTheorems, WellFoundedInduction, TLAPS

(***************************************************************************)
(* One service                                                             *)
(***************************************************************************)

Soft == {"copying", "stopping", "starting", "probing", "publishing"}
Roll == {"clearing", "cleared", "shadow", "discarding", "swap", "draining",
         "retiring", "retired"}

(* A replica that nobody has begun to boot. *)
Pristine(i) ==
  /\ task[i] = "none" /\ ~retired[i]
  /\ container[i] = NoContainer /\ routes[i] = NoContainer

(* The reload: what it holds at each step, and that a service is reloaded    *)
(* only once it is up and before it is shut down.                            *)
Stepping ==
  /\ reload # "idle" => boot = "up" /\ emulator \in {"running", "signalled"}
  /\ reload = "idle" => queue = {}
  /\ reload \in {"idle", "next"} <=> old = NoInstance
  /\ reload \in {"idle", "next"} => target = NoContainer
  /\ reload = "idle" <=> kind = "none"
  /\ reload \in Roll => kind = "rebuild"
  /\ reload \in Soft => kind = "soft-reload" /\ target # NoContainer
  /\ reload \in {"clearing", "cleared"} => SingleReplica
  /\ reload \in {"swap", "draining", "retiring", "retired"} => ~SingleReplica
  /\ \A i \in Instances : softReload[i] <=> i = old /\ reload \in Soft

(* Generations and soft reloads are at most as many as the reloads.          *)
Counted ==
  /\ \A i \in replicas : i[2] <= reloads
  /\ \A i \in queue : i[2] < reloads /\ softGen[i] < reloads
  /\ old # NoInstance => old[2] < reloads
  /\ \A i \in Instances : softGen[i] <= reloads /\ softGenSeen[i] <= softGen[i]

(* The replica list: one replica per slot but for the pair of a roll, and    *)
(* nobody has begun to boot a later generation.                              *)
Listed ==
  /\ old # NoInstance =>
       /\ old \in replicas <=> ~ (SingleReplica /\ reload \in {"shadow", "discarding"})
       /\ Shadow(old) \in replicas <=> reload \in Roll \ {"discarding"}
  /\ \A i \in replicas : \A j \in replicas :
       i[1] = j[1] /\ i # j =>
         /\ old # NoInstance
         /\ \/ i = old /\ j = Shadow(old)
            \/ j = old /\ i = Shadow(old)
  /\ \A i \in replicas : \A j \in Instances :
       i[1] = j[1] /\ i[2] < j[2] =>
         Pristine(j) \/ (i = old /\ j = Shadow(old) /\ reload \in Roll)
  /\ reload \in {"clearing", "cleared"} => Pristine(Shadow(old))
  /\ reload = "shadow" => task[Shadow(old)] \in InFlight
  /\ reload \in {"shadow", "discarding"} => ~retired[Shadow(old)]
  /\ reload \in {"discarding", "swap", "draining", "retiring", "retired"} =>
       task[Shadow(old)] = "none"
  /\ reload = "discarding" => \A i \in replicas : i[1] = old[1] => i = old

(* The boot loop boots one replica at a time, in the order of the slots.     *)
Looping ==
  /\ boot # "up" => /\ \A i \in Instances : ~retired[i]
                    /\ \A i \in Instances \ replicas : Pristine(i)
                    /\ reloads = 0
  /\ boot = "failed" => \A i \in Instances : task[i] = "none"
  /\ boot = "booting" =>
       \E n \in Slots :
         /\ replicas = {i \in Instances : i[1] <= n /\ i[2] = 0}
         /\ task[<<n, 0>>] \in {"booting", "publishing"}
         /\ \A i \in Instances \ {<<n, 0>>} : task[i] = "none"

(* A replica that was told to stop does not come back, unless its chain was  *)
(* tearing it down or booting it at that moment.                             *)
Told ==
  /\ \A i \in Instances :
       retired[i] /\ task[i] \in Rebooting => i \in unawaited \union awaited
  /\ \A i \in awaited : i \in replicas /\ task[i] \in InFlight
  /\ emulator # "settling" => awaited = {}

(* What is not listed, or is about to be dropped, is over.                   *)
Departed ==
  /\ \A i \in Instances \ replicas :
       \/ i \in unawaited
       \/ /\ retired[i] \/ task[i] = "none"
          /\ \/ container[i] = NoContainer
             \/ reload = "discarding" /\ i = Shadow(old)
  /\ reload \in {"clearing", "cleared", "draining", "retiring", "retired"} =>
       retired[old]

(* The shutdown: what is marked, and what is left to remove.                 *)
Closing ==
  /\ shuttingDown => /\ boot = "up"
                     /\ emulator \in {"settling", "cleaning", "exited"}
                     /\ \A i \in replicas : retired[i]
  /\ emulator \in {"settling", "cleaning", "exited"} =>
       shuttingDown \/ boot = "failed" \/ unawaited = Instances
  /\ emulator # "cleaning" => cleaning = {}
  /\ emulator \in {"cleaning", "exited"} => \A i \in replicas :
       \/ i \in unawaited
       \/ container[i] \in cleaning \union {NoContainer}

(* Whose a container is.                                                     *)
Paired ==
  /\ \A i \in Instances : \A j \in Instances :
       container[i] = container[j] /\ container[i] # NoContainer => i = j
  /\ \A i \in Instances :
       container[i] # NoContainer => docker[container[i]] # "absent"
  /\ \A c \in Containers :
       docker[c] # "absent" => \E i \in Instances : container[i] = c

(* What the reload has in its hands is the old replica's, or gone.           *)
Targeted ==
  /\ \A i \in Instances : target # NoContainer /\ container[i] = target => i = old
  /\ reload \in {"clearing", "retiring"} => container[old] = target \/ old \in unawaited
  /\ reload \in {"cleared", "retired"} =>
       container[old] = NoContainer \/ old \in unawaited

(* Where the registrations lead: to the container the replica has; and a     *)
(* chain that is about to remove or to start one has dropped them.           *)
Routed ==
  /\ boot # "failed" => \A i \in Instances :
       routes[i] \in {NoContainer, container[i]} \/ i \in unawaited \union overtaken
  /\ \A i \in Instances :
       task[i] \in {"clearing", "booting", "probing", "publishing"} =>
         routes[i] = NoContainer \/ i \in unawaited \union overtaken

(* Who has no registrations any more, or none yet.                           *)
Dropped ==
  /\ reload \in {"clearing", "cleared", "draining", "retiring", "retired"} =>
       routes[old] = NoContainer \/ old \in unawaited
  /\ reload \in {"shadow", "discarding"} /\ task[Shadow(old)] # "verifying" =>
       routes[Shadow(old)] = NoContainer
  /\ emulator \in {"cleaning", "exited"} /\ shuttingDown =>
       \A i \in Instances : routes[i] = NoContainer \/ i \in unawaited
  /\ \A i \in Instances \ replicas : routes[i] = NoContainer \/ i \in unawaited

(* A soft reload that found the watcher waiting keeps it from taking the     *)
(* stop for a crash.                                                         *)
Cycled ==
  /\ reload \in Soft /\ old \notin overtaken =>
       /\ task[old] \in {"watching", "deferring"} /\ ~retired[old]
       /\ task[old] = "watching" => softGenSeen[old] # softGen[old]
       /\ container[old] = target
  /\ \A i \in Instances \ overtaken :
       task[i] = "watching" /\ answer[i] # "pending" /\ softGen[i] = softGenSeen[i]
         => ~Running(i)

Inv1 == TypeOK /\ Stepping /\ Counted /\ Listed /\ Looping
Inv2 == Told /\ Departed /\ Closing /\ Paired /\ Targeted
Inv3 == Routed /\ Dropped /\ Cycled /\ (boot = "up" => Watched)
RunnerInv == Inv1 /\ Inv2 /\ Inv3

-----------------------------------------------------------------------------
(* Instances *)

LEMMA SlotsMeans ==
  /\ ComputeReplicaCount(DesiredCount, MaxTasks) \in Nat \ {0}
  /\ Slots \subseteq Nat /\ 0 \in Slots
  /\ \A s \in Slots : \A r \in 0 .. s : r \in Slots
  BY RunnerAssumption DEF ComputeReplicaCount, Slots

LEMMA InstanceMeans ==
  /\ \A i \in Instances : i[1] \in Slots /\ i[2] \in 0 .. MaxReloads
  /\ \A i \in Instances : \A j \in Instances : i[1] = j[1] /\ i[2] = j[2] => i = j
  /\ \A s \in Slots : \A g \in 0 .. MaxReloads :
       <<s, g>> \in Instances /\ <<s, g>>[1] = s /\ <<s, g>>[2] = g
  /\ NoInstance \notin Instances
  BY RunnerAssumption, SlotsMeans DEF Instances, NoInstance

LEMMA ShadowMeans ==
  ASSUME NEW i \in Instances, i[2] < MaxReloads
  PROVE  /\ Shadow(i) \in Instances
         /\ Shadow(i)[1] = i[1] /\ Shadow(i)[2] = i[2] + 1
         /\ Shadow(i) # i
  BY RunnerAssumption, SlotsMeans DEF Instances, Shadow

LEMMA OldMeans ==
  ASSUME RunnerInv, reload \notin {"idle", "next"}
  PROVE  /\ old \in Instances /\ old # NoInstance /\ old[2] < MaxReloads
         /\ Shadow(old) \in Instances /\ Shadow(old) # old
         /\ Shadow(old)[1] = old[1] /\ Shadow(old)[2] = old[2] + 1
<1>1. old \in Instances /\ old # NoInstance
  BY DEF RunnerInv, Inv1, Stepping, TypeOK
<1>2. old[2] < MaxReloads
  BY <1>1, InstanceMeans, RunnerAssumption DEF RunnerInv, Inv1, Counted, TypeOK
<1> QED BY <1>1, <1>2, ShadowMeans

LEMMA InitRunnerInv == Init => RunnerInv
<1> SUFFICES ASSUME Init PROVE RunnerInv
  OBVIOUS
<1>1. <<0, 0>> \in Instances /\ <<0, 0>>[1] = 0 /\ <<0, 0>>[2] = 0
  BY RunnerAssumption, SlotsMeans, InstanceMeans
<1>2. TypeOK
  <2>1. /\ replicas \subseteq Instances /\ queue \subseteq Instances
        /\ awaited \subseteq Instances /\ unawaited \subseteq Instances
        /\ overtaken \subseteq Instances /\ dark \subseteq Slots
        /\ cleaning \subseteq Containers
        /\ reloads \in 0 .. MaxReloads /\ crashes \in 0 .. MaxCrashes
    BY <1>1, RunnerAssumption DEF Init
  <2>2. /\ task \in [Instances -> Tasks]
        /\ answer \in [Instances -> {"none", "pending", "absent"} \union Exited]
        /\ docker \in [Containers -> {"absent", "running"} \union Exited]
    BY DEF Init, Tasks
  <2> QED BY <2>1, <2>2, RunnerAssumption DEF Init, TypeOK
<1>3. Stepping
  BY <1>1 DEF Init, Stepping, Roll, Soft
<1>4. Counted
  BY <1>1 DEF Init, Counted
<1>5. Listed
  BY <1>1 DEF Init, Listed, Pristine
<1>6. Looping
  <2>1. replicas = {i \in Instances : i[1] <= 0 /\ i[2] = 0}
    <3>1. ASSUME NEW i \in Instances, i[1] <= 0, i[2] = 0 PROVE i = <<0, 0>>
      <4>1. PICK s \in Slots, g \in 0 .. MaxReloads : i = <<s, g>>
        BY DEF Instances
      <4>2. s <= 0 /\ g = 0
        BY <3>1, <4>1
      <4>3. s = 0
        BY <4>2, SlotsMeans
      <4> QED BY <4>1, <4>2, <4>3
    <3> QED BY <1>1, <3>1 DEF Init
  <2> QED BY <1>1, <2>1, SlotsMeans DEF Init, Looping, Pristine
<1>7. Told /\ Departed
  BY <1>1 DEF Init, Told, Departed, InFlight, Rebooting
<1>8. Closing
  BY <1>1 DEF Init, Closing
<1>9. Paired /\ Targeted
  BY <1>1 DEF Init, Paired, Targeted
<1>10. Routed /\ Dropped /\ Cycled
  BY <1>1 DEF Init, Routed, Dropped, Cycled, Soft
<1>11. boot # "up"
  BY DEF Init
<1> QED
  BY <1>2, <1>3, <1>4, <1>5, <1>6, <1>7, <1>8, <1>9, <1>10, <1>11
  DEF RunnerInv, Inv1, Inv2, Inv3

-----------------------------------------------------------------------------
(* Types *)

LEMMA WatchTypes ==
  ASSUME TypeOK, NEW is \in SUBSET Instances, Watch(is), RunnerAssumption
  PROVE  /\ task' \in [Instances -> Tasks]
         /\ answer' \in [Instances -> {"none", "pending", "absent"} \union Exited]
         /\ softGenSeen' \in [Instances -> 0 .. MaxReloads]
         /\ \A i \in Instances : task'[i] = "booting" => task[i] = "booting"
  BY DEF TypeOK, Watch, Tasks, Exited

LEMMA SettleTypes ==
  ASSUME RunnerInv, NEW i \in Instances, task[i] # "none", BootSettles(i),
         container' = container
  PROVE  /\ task' \in [Instances -> Tasks]
         /\ answer' \in [Instances -> {"none", "pending", "absent"} \union Exited]
         /\ softGenSeen' \in [Instances -> 0 .. MaxReloads]
         /\ replicas' \subseteq Instances /\ awaited' \subseteq Instances
         /\ boot' \in {"booting", "up", "failed"}
         /\ reload' \in {reload, "next", "swap"}
         /\ old' \in {old, NoInstance} /\ target' \in {target, NoContainer}
         /\ \A j \in Instances : task'[j] = "booting" => container[j] = NoContainer
<1> USE RunnerAssumption DEF RunnerInv, Inv1
<1>1. CASE LoopContinues(i) /\ Bare(i)
  <2>1. CASE i[1] + 1 \in Slots
    <3> DEFINE n == <<i[1] + 1, 0>>
    <3>1. n \in Instances /\ n[1] = i[1] + 1
      BY <2>1, InstanceMeans
    <3>2. n \notin replicas
      <4>1. PICK m \in Slots : /\ replicas = {j \in Instances : j[1] <= m /\ j[2] = 0}
                              /\ \A j \in Instances \ {<<m, 0>>} : task[j] = "none"
        BY <1>1 DEF Looping, Bare
      <4>2. i[1] = m /\ m \in Nat
        BY <4>1, InstanceMeans, SlotsMeans
      <4> QED BY <3>1, <4>1, <4>2
    <3>3. container[n] = NoContainer
      BY <1>1, <3>1, <3>2 DEF Looping, Bare, Pristine
    <3> QED BY <1>1, <2>1, <3>1, <3>3 DEF LoopContinues, TypeOK, Tasks
  <2>2. CASE i[1] + 1 \notin Slots
    <3>1. Watch(replicas)
      BY <1>1, <2>2 DEF LoopContinues
    <3> QED BY <1>1, <2>2, <3>1, WatchTypes DEF LoopContinues, TypeOK
  <2> QED BY <2>1, <2>2
<1>2. CASE RollContinues(i)
  <2>1. CASE SingleReplica
    <3>1. Watch({i})
      BY <1>2, <2>1 DEF RollContinues
    <3> QED BY <1>2, <2>1, <3>1, WatchTypes DEF RollContinues, NextReplica, TypeOK
  <2>2. CASE ~SingleReplica
    BY <1>2, <2>2 DEF RollContinues, SetTask, TypeOK, Tasks
  <2> QED BY <2>1, <2>2
<1>3. CASE RestartContinues(i)
  <2>1. Watch({i})
    BY <1>3 DEF RestartContinues
  <2> QED BY <1>3, <2>1, WatchTypes DEF RestartContinues, TypeOK
<1> QED BY <1>1, <1>2, <1>3 DEF BootSettles

LEMMA BootTypeOK ==
  ASSUME RunnerInv, NEW i \in Instances, BootStep(i)
  PROVE  TypeOK'
<1> USE RunnerAssumption DEF RunnerInv, Inv1, settleFrame
<1>0. TypeOK
  OBVIOUS
<1>1. ASSUME NEW c \in Containers, ContainerStarts(i, c) PROVE TypeOK'
  BY <1>0, <1>1 DEF ContainerStarts, SetTask, softVars, reloadVars, emuVars, histVars,
     TypeOK, Tasks
<1>2. CASE ProbeEnds(i)
  BY <1>0, <1>2, SettleTypes DEF ProbeEnds, SetTask, TypeOK, Tasks
<1>3. CASE Publishes(i)
  <2>1. routes' \in [Instances -> Containers \union {NoContainer}] /\ dark' \subseteq Slots
    BY <1>3, InstanceMeans DEF Publishes, Darken, TypeOK
  <2>2. CASE BootSettles(i)
    BY <1>0, <1>3, <2>1, <2>2, SettleTypes DEF Publishes, TypeOK
  <2>3. CASE SetTask(i, "verifying") /\ UNCHANGED <<answer, softGenSeen, replicas, boot,
                                                   reload, old, target, awaited>>
    BY <1>0, <1>3, <2>1, <2>3 DEF Publishes, SetTask, TypeOK, Tasks
  <2> QED BY <1>3, <2>2, <2>3 DEF Publishes
<1>4. CASE SingleRollProbeEnds(i)
  BY <1>0, <1>4, SettleTypes DEF SingleRollProbeEnds, TypeOK, Tasks
<1>5. CASE BootFails(i)
  <2>1. /\ awaited' \subseteq Instances /\ dark' \subseteq Slots
        /\ replicas' \subseteq Instances
    BY <1>0, <1>5, InstanceMeans DEF BootFails, Darken, TypeOK
  <2>2. task' \in [Instances -> Tasks] /\ (task' = [task EXCEPT ![i] = "none"] \/ task' = [task EXCEPT ![i] = "stopped"])
    BY <1>0, <1>5 DEF BootFails, SetTask, TypeOK, Tasks
  <2>3. /\ retired' \in [Instances -> BOOLEAN]
        /\ boot' \in {"booting", "up", "failed"}
        /\ emulator' \in {emulator, "signalled"}
        /\ reload' \in {reload, "discarding"}
    BY <1>0, <1>5 DEF BootFails, TypeOK
  <2> QED BY <1>0, <1>5, <2>1, <2>2, <2>3 DEF BootFails, softVars, TypeOK
<1> QED BY <1>1, <1>2, <1>3, <1>4, <1>5 DEF BootStep

LEMMA DockerTypes ==
  ASSUME TypeOK
  PROVE  /\ \A c \in Containers : \A s \in {"running"} \union Exited :
              DockerBecomes(c, s) =>
                /\ docker' \in [Containers -> {"absent", "running"} \union Exited]
                /\ answer' \in [Instances -> {"none", "pending", "absent"} \union Exited]
         /\ \A cs : DockerRemoves(cs) =>
              /\ docker' \in [Containers -> {"absent", "running"} \union Exited]
              /\ answer' \in [Instances -> {"none", "pending", "absent"} \union Exited]
              /\ container' \in [Instances -> Containers \union {NoContainer}]
              /\ \A i \in Instances : container'[i] \in {container[i], NoContainer}
              /\ \A i \in Instances : container[i] \in cs => container'[i] = NoContainer
  BY DEF TypeOK, DockerBecomes, DockerRemoves, Exited

LEMMA WatcherTypeOK ==
  ASSUME RunnerInv, NEW i \in Instances, WatcherStep(i)
  PROVE  TypeOK'
<1> USE RunnerAssumption DEF RunnerInv, Inv1, softVars, reloadVars, emuVars, histVars
<1>0. TypeOK
  OBVIOUS
<1>1. CASE SleepEnds(i) \/ DeferEnds(i)
  <2>1. Watch({i})
    BY <1>1 DEF SleepEnds, DeferEnds
  <2> QED BY <1>0, <1>1, <2>1, WatchTypes DEF SleepEnds, DeferEnds, TypeOK
<1>2. CASE ExitSeen(i)
  BY <1>0, <1>2 DEF ExitSeen, SetTask, TypeOK, Tasks
<1>3. CASE Degrade(i)
  BY <1>0, <1>3 DEF Degrade, SetTask, TypeOK, Tasks
<1>4. CASE BackoffEnds(i)
  BY <1>0, <1>4 DEF BackoffEnds, SetTask, Unregister, TypeOK, Tasks
<1>5. CASE Reboot(i)
  BY <1>0, <1>5, DockerTypes DEF Reboot, ClearState, SetTask, TypeOK, Tasks
<1> QED BY <1>1, <1>2, <1>3, <1>4, <1>5 DEF WatcherStep

LEMMA ReloadTypeOK ==
  ASSUME RunnerInv, ReloadStep
  PROVE  TypeOK'
<1> USE RunnerAssumption DEF RunnerInv, Inv1, instVars, softVars, emuVars, histVars
<1>0. TypeOK
  OBVIOUS
<1>1. CASE ReloadEnds
  BY <1>0, <1>1 DEF ReloadEnds, TypeOK
<1>2. ASSUME NEW i \in Instances, SkipReplica(i) PROVE TypeOK'
  BY <1>0, <1>2 DEF SkipReplica, TypeOK
<1>3. ASSUME NEW i \in Instances, BeginRoll(i) PROVE TypeOK'
  <2>1. i[2] < MaxReloads
    BY <1>0, <1>3, InstanceMeans DEF BeginRoll, Counted, TypeOK
  <2>2. Shadow(i) \in Instances /\ Shadow(i) # i
    BY <2>1, ShadowMeans
  <2>3. container[Shadow(i)] = NoContainer
    BY <1>3, <2>1, <2>2, ShadowMeans, InstanceMeans DEF BeginRoll, Listed, Stepping, Pristine
  <2>4. /\ task' \in [Instances -> Tasks]
        /\ task' = task \/ task' = [task EXCEPT ![Shadow(i)] = "booting"]
    BY <1>0, <1>3, <2>2 DEF BeginRoll, SetTask, TypeOK, Tasks
  <2>5. /\ routes' \in [Instances -> Containers \union {NoContainer}]
        /\ retired' \in [Instances -> BOOLEAN]
        /\ unawaited' \subseteq Instances
        /\ target' \in Containers \union {NoContainer}
        /\ reload' \in {"clearing", "shadow"}
    BY <1>0, <1>3 DEF BeginRoll, Unregister, TornDown, TypeOK
  <2> QED BY <1>0, <1>3, <2>2, <2>3, <2>4, <2>5 DEF BeginRoll, TypeOK
<1>4. ASSUME NEW i \in Instances, BeginSoftReload(i) PROVE TypeOK'
  <2>1. softGen[i] + 1 \in 0 .. MaxReloads
    BY <1>0, <1>4 DEF BeginSoftReload, Counted, TypeOK
  <2> QED BY <1>0, <1>4, <2>1 DEF BeginSoftReload, Unregister, TypeOK
<1>5. CASE OldRemoved
  BY <1>0, <1>5, DockerTypes DEF OldRemoved, TypeOK
<1>6. CASE BootShadow
  <2>1. old \in Instances /\ Shadow(old) \in Instances
    BY <1>6, OldMeans DEF BootShadow
  <2> QED BY <1>0, <1>6, <2>1 DEF BootShadow, SetTask, Listed, Pristine, TypeOK, Tasks
<1>7. CASE Swap
  <2>1. old \in Instances
    BY <1>0, <1>7 DEF Swap, Stepping, TypeOK
  <2> QED BY <1>0, <1>7, <2>1 DEF Swap, Unregister, TornDown, TypeOK
<1>8. CASE DrainEnds
  <2>1. old \in Instances
    BY <1>0, <1>8 DEF DrainEnds, Stepping, TypeOK
  <2> QED BY <1>0, <1>8, <2>1 DEF DrainEnds, TypeOK
<1>9. CASE RollEnds
  <2>1. old \in Instances /\ Shadow(old) \in Instances
    BY <1>9, OldMeans DEF RollEnds
  <2>2. Watch({Shadow(old)})
    BY <1>9 DEF RollEnds
  <2> QED BY <1>0, <1>9, <2>1, <2>2, WatchTypes DEF RollEnds, NextReplica, TypeOK
<1>10. CASE DiscardShadow
  BY <1>0, <1>10, DockerTypes DEF DiscardShadow, NextReplica, TypeOK
<1>11. CASE SourceCopied
  BY <1>0, <1>11 DEF SourceCopied, TypeOK
<1>12. CASE SoftStop
  <2>1. target \in Containers
    BY <1>0, <1>12 DEF SoftStop, Stepping, Soft, TypeOK
  <2> QED BY <1>0, <1>12, <2>1, DockerTypes DEF SoftStop, TypeOK
<1>13. CASE SoftStart
  <2>1. target \in Containers
    BY <1>0, <1>13 DEF SoftStart, Stepping, Soft, TypeOK
  <2> QED BY <1>0, <1>13, <2>1, DockerTypes DEF SoftStart, TypeOK
<1>14. CASE SoftProbeEnds \/ SoftPublish \/ SoftFails
  <2>1. old \in Instances
    BY <1>14, OldMeans DEF SoftProbeEnds, SoftPublish, SoftFails
  <2>2. dark' \subseteq Slots
    BY <1>0, <1>14, <2>1, InstanceMeans
    DEF SoftProbeEnds, SoftPublish, SoftFails, Darken, TypeOK
  <2>3. /\ routes' \in [Instances -> Containers \union {NoContainer}]
        /\ softReload' \in [Instances -> BOOLEAN]
        /\ reload' \in {"publishing", "next"}
        /\ old' \in {old, NoInstance} /\ target' \in Containers \union {NoContainer}
    <3>1. softReload' = softReload \/ softReload' = [softReload EXCEPT ![old] = FALSE]
      BY <1>14 DEF SoftProbeEnds, SoftPublish, SoftFails, SoftReloadEnds, ClearFlag
    <3>2. routes' = routes \/ routes' = [routes EXCEPT ![old] = target]
      BY <1>14 DEF SoftProbeEnds, SoftPublish, SoftFails
    <3>3. /\ reload' \in {"publishing", "next"}
          /\ old' \in {old, NoInstance} /\ target' \in {container[old], NoContainer}
      BY <1>14 DEF SoftProbeEnds, SoftPublish, SoftFails, SoftReloadEnds, NextReplica
    <3>4. softReload' \in [Instances -> BOOLEAN]
      BY <1>0, <3>1 DEF TypeOK
    <3>5. routes' \in [Instances -> Containers \union {NoContainer}]
      BY <1>0, <3>2 DEF TypeOK
    <3>6. container[old] \in Containers \union {NoContainer}
      BY <1>0, <2>1 DEF TypeOK
    <3> QED BY <3>3, <3>4, <3>5, <3>6
  <2> QED BY <1>0, <1>14, <2>2, <2>3
     DEF SoftProbeEnds, SoftPublish, SoftFails, softFrame, TypeOK
<1> QED
  BY <1>1, <1>2, <1>3, <1>4, <1>5, <1>6, <1>7, <1>8, <1>9, <1>10, <1>11, <1>12, <1>13,
     <1>14 DEF ReloadStep

LEMMA CommandTypeOK ==
  ASSUME RunnerInv,
         \/ CleanupStep \/ SourceChanged \/ Signal
         \/ \E c \in Containers : Crash(c)
  PROVE  TypeOK'
<1> USE RunnerAssumption
    DEF RunnerInv, Inv1, instVars, softVars, reloadVars, emuVars, histVars
<1>0. TypeOK
  OBVIOUS
<1>1. CASE BeginShutdown
  BY <1>0, <1>1 DEF BeginShutdown, InFlightBoots, TypeOK
<1>2. CASE TakeDown
  BY <1>0, <1>2 DEF TakeDown, TypeOK
<1>3. ASSUME NEW c \in Containers, RemoveOne(c) PROVE TypeOK'
  BY <1>0, <1>3, DockerTypes DEF RemoveOne, TypeOK
<1>4. CASE Exit
  BY <1>0, <1>4 DEF Exit, TypeOK
<1>5. CASE SourceChanged
  BY <1>0, <1>5 DEF SourceChanged, TypeOK
<1>6. CASE Signal
  BY <1>0, <1>6 DEF Signal, TypeOK
<1>7. ASSUME NEW c \in Containers, Crash(c) PROVE TypeOK'
  <2>1. /\ docker' \in [Containers -> {"absent", "running"} \union Exited]
        /\ answer' \in [Instances -> {"none", "pending", "absent"} \union Exited]
    BY <1>0, <1>7, DockerTypes DEF Crash
  <2>2. dark' \subseteq Slots
    BY <1>0, <1>7, InstanceMeans DEF Crash, TypeOK
  <2>3. crashes' \in 0 .. MaxCrashes
    BY <1>0, <1>7 DEF Crash, TypeOK
  <2> QED BY <1>0, <1>7, <2>1, <2>2, <2>3 DEF Crash, TypeOK
<1> QED BY <1>1, <1>2, <1>3, <1>4, <1>5, <1>6, <1>7 DEF CleanupStep

LEMMA NextTypeOK ==
  ASSUME RunnerInv, Next
  PROVE  TypeOK'
  BY BootTypeOK, WatcherTypeOK, ReloadTypeOK, CommandTypeOK DEF Next

-----------------------------------------------------------------------------
(* The steps of the reload *)

LEMMA BootStepping ==
  ASSUME RunnerInv, NEW i \in Instances, BootStep(i)
  PROVE  Stepping'
<1> USE DEF RunnerInv, Inv1, Stepping, Soft, Roll
<1>1. ASSUME task[i] # "none", BootSettles(i), UNCHANGED settleFrame
      PROVE  Stepping'
  <2>1. CASE Bare(i) /\ LoopContinues(i)
    BY <1>1, <2>1 DEF Bare, LoopContinues, settleFrame
  <2>2. CASE Rolled(i) /\ RollContinues(i)
    BY <1>1, <2>2, OldMeans DEF Rolled, RollContinues, NextReplica, settleFrame
  <2>3. CASE Restarted(i) /\ RestartContinues(i)
    BY <1>1, <2>3 DEF RestartContinues, settleFrame
  <2> QED BY <1>1, <2>1, <2>2, <2>3 DEF BootSettles
<1>2. ASSUME NEW c \in Containers, ContainerStarts(i, c) PROVE Stepping'
  BY <1>2 DEF ContainerStarts, softVars, reloadVars, emuVars
<1>3. CASE ProbeEnds(i)
  BY <1>1, <1>3 DEF ProbeEnds, settleFrame
<1>4. CASE Publishes(i)
  BY <1>1, <1>4 DEF Publishes, settleFrame
<1>5. CASE SingleRollProbeEnds(i)
  BY <1>1, <1>5 DEF SingleRollProbeEnds
<1>6. CASE BootFails(i)
  BY <1>6 DEF BootFails, Bare, Rolled, softVars
<1> QED BY <1>2, <1>3, <1>4, <1>5, <1>6 DEF BootStep

LEMMA ReloadStepping ==
  ASSUME RunnerInv, ReloadStep
  PROVE  Stepping'
<1> USE DEF RunnerInv, Inv1, Stepping, Soft, Roll, emuVars, softVars
<1>1. ASSUME NEW i \in Instances, SkipReplica(i) \/ BeginRoll(i) \/ BeginSoftReload(i)
      PROVE  Stepping'
  BY <1>1, InstanceMeans
  DEF SkipReplica, BeginRoll, BeginSoftReload, TeardownOldFirst, TypeOK
<1>2. CASE ReloadEnds \/ OldRemoved \/ BootShadow \/ Swap \/ DrainEnds
  BY <1>2 DEF ReloadEnds, OldRemoved, BootShadow, Swap, DrainEnds
<1>3. CASE RollEnds \/ DiscardShadow
  BY <1>3, OldMeans DEF RollEnds, DiscardShadow, NextReplica
<1>4. CASE SourceCopied \/ SoftStop \/ SoftStart
  BY <1>4 DEF SourceCopied, SoftStop, SoftStart
<1>5. CASE SoftProbeEnds \/ SoftPublish \/ SoftFails
  BY <1>5, OldMeans
  DEF SoftProbeEnds, SoftPublish, SoftFails, SoftReloadEnds, ClearFlag, NextReplica,
      softFrame, TypeOK
<1> QED BY <1>1, <1>2, <1>3, <1>4, <1>5 DEF ReloadStep

LEMMA NextStepping ==
  ASSUME RunnerInv, Next
  PROVE  Stepping'
<1> USE DEF RunnerInv, Inv1, Stepping, Soft, Roll
<1>1. ASSUME NEW i \in Instances, WatcherStep(i) PROVE Stepping'
  BY <1>1 DEF WatcherStep, SleepEnds, ExitSeen, DeferEnds, Degrade, BackoffEnds, Reboot,
     softVars, reloadVars, emuVars
<1>2. CASE CleanupStep
  BY <1>2 DEF CleanupStep, BeginShutdown, TakeDown, RemoveOne, Exit, softVars, reloadVars
<1>3. CASE SourceChanged
  BY <1>3, RunnerAssumption DEF SourceChanged, softVars, emuVars
<1>4. CASE Signal
  BY <1>4 DEF Signal, softVars, reloadVars
<1>5. ASSUME NEW c \in Containers, Crash(c) PROVE Stepping'
  BY <1>5 DEF Crash, softVars, reloadVars, emuVars
<1> QED
  BY <1>1, <1>2, <1>3, <1>4, <1>5, BootStepping, ReloadStepping DEF Next

LEMMA BootCounted ==
  ASSUME RunnerInv, NEW i \in Instances, BootStep(i)
  PROVE  Counted'
<1> USE DEF RunnerInv, Inv1, Counted, TypeOK
<1>1. ASSUME task[i] # "none", BootSettles(i), UNCHANGED settleFrame
      PROVE  Counted'
  <2>1. CASE Bare(i) /\ LoopContinues(i)
    BY <1>1, <2>1, InstanceMeans DEF Bare, LoopContinues, Watch, settleFrame
  <2>2. CASE Rolled(i) /\ RollContinues(i)
    BY <1>1, <2>2, OldMeans DEF Rolled, RollContinues, NextReplica, Watch, settleFrame
  <2>3. CASE Restarted(i) /\ RestartContinues(i)
    BY <1>1, <2>3 DEF RestartContinues, Watch, settleFrame
  <2> QED BY <1>1, <2>1, <2>2, <2>3 DEF BootSettles
<1>2. ASSUME NEW c \in Containers, ContainerStarts(i, c) PROVE Counted'
  BY <1>2 DEF ContainerStarts, softVars, reloadVars, emuVars
<1>3. CASE ProbeEnds(i)
  BY <1>1, <1>3 DEF ProbeEnds, settleFrame
<1>4. CASE Publishes(i)
  BY <1>1, <1>4 DEF Publishes, settleFrame
<1>5. CASE SingleRollProbeEnds(i)
  BY <1>1, <1>5 DEF SingleRollProbeEnds
<1>6. CASE BootFails(i)
  BY <1>6 DEF BootFails, Bare, Rolled, softVars
<1> QED BY <1>2, <1>3, <1>4, <1>5, <1>6 DEF BootStep

LEMMA ReloadCounted ==
  ASSUME RunnerInv, ReloadStep
  PROVE  Counted'
<1> USE DEF RunnerInv, Inv1, Counted, instVars, emuVars, softVars
<1>1. ASSUME NEW i \in Instances, SkipReplica(i) PROVE Counted'
  BY <1>1 DEF SkipReplica
<1>2. ASSUME NEW i \in Instances, BeginRoll(i) PROVE Counted'
  <2>1. i[2] < reloads /\ Shadow(i)[2] = i[2] + 1 /\ i[2] \in Nat /\ reloads \in Nat
    BY <1>2, InstanceMeans, ShadowMeans, RunnerAssumption DEF BeginRoll, TypeOK
  <2> QED BY <1>2, <2>1 DEF BeginRoll
<1>3. ASSUME NEW i \in Instances, BeginSoftReload(i) PROVE Counted'
  BY <1>3, RunnerAssumption DEF BeginSoftReload, TypeOK
<1>4. CASE ReloadEnds \/ OldRemoved \/ BootShadow \/ Swap \/ DrainEnds
  BY <1>4 DEF ReloadEnds, OldRemoved, BootShadow, Swap, DrainEnds
<1>5. CASE RollEnds
  BY <1>5, OldMeans DEF RollEnds, NextReplica, Watch, TypeOK
<1>6. CASE DiscardShadow
  BY <1>6 DEF DiscardShadow, NextReplica
<1>7. CASE SourceCopied \/ SoftStop \/ SoftStart
  BY <1>7 DEF SourceCopied, SoftStop, SoftStart
<1>8. CASE SoftProbeEnds \/ SoftPublish \/ SoftFails
  BY <1>8
  DEF SoftProbeEnds, SoftPublish, SoftFails, SoftReloadEnds, NextReplica, softFrame
<1> QED BY <1>1, <1>2, <1>3, <1>4, <1>5, <1>6, <1>7, <1>8 DEF ReloadStep

LEMMA NextCounted ==
  ASSUME RunnerInv, Next
  PROVE  Counted'
<1> USE DEF RunnerInv, Inv1, Counted
<1>1. ASSUME NEW i \in Instances, WatcherStep(i) PROVE Counted'
  BY <1>1 DEF WatcherStep, SleepEnds, ExitSeen, DeferEnds, Degrade, BackoffEnds, Reboot,
     softVars, reloadVars, emuVars, Watch, TypeOK
<1>2. CASE CleanupStep
  BY <1>2 DEF CleanupStep, BeginShutdown, TakeDown, RemoveOne, Exit, instVars, softVars,
     reloadVars
<1>3. CASE SourceChanged
  BY <1>3, InstanceMeans DEF SourceChanged, instVars, softVars, emuVars, Stepping, TypeOK
<1>4. CASE Signal
  BY <1>4 DEF Signal, instVars, softVars, reloadVars
<1>5. ASSUME NEW c \in Containers, Crash(c) PROVE Counted'
  BY <1>5 DEF Crash, softVars, reloadVars, emuVars
<1> QED
  BY <1>1, <1>2, <1>3, <1>4, <1>5, BootCounted, ReloadCounted DEF Next

-----------------------------------------------------------------------------
(* The replica list *)

LEMMA PristineKept ==
  ASSUME NEW i \in Instances, Pristine(i), task'[i] = task[i], retired'[i] = retired[i],
         container'[i] \in {container[i], NoContainer},
         routes'[i] \in {routes[i], NoContainer}
  PROVE  Pristine(i)'
  BY DEF Pristine

(* Watching the replicas in is touches only them. *)
LEMMA WatchTouches ==
  ASSUME TypeOK, NEW is, Watch(is)
  PROVE  /\ \A j \in Instances : j \notin is => task'[j] = task[j]
         /\ \A j \in Instances : j \in is => task'[j] \in {"stopped", "sleeping", "watching"}
  BY DEF Watch, TypeOK

(* docker removes the containers of those that list them. *)
LEMMA RemovalTouches ==
  ASSUME NEW cs, DockerRemoves(cs)
  PROVE  \A j \in Instances : container'[j] \in {container[j], NoContainer}
  BY DEF DockerRemoves

LEMMA ListedKept ==
  ASSUME RunnerInv, UNCHANGED <<replicas, old, reload>>,
         \A j \in Instances : Pristine(j) => Pristine(j)',
         reload \in Roll => /\ retired'[Shadow(old)] = retired[Shadow(old)]
                            /\ \/ task'[Shadow(old)] = task[Shadow(old)]
                               \/ /\ task[Shadow(old)] \in InFlight
                                  /\ task'[Shadow(old)] \in InFlight
  PROVE  Listed'
<1> USE DEF RunnerInv, Inv1
<1>1. Listed
  OBVIOUS
<1>2. "none" \notin InFlight
  BY DEF InFlight
<1>3. reload \in {"clearing", "cleared"} => Shadow(old) \in Instances
  BY OldMeans
<1> QED BY <1>1, <1>2, <1>3 DEF Listed, Roll

(* A replica whose chain runs, but the shadow of a roll. *)
LEMMA OwnChain ==
  ASSUME RunnerInv, NEW i \in Instances, task[i] # "none", ~Rolled(i),
         \A j \in Instances \ {i} : /\ task'[j] = task[j] /\ retired'[j] = retired[j]
                                    /\ container'[j] \in {container[j], NoContainer}
                                    /\ routes'[j] \in {routes[j], NoContainer},
         UNCHANGED <<replicas, old, reload>>
  PROVE  Listed'
<1>1. \A j \in Instances : Pristine(j) => Pristine(j)'
  BY PristineKept DEF Pristine
<1>2. reload \in Roll => /\ task'[Shadow(old)] = task[Shadow(old)]
                        /\ retired'[Shadow(old)] = retired[Shadow(old)]
  <2>1. CASE reload \in Roll
    <3>1. Shadow(old) \in Instances
      BY <2>1, OldMeans DEF Roll
    <3>2. Shadow(old) # i
      BY <2>1 DEF RunnerInv, Inv1, Listed, Rolled, Roll, Pristine
    <3> QED BY <3>1, <3>2
  <2> QED BY <2>1
<1> QED BY <1>1, <1>2, ListedKept

LEMMA SettleListed ==
  ASSUME RunnerInv, NEW i \in Instances, task[i] \in InFlight, BootSettles(i),
         UNCHANGED settleFrame, \A j \in Instances \ {i} : routes'[j] = routes[j]
  PROVE  Listed'
<1> USE DEF RunnerInv, Inv1
<1>0. task[i] # "none" /\ TypeOK
  BY DEF InFlight
<1>1. CASE Bare(i) /\ LoopContinues(i)
  <2>1. PICK m \in Slots : /\ replicas = {j \in Instances : j[1] <= m /\ j[2] = 0}
                           /\ \A j \in Instances \ {<<m, 0>>} : task[j] = "none"
    BY <1>1 DEF Looping, Bare
  <2>2. \A j \in Instances \ replicas : Pristine(j) /\ j # i
    BY <1>0, <1>1, <2>1, InstanceMeans DEF Looping, Bare, Pristine
  <2>3. /\ reload = "idle" /\ old = NoInstance /\ reload' = reload /\ old' = old
    BY <1>1 DEF Looping, Bare, Stepping, LoopContinues
  <2>4. \A j \in replicas' : j \in Instances /\ j[2] = 0
    <3>1. CASE i[1] + 1 \in Slots
      BY <1>1, <2>1, <3>1, InstanceMeans, RunnerAssumption DEF LoopContinues
    <3>2. CASE i[1] + 1 \notin Slots
      BY <1>1, <2>1, <3>2 DEF LoopContinues
    <3> QED BY <3>1, <3>2
  <2>5. ASSUME NEW j \in Instances, j[2] > 0 PROVE Pristine(j)'
    <3>1. j \notin replicas /\ Pristine(j) /\ j # i
      BY <2>1, <2>2, <2>5, InstanceMeans
    <3>2. task'[j] = task[j]
      <4>1. CASE i[1] + 1 \in Slots
        <5>1. j # <<i[1] + 1, 0>>
          BY <2>5, <4>1, InstanceMeans, RunnerAssumption
        <5> QED BY <1>0, <1>1, <3>1, <4>1, <5>1 DEF LoopContinues, TypeOK
      <4>2. CASE i[1] + 1 \notin Slots
        BY <1>0, <1>1, <3>1, <4>2, WatchTouches DEF LoopContinues
      <4> QED BY <4>1, <4>2
    <3> QED BY <3>1, <3>2, PristineKept DEF settleFrame
  <2> QED BY <2>3, <2>4, <2>5, InstanceMeans DEF Listed
<1>2. CASE Rolled(i) /\ RollContinues(i)
  <2>1. reload = "shadow" /\ i = Shadow(old) /\ old \in Instances /\ replicas' = replicas
    BY <1>2, OldMeans DEF Rolled, RollContinues
  <2>2. \A j \in Instances \ {i} : task'[j] = task[j]
    BY <1>0, <1>2, WatchTouches DEF RollContinues, SetTask, TypeOK
  <2>3. \A j \in Instances : Pristine(j) => Pristine(j)'
    BY <1>0, <2>2, PristineKept DEF Pristine, settleFrame
  <2>4. CASE SingleReplica
    <3>1. old \notin replicas /\ old' = NoInstance /\ reload' = "next"
      BY <1>2, <2>1, <2>4 DEF Listed, Stepping, RollContinues, NextReplica
    <3> QED BY <2>1, <2>3, <3>1 DEF Listed
  <2>5. CASE ~SingleReplica
    <3>1. old' = old /\ reload' = "swap" /\ task'[i] = "none"
      BY <1>0, <1>2, <2>5 DEF RollContinues, SetTask, TypeOK
    <3> QED BY <2>1, <2>3, <2>5, <3>1 DEF Listed, Roll, Stepping
  <2> QED BY <2>4, <2>5
<1>3. CASE Restarted(i) /\ RestartContinues(i)
  <2>1. \A j \in Instances \ {i} : task'[j] = task[j]
    BY <1>0, <1>3, WatchTouches DEF RestartContinues
  <2> QED BY <1>0, <1>3, <2>1, OwnChain DEF Restarted, RestartContinues, settleFrame
<1> QED BY <1>1, <1>2, <1>3 DEF BootSettles

LEMMA BootListed ==
  ASSUME RunnerInv, NEW i \in Instances, BootStep(i)
  PROVE  Listed'
<1> USE DEF RunnerInv, Inv1
<1>0. TypeOK
  OBVIOUS
<1>1. ASSUME NEW t \in InFlight, task[i] \in InFlight, task' = [task EXCEPT ![i] = t],
             \A j \in Instances \ {i} : /\ container'[j] = container[j]
                                        /\ routes'[j] = routes[j],
             UNCHANGED <<replicas, retired, old, reload>>
      PROVE  Listed'
  <2>1. \A j \in Instances : Pristine(j) => Pristine(j)'
    BY <1>0, <1>1, PristineKept DEF Pristine, InFlight, TypeOK
  <2>2. reload \in Roll => /\ retired'[Shadow(old)] = retired[Shadow(old)]
                          /\ \/ task'[Shadow(old)] = task[Shadow(old)]
                             \/ /\ task[Shadow(old)] \in InFlight
                                /\ task'[Shadow(old)] \in InFlight
    BY <1>0, <1>1, OldMeans DEF Roll, TypeOK
  <2> QED BY <1>1, <2>1, <2>2, ListedKept
<1>2. ASSUME NEW c \in Containers, ContainerStarts(i, c) PROVE Listed'
  BY <1>0, <1>1, <1>2 DEF ContainerStarts, SetTask, reloadVars, InFlight, TypeOK
<1>3. CASE ProbeEnds(i)
  <2>1. CASE BootSettles(i)
    BY <1>3, <2>1, SettleListed DEF ProbeEnds, InFlight
  <2>2. CASE ~BootSettles(i)
    BY <1>1, <1>3, <2>2 DEF ProbeEnds, SetTask, settleFrame, InFlight
  <2> QED BY <2>1, <2>2
<1>4. CASE Publishes(i)
  <2>0. \A j \in Instances \ {i} : routes'[j] = routes[j]
    BY <1>0, <1>4 DEF Publishes, TypeOK
  <2>1. CASE BootSettles(i)
    BY <1>4, <2>0, <2>1, SettleListed DEF Publishes, InFlight
  <2>2. CASE ~BootSettles(i)
    BY <1>1, <1>4, <2>0, <2>2 DEF Publishes, SetTask, settleFrame, InFlight
  <2> QED BY <2>1, <2>2
<1>5. CASE SingleRollProbeEnds(i)
  BY <1>5, SettleListed DEF SingleRollProbeEnds, InFlight
<1>6. CASE BootFails(i)
  <2>1. task[i] # "none"
    BY <1>6 DEF BootFails
  <2>2. \A j \in Instances \ {i} : /\ task'[j] = task[j] /\ retired'[j] = retired[j]
                                   /\ container'[j] = container[j]
                                   /\ routes'[j] = routes[j]
    BY <1>0, <1>6 DEF BootFails, SetTask, TypeOK
  <2>3. CASE ~Rolled(i)
    BY <1>6, <2>1, <2>2, <2>3, OwnChain DEF BootFails
  <2>4. CASE Rolled(i)
    <3>1. boot = "up" /\ reload = "shadow" /\ i = Shadow(old) /\ old \in Instances /\ Shadow(old) # old
      BY <2>4, OldMeans DEF Rolled, Stepping
    <3>2. /\ replicas' = replicas \ {i} /\ reload' = "discarding" /\ old' = old
          /\ task'[i] = "none" /\ retired' = retired
      BY <1>0, <1>6, <2>4, <3>1 DEF BootFails, SetTask, Bare, Restarted, TypeOK
    <3>3. \A j \in Instances : Pristine(j) => Pristine(j)'
      BY <2>1, <2>2, PristineKept DEF Pristine
    <3>4. \A j \in replicas' : j[1] = old[1] => j = old
      <4>1. i \in replicas /\ i[1] = old[1]
        BY <3>1, OldMeans DEF Listed, Roll
      <4> QED BY <3>1, <3>2, <4>1 DEF Listed
    <3> QED BY <3>1, <3>2, <3>3, <3>4 DEF Listed, Roll
  <2> QED BY <2>3, <2>4
<1> QED BY <1>2, <1>3, <1>4, <1>5, <1>6 DEF BootStep

(* What is listed has begun to boot, but for the shadow of a roll. *)
LEMMA ListedBegun ==
  ASSUME RunnerInv, reload # "idle", NEW j \in replicas,
         old = NoInstance \/ j # Shadow(old)
  PROVE  ~Pristine(j)
  BY DEF RunnerInv, Inv1, Inv3, Stepping, Watched, Pristine

LEMMA WatcherListed ==
  ASSUME RunnerInv, NEW i \in Instances, WatcherStep(i)
  PROVE  Listed'
<1> USE DEF RunnerInv, Inv1
<1>0. TypeOK
  OBVIOUS
<1>1. /\ UNCHANGED <<replicas, old, reload>>
      /\ task[i] \notin {"none"} \union InFlight
  BY DEF WatcherStep, SleepEnds, ExitSeen, DeferEnds, Degrade, BackoffEnds, Reboot,
     reloadVars, InFlight
<1>2. ~Rolled(i)
  BY <1>1 DEF Rolled, Listed
<1>3. \A j \in Instances \ {i} : task'[j] = task[j]
  BY <1>0, WatchTouches DEF WatcherStep, SleepEnds, ExitSeen, DeferEnds, Degrade,
     BackoffEnds, Reboot, SetTask, TypeOK
<1>4. \A j \in Instances \ {i} : /\ retired'[j] = retired[j]
                                 /\ container'[j] \in {container[j], NoContainer}
                                 /\ routes'[j] \in {routes[j], NoContainer}
  BY <1>0, RemovalTouches DEF WatcherStep, SleepEnds, ExitSeen, DeferEnds, Degrade,
     BackoffEnds, Reboot, ClearState, Unregister, TypeOK
<1> QED BY <1>1, <1>2, <1>3, <1>4, OwnChain

LEMMA ReloadListed ==
  ASSUME RunnerInv, ReloadStep
  PROVE  Listed'
<1> USE DEF RunnerInv, Inv1, instVars
<1>0. TypeOK
  OBVIOUS
<1>1. ASSUME NEW i \in Instances, SkipReplica(i) PROVE Listed'
  BY <1>1, PristineKept, ListedKept DEF SkipReplica
<1>2. ASSUME NEW i \in Instances, BeginSoftReload(i) PROVE Listed'
  <2>1. \A j \in Instances : Pristine(j) => Pristine(j)'
    BY <1>0, <1>2, PristineKept DEF BeginSoftReload, Unregister, TypeOK
  <2>2. /\ old' = i /\ replicas' = replicas /\ old = NoInstance /\ i \in replicas
        /\ reload' = "copying"
    BY <1>2 DEF BeginSoftReload, Stepping
  <2>3. i[2] < MaxReloads
    BY <1>0, <1>2, InstanceMeans, RunnerAssumption DEF BeginSoftReload, Counted, TypeOK
  <2>4. Shadow(i) \notin replicas /\ i # NoInstance
    BY <2>2, <2>3, ShadowMeans, InstanceMeans DEF Listed
  <2>5. \A j \in replicas : \A k \in Instances :
          j[1] = k[1] /\ j[2] < k[2] => Pristine(k)
    BY <2>2, InstanceMeans, <1>0 DEF Listed, TypeOK
  <2>6. \A j \in replicas : \A k \in replicas : j[1] = k[1] => j = k
    BY <2>2 DEF Listed
  <2> QED BY <2>1, <2>2, <2>4, <2>5, <2>6 DEF Listed, Roll
<1>3. ASSUME NEW i \in Instances, BeginRoll(i) PROVE Listed'
  <2> DEFINE n == Shadow(i)
  <2>1. /\ i[2] < MaxReloads /\ i \in replicas /\ old = NoInstance
        /\ replicas' = replicas \union {n} /\ old' = i
        /\ reload = "next"
    BY <1>0, <1>3, InstanceMeans, RunnerAssumption DEF BeginRoll, Counted, Stepping, TypeOK
  <2>2. n \in Instances /\ n[1] = i[1] /\ n[2] = i[2] + 1 /\ n # i /\ i[2] \in Nat
    BY <2>1, ShadowMeans, InstanceMeans, RunnerAssumption
  <2>3. /\ \A j \in replicas : \A k \in Instances :
               j[1] = k[1] /\ j[2] < k[2] => Pristine(k)
        /\ \A j \in replicas : \A k \in replicas : j[1] = k[1] => j = k
    BY <1>0, <2>1, InstanceMeans DEF Listed, TypeOK
  <2>4. Pristine(n) /\ n \notin replicas /\ ~Pristine(i)
    BY <2>1, <2>2, <2>3, ListedBegun
  <2>5. \A j \in Instances : Pristine(j) /\ (j # n \/ SingleReplica) => Pristine(j)'
    BY <1>0, <1>3, <2>1, <2>2, <2>4, PristineKept
    DEF BeginRoll, SetTask, Unregister, TeardownOldFirst, TypeOK
  <2>6. ASSUME NEW j \in replicas', NEW k \in Instances, j[1] = k[1], j[2] < k[2]
        PROVE  Pristine(k)' \/ (j = i /\ k = n)
    <3>1. CASE j = n
      <4>1. i[1] = k[1] /\ i[2] < k[2] /\ k # n
        BY <2>2, <2>6, <3>1, InstanceMeans, RunnerAssumption
      <4> QED BY <2>1, <2>3, <2>5, <4>1
    <3>2. CASE j # n
      <4>1. j \in replicas
        BY <2>1, <3>2
      <4>2. k = n => j = i
        BY <2>1, <2>2, <2>3, <2>6, <4>1
      <4> QED BY <2>3, <2>5, <2>6, <4>1, <4>2
    <3> QED BY <3>1, <3>2
  <2>7. \A j \in replicas' : \A k \in replicas' :
          j[1] = k[1] /\ j # k => (j = i /\ k = n) \/ (k = i /\ j = n)
    BY <2>1, <2>2, <2>3
  <2>8. /\ i # NoInstance /\ i \in replicas' /\ n \in replicas'
        /\ reload' \in {"clearing", "shadow"}
        /\ reload' = "clearing" => SingleReplica
        /\ reload' = "shadow" => ~SingleReplica /\ task'[n] = "booting" /\ ~retired'[n]
    BY <1>0, <1>3, <2>1, <2>2, <2>4, InstanceMeans
    DEF BeginRoll, TeardownOldFirst, SetTask, Pristine, TypeOK
  <2>9. reload' \in {"clearing", "cleared"} => Pristine(Shadow(old))'
    BY <2>1, <2>2, <2>4, <2>5, <2>8 DEF Pristine
  <2> QED BY <2>1, <2>2, <2>6, <2>7, <2>8, <2>9 DEF Listed, Roll, InFlight
<1>4. CASE ReloadEnds
  BY <1>4, PristineKept DEF ReloadEnds, Listed, Stepping, Roll
<1>5. CASE OldRemoved
  <2>1. \A j \in Instances : Pristine(j) => Pristine(j)'
    BY <1>5, PristineKept, RemovalTouches DEF OldRemoved
  <2>2. Shadow(old) \in Instances
    BY <1>5, OldMeans DEF OldRemoved
  <2> QED BY <1>5, <2>1, <2>2 DEF OldRemoved, Listed, Roll
<1>6. CASE BootShadow
  <2>1. /\ SingleReplica /\ Shadow(old) \in Instances /\ old \in Instances
        /\ Shadow(old) # old /\ reload = "cleared" /\ reload' = "shadow" /\ old' = old
        /\ old # NoInstance
        /\ replicas' = replicas \ {old}
        /\ Shadow(old)[1] = old[1] /\ Shadow(old)[2] = old[2] + 1
    BY <1>6, OldMeans DEF BootShadow, Stepping
  <2>2. \A j \in Instances : Pristine(j) /\ j # Shadow(old) => Pristine(j)'
    BY <1>0, <1>6, <2>1, PristineKept DEF BootShadow, SetTask, TypeOK
  <2>3. task'[Shadow(old)] = "booting" /\ ~retired'[Shadow(old)]
    BY <1>0, <1>6, <2>1 DEF BootShadow, SetTask, Listed, Pristine, TypeOK
  <2>4. Shadow(old) \in replicas' /\ old \notin replicas'
    BY <2>1 DEF Listed, Roll
  <2>5. ASSUME NEW j \in replicas', NEW k \in Instances, j[1] = k[1], j[2] < k[2]
        PROVE  Pristine(k)'
    <3>1. k # Shadow(old)
      BY <2>1, <2>4, <2>5, InstanceMeans, RunnerAssumption DEF Listed
    <3> QED BY <2>1, <2>2, <2>5, <3>1 DEF Listed
  <2> QED BY <2>1, <2>3, <2>4, <2>5 DEF Listed, Roll, InFlight
<1>7. CASE Swap
  <2>1. /\ \A j \in Instances : Pristine(j) => Pristine(j)'
        /\ task' = task
    <3>1. old \in Instances /\ old \in replicas /\ old # Shadow(old)
      BY <1>7, OldMeans DEF Swap, Listed
    <3>2. ~Pristine(old)
      BY <1>7, <3>1, ListedBegun DEF Swap
    <3> QED BY <1>0, <1>7, <3>1, <3>2, PristineKept DEF Swap, Unregister, TypeOK
  <2> QED BY <1>7, <2>1 DEF Swap, Listed, Roll
<1>8. CASE DrainEnds
  BY <1>8, PristineKept DEF DrainEnds, Listed, Roll
<1>9. CASE RollEnds
  <2> DEFINE n == Shadow(old)
  <2>1. /\ old \in Instances /\ n \in Instances /\ n # old
        /\ reload = "retired" /\ reload' = "next" /\ old' = NoInstance
        /\ replicas' = replicas \ {old} /\ n \in replicas
    BY <1>9, OldMeans DEF RollEnds, NextReplica, Listed, Roll
  <2>2. \A j \in Instances : Pristine(j) /\ j # n => Pristine(j)'
    BY <1>0, <1>9, WatchTouches, PristineKept DEF RollEnds
  <2>3. \A j \in replicas' : \A k \in Instances : j[1] = k[1] /\ j[2] < k[2] => k # n
    BY <1>9, <2>1, OldMeans, InstanceMeans, RunnerAssumption DEF Listed
  <2> QED BY <2>1, <2>2, <2>3 DEF Listed, Roll
<1>10. CASE DiscardShadow
  <2> PICK n \in Instances : n = Shadow(old)
    BY <1>10, OldMeans DEF DiscardShadow
  <2>1. /\ old \in Instances
        /\ reload = "discarding" /\ reload' = "next" /\ old' = NoInstance
        /\ replicas' = replicas /\ n \notin replicas
    BY <1>10, OldMeans DEF DiscardShadow, NextReplica, Listed
  <2>2. \A j \in Instances : Pristine(j) => Pristine(j)'
    BY <1>10, RemovalTouches, PristineKept DEF DiscardShadow
  <2>3. Pristine(n)'
    <3>1. task[n] = "none" /\ routes[n] = NoContainer /\ ~retired[n]
      BY <2>1, OldMeans DEF Inv3, Dropped, Listed, Roll
    <3>2. container'[n] = NoContainer
      BY <1>0, <1>10, <2>1 DEF DiscardShadow, DockerRemoves, TypeOK
    <3> QED BY <1>10, <3>1, <3>2 DEF DiscardShadow, Pristine
  <2> QED BY <2>1, <2>2, <2>3 DEF Listed, Roll
<1>11. CASE SourceCopied \/ SoftStop \/ SoftStart
  BY <1>11, PristineKept DEF SourceCopied, SoftStop, SoftStart, Listed, Roll
<1>12. CASE SoftProbeEnds \/ SoftPublish \/ SoftFails
  <2>1. /\ old \in Instances /\ reload \in Soft
        /\ old' \in {old, NoInstance} /\ reload' \in {"publishing", "next"}
        /\ reload' = "next" => old' = NoInstance
        /\ reload' = "publishing" => old' = old
        /\ replicas' = replicas
    BY <1>12, OldMeans DEF SoftProbeEnds, SoftPublish, SoftFails, SoftReloadEnds, NextReplica,
       softFrame, Soft
  <2>2. old \in replicas
    BY <2>1, OldMeans DEF Listed, Soft
  <2>3. \A j \in Instances : Pristine(j) => j # old
    BY <2>1, <2>2, OldMeans, ListedBegun DEF Soft
  <2>4. \A j \in Instances : Pristine(j) => Pristine(j)'
    BY <1>0, <1>12, <2>1, <2>3, PristineKept DEF SoftProbeEnds, SoftPublish, SoftFails,
       softFrame, TypeOK
  <2> QED BY <2>1, <2>2, <2>4 DEF Listed, Roll, Soft
<1> QED
  BY <1>1, <1>2, <1>3, <1>4, <1>5, <1>6, <1>7, <1>8, <1>9, <1>10, <1>11, <1>12
  DEF ReloadStep

LEMMA NextListed ==
  ASSUME RunnerInv, Next
  PROVE  Listed'
<1> USE DEF RunnerInv, Inv1, instVars, reloadVars
<1>0. TypeOK
  OBVIOUS
<1>1. CASE BeginShutdown
  <2>1. reload = "idle" /\ old = NoInstance
    BY <1>1 DEF BeginShutdown, Stepping
  <2>2. \A j \in Instances \ replicas : Pristine(j) => Pristine(j)'
    BY <1>0, <1>1, PristineKept DEF BeginShutdown, TypeOK
  <2>3. \A i \in replicas : \A j \in Instances :
          i[1] = j[1] /\ i[2] < j[2] => j \notin replicas
    BY <1>0, <2>1, InstanceMeans, RunnerAssumption DEF Listed, TypeOK
  <2> QED BY <1>0, <1>1, <2>1, <2>2, <2>3, InstanceMeans DEF BeginShutdown, Listed, TypeOK
<1>2. CASE TakeDown
  BY <1>0, <1>2, PristineKept, ListedKept DEF TakeDown, TypeOK
<1>3. ASSUME NEW c \in Containers, RemoveOne(c) PROVE Listed'
  BY <1>3, PristineKept, RemovalTouches, ListedKept DEF RemoveOne
<1>4. CASE Exit \/ Signal
  BY <1>4, PristineKept, ListedKept DEF Exit, Signal
<1>5. CASE SourceChanged
  BY <1>5, PristineKept DEF SourceChanged, Listed, Stepping, Roll
<1>6. ASSUME NEW c \in Containers, Crash(c) PROVE Listed'
  BY <1>6, PristineKept, ListedKept DEF Crash
<1> QED
  BY <1>1, <1>2, <1>3, <1>4, <1>5, <1>6, BootListed, WatcherListed, ReloadListed
  DEF Next, CleanupStep

-----------------------------------------------------------------------------
(* The boot loop *)

LEMMA LoopingKept ==
  ASSUME RunnerInv, UNCHANGED <<replicas, boot, reloads, task>>,
         boot # "up" => UNCHANGED retired,
         \A j \in Instances : Pristine(j) => Pristine(j)'
  PROVE  Looping'
  BY DEF RunnerInv, Inv1, Looping

LEMMA LoopOver ==
  ASSUME boot' = "up"
  PROVE  Looping'
  BY DEF Looping

LEMMA BootLooping ==
  ASSUME RunnerInv, NEW i \in Instances, BootStep(i)
  PROVE  Looping'
<1> USE DEF RunnerInv, Inv1
<1>0. TypeOK
  OBVIOUS
<1>1. task[i] \in InFlight /\ boot # "failed"
  BY DEF BootStep, ContainerStarts, ProbeEnds, Publishes, SingleRollProbeEnds, BootFails,
     InFlight, Looping
<1>2. CASE boot = "up"
  <2>1. boot' = "up"
    BY <1>2 DEF BootStep, ContainerStarts, ProbeEnds, Publishes, SingleRollProbeEnds,
       BootFails, BootSettles, LoopContinues, RollContinues, RestartContinues, Bare,
       emuVars
  <2> QED BY <2>1, LoopOver
<1>3. CASE boot = "booting"
  <2>1. PICK m \in Slots : /\ replicas = {j \in Instances : j[1] <= m /\ j[2] = 0}
                           /\ task[<<m, 0>>] \in {"booting", "publishing"}
                           /\ \A j \in Instances \ {<<m, 0>>} : task[j] = "none"
    BY <1>3 DEF Looping
  <2>2. /\ i = <<m, 0>> /\ i[1] = m /\ i[2] = 0 /\ i \in replicas
        /\ task[i] \in {"booting", "publishing"} /\ m \in Nat
    <3>1. i = <<m, 0>>
      BY <1>1, <2>1 DEF InFlight
    <3>2. i[1] = m /\ i[2] = 0 /\ m \in Nat
      BY <3>1, InstanceMeans, SlotsMeans, RunnerAssumption
    <3> QED BY <2>1, <3>1, <3>2
  <2>3. Bare(i) /\ ~Rolled(i) /\ ~Restarted(i)
    BY <1>3, <2>2 DEF Bare, Rolled, Restarted, Stepping
  <2>4. /\ \A j \in Instances : ~retired[j]
        /\ \A j \in Instances \ replicas : Pristine(j)
        /\ reloads = 0
    BY <1>3 DEF Looping
  <2>5. /\ UNCHANGED <<retired, reloads>>
        /\ \A j \in Instances \ {i} : container'[j] = container[j] /\ routes'[j] = routes[j]
    BY <1>0, <2>3 DEF BootStep, ContainerStarts, ProbeEnds, Publishes, SingleRollProbeEnds,
       BootFails, reloadVars, settleFrame, TypeOK
  <2>6. CASE LoopContinues(i) /\ i[1] + 1 \in Slots
    <3>0. /\ <<i[1] + 1, 0>> \in Instances
          /\ <<i[1] + 1, 0>>[1] = i[1] + 1 /\ <<i[1] + 1, 0>>[2] = 0
      BY <2>6, InstanceMeans, RunnerAssumption
    <3> PICK n \in Instances : n = <<i[1] + 1, 0>> /\ n[1] = i[1] + 1 /\ n[2] = 0
      BY <3>0
    <3>1. /\ replicas' = replicas \union {n} /\ boot' = boot
          /\ task' = [task EXCEPT ![i] = "none", ![n] = "booting"]
      BY <2>6 DEF LoopContinues
    <3>2. n # i /\ n \notin replicas
      BY <2>1, <2>2
    <3>3. replicas' = {j \in Instances : j[1] <= m + 1 /\ j[2] = 0}
      <4>1. ASSUME NEW j \in Instances, j[1] <= m + 1, j[2] = 0, ~ (j[1] <= m)
            PROVE  j = n
        <5>1. j[1] \in Nat
          BY InstanceMeans, SlotsMeans
        <5>2. j[1] = m + 1
          BY <2>2, <4>1, <5>1
        <5> QED BY <2>2, <4>1, <5>2, InstanceMeans
      <4>2. \A j \in Instances : j[1] \in Nat
        BY InstanceMeans, SlotsMeans
      <4> QED BY <2>1, <2>2, <3>1, <4>1, <4>2
    <3>4. /\ task'[n] = "booting"
          /\ \A j \in Instances \ {n} : task'[j] = "none"
      BY <1>0, <2>1, <2>2, <3>1, <3>2 DEF TypeOK
    <3>5. \A j \in Instances \ replicas' : Pristine(j)'
      BY <2>2, <2>4, <2>5, <3>1, <3>4 DEF Pristine
    <3>6. n = <<m + 1, 0>> /\ m + 1 \in Slots
      BY <2>2, <2>6
    <3> QED BY <1>3, <2>4, <2>5, <3>1, <3>3, <3>4, <3>5, <3>6 DEF Looping
  <2>7. CASE LoopContinues(i) /\ i[1] + 1 \notin Slots
    BY <2>7, LoopOver DEF LoopContinues
  <2>8. ASSUME NEW c \in Containers, ContainerStarts(i, c) PROVE Looping'
    <3>1. /\ UNCHANGED <<replicas, boot>>
          /\ task' = [task EXCEPT ![i] = "publishing"]
      BY <2>3, <2>8 DEF ContainerStarts, SetTask, emuVars
    <3>2. \A j \in Instances \ replicas' : Pristine(j)'
      BY <2>2, <2>4, <2>5, <3>1, <1>0 DEF Pristine, TypeOK
    <3> QED BY <1>0, <1>3, <2>1, <2>2, <2>4, <2>5, <3>1, <3>2 DEF Looping, TypeOK
  <2>9. CASE BootFails(i)
    <3>1. /\ UNCHANGED replicas /\ boot' = "failed"
          /\ task' = [task EXCEPT ![i] = "none"]
      BY <2>3, <2>9 DEF BootFails, SetTask
    <3>2. \A j \in Instances \ replicas' : Pristine(j)'
      BY <2>2, <2>4, <2>5, <3>1, <1>0 DEF Pristine, TypeOK
    <3> QED BY <1>0, <1>3, <2>1, <2>2, <2>4, <2>5, <3>1, <3>2 DEF Looping, TypeOK
  <2> QED
    BY <2>2, <2>3, <2>6, <2>7, <2>8, <2>9
    DEF BootStep, ProbeEnds, Publishes, SingleRollProbeEnds, BootSettles
<1> QED BY <1>0, <1>1, <1>2, <1>3 DEF TypeOK

LEMMA NextLooping ==
  ASSUME RunnerInv, Next
  PROVE  Looping'
<1> USE DEF RunnerInv, Inv1, instVars, reloadVars
<1>0. TypeOK
  OBVIOUS
<1>1. ASSUME NEW i \in Instances, WatcherStep(i) PROVE Looping'
  <2>1. task[i] \notin {"none", "booting", "publishing"}
    BY <1>1 DEF WatcherStep, SleepEnds, ExitSeen, DeferEnds, Degrade, BackoffEnds, Reboot
  <2>2. boot = "up"
    BY <1>0, <2>1 DEF Looping, TypeOK
  <2>3. boot' = boot
    BY <1>1 DEF WatcherStep, SleepEnds, ExitSeen, DeferEnds, Degrade, BackoffEnds, Reboot,
       emuVars
  <2> QED BY <2>2, <2>3, LoopOver
<1>2. CASE ReloadStep
  <2>1. boot = "up"
    BY <1>2 DEF Stepping, ReloadStep, ReloadEnds, SkipReplica, BeginRoll, BeginSoftReload,
       OldRemoved, BootShadow, Swap, DrainEnds, RollEnds, DiscardShadow, SourceCopied,
       SoftStop, SoftStart, SoftProbeEnds, SoftPublish, SoftFails
  <2>2. boot' = boot
    BY <1>2 DEF ReloadStep, ReloadEnds, SkipReplica, BeginRoll, BeginSoftReload,
       OldRemoved, BootShadow, Swap, DrainEnds, RollEnds, DiscardShadow, SourceCopied,
       SoftStop, SoftStart, SoftProbeEnds, SoftPublish, SoftFails, softFrame, emuVars
  <2> QED BY <2>1, <2>2, LoopOver
<1>3. CASE BeginShutdown
  <2>1. CASE boot = "up"
    BY <1>3, <2>1, LoopOver DEF BeginShutdown
  <2>2. CASE boot # "up"
    BY <1>3, <2>2, PristineKept, LoopingKept DEF BeginShutdown
  <2> QED BY <2>1, <2>2
<1>4. CASE TakeDown
  BY <1>0, <1>4, PristineKept, LoopingKept DEF TakeDown, TypeOK
<1>5. ASSUME NEW c \in Containers, RemoveOne(c) PROVE Looping'
  BY <1>5, PristineKept, RemovalTouches, LoopingKept DEF RemoveOne
<1>6. CASE Exit \/ Signal
  BY <1>6, PristineKept, LoopingKept DEF Exit, Signal
<1>7. CASE SourceChanged
  BY <1>7, LoopOver DEF SourceChanged, emuVars
<1>8. ASSUME NEW c \in Containers, Crash(c) PROVE Looping'
  BY <1>8, PristineKept, LoopingKept DEF Crash, emuVars
<1> QED
  BY <1>1, <1>2, <1>3, <1>4, <1>5, <1>6, <1>7, <1>8, BootLooping DEF Next, CleanupStep

-----------------------------------------------------------------------------
(* What has been told to stop *)

LEMMA OutsideUnawaited ==
  ASSUME RunnerInv, NEW i \in Instances, i \notin replicas, task[i] \in Rebooting
  PROVE  i \in unawaited
  BY DEF RunnerInv, Inv2, Told, Departed, Rebooting, InFlight

(* A step of the chain of i. *)
LEMMA ToldKept ==
  ASSUME Told, replicas \subseteq Instances, NEW i \in Instances,
         \A j \in Instances \ {i} : task'[j] = task[j] /\ retired'[j] = retired[j],
         unawaited \subseteq unawaited',
         \/ awaited' = awaited \ {i}
         \/ awaited' = awaited /\ (i \in awaited => task'[i] \in InFlight),
         \A j \in awaited' : j \in replicas',
         emulator' = "settling" <=> emulator = "settling",
         retired'[i] /\ task'[i] \in Rebooting => i \in unawaited' \union awaited'
  PROVE  Told'
  BY DEF Told

LEMMA DepartedKept ==
  ASSUME Departed, UNCHANGED <<replicas, reload, old>>, unawaited \subseteq unawaited',
         \A j \in Instances \ replicas :
           j \in unawaited \/ /\ retired[j] => retired'[j]
                              /\ task[j] = "none" => task'[j] = "none"
                              /\ container'[j] \in {container[j], NoContainer},
         reload \notin {"idle", "next"} => (retired[old] => retired'[old])
  PROVE  Departed'
  BY DEF Departed

LEMMA SettleStopped ==
  ASSUME RunnerInv, NEW i \in Instances, task[i] \in InFlight, BootSettles(i),
         UNCHANGED settleFrame
  PROVE  Told' /\ Departed'
<1> USE DEF RunnerInv, Inv1, Inv2
<1>0. TypeOK /\ Told /\ Departed
  OBVIOUS
<1>1. /\ task[i] # "none" /\ task[i] \in Rebooting
      /\ i \in replicas \/ i \in unawaited
  BY OutsideUnawaited DEF InFlight, Rebooting
<1>2. UNCHANGED <<retired, container, unawaited, emulator>>
  BY DEF settleFrame
<1>3. CASE Bare(i) /\ LoopContinues(i)
  <2>1. PICK m \in Slots : \A j \in Instances \ {<<m, 0>>} : task[j] = "none"
    BY <1>3 DEF Looping, Bare
  <2>2. \A j \in Instances \ {i} : task[j] = "none"
    BY <1>1, <2>1
  <2>3. /\ \A j \in Instances : ~retired[j] /\ ~retired'[j]
        /\ awaited' = awaited \ {i} /\ reload = "idle" /\ reload' = "idle"
    BY <1>2, <1>3 DEF LoopContinues, Looping, Bare, Stepping
  <2>4. awaited' = {}
    <3>1. \A j \in awaited : j \in Instances /\ task[j] # "none"
      BY <1>0 DEF Told, InFlight, TypeOK
    <3> QED BY <2>2, <2>3, <3>1
  <2>5. Told'
    BY <2>3, <2>4 DEF Told
  <2>6. ASSUME NEW j \in Instances, j \notin replicas', j \notin unawaited
        PROVE  j \notin replicas /\ task'[j] = "none"
    <3>1. CASE i[1] + 1 \in Slots
      BY <1>0, <1>1, <1>3, <2>2, <2>6, <3>1 DEF LoopContinues, TypeOK
    <3>2. CASE i[1] + 1 \notin Slots
      BY <1>0, <1>1, <1>3, <2>2, <2>6, <3>2, WatchTouches DEF LoopContinues
    <3> QED BY <3>1, <3>2
  <2>7. \A j \in Instances : j \notin replicas /\ j \notin unawaited => container[j] = NoContainer
    BY <1>0, <2>3 DEF Departed
  <2> QED BY <1>2, <2>3, <2>5, <2>6, <2>7 DEF Departed
<1>4. CASE Rolled(i) /\ RollContinues(i)
  <2>1. /\ task'[i] \notin Rebooting
        /\ \A j \in Instances \ {i} : task'[j] = task[j]
    BY <1>0, <1>4, WatchTouches DEF RollContinues, SetTask, TypeOK, Rebooting, InFlight
  <2>2. reload = "shadow" /\ i = Shadow(old) /\ i \in replicas
    BY <1>4, OldMeans DEF Rolled, Listed, Roll
  <2>3. reload' \in {"next", "swap"} /\ replicas' = replicas /\ awaited' = awaited \ {i}
    BY <1>4 DEF RollContinues, NextReplica
  <2>4. Told'
    <3>1. \A j \in awaited' : j \in replicas'
      BY <1>0, <2>3 DEF Told
    <3> QED BY <1>0, <1>2, <2>1, <2>3, <3>1, ToldKept DEF TypeOK
  <2>5. Departed'
    BY <1>0, <1>2, <2>1, <2>2, <2>3 DEF Departed
  <2> QED BY <2>4, <2>5
<1>5. CASE Restarted(i) /\ RestartContinues(i)
  <2>1. /\ task'[i] \notin Rebooting
        /\ \A j \in Instances \ {i} : task'[j] = task[j]
    BY <1>0, <1>5, WatchTouches DEF RestartContinues, Rebooting, InFlight
  <2>2. UNCHANGED <<replicas, reload, old>> /\ awaited' = awaited \ {i}
    BY <1>5 DEF RestartContinues
  <2>3. Told'
    <3>1. \A j \in awaited' : j \in replicas'
      BY <1>0, <2>2 DEF Told
    <3> QED BY <1>0, <1>2, <2>1, <2>2, <3>1, ToldKept DEF TypeOK
  <2>4. Departed'
    BY <1>0, <1>1, <1>2, <2>1, <2>2, DepartedKept
  <2> QED BY <2>3, <2>4
<1> QED BY <1>3, <1>4, <1>5 DEF BootSettles

LEMMA BootStopped ==
  ASSUME RunnerInv, NEW i \in Instances, BootStep(i)
  PROVE  Told' /\ Departed'
<1> USE DEF RunnerInv, Inv1, Inv2
<1>0. TypeOK /\ Told /\ Departed
  OBVIOUS
<1>1. /\ task[i] \in InFlight /\ task[i] # "none" /\ task[i] \in Rebooting
      /\ i \in replicas \/ i \in unawaited
  BY OutsideUnawaited
  DEF BootStep, ContainerStarts, ProbeEnds, Publishes, SingleRollProbeEnds, BootFails,
      InFlight, Rebooting
<1>2. ASSUME NEW t \in InFlight, task' = [task EXCEPT ![i] = t],
             \A j \in Instances \ {i} : container'[j] = container[j],
             UNCHANGED <<retired, replicas, reload, old, emulator, awaited, unawaited>>
      PROVE  Told' /\ Departed'
  <2>1. task'[i] = t /\ \A j \in Instances \ {i} : task'[j] = task[j]
    BY <1>0, <1>2 DEF TypeOK
  <2>2. Told'
    <3>1. \A j \in awaited' : j \in replicas'
      BY <1>0, <1>2 DEF Told
    <3>2. retired[i] => i \in unawaited \union awaited
      BY <1>0, <1>1 DEF Told
    <3> QED BY <1>0, <1>2, <2>1, <3>1, <3>2, ToldKept DEF TypeOK
  <2>3. Departed'
    BY <1>0, <1>1, <1>2, <2>1, DepartedKept
  <2> QED BY <2>2, <2>3
<1>3. ASSUME NEW c \in Containers, ContainerStarts(i, c) PROVE Told' /\ Departed'
  BY <1>0, <1>2, <1>3
  DEF ContainerStarts, SetTask, reloadVars, emuVars, histVars, InFlight, TypeOK
<1>4. CASE ProbeEnds(i) \/ Publishes(i) \/ SingleRollProbeEnds(i)
  BY <1>1, <1>2, <1>4, SettleStopped
  DEF ProbeEnds, Publishes, SingleRollProbeEnds, SetTask, settleFrame, InFlight
<1>5. CASE BootFails(i)
  <2>1. /\ \A j \in Instances \ {i} : task'[j] = task[j] /\ retired'[j] = retired[j]
        /\ task'[i] \in {"none", "stopped"} /\ task'[i] \notin Rebooting
        /\ awaited' = awaited \ {i}
        /\ UNCHANGED <<container, unawaited, old>>
    BY <1>0, <1>5 DEF BootFails, SetTask, TypeOK, Rebooting, InFlight
  <2>2. emulator' = "settling" <=> emulator = "settling"
    BY <1>5 DEF BootFails
  <2>3. \A j \in awaited' : j \in replicas'
    BY <1>0, <1>5, <2>1 DEF BootFails, Told
  <2>4. Told'
    BY <1>0, <2>1, <2>2, <2>3, ToldKept DEF TypeOK
  <2>5. CASE Rolled(i)
    <3>1. reload = "shadow" /\ i = Shadow(old) /\ i \in replicas /\ ~Bare(i) /\ ~Restarted(i)
      BY <2>5, OldMeans DEF Rolled, Listed, Roll, Bare, Restarted, Stepping
    <3>2. /\ replicas' = replicas \ {i} /\ task'[i] = "none" /\ reload' = "discarding"
          /\ retired' = retired
      BY <1>0, <1>5, <3>1 DEF BootFails, SetTask, TypeOK
    <3>3. Departed'
      BY <1>0, <2>1, <3>1, <3>2 DEF Departed
    <3> QED BY <2>4, <3>3
  <2>6. CASE ~Rolled(i)
    <3>1. UNCHANGED <<replicas, reload>>
      BY <1>5, <2>6 DEF BootFails
    <3>2. retired[i] => retired'[i]
      BY <1>0, <1>5 DEF BootFails, TypeOK
    <3>3. reload \notin {"idle", "next"} => (retired[old] => retired'[old])
      BY <2>1, <3>2, OldMeans
    <3> QED BY <1>0, <1>1, <2>1, <2>4, <3>1, <3>3, DepartedKept
  <2> QED BY <2>5, <2>6
<1> QED BY <1>3, <1>4, <1>5 DEF BootStep

LEMMA WatcherStopped ==
  ASSUME RunnerInv, NEW i \in Instances, WatcherStep(i)
  PROVE  Told' /\ Departed'
<1> USE DEF RunnerInv, Inv1, Inv2, softVars, reloadVars, emuVars, histVars
<1>0. TypeOK /\ Told /\ Departed
  OBVIOUS
<1>1. /\ UNCHANGED <<replicas, reload, old, emulator, awaited, unawaited>>
      /\ task[i] \notin {"none"} \union InFlight /\ i \notin awaited
  BY <1>0 DEF Told, WatcherStep, SleepEnds, ExitSeen, DeferEnds, Degrade, BackoffEnds,
     Reboot, InFlight
<1>2. /\ \A j \in Instances \ {i} : task'[j] = task[j] /\ retired'[j] = retired[j]
      /\ \A j \in Instances : container'[j] \in {container[j], NoContainer}
      /\ retired[i] => retired'[i]
  BY <1>0, WatchTouches, RemovalTouches DEF WatcherStep, SleepEnds, ExitSeen, DeferEnds,
     Degrade, BackoffEnds, Reboot, ClearState, SetTask, TypeOK
<1>3. retired'[i] /\ task'[i] \in Rebooting => i \in unawaited
  <2>1. CASE SleepEnds(i) \/ DeferEnds(i)
    BY <1>0, <2>1, WatchTouches DEF SleepEnds, DeferEnds, Rebooting, InFlight
  <2>2. CASE ExitSeen(i) \/ Degrade(i)
    BY <1>0, <2>2 DEF ExitSeen, Degrade, SetTask, Rebooting, InFlight, TypeOK
  <2>3. CASE BackoffEnds(i)
    BY <1>0, <2>3 DEF BackoffEnds, Stopping, SetTask, Rebooting, InFlight, TypeOK
  <2>4. CASE Reboot(i)
    BY <1>0, <1>1, <2>4 DEF Reboot, Told, Rebooting
  <2> QED BY <2>1, <2>2, <2>3, <2>4 DEF WatcherStep
<1>4. reload \notin {"idle", "next"} => (retired[old] => retired'[old])
  BY <1>2, OldMeans
<1>5. Told'
  <2>1. \A j \in awaited' : j \in replicas'
    BY <1>0, <1>1 DEF Told
  <2> QED BY <1>0, <1>1, <1>2, <1>3, <2>1, ToldKept DEF TypeOK
<1>6. Departed'
  BY <1>0, <1>1, <1>2, <1>4, DepartedKept
<1> QED BY <1>5, <1>6

(* A step of the reload: nothing is shut down meanwhile. *)
LEMMA ReloadAlone ==
  ASSUME RunnerInv, reload # "idle"
  PROVE  /\ boot = "up" /\ emulator \in {"running", "signalled"}
         /\ awaited = {} /\ cleaning = {} /\ ~shuttingDown
         /\ \A i \in Instances : Stopping(i) => retired[i]
  BY DEF RunnerInv, Inv1, Inv2, Stepping, Told, Closing, Stopping

(* The replica that is replaced. *)
LEMMA OldListed ==
  ASSUME RunnerInv, reload \notin {"idle", "next"}
  PROVE  /\ reload \notin {"shadow", "discarding"} \/ ~SingleReplica => old \in replicas
         /\ reload \in Roll \ {"discarding"} => Shadow(old) \in replicas
         /\ reload \in Soft \union {"discarding"} => Shadow(old) \notin replicas
  BY OldMeans DEF RunnerInv, Inv1, Listed, Roll, Soft

LEMMA ReloadStopped ==
  ASSUME RunnerInv, ReloadStep
  PROVE  Told' /\ Departed'
<1> USE DEF RunnerInv, Inv1, Inv2, instVars, emuVars, histVars
<1>0. TypeOK /\ Told /\ Departed
  OBVIOUS
<1>a. /\ reload # "idle"
      /\ awaited' = awaited /\ emulator' = emulator
      /\ emulator # "settling" /\ awaited = {}
  BY ReloadAlone DEF ReloadStep, ReloadEnds, SkipReplica, BeginRoll, BeginSoftReload,
     OldRemoved, BootShadow, Swap, DrainEnds, RollEnds, DiscardShadow, SourceCopied,
     SoftStop, SoftStart, SoftProbeEnds, SoftPublish, SoftFails, softFrame
<1>b. ASSUME UNCHANGED <<task, retired, unawaited>> PROVE Told'
  BY <1>0, <1>a, <1>b DEF Told
<1>c. ASSUME UNCHANGED <<task, retired, unawaited, replicas, reload, old>>,
             \A j \in Instances : container'[j] \in {container[j], NoContainer}
      PROVE  Departed'
  BY <1>0, <1>c DEF Departed
<1>1. ASSUME NEW i \in Instances, SkipReplica(i) PROVE Told' /\ Departed'
  BY <1>1, <1>b, <1>c DEF SkipReplica
<1>2. ASSUME NEW i \in Instances, BeginSoftReload(i) PROVE Told' /\ Departed'
  BY <1>0, <1>2, <1>b DEF BeginSoftReload, Departed
<1>3. ASSUME NEW i \in Instances, BeginRoll(i) PROVE Told' /\ Departed'
  <2>1. i[2] < MaxReloads /\ i \in replicas /\ old = NoInstance
    BY <1>0, <1>3, InstanceMeans, RunnerAssumption DEF BeginRoll, Counted, Stepping, TypeOK
  <2> PICK n \in Instances : n = Shadow(i) /\ n # i /\ n[1] = i[1] /\ i[2] < n[2]
    BY <2>1, ShadowMeans, InstanceMeans, RunnerAssumption
  <2>2. Pristine(n)
    BY <2>1, InstanceMeans DEF Listed
  <2>3. CASE TeardownOldFirst
    <3>1. /\ task' = task /\ retired' = [retired EXCEPT ![i] = TRUE]
          /\ replicas' = replicas \union {n} /\ container' = container
          /\ reload' = "clearing" /\ old' = i
          /\ unawaited \subseteq unawaited'
          /\ task[i] \in Rebooting => i \in unawaited'
      BY <1>3, <2>3 DEF BeginRoll, TornDown
    <3>2. Told'
      BY <1>0, <1>a, <3>1 DEF Told, TypeOK
    <3>3. Departed'
      BY <1>0, <1>3, <3>1 DEF Departed, BeginRoll, TypeOK
    <3> QED BY <3>2, <3>3
  <2>4. CASE ~TeardownOldFirst
    <3>1. /\ task' = [task EXCEPT ![n] = "booting"]
          /\ UNCHANGED <<retired, unawaited, container>>
          /\ replicas' = replicas \union {n}
          /\ reload' = "shadow"
      BY <1>3, <2>4 DEF BeginRoll, SetTask
    <3>2. Told'
      BY <1>0, <1>a, <2>2, <3>1 DEF Told, Pristine, TypeOK
    <3>3. Departed'
      BY <1>0, <1>3, <3>1 DEF Departed, BeginRoll, TypeOK
    <3> QED BY <3>2, <3>3
  <2> QED BY <2>3, <2>4
<1>4. CASE ReloadEnds \/ DrainEnds
  BY <1>0, <1>4, <1>b DEF ReloadEnds, DrainEnds, Departed
<1>5. CASE OldRemoved
  BY <1>0, <1>5, <1>b, RemovalTouches DEF OldRemoved, Departed
<1>6. CASE BootShadow
  <2> PICK n \in Instances : n = Shadow(old) /\ n # old
    BY <1>6, OldMeans DEF BootShadow
  <2>1. /\ task' = [task EXCEPT ![n] = "booting"] /\ Pristine(n)
        /\ UNCHANGED <<retired, unawaited, container>>
        /\ replicas' = replicas \ {old} /\ reload = "cleared" /\ reload' = "shadow"
        /\ n \in replicas
    BY <1>6, OldListed DEF BootShadow, SetTask, Listed, Roll
  <2>2. retired[old] /\ (container[old] = NoContainer \/ old \in unawaited)
    BY <2>1 DEF Departed, Targeted
  <2>3. Told'
    BY <1>0, <1>a, <2>1 DEF Told, Pristine, TypeOK
  <2>4. Departed'
    BY <1>0, <2>1, <2>2 DEF Departed, TypeOK
  <2> QED BY <2>3, <2>4
<1>7. CASE Swap
  <2>1. /\ UNCHANGED <<replicas, task, container>>
        /\ retired' = [retired EXCEPT ![old] = TRUE] /\ old \in Instances
        /\ unawaited \subseteq unawaited'
        /\ task[old] \in Rebooting => old \in unawaited'
        /\ reload = "swap" /\ reload' = "draining" /\ old' = old
    BY <1>7, OldMeans DEF Swap, TornDown
  <2>2. Told'
    BY <1>0, <1>a, <2>1 DEF Told, TypeOK
  <2>3. Departed'
    BY <1>0, <2>1 DEF Departed, TypeOK
  <2> QED BY <2>2, <2>3
<1>8. CASE RollEnds
  <2> PICK n \in Instances : n = Shadow(old) /\ n # old
    BY <1>8, OldMeans DEF RollEnds
  <2>1. /\ \A j \in Instances \ {n} : task'[j] = task[j]
        /\ task'[n] \notin Rebooting
        /\ UNCHANGED <<retired, container, unawaited>>
        /\ replicas' = replicas \ {old} /\ reload = "retired" /\ reload' = "next"
        /\ n \in replicas
    BY <1>0, <1>8, WatchTouches, OldListed
    DEF RollEnds, NextReplica, Rebooting, InFlight, Roll
  <2>2. retired[old] /\ (container[old] = NoContainer \/ old \in unawaited)
    BY <2>1 DEF Departed, Targeted
  <2>3. Told'
    BY <1>0, <1>a, <2>1 DEF Told
  <2>4. Departed'
    BY <1>0, <2>1, <2>2 DEF Departed, TypeOK
  <2> QED BY <2>3, <2>4
<1>9. CASE DiscardShadow
  <2>1. /\ container'[Shadow(old)] = NoContainer
        /\ \A j \in Instances : container'[j] \in {container[j], NoContainer}
    BY <1>0, <1>9, RemovalTouches, OldMeans DEF DiscardShadow, DockerRemoves, TypeOK
  <2>2. Departed'
    BY <1>0, <1>9, <2>1 DEF DiscardShadow, NextReplica, Departed
  <2> QED BY <1>9, <1>b, <2>2 DEF DiscardShadow
<1>10. CASE SourceCopied \/ SoftStop \/ SoftStart
  BY <1>0, <1>10, <1>b DEF SourceCopied, SoftStop, SoftStart, Departed
<1>11. CASE SoftProbeEnds \/ SoftPublish \/ SoftFails
  <2>1. /\ UNCHANGED <<task, retired, unawaited, replicas, container>>
        /\ reload \in Soft /\ reload' \in {"publishing", "next"}
    BY <1>11 DEF SoftProbeEnds, SoftPublish, SoftFails, SoftReloadEnds, NextReplica,
       softFrame, Soft
  <2> QED BY <1>0, <1>b, <2>1 DEF Departed, Soft
<1> QED
  BY <1>1, <1>2, <1>3, <1>4, <1>5, <1>6, <1>7, <1>8, <1>9, <1>10, <1>11 DEF ReloadStep

LEMMA NextStopped ==
  ASSUME RunnerInv, Next
  PROVE  Told' /\ Departed'
<1> USE DEF RunnerInv, Inv1, Inv2, instVars, reloadVars, emuVars, histVars
<1>0. TypeOK /\ Told /\ Departed
  OBVIOUS
<1>1. CASE BeginShutdown
  <2>1. /\ reload = "idle" /\ reload' = "idle" /\ emulator' = "settling"
        /\ UNCHANGED <<replicas, task, container>>
        /\ awaited' = {j \in replicas : task[j] \in InFlight}
        /\ unawaited \subseteq unawaited'
    BY <1>0, <1>1 DEF BeginShutdown, InFlightBoots, TypeOK
  <2>2. \A j \in Instances : retired[j] => retired'[j]
    BY <1>0, <1>1 DEF BeginShutdown, TypeOK
  <2>3. \A j \in Instances :
          retired'[j] /\ task[j] \in Rebooting => j \in unawaited' \union awaited'
    <3>1. CASE boot = "up"
      <4>1. \A j \in Instances : retired'[j] => retired[j] \/ j \in replicas
        BY <1>1, <3>1 DEF BeginShutdown
      <4>2. \A j \in replicas : task[j] = "clearing" => j \in unawaited'
        BY <1>1, <3>1 DEF BeginShutdown
      <4>3. \A j \in Instances : j \notin replicas /\ task[j] \in Rebooting => j \in unawaited
        BY OutsideUnawaited
      <4> QED BY <2>1, <4>1, <4>2, <4>3 DEF Rebooting
    <3>2. CASE boot # "up"
      BY <1>1, <3>2 DEF BeginShutdown, Looping
    <3> QED BY <3>1, <3>2
  <2>4. Told'
    BY <2>1, <2>3 DEF Told
  <2>5. Departed'
    BY <1>0, <2>1, <2>2 DEF Departed
  <2> QED BY <2>4, <2>5
<1>2. CASE TakeDown \/ Exit \/ Signal
  BY <1>0, <1>2 DEF TakeDown, Exit, Signal, Told, Departed
<1>3. ASSUME NEW c \in Containers, RemoveOne(c) PROVE Told' /\ Departed'
  BY <1>0, <1>3, RemovalTouches DEF RemoveOne, Told, Departed
<1>4. CASE SourceChanged
  BY <1>0, <1>4 DEF SourceChanged, Told, Departed
<1>5. ASSUME NEW c \in Containers, Crash(c) PROVE Told' /\ Departed'
  BY <1>0, <1>5 DEF Crash, Told, Departed
<1> QED
  BY <1>1, <1>2, <1>3, <1>4, <1>5, BootStopped, WatcherStopped, ReloadStopped
  DEF Next, CleanupStep

-----------------------------------------------------------------------------
(* The shutdown *)

LEMMA ClosingKept ==
  ASSUME RunnerInv, UNCHANGED <<shuttingDown, boot, emulator, cleaning>>,
         \/ emulator \in {"running", "signalled"}
         \/ /\ unawaited' = unawaited /\ replicas' = replicas
            /\ \A i \in replicas : /\ retired[i] => retired'[i]
                                   /\ container'[i] \in {container[i], NoContainer}
  PROVE  Closing'
  BY DEF RunnerInv, Inv2, Closing

LEMMA BootClosing ==
  ASSUME RunnerInv, NEW i \in Instances, BootStep(i)
  PROVE  Closing'
<1> USE DEF RunnerInv, Inv1, Inv2
<1>0. TypeOK /\ Closing
  OBVIOUS
<1>1. UNCHANGED <<shuttingDown, cleaning, unawaited>>
  BY DEF BootStep, ContainerStarts, ProbeEnds, Publishes, SingleRollProbeEnds, BootFails,
     emuVars, histVars, settleFrame
<1>2. ASSUME NEW c \in Containers, ContainerStarts(i, c) PROVE Closing'
  <2>1. /\ UNCHANGED <<boot, emulator, replicas, retired>> /\ task[i] \in Rebooting
        /\ boot # "failed"
    BY <1>2 DEF ContainerStarts, emuVars, Rebooting, InFlight, Looping
  <2>2. \A j \in Instances \ {i} : container'[j] = container[j]
    BY <1>0, <1>2 DEF ContainerStarts, TypeOK
  <2>3. emulator \in {"cleaning", "exited"} => i \in unawaited \/ i \notin replicas
    BY <1>0, <2>1 DEF Closing, Told
  <2> QED BY <1>0, <1>1, <2>1, <2>2, <2>3 DEF Closing, TypeOK
<1>3. ASSUME task[i] # "none", BootSettles(i), UNCHANGED settleFrame PROVE Closing'
  <2>1. CASE Bare(i) /\ LoopContinues(i)
    <3>1. /\ boot = "booting" /\ emulator' = emulator /\ ~shuttingDown
          /\ emulator \in {"settling", "cleaning", "exited"} => unawaited = Instances
          /\ replicas' \subseteq Instances
      BY <1>0, <1>3, <2>1, SettleTypes DEF Bare, Closing, settleFrame
    <3> QED BY <1>0, <1>1, <3>1 DEF Closing
  <2>2. CASE ~ (Bare(i) /\ LoopContinues(i))
    <3>1. UNCHANGED <<boot, emulator, replicas, retired, container>>
      BY <1>3, <2>2 DEF BootSettles, RollContinues, RestartContinues, settleFrame
    <3> QED BY <1>1, <3>1, ClosingKept
  <2> QED BY <2>1, <2>2
<1>4. CASE ProbeEnds(i) \/ Publishes(i) \/ SingleRollProbeEnds(i)
  BY <1>3, <1>4, ClosingKept DEF ProbeEnds, Publishes, SingleRollProbeEnds, settleFrame
<1>5. CASE BootFails(i)
  <2>1. CASE Bare(i)
    <3>1. /\ boot = "booting" /\ replicas' = replicas /\ container' = container
          /\ reload = "idle" /\ boot' = "failed"
          /\ emulator' = IF emulator = "running" THEN "signalled" ELSE emulator
      BY <1>5, <2>1 DEF BootFails, Bare, Rolled, Restarted, Stepping
    <3> QED BY <1>0, <1>1, <3>1 DEF Closing
  <2>2. CASE Rolled(i)
    <3>1. /\ UNCHANGED <<boot, emulator>> /\ emulator \in {"running", "signalled"}
      BY <1>5, <2>2 DEF BootFails, Bare, Rolled, Restarted, Stepping
    <3> QED BY <1>1, <3>1, ClosingKept
  <2>3. CASE ~Bare(i) /\ ~Rolled(i)
    <3>1. /\ UNCHANGED <<boot, emulator, replicas, container>>
          /\ \A j \in Instances : retired[j] => retired'[j]
      BY <1>0, <1>5, <2>3 DEF BootFails, TypeOK
    <3> QED BY <1>0, <1>1, <3>1, ClosingKept DEF TypeOK
  <2> QED BY <2>1, <2>2, <2>3
<1> QED BY <1>2, <1>4, <1>5 DEF BootStep

LEMMA NextClosing ==
  ASSUME RunnerInv, Next
  PROVE  Closing'
<1> USE DEF RunnerInv, Inv1, Inv2, instVars, reloadVars, emuVars, histVars
<1>0. TypeOK /\ Closing
  OBVIOUS
<1>1. ASSUME NEW i \in Instances, WatcherStep(i) PROVE Closing'
  <2>1. /\ UNCHANGED <<shuttingDown, boot, emulator, cleaning, unawaited, replicas>>
        /\ \A j \in Instances : retired[j] => retired'[j]
        /\ \A j \in Instances : container'[j] \in {container[j], NoContainer}
    BY <1>0, <1>1, RemovalTouches DEF WatcherStep, SleepEnds, ExitSeen, DeferEnds, Degrade,
       BackoffEnds, Reboot, ClearState, TypeOK
  <2> QED BY <1>0, <2>1, ClosingKept DEF TypeOK
<1>2. CASE ReloadStep
  <2>1. UNCHANGED <<shuttingDown, boot, emulator, cleaning>> /\ reload # "idle"
    BY <1>2 DEF ReloadStep, ReloadEnds, SkipReplica, BeginRoll, BeginSoftReload,
       OldRemoved, BootShadow, Swap, DrainEnds, RollEnds, DiscardShadow, SourceCopied,
       SoftStop, SoftStart, SoftProbeEnds, SoftPublish, SoftFails, softFrame
  <2> QED BY <2>1, ReloadAlone, ClosingKept
<1>3. CASE BeginShutdown
  <2>1. /\ emulator' = "settling" /\ emulator = "signalled" /\ cleaning' = cleaning
        /\ boot' = boot /\ replicas' = replicas
    BY <1>3 DEF BeginShutdown
  <2>2. CASE boot = "up"
    <3>1. shuttingDown' = TRUE /\ \A i \in replicas : retired'[i]
      BY <1>0, <1>3, <2>2 DEF BeginShutdown, TypeOK
    <3> QED BY <1>0, <2>1, <2>2, <3>1 DEF Closing
  <2>3. CASE boot # "up"
    <3>1. shuttingDown' = shuttingDown /\ (boot = "failed" \/ unawaited' = Instances)
      BY <1>3, <2>3 DEF BeginShutdown
    <3> QED BY <1>0, <2>1, <2>3, <3>1 DEF Closing
  <2> QED BY <2>2, <2>3
<1>4. CASE TakeDown
  BY <1>0, <1>4 DEF TakeDown, Closing
<1>5. ASSUME NEW c \in Containers, RemoveOne(c) PROVE Closing'
  <2>1. \A i \in Instances : container'[i] = IF container[i] = c THEN NoContainer ELSE container[i]
    BY <1>5 DEF RemoveOne, DockerRemoves
  <2> QED BY <1>0, <1>5, <2>1 DEF RemoveOne, Closing, TypeOK
<1>6. CASE Exit \/ Signal
  BY <1>0, <1>6 DEF Exit, Signal, Closing
<1>7. CASE SourceChanged
  BY <1>7, ClosingKept DEF SourceChanged
<1>8. ASSUME NEW c \in Containers, Crash(c) PROVE Closing'
  BY <1>8, ClosingKept DEF Crash
<1> QED
  BY <1>1, <1>2, <1>3, <1>4, <1>5, <1>6, <1>7, <1>8, BootClosing DEF Next, CleanupStep

-----------------------------------------------------------------------------
(* The containers *)

LEMMA PairedKept ==
  ASSUME Paired, UNCHANGED <<container, docker>>
  PROVE  Paired'
  BY DEF Paired

LEMMA RemovalPaired ==
  ASSUME TypeOK, Paired, NEW cs, NoContainer \notin cs, DockerRemoves(cs)
  PROVE  Paired'
  BY DEF TypeOK, Paired, DockerRemoves

LEMMA CyclePaired ==
  ASSUME TypeOK, Paired, UNCHANGED container, NEW c \in Containers, docker[c] # "absent",
         NEW s, s # "absent", DockerBecomes(c, s)
  PROVE  Paired'
  BY DEF TypeOK, Paired, DockerBecomes

LEMMA NextPaired ==
  ASSUME RunnerInv, Next
  PROVE  Paired'
<1> USE DEF RunnerInv, Inv1, Inv2, instVars
<1>0. TypeOK /\ Paired
  OBVIOUS
<1>1. ASSUME NEW i \in Instances, NEW c \in Containers, ContainerStarts(i, c)
      PROVE  Paired'
  <2>1. /\ container' = [container EXCEPT ![i] = c] /\ docker' = [docker EXCEPT ![c] = "running"]
        /\ \A j \in Instances : container[j] # c
        /\ container[i] = NoContainer
    BY <1>0, <1>1 DEF ContainerStarts, Fresh, TypeOK
  <2>2. /\ container'[i] = c /\ docker'[c] = "running"
        /\ \A j \in Instances \ {i} : container'[j] = container[j]
        /\ \A d \in Containers \ {c} : docker'[d] = docker[d]
        /\ \A j \in Instances : container[j] \in Containers \union {NoContainer}
    BY <1>0, <2>1 DEF TypeOK
  <2> QED BY <1>0, <2>1, <2>2, RunnerAssumption DEF Paired
<1>2. ASSUME NEW i \in Instances, BootStep(i) PROVE Paired'
  BY <1>0, <1>1, <1>2, PairedKept
  DEF BootStep, ProbeEnds, Publishes, SingleRollProbeEnds, BootFails, settleFrame
<1>3. ASSUME NEW i \in Instances, Reboot(i) PROVE Paired'
  <2>1. CASE container[i] = NoContainer
    BY <1>0, <1>3, <2>1, RunnerAssumption DEF Reboot, ClearState, DockerRemoves, Paired, TypeOK
  <2>2. CASE container[i] # NoContainer
    BY <1>0, <1>3, <2>2, RemovalPaired DEF Reboot, ClearState
  <2> QED BY <2>1, <2>2
<1>4. ASSUME NEW i \in Instances, WatcherStep(i) PROVE Paired'
  BY <1>0, <1>3, <1>4, PairedKept
  DEF WatcherStep, SleepEnds, ExitSeen, DeferEnds, Degrade, BackoffEnds
<1>5. CASE OldRemoved \/ DiscardShadow
  BY <1>0, <1>5, RemovalPaired DEF OldRemoved, DiscardShadow
<1>6. CASE SoftStop \/ SoftStart
  <2>1. target \in Containers /\ docker[target] # "absent"
    BY <1>0, <1>6 DEF SoftStop, SoftStart, Stepping, Soft, TypeOK
  <2>2. UNCHANGED docker \/ \E s \in {"running"} \union Exited : DockerBecomes(target, s)
    BY <1>6 DEF SoftStop, SoftStart
  <2>3. container' = container /\ \A s \in {"running"} \union Exited : s # "absent"
    BY <1>6 DEF SoftStop, SoftStart, Exited
  <2> QED BY <1>0, <2>1, <2>2, <2>3, CyclePaired, PairedKept
<1>7. CASE ReloadStep
  BY <1>0, <1>5, <1>6, <1>7, PairedKept DEF ReloadStep, ReloadEnds, SkipReplica, BeginRoll,
     BeginSoftReload, BootShadow, Swap, DrainEnds, RollEnds, SourceCopied, SoftProbeEnds,
     SoftPublish, SoftFails, softFrame
<1>8. ASSUME NEW c \in Containers, RemoveOne(c) PROVE Paired'
  BY <1>0, <1>8, RemovalPaired, RunnerAssumption DEF RemoveOne
<1>9. ASSUME NEW c \in Containers, Crash(c) PROVE Paired'
  <2>1. PICK s \in Exited : DockerBecomes(c, s)
    BY <1>9 DEF Crash
  <2>2. docker[c] # "absent" /\ s # "absent" /\ container' = container
    BY <1>9 DEF Crash, Exited
  <2> QED BY <1>0, <2>1, <2>2, CyclePaired
<1>10. CASE BeginShutdown \/ TakeDown \/ Exit \/ SourceChanged \/ Signal
  BY <1>0, <1>10, PairedKept DEF BeginShutdown, TakeDown, Exit, SourceChanged, Signal
<1> QED BY <1>2, <1>4, <1>7, <1>8, <1>9, <1>10 DEF Next, CleanupStep

LEMMA NextTargeted ==
  ASSUME RunnerInv, Next
  PROVE  Targeted'
<1> USE DEF RunnerInv, Inv1, Inv2
<1>0. TypeOK /\ Targeted /\ Paired
  OBVIOUS
<1>1. ASSUME UNCHANGED <<reload, old, target>>, unawaited \subseteq unawaited',
             \A i \in Instances : container'[i] \in {container[i], NoContainer},
             reload \in {"clearing", "retiring"} =>
               container'[old] = container[old] \/ old \in unawaited'
      PROVE  Targeted'
  BY <1>0, <1>1, OldMeans DEF Targeted
<1>2. ASSUME target' = NoContainer,
             reload' \notin {"clearing", "retiring", "cleared", "retired"}
      PROVE  Targeted'
  BY <1>2 DEF Targeted
<1>3. ASSUME NEW i \in Instances, NEW c \in Containers, ContainerStarts(i, c)
      PROVE  Targeted'
  <2>1. /\ container' = [container EXCEPT ![i] = c] /\ c # target
        /\ task[i] \in Rebooting
        /\ UNCHANGED <<reload, old, target, unawaited>>
    BY <1>3 DEF ContainerStarts, Fresh, reloadVars, histVars, Rebooting, InFlight
  <2>2. reload \in {"clearing", "retiring", "cleared", "retired"} =>
          old \in Instances /\ (i = old => old \in unawaited)
    BY <2>1, OldMeans, ReloadAlone DEF Told, Departed
  <2> QED BY <1>0, <2>1, <2>2 DEF Targeted, TypeOK
<1>4. ASSUME NEW i \in Instances, BootSettles(i), UNCHANGED settleFrame PROVE Targeted'
  <2>1. CASE Rolled(i) /\ RollContinues(i) /\ SingleReplica
    BY <1>2, <2>1 DEF RollContinues, NextReplica
  <2>2. CASE Rolled(i) /\ RollContinues(i) /\ ~SingleReplica
    <3>1. /\ reload = "shadow" /\ reload' = "swap" /\ UNCHANGED <<old, target, container>>
      BY <1>4, <2>2 DEF Rolled, RollContinues, settleFrame
    <3> QED BY <1>0, <3>1 DEF Targeted
  <2>3. CASE LoopContinues(i) \/ RestartContinues(i)
    BY <1>1, <1>4, <2>3 DEF LoopContinues, RestartContinues, settleFrame
  <2> QED BY <1>4, <2>1, <2>2, <2>3 DEF BootSettles
<1>5. ASSUME NEW i \in Instances, ProbeEnds(i) \/ Publishes(i) \/ SingleRollProbeEnds(i)
      PROVE  Targeted'
  BY <1>1, <1>4, <1>5 DEF ProbeEnds, Publishes, SingleRollProbeEnds, settleFrame
<1>6. ASSUME NEW i \in Instances, BootFails(i) PROVE Targeted'
  <2>1. /\ UNCHANGED <<container, old, target, unawaited>>
        /\ reload' \in {reload, "discarding"}
    BY <1>6 DEF BootFails
  <2> QED BY <1>0, <2>1 DEF Targeted
<1>7. ASSUME NEW i \in Instances, WatcherStep(i) PROVE Targeted'
  <2>1. CASE Reboot(i)
    <3>1. /\ UNCHANGED <<reload, old, target, unawaited>> /\ task[i] = "clearing"
          /\ \A j \in Instances : container'[j] =
               IF container[j] = container[i] THEN NoContainer ELSE container[j]
      BY <2>1 DEF Reboot, ClearState, DockerRemoves, reloadVars, histVars
    <3>2. reload \in {"clearing", "retiring"} =>
            old \in Instances /\ (i = old => old \in unawaited)
      BY <3>1, OldMeans, ReloadAlone DEF Told, Departed, Rebooting
    <3>3. reload \in {"clearing", "retiring"} =>
            container'[old] = container[old] \/ old \in unawaited'
      BY <1>0, <3>1, <3>2 DEF Paired
    <3> QED BY <1>1, <3>1, <3>3
  <2>2. CASE ~Reboot(i)
    BY <1>1, <1>7, <2>2 DEF WatcherStep, SleepEnds, ExitSeen, DeferEnds, Degrade,
       BackoffEnds, reloadVars, histVars
  <2> QED BY <2>1, <2>2
<1>8. ASSUME NEW i \in Instances, BeginRoll(i) PROVE Targeted'
  <2>1. old' = i /\ container' = container /\ i \in Instances
    BY <1>8 DEF BeginRoll
  <2>2. \/ target' = container[i] /\ reload' = "clearing"
        \/ target' = NoContainer /\ reload' = "shadow"
    BY <1>8 DEF BeginRoll, Stepping
  <2> QED BY <1>0, <2>1, <2>2 DEF Targeted, Paired
<1>9. ASSUME NEW i \in Instances, BeginSoftReload(i) PROVE Targeted'
  <2>1. old' = i /\ container' = container /\ i \in Instances /\ target' = container[i]
        /\ reload' = "copying"
    BY <1>9 DEF BeginSoftReload
  <2> QED BY <1>0, <2>1 DEF Targeted, Paired
<1>10. CASE OldRemoved
  <2>1. old \in Instances /\ UNCHANGED <<old, target, unawaited>>
    BY <1>10, OldMeans DEF OldRemoved, histVars
  <2>2. \A j \in Instances : container'[j] =
          IF container[j] = target THEN NoContainer ELSE container[j]
    BY <1>10 DEF OldRemoved, DockerRemoves
  <2>3. /\ reload \in {"clearing", "retiring"}
        /\ reload' \in {"cleared", "retired"}
    BY <1>10 DEF OldRemoved
  <2> QED BY <1>0, <2>1, <2>2, <2>3 DEF Targeted
<1>11. CASE DrainEnds
  <2>1. /\ old \in Instances /\ target' = container[old] /\ reload' = "retiring"
        /\ UNCHANGED <<old, container>>
    BY <1>11, OldMeans DEF DrainEnds, instVars
  <2> QED BY <1>0, <2>1 DEF Targeted, Paired
<1>12. CASE Swap
  <2>1. /\ reload = "swap" /\ reload' = "draining" /\ UNCHANGED <<old, container, target>>
    BY <1>12 DEF Swap
  <2> QED BY <1>0, <2>1 DEF Targeted
<1>13. CASE BootShadow \/ RollEnds \/ DiscardShadow \/ SoftPublish \/ SoftFails
  BY <1>2, <1>13 DEF BootShadow, RollEnds, DiscardShadow, SoftPublish, SoftFails,
     SoftReloadEnds, NextReplica
<1>14. CASE SoftProbeEnds
  <2>1. /\ old \in Instances /\ container' = container
        /\ \/ target' = container[old] /\ old' = old /\ reload' = "publishing"
           \/ target' = NoContainer /\ reload' = "next"
    BY <1>14, OldMeans DEF SoftProbeEnds, softFrame, SoftReloadEnds, NextReplica
  <2> QED BY <1>0, <2>1 DEF Targeted, Paired
<1>15. CASE SourceCopied \/ SoftStop \/ SoftStart
  <2>1. /\ UNCHANGED <<old, container, target>>
        /\ reload' \in {"stopping", "starting", "probing"}
    BY <1>15 DEF SourceCopied, SoftStop, SoftStart, instVars
  <2> QED BY <1>0, <2>1 DEF Targeted
<1>16. ASSUME NEW i \in Instances, SkipReplica(i) PROVE Targeted'
  BY <1>1, <1>16 DEF SkipReplica, instVars, histVars
<1>17. CASE ReloadEnds \/ SourceChanged
  BY <1>2, <1>17 DEF ReloadEnds, SourceChanged, Stepping
<1>18. CASE BeginShutdown \/ TakeDown \/ Exit \/ Signal
  BY <1>0, <1>1, <1>18 DEF BeginShutdown, TakeDown, Exit, Signal, instVars, reloadVars, histVars,
     TypeOK
<1>19. ASSUME NEW c \in Containers, RemoveOne(c) PROVE Targeted'
  <2>1. UNCHANGED <<reload, old, target, unawaited>> /\ reload = "idle"
    BY <1>19 DEF RemoveOne, reloadVars, histVars, Stepping
  <2>2. \A i \in Instances : container'[i] \in {container[i], NoContainer}
    BY <1>19, RemovalTouches DEF RemoveOne
  <2> QED BY <1>1, <2>1, <2>2
<1>20. ASSUME NEW c \in Containers, Crash(c) PROVE Targeted'
  BY <1>1, <1>20 DEF Crash, reloadVars
<1> QED
  BY <1>3, <1>5, <1>6, <1>7, <1>8, <1>9, <1>10, <1>11, <1>12, <1>13, <1>14, <1>15, <1>16,
     <1>17, <1>18, <1>19, <1>20
  DEF Next, BootStep, ReloadStep, CleanupStep


-----------------------------------------------------------------------------
(* The registrations *)

Bound == {"clearing", "booting", "probing", "publishing"}

LEMMA RoutedKept ==
  ASSUME Routed, unawaited \union overtaken \subseteq (unawaited \union overtaken)',
         boot' # "failed" => boot # "failed",
         \A i \in Instances \ (unawaited \union overtaken) :
           \/ routes'[i] = NoContainer
           \/ /\ routes'[i] = routes[i]
              /\ boot' = "failed" \/ container'[i] = container[i]
              /\ task'[i] \in Bound => task[i] \in Bound
           \/ routes'[i] = container'[i] /\ task'[i] \notin Bound
  PROVE  Routed'
  BY DEF Routed, Bound

(* The promise of a boot settles: whom it puts to work.                      *)
LEMMA SettleTasks ==
  ASSUME RunnerInv, NEW i \in Instances, task[i] # "none", BootSettles(i)
  PROVE  /\ task'[i] \in {"none", "stopped", "sleeping", "watching"}
         /\ \A j \in Instances \ {i} :
              \/ task'[j] = task[j]
              \/ task'[j] \in {"stopped", "sleeping", "watching"}
              \/ task'[j] = "booting" /\ Pristine(j)
<1> USE DEF RunnerInv, Inv1
<1>0. TypeOK
  OBVIOUS
<1>1. CASE Bare(i) /\ LoopContinues(i) /\ i[1] + 1 \in Slots
  <2>1. PICK m \in Slots : /\ replicas = {j \in Instances : j[1] <= m /\ j[2] = 0}
                           /\ \A j \in Instances \ {<<m, 0>>} : task[j] = "none"
    BY <1>1 DEF Looping, Bare
  <2>2. i[1] = m /\ m \in Nat
    BY <2>1, InstanceMeans, SlotsMeans
  <2>3. PICK n \in Instances : n[1] = i[1] + 1 /\ n = <<i[1] + 1, 0>>
    <3>1. 0 \in 0 .. MaxReloads
      BY RunnerAssumption
    <3> QED BY <1>1, <3>1, InstanceMeans
  <2>4. n \notin replicas /\ n # i
    BY <2>1, <2>2, <2>3
  <2>5. Pristine(n)
    BY <1>1, <2>4 DEF Looping, Bare
  <2>6. task' = [task EXCEPT ![i] = "none", ![n] = "booting"]
    BY <1>1, <2>3 DEF LoopContinues
  <2> QED BY <1>0, <2>4, <2>5, <2>6 DEF TypeOK
<1>2. CASE Bare(i) /\ LoopContinues(i) /\ i[1] + 1 \notin Slots
  <2>1. Watch(replicas)
    BY <1>2 DEF LoopContinues
  <2>2. i \in replicas
    <3>1. PICK m \in Slots : /\ replicas = {j \in Instances : j[1] <= m /\ j[2] = 0}
                             /\ \A j \in Instances \ {<<m, 0>>} : task[j] = "none"
      BY <1>2 DEF Looping, Bare
    <3> QED BY <3>1, <1>2, InstanceMeans, SlotsMeans DEF Bare
  <2> QED BY <1>0, <2>1, <2>2, WatchTouches
<1>3. CASE Rolled(i) /\ RollContinues(i)
  <2>1. Watch({i}) \/ SetTask(i, "none")
    BY <1>3 DEF RollContinues
  <2> QED BY <1>0, <2>1, WatchTouches DEF SetTask, TypeOK
<1>4. CASE Restarted(i) /\ RestartContinues(i)
  <2>1. Watch({i})
    BY <1>4 DEF RestartContinues
  <2> QED BY <1>0, <2>1, WatchTouches
<1> QED BY <1>1, <1>2, <1>3, <1>4 DEF BootSettles

LEMMA BootRouted ==
  ASSUME RunnerInv, NEW i \in Instances, BootStep(i)
  PROVE  Routed'
<1> USE DEF RunnerInv, Inv1, Inv3, emuVars, histVars
<1>0. TypeOK /\ Routed
  OBVIOUS
<1>1. ASSUME NEW c \in Containers, ContainerStarts(i, c) PROVE Routed'
  <2>1. /\ UNCHANGED <<routes, boot, unawaited, overtaken>>
        /\ \A j \in Instances \ {i} : container'[j] = container[j] /\ task'[j] = task[j]
    BY <1>0, <1>1 DEF ContainerStarts, SetTask, TypeOK
  <2>2. routes[i] = NoContainer \/ i \in unawaited \union overtaken
    BY <1>0, <1>1 DEF ContainerStarts, Routed
  <2> QED BY <1>0, <2>1, <2>2, RoutedKept
<1>2. ASSUME task[i] # "none", BootSettles(i), UNCHANGED settleFrame,
             \A j \in Instances \ {i} : routes'[j] = routes[j],
             routes'[i] \in {routes[i], container[i]}
      PROVE  Routed'
  <2>1. \A j \in Instances :
          \/ task'[j] = task[j] /\ j # i
          \/ task'[j] \notin Bound
          \/ Pristine(j) /\ j # i
    BY <1>2, SettleTasks DEF Bound
  <2>2. UNCHANGED <<container, unawaited, overtaken>>
    BY <1>2 DEF settleFrame
  <2>3. boot' # "failed" => boot # "failed"
    BY <1>2 DEF BootSettles, LoopContinues, RollContinues, RestartContinues, Bare
  <2> QED BY <1>0, <1>2, <2>1, <2>2, <2>3, RoutedKept DEF Pristine
<1>3. CASE ProbeEnds(i)
  <2>1. CASE BootSettles(i)
    BY <1>2, <1>3, <2>1 DEF ProbeEnds
  <2>2. CASE SetTask(i, "publishing") /\ boot' = boot
    <3>1. /\ UNCHANGED <<routes, container, unawaited, overtaken>>
          /\ \A j \in Instances \ {i} : task'[j] = task[j]
          /\ task[i] \in Bound
      BY <1>0, <1>3, <2>2 DEF ProbeEnds, SetTask, settleFrame, TypeOK, Bound
    <3> QED BY <1>0, <2>2, <3>1, RoutedKept
  <2> QED BY <1>3, <2>1, <2>2 DEF ProbeEnds
<1>4. CASE Publishes(i)
  <2>1. /\ \A j \in Instances \ {i} : routes'[j] = routes[j]
        /\ routes'[i] \in {routes[i], container[i]}
        /\ task[i] # "none" /\ UNCHANGED settleFrame
    BY <1>0, <1>4 DEF Publishes, TypeOK
  <2>2. CASE BootSettles(i)
    BY <1>2, <2>1, <2>2
  <2>3. CASE SetTask(i, "verifying") /\ boot' = boot
    <3>1. /\ UNCHANGED <<container, unawaited, overtaken>>
          /\ \A j \in Instances \ {i} : task'[j] = task[j]
          /\ task'[i] \notin Bound
      BY <1>0, <2>1, <2>3 DEF SetTask, settleFrame, TypeOK, Bound
    <3> QED BY <1>0, <2>1, <2>3, <3>1, RoutedKept
  <2> QED BY <1>4, <2>2, <2>3 DEF Publishes
<1>5. CASE SingleRollProbeEnds(i)
  BY <1>2, <1>5 DEF SingleRollProbeEnds
<1>6. CASE BootFails(i)
  <2>1. /\ UNCHANGED <<routes, container, unawaited, overtaken>>
        /\ \A j \in Instances \ {i} : task'[j] = task[j]
        /\ task'[i] \notin Bound
        /\ boot' # "failed" => boot # "failed"
    BY <1>0, <1>6 DEF BootFails, SetTask, TypeOK, Bound
  <2> QED BY <1>0, <2>1, RoutedKept
<1> QED BY <1>1, <1>3, <1>4, <1>5, <1>6 DEF BootStep

LEMMA ReloadRouted ==
  ASSUME RunnerInv, ReloadStep
  PROVE  Routed'
<1> USE DEF RunnerInv, Inv1, Inv2, Inv3
<1>0. TypeOK /\ Routed /\ Paired
  OBVIOUS
<1>1. boot' = boot /\ unawaited \union overtaken \subseteq (unawaited \union overtaken)'
  BY DEF ReloadStep, ReloadEnds, SkipReplica, BeginRoll, BeginSoftReload, OldRemoved,
     BootShadow, Swap, DrainEnds, RollEnds, DiscardShadow, SourceCopied, SoftStop,
     SoftStart, SoftProbeEnds, SoftPublish, SoftFails, softFrame, emuVars, histVars,
     TornDown
<1>2. ASSUME NEW i \in Instances, BeginRoll(i) PROVE Routed'
  <2>1. i[2] < MaxReloads
    BY <1>0, <1>2, InstanceMeans, RunnerAssumption DEF BeginRoll, Counted, TypeOK
  <2>2. Shadow(i) \in Instances /\ Shadow(i) # i
    BY <2>1, ShadowMeans
  <2>3. Pristine(Shadow(i))
    BY <1>2, <2>1, <2>2, ShadowMeans, InstanceMeans DEF BeginRoll, Listed, Stepping
  <2>4. /\ container' = container
        /\ \A j \in Instances \ {Shadow(i)} : task'[j] = task[j]
        /\ \A j \in Instances : routes'[j] \in {routes[j], NoContainer}
    BY <1>0, <1>2 DEF BeginRoll, SetTask, Unregister, TypeOK
  <2> QED BY <1>0, <1>1, <2>3, <2>4, RoutedKept DEF Pristine
<1>3. ASSUME NEW i \in Instances, BeginSoftReload(i) PROVE Routed'
  BY <1>0, <1>1, <1>3, RoutedKept DEF BeginSoftReload, Unregister, TypeOK
<1>4. CASE OldRemoved
  <2>1. \A j \in Instances : container'[j] =
          IF container[j] = target /\ target # NoContainer THEN NoContainer ELSE container[j]
    BY <1>4 DEF OldRemoved, DockerRemoves
  <2>2. routes[old] = NoContainer \/ old \in unawaited
    BY <1>4 DEF OldRemoved, Dropped
  <2>3. \A j \in Instances : container'[j] = container[j] \/ j = old
    BY <2>1 DEF Targeted
  <2> QED BY <1>0, <1>1, <1>4, <2>2, <2>3, RoutedKept DEF OldRemoved
<1>5. CASE BootShadow
  <2>1. PICK n \in Instances : n = Shadow(old)
    BY <1>5, OldMeans DEF BootShadow
  <2>2. Pristine(n)
    BY <1>5, <2>1 DEF BootShadow, Listed
  <2>3. UNCHANGED <<container, routes>> /\ \A j \in Instances \ {n} : task'[j] = task[j]
    BY <1>0, <1>5, <2>1 DEF BootShadow, SetTask, TypeOK
  <2> QED BY <1>0, <1>1, <2>2, <2>3, RoutedKept DEF Pristine
<1>6. CASE Swap
  BY <1>0, <1>1, <1>6, RoutedKept DEF Swap, Unregister, TypeOK
<1>7. CASE RollEnds
  <2>1. Watch({Shadow(old)}) /\ UNCHANGED <<container, routes>>
    BY <1>7 DEF RollEnds
  <2>2. \A j \in Instances : task'[j] \in Bound => task[j] \in Bound
    BY <1>0, <2>1, WatchTouches DEF Bound
  <2> QED BY <1>0, <1>1, <2>1, <2>2, RoutedKept
<1>8. CASE DiscardShadow
  <2>1. PICK n \in Instances : n = Shadow(old)
    BY <1>8, OldMeans DEF DiscardShadow
  <2>2. routes[n] = NoContainer
    BY <1>8, <2>1 DEF DiscardShadow, Dropped, Listed
  <2>3. \A j \in Instances \ {n} : container'[j] = container[j]
    BY <1>0, <1>8, <2>1 DEF DiscardShadow, DockerRemoves, Paired
  <2> QED BY <1>0, <1>1, <1>8, <2>2, <2>3, RoutedKept DEF DiscardShadow
<1>9. CASE SoftPublish
  <2>1. old \in overtaken \/ /\ container[old] = target
                             /\ task[old] \notin Bound
    BY <1>9 DEF SoftPublish, Cycled, Soft, Bound
  <2>2. /\ UNCHANGED <<container, task>>
        /\ \A j \in Instances : routes'[j] = routes[j] \/ (j = old /\ routes'[j] = target)
    BY <1>0, <1>9 DEF SoftPublish, softFrame, TypeOK
  <2> QED BY <1>0, <1>1, <2>1, <2>2, RoutedKept
<1>10. ASSUME UNCHANGED <<routes, container, task>> PROVE Routed'
  BY <1>0, <1>1, <1>10, RoutedKept
<1>11. ASSUME NEW i \in Instances, SkipReplica(i) PROVE Routed'
  BY <1>10, <1>11 DEF SkipReplica, instVars
<1>12. CASE \/ ReloadEnds \/ DrainEnds \/ SourceCopied \/ SoftStop \/ SoftStart
            \/ SoftProbeEnds \/ SoftFails
  BY <1>10, <1>12 DEF ReloadEnds, DrainEnds, SourceCopied, SoftStop, SoftStart,
     SoftProbeEnds, SoftFails, softFrame, instVars
<1> QED
  BY <1>2, <1>3, <1>4, <1>5, <1>6, <1>7, <1>8, <1>9, <1>11, <1>12 DEF ReloadStep

LEMMA NextRouted ==
  ASSUME RunnerInv, Next
  PROVE  Routed'
<1> USE DEF RunnerInv, Inv1, Inv2, Inv3, instVars, emuVars, histVars
<1>0. TypeOK /\ Routed /\ Paired
  OBVIOUS
<1>1. ASSUME NEW i \in Instances, WatcherStep(i) PROVE Routed'
  <2>1. CASE Reboot(i)
    <3>1. \A j \in Instances \ {i} : container'[j] = container[j] /\ task'[j] = task[j]
      BY <1>0, <2>1 DEF Reboot, ClearState, DockerRemoves, SetTask, Paired, TypeOK
    <3>2. routes[i] = NoContainer \/ i \in unawaited \union overtaken
      BY <1>0, <2>1 DEF Reboot, Routed
    <3> QED BY <1>0, <2>1, <3>1, <3>2, RoutedKept DEF Reboot
  <2>2. CASE BackoffEnds(i)
    <3>1. \A j \in Instances : \/ routes'[j] = NoContainer
                               \/ /\ routes'[j] = routes[j]
                                  /\ task'[j] \in Bound => task[j] \in Bound
      BY <1>0, <2>2 DEF BackoffEnds, SetTask, Unregister, TypeOK, Bound
    <3> QED BY <1>0, <2>2, <3>1, RoutedKept DEF BackoffEnds
  <2>3. CASE SleepEnds(i) \/ ExitSeen(i) \/ DeferEnds(i) \/ Degrade(i)
    <3>1. \A j \in Instances : task'[j] \in Bound => task[j] \in Bound
      BY <1>0, <2>3, WatchTouches DEF SleepEnds, ExitSeen, DeferEnds, Degrade, SetTask,
         TypeOK, Bound
    <3>2. UNCHANGED <<routes, container, boot, unawaited, overtaken>>
      BY <2>3 DEF SleepEnds, ExitSeen, DeferEnds, Degrade
    <3> QED BY <1>0, <3>1, <3>2, RoutedKept
  <2> QED BY <1>1, <2>1, <2>2, <2>3 DEF WatcherStep
<1>2. CASE BeginShutdown \/ Exit \/ Signal \/ SourceChanged
  <2>1. /\ UNCHANGED <<routes, container, task, boot, overtaken>>
        /\ unawaited \subseteq unawaited'
    BY <1>0, <1>2 DEF BeginShutdown, Exit, Signal, SourceChanged, TypeOK
  <2> QED BY <1>0, <2>1, RoutedKept
<1>3. CASE TakeDown
  <2>1. \A j \in Instances : routes'[j] \in {routes[j], NoContainer}
    BY <1>3 DEF TakeDown
  <2> QED BY <1>0, <1>3, <2>1, RoutedKept DEF TakeDown
<1>4. ASSUME NEW c \in Containers, RemoveOne(c) PROVE Routed'
  <2>1. \A j \in Instances : \/ routes[j] = NoContainer \/ j \in unawaited
                             \/ boot = "failed"
    BY <1>4 DEF RemoveOne, Closing, Dropped
  <2> QED BY <1>0, <1>4, <2>1, RoutedKept DEF RemoveOne
<1>5. ASSUME NEW c \in Containers, Crash(c) PROVE Routed'
  BY <1>0, <1>5, RoutedKept DEF Crash
<1> QED
  BY <1>1, <1>2, <1>3, <1>4, <1>5, BootRouted, ReloadRouted DEF Next, CleanupStep


(* What no step of a chain of its own touches.                               *)
LEMMA DroppedKept ==
  ASSUME Dropped, UNCHANGED <<replicas, reload, old, emulator, shuttingDown>>,
         unawaited \subseteq unawaited', routes \in [Instances -> Containers \union {NoContainer}],
         reload \notin {"idle", "next"} => old \in Instances /\ Shadow(old) \in Instances,
         \A j \in Instances :
           \/ routes'[j] = NoContainer
           \/ routes'[j] = routes[j] /\ (task[j] = "verifying" => task'[j] = "verifying")
           \/ routes'[j] = routes[j] /\ (reload \in {"shadow", "discarding"} => j # Shadow(old))
           \/ j \in unawaited /\ (reload \in {"shadow", "discarding"} => j # Shadow(old))
           \/ /\ j \in replicas /\ ~(emulator \in {"cleaning", "exited"} /\ shuttingDown)
              /\ reload \in {"shadow", "discarding"} /\ j = Shadow(old)
                   => task'[j] = "verifying"
              /\ reload \in {"clearing", "cleared", "draining", "retiring", "retired"}
                   => j # old
  PROVE  Dropped'
  BY DEF Dropped

(* A replica in the middle of a boot that was told to stop.                  *)
LEMMA LateBoot ==
  ASSUME RunnerInv, NEW i \in Instances, task[i] \in Rebooting
  PROVE  /\ i \in replicas \/ i \in unawaited
         /\ emulator \in {"cleaning", "exited"} /\ shuttingDown => i \in unawaited
         /\ reload \in {"clearing", "cleared", "draining", "retiring", "retired"} /\ i = old
              => i \in unawaited
<1> USE DEF RunnerInv, Inv2
<1>1. i \in replicas \/ i \in unawaited
  BY OutsideUnawaited
<1>2. retired[i] /\ emulator # "settling" => i \in unawaited
  BY DEF Told
<1>3. emulator \in {"cleaning", "exited"} /\ shuttingDown => i \in unawaited
  BY <1>1, <1>2 DEF Closing
<1>4. reload \in {"clearing", "cleared", "draining", "retiring", "retired"} /\ i = old
        => i \in unawaited
  BY <1>2, ReloadAlone DEF Departed
<1> QED BY <1>1, <1>3, <1>4

LEMMA SettleDropped ==
  ASSUME RunnerInv, NEW i \in Instances, task[i] \in InFlight, BootSettles(i),
         UNCHANGED settleFrame,
         \A j \in Instances \ {i} : routes'[j] = routes[j],
         routes'[i] = routes[i] \/ task[i] = "publishing"
  PROVE  Dropped'
<1> USE DEF RunnerInv, Inv1, Inv2, Inv3
<1>0. TypeOK /\ Dropped
  OBVIOUS
<1>1. /\ UNCHANGED <<emulator, shuttingDown, unawaited>> /\ task[i] \in Rebooting
      /\ emulator \in {"cleaning", "exited"} /\ shuttingDown => i \in unawaited
      /\ i \in replicas \/ i \in unawaited
  BY LateBoot DEF settleFrame, Rebooting
<1>2. CASE Bare(i) /\ LoopContinues(i)
  <2>1. reload = "idle" /\ reload' = "idle" /\ replicas \subseteq replicas'
    BY <1>2 DEF Bare, LoopContinues, Stepping
  <2> QED BY <1>0, <1>1, <2>1 DEF Dropped
<1>3. CASE Rolled(i) /\ RollContinues(i)
  <2>1. reload' \in {"next", "swap"} /\ replicas' = replicas
    BY <1>3 DEF RollContinues, NextReplica
  <2> QED BY <1>0, <1>1, <2>1 DEF Dropped
<1>4. CASE Restarted(i) /\ RestartContinues(i)
  <2>1. UNCHANGED <<replicas, reload, old>> /\ Watch({i})
    BY <1>4 DEF RestartContinues
  <2>2. reload \in {"clearing", "cleared", "draining", "retiring", "retired"} /\ i = old
          => i \in unawaited
    BY <1>1, LateBoot
  <2>3. reload \in {"shadow", "discarding"} => i # Shadow(old)
    BY <1>4 DEF Restarted, Rolled, Listed, InFlight
  <2>4. \A j \in Instances \ {i} : routes'[j] = routes[j] /\ task'[j] = task[j]
    BY <1>0, <2>1, WatchTouches
  <2>5. reload \notin {"idle", "next"} => old \in Instances /\ Shadow(old) \in Instances
    BY OldMeans
  <2> QED BY <1>0, <1>1, <2>1, <2>2, <2>3, <2>4, <2>5, DroppedKept DEF TypeOK
<1> QED BY <1>2, <1>3, <1>4 DEF BootSettles

LEMMA BootDropped ==
  ASSUME RunnerInv, NEW i \in Instances, BootStep(i)
  PROVE  Dropped'
<1> USE DEF RunnerInv, Inv1, Inv2, Inv3
<1>0. TypeOK /\ Dropped
  OBVIOUS
<1>1. reload \notin {"idle", "next"} => old \in Instances /\ Shadow(old) \in Instances
  BY OldMeans
<1>2. ASSUME NEW c \in Containers, ContainerStarts(i, c) PROVE Dropped'
  <2>1. /\ UNCHANGED <<routes, replicas, reload, old, emulator, shuttingDown, unawaited>>
        /\ task[i] # "verifying"
        /\ \A j \in Instances \ {i} : task'[j] = task[j]
    BY <1>0, <1>2 DEF ContainerStarts, SetTask, reloadVars, emuVars, histVars, TypeOK
  <2> QED BY <1>0, <1>1, <2>1, DroppedKept DEF TypeOK
<1>3. CASE ProbeEnds(i)
  <2>1. CASE BootSettles(i)
    BY <1>3, <2>1, SettleDropped DEF ProbeEnds, InFlight
  <2>2. CASE SetTask(i, "publishing") /\ UNCHANGED <<replicas, reload, old>>
    <3>1. /\ UNCHANGED <<routes, emulator, shuttingDown, unawaited>>
          /\ task[i] # "verifying"
          /\ \A j \in Instances \ {i} : task'[j] = task[j]
      BY <1>0, <1>3, <2>2 DEF ProbeEnds, SetTask, settleFrame, TypeOK
    <3> QED BY <1>0, <1>1, <2>2, <3>1, DroppedKept DEF TypeOK
  <2> QED BY <1>3, <2>1, <2>2 DEF ProbeEnds
<1>4. CASE Publishes(i)
  <2>1. /\ \A j \in Instances \ {i} : routes'[j] = routes[j]
        /\ task[i] = "publishing" /\ UNCHANGED settleFrame
    BY <1>0, <1>4 DEF Publishes, TypeOK
  <2>2. CASE BootSettles(i)
    BY <2>1, <2>2, SettleDropped DEF InFlight
  <2>3. CASE Rolled(i) /\ SetTask(i, "verifying") /\ UNCHANGED <<replicas, reload, old>>
    <3>1. /\ UNCHANGED <<emulator, shuttingDown, unawaited>>
          /\ task'[i] = "verifying" /\ reload = "shadow"
          /\ \A j \in Instances \ {i} : task'[j] = task[j]
      BY <1>0, <2>1, <2>3 DEF SetTask, settleFrame, Rolled, TypeOK
    <3>2. i \in replicas /\ emulator \in {"running", "signalled"}
      BY <2>3, <3>1, OldListed, ReloadAlone DEF Rolled, Roll
    <3> QED BY <1>0, <1>1, <2>1, <2>3, <3>1, <3>2, DroppedKept DEF TypeOK
  <2> QED BY <1>4, <2>2, <2>3 DEF Publishes
<1>5. CASE SingleRollProbeEnds(i)
  BY <1>5, SettleDropped DEF SingleRollProbeEnds, InFlight
<1>6. CASE BootFails(i)
  <2>1. /\ UNCHANGED <<routes, old, shuttingDown, unawaited>>
        /\ task[i] # "verifying"
        /\ \A j \in Instances \ {i} : task'[j] = task[j]
    BY <1>0, <1>6 DEF BootFails, SetTask, TypeOK
  <2>2. CASE Bare(i)
    <3>1. /\ reload = "idle" /\ reload' = "idle" /\ replicas' = replicas
          /\ emulator' \in {emulator, "signalled"}
      BY <1>6, <2>2 DEF BootFails, Bare, Rolled, Restarted, Stepping
    <3> QED BY <1>0, <2>1, <3>1 DEF Dropped
  <2>3. CASE Rolled(i)
    <3>1. /\ reload = "shadow" /\ reload' = "discarding" /\ replicas' = replicas \ {i}
          /\ emulator' = emulator /\ boot = "up" /\ i = Shadow(old)
      BY <1>6, <2>3 DEF BootFails, Bare, Rolled, Restarted, Stepping
    <3>2. routes[i] = NoContainer
      BY <1>0, <2>1, <3>1 DEF Dropped
    <3> QED BY <1>0, <2>1, <3>1, <3>2 DEF Dropped
  <2>4. CASE Restarted(i)
    <3>1. UNCHANGED <<replicas, reload, emulator>>
      BY <1>6, <2>4 DEF BootFails, Restarted
    <3> QED BY <1>0, <1>1, <2>1, <3>1, DroppedKept DEF TypeOK
  <2> QED BY <2>2, <2>3, <2>4 DEF Restarted
<1> QED BY <1>2, <1>3, <1>4, <1>5, <1>6 DEF BootStep

LEMMA ReloadDropped ==
  ASSUME RunnerInv, ReloadStep
  PROVE  Dropped'
<1> USE DEF RunnerInv, Inv1, Inv2, Inv3
<1>0. TypeOK /\ Dropped
  OBVIOUS
<1>a. /\ emulator \notin {"cleaning", "exited"} /\ emulator' = emulator
      /\ unawaited \subseteq unawaited'
  BY ReloadAlone DEF ReloadStep, ReloadEnds, SkipReplica, BeginRoll, BeginSoftReload,
     OldRemoved, BootShadow, Swap, DrainEnds, RollEnds, DiscardShadow, SourceCopied,
     SoftStop, SoftStart, SoftProbeEnds, SoftPublish, SoftFails, softFrame, emuVars,
     histVars, TornDown
<1>1. ASSUME \A j \in Instances \ replicas' : routes'[j] = NoContainer \/ j \in unawaited,
             reload' \notin {"clearing", "cleared", "draining", "retiring", "retired",
                             "shadow", "discarding"}
      PROVE  Dropped'
  BY <1>a, <1>1 DEF Dropped
<1>2. ASSUME NEW i \in Instances, BeginRoll(i) PROVE Dropped'
  <2>1. i[2] < MaxReloads
    BY <1>0, <1>2, InstanceMeans, RunnerAssumption DEF BeginRoll, Counted, TypeOK
  <2>2. PICK n \in Instances : n = Shadow(i) /\ n # i
    BY <2>1, ShadowMeans
  <2>3. Pristine(n)
    BY <1>2, <2>1, <2>2, ShadowMeans, InstanceMeans DEF BeginRoll, Listed, Stepping
  <2>4. /\ old' = i /\ replicas' = replicas \union {n}
        /\ \A j \in Instances : routes'[j] \in {routes[j], NoContainer}
        /\ \/ reload' = "clearing" /\ routes'[i] = NoContainer
           \/ reload' = "shadow" /\ routes' = routes
    BY <1>0, <1>2, <2>2 DEF BeginRoll, Unregister, TypeOK
  <2>5. Shadow(old)' = n
    BY <2>2, <2>4 DEF Shadow
  <2> QED BY <1>0, <1>a, <2>2, <2>3, <2>4, <2>5 DEF Dropped, Pristine
<1>3. ASSUME NEW i \in Instances, BeginSoftReload(i) PROVE Dropped'
  BY <1>0, <1>1, <1>3 DEF BeginSoftReload, Unregister, Dropped, TypeOK
<1>4. CASE OldRemoved
  BY <1>0, <1>a, <1>4 DEF OldRemoved, Dropped
<1>5. CASE BootShadow
  <2>1. PICK n \in Instances : n = Shadow(old)
    BY <1>5, OldMeans DEF BootShadow
  <2>2. Pristine(n)
    BY <1>5, <2>1 DEF BootShadow, Listed
  <2>3. /\ reload' = "shadow" /\ UNCHANGED <<old, routes>> /\ replicas' = replicas \ {old}
        /\ routes[old] = NoContainer \/ old \in unawaited
    BY <1>0, <1>5 DEF BootShadow, Dropped
  <2>4. Shadow(old)' = n
    BY <2>1, <2>3 DEF Shadow
  <2> QED BY <1>0, <1>a, <2>2, <2>3, <2>4 DEF Dropped, Pristine
<1>6. CASE Swap
  <2>1. old \in Instances
    BY <1>6, OldMeans DEF Swap
  <2> QED BY <1>0, <1>a, <1>6, <2>1 DEF Swap, Unregister, Dropped, TypeOK
<1>7. CASE DrainEnds
  BY <1>0, <1>a, <1>7 DEF DrainEnds, instVars, Dropped
<1>8. CASE RollEnds
  <2>1. /\ reload' = "next" /\ routes' = routes /\ replicas' = replicas \ {old}
        /\ routes[old] = NoContainer \/ old \in unawaited
    BY <1>0, <1>8 DEF RollEnds, NextReplica, Dropped
  <2> QED BY <1>0, <1>1, <2>1 DEF Dropped
<1>9. CASE SoftPublish
  <2>1. /\ old \in replicas /\ reload' = "next" /\ replicas' = replicas
        /\ \A j \in Instances \ {old} : routes'[j] = routes[j]
    BY <1>0, <1>9, OldListed DEF SoftPublish, SoftReloadEnds, NextReplica, softFrame,
       Roll, Soft, Stepping, TypeOK
  <2> QED BY <1>0, <1>1, <2>1 DEF Dropped
<1>10. ASSUME UNCHANGED <<routes, replicas>>,
              reload' \notin {"clearing", "cleared", "draining", "retiring", "retired",
                              "shadow", "discarding"}
       PROVE  Dropped'
  BY <1>0, <1>1, <1>10 DEF Dropped
<1>11. ASSUME NEW i \in Instances, SkipReplica(i) PROVE Dropped'
  BY <1>10, <1>11 DEF SkipReplica, instVars
<1>12. CASE \/ ReloadEnds \/ DiscardShadow \/ SourceCopied \/ SoftStop \/ SoftStart
            \/ SoftProbeEnds \/ SoftFails
  BY <1>10, <1>12 DEF ReloadEnds, DiscardShadow, SourceCopied, SoftStop, SoftStart,
     SoftProbeEnds, SoftFails, SoftReloadEnds, NextReplica, softFrame, instVars
<1> QED
  BY <1>2, <1>3, <1>4, <1>5, <1>6, <1>7, <1>8, <1>9, <1>11, <1>12 DEF ReloadStep

LEMMA NextDropped ==
  ASSUME RunnerInv, Next
  PROVE  Dropped'
<1> USE DEF RunnerInv, Inv1, Inv2, Inv3, instVars, reloadVars, emuVars, histVars
<1>0. TypeOK /\ Dropped
  OBVIOUS
<1>1. ASSUME NEW i \in Instances, WatcherStep(i) PROVE Dropped'
  <2>1. /\ UNCHANGED <<replicas, reload, old, emulator, shuttingDown, unawaited>>
        /\ task[i] # "verifying"
        /\ \A j \in Instances \ {i} : task'[j] = task[j]
        /\ \A j \in Instances : routes'[j] \in {routes[j], NoContainer}
    BY <1>0, <1>1, WatchTouches DEF WatcherStep, SleepEnds, ExitSeen, DeferEnds, Degrade,
       BackoffEnds, Reboot, SetTask, Unregister, TypeOK
  <2> QED BY <1>0, <2>1, OldMeans, DroppedKept DEF TypeOK
<1>2. CASE BeginShutdown \/ Signal
  BY <1>0, <1>2 DEF BeginShutdown, Signal, Dropped
<1>3. CASE TakeDown
  BY <1>0, <1>3 DEF TakeDown, Dropped, Stepping
<1>4. CASE Exit \/ SourceChanged
  BY <1>0, <1>4 DEF Exit, SourceChanged, Dropped
<1>5. ASSUME NEW c \in Containers, RemoveOne(c) \/ Crash(c) PROVE Dropped'
  BY <1>0, <1>5 DEF RemoveOne, Crash, Dropped
<1> QED
  BY <1>1, <1>2, <1>3, <1>4, <1>5, BootDropped, ReloadDropped DEF Next, CleanupStep


-----------------------------------------------------------------------------
(* The watchers *)

(* An answer that is not the soft reload's means that the container stopped. *)
Noticed(i) ==
  task[i] = "watching" /\ answer[i] # "pending" /\ softGen[i] = softGenSeen[i]
    => ~Running(i)

LEMMA NoticedKept ==
  ASSUME NEW i \in Instances, Noticed(i),
         task'[i] = "watching" =>
           /\ task[i] = "watching"
           /\ softGen'[i] = softGen[i] /\ softGenSeen'[i] = softGenSeen[i]
           /\ answer'[i] = answer[i]
           /\ Running(i)' => Running(i)
  PROVE  Noticed(i)'
  BY DEF Noticed

LEMMA WatchNotices ==
  ASSUME TypeOK, NEW is, Watch(is), UNCHANGED <<container, docker, softGen>>,
         NEW i \in Instances, Noticed(i)
  PROVE  Noticed(i)'
<1>1. CASE i \in is
  <2>1. task'[i] = "watching" =>
          /\ container[i] # NoContainer
          /\ docker[container[i]] # "running" \/ answer'[i] = "pending"
    BY <1>1 DEF Watch, TypeOK
  <2> QED BY <2>1 DEF Noticed, Running
<1>2. CASE i \notin is
  <2>1. task'[i] = task[i] /\ softGenSeen'[i] = softGenSeen[i]
        /\ (task'[i] = "watching" => answer'[i] = answer[i])
    BY <1>2 DEF Watch
  <2>2. Running(i)' <=> Running(i)
    BY DEF Running
  <2> QED BY <2>1, <2>2, NoticedKept
<1> QED BY <1>1, <1>2

LEMMA RemovalNotices ==
  ASSUME TypeOK, NEW cs, DockerRemoves(cs), UNCHANGED <<softGen, softGenSeen>>,
         NEW i \in Instances, Noticed(i), task'[i] = "watching" => task[i] = "watching"
  PROVE  Noticed(i)'
<1>1. CASE container[i] \in cs
  <2>1. container'[i] = NoContainer
    BY <1>1 DEF DockerRemoves
  <2> QED BY <2>1 DEF Noticed, Running
<1>2. CASE container[i] \notin cs
  <2>1. container'[i] = container[i] /\ answer'[i] = answer[i]
    BY <1>2 DEF DockerRemoves
  <2>2. container[i] # NoContainer => docker'[container[i]] = docker[container[i]]
    BY <1>2 DEF DockerRemoves, TypeOK
  <2>3. Running(i)' => Running(i)
    BY <2>1, <2>2 DEF Running
  <2> QED BY <2>1, <2>3, NoticedKept
<1> QED BY <1>1, <1>2

(* A container stops: nobody is told before it has.                          *)
LEMMA StopNotices ==
  ASSUME TypeOK, NEW c \in Containers, NEW s \in Exited, DockerBecomes(c, s),
         UNCHANGED <<container, softGen, softGenSeen, task>>,
         NEW i \in Instances, Noticed(i)
  PROVE  Noticed(i)'
<1>1. CASE container[i] = c
  <2>1. docker'[c] = s /\ s # "running"
    BY DEF DockerBecomes, Exited, TypeOK
  <2> QED BY <1>1, <2>1 DEF Noticed, Running
<1>2. CASE container[i] # c
  <2>1. answer'[i] = answer[i]
    BY <1>2 DEF DockerBecomes
  <2>2. container[i] # NoContainer => docker'[container[i]] = docker[container[i]]
    BY <1>2 DEF DockerBecomes, TypeOK
  <2>3. Running(i)' => Running(i)
    BY <2>2 DEF Running
  <2> QED BY <2>1, <2>3, NoticedKept
<1> QED BY <1>1, <1>2

(* The stop and the start of a soft reload, and the watcher it overtook not. *)
Deferred ==
  reload \in Soft /\ old \notin overtaken =>
    /\ task[old] \in {"watching", "deferring"} /\ ~retired[old]
    /\ task[old] = "watching" => softGenSeen[old] # softGen[old]
    /\ container[old] = target

LEMMA CycledMeans ==
  /\ Cycled <=> Deferred /\ \A i \in Instances \ overtaken : Noticed(i)
  /\ Cycled' <=> Deferred' /\ \A i \in Instances \ overtaken' : Noticed(i)'
  BY DEF Cycled, Deferred, Noticed

LEMMA DeferredKept ==
  ASSUME Deferred, UNCHANGED <<reload, old, target>>, overtaken \subseteq overtaken',
         reload \in Soft /\ old \notin overtaken =>
           /\ task'[old] \in {"watching", "deferring"} /\ retired'[old] = retired[old]
           /\ task'[old] = "watching" =>
                /\ task[old] = "watching"
                /\ softGenSeen'[old] = softGenSeen[old] /\ softGen'[old] = softGen[old]
           /\ container'[old] = container[old]
  PROVE  Deferred'
  BY DEF Deferred

LEMMA SettleNotices ==
  ASSUME RunnerInv, NEW i \in Instances, task[i] \in InFlight, BootSettles(i),
         UNCHANGED settleFrame, NEW j \in Instances, Noticed(j)
  PROVE  Noticed(j)'
<1> USE DEF RunnerInv, Inv1
<1>0. TypeOK
  OBVIOUS
<1>1. CASE \E is : Watch(is)
  BY <1>0, <1>1, WatchNotices DEF settleFrame
<1>2. CASE ~\E is : Watch(is)
  <2>1. UNCHANGED <<answer, softGenSeen>>
    BY <1>2 DEF BootSettles, LoopContinues, RollContinues, RestartContinues
  <2>2. task'[j] = "watching" => task[j] = "watching"
    <3>1. CASE Bare(i) /\ LoopContinues(i)
      <4>1. task' = [task EXCEPT ![i] = "none", ![<<i[1] + 1, 0>>] = "booting"]
        BY <1>2, <3>1 DEF LoopContinues
      <4> QED BY <1>0, <4>1 DEF TypeOK
    <3>2. CASE ~ (Bare(i) /\ LoopContinues(i))
      <4>1. task' = [task EXCEPT ![i] = "none"]
        BY <1>2, <3>2 DEF BootSettles, RollContinues, RestartContinues, SetTask
      <4> QED BY <1>0, <4>1 DEF TypeOK
    <3> QED BY <3>1, <3>2
  <2>3. Running(j)' <=> Running(j)
    BY DEF settleFrame, Running
  <2> QED BY <2>1, <2>2, <2>3, NoticedKept DEF settleFrame
<1> QED BY <1>1, <1>2

LEMMA BootNotices ==
  ASSUME RunnerInv, NEW i \in Instances, BootStep(i), NEW j \in Instances, Noticed(j)
  PROVE  Noticed(j)'
<1> USE DEF RunnerInv, Inv1, Inv2
<1>0. TypeOK /\ Paired
  OBVIOUS
<1>1. ASSUME NEW c \in Containers, ContainerStarts(i, c) PROVE Noticed(j)'
  <2>1. CASE j = i
    <3>1. task'[j] \in {"publishing", "probing"}
      BY <1>0, <1>1, <2>1 DEF ContainerStarts, SetTask, TypeOK
    <3> QED BY <3>1 DEF Noticed
  <2>2. CASE j # i
    <3>1. task'[j] = task[j] /\ container'[j] = container[j] /\ container[j] # c
      BY <1>0, <1>1, <2>2 DEF ContainerStarts, SetTask, Fresh, TypeOK
    <3>2. container[j] # NoContainer => docker'[container[j]] = docker[container[j]]
      BY <1>0, <1>1, <3>1 DEF ContainerStarts, TypeOK
    <3>3. Running(j)' => Running(j)
      BY <3>1, <3>2 DEF Running
    <3> QED BY <1>1, <3>1, <3>3, NoticedKept DEF ContainerStarts, softVars
  <2> QED BY <2>1, <2>2
<1>2. ASSUME UNCHANGED <<container, docker, softGen, softGenSeen, answer>>,
             NEW t, t # "watching", SetTask(i, t)
      PROVE  Noticed(j)'
  <2>1. task'[j] = "watching" => task[j] = "watching"
    BY <1>0, <1>2 DEF SetTask, TypeOK
  <2>2. Running(j)' <=> Running(j)
    BY <1>2 DEF Running
  <2> QED BY <1>2, <2>1, <2>2, NoticedKept
<1>3. CASE ProbeEnds(i) \/ Publishes(i) \/ SingleRollProbeEnds(i)
  <2>1. task[i] \in InFlight /\ UNCHANGED settleFrame
    BY <1>3 DEF ProbeEnds, Publishes, SingleRollProbeEnds, InFlight
  <2>2. CASE BootSettles(i)
    BY <2>1, <2>2, SettleNotices
  <2>3. CASE ~BootSettles(i)
    <3>1. /\ UNCHANGED <<answer, softGenSeen>>
          /\ SetTask(i, "publishing") \/ SetTask(i, "verifying")
      BY <1>3, <2>3 DEF ProbeEnds, Publishes, SingleRollProbeEnds
    <3> QED BY <1>2, <2>1, <3>1 DEF settleFrame
  <2> QED BY <2>2, <2>3
<1>4. CASE BootFails(i)
  BY <1>2, <1>4 DEF BootFails, softVars
<1> QED BY <1>1, <1>3, <1>4 DEF BootStep

LEMMA BootCycled ==
  ASSUME RunnerInv, NEW i \in Instances, BootStep(i)
  PROVE  Cycled'
<1> USE DEF RunnerInv, Inv1, Inv2, Inv3
<1>0. TypeOK /\ Deferred /\ \A j \in Instances \ overtaken : Noticed(j)
  BY CycledMeans
<1>1. /\ overtaken' = overtaken /\ task[i] \in InFlight
  BY DEF BootStep, ContainerStarts, ProbeEnds, Publishes, SingleRollProbeEnds, BootFails,
     histVars, settleFrame, InFlight
<1>2. CASE reload \notin Soft
  <2>1. reload' \notin Soft
    BY <1>2 DEF BootStep, ContainerStarts, ProbeEnds, Publishes, SingleRollProbeEnds,
       BootFails, BootSettles, LoopContinues, RollContinues, RestartContinues,
       NextReplica, reloadVars, Soft
  <2> QED BY <1>0, <1>1, <2>1, BootNotices, CycledMeans DEF Deferred
<1>3. CASE reload \in Soft
  <2>1. ~Rolled(i) /\ ~Bare(i) /\ old \in Instances
    BY <1>3, OldMeans, ReloadAlone DEF Rolled, Bare, Soft
  <2>2. i # old \/ old \in overtaken
    BY <1>0, <1>1, <1>3 DEF Deferred, InFlight
  <2>3. /\ UNCHANGED <<reload, old, target, softGen>>
        /\ \A j \in Instances \ {i} : /\ task'[j] = task[j] /\ retired'[j] = retired[j]
                                      /\ container'[j] = container[j]
                                      /\ softGenSeen'[j] = softGenSeen[j]
    <3>1. ASSUME RestartContinues(i)
          PROVE  \A j \in Instances \ {i} : task'[j] = task[j] /\ softGenSeen'[j] = softGenSeen[j]
      BY <3>1 DEF RestartContinues, Watch
    <3>2. CASE BootSettles(i) /\ UNCHANGED settleFrame
      BY <2>1, <3>1, <3>2 DEF BootSettles, RestartContinues, settleFrame
    <3>3. CASE ~ (BootSettles(i) /\ UNCHANGED settleFrame)
      BY <1>0, <2>1, <3>3 DEF BootStep, ContainerStarts, ProbeEnds, Publishes,
         SingleRollProbeEnds, BootFails, Restarted, SetTask, settleFrame, reloadVars,
         softVars, TypeOK
    <3> QED BY <3>2, <3>3
  <2>4. Deferred'
    BY <1>0, <1>1, <2>1, <2>2, <2>3, DeferredKept DEF Deferred
  <2> QED BY <1>0, <1>1, <2>4, BootNotices, CycledMeans
<1> QED BY <1>2, <1>3

LEMMA WatcherCycled ==
  ASSUME RunnerInv, NEW i \in Instances, WatcherStep(i)
  PROVE  Cycled'
<1> USE DEF RunnerInv, Inv1, Inv2, Inv3, softVars, reloadVars, emuVars, histVars
<1>0. TypeOK /\ Paired /\ Deferred /\ \A j \in Instances \ overtaken : Noticed(j)
  BY CycledMeans
<1>1. UNCHANGED <<reload, old, target, overtaken, softGen>>
  BY DEF WatcherStep, SleepEnds, ExitSeen, DeferEnds, Degrade, BackoffEnds, Reboot
<1>2. CASE SleepEnds(i) \/ DeferEnds(i)
  <2>1. Watch({i}) /\ UNCHANGED <<container, docker, retired>>
    BY <1>2 DEF SleepEnds, DeferEnds
  <2>2. reload \in Soft /\ old \notin overtaken => i # old
    <3>1. reload \in Soft => softReload[old] /\ (Stopping(old) => retired[old])
      BY OldMeans, ReloadAlone DEF Stepping, Soft
    <3> QED BY <1>0, <1>2, <3>1 DEF SleepEnds, DeferEnds, Deferred
  <2>3. \A j \in Instances \ {i} : task'[j] = task[j] /\ softGenSeen'[j] = softGenSeen[j]
    BY <1>0, <2>1 DEF Watch
  <2>4. Deferred'
    BY <1>0, <1>1, <2>1, <2>2, <2>3, OldMeans, DeferredKept DEF Deferred, Soft
  <2> QED BY <1>0, <1>1, <2>1, <2>4, WatchNotices, CycledMeans
<1>3. CASE ExitSeen(i) \/ Degrade(i) \/ BackoffEnds(i)
  <2>1. /\ UNCHANGED <<container, docker, softGenSeen>>
        /\ \A j \in Instances \ {i} : /\ task'[j] = task[j] /\ answer'[j] = answer[j]
                                      /\ retired'[j] = retired[j]
        /\ task'[i] # "watching"
    BY <1>0, <1>3 DEF ExitSeen, Degrade, BackoffEnds, SetTask, TypeOK
  <2>2. reload \in Soft /\ old \notin overtaken /\ i = old =>
          task'[old] = "deferring" /\ retired'[old] = retired[old]
    <3>1. reload \in Soft => softReload[old] /\ (Stopping(old) => retired[old])
      BY OldMeans, ReloadAlone DEF Stepping, Soft
    <3> QED BY <1>0, <1>3, <3>1 DEF ExitSeen, Degrade, BackoffEnds, Deferred, ReloadSeen,
         SetTask, TypeOK
  <2>3. Deferred'
    BY <1>0, <1>1, <2>1, <2>2, OldMeans, DeferredKept DEF Deferred, Soft
  <2>4. \A j \in Instances : Running(j)' <=> Running(j)
    BY <2>1 DEF Running
  <2>5. \A j \in Instances \ overtaken : Noticed(j)'
    BY <1>0, <1>1, <2>1, <2>4, NoticedKept
  <2> QED BY <1>1, <2>3, <2>5, CycledMeans
<1>4. CASE Reboot(i)
  <2>1. /\ \A j \in Instances \ {i} : task'[j] = task[j] /\ container'[j] = container[j]
        /\ task[i] = "clearing" /\ task'[i] = "booting"
        /\ UNCHANGED <<retired, softGen, softGenSeen>> /\ DockerRemoves({container[i]})
    BY <1>0, <1>4 DEF Reboot, ClearState, DockerRemoves, SetTask, Paired, TypeOK
  <2>2. Deferred'
    BY <1>0, <1>1, <2>1, OldMeans, DeferredKept DEF Deferred, Soft
  <2>3. \A j \in Instances \ overtaken : Noticed(j)'
    BY <1>0, <2>1, RemovalNotices
  <2> QED BY <1>1, <2>2, <2>3, CycledMeans
<1> QED BY <1>2, <1>3, <1>4 DEF WatcherStep


LEMMA ReloadCycled ==
  ASSUME RunnerInv, ReloadStep
  PROVE  Cycled'
<1> USE DEF RunnerInv, Inv1, Inv2, Inv3, softVars, emuVars, histVars
<1>0. TypeOK /\ Paired /\ Deferred /\ \A j \in Instances \ overtaken : Noticed(j)
  BY CycledMeans
<1>1. ASSUME UNCHANGED <<container, docker, softGen, softGenSeen, answer>>,
             overtaken \subseteq overtaken',
             \A j \in Instances : task'[j] = "watching" => task[j] = "watching"
      PROVE  \A j \in Instances \ overtaken' : Noticed(j)'
  <2>1. \A j \in Instances : Running(j)' <=> Running(j)
    BY <1>1 DEF Running
  <2> QED BY <1>0, <1>1, <2>1, NoticedKept
<1>2. ASSUME reload' \notin Soft PROVE Deferred'
  BY <1>2 DEF Deferred
<1>3. ASSUME NEW i \in Instances, BeginRoll(i) PROVE Cycled'
  <2>1. /\ UNCHANGED <<container, docker, softGen, softGenSeen, answer, overtaken>>
        /\ reload' \notin Soft
        /\ \A j \in Instances : task'[j] = "watching" => task[j] = "watching"
    BY <1>0, <1>3 DEF BeginRoll, SetTask, Soft, TypeOK
  <2> QED BY <1>1, <1>2, <2>1, CycledMeans
<1>4. ASSUME NEW i \in Instances, BeginSoftReload(i) PROVE Cycled'
  <2>1. /\ UNCHANGED <<container, docker, softGenSeen, answer, task, retired>>
        /\ softGen' = [softGen EXCEPT ![i] = @ + 1]
        /\ old' = i /\ target' = container[i] /\ reload' = "copying" /\ ~retired[i]
        /\ overtaken \subseteq overtaken'
        /\ i \notin overtaken' => task[i] \in {"watching", "deferring"}
    BY <1>0, <1>4 DEF BeginSoftReload
  <2>2. softGen'[i] # softGenSeen[i] /\ \A j \in Instances \ {i} : softGen'[j] = softGen[j]
    BY <1>0, <2>1, RunnerAssumption DEF Counted, TypeOK
  <2>3. Deferred'
    BY <2>1, <2>2 DEF Deferred
  <2>4. \A j \in Instances : Running(j)' <=> Running(j)
    BY <2>1 DEF Running
  <2>5. \A j \in Instances \ overtaken' : Noticed(j)'
    <3>1. Noticed(i)'
      BY <2>1, <2>2 DEF Noticed
    <3> QED BY <1>0, <2>1, <2>2, <2>4, <3>1, NoticedKept
  <2> QED BY <2>3, <2>5, CycledMeans
<1>5. CASE OldRemoved \/ DiscardShadow
  <2>1. /\ UNCHANGED <<softGen, softGenSeen, task, overtaken>> /\ \E cs : DockerRemoves(cs)
        /\ reload' \notin Soft
    BY <1>5 DEF OldRemoved, DiscardShadow, NextReplica, Soft
  <2> QED BY <1>0, <1>2, <2>1, RemovalNotices, CycledMeans
<1>6. CASE BootShadow \/ Swap \/ DrainEnds
  <2>1. /\ UNCHANGED <<container, docker, softGen, softGenSeen, answer, overtaken>>
        /\ reload' \notin Soft
        /\ \A j \in Instances : task'[j] = "watching" => task[j] = "watching"
    BY <1>0, <1>6 DEF BootShadow, Swap, DrainEnds, instVars, SetTask, Soft, TypeOK
  <2> QED BY <1>1, <1>2, <2>1, CycledMeans
<1>7. CASE RollEnds
  <2>1. /\ UNCHANGED <<container, docker, softGen, overtaken>> /\ Watch({Shadow(old)})
        /\ reload' \notin Soft
    BY <1>7 DEF RollEnds, NextReplica, Soft
  <2> QED BY <1>0, <1>2, <2>1, WatchNotices, CycledMeans
<1>8. CASE SourceCopied
  <2>1. /\ UNCHANGED <<container, docker, softGen, softGenSeen, answer, task, overtaken,
                       retired, old, target>>
        /\ reload \in Soft /\ reload' \in Soft
    BY <1>8 DEF SourceCopied, instVars, Soft
  <2> QED BY <1>0, <1>1, <2>1, CycledMeans DEF Deferred
<1>9. CASE SoftStop \/ SoftStart
  <2>1. /\ UNCHANGED <<container, softGen, softGenSeen, task, overtaken, retired, old, target>>
        /\ reload \in Soft /\ reload' \in Soft
    BY <1>9 DEF SoftStop, SoftStart, Soft
  <2>2. Deferred'
    BY <1>0, <2>1 DEF Deferred
  <2>3. target \in Containers
    BY <1>0, <2>1 DEF Stepping, TypeOK
  <2>4. CASE UNCHANGED <<docker, answer>>
    BY <1>1, <2>1, <2>2, <2>4, CycledMeans
  <2>5. CASE \E s \in Exited : DockerBecomes(target, s)
    BY <1>0, <2>1, <2>2, <2>3, <2>5, StopNotices, CycledMeans
  <2>6. CASE DockerBecomes(target, "running")
    <3>1. answer' = answer
      BY <1>0, <2>6 DEF DockerBecomes, TypeOK
    <3>2. ASSUME NEW j \in Instances, j \notin overtaken PROVE Noticed(j)'
      <4>1. CASE container[j] = target
        <5>1. j = old
          BY <2>3, <4>1, RunnerAssumption DEF Targeted
        <5>2. task[j] = "watching" => softGenSeen[j] # softGen[j]
          BY <1>0, <2>1, <3>2, <5>1 DEF Deferred
        <5> QED BY <2>1, <5>2 DEF Noticed
      <4>2. CASE container[j] # target
        <5>1. container[j] # NoContainer => docker'[container[j]] = docker[container[j]]
          BY <1>0, <2>3, <2>6, <4>2 DEF DockerBecomes, TypeOK
        <5>2. Running(j)' => Running(j)
          BY <2>1, <5>1 DEF Running
        <5> QED BY <1>0, <2>1, <3>1, <3>2, <5>2, NoticedKept
      <4> QED BY <4>1, <4>2
    <3> QED BY <2>1, <2>2, <3>2, CycledMeans
  <2> QED BY <1>9, <2>4, <2>5, <2>6 DEF SoftStop, SoftStart
<1>10. CASE SoftProbeEnds \/ SoftPublish \/ SoftFails
  <2>1. /\ UNCHANGED <<container, docker, softGen, softGenSeen, answer, task, overtaken,
                       retired>>
        /\ reload \in Soft
        /\ \/ reload' \notin Soft
           \/ target' = container[old] /\ old' = old
    BY <1>10 DEF SoftProbeEnds, SoftPublish, SoftFails, SoftReloadEnds, NextReplica,
       softFrame, Soft
  <2>2. Deferred'
    BY <1>0, <2>1 DEF Deferred
  <2> QED BY <1>1, <2>1, <2>2, CycledMeans
<1>11. CASE ReloadEnds \/ \E i \in Instances : SkipReplica(i)
  <2>1. /\ UNCHANGED <<container, docker, softGen, softGenSeen, answer, task, overtaken>>
        /\ reload' \notin Soft
    BY <1>11 DEF ReloadEnds, SkipReplica, instVars, Soft
  <2> QED BY <1>1, <1>2, <2>1, CycledMeans
<1> QED
  BY <1>3, <1>4, <1>5, <1>6, <1>7, <1>8, <1>9, <1>10, <1>11 DEF ReloadStep

LEMMA NextCycled ==
  ASSUME RunnerInv, Next
  PROVE  Cycled'
<1> USE DEF RunnerInv, Inv1, Inv2, Inv3, softVars, emuVars, histVars, reloadVars
<1>0. TypeOK /\ Deferred /\ \A j \in Instances \ overtaken : Noticed(j)
  BY CycledMeans
<1>1. ASSUME UNCHANGED <<container, docker, softGen, softGenSeen, answer, task, overtaken>>,
             reload' \notin Soft
      PROVE  Cycled'
  <2>1. \A j \in Instances : Running(j)' <=> Running(j)
    BY <1>1 DEF Running
  <2> QED BY <1>0, <1>1, <2>1, NoticedKept, CycledMeans DEF Deferred
<1>2. CASE BeginShutdown \/ TakeDown \/ Exit
  <2>1. /\ UNCHANGED <<container, docker, softGen, softGenSeen, answer, task, overtaken>>
        /\ reload' \notin Soft
    BY <1>2, ReloadAlone DEF BeginShutdown, TakeDown, Exit, instVars, Soft
  <2> QED BY <1>1, <2>1
<1>3. CASE SourceChanged
  BY <1>1, <1>3 DEF SourceChanged, instVars, Soft
<1>4. CASE Signal
  <2>1. /\ UNCHANGED <<container, docker, softGen, softGenSeen, answer, task, overtaken,
                       retired, reload, old, target>>
    BY <1>4 DEF Signal, instVars
  <2>2. \A j \in Instances : Running(j)' <=> Running(j)
    BY <2>1 DEF Running
  <2>3. Deferred'
    BY <1>0, <2>1 DEF Deferred
  <2>4. \A j \in Instances \ overtaken : Noticed(j)'
    BY <1>0, <2>1, <2>2, NoticedKept
  <2> QED BY <2>1, <2>3, <2>4, CycledMeans
<1>5. ASSUME NEW c \in Containers, RemoveOne(c) PROVE Cycled'
  <2>1. /\ UNCHANGED <<softGen, softGenSeen, task, overtaken>> /\ DockerRemoves({c})
        /\ reload' \notin Soft
    BY <1>5, ReloadAlone DEF RemoveOne, Soft
  <2> QED BY <1>0, <2>1, RemovalNotices, CycledMeans DEF Deferred
<1>6. ASSUME NEW c \in Containers, Crash(c) PROVE Cycled'
  <2>1. /\ UNCHANGED <<container, softGen, softGenSeen, task, overtaken, retired, reload,
                       old, target>>
        /\ \E s \in Exited : DockerBecomes(c, s)
    BY <1>6 DEF Crash
  <2>2. Deferred'
    BY <1>0, <2>1 DEF Deferred
  <2>3. \A j \in Instances \ overtaken : Noticed(j)'
    BY <1>0, <2>1, StopNotices
  <2> QED BY <2>1, <2>2, <2>3, CycledMeans
<1> QED
  BY <1>2, <1>3, <1>4, <1>5, <1>6, BootCycled, WatcherCycled, ReloadCycled
  DEF Next, CleanupStep

(* Who has no watcher has no need of one.                                    *)
LEMMA WatchedKept ==
  ASSUME Watched, replicas' \subseteq replicas,
         emulator' \in {"running", "signalled"} => emulator \in {"running", "signalled"},
         \A j \in replicas' :
           ~retired'[j] /\ (old' = NoInstance \/ j # Shadow(old)')
             => \/ task'[j] \notin {"none", "stopped"}
                \/ /\ task'[j] = task[j] /\ ~retired[j]
                   /\ old = NoInstance \/ j # Shadow(old)
  PROVE  Watched'
  BY DEF Watched

LEMMA BootWatched ==
  ASSUME RunnerInv, NEW i \in Instances, BootStep(i), boot' = "up"
  PROVE  Watched'
<1> USE DEF RunnerInv, Inv1, Inv2, Inv3, softVars, emuVars, histVars, reloadVars
<1>0. TypeOK
  OBVIOUS
<1>1. emulator' = emulator /\ shuttingDown' = shuttingDown
  BY DEF BootStep, ContainerStarts, ProbeEnds, Publishes, SingleRollProbeEnds, BootFails,
     settleFrame
<1>2. emulator \in {"running", "signalled"} => ~shuttingDown
  BY DEF Closing
<1>3. ASSUME UNCHANGED <<replicas, old, retired, boot>>,
             NEW t, t \notin {"none", "stopped"}, SetTask(i, t)
      PROVE  Watched'
  <2>1. \A j \in replicas : task'[j] = task[j] \/ task'[j] = t
    BY <1>0, <1>3 DEF SetTask, TypeOK
  <2>2. Shadow(old)' = Shadow(old)
    BY <1>3 DEF Shadow
  <2> QED BY <1>1, <1>3, <2>1, <2>2, WatchedKept
<1>4. ASSUME Watch({i}), UNCHANGED <<replicas, retired, boot>>, old' = old \/ i = Shadow(old),
             emulator \in {"running", "signalled"}
      PROVE  Watched'
  <2>1. \A j \in replicas : j # i => task'[j] = task[j]
    BY <1>0, <1>4 DEF Watch, TypeOK
  <2>2. task'[i] \in {"none", "stopped"} => retired[i]
    BY <1>2, <1>4 DEF Watch, Stopping
  <2>3. old' = old => Shadow(old)' = Shadow(old)
    BY DEF Shadow
  <2> QED BY <1>1, <1>4, <2>1, <2>2, <2>3, WatchedKept
<1>5. ASSUME BootSettles(i), UNCHANGED settleFrame, task[i] # "none"
      PROVE  Watched'
  <2>1. CASE emulator \notin {"running", "signalled"}
    BY <1>1, <2>1 DEF Watched
  <2>2. CASE Bare(i) /\ LoopContinues(i) /\ emulator \in {"running", "signalled"}
    <3>1. Watch(replicas) /\ UNCHANGED replicas
      BY <2>2 DEF LoopContinues, Bare
    <3>2. \A j \in replicas : ~Stopping(j)
      BY <1>0, <1>2, <2>2 DEF Looping, Bare, Stopping, TypeOK
    <3>3. \A j \in replicas : task'[j] \notin {"none", "stopped"}
      BY <1>0, <3>1, <3>2 DEF Watch, TypeOK
    <3> QED BY <3>1, <3>3 DEF Watched
  <2>3. CASE Rolled(i) /\ RollContinues(i) /\ emulator \in {"running", "signalled"}
    <3>1. CASE SingleReplica
      BY <1>4, <1>5, <2>3, <3>1 DEF RollContinues, Rolled, settleFrame
    <3>2. CASE ~SingleReplica
      <4>1. /\ SetTask(i, "none") /\ UNCHANGED <<replicas, old, retired>> /\ i = Shadow(old)
        BY <1>5, <2>3, <3>2 DEF RollContinues, Rolled, settleFrame
      <4>2. \A j \in replicas : j # i => task'[j] = task[j]
        BY <1>0, <4>1 DEF SetTask, TypeOK
      <4>3. Shadow(old)' = Shadow(old) /\ old # NoInstance
        BY <2>3, <4>1, OldMeans DEF Shadow, Rolled
      <4>4. boot = "up"
        BY <2>3 DEF RollContinues
      <4> QED BY <1>1, <4>1, <4>2, <4>3, <4>4, WatchedKept
    <3> QED BY <3>1, <3>2
  <2>4. CASE Restarted(i) /\ RestartContinues(i) /\ emulator \in {"running", "signalled"}
    BY <1>4, <1>5, <2>4 DEF RestartContinues, settleFrame
  <2> QED BY <1>5, <2>1, <2>2, <2>3, <2>4 DEF BootSettles
<1>6. ASSUME NEW c \in Containers, ContainerStarts(i, c) PROVE Watched'
  <2>1. SetTask(i, "publishing") \/ SetTask(i, "probing")
    BY <1>6 DEF ContainerStarts
  <2> QED BY <1>3, <1>6, <2>1 DEF ContainerStarts
<1>7. CASE ProbeEnds(i) \/ Publishes(i) \/ SingleRollProbeEnds(i)
  <2>1. task[i] # "none" /\ UNCHANGED settleFrame
    BY <1>7 DEF ProbeEnds, Publishes, SingleRollProbeEnds
  <2>2. CASE BootSettles(i)
    BY <1>5, <2>1, <2>2
  <2>3. CASE ~BootSettles(i)
    <3>1. /\ UNCHANGED <<replicas, old, retired, boot>>
          /\ SetTask(i, "publishing") \/ SetTask(i, "verifying")
      BY <1>7, <2>1, <2>3 DEF ProbeEnds, Publishes, SingleRollProbeEnds, settleFrame
    <3> QED BY <1>3, <3>1
  <2> QED BY <2>2, <2>3
<1>8. CASE BootFails(i)
  <2>1. /\ boot = "up" /\ ~Bare(i) /\ old' = old /\ replicas' \subseteq replicas
        /\ \A j \in Instances \ {i} : task'[j] = task[j]
        /\ \A j \in Instances : retired[j] => retired'[j]
        /\ i \in replicas' => retired'[i]
    BY <1>0, <1>8 DEF BootFails, SetTask, Bare, TypeOK
  <2>2. Shadow(old)' = Shadow(old)
    BY <2>1 DEF Shadow
  <2> QED BY <1>0, <1>1, <2>1, <2>2, WatchedKept DEF TypeOK
<1> QED BY <1>6, <1>7, <1>8 DEF BootStep

LEMMA ReloadWatched ==
  ASSUME RunnerInv, ReloadStep
  PROVE  Watched'
<1> USE DEF RunnerInv, Inv1, Inv2, Inv3, softVars, emuVars, histVars
<1>0. TypeOK /\ Watched /\ ~shuttingDown
  BY ReloadAlone DEF ReloadStep, ReloadEnds, SkipReplica, BeginRoll, BeginSoftReload,
     OldRemoved, BootShadow, Swap, DrainEnds, RollEnds, DiscardShadow, SourceCopied,
     SoftStop, SoftStart, SoftProbeEnds, SoftPublish, SoftFails
<1>1. emulator' = emulator
  BY DEF ReloadStep, ReloadEnds, SkipReplica, BeginRoll, BeginSoftReload,
     OldRemoved, BootShadow, Swap, DrainEnds, RollEnds, DiscardShadow, SourceCopied,
     SoftStop, SoftStart, SoftProbeEnds, SoftPublish, SoftFails, softFrame
<1>2. ASSUME UNCHANGED <<replicas, old, task>>, \A j \in replicas : retired[j] => retired'[j]
      PROVE  Watched'
  <2>1. Shadow(old)' = Shadow(old)
    BY <1>2 DEF Shadow
  <2> QED BY <1>0, <1>1, <1>2, <2>1, WatchedKept
<1>3. ASSUME NEW i \in Instances, BeginRoll(i) PROVE Watched'
  <2>1. /\ emulator \in {"running", "signalled"} /\ old = NoInstance /\ old' = i
        /\ replicas' = replicas \union {Shadow(i)}
        /\ \A j \in replicas : retired[j] => retired'[j]
        /\ \A j \in replicas : task'[j] = task[j] \/ task'[j] = "booting"
    BY <1>0, <1>3, ReloadAlone DEF BeginRoll, SetTask, Stepping, TypeOK
  <2>2. Shadow(old)' = Shadow(i) /\ i # NoInstance
    BY <2>1, InstanceMeans DEF Shadow
  <2> QED BY <1>0, <2>1, <2>2 DEF Watched
<1>4. ASSUME NEW i \in Instances, BeginSoftReload(i) PROVE Watched'
  <2>1. /\ old = NoInstance /\ UNCHANGED <<replicas, task, retired>>
    BY <1>4 DEF BeginSoftReload, Stepping
  <2> QED BY <1>0, <1>1, <2>1, WatchedKept
<1>5. CASE BootShadow
  <2>1. /\ UNCHANGED <<old, retired>> /\ replicas' \subseteq replicas
        /\ \A j \in replicas : task'[j] = task[j] \/ task'[j] = "booting"
    BY <1>0, <1>5 DEF BootShadow, SetTask, TypeOK
  <2>2. Shadow(old)' = Shadow(old)
    BY <2>1 DEF Shadow
  <2> QED BY <1>0, <1>1, <2>1, <2>2, WatchedKept
<1>6. CASE Swap
  BY <1>0, <1>2, <1>6 DEF Swap, TypeOK
<1>7. CASE RollEnds
  <2>1. PICK n \in Instances : n = Shadow(old)
    BY <1>7, OldMeans DEF RollEnds
  <2>2. Watch({n}) /\ retired' = retired /\ replicas' \subseteq replicas
    BY <1>7, <2>1 DEF RollEnds
  <2>3. \A j \in replicas : j # n => task'[j] = task[j]
    BY <1>0, <2>2 DEF Watch, TypeOK
  <2>4. task'[n] \in {"none", "stopped"} => retired[n]
    BY <1>0, <2>2 DEF Watch, Stopping
  <2> QED BY <1>0, <1>1, <2>1, <2>2, <2>3, <2>4, WatchedKept
<1>8. CASE DiscardShadow \/ SoftPublish \/ SoftFails \/ SoftProbeEnds
  <2>1. reload \in Soft \union {"discarding"} /\ UNCHANGED <<replicas, task, retired>>
    BY <1>8 DEF DiscardShadow, SoftPublish, SoftFails, SoftProbeEnds, softFrame, Soft
  <2>2. Shadow(old) \notin replicas
    BY <2>1, OldListed DEF Soft
  <2> QED BY <1>0, <1>1, <2>1, <2>2, WatchedKept
<1>9. CASE ReloadEnds \/ \E i \in Instances : SkipReplica(i)
  BY <1>2, <1>9 DEF ReloadEnds, SkipReplica, instVars
<1>10. CASE OldRemoved \/ DrainEnds \/ SourceCopied \/ SoftStop \/ SoftStart
  BY <1>2, <1>10 DEF OldRemoved, DrainEnds, SourceCopied, SoftStop, SoftStart, instVars
<1> QED
  BY <1>3, <1>4, <1>5, <1>6, <1>7, <1>8, <1>9, <1>10 DEF ReloadStep

LEMMA NextWatched ==
  ASSUME RunnerInv, Next, boot' = "up"
  PROVE  Watched'
<1> USE DEF RunnerInv, Inv1, Inv2, Inv3, softVars, emuVars, histVars, reloadVars
<1>0. TypeOK
  OBVIOUS
<1>1. ASSUME NEW i \in Instances, WatcherStep(i) PROVE Watched'
  <2>1. /\ UNCHANGED <<replicas, old, emulator, boot>>
        /\ \A j \in Instances \ {i} : task'[j] = task[j]
        /\ \A j \in Instances : retired[j] => retired'[j]
    BY <1>0, <1>1, WatchTouches DEF WatcherStep, SleepEnds, ExitSeen, DeferEnds, Degrade,
       BackoffEnds, Reboot, SetTask, TypeOK
  <2>2. task'[i] \in {"none", "stopped"} => retired'[i] \/ shuttingDown
    BY <1>0, <1>1 DEF WatcherStep, SleepEnds, ExitSeen, DeferEnds, Degrade,
       BackoffEnds, Reboot, SetTask, Watch, Stopping, TypeOK
  <2>3. emulator \in {"running", "signalled"} => ~shuttingDown
    BY DEF Closing
  <2>4. Shadow(old)' = Shadow(old)
    BY <2>1 DEF Shadow
  <2>5. CASE emulator \in {"running", "signalled"}
    BY <1>0, <2>1, <2>2, <2>3, <2>4, <2>5, WatchedKept DEF TypeOK
  <2> QED BY <2>1, <2>5 DEF Watched
<1>2. CASE BeginShutdown \/ TakeDown \/ Exit \/ \E c \in Containers : RemoveOne(c)
  <2>1. emulator' \notin {"running", "signalled"}
    BY <1>2 DEF BeginShutdown, TakeDown, Exit, RemoveOne
  <2> QED BY <2>1 DEF Watched
<1>3. CASE Signal \/ SourceChanged \/ \E c \in Containers : Crash(c)
  <2>1. /\ UNCHANGED <<replicas, old, retired, task, boot>>
        /\ emulator' \in {"running", "signalled"} => emulator \in {"running", "signalled"}
    BY <1>3 DEF Signal, SourceChanged, Crash, instVars
  <2>2. Shadow(old)' = Shadow(old)
    BY <2>1 DEF Shadow
  <2> QED BY <2>1, <2>2, WatchedKept
<1>4. CASE ReloadStep
  BY <1>4, ReloadWatched
<1> QED
  BY <1>1, <1>2, <1>3, <1>4, BootWatched DEF Next, CleanupStep

LEMMA NextRunnerInv ==
  ASSUME RunnerInv, Next
  PROVE  RunnerInv'
<1>1. Inv1'
  BY NextTypeOK, NextStepping, NextCounted, NextListed, NextLooping DEF Inv1
<1>2. Inv2'
  BY NextStopped, NextClosing, NextPaired, NextTargeted DEF Inv2
<1>3. Inv3'
  BY NextRouted, NextDropped, NextCycled, NextWatched DEF Inv3
<1> QED BY <1>1, <1>2, <1>3 DEF RunnerInv


LEMMA StutterRunnerInv ==
  ASSUME RunnerInv, UNCHANGED vars
  PROVE  RunnerInv'
<1> USE DEF vars, instVars, softVars, reloadVars, emuVars, histVars
<1>1. TypeOK'
  BY DEF RunnerInv, Inv1, TypeOK
<1>2. Stepping' /\ Counted' /\ Looping' /\ (\A i \in Instances : Pristine(i) <=> Pristine(i)')
  BY DEF RunnerInv, Inv1, Stepping, Counted, Looping, Pristine
<1>3. Shadow(old)' = Shadow(old)
  BY DEF Shadow
<1>4. Listed'
  BY <1>2, <1>3 DEF RunnerInv, Inv1, Listed, Pristine
<1>5. Told' /\ Departed' /\ Closing' /\ Paired' /\ Targeted'
  BY <1>3 DEF RunnerInv, Inv2, Told, Departed, Closing, Paired, Targeted
<1>6. Routed' /\ Dropped' /\ (Watched => Watched')
  BY <1>3 DEF RunnerInv, Inv3, Routed, Dropped, Watched
<1>7. Cycled'
  BY DEF RunnerInv, Inv3, Cycled, Running
<1> QED BY <1>1, <1>2, <1>4, <1>5, <1>6, <1>7 DEF RunnerInv, Inv1, Inv2, Inv3

THEOREM RunnerInvariant == Spec => []RunnerInv
<1>1. RunnerInv /\ [Next]_vars => RunnerInv'
  BY NextRunnerInv, StutterRunnerInv
<1> QED BY InitRunnerInv, <1>1, PTL DEF Spec

-----------------------------------------------------------------------------
(* What follows *)

THEOREM RunnerTypeCorrect == Spec => []TypeOK
<1>1. RunnerInv => TypeOK
  BY DEF RunnerInv, Inv1
<1> QED BY <1>1, RunnerInvariant, PTL

LEMMA NothingOrphaned == RunnerInv => NoOrphan
<1> SUFFICES ASSUME RunnerInv PROVE NoOrphan
  OBVIOUS
<1> USE DEF RunnerInv, Inv1, Inv2
<1>1. ASSUME NEW c \in Containers, docker[c] # "absent"
      PROVE  \/ \E i \in replicas : container[i] = c
             \/ reload = "discarding" /\ c = container[Shadow(old)]
             \/ Stray(c)
  <2>1. PICK i \in Instances : container[i] = c
    BY <1>1 DEF Paired
  <2>2. CASE i \notin replicas /\ i \notin unawaited
    BY <2>1, <2>2, RunnerAssumption DEF Departed
  <2> QED BY <2>1, <2>2 DEF Stray
<1>2. ASSUME emulator = "exited", NEW c \in Containers, docker[c] # "absent"
      PROVE  Stray(c)
  <2>1. PICK i \in Instances : container[i] = c
    BY <1>2 DEF Paired
  <2>2. reload = "idle" /\ cleaning = {}
    BY <1>2 DEF Stepping, Closing
  <2>3. i \in unawaited
    BY <1>2, <2>1, <2>2, RunnerAssumption DEF Departed, Closing
  <2> QED BY <2>1, <2>3 DEF Stray
<1> QED BY <1>1, <1>2 DEF NoOrphan

(* No replica's container is lost, and none outlives the command, but for a  *)
(* replica torn down in the middle of its own restart.                       *)
THEOREM RunnerForgetsNothing == Spec => []NoOrphan
  BY NothingOrphaned, RunnerInvariant, PTL

LEMMA SingleSlot ==
  ASSUME SingleReplica, NEW s \in Slots, NEW r \in Slots
  PROVE  s = r
<1> DEFINE n == ComputeReplicaCount(DesiredCount, MaxTasks)
<1>1. n \in Nat \ {0}
  BY SlotsMeans
<1>2. Cardinality(0 .. n - 1) = n
  <2>1. 0 \in Int /\ n - 1 \in Int
    BY <1>1
  <2>2. Cardinality(0 .. n - 1) = IF 0 > n - 1 THEN 0 ELSE (n - 1) - 0 + 1
    BY <2>1, FS_Interval
  <2> QED BY <1>1, <2>2
<1>3. n = 1
  BY <1>2 DEF SingleReplica, Slots
<1> QED BY <1>3 DEF Slots

(* Two containers that run are the same one's, but for the strays.           *)
LEMMA PortsFree ==
  ASSUME RunnerInv, SingleReplica,
         NEW c \in Containers, docker[c] = "running", ~Stray(c),
         NEW d \in Containers, docker[d] = "running", ~Stray(d)
  PROVE  c = d
<1> USE DEF RunnerInv, Inv1, Inv2
<1>1. PICK i \in Instances : container[i] = c
  BY DEF Paired
<1>2. PICK j \in Instances : container[j] = d
  BY DEF Paired
<1>3. i[1] = j[1] /\ (reload \notin {"idle", "next"} => i[1] = old[1])
  BY SingleSlot, InstanceMeans, OldMeans
<1>4. /\ i \in replicas \/ (reload = "discarding" /\ i = Shadow(old))
      /\ j \in replicas \/ (reload = "discarding" /\ j = Shadow(old))
  BY <1>1, <1>2, RunnerAssumption DEF Departed, Stray
<1>5. i = j
  <2>1. CASE reload = "discarding"
    BY <1>3, <1>4, <2>1, OldMeans DEF Listed
  <2>2. CASE reload # "discarding" /\ i # j
    <3>1. /\ i \in replicas /\ j \in replicas /\ old # NoInstance
          /\ old \in replicas /\ Shadow(old) \in replicas
          /\ i = Shadow(old) \/ j = Shadow(old)
      BY <1>3, <1>4, <2>2 DEF Listed
    <3>2. reload \in {"clearing", "cleared"}
      BY <2>2, <3>1 DEF Listed, Stepping, Roll
    <3>3. container[Shadow(old)] = NoContainer
      BY <3>2 DEF Listed, Pristine
    <3> QED BY <1>1, <1>2, <3>1, <3>3, RunnerAssumption
  <2> QED BY <2>1, <2>2
<1> QED BY <1>1, <1>2, <1>5

(* The host port of a service of one replica is never asked for twice.       *)
THEOREM RunnerFreesHostPort == Spec => []HostPortFree
<1>1. RunnerInv => HostPortFree
  <2> SUFFICES ASSUME RunnerInv, SingleReplica
               PROVE  Cardinality({c \in Containers : docker[c] = "running" /\ ~Stray(c)}) <= 1
    BY DEF HostPortFree
  <2> DEFINE busy == {c \in Containers : docker[c] = "running" /\ ~Stray(c)}
  <2>1. CASE busy = {}
    BY <2>1, FS_EmptySet
  <2>2. CASE busy # {}
    <3>1. PICK c \in busy : TRUE
      BY <2>2
    <3>2. busy = {c}
      BY <3>1, PortsFree
    <3>3. Cardinality({c}) = 1
      BY FS_Singleton
    <3>4. Cardinality(busy) <= 1
      <4> HIDE DEF busy
      <4> QED BY <3>2, <3>3
    <3> QED BY <3>4
  <2> QED BY <2>1, <2>2
<1> QED BY <1>1, RunnerInvariant, PTL

(* Once the service is up, what traffic is sent to exists, and every live    *)
(* replica has its watcher.                                                  *)
THEOREM RunnerAttends == Spec => []Attended
<1>1. RunnerInv => Attended
  <2> SUFFICES ASSUME RunnerInv, boot = "up" PROVE RoutesLead /\ Watched
    BY DEF Attended
  <2>1. Watched
    BY DEF RunnerInv, Inv3
  <2>2. RoutesLead
    BY DEF RunnerInv, Inv2, Inv3, Routed, Paired, RoutesLead
  <2> QED BY <2>1, <2>2
<1> QED BY <1>1, RunnerInvariant, PTL

(* Only a watcher decides what an exit means.                                *)
LEMMA OnlyWatcherDecides ==
  ASSUME RunnerInv, Next, NEW i \in Instances, task[i] = "watching",
         task'[i] \in {"backoff", "leaving"}
  PROVE  ExitSeen(i)
<1> USE DEF RunnerInv, Inv1
<1>0. TypeOK /\ task'[i] # task[i]
  OBVIOUS
<1>1. ASSUME NEW is, Watch(is) PROVE FALSE
  BY <1>0, <1>1 DEF Watch, TypeOK
<1>2. ASSUME NEW j \in Instances, BootStep(j) PROVE FALSE
  <2>1. task[j] \in InFlight
    BY <1>2 DEF BootStep, ContainerStarts, ProbeEnds, Publishes, SingleRollProbeEnds,
       BootFails, InFlight
  <2>2. CASE BootSettles(j)
    BY <1>0, <2>1, <2>2, SettleTasks DEF InFlight
  <2>3. CASE ~BootSettles(j)
    BY <1>0, <1>2, <2>3 DEF BootStep, ContainerStarts, ProbeEnds, Publishes,
       SingleRollProbeEnds, BootFails, SetTask, TypeOK
  <2> QED BY <2>2, <2>3
<1>3. ASSUME NEW j \in Instances, WatcherStep(j), ~ExitSeen(i) PROVE FALSE
  BY <1>0, <1>1, <1>3 DEF WatcherStep, SleepEnds, ExitSeen, DeferEnds, Degrade,
     BackoffEnds, Reboot, SetTask, TypeOK
<1>4. ASSUME ReloadStep PROVE FALSE
  BY <1>0, <1>1, <1>4 DEF ReloadStep, ReloadEnds, SkipReplica, BeginRoll, BeginSoftReload,
     OldRemoved, BootShadow, Swap, DrainEnds, RollEnds, DiscardShadow, SourceCopied,
     SoftStop, SoftStart, SoftProbeEnds, SoftPublish, SoftFails, softFrame, instVars,
     SetTask, TypeOK
<1>5. ASSUME CleanupStep \/ SourceChanged \/ Signal \/ \E c \in Containers : Crash(c)
      PROVE  FALSE
  BY <1>0, <1>5 DEF CleanupStep, BeginShutdown, TakeDown, RemoveOne, Exit, SourceChanged,
     Signal, Crash, instVars
<1> QED BY <1>2, <1>3, <1>4, <1>5 DEF Next

Decides ==
  \A i \in Instances \ overtaken :
    task[i] = "watching" /\ task'[i] \in {"backoff", "leaving"} => ~Running(i)

(* The stop of a soft reload that began while a watcher waited is never      *)
(* taken for a crash, however late the answer comes.                         *)
THEOREM RunnerTellsCrashes == Spec => CrashMeansCrash
<1>1. RunnerInv /\ Next => Decides
  <2> SUFFICES ASSUME RunnerInv, Next, NEW i \in Instances \ overtaken,
                      task[i] = "watching", task'[i] \in {"backoff", "leaving"}
               PROVE  ~Running(i)
    BY DEF Decides
  <2>1. ExitSeen(i)
    BY OnlyWatcherDecides
  <2>2. ~ReloadSeen(i) /\ answer[i] # "pending"
    BY <2>1 DEF ExitSeen, SetTask, RunnerInv, Inv1, TypeOK
  <2>3. Noticed(i)
    BY CycledMeans DEF RunnerInv, Inv3
  <2> QED BY <2>2, <2>3 DEF Noticed, ReloadSeen
<1>2. UNCHANGED vars => Decides
  BY DEF Decides, vars, instVars
<1>3. RunnerInv /\ [Next]_vars => [Decides]_vars
  BY <1>1
<1> QED BY <1>3, RunnerInvariant, PTL DEF Spec, CrashMeansCrash, Decides

-----------------------------------------------------------------------------
(* A service of several replicas keeps serving *)

(* Replica i serves. *)
Serves(i) ==
  /\ container[i] # NoContainer /\ routes[i] = container[i]
  /\ docker[container[i]] = "running"

Several == ~SingleReplica /\ boot # "failed" /\ emulator \in {"running", "signalled"}

(* Replica i need not serve: it boots, or the reload has it in its hands.    *)
Excused(i) ==
  \/ boot = "booting" /\ task[i] # "none"
  \/ i = Shadow(old) /\ reload = "shadow"
  \/ i = old /\ reload \in {"draining", "retiring", "retired"}
  \/ i = old /\ reload \in Soft /\ i \notin overtaken

Waits(t) == t \in {"watching", "deferring"}

(* Replica i serves, and its watcher waits: nobody else will take it out.    *)
Steady(i) ==
  /\ Serves(i) /\ ~retired[i]
  /\ boot = "up" /\ (old = NoInstance \/ i # Shadow(old)) =>
       Waits(task[i]) /\ i \notin overtaken

(* Every slot has a replica, and it serves where nothing exited by itself    *)
(* and docker refused nothing.                                               *)
Bright ==
  Several =>
    /\ boot = "up" => \A s \in Slots : \E i \in replicas : i[1] = s
    /\ \A i \in replicas : i[1] \in dark \/ Excused(i) \/ Steady(i)

(* Whom a soft reload may overtake, and who probes after publishing.         *)
Unspoilt ==
  /\ boot # "up" => overtaken = {}
  /\ \A i \in overtaken : task[i] # "none" \/ retired[i]
  /\ reload \in Roll => Shadow(old) \notin overtaken
  /\ \A i \in Instances : task[i] = "verifying" => SingleReplica

ServingInv == RunnerInv /\ Bright /\ Unspoilt


LEMMA SeveralBefore ==
  ASSUME RunnerInv, Next, Several'
  PROVE  Several
<1>1. /\ boot = "failed" => boot' = "failed"
      /\ emulator' \in {"running", "signalled"} => emulator \in {"running", "signalled"}
  <2>1. ASSUME NEW i \in Instances, BootStep(i)
        PROVE  /\ boot = "failed" => boot' = "failed"
               /\ emulator' = emulator \/ (emulator = "running" /\ emulator' = "signalled")
    BY <2>1 DEF BootStep, ContainerStarts, ProbeEnds, Publishes, SingleRollProbeEnds,
       BootFails, BootSettles, LoopContinues, RollContinues, RestartContinues, Bare,
       settleFrame, emuVars
  <2>2. ASSUME NEW i \in Instances, WatcherStep(i) PROVE UNCHANGED <<boot, emulator>>
    BY <2>2 DEF WatcherStep, SleepEnds, ExitSeen, DeferEnds, Degrade, BackoffEnds, Reboot,
       emuVars
  <2>3. ASSUME ReloadStep PROVE UNCHANGED <<boot, emulator>>
    BY <2>3 DEF ReloadStep, ReloadEnds, SkipReplica, BeginRoll, BeginSoftReload,
       OldRemoved, BootShadow, Swap, DrainEnds, RollEnds, DiscardShadow, SourceCopied,
       SoftStop, SoftStart, SoftProbeEnds, SoftPublish, SoftFails, softFrame, emuVars
  <2>4. ASSUME CleanupStep \/ SourceChanged \/ Signal \/ \E c \in Containers : Crash(c)
        PROVE  /\ boot' = boot
               /\ emulator' \in {"running", "signalled"}
                    => emulator \in {"running", "signalled"}
    BY <2>4 DEF CleanupStep, BeginShutdown, TakeDown, RemoveOne, Exit, SourceChanged,
       Signal, Crash, emuVars
  <2> QED BY <2>1, <2>2, <2>3, <2>4 DEF Next
<1> QED BY <1>1 DEF Several

LEMMA UnspoiltKept ==
  ASSUME Unspoilt, boot' # "up" => boot # "up", overtaken' = overtaken,
         reload' \in Roll => reload \in Roll /\ old' = old,
         \A i \in Instances :
           /\ i \in overtaken =>
                \/ task'[i] # "none" \/ (task'[i] = task[i] /\ (retired[i] => retired'[i]))
                \/ retired'[i]
           /\ task'[i] = "verifying" => task[i] = "verifying" \/ SingleReplica,
         overtaken \subseteq Instances
  PROVE  Unspoilt'
<1>1. old' = old => Shadow(old)' = Shadow(old)
  BY DEF Shadow
<1> QED BY <1>1 DEF Unspoilt

LEMMA BootUnspoilt ==
  ASSUME RunnerInv, Unspoilt, NEW i \in Instances, BootStep(i)
  PROVE  Unspoilt'
<1> USE DEF RunnerInv, Inv1, softVars, emuVars, histVars, reloadVars
<1>0. TypeOK /\ overtaken \subseteq Instances
  BY DEF TypeOK
<1>1. overtaken' = overtaken
  BY DEF BootStep, ContainerStarts, ProbeEnds, Publishes, SingleRollProbeEnds, BootFails,
     settleFrame
<1>2. Bare(i) \/ Rolled(i) => i \notin overtaken
  BY DEF Unspoilt, Bare, Rolled, Roll
<1>3. ASSUME task[i] # "none", BootSettles(i), UNCHANGED settleFrame PROVE Unspoilt'
  <2>1. /\ boot' # "up" => boot # "up"
        /\ reload' \in Roll => reload \in Roll /\ old' = old
    BY <1>3 DEF BootSettles, LoopContinues, RollContinues, RestartContinues, Bare,
       NextReplica, Rolled, Roll
  <2>2. \A j \in Instances : task'[j] = "verifying" => task[j] = "verifying"
    BY <1>3, SettleTasks
  <2>3. i \in overtaken => task'[i] # "none"
    <3>1. i \in overtaken => Watch({i})
      BY <1>2, <1>3 DEF BootSettles, RestartContinues
    <3> QED BY <1>0, <3>1, WatchTouches
  <2>4. \A j \in Instances \ {i} : task'[j] = task[j] \/ task'[j] # "none"
    BY <1>3, SettleTasks
  <2> QED BY <1>0, <1>1, <1>3, <2>1, <2>2, <2>3, <2>4, UnspoiltKept DEF settleFrame
<1>4. ASSUME NEW t, SetTask(i, t), t # "none", t # "verifying" \/ SingleReplica,
             UNCHANGED <<boot, reload, old, retired>>
      PROVE  Unspoilt'
  <2>1. \A j \in Instances : task'[j] = IF j = i THEN t ELSE task[j]
    BY <1>0, <1>4 DEF SetTask, TypeOK
  <2> QED BY <1>0, <1>1, <1>4, <2>1, UnspoiltKept
<1>5. ASSUME NEW c \in Containers, ContainerStarts(i, c) PROVE Unspoilt'
  <2>1. SetTask(i, "publishing") \/ SetTask(i, "probing")
    BY <1>5 DEF ContainerStarts
  <2> QED BY <1>4, <1>5, <2>1 DEF ContainerStarts
<1>6. CASE ProbeEnds(i) \/ Publishes(i) \/ SingleRollProbeEnds(i)
  <2>1. task[i] # "none" /\ UNCHANGED settleFrame
    BY <1>6 DEF ProbeEnds, Publishes, SingleRollProbeEnds
  <2>2. CASE BootSettles(i)
    BY <1>3, <2>1, <2>2
  <2>3. CASE ~BootSettles(i)
    <3>1. /\ UNCHANGED <<boot, reload, old, retired>>
          /\ SetTask(i, "publishing") \/ (SetTask(i, "verifying") /\ SingleReplica)
      BY <1>6, <2>1, <2>3 DEF ProbeEnds, Publishes, SingleRollProbeEnds, settleFrame
    <3> QED BY <1>4, <3>1
  <2> QED BY <2>2, <2>3
<1>7. CASE BootFails(i)
  <2>1. /\ \A j \in Instances \ {i} : task'[j] = task[j] /\ retired'[j] = retired[j]
        /\ task'[i] \in {"none", "stopped"}
        /\ boot' # "up" => boot # "up" \/ Bare(i)
        /\ reload' \in Roll => reload \in Roll /\ old' = old
        /\ Restarted(i) => retired'[i]
    BY <1>0, <1>7 DEF BootFails, SetTask, Rolled, Bare, Restarted, Roll, TypeOK
  <2>2. boot' # "up" => boot # "up"
    BY <2>1 DEF Bare
  <2>3. i \in overtaken => retired'[i]
    BY <1>2, <2>1 DEF Restarted
  <2> QED BY <1>0, <1>1, <2>1, <2>2, <2>3, UnspoiltKept
<1> QED BY <1>5, <1>6, <1>7 DEF BootStep

LEMMA ReloadUnspoilt ==
  ASSUME RunnerInv, Unspoilt, ReloadStep
  PROVE  Unspoilt'
<1> USE DEF RunnerInv, Inv1, Inv2, Inv3, softVars, emuVars, histVars
<1>0. TypeOK /\ overtaken \subseteq Instances /\ boot = "up" /\ boot' = boot
  BY ReloadAlone DEF ReloadStep, ReloadEnds, SkipReplica, BeginRoll, BeginSoftReload,
     OldRemoved, BootShadow, Swap, DrainEnds, RollEnds, DiscardShadow, SourceCopied,
     SoftStop, SoftStart, SoftProbeEnds, SoftPublish, SoftFails, softFrame, TypeOK
<1>1. ASSUME NEW i \in Instances, BeginRoll(i) PROVE Unspoilt'
  <2>1. i[2] < MaxReloads
    BY <1>0, <1>1, InstanceMeans, RunnerAssumption DEF BeginRoll, Counted, TypeOK
  <2>2. PICK n \in Instances : n = Shadow(i) /\ n # i
    BY <2>1, ShadowMeans
  <2>3. Pristine(n)
    BY <1>1, <2>1, <2>2, ShadowMeans, InstanceMeans DEF BeginRoll, Listed, Stepping
  <2>4. /\ old' = i /\ overtaken' = overtaken
        /\ \A j \in Instances : retired[j] => retired'[j]
        /\ \A j \in Instances : task'[j] \in {task[j], "booting"}
    BY <1>0, <1>1 DEF BeginRoll, SetTask, TypeOK
  <2>5. Shadow(old)' = n
    BY <2>2, <2>4 DEF Shadow
  <2> QED BY <1>0, <2>3, <2>4, <2>5 DEF Unspoilt, Pristine
<1>2. ASSUME NEW i \in Instances, BeginSoftReload(i) PROVE Unspoilt'
  <2>1. /\ UNCHANGED <<task, retired>> /\ reload' \notin Roll
        /\ overtaken' \subseteq overtaken \union {i}
    BY <1>2 DEF BeginSoftReload, Roll
  <2>2. task[i] # "none"
    BY <1>0, <1>2, ReloadAlone DEF BeginSoftReload, Watched, Stepping
  <2> QED BY <1>0, <2>1, <2>2 DEF Unspoilt
<1>3. CASE BootShadow \/ Swap \/ RollEnds
  <2>1. /\ overtaken' = overtaken
        /\ reload' \in Roll => reload \in Roll /\ old' = old
        /\ \A j \in Instances : retired[j] => retired'[j]
    BY <1>0, <1>3 DEF BootShadow, Swap, RollEnds, NextReplica, Roll, TypeOK
  <2>2. \A j \in Instances :
          task'[j] \in {task[j], "booting", "stopped", "sleeping", "watching"}
    BY <1>0, <1>3, WatchTouches DEF BootShadow, Swap, RollEnds, SetTask, TypeOK
  <2> QED BY <1>0, <2>1, <2>2, UnspoiltKept
<1>4. CASE \/ ReloadEnds \/ OldRemoved \/ DrainEnds \/ DiscardShadow \/ SourceCopied
           \/ SoftStop \/ SoftStart \/ SoftProbeEnds \/ SoftPublish \/ SoftFails
           \/ \E i \in Instances : SkipReplica(i)
  <2>1. /\ UNCHANGED <<overtaken, task, retired>>
        /\ reload' \in Roll => reload \in Roll /\ old' = old
    BY <1>4 DEF ReloadEnds, OldRemoved, DrainEnds, DiscardShadow, SourceCopied,
       SoftStop, SoftStart, SoftProbeEnds, SoftPublish, SoftFails, SkipReplica,
       SoftReloadEnds, NextReplica, softFrame, instVars, Roll
  <2> QED BY <1>0, <2>1, UnspoiltKept
<1> QED BY <1>1, <1>2, <1>3, <1>4 DEF ReloadStep

LEMMA NextUnspoilt ==
  ASSUME RunnerInv, Unspoilt, Next
  PROVE  Unspoilt'
<1> USE DEF RunnerInv, Inv1, softVars, emuVars, histVars, reloadVars, instVars
<1>0. TypeOK /\ overtaken \subseteq Instances
  BY DEF TypeOK
<1>1. ASSUME NEW i \in Instances, WatcherStep(i) PROVE Unspoilt'
  <2>1. /\ UNCHANGED <<boot, reload, old, overtaken>>
        /\ \A j \in Instances : retired[j] => retired'[j]
        /\ \A j \in Instances \ {i} : task'[j] = task[j]
        /\ task'[i] \notin {"none", "verifying"}
    BY <1>0, <1>1, WatchTouches DEF WatcherStep, SleepEnds, ExitSeen, DeferEnds, Degrade,
       BackoffEnds, Reboot, SetTask, TypeOK
  <2> QED BY <1>0, <2>1, UnspoiltKept
<1>2. CASE CleanupStep \/ SourceChanged \/ Signal \/ \E c \in Containers : Crash(c)
  <2>1. /\ UNCHANGED <<boot, overtaken, task>>
        /\ reload' \in Roll => reload \in Roll /\ old' = old
        /\ \A j \in Instances : retired[j] => retired'[j]
    BY <1>0, <1>2 DEF CleanupStep, BeginShutdown, TakeDown, RemoveOne, Exit, SourceChanged,
       Signal, Crash, Roll, TypeOK
  <2> QED BY <1>0, <2>1, UnspoiltKept
<1> QED BY <1>1, <1>2, BootUnspoilt, ReloadUnspoilt DEF Next


(* Who is neither idle nor waiting is excused.                               *)
LEMMA BusyExcused ==
  ASSUME RunnerInv, Bright, Several, NEW i \in replicas, i[1] \notin dark,
         task[i] # "none", ~Waits(task[i])
  PROVE  Excused(i)
<1> USE DEF RunnerInv, Inv1, Inv3
<1>1. CASE boot = "booting"
  BY <1>1 DEF Excused
<1>2. CASE boot = "up" /\ Steady(i)
  <2>1. old # NoInstance /\ i = Shadow(old)
    BY <1>2 DEF Steady, Waits
  <2>2. reload \in Roll \ {"discarding"}
    BY <2>1 DEF Listed
  <2>3. reload = "shadow"
    BY <2>1, <2>2 DEF Listed, Stepping, Several, Roll
  <2> QED BY <2>1, <2>3 DEF Excused
<1> QED BY <1>1, <1>2 DEF Bright, Several, TypeOK

LEMMA BrightKept ==
  ASSUME Bright, Several, UNCHANGED <<replicas, old, reload, boot, overtaken>>,
         dark \subseteq dark',
         \A i \in replicas :
           \/ i[1] \in dark'
           \/ Excused(i) /\ (task[i] # "none" => task'[i] # "none")
           \/ /\ Serves(i) => Serves(i)'
              /\ retired'[i] = retired[i]
              /\ Waits(task[i]) => Waits(task'[i])
              /\ task[i] # "none" => task'[i] # "none"
  PROVE  Bright'
<1>1. Shadow(old)' = Shadow(old)
  BY DEF Shadow
<1>2. ASSUME NEW i \in replicas, Excused(i), task[i] # "none" => task'[i] # "none"
      PROVE  Excused(i)'
  BY <1>1, <1>2 DEF Excused
<1>3. ASSUME NEW i \in replicas, Steady(i), Serves(i) => Serves(i)',
             retired'[i] = retired[i], Waits(task[i]) => Waits(task'[i])
      PROVE  Steady(i)'
  BY <1>1, <1>3 DEF Steady, Waits
<1>4. ASSUME NEW i \in replicas
      PROVE  i[1] \in dark' \/ Excused(i)' \/ Steady(i)'
  <2>1. i[1] \in dark' \/ Excused(i) \/ Steady(i)
    BY DEF Bright
  <2> QED BY <1>2, <1>3, <2>1
<1>5. (boot = "up" => \A s \in Slots : \E i \in replicas : i[1] = s)'
  BY DEF Bright
<1> QED BY <1>4, <1>5 DEF Bright

(* A step of the chain of i that leaves it busy.                             *)
LEMMA BusyBright ==
  ASSUME RunnerInv, Bright, Several, UNCHANGED <<replicas, old, reload, boot, overtaken>>,
         dark \subseteq dark',
         NEW i \in Instances, task[i] # "none", ~Waits(task[i]), task'[i] # "none",
         \A j \in Instances \ {i} : /\ Serves(j) => Serves(j)'
                                    /\ retired'[j] = retired[j] /\ task'[j] = task[j]
  PROVE  Bright'
<1>1. i \in replicas /\ i[1] \notin dark => Excused(i)
  BY BusyExcused
<1>2. replicas \subseteq Instances
  BY DEF RunnerInv, Inv1, TypeOK
<1> QED BY <1>1, <1>2, BrightKept

LEMMA ServesKept ==
  ASSUME NEW i, container'[i] = container[i], routes'[i] = routes[i],
         container[i] # NoContainer => docker'[container[i]] = docker[container[i]]
  PROVE  Serves(i) => Serves(i)'
  BY DEF Serves

LEMMA WatchesOn ==
  ASSUME TypeOK, Closing, emulator \in {"running", "signalled"}, NEW is, Watch(is),
         NEW i \in Instances, i \in is, ~retired[i], container[i] # NoContainer
  PROVE  task'[i] = "watching"
  BY DEF Closing, Watch, Stopping

(* The boot loop has published replica i.                                    *)
LEMMA LoopBright ==
  ASSUME RunnerInv, Unspoilt, Bright, Several, NEW i \in Instances, task[i] = "publishing",
         Bare(i), LoopContinues(i), UNCHANGED settleFrame, dark \subseteq dark',
         i[1] \in dark' \/ Serves(i)',
         \A j \in Instances \ {i} : routes'[j] = routes[j]
  PROVE  Bright'
<1> USE DEF RunnerInv, Inv1, Inv2
<1>0. TypeOK /\ boot = "booting"
  BY DEF Bare
<1>1. PICK m \in Slots : /\ replicas = {j \in Instances : j[1] <= m /\ j[2] = 0}
                         /\ \A j \in Instances \ {<<m, 0>>} : task[j] = "none"
  BY <1>0 DEF Looping
<1>2. i[1] = m /\ m \in Nat
  BY <1>1, InstanceMeans, SlotsMeans
<1>3. reload = "idle" /\ reload' = "idle" /\ old = NoInstance /\ old' = NoInstance
  BY <1>0 DEF Stepping, LoopContinues
<1>4. \A j \in replicas : j[1] \in dark' \/ Serves(j)'
  <2>1. ASSUME NEW j \in replicas, j # i, j[1] \notin dark' PROVE Serves(j)'
    <3>1. task[j] = "none" /\ j \in Instances
      BY <1>1, <2>1, <1>2, InstanceMeans, RunnerAssumption
    <3>2. ~Excused(j)
      BY <1>3, <3>1, OldMeans DEF Excused, Soft
    <3>3. Serves(j)
      BY <2>1, <3>2 DEF Bright, Steady
    <3> QED BY <2>1, <3>1, <3>3, ServesKept DEF settleFrame
  <2> QED BY <2>1
<1>7. \A j \in replicas : ~retired'[j]
  BY <1>0 DEF Looping, settleFrame, TypeOK
<1>5. CASE i[1] + 1 \in Slots
  <2>1. PICK n \in Instances : n[1] = i[1] + 1 /\ n = <<i[1] + 1, 0>>
    <3>1. 0 \in 0 .. MaxReloads
      BY RunnerAssumption
    <3> QED BY <1>5, <3>1, InstanceMeans
  <2>2. /\ replicas' = replicas \union {n} /\ boot' = "booting" /\ task'[n] = "booting"
    BY <1>0, <1>5, <2>1 DEF LoopContinues, TypeOK
  <2>3. \A j \in replicas' : j[1] \in dark' \/ Excused(j)' \/ Steady(j)'
    BY <1>4, <1>7, <2>2 DEF Excused, Steady
  <2> QED BY <2>2, <2>3 DEF Bright
<1>6. CASE i[1] + 1 \notin Slots
  <2>1. Watch(replicas) /\ replicas' = replicas /\ boot' = "up"
    BY <1>6 DEF LoopContinues
  <2>2. \A s \in Slots : \E j \in replicas' : j[1] = s
    <3> SUFFICES ASSUME NEW s \in Slots PROVE \E j \in replicas : j[1] = s
      BY <2>1
    <3>1. s <= m
      BY <1>2, <1>6, SlotsMeans DEF Slots
    <3>2. 0 \in 0 .. MaxReloads
      BY RunnerAssumption
    <3>3. PICK j \in Instances : j[1] = s /\ j[2] = 0
      <4>1. <<s, 0>> \in Instances /\ <<s, 0>>[1] = s /\ <<s, 0>>[2] = 0
        BY <3>2, InstanceMeans
      <4> QED BY <4>1
    <3> QED BY <1>1, <3>1, <3>3
  <2>3. \A j \in replicas' : j[1] \in dark' \/ Steady(j)'
    <3> SUFFICES ASSUME NEW j \in replicas, Serves(j)' PROVE Steady(j)'
      BY <1>4, <2>1
    <3>1. container[j] # NoContainer /\ j \in Instances /\ retired' = retired
      BY <1>0 DEF Serves, settleFrame, TypeOK
    <3>2. ~retired[j] /\ overtaken = {} /\ overtaken' = {}
      BY <1>0, <3>1 DEF Looping, Unspoilt, settleFrame, TypeOK
    <3>3. task'[j] = "watching"
      BY <1>0, <2>1, <3>1, <3>2, WatchesOn DEF Several
    <3> QED BY <1>7, <3>1, <3>2, <3>3 DEF Steady, Waits
  <2> QED BY <2>2, <2>3 DEF Bright
<1> QED BY <1>5, <1>6

LEMMA BootBright ==
  ASSUME ServingInv, Several, Several', NEW i \in Instances, BootStep(i)
  PROVE  Bright'
<1> USE DEF ServingInv, RunnerInv, Inv1, Inv2, softVars, emuVars, histVars, reloadVars
<1>0. TypeOK /\ Bright /\ Paired
  OBVIOUS
<1>a. task[i] # "none" /\ ~Waits(task[i]) /\ task[i] \in InFlight
  BY DEF BootStep, ContainerStarts, ProbeEnds, Publishes, SingleRollProbeEnds, BootFails,
     InFlight, Waits
<1>b. ASSUME UNCHANGED <<replicas, old, reload, boot, overtaken, retired, container, docker>>,
             dark \subseteq dark',
             task'[i] # "none",
             \A j \in Instances \ {i} : routes'[j] = routes[j] /\ task'[j] = task[j]
      PROVE  Bright'
  BY <1>a, <1>b, ServesKept, BusyBright
<1>c. ASSUME Restarted(i), RestartContinues(i), UNCHANGED settleFrame, dark \subseteq dark',
             \A j \in Instances \ {i} : routes'[j] = routes[j]
      PROVE  Bright'
  <2>1. Watch({i}) /\ UNCHANGED <<replicas, old, reload, boot>>
    BY <1>c DEF RestartContinues
  <2>2. task'[i] # "none" /\ \A j \in Instances \ {i} : task'[j] = task[j]
    BY <1>0, <2>1, WatchTouches
  <2> QED BY <1>b, <1>c, <2>1, <2>2 DEF settleFrame
<1>1. ASSUME NEW c \in Containers, ContainerStarts(i, c) PROVE Bright'
  <2>1. /\ UNCHANGED <<replicas, old, reload, boot, overtaken, retired, routes, dark>>
        /\ SetTask(i, "publishing") \/ SetTask(i, "probing")
        /\ container' = [container EXCEPT ![i] = c] /\ docker' = [docker EXCEPT ![c] = "running"]
        /\ \A j \in Instances : container[j] # c
    BY <1>1 DEF ContainerStarts, Fresh
  <2>2. task'[i] # "none" /\ \A j \in Instances \ {i} : task'[j] = task[j]
    BY <1>0, <2>1 DEF SetTask, TypeOK
  <2>3. \A j \in Instances \ {i} :
          /\ container'[j] = container[j]
          /\ container[j] # NoContainer => docker'[container[j]] = docker[container[j]]
    BY <1>0, <2>1 DEF TypeOK
  <2>4. \A j \in Instances \ {i} : Serves(j) => Serves(j)'
    BY <2>1, <2>3, ServesKept
  <2> QED BY <1>a, <2>1, <2>2, <2>4, BusyBright
<1>2. CASE ProbeEnds(i)
  <2>1. /\ UNCHANGED settleFrame /\ UNCHANGED <<routes, dark>> /\ task[i] = "probing"
    BY <1>2 DEF ProbeEnds
  <2>2. CASE BootSettles(i) /\ ((Restarted(i) /\ ~Running(i)) \/ Stopping(i))
    <3>1. ~Bare(i)
      BY <2>1, InstanceMeans DEF Bare, Looping
    <3>2. ~Rolled(i) \/ ~Stopping(i)
      BY ReloadAlone DEF Rolled, Listed
    <3> QED BY <1>c, <2>1, <2>2, <3>1, <3>2 DEF BootSettles, Restarted
  <2>3. CASE SetTask(i, "publishing") /\ UNCHANGED <<replicas, boot, reload, old>>
    <3>1. task'[i] # "none" /\ \A j \in Instances \ {i} : task'[j] = task[j]
      BY <1>0, <2>3 DEF SetTask, TypeOK
    <3> QED BY <1>b, <2>1, <2>3, <3>1 DEF settleFrame
  <2> QED BY <1>2, <2>2, <2>3 DEF ProbeEnds
<1>3. CASE Publishes(i)
  <2>1. /\ UNCHANGED settleFrame /\ task[i] = "publishing"
        /\ \A j \in Instances \ {i} : routes'[j] = routes[j]
        /\ dark \subseteq dark'
        /\ \/ Running(i) /\ routes'[i] = container[i]
           \/ i[1] \in dark'
        /\ BootSettles(i)
    BY <1>0, <1>3 DEF Publishes, Darken, Several, TypeOK
  <2>2. i[1] \in dark' \/ Serves(i)'
    BY <2>1 DEF Running, Serves, settleFrame
  <2>3. CASE Bare(i) /\ LoopContinues(i)
    BY <2>1, <2>2, <2>3, LoopBright
  <2>4. CASE Rolled(i) /\ RollContinues(i)
    <3>1. /\ SetTask(i, "none") /\ UNCHANGED <<replicas, boot, old>>
          /\ reload = "shadow" /\ reload' = "swap" /\ i = Shadow(old)
          /\ old \in Instances /\ old # NoInstance /\ ~retired[i]
      BY <2>4, OldMeans DEF RollContinues, Rolled, Several, Listed
    <3>2. Shadow(old)' = Shadow(old)
      BY <3>1 DEF Shadow
    <3>3. ASSUME NEW j \in replicas, j # i, j[1] \notin dark'
          PROVE  Excused(j)' \/ Steady(j)'
      <4>1. Serves(j) => Serves(j)'
        BY <2>1, <3>3, ServesKept DEF settleFrame, TypeOK
      <4>2. task'[j] = task[j]
        BY <1>0, <3>1, <3>3 DEF SetTask, TypeOK
      <4>3. Excused(j) => Excused(j)'
        BY <3>1, <3>3, <4>2 DEF Excused, Soft
      <4>4. Steady(j) => Steady(j)'
        BY <2>1, <3>1, <3>2, <4>1, <4>2 DEF Steady, settleFrame
      <4> QED BY <2>1, <3>3, <4>3, <4>4 DEF Bright
    <3>4. i[1] \in dark' \/ Steady(i)'
      BY <2>1, <2>2, <3>1, <3>2 DEF Steady, settleFrame
    <3> QED BY <1>0, <3>1, <3>3, <3>4 DEF Bright
  <2>5. CASE Restarted(i) /\ RestartContinues(i)
    BY <1>c, <2>1, <2>5
  <2> QED BY <2>1, <2>3, <2>4, <2>5 DEF BootSettles
<1>4. CASE SingleRollProbeEnds(i)
  BY <1>4 DEF SingleRollProbeEnds, Unspoilt, Several
<1>5. CASE BootFails(i)
  <2>1. /\ UNCHANGED <<container, routes, docker, old, overtaken>>
        /\ dark' = dark \union {i[1]}
        /\ \A j \in Instances \ {i} : task'[j] = task[j]
    BY <1>0, <1>5 DEF BootFails, Darken, SetTask, TypeOK
  <2>2. ~Bare(i)
    BY <1>5 DEF BootFails, Several, Rolled, Restarted, Bare, Stepping
  <2>3. \A j \in Instances : Serves(j) => Serves(j)'
    BY <2>1, ServesKept
  <2>4. CASE Rolled(i)
    <3>1. /\ replicas' = replicas \ {i} /\ reload = "shadow" /\ reload' = "discarding"
          /\ boot' = boot /\ retired' = retired /\ i = Shadow(old)
          /\ old \in replicas /\ old # i /\ old[1] = i[1] /\ old # NoInstance
      BY <1>5, <2>2, <2>4, OldMeans, OldListed DEF BootFails, Rolled, Restarted, Several
    <3>2. Shadow(old)' = Shadow(old)
      BY <2>1 DEF Shadow
    <3>3. ASSUME NEW j \in replicas, j # i, j[1] \notin dark'
          PROVE  Excused(j)' \/ Steady(j)'
      <4>1. task'[j] = task[j]
        BY <1>0, <2>1, <3>3 DEF TypeOK
      <4>2. Excused(j) => Excused(j)'
        BY <3>1, <3>3, <4>1 DEF Excused, Soft
      <4>3. Steady(j) => Steady(j)'
        BY <1>0, <2>1, <2>3, <3>1, <3>2, <3>3, <4>1 DEF Steady, TypeOK
      <4> QED BY <2>1, <3>3, <4>2, <4>3 DEF Bright
    <3> QED BY <1>0, <3>1, <3>3 DEF Bright
  <2>5. CASE Restarted(i)
    <3>1. /\ UNCHANGED <<replicas, boot, reload>>
          /\ \A j \in Instances \ {i} : retired'[j] = retired[j]
      BY <1>0, <1>5, <2>5 DEF BootFails, Restarted, TypeOK
    <3>2. i[1] \in dark'
      BY <2>1
    <3> QED BY <1>0, <2>1, <2>3, <3>1, <3>2, BrightKept DEF TypeOK
  <2> QED BY <2>2, <2>4, <2>5 DEF Restarted
<1> QED BY <1>1, <1>2, <1>3, <1>4, <1>5 DEF BootStep


(* Of a service that is up: who is neither excused nor the shadow of a roll. *)
Whole(i) == Serves(i) /\ ~retired[i] /\ Waits(task[i]) /\ i \notin overtaken

LEMMA WholeMeans ==
  ASSUME NEW i
  PROVE  /\ Whole(i) => Steady(i)
         /\ Whole(i)' => Steady(i)'
         /\ boot = "up" /\ (old = NoInstance \/ i # Shadow(old)) => (Steady(i) => Whole(i))
  BY DEF Whole, Steady

LEMMA WholeKept ==
  ASSUME NEW i, task'[i] = task[i], retired'[i] = retired[i],
         container'[i] = container[i], routes'[i] = routes[i],
         container[i] # NoContainer => docker'[container[i]] = docker[container[i]],
         i \notin overtaken => i \notin overtaken'
  PROVE  Whole(i) => Whole(i)'
  BY ServesKept DEF Whole

LEMMA WaiterBright ==
  ASSUME ServingInv, Several, NEW i \in replicas, i[1] \notin dark, Waits(task[i]),
         ~Excused(i)
  PROVE  boot = "up" /\ Whole(i) /\ ~Stopping(i)
<1> USE DEF ServingInv, RunnerInv, Inv1, Inv2
<1>1. Steady(i)
  BY DEF Bright
<1>2. boot = "up"
  BY DEF Several, Excused, Waits, TypeOK
<1>3. ~ (old # NoInstance /\ i = Shadow(old))
  <2> SUFFICES ASSUME old # NoInstance, i = Shadow(old) PROVE FALSE
    OBVIOUS
  <2>1. reload \in Roll \ {"discarding"}
    BY DEF Listed
  <2>2. reload # "shadow"
    BY DEF Excused
  <2> QED BY <2>1, <2>2 DEF Listed, Stepping, Several, Roll, Waits
<1>4. ~shuttingDown
  BY DEF Several, Closing
<1> QED BY <1>1, <1>2, <1>3, <1>4, WholeMeans DEF Whole, Stopping

LEMMA WatcherBright ==
  ASSUME ServingInv, Several, NEW i \in Instances, WatcherStep(i)
  PROVE  Bright'
<1> USE DEF ServingInv, RunnerInv, Inv1, Inv2, Inv3, softVars, emuVars, histVars, reloadVars
<1>0. TypeOK /\ Bright /\ Paired /\ Closing /\ replicas \subseteq Instances
  BY DEF TypeOK
<1>1. UNCHANGED <<replicas, old, reload, boot, overtaken, dark>>
  BY DEF WatcherStep, SleepEnds, ExitSeen, DeferEnds, Degrade, BackoffEnds, Reboot
<1>2. CASE SleepEnds(i) \/ Degrade(i) \/ BackoffEnds(i)
  <2>1. /\ UNCHANGED <<container, docker>>
        /\ \A j \in Instances \ {i} : /\ task'[j] = task[j] /\ retired'[j] = retired[j]
                                      /\ routes'[j] = routes[j]
        /\ task[i] # "none" /\ ~Waits(task[i]) /\ task'[i] # "none"
    BY <1>0, <1>2, WatchTouches DEF SleepEnds, Degrade, BackoffEnds, SetTask, Unregister,
       Waits, TypeOK
  <2>2. \A j \in Instances \ {i} : Serves(j) => Serves(j)'
    BY <2>1, ServesKept
  <2> QED BY <1>1, <2>1, <2>2, BusyBright
<1>3. CASE Reboot(i)
  <2>1. /\ UNCHANGED <<retired, routes>> /\ DockerRemoves({container[i]})
        /\ \A j \in Instances \ {i} : task'[j] = task[j]
        /\ task[i] # "none" /\ ~Waits(task[i]) /\ task'[i] # "none"
    BY <1>0, <1>3 DEF Reboot, ClearState, SetTask, Waits, TypeOK
  <2>2. ASSUME NEW j \in Instances, j # i, Serves(j) PROVE Serves(j)'
    <3>1. container[j] # container[i] /\ container[j] \in Containers
      BY <1>0, <2>2 DEF Serves, Paired, TypeOK
    <3>2. container'[j] = container[j] /\ docker'[container[j]] = docker[container[j]]
      BY <2>1, <3>1 DEF DockerRemoves
    <3> QED BY <2>1, <2>2, <3>2, ServesKept
  <2> QED BY <1>1, <2>1, <2>2, BusyBright
<1>4. CASE ExitSeen(i) \/ DeferEnds(i)
  <2>1. /\ UNCHANGED <<container, docker, routes, retired>> /\ Waits(task[i])
    BY <1>4 DEF ExitSeen, DeferEnds, Waits
  <2>2. task'[i] # "none" /\ \A j \in Instances \ {i} : task'[j] = task[j]
    BY <1>0, <1>4, WatchTouches DEF ExitSeen, DeferEnds, SetTask, TypeOK
  <2>3. \A j \in Instances : Serves(j) => Serves(j)'
    BY <2>1, ServesKept
  <2>4. ASSUME i \in replicas, i[1] \notin dark, ~Excused(i) PROVE Waits(task'[i])
    <3>1. Whole(i) /\ ~Stopping(i)
      BY <2>1, <2>4, WaiterBright
    <3>2. CASE ExitSeen(i)
      <4>1. Noticed(i) /\ Running(i)
        BY <3>1, CycledMeans DEF Whole, Serves, Running
      <4>2. ReloadSeen(i)
        BY <3>2, <4>1 DEF ExitSeen, Noticed, ReloadSeen
      <4> QED BY <1>0, <3>1, <3>2, <4>2 DEF ExitSeen, SetTask, Waits, TypeOK
    <3>3. CASE DeferEnds(i)
      <4>1. Watch({i}) /\ container[i] # NoContainer /\ ~retired[i]
        BY <3>1, <3>3 DEF DeferEnds, Whole, Serves
      <4> QED BY <1>0, <4>1, WatchesOn DEF Several, Waits
    <3> QED BY <1>4, <3>2, <3>3
  <2> QED BY <1>0, <1>1, <2>1, <2>2, <2>3, <2>4, BrightKept
<1> QED BY <1>2, <1>3, <1>4 DEF WatcherStep

LEMMA ReloadBright ==
  ASSUME ServingInv, Several, ReloadStep
  PROVE  Bright'
<1> USE DEF ServingInv, RunnerInv, Inv1, Inv2, Inv3, softVars, emuVars, histVars
<1>0. TypeOK /\ Paired /\ Closing /\ replicas \subseteq Instances
  BY DEF TypeOK
<1>a. /\ boot = "up" /\ boot' = "up" /\ dark \subseteq dark'
  BY <1>0, ReloadAlone DEF ReloadStep, ReloadEnds, SkipReplica, BeginRoll, BeginSoftReload,
     OldRemoved, BootShadow, Swap, DrainEnds, RollEnds, DiscardShadow, SourceCopied,
     SoftStop, SoftStart, SoftProbeEnds, SoftPublish, SoftFails, softFrame, Darken, TypeOK
<1>b. \A s \in Slots : \E j \in replicas : j[1] = s
  BY <1>a DEF Bright
<1>c. \A j \in replicas :
        j[1] \notin dark /\ ~Excused(j) /\ (old = NoInstance \/ j # Shadow(old)) => Whole(j)
  BY <1>a, WholeMeans DEF Bright
<1>d. ASSUME replicas' = replicas, \A j \in replicas : j[1] \in dark' \/ Excused(j)' \/ Steady(j)'
      PROVE  Bright'
  BY <1>b, <1>d DEF Bright
<1>1. ASSUME NEW i \in Instances, BeginRoll(i) PROVE Bright'
  <2>1. i[2] < MaxReloads
    BY <1>0, <1>1, InstanceMeans, RunnerAssumption DEF BeginRoll, Counted, TypeOK
  <2>2. PICK n \in Instances : n = Shadow(i) /\ n # i
    BY <2>1, ShadowMeans
  <2>3. /\ old = NoInstance /\ reload = "next" /\ old' = i /\ reload' = "shadow"
        /\ replicas' = replicas \union {n} /\ SetTask(n, "booting")
        /\ UNCHANGED <<routes, retired, container, docker, overtaken, dark>>
    BY <1>1, <2>2 DEF BeginRoll, Several, TeardownOldFirst, Stepping
  <2>4. Shadow(old)' = n
    BY <2>2, <2>3 DEF Shadow
  <2>5. ASSUME NEW j \in replicas, j # n, j[1] \notin dark PROVE Steady(j)'
    <3>1. ~Excused(j)
      BY <1>a, <2>3 DEF Excused, Soft
    <3>2. task'[j] = task[j]
      BY <1>0, <2>3, <2>5 DEF SetTask, TypeOK
    <3> QED BY <1>c, <2>3, <2>5, <3>1, <3>2, WholeKept, WholeMeans
  <2>6. Excused(n)'
    BY <2>3, <2>4 DEF Excused
  <2> QED BY <1>b, <2>3, <2>5, <2>6 DEF Bright
<1>2. ASSUME NEW i \in Instances, BeginSoftReload(i) PROVE Bright'
  <2>1. /\ old = NoInstance /\ reload = "next" /\ old' = i /\ reload' = "copying"
        /\ routes' = [routes EXCEPT ![i] = NoContainer]
        /\ UNCHANGED <<replicas, task, retired, container, docker, dark>>
        /\ Waits(task[i]) => overtaken' = overtaken
        /\ overtaken' \subseteq overtaken \union {i}
    BY <1>2 DEF BeginSoftReload, Unregister, Stepping, Waits
  <2>2. ASSUME NEW j \in replicas, j[1] \notin dark PROVE Excused(j)' \/ Steady(j)'
    <3>1. Whole(j)
      BY <1>a, <1>c, <2>1, <2>2 DEF Excused, Soft
    <3>2. CASE j = i
      BY <2>1, <3>1, <3>2 DEF Whole, Excused, Soft
    <3>3. CASE j # i
      BY <1>0, <2>1, <3>1, <3>3, WholeKept, WholeMeans DEF TypeOK
    <3> QED BY <3>2, <3>3
  <2> QED BY <1>d, <2>1, <2>2
<1>3. CASE Swap
  <2>1. /\ reload = "swap" /\ reload' = "draining" /\ old \in Instances /\ old' = old
        /\ UNCHANGED <<replicas, task, container, docker, overtaken, dark>>
        /\ \A j \in Instances \ {old} : routes'[j] = routes[j] /\ retired'[j] = retired[j]
    BY <1>0, <1>3, OldMeans DEF Swap, Unregister, TypeOK
  <2>2. Shadow(old)' = Shadow(old)
    BY <2>1 DEF Shadow
  <2>3. ASSUME NEW j \in replicas, j[1] \notin dark PROVE Excused(j)' \/ Steady(j)'
    <3>1. CASE j = old
      BY <2>1, <3>1 DEF Excused
    <3>2. CASE j # old
      <4>1. Steady(j)
        BY <1>a, <2>1, <2>3 DEF Bright, Excused, Soft
      <4>2. Serves(j)'
        BY <1>0, <2>1, <3>2, <4>1, ServesKept DEF Steady
      <4> QED BY <1>0, <1>a, <2>1, <2>2, <3>2, <4>1, <4>2 DEF Steady
    <3> QED BY <3>1, <3>2
  <2> QED BY <1>d, <2>1, <2>3
<1>4. CASE DrainEnds \/ OldRemoved
  <2>1. /\ reload \in {"draining", "retiring"} /\ reload' \in {"retiring", "retired"}
        /\ UNCHANGED <<old, replicas, task, routes, retired, overtaken, dark>>
    BY <1>4 DEF DrainEnds, OldRemoved, instVars, Stepping, Several
  <2>2. Shadow(old)' = Shadow(old)
    BY <2>1 DEF Shadow
  <2>3. ASSUME NEW j \in Instances, j # old, Serves(j) PROVE Serves(j)'
    <3>1. container[j] \in Containers
      BY <1>0, <2>3 DEF Serves, TypeOK
    <3>2. container[j] # target
      BY <2>3, <3>1, RunnerAssumption DEF Targeted
    <3>3. container'[j] = container[j] /\ docker'[container[j]] = docker[container[j]]
      BY <1>4, <3>1, <3>2 DEF DrainEnds, OldRemoved, DockerRemoves, instVars
    <3> QED BY <2>1, <2>3, <3>3, ServesKept
  <2>4. ASSUME NEW j \in replicas, j[1] \notin dark PROVE Excused(j)' \/ Steady(j)'
    <3>1. CASE j = old
      BY <2>1, <3>1 DEF Excused
    <3>2. CASE j # old
      <4>1. Steady(j)
        BY <1>a, <2>1, <2>4, <3>2 DEF Bright, Excused, Soft
      <4>2. Serves(j)'
        BY <1>0, <2>3, <3>2, <4>1 DEF Steady
      <4> QED BY <1>a, <2>1, <2>2, <4>1, <4>2 DEF Steady
    <3> QED BY <3>1, <3>2
  <2> QED BY <1>d, <2>1, <2>4
<1>5. CASE RollEnds
  <2>1. PICK n \in Instances : n = Shadow(old) /\ n # old /\ n[1] = old[1]
    BY <1>5, OldMeans DEF RollEnds
  <2>2. /\ reload = "retired" /\ replicas' = replicas \ {old} /\ Watch({n})
        /\ old' = NoInstance
        /\ UNCHANGED <<container, routes, retired, docker, overtaken, dark>>
        /\ n \in replicas /\ n \notin overtaken
    BY <1>5, <2>1, OldListed DEF RollEnds, NextReplica, Unspoilt, Roll
  <2>3. \A s \in Slots : \E j \in replicas' : j[1] = s
    BY <1>b, <2>1, <2>2
  <2>4. ASSUME NEW j \in replicas, j # old, j[1] \notin dark PROVE Steady(j)'
    <3>1. ~Excused(j)
      BY <1>a, <2>2, <2>4 DEF Excused, Soft
    <3>2. CASE j = n
      <4>1. Steady(n)
        BY <2>4, <3>1, <3>2 DEF Bright
      <4>2. task'[n] = "watching"
        BY <1>0, <2>2, <4>1, WatchesOn DEF Steady, Serves, Several
      <4>3. Serves(n)'
        BY <2>2, <4>1, ServesKept DEF Steady
      <4> QED BY <2>2, <3>2, <4>1, <4>2, <4>3 DEF Steady, Waits
    <3>3. CASE j # n
      <4>1. Whole(j)
        BY <1>c, <2>1, <2>4, <3>1, <3>3
      <4>2. task'[j] = task[j]
        BY <1>0, <2>2, <3>3, WatchTouches
      <4> QED BY <2>2, <4>1, <4>2, WholeKept, WholeMeans
    <3> QED BY <3>2, <3>3
  <2> QED BY <2>2, <2>3, <2>4 DEF Bright
<1>6. CASE DiscardShadow
  <2>1. PICK n \in Instances : n = Shadow(old)
    BY <1>6, OldMeans DEF DiscardShadow
  <2>2. /\ reload = "discarding" /\ n \notin replicas /\ old' = NoInstance
        /\ UNCHANGED <<replicas, task, routes, retired, overtaken, dark>>
        /\ DockerRemoves({container[n]} \ {NoContainer})
    BY <1>6, <2>1, OldListed DEF DiscardShadow, NextReplica
  <2>3. ASSUME NEW j \in replicas, j[1] \notin dark PROVE Steady(j)'
    <3>1. Whole(j)
      BY <1>a, <1>c, <2>1, <2>2, <2>3 DEF Excused, Soft
    <3>2. container[j] # container[n] /\ container[j] \in Containers
      BY <1>0, <2>2, <3>1 DEF Whole, Serves, Paired, TypeOK
    <3>3. container'[j] = container[j] /\ docker'[container[j]] = docker[container[j]]
      BY <1>0, <2>2, <3>2 DEF DockerRemoves
    <3> QED BY <2>2, <3>1, <3>3, WholeKept, WholeMeans
  <2> QED BY <1>d, <2>2, <2>3
<1>7. CASE SourceCopied \/ SoftStop \/ SoftStart
  <2>1. /\ reload \in Soft /\ reload' \in Soft /\ old \in Instances
        /\ Shadow(old) \notin replicas
        /\ UNCHANGED <<replicas, old, task, routes, container, retired, overtaken, dark>>
    BY <1>7, OldMeans, OldListed DEF SourceCopied, SoftStop, SoftStart, instVars, Soft
  <2>2. ASSUME NEW j \in replicas, j[1] \notin dark PROVE Excused(j)' \/ Steady(j)'
    <3>1. CASE Excused(j)
      BY <1>a, <2>1, <3>1 DEF Excused, Soft
    <3>2. CASE ~Excused(j)
      <4>1. Whole(j)
        BY <1>c, <2>1, <2>2, <3>2
      <4>2. container[j] # target /\ container[j] \in Containers
        <5>1. container[j] \in Containers /\ j \notin overtaken
          BY <1>0, <4>1 DEF Whole, Serves, TypeOK
        <5> QED BY <1>0, <2>1, <3>2, <5>1, RunnerAssumption DEF Targeted, Excused
      <4>3. docker'[container[j]] = docker[container[j]]
        BY <1>0, <1>7, <4>2 DEF SourceCopied, SoftStop, SoftStart, DockerBecomes, TypeOK
      <4> QED BY <2>1, <4>1, <4>3, WholeKept, WholeMeans
    <3> QED BY <3>1, <3>2
  <2> QED BY <1>d, <2>1, <2>2
<1>8. CASE SoftProbeEnds \/ SoftPublish \/ SoftFails
  <2>1. /\ reload \in Soft /\ old \in Instances /\ Shadow(old) \notin replicas
        /\ old # Shadow(old)
        /\ UNCHANGED <<replicas, task, container, docker, retired, overtaken>>
        /\ \A j \in Instances \ {old} : routes'[j] = routes[j]
    BY <1>0, <1>8, OldMeans, OldListed DEF SoftProbeEnds, SoftPublish, SoftFails, softFrame,
       Soft, TypeOK
  <2>2. ASSUME NEW j \in replicas, j # old, j[1] \notin dark' PROVE Steady(j)'
    <3>1. Whole(j)
      BY <1>a, <1>c, <2>1, <2>2, OldMeans DEF Excused, Soft
    <3> QED BY <1>0, <2>1, <2>2, <3>1, WholeKept, WholeMeans
  <2>3. old \in replicas /\ old[1] \notin dark => old \notin overtaken
    <3>1. Excused(old) => old \notin overtaken
      BY <1>a, <2>1 DEF Excused, Soft
    <3> QED BY <1>c, <2>1, <3>1 DEF Whole
  <2>4. ASSUME NEW j \in replicas, j = old, j[1] \notin dark' PROVE Excused(j)' \/ Steady(j)'
    <3>1. /\ j \notin overtaken /\ Waits(task[j]) /\ ~retired[j]
          /\ container[j] = target /\ target # NoContainer
      BY <1>a, <2>1, <2>3, <2>4 DEF Cycled, Stepping, Waits
    <3>2. CASE SoftProbeEnds
      BY <2>1, <2>4, <3>1, <3>2 DEF SoftProbeEnds, Excused, Soft
    <3>3. CASE SoftPublish
      <4>1. docker[target] = "running" /\ routes' = [routes EXCEPT ![j] = target]
        BY <2>4, <3>3 DEF SoftPublish, Darken
      <4>2. Serves(j)'
        <5>1. routes'[j] = target
          BY <1>0, <2>1, <2>4, <4>1 DEF TypeOK
        <5> QED BY <3>1, <2>1, <4>1, <5>1 DEF Serves
      <4>3. Whole(j)'
        BY <2>1, <3>1, <4>2 DEF Whole
      <4> QED BY <4>3, WholeMeans
    <3>4. CASE SoftFails
      BY <2>4, <3>4 DEF SoftFails, Darken
    <3> QED BY <1>8, <3>2, <3>3, <3>4
  <2> QED BY <1>d, <2>1, <2>2, <2>4
<1>9. CASE ReloadEnds \/ \E i \in Instances : SkipReplica(i)
  <2>1. /\ reload = "next" /\ old = NoInstance
        /\ UNCHANGED <<replicas, old, task, routes, container, docker, retired, overtaken,
                       dark>>
    BY <1>9 DEF ReloadEnds, SkipReplica, instVars, Stepping
  <2>2. ASSUME NEW j \in replicas, j[1] \notin dark PROVE Steady(j)'
    <3>1. Whole(j)
      BY <1>a, <1>c, <2>1, <2>2 DEF Excused, Soft
    <3> QED BY <2>1, <3>1, WholeKept, WholeMeans
  <2> QED BY <1>d, <2>1, <2>2
<1>10. ~BootShadow
  BY DEF BootShadow, Stepping, Several
<1> QED
  BY <1>1, <1>2, <1>3, <1>4, <1>5, <1>6, <1>7, <1>8, <1>9, <1>10 DEF ReloadStep


LEMMA NextBright ==
  ASSUME ServingInv, Next
  PROVE  Bright'
<1> USE DEF ServingInv, RunnerInv, Inv1, Inv2
<1>0. TypeOK /\ replicas \subseteq Instances
  BY DEF TypeOK
<1> SUFFICES ASSUME Several' PROVE Bright'
  BY DEF Bright
<1>1. Several
  BY SeveralBefore
<1>2. CASE SourceChanged \/ Signal
  <2>1. /\ UNCHANGED <<replicas, old, task, routes, container, docker, retired, boot,
                       overtaken, dark>>
        /\ reload' = reload \/ (reload = "idle" /\ reload' = "next")
    BY <1>2 DEF SourceChanged, Signal, instVars, reloadVars, emuVars, histVars
  <2>2. \A j \in Instances : Serves(j) => Serves(j)'
    BY <2>1, ServesKept
  <2>3. Shadow(old)' = Shadow(old)
    BY <2>1 DEF Shadow
  <2>4. ASSUME NEW j \in replicas, j[1] \notin dark PROVE Excused(j)' \/ Steady(j)'
    <3>1. Excused(j) => Excused(j)'
      BY <2>1, <2>3 DEF Excused, Soft
    <3>2. Steady(j) => Steady(j)'
      BY <1>0, <2>1, <2>2, <2>3 DEF Steady
    <3> QED BY <1>1, <2>4, <3>1, <3>2 DEF Bright
  <2> QED BY <1>1, <2>1, <2>4 DEF Bright
<1>3. ASSUME NEW c \in Containers, Crash(c) PROVE Bright'
  <2>1. /\ UNCHANGED <<replicas, old, reload, boot, overtaken, retired, task, container, routes>>
        /\ dark' = dark \union {i[1] : i \in {j \in Instances : container[j] = c}}
        /\ \E s \in Exited : docker' = [docker EXCEPT ![c] = s]
    BY <1>3 DEF Crash, reloadVars, emuVars, DockerBecomes
  <2>2. ASSUME NEW j \in Instances, container[j] # c PROVE Serves(j) => Serves(j)'
    <3>1. container[j] # NoContainer => docker'[container[j]] = docker[container[j]]
      BY <1>0, <2>1, <2>2 DEF TypeOK
    <3> QED BY <2>1, <3>1, ServesKept
  <2> QED BY <1>0, <1>1, <2>1, <2>2, BrightKept
<1>4. ~CleanupStep
  BY <1>1 DEF CleanupStep, BeginShutdown, TakeDown, RemoveOne, Exit, Several
<1> QED
  BY <1>1, <1>2, <1>3, <1>4, BootBright, WatcherBright, ReloadBright DEF Next

LEMMA InitServingInv == Init => ServingInv
<1> SUFFICES ASSUME Init PROVE Bright /\ Unspoilt
  BY InitRunnerInv DEF ServingInv
<1>1. Unspoilt
  BY DEF Init, Unspoilt, Roll
<1>2. \A i \in replicas : Excused(i)
  <2>1. <<0, 0>> \in Instances
    BY RunnerAssumption, SlotsMeans, InstanceMeans
  <2> QED BY <2>1 DEF Init, Excused
<1>3. boot # "up"
  BY DEF Init
<1> QED BY <1>1, <1>2, <1>3 DEF Bright

LEMMA StutterServingInv ==
  ASSUME ServingInv, UNCHANGED vars
  PROVE  ServingInv'
<1> USE DEF vars, instVars, reloadVars, emuVars, histVars
<1>1. RunnerInv'
  BY StutterRunnerInv DEF ServingInv
<1>2. Shadow(old)' = Shadow(old)
  BY DEF Shadow
<1>3. \A i : (Excused(i) <=> Excused(i)') /\ (Steady(i) <=> Steady(i)')
  BY <1>2 DEF Excused, Steady, Serves
<1>4. Bright'
  BY <1>3 DEF ServingInv, Bright, Several
<1>5. Unspoilt'
  BY <1>2 DEF ServingInv, Unspoilt
<1> QED BY <1>1, <1>4, <1>5 DEF ServingInv

LEMMA BrightServes ==
  ASSUME ServingInv, Several, boot = "up", NEW s \in Slots, s \notin dark
  PROVE  Served(s) \/ (reload \in Soft /\ s = old[1])
<1> USE DEF ServingInv, RunnerInv, Inv1
<1>1. PICK i \in replicas : i[1] = s
  BY DEF Bright
<1>2. ASSUME NEW j \in replicas, j[1] = s, ~Excused(j) PROVE Served(s)
  <2>1. Serves(j)
    BY <1>2 DEF Bright, Steady
  <2> QED BY <1>2, <2>1 DEF Serves, Served
<1>3. CASE i = Shadow(old) /\ reload = "shadow"
  <2>1. old \in replicas /\ old[1] = s /\ old # Shadow(old)
    BY <1>1, <1>3, OldMeans, OldListed DEF Several
  <2> QED BY <1>2, <1>3, <2>1 DEF Excused, Soft
<1>4. CASE i = old /\ reload \in {"draining", "retiring", "retired"}
  <2>1. Shadow(old) \in replicas /\ Shadow(old)[1] = s /\ old # Shadow(old)
    BY <1>1, <1>4, OldMeans, OldListed DEF Roll
  <2> QED BY <1>2, <1>4, <2>1 DEF Excused, Soft
<1>5. CASE i = old /\ reload \in Soft
  BY <1>1, <1>5
<1> QED BY <1>1, <1>2, <1>3, <1>4, <1>5 DEF Excused

(* A rolling rebuild takes no slot out of service and a soft reload one at a *)
(* time, but for the slots where a container exited by itself or docker      *)
(* refused something.                                                        *)
THEOREM RunnerStaysServed == Spec => []StaysServed
<1>1. ServingInv /\ [Next]_vars => ServingInv'
  <2>1. ASSUME ServingInv, Next PROVE ServingInv'
    BY <2>1, NextRunnerInv, NextUnspoilt, NextBright DEF ServingInv
  <2> QED BY <2>1, StutterServingInv
<1>2. ServingInv => StaysServed
  <2> DEFINE Out == {s \in Slots \ dark : ~Served(s)}
  <2> SUFFICES ASSUME ServingInv, boot = "up", Several
               PROVE  Cardinality(Out) <= IF kind = "soft-reload" THEN 1 ELSE 0
    BY DEF StaysServed, Several
  <2>1. CASE reload \in Soft
    <3>1. Out \subseteq {old[1]} /\ kind = "soft-reload"
      BY <2>1, BrightServes DEF ServingInv, RunnerInv, Inv1, Stepping
    <3>2. IsFiniteSet({old[1]}) /\ Cardinality({old[1]}) = 1
      BY FS_Singleton
    <3>3. Cardinality(Out) <= 1
      <4> HIDE DEF Out
      <4>1. Cardinality(Out) <= Cardinality({old[1]})
        BY <3>1, <3>2, FS_Subset
      <4> QED BY <3>2, <4>1
    <3> QED BY <3>1, <3>3
  <2>2. CASE reload \notin Soft
    <3>1. Out = {}
      BY <2>2, BrightServes
    <3>2. Cardinality(Out) = 0
      <4> HIDE DEF Out
      <4> QED BY <3>1, FS_EmptySet
    <3> QED BY <3>2
  <2> QED BY <2>1, <2>2
<1> QED BY InitServingInv, <1>1, <1>2, PTL DEF Spec

(* Removing an element of a sequence keeps the others in their order.        *)
LEMMA RemovedAt ==
  ASSUME NEW S, NEW s \in Seq(S), NEW k \in 1 .. Len(s)
  PROVE  LET t == SubSeq(s, 1, k - 1) \o SubSeq(s, k + 1, Len(s)) IN
         /\ t \in Seq(S) /\ Len(t) = Len(s) - 1
         /\ \A i \in 1 .. Len(s) - 1 : t[i] = IF i < k THEN s[i] ELSE s[i + 1]
<1> DEFINE u == SubSeq(s, 1, k - 1)
           v == SubSeq(s, k + 1, Len(s))
           n == Len(s)
<1>1. n \in Nat /\ k \in 1 .. n
  OBVIOUS
<1>2. u \in Seq(S) /\ Len(u) = k - 1 /\ \A i \in 1 .. k - 1 : u[i] = s[i]
  BY <1>1
<1>3. /\ v \in Seq(S)
      /\ Len(v) = IF k + 1 <= n THEN n - (k + 1) + 1 ELSE 0
      /\ \A i \in 1 .. n - (k + 1) + 1 : v[i] = s[k + 1 + i - 1]
  <2>1. k + 1 \in Int /\ n \in Int /\ \A i \in k + 1 .. n : s[i] \in S
    BY <1>1
  <2> QED BY <2>1, SubSeqProperties
<1> SUFFICES /\ u \o v \in Seq(S) /\ Len(u \o v) = n - 1
             /\ \A i \in 1 .. n - 1 : (u \o v)[i] = IF i < k THEN s[i] ELSE s[i + 1]
  OBVIOUS
<1> HIDE DEF u, v, n
<1>4. Len(v) = n - k /\ \A i \in 1 .. n - k : v[i] = s[i + k]
  <2>1. ASSUME NEW i \in 1 .. n - k PROVE i \in 1 .. n - (k + 1) + 1 /\ k + 1 + i - 1 = i + k
    BY <1>1
  <2> QED BY <1>1, <1>3, <2>1
<1>5. /\ u \o v \in Seq(S) /\ Len(u \o v) = Len(u) + Len(v)
      /\ \A i \in 1 .. Len(u) + Len(v) : (u \o v)[i] = IF i <= Len(u) THEN u[i] ELSE v[i - Len(u)]
  BY <1>2, <1>3, ConcatProperties
<1>6. ASSUME NEW i \in 1 .. n - 1, ~(i < k) PROVE (u \o v)[i] = s[i + 1]
  <2>1. i \in 1 .. Len(u) + Len(v) /\ ~(i <= Len(u)) /\ i - Len(u) \in 1 .. n - k /\ i - Len(u) + k = i + 1
    BY <1>1, <1>2, <1>4, <1>6
  <2>2. (u \o v)[i] = v[i - Len(u)]
    BY <1>5, <2>1
  <2> QED BY <1>4, <2>1, <2>2
<1>7. ASSUME NEW i \in 1 .. n - 1, i < k PROVE (u \o v)[i] = s[i]
  BY <1>1, <1>2, <1>4, <1>5, <1>7
<1> QED BY <1>1, <1>2, <1>4, <1>5, <1>6, <1>7

(***************************************************************************)
(* The watch of a service                                                  *)
(***************************************************************************)

Kinds == {"source", "build", "construct"}
Created == {"build", "construct"}
Versions == [Kinds -> Nat]

Treated(r) == \A k \in DOMAIN todo : todo[k] # r

(* A reload will come that was told of a save of this kind.                  *)
Ahead(p) == p \in notes \cup pending \/ \E k \in DOMAIN firings : p \in firings[k]
Owing(p) == Ahead(p) \/ (pass = "synthesized" /\ p \in changed)

SavedTypes ==
  /\ disk \in Versions /\ assembly \in Versions
  /\ notes \subseteq Kinds /\ pending \subseteq Kinds /\ changed \subseteq Kinds
  /\ firings \in Seq(SUBSET Kinds)
  /\ pass \in {"idle", "synthesized", "rebuild", "soft-reload"}
  /\ language \in {"compiled", "interpreted"}
  /\ todo \in Seq(W!Slots) /\ order \in Seq(W!Slots)
  /\ \A r \in W!Slots : \E k \in DOMAIN order : order[k] = r
  /\ running \in [W!Slots -> Versions] /\ descriptor \in [W!Slots -> Versions]
  /\ DOMAIN stamp = W!Slots
  /\ failed \in BOOLEAN /\ owed \in BOOLEAN
  /\ pass = "synthesized" => ~failed

(* A synthesis reads all that is on disk.                                    *)
Synthesized ==
  \A p \in Kinds : ~Ahead(p) /\ (pass # "idle" \/ ~failed) => assembly[p] = disk[p]

(* What a container was created from is what its replica restarts with.      *)
Described == \A r \in W!Slots : \A p \in Created : running[r][p] = descriptor[r][p]

(* The sources reach every replica the reload has treated.                   *)
Copied ==
  pass # "synthesized" /\ ~failed =>
    \A r \in W!Slots \ reverted :
      pass = "idle" \/ Treated(r) => running[r]["source"] = assembly["source"]

(* What needs a rebuild has been rebuilt, is owed, or is known to a reload.  *)
Rebuilt ==
  \A p \in Created : \A r \in W!Slots :
    /\ ~owed /\ ~Owing(p) /\ (pass = "rebuild" => Treated(r)) => running[r][p] = disk[p]
    /\ pass = "rebuild" /\ ~failed /\ Treated(r) => running[r][p] = assembly[p]

WatchInv == SavedTypes /\ Synthesized /\ Described /\ Copied /\ Rebuilt

LEMMA WatchConstants == WatchedReplicas \in Nat \ {0} /\ W!Slots = 1 .. WatchedReplicas
BY ReloadsAssumption DEF W!WatchAssumption, W!Slots

LEMMA WatchStarts == ASSUME W!WatchInit PROVE WatchInv
<1> USE WatchConstants DEF W!WatchInit
<1>1. SavedTypes
  <2>1. order \in [1 .. WatchedReplicas -> W!Slots] /\ DOMAIN order = W!Slots
    OBVIOUS
  <2>2. order \in Seq(W!Slots)
    BY <2>1
  <2>3. \A r \in W!Slots : r \in DOMAIN order /\ order[r] = r
    OBVIOUS
  <2>4. /\ disk \in Versions /\ assembly \in Versions
        /\ running \in [W!Slots -> Versions] /\ descriptor \in [W!Slots -> Versions]
    BY DEF Versions, Kinds, W!None, W!Paths
  <2>5. DOMAIN stamp = W!Slots /\ todo \in Seq(W!Slots) /\ firings \in Seq(SUBSET Kinds)
    OBVIOUS
  <2> QED BY <2>2, <2>3, <2>4, <2>5 DEF SavedTypes
<1>2. \A p \in Kinds : W!None[p] = 0
  BY DEF Kinds, W!None, W!Paths
<1>3. Created \subseteq Kinds
  BY DEF Created, Kinds
<1> QED BY <1>1, <1>2, <1>3 DEF WatchInv, Synthesized, Described, Copied, Rebuilt, Kinds

(* Saves and their events only add to what a reload will be told of.         *)
LEMMA WatchTold ==
  ASSUME WatchInv, NEW p \in W!Paths, W!Saves(p) \/ W!EventArrives(p) \/ W!Fires
  PROVE  WatchInv'
<1> USE DEF W!Paths, Kinds
<1>0. /\ UNCHANGED <<language, pass, changed, assembly, todo, order, running, stamp, descriptor,
                     reverted, restarts, failed, owed>>
  BY DEF W!Saves, W!EventArrives, W!Fires, W!reloadVars, W!replicaVars
<1>1. /\ disk' \in Versions
      /\ notes' \subseteq Kinds /\ pending' \subseteq Kinds /\ firings' \in Seq(SUBSET Kinds)
      /\ \A q \in Kinds : Ahead(q)' \/ (~Ahead(q) /\ disk'[q] = disk[q])
  <2>1. CASE W!Saves(p)
    <3>1. disk' \in Versions /\ \A q \in Kinds : q # p => disk'[q] = disk[q]
      BY <2>1 DEF W!Saves, WatchInv, SavedTypes, Versions
    <3>2. notes' = notes \cup {p} /\ UNCHANGED <<pending, firings>>
      BY <2>1 DEF W!Saves
    <3> QED BY <3>1, <3>2 DEF WatchInv, SavedTypes, Ahead
  <2>2. CASE W!EventArrives(p)
    BY <2>2 DEF W!EventArrives, WatchInv, SavedTypes, Ahead
  <2>3. CASE W!Fires
    <3>1. /\ pending' = {} /\ firings' = Append(firings, pending) /\ UNCHANGED <<disk, notes>>
          /\ firings \in Seq(SUBSET Kinds) /\ pending \in SUBSET Kinds
      BY <2>3 DEF W!Fires, WatchInv, SavedTypes
    <3>2. /\ firings' \in Seq(SUBSET Kinds)
          /\ Len(firings') = Len(firings) + 1 /\ firings'[Len(firings) + 1] = pending
          /\ \A k \in DOMAIN firings : k \in DOMAIN firings' /\ firings'[k] = firings[k]
      BY <3>1
    <3>3. Len(firings) + 1 \in DOMAIN firings'
      BY <3>1, <3>2
    <3>4. \A q \in Kinds : Ahead(q) => Ahead(q)'
      BY <3>1, <3>2, <3>3 DEF Ahead
    <3> QED BY <3>1, <3>2, <3>4 DEF WatchInv, SavedTypes
  <2> QED BY <2>1, <2>2, <2>3
<1>2. SavedTypes'
  BY <1>0, <1>1 DEF WatchInv, SavedTypes
<1>3. Synthesized'
  BY <1>0, <1>1 DEF WatchInv, Synthesized
<1>4. Rebuilt'
  BY <1>0, <1>1 DEF WatchInv, Rebuilt, Owing, Treated, Created
<1>5. Described' /\ Copied'
  BY <1>0 DEF WatchInv, Described, Copied, Treated
<1> QED BY <1>2, <1>3, <1>4, <1>5 DEF WatchInv

LEMMA WatchSynthesizes == ASSUME WatchInv, W!Synthesizes PROVE WatchInv'
<1> USE DEF Kinds
<1>0. /\ pass = "idle" /\ firings # <<>> /\ firings' = Tail(firings) /\ changed' = Head(firings)
      /\ UNCHANGED <<language, disk, notes, pending, todo, order, running, stamp, descriptor, reverted>>
  BY DEF W!Synthesizes, W!replicaVars
<1>1. /\ firings' \in Seq(SUBSET Kinds) /\ changed' \subseteq Kinds
      /\ \A p : Ahead(p) => Ahead(p)' \/ p \in changed'
      /\ \A p : Ahead(p)' => Ahead(p)
  <2>1. /\ firings \in Seq(SUBSET Kinds) /\ Len(firings) > 0 /\ changed' = firings[1]
        /\ Len(firings') = Len(firings) - 1
        /\ \A k \in 1 .. Len(firings) - 1 : firings'[k] = firings[k + 1]
    BY <1>0 DEF WatchInv, SavedTypes
  <2>2. \A k \in DOMAIN firings : k = 1 \/ (k - 1 \in DOMAIN firings' /\ firings'[k - 1] = firings[k])
    BY <2>1, <1>0
  <2>3. \A k \in DOMAIN firings' : k + 1 \in DOMAIN firings /\ firings'[k] = firings[k + 1]
    BY <2>1, <1>0
  <2> QED BY <1>0, <2>1, <2>2, <2>3 DEF Ahead
<1>2. CASE pass' = "synthesized" /\ assembly' = disk /\ failed' = FALSE /\ UNCHANGED owed
  <2>1. SavedTypes' /\ Described'
    BY <1>0, <1>1, <1>2 DEF WatchInv, SavedTypes, Described
  <2>2. Synthesized'
    BY <1>0, <1>2 DEF Synthesized
  <2>3. Copied'
    BY <1>2 DEF Copied
  <2>4. Rebuilt'
    BY <1>0, <1>1, <1>2 DEF WatchInv, Rebuilt, Owing
  <2> QED BY <2>1, <2>2, <2>3, <2>4 DEF WatchInv
<1>3. CASE failed' = TRUE /\ owed' = (owed \/ W!NeedsRebuild(disk)) /\ UNCHANGED <<pass, assembly>>
  <2>1. SavedTypes' /\ Described'
    BY <1>0, <1>1, <1>3 DEF WatchInv, SavedTypes, Described
  <2>2. Synthesized' /\ Copied'
    BY <1>0, <1>3 DEF Synthesized, Copied
  <2>3. Rebuilt'
    BY <1>0, <1>1, <1>3 DEF WatchInv, Rebuilt, Owing, W!NeedsRebuild, Created
  <2> QED BY <2>1, <2>2, <2>3 DEF WatchInv
<1> QED BY <1>2, <1>3 DEF W!Synthesizes

(* A verdict to copy leaves nothing unknown that asks for a rebuild.         *)
LEMMA WatchClassifies == ASSUME WatchInv, W!Classifies PROVE WatchInv'
<1> USE DEF Kinds
<1>0. /\ pass = "synthesized" /\ todo' = order
      /\ pass' \in {"soft-reload", "rebuild"}
      /\ UNCHANGED <<language, disk, notes, pending, firings, changed, assembly, order, running,
                     stamp, descriptor, reverted, failed>>
      /\ (owed' \in BOOLEAN) /\ (owed => owed')
  BY DEF W!Classifies, W!replicaVars, W!watcherVars, W!ClassifySourceChange, WatchInv, SavedTypes
<1>1. \A r \in W!Slots : ~Treated(r)'
  BY <1>0 DEF WatchInv, SavedTypes, Treated
<1>2. SavedTypes' /\ Described' /\ Synthesized' /\ Copied'
  BY <1>0, <1>1 DEF WatchInv, SavedTypes, Described, Synthesized, Copied, Ahead
<1>3. ASSUME pass' = "soft-reload", ~owed'
      PROVE  /\ "build" \notin changed
             /\ "construct" \notin changed \/ \A r \in W!Slots : running[r]["construct"] = assembly["construct"]
  <2>1. W!ClassifySourceChange = "soft-reload"
    BY <1>3 DEF W!Classifies
  <2>2. stamp[order[1]] # W!Hash(assembly) /\ changed \cap W!RebuildTriggers = {}
    BY <2>1 DEF W!ClassifySourceChange
  <2>3. CASE language = "compiled"
    BY <2>2, <2>3 DEF W!RebuildTriggers
  <2>4. CASE language = "interpreted"
    BY <1>3, <2>2, <2>4 DEF W!RebuildTriggers, W!Classifies
  <2> QED BY <2>3, <2>4 DEF WatchInv, SavedTypes
<1>4. Rebuilt'
  <2> SUFFICES ASSUME NEW p \in Created, NEW r \in W!Slots, pass' = "soft-reload", ~owed', ~Ahead(p)'
               PROVE  running[r][p] = disk[p]
    BY <1>0, <1>1 DEF Rebuilt, Owing
  <2>1. ~Ahead(p) /\ assembly[p] = disk[p]
    BY <1>0 DEF Ahead, WatchInv, Synthesized, Created
  <2>2. CASE p \notin changed
    BY <1>0, <2>1, <2>2 DEF WatchInv, Rebuilt, Owing
  <2>3. CASE p \in changed
    BY <1>3, <2>1, <2>3 DEF Created
  <2> QED BY <2>2, <2>3
<1> QED BY <1>2, <1>4 DEF WatchInv

LEMMA WatchTreats ==
  ASSUME WatchInv, NEW r \in W!Slots, todo # <<>>, r = Head(todo), todo' = Tail(todo)
  PROVE  /\ todo' \in Seq(W!Slots)
         /\ \A q \in W!Slots : Treated(q)' => q = r \/ Treated(q)
<1>1. /\ todo \in Seq(W!Slots) /\ Len(todo) > 0 /\ r = todo[1]
      /\ Len(todo') = Len(todo) - 1 /\ todo' \in Seq(W!Slots)
      /\ \A k \in 1 .. Len(todo) - 1 : todo'[k] = todo[k + 1]
  BY DEF WatchInv, SavedTypes
<1>2. \A k \in DOMAIN todo : k = 1 \/ (k - 1 \in DOMAIN todo' /\ todo'[k - 1] = todo[k])
  BY <1>1
<1> QED BY <1>1, <1>2 DEF Treated

(* What fails is owed, unless every container was created from what is on disk. *)
LEMMA WatchFails ==
  ASSUME WatchInv, W!Fails, UNCHANGED assembly, pass \in {"rebuild", "soft-reload"}
  PROVE  \A p \in Created : ~owed' => ~owed /\ \A r \in W!Slots : running[r][p] = assembly[p]
BY DEF W!Fails, W!NeedsRebuild, Created

LEMMA WatchRolls == ASSUME WatchInv, NEW r \in W!Slots, W!Rolls(r) PROVE WatchInv'
<1> USE DEF Kinds
<1>0. /\ pass = "rebuild" /\ todo # <<>> /\ r = Head(todo) /\ todo' = Tail(todo)
      /\ UNCHANGED <<language, disk, notes, pending, firings, pass, changed, assembly>>
  BY DEF W!Rolls, W!watcherVars
<1>1. /\ todo' \in Seq(W!Slots)
      /\ \A q \in W!Slots : Treated(q)' => q = r \/ Treated(q)
  BY <1>0, WatchTreats
<1>2. CASE /\ running' = [running EXCEPT ![r] = assembly]
           /\ stamp' = [stamp EXCEPT ![r] = W!Hash(assembly)]
           /\ descriptor' = [descriptor EXCEPT ![r] = assembly]
           /\ order' = Append(W!RemoveAt(order, CHOOSE k \in DOMAIN order : order[k] = r), r)
           /\ reverted' = reverted \ {r}
           /\ UNCHANGED <<failed, owed>>
  <2>1. order' \in Seq(W!Slots) /\ \A q \in W!Slots : \E k \in DOMAIN order' : order'[k] = q
    <3> DEFINE n == CHOOSE k \in DOMAIN order : order[k] = r
               rest == W!RemoveAt(order, n)
    <3>1. order \in Seq(W!Slots) /\ n \in DOMAIN order /\ order[n] = r
      BY DEF WatchInv, SavedTypes
    <3> HIDE DEF n
    <3>0. DOMAIN order = 1 .. Len(order)
      BY <3>1
    <3>2. /\ rest \in Seq(W!Slots) /\ Len(rest) = Len(order) - 1
          /\ \A k \in 1 .. Len(order) - 1 : rest[k] = IF k < n THEN order[k] ELSE order[k + 1]
      BY <3>0, <3>1, RemovedAt DEF W!RemoveAt
    <3> HIDE DEF rest
    <3>3. order' = Append(rest, r)
      BY <1>2 DEF n, rest
    <3>4. /\ order' \in Seq(W!Slots) /\ Len(order') = Len(order) /\ order'[Len(order)] = r
          /\ \A k \in 1 .. Len(order) - 1 : order'[k] = rest[k]
      BY <3>1, <3>2, <3>3
    <3> SUFFICES ASSUME NEW q \in W!Slots PROVE \E k \in DOMAIN order' : order'[k] = q
      BY <3>4
    <3>5. PICK k \in DOMAIN order : order[k] = q
      BY DEF WatchInv, SavedTypes
    <3>6. CASE k < n
      BY <3>1, <3>2, <3>4, <3>5, <3>6
    <3>7. CASE k > n
      <4>1. k - 1 \in 1 .. Len(order) - 1 /\ rest[k - 1] = order[k]
        BY <3>1, <3>2, <3>7
      <4> QED BY <3>1, <3>4, <3>5, <4>1
    <3>8. CASE k = n
      BY <3>1, <3>4, <3>5, <3>8
    <3> QED BY <3>1, <3>6, <3>7, <3>8
  <2>2. /\ running' \in [W!Slots -> Versions] /\ descriptor' \in [W!Slots -> Versions]
        /\ DOMAIN stamp' = W!Slots
        /\ running'[r] = assembly /\ descriptor'[r] = assembly
        /\ \A q \in W!Slots \ {r} : running'[q] = running[q] /\ descriptor'[q] = descriptor[q]
    BY <1>2 DEF WatchInv, SavedTypes
  <2>3. SavedTypes' /\ Synthesized'
    BY <1>0, <1>1, <1>2, <2>1, <2>2 DEF WatchInv, SavedTypes, Synthesized, Ahead
  <2>4. Described' /\ Copied'
    BY <1>0, <1>1, <1>2, <2>2 DEF WatchInv, SavedTypes, Described, Copied
  <2>5. Rebuilt'
    <3> SUFFICES ASSUME NEW p \in Created, NEW q \in W!Slots, Treated(q)'
                 PROVE  /\ ~owed /\ ~Ahead(p)' => running'[q][p] = disk[p]
                        /\ ~failed => running'[q][p] = assembly[p]
      BY <1>0, <1>2 DEF Rebuilt, Owing
    <3>1. ~Ahead(p)' => assembly[p] = disk[p]
      BY <1>0 DEF WatchInv, Synthesized, Ahead, Created
    <3>2. CASE q = r
      BY <2>2, <3>1, <3>2
    <3>3. CASE q # r
      BY <1>0, <1>1, <2>2, <3>3 DEF WatchInv, Rebuilt, Owing, Ahead
    <3> QED BY <3>2, <3>3
  <2> QED BY <2>3, <2>4, <2>5 DEF WatchInv
<1>3. CASE W!Fails /\ UNCHANGED <<order, running, stamp, descriptor, reverted>>
  <2>1. failed' = TRUE /\ owed' \in BOOLEAN
    BY <1>3 DEF W!Fails, W!NeedsRebuild, WatchInv, SavedTypes
  <2>2. \A p \in Created : ~owed' => ~owed /\ \A q \in W!Slots : running[q][p] = assembly[p]
    BY <1>0, <1>3, WatchFails
  <2>3. SavedTypes' /\ Synthesized' /\ Described' /\ Copied'
    BY <1>0, <1>1, <1>3, <2>1 DEF WatchInv, SavedTypes, Synthesized, Ahead, Described, Copied
  <2>4. Rebuilt'
    <3>1. \A p \in Created : ~Ahead(p)' => assembly[p] = disk[p]
      BY <1>0 DEF WatchInv, Synthesized, Ahead, Created
    <3> QED BY <1>0, <1>3, <2>1, <2>2, <3>1 DEF Rebuilt, Owing
  <2> QED BY <2>3, <2>4 DEF WatchInv
<1> QED BY <1>2, <1>3 DEF W!Rolls, W!replicaVars

LEMMA WatchCopies == ASSUME WatchInv, NEW r \in W!Slots, W!SoftReloads(r) PROVE WatchInv'
<1> USE DEF Kinds
<1>0. /\ pass = "soft-reload" /\ todo # <<>> /\ r = Head(todo) /\ todo' = Tail(todo)
      /\ UNCHANGED <<language, disk, notes, pending, firings, pass, changed, assembly, order, descriptor>>
  BY DEF W!SoftReloads, W!watcherVars
<1>1. /\ todo' \in Seq(W!Slots)
      /\ \A q \in W!Slots : Treated(q)' => q = r \/ Treated(q)
  BY <1>0, WatchTreats
<1>2. /\ running' = [running EXCEPT ![r]["source"] = assembly["source"]] \/ UNCHANGED running
  BY DEF W!SoftReloads
<1>3. /\ running' \in [W!Slots -> Versions]
      /\ \A q \in W!Slots : \A p \in Created : running'[q][p] = running[q][p]
      /\ \A q \in W!Slots \ {r} : running'[q] = running[q]
      /\ running' = [running EXCEPT ![r]["source"] = assembly["source"]] => running'[r]["source"] = assembly["source"]
  <2>1. running \in [W!Slots -> Versions] /\ assembly \in Versions
    BY DEF WatchInv, SavedTypes
  <2>2. CASE UNCHANGED running
    BY <2>1, <2>2 DEF Versions
  <2>3. CASE running' = [running EXCEPT ![r]["source"] = assembly["source"]]
    <3>1. running' = [running EXCEPT ![r] = [running[r] EXCEPT !["source"] = assembly["source"]]]
      BY <2>3
    <3>2. /\ [running[r] EXCEPT !["source"] = assembly["source"]] \in Versions
          /\ [running[r] EXCEPT !["source"] = assembly["source"]]["source"] = assembly["source"]
          /\ \A p \in Created : [running[r] EXCEPT !["source"] = assembly["source"]][p] = running[r][p]
      BY <2>1 DEF Versions, Created
    <3> QED BY <2>1, <3>1, <3>2
  <2> QED BY <1>2, <2>2, <2>3
<1>4. \A p \in Created : ~Ahead(p)' => assembly[p] = disk[p]
  BY <1>0 DEF WatchInv, Synthesized, Ahead, Created
<1>5. CASE /\ running' = [running EXCEPT ![r]["source"] = assembly["source"]]
           /\ stamp' = [stamp EXCEPT ![r] = W!Hash(assembly)]
           /\ reverted' = reverted \ {r}
           /\ UNCHANGED <<failed, owed>>
  <2>1. SavedTypes' /\ Synthesized' /\ Described'
    BY <1>0, <1>1, <1>3, <1>5 DEF WatchInv, SavedTypes, Synthesized, Ahead, Described
  <2>2. Copied'
    BY <1>0, <1>1, <1>3, <1>5 DEF WatchInv, Copied
  <2>3. Rebuilt'
    BY <1>0, <1>3, <1>5 DEF WatchInv, Rebuilt, Owing, Ahead
  <2> QED BY <2>1, <2>2, <2>3 DEF WatchInv
<1>6. CASE W!Fails /\ UNCHANGED <<stamp, reverted>>
  <2>1. failed' = TRUE /\ owed' \in BOOLEAN /\ (~owed' => ~owed)
    BY <1>6 DEF W!Fails, W!NeedsRebuild, WatchInv, SavedTypes
  <2>2. SavedTypes' /\ Synthesized' /\ Described' /\ Copied'
    BY <1>0, <1>1, <1>3, <1>6, <2>1 DEF WatchInv, SavedTypes, Synthesized, Ahead, Described, Copied
  <2>3. Rebuilt'
    BY <1>0, <1>3, <2>1 DEF WatchInv, Rebuilt, Owing, Ahead
  <2> QED BY <2>2, <2>3 DEF WatchInv
<1> QED BY <1>5, <1>6 DEF W!SoftReloads

LEMMA WatchEnds == ASSUME WatchInv, W!ReloadEnds PROVE WatchInv'
<1> USE DEF Kinds
<1>0. /\ pass \in {"rebuild", "soft-reload"} /\ todo = <<>> /\ pass' = "idle"
      /\ owed' = IF pass = "rebuild" /\ ~failed THEN FALSE ELSE owed
      /\ UNCHANGED <<language, disk, notes, pending, firings, changed, assembly, todo, order, running,
                     stamp, descriptor, reverted, failed>>
  BY DEF W!ReloadEnds, W!watcherVars, W!replicaVars
<1>1. \A r \in W!Slots : Treated(r)
  BY <1>0 DEF Treated
<1>2. SavedTypes' /\ Synthesized' /\ Described' /\ Copied'
  BY <1>0, <1>1 DEF WatchInv, SavedTypes, Synthesized, Ahead, Described, Copied
<1>3. Rebuilt'
  <2>1. \A p \in Created : ~Ahead(p)' => ~Owing(p) /\ assembly[p] = disk[p]
    BY <1>0 DEF WatchInv, Synthesized, Ahead, Owing, Created
  <2> QED BY <1>0, <1>1, <2>1 DEF WatchInv, Rebuilt, Owing
<1> QED BY <1>2, <1>3 DEF WatchInv

LEMMA WatchRestarts == ASSUME WatchInv, NEW r \in W!Slots, W!Restarts(r) PROVE WatchInv'
<1> USE DEF Kinds
<1>0. /\ running' = [running EXCEPT ![r] = descriptor[r]] /\ reverted' = reverted \cup {r}
      /\ DOMAIN stamp' = DOMAIN stamp
      /\ UNCHANGED <<language, disk, notes, pending, firings, pass, changed, assembly, todo, order,
                     descriptor, failed, owed>>
  BY DEF W!Restarts, W!watcherVars, W!reloadVars
<1>1. /\ running' \in [W!Slots -> Versions]
      /\ \A q \in W!Slots : \A p \in Created : running'[q][p] = running[q][p]
      /\ \A q \in W!Slots \ {r} : running'[q] = running[q]
  <2>1. running \in [W!Slots -> Versions] /\ descriptor \in [W!Slots -> Versions]
    BY DEF WatchInv, SavedTypes
  <2>2. running' \in [W!Slots -> Versions] /\ running'[r] = descriptor[r]
        /\ \A q \in W!Slots \ {r} : running'[q] = running[q]
    BY <1>0, <2>1
  <2> QED BY <2>2 DEF WatchInv, Described
<1>2. SavedTypes' /\ Synthesized' /\ Described' /\ Copied'
  BY <1>0, <1>1 DEF WatchInv, SavedTypes, Synthesized, Ahead, Described, Copied, Treated
<1>3. Rebuilt'
  BY <1>0, <1>1 DEF WatchInv, Rebuilt, Owing, Ahead, Treated
<1> QED BY <1>2, <1>3 DEF WatchInv

LEMMA WatchStep == ASSUME WatchInv, [W!WatchNext]_(W!vars) PROVE WatchInv'
<1>1. CASE \E p \in W!Paths : W!Saves(p) \/ W!EventArrives(p)
  BY <1>1, WatchTold
<1>2. CASE W!Fires
  BY <1>2, WatchTold, "source" \in W!Paths DEF W!Paths
<1>3. CASE \E r \in W!Slots : W!Rolls(r) \/ W!SoftReloads(r) \/ W!Restarts(r)
  BY <1>3, WatchRolls, WatchCopies, WatchRestarts
<1>4. CASE UNCHANGED W!vars
  BY <1>4 DEF W!vars, W!watcherVars, W!reloadVars, W!replicaVars, WatchInv, SavedTypes, Synthesized,
    Ahead, Owing, Described, Copied, Rebuilt, Treated
<1> QED BY <1>1, <1>2, <1>3, <1>4, WatchSynthesizes, WatchClassifies, WatchEnds DEF W!WatchNext

LEMMA WatchInStep == ASSUME WatchInv PROVE W!InStep
<1> USE DEF Kinds
<1> SUFFICES ASSUME W!Quiet, ~failed, NEW r \in W!Slots \ reverted
             PROVE  /\ running[r]["source"] = disk["source"]
                    /\ ~owed => running[r] = disk
  BY DEF W!InStep
<1>1. pass = "idle" /\ \A p \in Kinds : ~Ahead(p) /\ ~Owing(p)
  BY DEF W!Quiet, Ahead, Owing
<1>2. \A p \in Kinds : assembly[p] = disk[p]
  BY <1>1 DEF WatchInv, Synthesized
<1>3. running[r]["source"] = disk["source"]
  BY <1>1, <1>2 DEF WatchInv, Copied
<1>4. ASSUME ~owed PROVE running[r] = disk
  <2>1. \A p \in Kinds : running[r][p] = disk[p]
    BY <1>1, <1>3, <1>4 DEF WatchInv, Rebuilt, Created
  <2>2. running[r] \in [Kinds -> Nat] /\ disk \in [Kinds -> Nat]
    BY DEF WatchInv, SavedTypes, Versions
  <2> QED BY <2>1, <2>2
<1> QED BY <1>3, <1>4

(***************************************************************************)
(* The registry                                                            *)
(***************************************************************************)

Endpoints == [owner : R!Instances, ip : Ips]
Book(s) == {byFqdn[s][k] : k \in DOMAIN byFqdn[s]}
Owns(s, i) == \E e \in Book(s) : e.owner = i

Alive(i) == state[i] # "none" /\ ~outdated[i]
Member(i, s) == i[1] = s /\ Alive(i)
Addressed(i) == \E a \in Ips : at[a] = i
InShadow(i) == roll = "shadow" /\ i = R!Shadow(rolled)
Recycled(i) == roll = "cycling" /\ i = rolled
Booted(s) == chain # "boot" \/ \E k \in DOMAIN Targets : k < turn /\ Targets[k] = s

(* A replica has at most one entry in the registry, under its service.       *)
RegTypes ==
  /\ at \in [Ips -> R!Instances \cup {NoContainer}]
  /\ byFqdn \in [R!Services -> Seq(Endpoints)]
  /\ \A s \in R!Services : \A e \in Book(s) : e.owner[1] = s
  /\ \A s \in R!Services : \A k, l \in DOMAIN byFqdn[s] :
       byFqdn[s][k].owner = byFqdn[s][l].owner => k = l
  /\ state \in [R!Instances -> {"none", "booting", "started", "publishing", "up", "degraded", "failed"}]
  /\ outdated \in [R!Instances -> BOOLEAN]
  /\ DOMAIN hosts = R!Instances
  /\ left \subseteq R!Instances /\ changes \in 0 .. MaxRounds
  /\ renewed => unhurt

(* The boot and the reload go through the targets in order, and a reload     *)
(* replaces the replicas of one target one after another.                    *)
Chained ==
  /\ chain \in {"boot", "idle", "reload"}
  /\ chain = "idle" => turn = Len(Targets) + 1 /\ left = {}
  /\ chain # "idle" => turn \in DOMAIN Targets /\ \A i \in left : i[1] = Targets[turn]
  /\ chain = "boot" => changes = 0 /\ \A i \in left : i[3] = 0
  /\ chain = "reload" => changes > 0 /\ \A i \in left : state[i] # "none"
  /\ chain = "reload" /\ verdict = "none" => left = {}
  /\ renewed /\ chain = "reload" => verdict \in {"none", "rebuild"}

Rolling ==
  /\ roll \in {"none", "clearing", "shadow", "retiring", "cycling"}
  /\ roll = "none" <=> rolled = NoContainer
  /\ roll # "none" =>
       /\ chain = "reload" /\ verdict # "none"
       /\ rolled \in R!Instances \ left /\ rolled[1] = Targets[turn] /\ rolled[3] < changes
       /\ state[rolled] # "none"
       /\ roll = "cycling" <=> verdict = "soft-reload"
  /\ roll \in {"clearing", "retiring"} => outdated[rolled]
  /\ roll = "clearing" => R!SingleReplica(rolled[1]) /\ state[R!Shadow(rolled)] = "none"
  /\ roll = "retiring" => ~R!SingleReplica(rolled[1])
  /\ roll = "shadow" =>
       /\ Alive(R!Shadow(rolled)) /\ R!Shadow(rolled) \notin left
       /\ R!SingleReplica(rolled[1]) => outdated[rolled]
  /\ roll = "cycling" /\ outdated[rolled] => state[rolled] = "failed"

(* A later generation of a replica boots only in a roll that replaces it.    *)
Generations ==
  /\ \A i \in R!Instances : state[i] # "none" => i[3] <= changes
  /\ chain = "reload" =>
       \A k \in DOMAIN Targets : \A i \in R!Instances :
         /\ i[1] = Targets[k] /\ state[i] # "none"
         /\ k > turn \/ (k = turn /\ (verdict = "none" \/ i \in left))
         => i[3] < changes
  /\ \A i \in R!Instances : state[i] = "none" => ~outdated[i]
  /\ \A i \in R!Instances :
       R!Shadow(i) \in R!Instances /\ state[R!Shadow(i)] # "none" =>
         state[i] # "none" /\ (outdated[i] \/ InShadow(R!Shadow(i)))

(* What is retired is not published any more, unless its own roll does it.   *)
Retirement ==
  /\ \A i \in R!Instances :
       outdated[i] /\ state[i] = "publishing" /\ Addressed(i) =>
         rolled = i /\ roll \in {"clearing", "retiring"}
  /\ \A i \in R!Instances : state[i] \in {"degraded", "failed"} => outdated[i]

BootOrder ==
  chain = "boot" =>
    /\ \A k \in DOMAIN Targets : \A i \in R!Instances : i[1] = Targets[k] =>
         /\ k > turn => state[i] = "none"
         /\ i[3] = 0 /\ (k < turn \/ (k = turn /\ i \notin left)) => state[i] # "none"
    /\ unhurt => \A i \in R!Instances : ~outdated[i]

(* Where nothing went wrong: a container that has started has an address, a  *)
(* replica that is up has an entry, and entries lead to their owners.        *)
Unhurt ==
  /\ \A i \in R!Instances : Alive(i) =>
       /\ state[i] \in {"started", "publishing", "up"} => Addressed(i)
       /\ state[i] = "up" => Recycled(i) \/ Owns(i[1], i)
       /\ Booted(i[1]) => state[i] = "up" \/ InShadow(i)
  /\ \A s \in R!Services : \A e \in Book(s) :
       at[e.ip] = e.owner /\ Alive(e.owner) /\ ~Recycled(e.owner)
  /\ roll \in {"clearing", "retiring"} => state[rolled] = "up"
  /\ roll = "cycling" => ~outdated[rolled]
  /\ roll = "shadow" /\ ~R!SingleReplica(rolled[1]) => state[rolled] = "up" /\ ~outdated[rolled]

(* And every service that has booted is there.                               *)
Present ==
  \A s \in R!Services : Booted(s) =>
    /\ (\E i \in R!Instances : Member(i, s)) \/ (roll = "clearing" /\ rolled[1] = s)
    /\ ~R!SingleReplica(s) =>
         \E i, j \in R!Instances :
           i # j /\ Member(i, s) /\ Member(j, s) /\ ~InShadow(i) /\ ~InShadow(j)

(* The boot, or the reload, has passed the replica i of the kth target.      *)
Passed(i, k) ==
  \/ k < turn
  \/ k = turn /\ (chain = "boot" \/ (verdict # "none" /\ i \notin left /\ i # rolled))
Knows(i, k) ==
  \A j \in DOMAIN Targets : j < k =>
    hosts[i][Targets[j]] \in Ips /\ R!LeadsTo(hosts[i][Targets[j]], Targets[j])
Known ==
  \A k \in DOMAIN Targets : \A i \in R!Instances :
    Member(i, Targets[k]) /\ Passed(i, k) => Knows(i, k)

RegistryInv ==
  /\ RegTypes /\ Chained /\ Rolling /\ Generations /\ Retirement /\ BootOrder
  /\ unhurt => Unhurt /\ Present
  /\ renewed => Known

(* The instances are triples of a service, an index and a generation.        *)
LEMMA RegistryConstants ==
  /\ Targets \in Seq(R!Services) /\ Targets # <<>> /\ DOMAIN Targets = 1 .. Len(Targets)
  /\ Len(Targets) \in Nat \ {0}
  /\ \A k, l \in DOMAIN Targets : Targets[k] = Targets[l] => k = l
  /\ \A s \in R!Services : \E k \in DOMAIN Targets : Targets[k] = s
  /\ \A k \in DOMAIN Targets : Targets[k] \in R!Services
  /\ R!Alias \notin R!Services /\ Claimants \subseteq R!Services
  /\ ReplicasOf \in [R!Services -> Nat \ {0}] /\ MaxRounds \in Nat
  /\ Ips \subseteq Nat /\ NoContainer \notin Ips /\ NoContainer \notin R!Services
  /\ NoContainer \notin R!Instances
<1>1. R!RegistryAssumption
  BY ReloadsAssumption
<1>2. Targets \in Seq(R!Services) /\ Targets # <<>>
  BY <1>1 DEF R!RegistryAssumption
<1>3. Len(Targets) \in Nat \ {0} /\ DOMAIN Targets = 1 .. Len(Targets)
  BY <1>2
<1>4. \A s : s \in R!Services <=> \E k \in DOMAIN Targets : Targets[k] = s
  BY DEF R!Services
<1>5. ReplicasOf \in [R!Services -> Nat \ {0}] /\ MaxRounds \in Nat
  BY <1>1 DEF R!RegistryAssumption
<1> QED BY <1>1, <1>2, <1>3, <1>4, <1>5 DEF R!RegistryAssumption

LEMMA InstanceFacts ==
  ASSUME NEW i \in R!Instances
  PROVE  /\ i = <<i[1], i[2], i[3]>> /\ i[1] \in R!Services
         /\ i[2] \in 0 .. ReplicasOf[i[1]] - 1 /\ i[3] \in 0 .. MaxRounds
         /\ i # NoContainer /\ i \in R!Of(i[1])
         /\ R!Shadow(i) # i /\ R!Shadow(i)[1] = i[1] /\ R!Shadow(i)[3] = i[3] + 1
         /\ i[3] < MaxRounds => R!Shadow(i) \in R!Instances
         /\ \A j \in R!Instances : R!Shadow(j) = R!Shadow(i) => j = i
<1>1. \A j \in R!Instances : /\ j = <<j[1], j[2], j[3]>> /\ j[1] \in R!Services
                             /\ j[2] \in 0 .. ReplicasOf[j[1]] - 1 /\ j[3] \in 0 .. MaxRounds
  BY DEF R!Instances
<1>2. R!Shadow(i)[1] = i[1] /\ R!Shadow(i)[2] = i[2] /\ R!Shadow(i)[3] = i[3] + 1
  BY DEF R!Shadow
<1>3. i[3] < MaxRounds => R!Shadow(i) \in R!Instances
  BY <1>1, RegistryConstants DEF R!Instances, R!Shadow
<1>4. \A j \in R!Instances : R!Shadow(j) = R!Shadow(i) => j = i
  <2> TAKE j \in R!Instances
  <2> HAVE R!Shadow(j) = R!Shadow(i)
  <2>1. j[1] = i[1] /\ j[2] = i[2] /\ j[3] + 1 = i[3] + 1
    BY DEF R!Shadow
  <2>2. j[3] = i[3]
    BY <1>1, <2>1, RegistryConstants
  <2> QED BY <1>1, <2>1, <2>2
<1>5. R!Shadow(i) # i
  BY <1>1, <1>2, RegistryConstants
<1> QED BY <1>1, <1>2, <1>3, <1>4, <1>5, RegistryConstants DEF R!Of

LEMMA Smallest ==
  ASSUME NEW S \in SUBSET Nat, S # {}
  PROVE  R!Min(S) \in S
<1> DEFINE Q == {s \in Nat \X Nat : s[1] < s[2]}
<1>1. OpToRel(<, Nat) = Q
  BY Zenon DEF OpToRel
<1>2. PICK x \in S : \A y \in S : <<y, x>> \notin Q
  BY <1>1, NatLessThanWellFounded, WFMin
<1>3. \A y \in S : x <= y
  <2> TAKE y \in S
  <2>1. x \in Nat /\ y \in Nat
    OBVIOUS
  <2>2. ~(y < x)
    BY <1>2, <2>1
  <2> QED BY <2>1, <2>2
<1> QED BY <1>3 DEF R!Min

(* Taking a replica out of the registry takes out its entry and no other.    *)
LEMMA Taken ==
  ASSUME RegTypes, NEW i \in R!Instances
  PROVE  LET rest == R!Without(i) IN
         /\ rest \in Seq(Endpoints)
         /\ {rest[k] : k \in DOMAIN rest} = {e \in Book(i[1]) : e.owner # i}
         /\ \A k, l \in DOMAIN rest : rest[k].owner = rest[l].owner => k = l
<1> DEFINE s == byFqdn[i[1]]
           owned == {k \in DOMAIN s : s[k].owner = i}
           rest == R!Without(i)
<1>1. /\ s \in Seq(Endpoints) /\ DOMAIN s = 1 .. Len(s) /\ Len(s) \in Nat
      /\ \A k, l \in DOMAIN s : s[k].owner = s[l].owner => k = l
  BY InstanceFacts DEF RegTypes
<1>2. rest = IF owned = {} THEN s ELSE R!RemoveAt(s, CHOOSE k \in owned : TRUE)
  BY DEF R!Without
<1>3. Book(i[1]) = {s[k] : k \in DOMAIN s}
  BY DEF Book
<1> HIDE DEF s, rest
<1>4. CASE owned = {}
  BY <1>1, <1>2, <1>3, <1>4 DEF rest
<1>5. CASE owned # {}
  <2> DEFINE n == CHOOSE k \in owned : TRUE
  <2>1. n \in DOMAIN s /\ s[n].owner = i
    BY <1>5
  <2> HIDE DEF n
  <2>2. rest = SubSeq(s, 1, n - 1) \o SubSeq(s, n + 1, Len(s))
    BY <1>2, <1>5 DEF n, R!RemoveAt
  <2>3. /\ rest \in Seq(Endpoints) /\ Len(rest) = Len(s) - 1
        /\ \A k \in 1 .. Len(s) - 1 : rest[k] = IF k < n THEN s[k] ELSE s[k + 1]
    <3>1. n \in 1 .. Len(s) /\ s \in Seq(Endpoints)
      BY <1>1, <2>1
    <3> HIDE DEF n
    <3> QED BY <2>2, <3>1, RemovedAt
  <2>4. DOMAIN rest = 1 .. Len(s) - 1
    BY <2>3
  <2>5. \A k \in DOMAIN s \ {n} : \E l \in DOMAIN rest : rest[l] = s[k]
    <3> TAKE k \in DOMAIN s \ {n}
    <3>1. CASE k < n
      BY <1>1, <2>1, <2>3, <2>4, <3>1
    <3>2. CASE k > n
      <4>1. k - 1 \in 1 .. Len(s) - 1 /\ ~(k - 1 < n) /\ k - 1 + 1 = k
        BY <1>1, <2>1, <3>2
      <4> QED BY <2>3, <2>4, <4>1
    <3> QED BY <1>1, <2>1, <3>1, <3>2
  <2>6. \A l \in DOMAIN rest : \E k \in DOMAIN s \ {n} :
          rest[l] = s[k] /\ k = IF l < n THEN l ELSE l + 1
    BY <1>1, <2>1, <2>3, <2>4
  <2>7. \A k \in DOMAIN s : s[k].owner = i <=> k = n
    BY <1>1, <2>1
  <2>8. {rest[k] : k \in DOMAIN rest} = {e \in Book(i[1]) : e.owner # i}
    <3>1. \A l \in DOMAIN rest : rest[l] \in Book(i[1]) /\ rest[l].owner # i
      BY <1>3, <2>6, <2>7
    <3>2. \A e \in Book(i[1]) : e.owner # i => \E l \in DOMAIN rest : rest[l] = e
      BY <1>3, <2>5, <2>7
    <3> QED BY <3>1, <3>2
  <2>9. ASSUME NEW k \in DOMAIN rest, NEW l \in DOMAIN rest, rest[k].owner = rest[l].owner PROVE k = l
    <3>1. PICK m \in DOMAIN s : rest[k] = s[m] /\ m = IF k < n THEN k ELSE k + 1
      BY <2>6
    <3>2. PICK o \in DOMAIN s : rest[l] = s[o] /\ o = IF l < n THEN l ELSE l + 1
      BY <2>6
    <3>3. m = o
      BY <1>1, <2>9, <3>1, <3>2
    <3> QED BY <1>1, <2>1, <2>4, <3>1, <3>2, <3>3
  <2> QED BY <2>3, <2>8, <2>9 DEF rest
<1> QED BY <1>4, <1>5

BookTypes ==
  /\ byFqdn \in [R!Services -> Seq(Endpoints)]
  /\ \A s \in R!Services : \A e \in Book(s) : e.owner[1] = s
  /\ \A s \in R!Services : \A k, l \in DOMAIN byFqdn[s] :
       byFqdn[s][k].owner = byFqdn[s][l].owner => k = l

LEMMA Unregistered ==
  ASSUME RegTypes, NEW i \in R!Instances, R!Unregister(i)
  PROVE  /\ BookTypes'
         /\ \A s \in R!Services \ {i[1]} : Book(s)' = Book(s)
         /\ Book(i[1])' = {e \in Book(i[1]) : e.owner # i}
         /\ \A s \in R!Services : Book(s)' = {e \in Book(s) : e.owner # i}
<1> DEFINE rest == R!Without(i)
<1>1. /\ rest \in Seq(Endpoints)
      /\ {rest[k] : k \in DOMAIN rest} = {e \in Book(i[1]) : e.owner # i}
      /\ \A k, l \in DOMAIN rest : rest[k].owner = rest[l].owner => k = l
  BY Taken
<1>2. byFqdn' = [byFqdn EXCEPT ![i[1]] = rest] /\ i[1] \in R!Services
  BY InstanceFacts DEF R!Unregister
<1> HIDE DEF rest
<1>3. byFqdn'[i[1]] = rest /\ \A s \in R!Services \ {i[1]} : byFqdn'[s] = byFqdn[s]
  BY <1>2 DEF RegTypes
<1>4. /\ \A s \in R!Services \ {i[1]} : Book(s)' = Book(s)
      /\ Book(i[1])' = {e \in Book(i[1]) : e.owner # i}
  BY <1>1, <1>3 DEF Book
<1>5. BookTypes'
  BY <1>1, <1>2, <1>3, <1>4 DEF BookTypes, RegTypes
<1>6. ASSUME NEW s \in R!Services PROVE Book(s)' = {e \in Book(s) : e.owner # i}
  <2>1. CASE s = i[1]
    BY <1>4, <2>1
  <2>2. CASE s # i[1]
    <3>1. Book(s)' = Book(s) /\ \A e \in Book(s) : e.owner # i
      BY <1>4, <2>2 DEF RegTypes
    <3> QED BY <3>1
  <2> QED BY <2>1, <2>2
<1> QED BY <1>4, <1>5, <1>6

LEMMA Registered ==
  ASSUME RegTypes, NEW i \in R!Instances, NEW a \in Ips, R!Register(i, a)
  PROVE  /\ BookTypes'
         /\ \A s \in R!Services : \A e \in Book(s)' :
              (e \in Book(s) /\ e.owner # i) \/ (e.owner = i /\ e.ip = a)
         /\ \A j \in R!Instances \ {i} : Owns(j[1], j) => Owns(j[1], j)'
         /\ Owns(i[1], i)'
<1> DEFINE rest == R!Without(i)
           new == [owner |-> i, ip |-> a]
<1>1. /\ rest \in Seq(Endpoints)
      /\ {rest[k] : k \in DOMAIN rest} = {e \in Book(i[1]) : e.owner # i}
      /\ \A k, l \in DOMAIN rest : rest[k].owner = rest[l].owner => k = l
  BY Taken
<1>2. byFqdn' = [byFqdn EXCEPT ![i[1]] = Append(rest, new)] /\ i[1] \in R!Services
  BY InstanceFacts DEF R!Register
<1>3. new \in Endpoints /\ new.owner = i /\ new.ip = a
  BY DEF Endpoints
<1> HIDE DEF rest, new
<1>4. byFqdn'[i[1]] = Append(rest, new) /\ \A s \in R!Services \ {i[1]} : byFqdn'[s] = byFqdn[s]
  BY <1>2 DEF RegTypes
<1>5. /\ Append(rest, new) \in Seq(Endpoints)
      /\ DOMAIN Append(rest, new) = DOMAIN rest \cup {Len(rest) + 1}
      /\ Len(rest) + 1 \notin DOMAIN rest
      /\ \A k \in DOMAIN rest : Append(rest, new)[k] = rest[k]
      /\ Append(rest, new)[Len(rest) + 1] = new
  BY <1>1, <1>3
<1>6. {Append(rest, new)[k] : k \in DOMAIN Append(rest, new)} = {rest[k] : k \in DOMAIN rest} \cup {new}
  BY <1>5
<1>7. /\ \A s \in R!Services \ {i[1]} : Book(s)' = Book(s)
      /\ Book(i[1])' = {e \in Book(i[1]) : e.owner # i} \cup {new}
  BY <1>1, <1>4, <1>6 DEF Book
<1>8. \A k \in DOMAIN rest : rest[k].owner # i
  BY <1>1
<1>9. \A k, l \in DOMAIN Append(rest, new) :
        Append(rest, new)[k].owner = Append(rest, new)[l].owner => k = l
  BY <1>1, <1>3, <1>5, <1>8
<1>10. BookTypes'
  <2>1. byFqdn' \in [R!Services -> Seq(Endpoints)]
    BY <1>2, <1>5 DEF RegTypes
  <2>2. \A s \in R!Services : \A e \in Book(s)' : e.owner[1] = s
    BY <1>3, <1>7 DEF RegTypes
  <2> QED BY <1>4, <1>9, <2>1, <2>2 DEF BookTypes, RegTypes
<1>11. \A s \in R!Services : \A e \in Book(s)' :
         (e \in Book(s) /\ e.owner # i) \/ (e.owner = i /\ e.ip = a)
  BY <1>3, <1>7 DEF RegTypes
<1>12. \A j \in R!Instances \ {i} : Owns(j[1], j) => Owns(j[1], j)'
  <2> TAKE j \in R!Instances \ {i}
  <2>1. j[1] \in R!Services
    BY InstanceFacts
  <2> QED BY <1>7, <2>1 DEF Owns
<1>13. Owns(i[1], i)'
  BY <1>3, <1>7 DEF Owns
<1> QED BY <1>10, <1>11, <1>12, <1>13

(* A container is given an address for every service that has an entry.      *)
LEMMA Flagged ==
  ASSUME RegTypes, NEW i \in R!Instances, NEW s \in R!Services, s # i[1], Book(s) # {}
  PROVE  \E e \in Book(s) : R!BuildAddHostFlags(i)[s] = e.ip
<1>1. byFqdn[s] \in Seq(Endpoints) /\ \A e \in Book(s) : e.owner[1] = s
  BY DEF RegTypes
<1>2. \A k \in DOMAIN byFqdn[s] : byFqdn[s][k] \in Book(s)
  BY DEF Book
<1>3. R!Others(i, s) = DOMAIN byFqdn[s]
  BY <1>1, <1>2 DEF R!Others, R!Excluded
<1>4. R!Others(i, s) # {} /\ R!Others(i, s) \in SUBSET Nat
  BY <1>1, <1>3 DEF Book
<1>5. R!Min(R!Others(i, s)) \in DOMAIN byFqdn[s]
  BY <1>3, <1>4, Smallest
<1>6. R!BuildAddHostFlags(i)[s] = R!First(i, s)
  BY RegistryConstants DEF R!BuildAddHostFlags
<1> QED BY <1>2, <1>4, <1>5, <1>6 DEF R!First

LEMMA RegistryArrays ==
  ASSUME RegTypes
  PROVE  /\ at \in [Ips -> R!Instances \cup {NoContainer}] /\ DOMAIN state = R!Instances
         /\ DOMAIN outdated = R!Instances /\ DOMAIN hosts = R!Instances
         /\ \A s \in R!Services : \A e \in Book(s) :
              e.owner \in R!Instances /\ e.ip \in Ips /\ e.owner[1] = s /\ e.owner # NoContainer
<1>1. \A s \in R!Services : \A e \in Book(s) : e \in Endpoints
  <2> TAKE s \in R!Services
  <2>1. byFqdn[s] \in Seq(Endpoints)
    BY DEF RegTypes
  <2> QED BY <2>1 DEF Book
<1>2. \A e \in Endpoints : e.owner \in R!Instances /\ e.ip \in Ips
  BY DEF Endpoints
<1> QED BY <1>1, <1>2, RegistryConstants DEF RegTypes

LEMMA RegistryStarts == ASSUME R!RegistryInit PROVE RegistryInv
<1> USE RegistryConstants, InstanceFacts DEF R!RegistryInit
<1>1. \A s \in R!Services : Book(s) = {}
  BY DEF Book
<1>2. R!Of(Targets[1]) \subseteq R!Instances /\ \A i \in R!Of(Targets[1]) : i[1] = Targets[1]
  BY DEF R!Of
<1>3. 1 \in DOMAIN Targets
  OBVIOUS
<1>4. RegTypes
  BY <1>1, <1>2 DEF RegTypes
<1>5. Chained /\ Rolling /\ Generations /\ Retirement
  BY <1>2, <1>3 DEF Chained, Rolling, Generations, Retirement
<1>6. BootOrder
  <2>1. ASSUME NEW k \in DOMAIN Targets, NEW i \in R!Instances, i[1] = Targets[k], i[3] = 0, k <= turn, i \notin left
        PROVE FALSE
    <3>1. k = 1
      BY <2>1
    <3> QED BY <2>1, <3>1 DEF R!Of
  <2> QED BY <2>1 DEF BootOrder
<1>7. Unhurt
  BY <1>1 DEF Unhurt, Alive
<1>8. Present /\ Known
  BY DEF Present, Known, Booted, Member, Alive
<1> QED BY <1>4, <1>5, <1>6, <1>7, <1>8 DEF RegistryInv

(* What only moves on the chain that boots or watches a replica.             *)
LEMMA Skeleton ==
  ASSUME RegistryInv,
         UNCHANGED <<outdated, chain, turn, left, verdict, rolled, roll, changes>>,
         \A i \in R!Instances : state'[i] = "none" <=> state[i] = "none",
         roll = "cycling" /\ outdated[rolled] => state'[rolled] = "failed",
         unhurt' => unhurt, renewed' => renewed
  PROVE  Chained' /\ Rolling' /\ Generations' /\ BootOrder'
<1> USE DEF RegistryInv
<1>1. Chained'
  BY DEF Chained, RegTypes
<1>2. roll \in {"clearing", "shadow"} => R!Shadow(rolled) \in R!Instances
  BY InstanceFacts, RegistryConstants DEF Rolling, RegTypes
<1>3. Rolling'
  BY <1>2 DEF Rolling, Alive
<1>4. Generations'
  BY DEF Generations, InShadow, RegTypes
<1>5. BootOrder'
  BY DEF BootOrder
<1> QED BY <1>1, <1>3, <1>4, <1>5

LEMMA PresentKept ==
  ASSUME Present, UNCHANGED <<chain, turn, rolled, roll>>, \A i \in R!Instances : Alive(i) => Alive(i)'
  PROVE  Present'
BY DEF Present, Booted, Member, InShadow

(* The services before the one at its turn keep their addresses.             *)
EarlierKept ==
  \A a \in Ips : \A j \in DOMAIN Targets :
    j < turn /\ at[a] # NoContainer /\ at[a][1] = Targets[j] => at'[a] = at[a]

LEMMA KnownKept ==
  ASSUME RegistryInv, Known, EarlierKept,
         \A k \in DOMAIN Targets : \A i \in R!Instances :
           Member(i, Targets[k])' /\ Passed(i, k)' =>
             Knows(i, k)' \/ (Member(i, Targets[k]) /\ Passed(i, k) /\ hosts'[i] = hosts[i])
  PROVE  Known'
<1> SUFFICES ASSUME NEW k \in DOMAIN Targets, NEW i \in R!Instances, Knows(i, k),
                    Passed(i, k), hosts'[i] = hosts[i], NEW j \in DOMAIN Targets, j < k
             PROVE  hosts'[i][Targets[j]] \in Ips /\ R!LeadsTo(hosts[i][Targets[j]], Targets[j])'
  BY DEF Known, Knows
<1>1. /\ hosts[i][Targets[j]] \in Ips
      /\ at[hosts[i][Targets[j]]] # NoContainer /\ at[hosts[i][Targets[j]]][1] = Targets[j]
  BY DEF Knows, R!LeadsTo
<1>2. j < turn
  BY RegistryConstants DEF RegistryInv, Chained, Passed
<1>3. at'[hosts[i][Targets[j]]] = at[hosts[i][Targets[j]]]
  BY <1>1, <1>2 DEF EarlierKept
<1> QED BY <1>1, <1>3, RegistryConstants DEF R!LeadsTo

LEMMA RegistryContainerStarts ==
  ASSUME RegistryInv, NEW i \in R!Instances, NEW a \in Ips, R!ContainerStarts(i, a)
  PROVE  RegistryInv'
<1>0. /\ state[i] = "booting" /\ at[a] = NoContainer
      /\ at' = [at EXCEPT ![a] = i] /\ state' = [state EXCEPT ![i] = "started"]
      /\ UNCHANGED <<byFqdn, aliasOf, hosts, outdated, chain, turn, left, verdict, rolled, roll,
                     changes, exits, unhurt, renewed>>
  BY DEF R!ContainerStarts, R!Free, R!Go, R!registryVars, R!chainVars, R!histVars
<1>1. /\ i # NoContainer /\ at'[a] = i /\ \A b \in Ips \ {a} : at'[b] = at[b]
      /\ state'[i] = "started" /\ \A j \in R!Instances \ {i} : state'[j] = state[j]
  BY <1>0, RegistryArrays, RegistryConstants DEF RegistryInv
<1>2. RegTypes'
  BY <1>0 DEF RegistryInv, RegTypes, Book
<1>3. Chained' /\ Rolling' /\ Generations' /\ BootOrder'
  <2>1. roll = "cycling" /\ outdated[rolled] => state'[rolled] = "failed"
    BY <1>0, <1>1 DEF RegistryInv, Rolling
  <2> QED BY <1>0, <1>1, <2>1, Skeleton
<1>4. \A j \in R!Instances : /\ Addressed(j) => Addressed(j)'
                             /\ j # i => (Addressed(j)' => Addressed(j))
  BY <1>0, <1>1, InstanceFacts DEF Addressed
<1>5. Retirement'
  BY <1>0, <1>1, <1>4 DEF RegistryInv, Retirement
<1>6. \A j \in R!Instances : Alive(j)' <=> Alive(j)
  BY <1>0, <1>1 DEF Alive
<1>7. ASSUME unhurt' PROVE Unhurt' /\ Present'
  <2>1. Unhurt /\ Present
    BY <1>0, <1>7 DEF RegistryInv
  <2>2. Addressed(i)'
    BY <1>1 DEF Addressed
  <2>3. \A s \in R!Services : Book(s)' = Book(s)
    BY <1>0 DEF Book
  <2>4. \A j \in R!Instances : Alive(j)' =>
          /\ state'[j] \in {"started", "publishing", "up"} => Addressed(j)'
          /\ state'[j] = "up" => Recycled(j)' \/ Owns(j[1], j)'
          /\ Booted(j[1])' => state'[j] = "up" \/ InShadow(j)'
    <3> TAKE j \in R!Instances
    <3>1. j[1] \in R!Services /\ Booted(j[1])' = Booted(j[1]) /\ InShadow(j)' = InShadow(j)
      BY <1>0, InstanceFacts DEF Booted, InShadow
    <3>2. CASE j = i
      BY <1>0, <1>1, <1>6, <2>1, <2>2, <3>1, <3>2 DEF Unhurt
    <3>3. CASE j # i
      BY <1>0, <1>1, <1>4, <1>6, <2>1, <2>3, <3>1, <3>3 DEF Unhurt, Owns, Recycled
    <3> QED BY <3>2, <3>3
  <2>5. \A s \in R!Services : \A e \in Book(s)' : at'[e.ip] = e.owner /\ Alive(e.owner)' /\ ~Recycled(e.owner)'
    BY <1>0, <1>1, <1>6, <2>1, <2>3, RegistryArrays DEF Unhurt, Recycled, RegistryInv
  <2>6. /\ roll \in {"clearing", "retiring"} => state'[rolled] = "up"
        /\ roll = "cycling" => ~outdated[rolled]
        /\ roll = "shadow" /\ ~R!SingleReplica(rolled[1]) => state'[rolled] = "up" /\ ~outdated[rolled]
    BY <1>0, <1>1, <2>1 DEF Unhurt, RegistryInv, Rolling
  <2>7. Unhurt'
    BY <1>0, <2>4, <2>5, <2>6 DEF Unhurt
  <2> QED BY <1>0, <1>6, <2>1, <2>7, PresentKept
<1>8. ASSUME renewed' PROVE Known'
  <2>1. Known /\ EarlierKept
    BY <1>0, <1>1, <1>8 DEF RegistryInv, EarlierKept
  <2> QED BY <1>0, <1>6, <2>1, KnownKept DEF Member, Passed
<1> QED BY <1>2, <1>3, <1>5, <1>7, <1>8 DEF RegistryInv
LEMMA RegistryProbeEnds ==
  ASSUME RegistryInv, NEW i \in R!Instances, R!ProbeEnds(i)
  PROVE  RegistryInv'
<1>0. /\ state[i] = "started"
      /\ state' = [state EXCEPT ![i] = IF outdated[i] THEN "up" ELSE "publishing"]
      /\ UNCHANGED <<at, byFqdn, aliasOf, hosts, outdated, chain, turn, left, verdict, rolled, roll,
                     changes, exits, unhurt, renewed>>
  BY DEF R!ProbeEnds, R!Go, R!registryVars, R!chainVars, R!histVars
<1>1. /\ state'[i] = IF outdated[i] THEN "up" ELSE "publishing"
      /\ \A j \in R!Instances \ {i} : state'[j] = state[j]
  BY <1>0, RegistryArrays DEF RegistryInv
<1>2. RegTypes'
  BY <1>0 DEF RegistryInv, RegTypes, Book
<1>3. Chained' /\ Rolling' /\ Generations' /\ BootOrder'
  <2>1. roll = "cycling" /\ outdated[rolled] => state'[rolled] = "failed"
    BY <1>0, <1>1 DEF RegistryInv, Rolling
  <2> QED BY <1>0, <1>1, <2>1, Skeleton
<1>4. Retirement'
  BY <1>0, <1>1 DEF RegistryInv, Retirement, Addressed
<1>5. \A j \in R!Instances : Alive(j)' <=> Alive(j)
  BY <1>0, <1>1 DEF Alive
<1>6. ASSUME unhurt' PROVE Unhurt' /\ Present'
  <2>1. Unhurt /\ Present
    BY <1>0, <1>6 DEF RegistryInv
  <2>2. \A j \in R!Instances : Alive(j)' =>
          /\ state'[j] \in {"started", "publishing", "up"} => Addressed(j)'
          /\ state'[j] = "up" => Recycled(j)' \/ Owns(j[1], j)'
          /\ Booted(j[1])' => state'[j] = "up" \/ InShadow(j)'
    <3> TAKE j \in R!Instances
    <3>1. CASE j = i
      BY <1>0, <1>1, <1>5, <2>1, <3>1 DEF Unhurt, Booted, InShadow, Addressed, Alive
    <3>2. CASE j # i
      BY <1>0, <1>1, <1>5, <2>1, <3>2 DEF Unhurt, Booted, InShadow, Addressed, Owns, Recycled, Book
    <3> QED BY <3>1, <3>2
  <2>3. Unhurt'
    BY <1>0, <1>1, <1>5, <2>1, <2>2, RegistryArrays DEF Unhurt, Recycled, RegistryInv, Rolling, Book
  <2> QED BY <1>0, <1>5, <2>1, <2>3, PresentKept
<1>7. ASSUME renewed' PROVE Known'
  <2>1. Known /\ EarlierKept
    BY <1>0, <1>7 DEF RegistryInv, EarlierKept
  <2> QED BY <1>0, <1>5, <2>1, KnownKept DEF Member, Passed
<1> QED BY <1>2, <1>3, <1>4, <1>6, <1>7 DEF RegistryInv

LEMMA RegistryPublishes ==
  ASSUME RegistryInv, NEW i \in R!Instances, R!Publishes(i)
  PROVE  RegistryInv'
<1>0. /\ state[i] = "publishing" /\ state' = [state EXCEPT ![i] = "up"]
      /\ UNCHANGED <<at, hosts, outdated, chain, turn, left, verdict, rolled, roll, changes, exits>>
      /\ unhurt' => unhurt
      /\ renewed' => renewed /\ unhurt'
  BY DEF R!Publishes, R!Go, R!chainVars, R!histVars, R!Hurt, RegistryInv, RegTypes
<1>1. state'[i] = "up" /\ \A j \in R!Instances \ {i} : state'[j] = state[j]
  BY <1>0, RegistryArrays DEF RegistryInv
<1>3. BookTypes'
  <2>1. CASE UNCHANGED byFqdn
    BY <2>1 DEF BookTypes, RegistryInv, RegTypes, Book
  <2> QED BY <2>1, Registered DEF R!Publishes, R!registryVars, R!AddressesOf, RegistryInv
<1>4. RegTypes'
  BY <1>0, <1>3 DEF RegistryInv, RegTypes, BookTypes
<1>5. Chained' /\ Rolling' /\ Generations' /\ BootOrder'
  <2>1. roll = "cycling" /\ outdated[rolled] => state'[rolled] = "failed"
    BY <1>0, <1>1 DEF RegistryInv, Rolling
  <2> QED BY <1>0, <1>1, <2>1, Skeleton
<1>6. Retirement'
  BY <1>0, <1>1 DEF RegistryInv, Retirement, Addressed
<1>7. \A j \in R!Instances : Alive(j)' <=> Alive(j)
  BY <1>0, <1>1 DEF Alive
<1>8. ASSUME unhurt' PROVE Unhurt' /\ Present'
  <2>1. Unhurt /\ Present
    BY <1>0, <1>8 DEF RegistryInv
  <2>2. PICK a \in Ips : at[a] = i /\ R!Register(i, a)
    BY <1>8 DEF R!Publishes, R!Hurt, R!AddressesOf
  <2>5. /\ \A s \in R!Services : \A e \in Book(s)' : e \in Book(s) \/ (e.owner = i /\ e.ip = a)
        /\ \A j \in R!Instances \ {i} : Owns(j[1], j) => Owns(j[1], j)'
        /\ Owns(i[1], i)'
    BY <2>2, Registered DEF RegistryInv
  <2>6. Alive(i) /\ ~Recycled(i)
    <3>1. ~outdated[i]
      BY <1>0, <2>1, <2>2 DEF RegistryInv, Retirement, Addressed, Unhurt
    <3>2. Alive(i)
      BY <1>0, <3>1 DEF Alive
    <3>3. ~Recycled(i)
      BY <1>0, <2>1, <3>2 DEF Recycled, Unhurt, Booted, RegistryInv, Rolling, InShadow
    <3> QED BY <3>2, <3>3
  <2>7. \A j \in R!Instances : Alive(j)' =>
          /\ state'[j] \in {"started", "publishing", "up"} => Addressed(j)'
          /\ state'[j] = "up" => Recycled(j)' \/ Owns(j[1], j)'
          /\ Booted(j[1])' => state'[j] = "up" \/ InShadow(j)'
    <3> TAKE j \in R!Instances
    <3>1. CASE j = i
      BY <1>0, <1>1, <2>2, <2>5, <3>1 DEF Addressed
    <3>2. CASE j # i
      BY <1>0, <1>1, <1>7, <2>1, <2>5, <3>2 DEF Unhurt, Booted, InShadow, Addressed, Recycled
    <3> QED BY <3>1, <3>2
  <2>8. Unhurt'
    BY <1>0, <1>1, <1>7, <2>1, <2>2, <2>5, <2>6, <2>7, RegistryArrays DEF Unhurt, Recycled, RegistryInv, Rolling
  <2> QED BY <1>0, <1>7, <2>1, <2>8, PresentKept
<1>9. ASSUME renewed' PROVE Known'
  <2>1. Known /\ EarlierKept
    BY <1>0, <1>9 DEF RegistryInv, EarlierKept
  <2> QED BY <1>0, <1>7, <2>1, KnownKept DEF Member, Passed
<1> QED BY <1>4, <1>5, <1>6, <1>8, <1>9 DEF RegistryInv

LEMMA RegistryExits ==
  ASSUME RegistryInv, NEW i \in R!Instances, R!Exits(i)
  PROVE  RegistryInv'
<1>0. /\ ~unhurt' /\ ~renewed'
      /\ \E a \in Ips : at' = [at EXCEPT ![a] = NoContainer]
      /\ UNCHANGED <<byFqdn, aliasOf, hosts, state, outdated, chain, turn, left, verdict, rolled, roll, changes>>
  BY DEF R!Exits, R!AddressesOf, R!registryVars, R!chainVars, R!Hurt
<1>1. RegTypes'
  BY <1>0 DEF RegistryInv, RegTypes, Book
<1>2. Chained' /\ Rolling' /\ Generations' /\ BootOrder'
  <2>1. roll = "cycling" /\ outdated[rolled] => state'[rolled] = "failed"
    BY <1>0 DEF RegistryInv, Rolling
  <2> QED BY <1>0, <2>1, Skeleton
<1>3. \A j \in R!Instances : Addressed(j)' => Addressed(j)
  BY <1>0, RegistryConstants, RegistryArrays DEF Addressed, RegistryInv
<1>4. Retirement'
  BY <1>0, <1>3 DEF RegistryInv, Retirement
<1> QED BY <1>0, <1>1, <1>2, <1>4 DEF RegistryInv

LEMMA RegistryDead ==
  ASSUME RegistryInv, NEW i \in R!Instances, R!Dead(i)
  PROVE  /\ state[i] = "up" /\ ~outdated[i] /\ ~unhurt /\ ~renewed
         /\ ~(rolled = i /\ roll = "cycling") /\ ~InShadow(i)
BY DEF R!Dead, R!Watched, R!AddressesOf, RegistryInv, RegTypes, Rolling, Unhurt, Alive, Addressed, InShadow

(* A watcher has retired a replica that is not in a roll it could disturb.   *)
LEMMA RetiredByWatcher ==
  ASSUME RegistryInv, NEW i \in R!Instances, NEW s \in {"degraded", "failed"},
         state[i] # "none", ~InShadow(i), rolled = i /\ roll = "cycling" => s = "failed",
         state' = [state EXCEPT ![i] = s], outdated' = [outdated EXCEPT ![i] = TRUE],
         ~unhurt', ~renewed',
         UNCHANGED <<at, byFqdn, aliasOf, hosts, chain, turn, left, verdict, rolled, roll, changes>>
  PROVE  RegistryInv'
<1>1. /\ state'[i] = s /\ outdated'[i] /\ state'[i] # "none"
      /\ \A j \in R!Instances \ {i} : state'[j] = state[j] /\ outdated'[j] = outdated[j]
  BY RegistryArrays DEF RegistryInv
<1>2. RegTypes'
  BY DEF RegistryInv, RegTypes, Book
<1>3. Chained'
  BY <1>1 DEF RegistryInv, RegTypes, Chained
<1>4. roll \in {"clearing", "shadow"} => R!Shadow(rolled) \in R!Instances
  BY InstanceFacts, RegistryConstants DEF RegistryInv, Rolling, RegTypes
<1>5. Rolling'
  BY <1>1, <1>4 DEF RegistryInv, Rolling, Alive, InShadow
<1>6. Generations'
  BY <1>1 DEF RegistryInv, RegTypes, Generations, InShadow
<1>7. Retirement'
  BY <1>1 DEF RegistryInv, Retirement, Addressed
<1>8. BootOrder'
  BY <1>1 DEF RegistryInv, BootOrder
<1> QED BY <1>2, <1>3, <1>5, <1>6, <1>7, <1>8 DEF RegistryInv

LEMMA RegistryDegrades ==
  ASSUME RegistryInv, NEW i \in R!Instances, R!Degrades(i)
  PROVE  RegistryInv'
<1>1. /\ state[i] = "up" /\ ~unhurt /\ ~renewed /\ ~(rolled = i /\ roll = "cycling") /\ ~InShadow(i)
  BY RegistryDead DEF R!Degrades
<1> QED BY <1>1, RetiredByWatcher DEF R!Degrades, R!Go, R!registryVars, R!chainVars, R!histVars

LEMMA RegistryRestartFails ==
  ASSUME RegistryInv, NEW i \in R!Instances, R!RestartFails(i)
  PROVE  RegistryInv'
<1>1. ~InShadow(i) /\ state[i] # "none"
  BY DEF R!RestartFails, R!Watched, InShadow, RegistryInv, Rolling
<1> QED BY <1>1, RetiredByWatcher DEF R!RestartFails, R!Go, R!registryVars, R!chainVars, R!Hurt

LEMMA RegistryRestarts ==
  ASSUME RegistryInv, NEW i \in R!Instances, R!Restarts(i)
  PROVE  RegistryInv'
<1>0. /\ state[i] = "up" /\ ~outdated[i] /\ ~unhurt' /\ ~renewed'
      /\ state' = [state EXCEPT ![i] = "booting"] /\ R!Unregister(i) /\ DOMAIN hosts' = DOMAIN hosts
      /\ UNCHANGED <<at, outdated, chain, turn, left, verdict, rolled, roll, changes>>
  BY RegistryDead DEF R!Restarts, R!Boots, R!Go, R!chainVars, R!histVars
<1>1. state'[i] = "booting" /\ \A j \in R!Instances \ {i} : state'[j] = state[j]
  BY <1>0, RegistryArrays DEF RegistryInv
<1>2. RegTypes'
  <2>1. BookTypes'
    BY <1>0, Unregistered DEF RegistryInv
  <2> QED BY <1>0, <2>1 DEF RegistryInv, RegTypes, BookTypes
<1>3. Chained' /\ Rolling' /\ Generations' /\ BootOrder'
  <2>1. roll = "cycling" /\ outdated[rolled] => state'[rolled] = "failed"
    BY <1>0, <1>1 DEF RegistryInv, Rolling
  <2> QED BY <1>0, <1>1, <2>1, Skeleton
<1>4. Retirement'
  BY <1>0, <1>1 DEF RegistryInv, Retirement, Addressed
<1> QED BY <1>0, <1>2, <1>3, <1>4 DEF RegistryInv

(* What boots at its turn is given an address of every service before it.    *)
LEMMA Informed ==
  ASSUME RegistryInv, unhurt, NEW i \in R!Instances, chain # "idle", i[1] = Targets[turn],
         roll \in {"none", "clearing"}, EarlierKept,
         hosts' = [hosts EXCEPT ![i] = R!BuildAddHostFlags(i)]
  PROVE  \A k \in DOMAIN Targets : k = turn => Knows(i, k)'
<1>1. turn \in DOMAIN Targets /\ Unhurt /\ Present
  BY DEF RegistryInv, Chained
<1> SUFFICES ASSUME NEW j \in DOMAIN Targets, j < turn
             PROVE  /\ hosts'[i][Targets[j]] \in Ips
                    /\ R!LeadsTo(hosts[i][Targets[j]], Targets[j])'
  BY DEF Knows
<1> DEFINE s == Targets[j]
<1>2. s \in R!Services /\ s # i[1] /\ s # Targets[turn]
  BY <1>1, RegistryConstants
<1>3. Booted(s)
  BY DEF Booted
<1>4. ~(roll = "clearing" /\ rolled[1] = s)
  BY <1>2 DEF RegistryInv, Rolling
<1>5. PICK x \in R!Instances : Member(x, s)
  BY <1>1, <1>2, <1>3, <1>4 DEF Present
<1>6. Alive(x) /\ x[1] = s
  BY <1>5 DEF Member
<1> HIDE DEF s
<1>7. state[x] = "up"
  BY <1>1, <1>3, <1>6 DEF Unhurt, InShadow
<1>8. Owns(s, x)
  BY <1>1, <1>6, <1>7 DEF Unhurt, Recycled
<1>9. PICK e \in Book(s) : R!BuildAddHostFlags(i)[s] = e.ip
  <2>1. Book(s) # {}
    BY <1>8 DEF Owns
  <2> QED BY <1>2, <2>1, Flagged DEF RegistryInv
<1>10. at[e.ip] = e.owner /\ e.owner # NoContainer /\ e.owner[1] = s /\ e.ip \in Ips
  BY <1>1, <1>2, <1>9, RegistryArrays DEF Unhurt, RegistryInv
<1>11. at'[e.ip] = at[e.ip]
  BY <1>10 DEF EarlierKept, s
<1>12. hosts'[i][s] = e.ip
  BY <1>9, RegistryArrays DEF RegistryInv
<1>13. e.ip # NoContainer
  BY <1>10, RegistryConstants
<1> QED BY <1>10, <1>11, <1>12, <1>13 DEF R!LeadsTo, s

LEMMA RegistryBootsNext ==
  ASSUME RegistryInv, NEW i \in R!Instances, R!BootsNext(i)
  PROVE  RegistryInv'
<1>0. /\ chain = "boot" /\ i \in left /\ left' = left \ {i}
      /\ state' = [state EXCEPT ![i] = "booting"]
      /\ hosts' = [hosts EXCEPT ![i] = R!BuildAddHostFlags(i)]
      /\ UNCHANGED <<at, byFqdn, aliasOf, outdated, chain, turn, verdict, rolled, roll, changes,
                     exits, unhurt, renewed>>
  BY DEF R!BootsNext, R!Boots, R!Go, R!registryVars, R!histVars
<1>1. /\ state'[i] = "booting" /\ \A j \in R!Instances \ {i} : state'[j] = state[j]
      /\ \A j \in R!Instances \ {i} : hosts'[j] = hosts[j]
  BY <1>0, RegistryArrays DEF RegistryInv
<1>2. i[1] = Targets[turn] /\ i[3] = 0 /\ turn \in DOMAIN Targets /\ roll = "none" /\ changes = 0
  BY <1>0 DEF RegistryInv, Chained, Rolling
<1>3. RegTypes'
  BY <1>0 DEF RegistryInv, RegTypes, Book
<1>4. Chained' /\ Rolling'
  BY <1>0, <1>1, <1>2 DEF RegistryInv, Chained, Rolling
<1>5. \A j \in R!Instances : R!Shadow(j) # i
  <2> TAKE j \in R!Instances
  <2>1. R!Shadow(j)[3] = j[3] + 1 /\ j[3] \in Nat
    BY InstanceFacts, RegistryConstants
  <2> QED BY <1>2, <2>1
<1>6. Generations'
  BY <1>0, <1>1, <1>2, <1>5 DEF RegistryInv, Generations, InShadow
<1>7. Retirement'
  BY <1>0, <1>1 DEF RegistryInv, Retirement, Addressed
<1>8. BootOrder'
  BY <1>0, <1>1, <1>2, RegistryConstants DEF RegistryInv, BootOrder
<1>9. ASSUME unhurt' PROVE Unhurt' /\ Present'
  <2>1. Unhurt /\ Present /\ ~outdated[i]
    BY <1>0, <1>9 DEF RegistryInv, BootOrder
  <2>2. \A j \in R!Instances : Alive(j) => Alive(j)'
    BY <1>0, <1>1 DEF Alive
  <2>3. ~Booted(i[1])
    BY <1>0, <1>2, RegistryConstants DEF Booted
  <2>4. \A j \in R!Instances : Alive(j)' =>
          /\ state'[j] \in {"started", "publishing", "up"} => Addressed(j)'
          /\ state'[j] = "up" => Recycled(j)' \/ Owns(j[1], j)'
          /\ Booted(j[1])' => state'[j] = "up" \/ InShadow(j)'
    <3> TAKE j \in R!Instances
    <3>1. CASE j = i
      BY <1>0, <1>1, <2>3, <3>1 DEF Booted
    <3>2. CASE j # i
      BY <1>0, <1>1, <2>1, <3>2 DEF Unhurt, Booted, InShadow, Addressed, Owns, Recycled, Book, Alive
    <3> QED BY <3>1, <3>2
  <2>5. Unhurt'
    BY <1>0, <1>2, <2>1, <2>2, <2>4, RegistryArrays DEF Unhurt, Recycled, RegistryInv, Book
  <2> QED BY <1>0, <2>1, <2>2, <2>5, PresentKept
<1>10. ASSUME renewed' PROVE Known'
  <2>1. Known /\ EarlierKept /\ unhurt
    BY <1>0, <1>10 DEF RegistryInv, RegTypes, EarlierKept
  <2>2. \A k \in DOMAIN Targets : k = turn => Knows(i, k)'
    BY <1>0, <1>2, <2>1, Informed
  <2>3. \A k \in DOMAIN Targets : \A j \in R!Instances :
          Member(j, Targets[k])' /\ Passed(j, k)' =>
            Knows(j, k)' \/ (Member(j, Targets[k]) /\ Passed(j, k) /\ hosts'[j] = hosts[j])
    <3> SUFFICES ASSUME NEW k \in DOMAIN Targets, NEW j \in R!Instances,
                        Member(j, Targets[k])', Passed(j, k)'
                 PROVE  Knows(j, k)' \/ (Member(j, Targets[k]) /\ Passed(j, k) /\ hosts'[j] = hosts[j])
      OBVIOUS
    <3>1. CASE j = i
      <4>1. k = turn
        BY <1>0, <1>2, <3>1, RegistryConstants DEF Member
      <4> QED BY <2>2, <3>1, <4>1
    <3>2. CASE j # i
      BY <1>0, <1>1, <1>2, <3>2, RegistryConstants DEF Member, Alive, Passed
    <3> QED BY <3>1, <3>2
  <2> QED BY <2>1, <2>3, KnownKept
<1> QED BY <1>3, <1>4, <1>6, <1>7, <1>8, <1>9, <1>10 DEF RegistryInv

LEMMA RegistryTargetUp == ASSUME RegistryInv, R!TargetUp PROVE RegistryInv'
<1>0. /\ chain = "boot" /\ left = {} /\ turn' = turn + 1
      /\ ~R!Booting(Targets[turn])
      /\ IF turn < Len(Targets) THEN left' = {i \in R!Of(Targets[turn + 1]) : i[3] = 0} /\ chain' = "boot"
         ELSE left' = {} /\ chain' = "idle"
      /\ UNCHANGED <<at, byFqdn, aliasOf, hosts, state, outdated, verdict, rolled, roll, changes,
                     exits, unhurt, renewed>>
  BY DEF R!TargetUp, R!registryVars, R!histVars
<1>1. turn \in DOMAIN Targets /\ roll = "none" /\ rolled = NoContainer
  BY <1>0 DEF RegistryInv, Chained, Rolling
<1>2. /\ left' \subseteq R!Instances
      /\ \A i \in left' : turn < Len(Targets) /\ i[1] = Targets[turn + 1] /\ i[3] = 0
      /\ turn < Len(Targets) => \A i \in R!Instances : i[1] = Targets[turn + 1] /\ i[3] = 0 => i \in left'
  BY <1>0 DEF R!Of
<1>3. RegTypes'
  BY <1>0, <1>2 DEF RegistryInv, RegTypes, Book
<1>4. Chained'
  BY <1>0, <1>1, <1>2, RegistryConstants DEF RegistryInv, Chained
<1>5. Rolling' /\ Retirement'
  BY <1>0, <1>1 DEF RegistryInv, Rolling, Retirement, Addressed
<1>6. Generations'
  BY <1>0, <1>1 DEF RegistryInv, Generations, InShadow
<1>7. BootOrder'
  BY <1>0, <1>1, <1>2, RegistryConstants DEF RegistryInv, BootOrder
<1>8. \A i \in R!Instances : state[i] # "none" /\ i[1] = Targets[turn] => state[i] \notin {"booting", "started", "publishing"}
  BY <1>0 DEF R!Booting, R!Of
<1>9. \A s \in R!Services : Booted(s)' => Booted(s) \/ s = Targets[turn]
  BY <1>0, <1>1, RegistryConstants DEF Booted
<1>10. ASSUME unhurt' PROVE Unhurt' /\ Present'
  <2>1. Unhurt /\ Present
    BY <1>0, <1>10 DEF RegistryInv
  <2>2. \A i \in R!Instances : Alive(i) /\ i[1] = Targets[turn] => state[i] = "up"
    BY <1>8 DEF RegistryInv, RegTypes, Retirement, Alive
  <2>3. \A i \in R!Instances : Alive(i)' =>
          /\ state'[i] \in {"started", "publishing", "up"} => Addressed(i)'
          /\ state'[i] = "up" => Recycled(i)' \/ Owns(i[1], i)'
          /\ Booted(i[1])' => state'[i] = "up" \/ InShadow(i)'
    <3> TAKE i \in R!Instances
    <3>1. i[1] \in R!Services
      BY InstanceFacts
    <3> QED BY <1>0, <1>9, <2>1, <2>2, <3>1 DEF Unhurt, InShadow, Addressed, Owns, Recycled, Book, Alive
  <2>4. Unhurt'
    BY <1>0, <1>1, <2>1, <2>3 DEF Unhurt, Alive, Recycled, Book
  <2>5. \A i \in R!Instances : i[1] = Targets[turn] /\ i[3] = 0 => Member(i, Targets[turn])
    BY <1>0, <1>1, <1>10 DEF RegistryInv, BootOrder, Member, Alive
  <2>6. ASSUME NEW s \in R!Services, s = Targets[turn]
        PROVE  /\ \E i \in R!Instances : Member(i, s)'
               /\ ~R!SingleReplica(s) => \E i, j \in R!Instances : i # j /\ Member(i, s)' /\ Member(j, s)'
    <3>1. <<s, 0, 0>> \in R!Instances
      BY RegistryConstants DEF R!Instances
    <3>2. ~R!SingleReplica(s) => <<s, 1, 0>> \in R!Instances
      BY RegistryConstants DEF R!Instances, R!SingleReplica
    <3>3. \A i \in R!Instances : Member(i, s) <=> Member(i, s)'
      BY <1>0 DEF Member, Alive
    <3>4. <<s, 0, 0>>[1] = s /\ <<s, 0, 0>>[3] = 0 /\ <<s, 1, 0>>[1] = s /\ <<s, 1, 0>>[3] = 0 /\ <<s, 0, 0>> # <<s, 1, 0>>
      OBVIOUS
    <3>5. Member(<<s, 0, 0>>, s) /\ (~R!SingleReplica(s) => Member(<<s, 1, 0>>, s))
      BY <2>5, <2>6, <3>1, <3>2, <3>4
    <3> QED BY <3>1, <3>2, <3>3, <3>4, <3>5
  <2>7. Present'
    <3> SUFFICES ASSUME NEW s \in R!Services, Booted(s)'
                 PROVE  /\ \E i \in R!Instances : Member(i, s)'
                        /\ ~R!SingleReplica(s) =>
                             \E i, j \in R!Instances : i # j /\ Member(i, s)' /\ Member(j, s)'
      BY <1>0, <1>1 DEF Present, InShadow
    <3>1. CASE s = Targets[turn]
      BY <2>6, <3>1
    <3>2. CASE Booted(s)
      BY <1>0, <1>1, <2>1, <3>2 DEF Present, Member, Alive
    <3> QED BY <1>9, <3>1, <3>2
  <2> QED BY <2>4, <2>7
<1>11. ASSUME renewed' PROVE Known'
  <2>1. Known /\ EarlierKept
    BY <1>0, <1>11 DEF RegistryInv, EarlierKept
  <2>2. \A k \in DOMAIN Targets : \A i \in R!Instances :
          Member(i, Targets[k])' /\ Passed(i, k)' => Member(i, Targets[k]) /\ Passed(i, k)
    <3> SUFFICES ASSUME NEW k \in DOMAIN Targets, NEW i \in R!Instances,
                        Member(i, Targets[k])', Passed(i, k)'
                 PROVE  Member(i, Targets[k]) /\ Passed(i, k)
      OBVIOUS
    <3>1. Member(i, Targets[k]) /\ state[i] # "none" /\ i[1] = Targets[k]
      BY <1>0 DEF Member, Alive
    <3>2. k <= turn
      BY <1>0, <1>1, <3>1, RegistryConstants DEF RegistryInv, BootOrder
    <3> QED BY <1>0, <1>1, <3>1, <3>2, RegistryConstants DEF Passed
  <2> QED BY <1>0, <2>1, <2>2, KnownKept
<1> QED BY <1>3, <1>4, <1>5, <1>6, <1>7, <1>10, <1>11 DEF RegistryInv

LEMMA SameMembers == \A S : R!Cardinality(S) = Cardinality(S)
BY Zenon DEF R!Cardinality, Cardinality

(* Where every replica is up and registered, and nothing else is.            *)
LEMMA SoundHolds ==
  ASSUME RegistryInv, R!Sound, chain = "idle", NEW s \in R!Services
  PROVE  /\ \A e \in Book(s) : at[e.ip] = e.owner /\ Alive(e.owner)
         /\ \A i \in R!Instances : Member(i, s) => state[i] = "up" /\ Addressed(i) /\ Owns(s, i)
         /\ \E i \in R!Instances : Member(i, s)
         /\ ~R!SingleReplica(s) => \E i, j \in R!Instances : i # j /\ Member(i, s) /\ Member(j, s)
<1> DEFINE L == R!Live(s)
<1>1. /\ R!Cardinality(L) = ReplicasOf[s]
      /\ \A i \in L : state[i] = "up" /\ \E e \in R!ToSet(byFqdn[s]) : e.owner = i
      /\ \A e \in R!ToSet(byFqdn[s]) : e.owner \in L /\ at[e.ip] = e.owner
  BY DEF R!Sound
<1>2. R!ToSet(byFqdn[s]) = Book(s)
  BY DEF R!ToSet, Book
<1>3. \A i : i \in L <=> i \in R!Instances /\ Member(i, s)
  BY DEF R!Live, R!Of, Member, Alive
<1>4. Cardinality(L) = ReplicasOf[s] /\ ReplicasOf[s] \in Nat \ {0}
  BY <1>1, SameMembers, RegistryConstants
<1> HIDE DEF L
<1>5. PICK i \in L : TRUE
  BY <1>4, FS_EmptySet
<1>6. ASSUME ~R!SingleReplica(s) PROVE \E j \in L : j # i
  <2>1. CASE L = {i}
    BY <1>4, <1>6, <2>1, FS_Singleton DEF R!SingleReplica
  <2> QED BY <1>5, <2>1
<1>7. \A e \in Book(s) : e.ip \in Ips
  BY RegistryArrays DEF RegistryInv
<1> QED BY <1>1, <1>2, <1>3, <1>5, <1>6, <1>7 DEF Owns, Addressed, Member

LEMMA RegistrySourceChanged == ASSUME RegistryInv, R!SourceChanged PROVE RegistryInv'
<1>0. /\ chain = "idle" /\ chain' = "reload" /\ turn' = 1 /\ verdict' = "none"
      /\ changes < MaxRounds /\ changes' = changes + 1
      /\ unhurt' = R!Sound /\ renewed' = R!Sound
      /\ UNCHANGED <<at, byFqdn, aliasOf, hosts, state, outdated, left, rolled, roll, exits>>
  BY DEF R!SourceChanged, R!registryVars
<1>1. left = {} /\ roll = "none" /\ rolled = NoContainer /\ changes \in 0 .. MaxRounds
  BY <1>0 DEF RegistryInv, Chained, Rolling, RegTypes
<1>2. RegTypes'
  BY <1>0, <1>1, RegistryConstants DEF RegistryInv, RegTypes, Book
<1>3. Chained' /\ Rolling' /\ Retirement' /\ BootOrder'
  BY <1>0, <1>1, RegistryConstants DEF RegistryInv, Chained, Rolling, Retirement, BootOrder, Addressed
<1>4. Generations'
  <2>1. \A i \in R!Instances : i[3] \in Nat
    BY InstanceFacts, RegistryConstants
  <2> QED BY <1>0, <1>1, <2>1, RegistryConstants DEF RegistryInv, Generations, InShadow
<1>5. ASSUME unhurt' PROVE Unhurt' /\ Present'
  <2>1. R!Sound
    BY <1>0, <1>5
  <2>2. \A i \in R!Instances : Alive(i) => state[i] = "up" /\ Addressed(i) /\ Owns(i[1], i)
    <3> TAKE i \in R!Instances
    <3>1. i[1] \in R!Services
      BY InstanceFacts
    <3> QED BY <1>0, <2>1, <3>1, SoundHolds DEF Member
  <2>3. Unhurt'
    BY <1>0, <1>1, <2>1, <2>2, SoundHolds DEF Unhurt, Alive, Addressed, Owns, Book, Recycled
  <2>4. Present'
    BY <1>0, <1>1, <2>1, SoundHolds DEF Present, Member, Alive, InShadow
  <2> QED BY <2>3, <2>4
<1>6. Known'
  BY <1>0, RegistryConstants DEF Known, Passed
<1> QED BY <1>2, <1>3, <1>4, <1>5, <1>6 DEF RegistryInv

(* A step of the reload that touches no replica.                             *)
LEMMA RegistryWalks ==
  ASSUME RegistryInv, chain = "reload",
         UNCHANGED <<at, byFqdn, hosts, state, outdated, rolled, roll, changes, unhurt>>,
         RegTypes', Chained', Rolling', Generations', chain' # "boot",
         renewed' => renewed /\ Known'
  PROVE  RegistryInv'
<1>1. Retirement' /\ BootOrder'
  BY DEF RegistryInv, Retirement, BootOrder, Addressed
<1>2. ASSUME unhurt PROVE Unhurt' /\ Present'
  <2>1. \A s : Booted(s)
    BY DEF Booted
  <2> QED BY <1>2, <2>1 DEF RegistryInv, Unhurt, Present, Alive, Member, Addressed, Owns, Book, Recycled, InShadow
<1> QED BY <1>1, <1>2 DEF RegistryInv

LEMMA RegistryTargetBegins == ASSUME RegistryInv, R!TargetBegins PROVE RegistryInv'
<1>1. PICK v \in {"rebuild", "soft-reload", "rejected"} :
        /\ verdict' = v
        /\ left' = IF v = "rejected" THEN {} ELSE R!Live(Targets[turn])
        /\ renewed' = (renewed /\ v = "rebuild")
  BY DEF R!TargetBegins
<1>2. /\ chain = "reload" /\ verdict = "none"
      /\ UNCHANGED <<at, byFqdn, aliasOf, hosts, state, outdated, chain, turn, rolled, roll, changes, unhurt>>
  BY DEF R!TargetBegins, R!registryVars
<1>3. turn \in DOMAIN Targets /\ roll = "none" /\ rolled = NoContainer
  BY <1>2 DEF RegistryInv, Chained, Rolling
<1>4. \A i : i \in R!Live(Targets[turn]) <=> i \in R!Instances /\ Member(i, Targets[turn])
  BY DEF R!Live, R!Of, Member, Alive
<1>5. \A i \in left' : i \in R!Instances /\ i[1] = Targets[turn] /\ state[i] # "none"
  BY <1>1, <1>4 DEF Member, Alive
<1>6. RegTypes'
  <2>1. left' \subseteq R!Instances /\ (renewed' => renewed)
    BY <1>1, <1>5
  <2> QED BY <1>2, <2>1 DEF RegistryInv, RegTypes, Book
<1>7. Chained' /\ Rolling'
  BY <1>1, <1>2, <1>3, <1>5 DEF RegistryInv, Chained, Rolling
<1>8. Generations'
  BY <1>1, <1>2, <1>5 DEF RegistryInv, Generations, InShadow
<1>9. ASSUME renewed' PROVE Known'
  <2>1. Known /\ EarlierKept
    BY <1>1, <1>2, <1>9 DEF RegistryInv, EarlierKept
  <2>2. \A k \in DOMAIN Targets : \A i \in R!Instances :
          Member(i, Targets[k])' /\ Passed(i, k)' => Member(i, Targets[k]) /\ Passed(i, k)
    BY <1>1, <1>2, <1>3, <1>4, <1>9, RegistryConstants DEF Member, Alive, Passed
  <2> QED BY <1>2, <2>1, <2>2, KnownKept
<1> QED BY <1>1, <1>2, <1>6, <1>7, <1>8, <1>9, RegistryWalks

LEMMA RegistryTargetEnds == ASSUME RegistryInv, R!TargetEnds PROVE RegistryInv'
<1>0. /\ chain = "reload" /\ verdict # "none" /\ left = {} /\ roll = "none"
      /\ turn' = turn + 1 /\ verdict' = "none"
      /\ chain' = IF turn = Len(Targets) THEN "idle" ELSE chain
      /\ UNCHANGED <<at, byFqdn, aliasOf, hosts, state, outdated, left, rolled, roll, changes, exits,
                     unhurt, renewed>>
  BY DEF R!TargetEnds, R!registryVars, R!histVars
<1>1. turn \in DOMAIN Targets /\ rolled = NoContainer
  BY <1>0 DEF RegistryInv, Chained, Rolling
<1>2. RegTypes'
  BY <1>0 DEF RegistryInv, RegTypes, Book
<1>3. Chained' /\ Rolling' /\ Generations'
  BY <1>0, <1>1, RegistryConstants DEF RegistryInv, Chained, Rolling, Generations, InShadow
<1>4. ASSUME renewed' PROVE Known'
  <2>1. Known /\ EarlierKept
    BY <1>0, <1>4 DEF RegistryInv, EarlierKept
  <2>2. \A k \in DOMAIN Targets : \A i \in R!Instances :
          Member(i, Targets[k])' /\ Passed(i, k)' => Member(i, Targets[k]) /\ Passed(i, k)
    BY <1>0, <1>1, RegistryConstants, InstanceFacts DEF Member, Alive, Passed
  <2> QED BY <1>0, <2>1, <2>2, KnownKept
<1> QED BY <1>0, <1>2, <1>3, <1>4, RegistryWalks

LEMMA RegistrySkips ==
  ASSUME RegistryInv, NEW i \in R!Instances, R!Skips(i)
  PROVE  RegistryInv'
<1>0. /\ chain = "reload" /\ roll = "none" /\ i \in left /\ outdated[i] /\ left' = left \ {i}
      /\ UNCHANGED <<at, byFqdn, aliasOf, hosts, state, outdated, chain, turn, verdict, rolled, roll,
                     changes, exits, unhurt, renewed>>
  BY DEF R!Skips, R!registryVars, R!histVars
<1>1. turn \in DOMAIN Targets
  BY <1>0 DEF RegistryInv, Chained
<1>2. RegTypes'
  BY <1>0 DEF RegistryInv, RegTypes, Book
<1>3. Chained' /\ Rolling' /\ Generations'
  BY <1>0 DEF RegistryInv, Chained, Rolling, Generations, InShadow
<1>4. ASSUME renewed' PROVE Known'
  <2>1. Known /\ EarlierKept
    BY <1>0, <1>4 DEF RegistryInv, EarlierKept
  <2>2. \A k \in DOMAIN Targets : \A j \in R!Instances :
          Member(j, Targets[k])' /\ Passed(j, k)' => Member(j, Targets[k]) /\ Passed(j, k)
    BY <1>0, <1>1, RegistryConstants DEF Member, Alive, Passed
  <2> QED BY <1>0, <2>1, <2>2, KnownKept
<1> QED BY <1>0, <1>2, <1>3, <1>4, RegistryWalks

(* While a reload goes on and nothing is in a roll, every service is there   *)
(* and all of it is up.                                                      *)
LEMMA UpBetweenRolls ==
  ASSUME RegistryInv, unhurt, chain = "reload", roll = "none", NEW i \in R!Instances, Alive(i)
  PROVE  state[i] = "up"
BY DEF RegistryInv, Unhurt, Booted, InShadow

(* A single replica goes first.                                              *)
LEMMA RegistryClears ==
  ASSUME RegistryInv, NEW i \in R!Instances,
         chain = "reload", roll = "none", verdict = "rebuild", i \in left, ~outdated[i],
         left' = left \ {i}, rolled' = i, roll' = "clearing",
         R!SingleReplica(i[1]), R!Unregister(i), outdated' = [outdated EXCEPT ![i] = TRUE],
         UNCHANGED <<at, hosts, state, chain, turn, verdict, changes, unhurt, renewed>>
  PROVE  RegistryInv'
<1>0. /\ i[1] = Targets[turn] /\ turn \in DOMAIN Targets /\ state[i] # "none" /\ i[3] < changes
      /\ rolled = NoContainer /\ i # NoContainer /\ i[1] \in R!Services
  BY InstanceFacts DEF RegistryInv, Chained, Rolling, Generations
<1>1. outdated'[i] /\ \A j \in R!Instances \ {i} : outdated'[j] = outdated[j]
  BY RegistryArrays DEF RegistryInv
<1>2. /\ BookTypes'
      /\ \A s \in R!Services : Book(s)' = {e \in Book(s) : e.owner # i}
  BY Unregistered DEF RegistryInv
<1>3. R!Shadow(i) \in R!Instances /\ R!Shadow(i) # i
  <2>1. i[3] < MaxRounds
    BY <1>0, InstanceFacts, RegistryConstants DEF RegistryInv, RegTypes
  <2> QED BY <2>1, InstanceFacts
<1>4. state[R!Shadow(i)] = "none"
  BY <1>3 DEF RegistryInv, Generations, InShadow
<1>5. RegTypes'
  BY <1>2 DEF RegistryInv, RegTypes, BookTypes
<1>6. Chained' /\ Rolling'
  BY <1>0, <1>1, <1>4 DEF RegistryInv, Chained, Rolling
<1>7. Generations'
  BY <1>0, <1>1 DEF RegistryInv, Generations, InShadow
<1>8. Retirement' /\ BootOrder'
  BY <1>1 DEF RegistryInv, Retirement, BootOrder, Addressed
<1>9. \A j \in R!Instances : Alive(j)' <=> Alive(j) /\ j # i
  BY <1>0, <1>1 DEF Alive
<1>10. ASSUME unhurt' PROVE Unhurt' /\ Present'
  <2>1. Unhurt /\ Present /\ state[i] = "up"
    BY <1>0, <1>10, UpBetweenRolls DEF RegistryInv, Alive
  <2>2. \A j \in R!Instances \ {i} : Owns(j[1], j) => Owns(j[1], j)'
    <3> TAKE j \in R!Instances \ {i}
    <3>1. j[1] \in R!Services
      BY InstanceFacts
    <3> QED BY <1>2, <3>1 DEF Owns
  <2>3. \A j \in R!Instances : Alive(j)' =>
          /\ state'[j] \in {"started", "publishing", "up"} => Addressed(j)'
          /\ state'[j] = "up" => Recycled(j)' \/ Owns(j[1], j)'
          /\ Booted(j[1])' => state'[j] = "up" \/ InShadow(j)'
    BY <1>9, <2>1, <2>2, UpBetweenRolls, <1>10 DEF Unhurt, Addressed, Recycled
  <2>4. Unhurt'
    BY <1>2, <1>9, <2>1, <2>3, RegistryArrays DEF Unhurt, Recycled, RegistryInv
  <2>5. Present'
    BY <1>0, <1>9, <2>1 DEF Present, Booted, Member, InShadow
  <2> QED BY <2>4, <2>5
<1>11. ASSUME renewed' PROVE Known'
  <2>1. Known /\ EarlierKept
    BY <1>11 DEF RegistryInv, EarlierKept
  <2>2. \A k \in DOMAIN Targets : \A j \in R!Instances :
          Member(j, Targets[k])' /\ Passed(j, k)' => Member(j, Targets[k]) /\ Passed(j, k)
    BY <1>0, <1>9, RegistryConstants, InstanceFacts DEF Member, Passed
  <2> QED BY <2>1, <2>2, KnownKept
<1> QED BY <1>5, <1>6, <1>7, <1>8, <1>10, <1>11 DEF RegistryInv

(* One of several replicas keeps serving while its shadow boots.             *)
LEMMA RegistryShadows ==
  ASSUME RegistryInv, NEW i \in R!Instances,
         chain = "reload", roll = "none", verdict = "rebuild", i \in left, ~outdated[i],
         left' = left \ {i}, rolled' = i, roll' = "shadow",
         ~R!SingleReplica(i[1]), R!Boots(R!Shadow(i)),
         UNCHANGED <<at, byFqdn, outdated, chain, turn, verdict, changes, unhurt, renewed>>
  PROVE  RegistryInv'
<1> DEFINE n == R!Shadow(i)
<1>0. /\ i[1] = Targets[turn] /\ turn \in DOMAIN Targets /\ state[i] # "none" /\ i[3] < changes
      /\ rolled = NoContainer /\ i # NoContainer /\ i[1] \in R!Services
  BY InstanceFacts DEF RegistryInv, Chained, Rolling, Generations
<1>1. n \in R!Instances /\ n # i /\ n[1] = i[1] /\ n[3] = i[3] + 1 /\ n # NoContainer
  <2>1. i[3] < MaxRounds
    BY <1>0, InstanceFacts, RegistryConstants DEF RegistryInv, RegTypes
  <2> QED BY <2>1, InstanceFacts, RegistryConstants
<1>2. state' = [state EXCEPT ![n] = "booting"] /\ hosts' = [hosts EXCEPT ![n] = R!BuildAddHostFlags(n)]
  BY DEF R!Boots, R!Go
<1>3. \A j \in R!Instances : R!Shadow(j) = n => j = i
  BY InstanceFacts
<1>4. state[n] = "none" /\ ~outdated[n] /\ n \notin left /\ i \notin left'
  BY <1>1 DEF RegistryInv, Generations, InShadow, Chained
<1>5. \A j \in R!Instances : R!Shadow(j) \in R!Instances /\ state[R!Shadow(j)] # "none" => j # n
  BY <1>4 DEF RegistryInv, Generations
<1> HIDE DEF n
<1>6. /\ state'[n] = "booting" /\ \A j \in R!Instances \ {n} : state'[j] = state[j] /\ hosts'[j] = hosts[j]
  BY <1>1, <1>2, RegistryArrays DEF RegistryInv
<1>7. RegTypes'
  BY <1>1, <1>2 DEF RegistryInv, RegTypes, Book
<1>8. Chained'
  <2>1. \A j \in left' : j \in left /\ j \in R!Instances \ {n}
    BY <1>4 DEF RegistryInv, RegTypes
  <2> QED BY <1>6, <2>1 DEF RegistryInv, Chained
<1>9. Rolling'
  BY <1>0, <1>1, <1>4, <1>6 DEF RegistryInv, Rolling, Alive, n
<1>10. \A j \in R!Instances : Alive(j)' <=> Alive(j) \/ j = n
  BY <1>4, <1>6 DEF Alive
<1>11. Generations'
  <2>1. \A j \in R!Instances : state'[j] # "none" => j[3] <= changes
    <3>1. i[3] \in Int /\ changes \in Int
      BY InstanceFacts, RegistryConstants DEF RegistryInv, RegTypes
    <3> QED BY <1>0, <1>1, <1>6, <3>1 DEF RegistryInv, Generations
  <2>2. \A k \in DOMAIN Targets : \A j \in R!Instances :
          /\ j[1] = Targets[k] /\ state'[j] # "none"
          /\ k > turn \/ (k = turn /\ j \in left')
          => j[3] < changes
    <3> SUFFICES ASSUME NEW k \in DOMAIN Targets, NEW j \in R!Instances,
                        j[1] = Targets[k], state'[j] # "none", k > turn \/ (k = turn /\ j \in left')
                 PROVE  j[3] < changes
      OBVIOUS
    <3>1. CASE j = n
      <4>1. k = turn
        BY <1>0, <1>1, <3>1, RegistryConstants
      <4>2. turn \in Int
        BY <1>0, RegistryConstants
      <4> QED BY <1>4, <3>1, <4>1, <4>2
    <3>2. CASE j # n
      BY <1>6, <3>2 DEF RegistryInv, Generations
    <3> QED BY <3>1, <3>2
  <2>3. \A j \in R!Instances : state'[j] = "none" => ~outdated[j]
    BY <1>6 DEF RegistryInv, Generations
  <2>4. \A j \in R!Instances :
          R!Shadow(j) \in R!Instances /\ state'[R!Shadow(j)] # "none" =>
            state'[j] # "none" /\ (outdated[j] \/ R!Shadow(j) = n)
    <3> TAKE j \in R!Instances
    <3> HAVE R!Shadow(j) \in R!Instances /\ state'[R!Shadow(j)] # "none"
    <3>1. CASE R!Shadow(j) = n
      BY <1>0, <1>1, <1>3, <1>6, <3>1
    <3>2. CASE R!Shadow(j) # n
      BY <1>5, <1>6, <3>2 DEF RegistryInv, Generations, InShadow
    <3> QED BY <3>1, <3>2
  <2> QED BY <2>1, <2>2, <2>3, <2>4 DEF Generations, InShadow, n
<1>12. Retirement' /\ BootOrder'
  BY <1>4, <1>6 DEF RegistryInv, Retirement, BootOrder, Addressed
<1>13. ASSUME unhurt' PROVE Unhurt' /\ Present'
  <2>1. Unhurt /\ Present /\ state[i] = "up"
    BY <1>0, <1>13, UpBetweenRolls DEF RegistryInv, Alive
  <2>2. \A j \in R!Instances : Alive(j)' =>
          /\ state'[j] \in {"started", "publishing", "up"} => Addressed(j)'
          /\ state'[j] = "up" => Recycled(j)' \/ Owns(j[1], j)'
          /\ Booted(j[1])' => state'[j] = "up" \/ InShadow(j)'
    <3> TAKE j \in R!Instances
    <3>1. CASE j = n
      BY <1>6, <3>1 DEF InShadow, n
    <3>2. CASE j # n
      BY <1>6, <1>10, <1>13, <2>1, <3>2, UpBetweenRolls DEF Unhurt, Addressed, Recycled, Owns, Book
    <3> QED BY <3>1, <3>2
  <2>3. Unhurt'
    BY <1>1, <1>6, <1>10, <2>1, <2>2, RegistryArrays DEF Unhurt, Recycled, RegistryInv, Book
  <2>4. Present'
    <3> SUFFICES ASSUME NEW s \in R!Services
                 PROVE  /\ \E j \in R!Instances : Member(j, s)'
                        /\ ~R!SingleReplica(s) =>
                             \E j, k \in R!Instances :
                               j # k /\ Member(j, s)' /\ Member(k, s)' /\ j # n /\ k # n
      BY DEF Present, InShadow, n
    <3>1. \A j \in R!Instances : Member(j, s) => Member(j, s)' /\ j # n
      BY <1>4, <1>10 DEF Member, Alive
    <3> QED BY <2>1, <3>1 DEF Present, Booted
  <2> QED BY <2>3, <2>4
<1>14. ASSUME renewed' PROVE Known'
  <2>1. Known /\ EarlierKept /\ unhurt
    BY <1>14 DEF RegistryInv, RegTypes, EarlierKept
  <2>2. \A k \in DOMAIN Targets : k = turn => Knows(n, k)'
    BY <1>0, <1>1, <1>2, <2>1, Informed
  <2>3. \A k \in DOMAIN Targets : \A j \in R!Instances :
          Member(j, Targets[k])' /\ Passed(j, k)' =>
            Knows(j, k)' \/ (Member(j, Targets[k]) /\ Passed(j, k) /\ hosts'[j] = hosts[j])
    <3> SUFFICES ASSUME NEW k \in DOMAIN Targets, NEW j \in R!Instances,
                        Member(j, Targets[k])', Passed(j, k)'
                 PROVE  Knows(j, k)' \/ (Member(j, Targets[k]) /\ Passed(j, k) /\ hosts'[j] = hosts[j])
      OBVIOUS
    <3>1. CASE j = n
      <4>1. k = turn
        BY <1>0, <1>1, <3>1, RegistryConstants DEF Member
      <4> QED BY <2>2, <3>1, <4>1
    <3>2. CASE j # n
      BY <1>0, <1>6, <1>10, <3>2, RegistryConstants, InstanceFacts DEF Member, Passed
    <3> QED BY <3>1, <3>2
  <2> QED BY <2>1, <2>3, KnownKept
<1> QED BY <1>7, <1>8, <1>9, <1>11, <1>12, <1>13, <1>14 DEF RegistryInv

LEMMA RegistryRollBegins ==
  ASSUME RegistryInv, NEW i \in R!Instances, R!RollBegins(i)
  PROVE  RegistryInv'
BY RegistryClears, RegistryShadows DEF R!RollBegins, R!histVars

(* Removing the container of a replica that is retired or was never there.   *)
LEMMA AddressesFreed ==
  ASSUME RegistryInv, NEW i \in R!Instances, R!Removed(i)
  PROVE  /\ at' \in [Ips -> R!Instances \cup {NoContainer}]
         /\ \A j \in R!Instances : Addressed(j)' <=> Addressed(j) /\ j # i
         /\ \A a \in Ips : at[a] # i => at'[a] = at[a]
<1>1. /\ at \in [Ips -> R!Instances \cup {NoContainer}]
      /\ at' = [a \in Ips |-> IF at[a] = i THEN NoContainer ELSE at[a]]
  BY DEF R!Removed, RegistryInv, RegTypes
<1> QED BY <1>1, RegistryConstants DEF Addressed

(* What is in a roll, and its shadow.                                        *)
LEMMA RollFacts ==
  ASSUME RegistryInv, roll # "none"
  PROVE  /\ chain = "reload" /\ verdict # "none" /\ turn \in DOMAIN Targets
         /\ rolled \in R!Instances /\ rolled \notin left /\ rolled[1] = Targets[turn]
         /\ rolled[3] < changes /\ state[rolled] # "none"
         /\ rolled[1] \in R!Services /\ rolled # NoContainer
         /\ R!Shadow(rolled) \in R!Instances /\ R!Shadow(rolled) # rolled
         /\ R!Shadow(rolled)[1] = rolled[1] /\ R!Shadow(rolled)[3] = rolled[3] + 1
         /\ \A j \in R!Instances : R!Shadow(j) = R!Shadow(rolled) => j = rolled
<1>1. /\ chain = "reload" /\ verdict # "none" /\ turn \in DOMAIN Targets
      /\ rolled \in R!Instances /\ rolled \notin left /\ rolled[1] = Targets[turn]
      /\ rolled[3] < changes /\ state[rolled] # "none"
  BY DEF RegistryInv, Rolling, Chained
<1>2. rolled[3] < MaxRounds
  BY <1>1, InstanceFacts, RegistryConstants DEF RegistryInv, RegTypes
<1> QED BY <1>1, <1>2, InstanceFacts

LEMMA RegistryClearedOf ==
  ASSUME RegistryInv, R!OldCleared,
         NEW i \in R!Instances, i = rolled, NEW n \in R!Instances, n = R!Shadow(i)
  PROVE  RegistryInv'
<1>0. /\ roll = "clearing" /\ roll' = "shadow" /\ R!Removed(i) /\ R!Boots(n)
      /\ UNCHANGED <<byFqdn, aliasOf, outdated, chain, turn, left, verdict, rolled, changes, exits,
                     unhurt, renewed>>
  BY DEF R!OldCleared, R!registryVars, R!histVars
<1>1. /\ chain = "reload" /\ verdict # "none" /\ verdict # "soft-reload"
      /\ i \notin left /\ i[1] = Targets[turn] /\ i[3] < changes
      /\ state[i] # "none" /\ outdated[i] /\ R!SingleReplica(i[1]) /\ state[n] = "none"
      /\ turn \in DOMAIN Targets
  BY <1>0 DEF RegistryInv, Rolling, Chained
<1>2. n # i /\ n[1] = i[1] /\ n[3] = i[3] + 1 /\ \A j \in R!Instances : R!Shadow(j) = n => j = i
  BY InstanceFacts
<1>3. state' = [state EXCEPT ![n] = "booting"] /\ hosts' = [hosts EXCEPT ![n] = R!BuildAddHostFlags(n)]
  BY <1>0 DEF R!Boots, R!Go
<1>4. ~outdated[n] /\ n \notin left
  BY <1>1, <1>2 DEF RegistryInv, Generations, Chained
<1>5. \A j \in R!Instances : R!Shadow(j) \in R!Instances /\ state[R!Shadow(j)] # "none" => j # n
  BY <1>1 DEF RegistryInv, Generations
<1>6. rolled' = i /\ R!Shadow(rolled)' = n
  BY <1>0
<1>7. /\ at' \in [Ips -> R!Instances \cup {NoContainer}]
      /\ \A j \in R!Instances : Addressed(j)' <=> Addressed(j) /\ j # i
      /\ \A a \in Ips : at[a] # i => at'[a] = at[a]
  BY <1>0, AddressesFreed
<1>8. /\ state'[n] = "booting" /\ \A j \in R!Instances \ {n} : state'[j] = state[j] /\ hosts'[j] = hosts[j]
  BY <1>2, <1>3, RegistryArrays DEF RegistryInv
<1>9. RegTypes'
  BY <1>0, <1>2, <1>3, <1>7 DEF RegistryInv, RegTypes, Book
<1>10. Chained'
  <2>1. \A j \in left : j \in R!Instances \ {n}
    BY <1>4 DEF RegistryInv, RegTypes
  <2> QED BY <1>0, <1>1, <1>8, <2>1 DEF RegistryInv, Chained
<1>11. Rolling'
  <2>1. Alive(n)'
    BY <1>0, <1>4, <1>8 DEF Alive
  <2>2. i # NoContainer /\ state'[i] # "none"
    BY <1>2, <1>1, <1>8, InstanceFacts
  <2> QED BY <1>0, <1>1, <1>4, <1>6, <2>1, <2>2 DEF Rolling
<1>12. \A j \in R!Instances : Alive(j)' <=> Alive(j) \/ j = n
  BY <1>0, <1>4, <1>8 DEF Alive
<1>13. Generations'
  <2>1. \A j \in R!Instances : state'[j] # "none" => j[3] <= changes
    <3>1. i[3] \in Int /\ changes \in Int
      BY <1>1, InstanceFacts, RegistryConstants DEF RegistryInv, RegTypes
    <3> QED BY <1>1, <1>2, <1>8, <3>1 DEF RegistryInv, Generations
  <2>2. \A k \in DOMAIN Targets : \A j \in R!Instances :
          /\ j[1] = Targets[k] /\ state'[j] # "none"
          /\ k > turn \/ (k = turn /\ j \in left)
          => j[3] < changes
    <3> SUFFICES ASSUME NEW k \in DOMAIN Targets, NEW j \in R!Instances,
                        j[1] = Targets[k], state'[j] # "none", k > turn \/ (k = turn /\ j \in left)
                 PROVE  j[3] < changes
      OBVIOUS
    <3>1. CASE j = n
      <4>1. k = turn
        BY <1>1, <1>2, <3>1, RegistryConstants
      <4>2. turn \in Int
        BY <1>1, RegistryConstants
      <4> QED BY <1>4, <3>1, <4>1, <4>2
    <3>2. CASE j # n
      BY <1>1, <1>8, <3>2 DEF RegistryInv, Generations
    <3> QED BY <3>1, <3>2
  <2>3. \A j \in R!Instances : state'[j] = "none" => ~outdated[j]
    BY <1>8 DEF RegistryInv, Generations
  <2>4. \A j \in R!Instances :
          R!Shadow(j) \in R!Instances /\ state'[R!Shadow(j)] # "none" =>
            state'[j] # "none" /\ (outdated[j] \/ R!Shadow(j) = n)
    <3> SUFFICES ASSUME NEW j \in R!Instances, R!Shadow(j) \in R!Instances, state'[R!Shadow(j)] # "none"
                 PROVE  state'[j] # "none" /\ (outdated[j] \/ R!Shadow(j) = n)
      OBVIOUS
    <3>1. CASE R!Shadow(j) = n
      BY <1>1, <1>2, <1>8, <3>1
    <3>2. CASE R!Shadow(j) # n
      BY <1>0, <1>5, <1>8, <3>2 DEF RegistryInv, Generations, InShadow
    <3> QED BY <3>1, <3>2
  <2> QED BY <1>0, <1>1, <1>6, <2>1, <2>2, <2>3, <2>4 DEF Generations, InShadow
<1>14. Retirement'
  <2>1. \A j \in R!Instances : outdated[j] /\ state'[j] = "publishing" => ~Addressed(j)'
    BY <1>0, <1>7, <1>8 DEF RegistryInv, Retirement
  <2> QED BY <1>0, <1>8, <2>1 DEF RegistryInv, Retirement
<1>15. BootOrder'
  BY <1>0, <1>1 DEF BootOrder
<1>16. EarlierKept
  BY <1>1, <1>7, RegistryConstants DEF EarlierKept
<1>17. ASSUME unhurt' PROVE Unhurt' /\ Present'
  <2>1. Unhurt /\ Present
    BY <1>0, <1>17 DEF RegistryInv
  <2>2. \A j \in R!Instances : Alive(j)' =>
          /\ state'[j] \in {"started", "publishing", "up"} => Addressed(j)'
          /\ state'[j] = "up" => Recycled(j)' \/ Owns(j[1], j)'
          /\ Booted(j[1])' => state'[j] = "up" \/ InShadow(j)'
    <3> TAKE j \in R!Instances
    <3>1. CASE j = n
      BY <1>0, <1>6, <1>8, <3>1 DEF InShadow
    <3>2. CASE j # n
      BY <1>0, <1>1, <1>7, <1>8, <1>12, <2>1, <3>2 DEF Unhurt, Recycled, Owns, Book, Booted, InShadow, Alive
    <3> QED BY <3>1, <3>2
  <2>3. \A s \in R!Services : \A e \in Book(s)' : at'[e.ip] = e.owner /\ Alive(e.owner)' /\ ~Recycled(e.owner)'
    BY <1>0, <1>1, <1>7, <1>12, <2>1, RegistryArrays DEF Unhurt, Recycled, Book, Alive, RegistryInv
  <2>4. Unhurt'
    BY <1>0, <1>1, <1>6, <2>2, <2>3 DEF Unhurt
  <2>5. Present'
    <3> SUFFICES ASSUME NEW s \in R!Services
                 PROVE  /\ \E j \in R!Instances : Member(j, s)'
                        /\ ~R!SingleReplica(s) =>
                             \E j, k \in R!Instances :
                               j # k /\ Member(j, s)' /\ Member(k, s)' /\ j # n /\ k # n
      BY <1>6 DEF Present, InShadow
    <3>1. \A j \in R!Instances : Member(j, s) => Member(j, s)' /\ j # n
      BY <1>1, <1>12 DEF Member, Alive
    <3>2. Booted(s)
      BY <1>1 DEF Booted
    <3>3. CASE s = i[1]
      BY <1>1, <1>2, <1>12, <3>3 DEF Member
    <3>4. CASE s # i[1]
      BY <1>0, <2>1, <3>1, <3>2, <3>4 DEF Present
    <3> QED BY <3>3, <3>4
  <2> QED BY <2>4, <2>5
<1>18. ASSUME renewed' PROVE Known'
  <2>1. Known /\ unhurt
    BY <1>0, <1>18 DEF RegistryInv, RegTypes
  <2>2. \A k \in DOMAIN Targets : k = turn => Knows(n, k)'
    BY <1>0, <1>1, <1>2, <1>3, <1>16, <2>1, Informed
  <2>3. \A k \in DOMAIN Targets : \A j \in R!Instances :
          Member(j, Targets[k])' /\ Passed(j, k)' =>
            Knows(j, k)' \/ (Member(j, Targets[k]) /\ Passed(j, k) /\ hosts'[j] = hosts[j])
    <3> SUFFICES ASSUME NEW k \in DOMAIN Targets, NEW j \in R!Instances,
                        Member(j, Targets[k])', Passed(j, k)'
                 PROVE  Knows(j, k)' \/ (Member(j, Targets[k]) /\ Passed(j, k) /\ hosts'[j] = hosts[j])
      OBVIOUS
    <3>1. CASE j = n
      <4>1. k = turn
        BY <1>0, <1>1, <1>2, <3>1, RegistryConstants DEF Member
      <4> QED BY <2>2, <3>1, <4>1
    <3>2. CASE j # n
      BY <1>0, <1>1, <1>8, <1>12, <3>2 DEF Member, Passed
    <3> QED BY <3>1, <3>2
  <2> QED BY <1>16, <2>1, <2>3, KnownKept
<1> QED BY <1>9, <1>10, <1>11, <1>13, <1>14, <1>15, <1>17, <1>18 DEF RegistryInv

(* A roll has ended whose old replica is gone from the registry.             *)
LEMMA RegistryRolled ==
  ASSUME RegistryInv, chain = "reload", roll # "none", roll # "cycling",
         outdated[rolled], R!ReplicaDone,
         at' \in [Ips -> R!Instances \cup {NoContainer}],
         \A j \in R!Instances : Addressed(j)' => Addressed(j),
         \A j \in R!Instances : Addressed(j) /\ j # rolled => Addressed(j)',
         \A j \in R!Instances : Addressed(j)' => j # rolled \/ roll = "shadow",
         \A a \in Ips : at[a] # rolled => at'[a] = at[a],
         roll = "shadow" => state[R!Shadow(rolled)] = "up",
         roll = "clearing" => FALSE,
         UNCHANGED <<byFqdn, hosts, state, outdated, chain, turn, left, verdict, changes, unhurt, renewed>>
  PROVE  RegistryInv'
<1>0. roll' = "none" /\ rolled' = NoContainer
  BY DEF R!ReplicaDone
<1>1. rolled \in R!Instances /\ rolled[1] = Targets[turn] /\ turn \in DOMAIN Targets
  BY DEF RegistryInv, Rolling, Chained
<1>2. RegTypes' /\ Chained' /\ BootOrder'
  BY DEF RegistryInv, RegTypes, Chained, BootOrder, Book
<1>3. Rolling'
  BY <1>0 DEF Rolling
<1>4. Generations'
  BY <1>0, <1>1, InstanceFacts DEF RegistryInv, Generations, InShadow
<1>5. Retirement'
  BY DEF RegistryInv, Retirement
<1>6. ASSUME unhurt' PROVE Unhurt' /\ Present'
  <2>1. Unhurt /\ Present
    BY <1>6 DEF RegistryInv
  <2>2. \A j \in R!Instances : Alive(j)' =>
          /\ state'[j] \in {"started", "publishing", "up"} => Addressed(j)'
          /\ state'[j] = "up" => Recycled(j)' \/ Owns(j[1], j)'
          /\ Booted(j[1])' => state'[j] = "up" \/ InShadow(j)'
    BY <2>1 DEF Unhurt, Booted, InShadow, Owns, Recycled, Book, Alive
  <2>3. Unhurt'
    BY <1>0, <2>1, <2>2, RegistryArrays DEF Unhurt, Recycled, RegistryInv, Book, Alive
  <2>4. Present'
    BY <1>0, <2>1 DEF Present, Booted, Member, Alive, InShadow
  <2> QED BY <2>3, <2>4
<1>7. ASSUME renewed' PROVE Known'
  <2>1. Known /\ EarlierKept
    BY <1>1, <1>7, RegistryConstants DEF RegistryInv, EarlierKept
  <2>2. \A k \in DOMAIN Targets : \A j \in R!Instances :
          Member(j, Targets[k])' /\ Passed(j, k)' => Member(j, Targets[k]) /\ Passed(j, k)
    BY DEF Member, Alive, Passed
  <2> QED BY <2>1, <2>2, KnownKept
<1> QED BY <1>2, <1>3, <1>4, <1>5, <1>6, <1>7 DEF RegistryInv

LEMMA RegistryOldRemoved == ASSUME RegistryInv, R!OldRemoved PROVE RegistryInv'
<1>0. /\ roll = "retiring" /\ R!Removed(rolled) /\ R!ReplicaDone
      /\ UNCHANGED <<byFqdn, hosts, state, outdated, chain, turn, left, verdict, changes, unhurt, renewed>>
  BY DEF R!OldRemoved, R!registryVars, R!histVars
<1>1. rolled \in R!Instances /\ outdated[rolled] /\ chain = "reload"
  BY <1>0 DEF RegistryInv, Rolling
<1>2. /\ at' \in [Ips -> R!Instances \cup {NoContainer}]
      /\ \A j \in R!Instances : Addressed(j)' <=> Addressed(j) /\ j # rolled
      /\ \A a \in Ips : at[a] # rolled => at'[a] = at[a]
  BY <1>0, <1>1, AddressesFreed
<1> QED BY <1>0, <1>1, <1>2, RegistryRolled

(* The shadow of one of several replicas takes over from it.                 *)
LEMMA RegistryTakesOver ==
  ASSUME RegistryInv, roll = "shadow", state[R!Shadow(rolled)] = "up",
         NEW i \in R!Instances, i = rolled, NEW n \in R!Instances, n = R!Shadow(i),
         ~R!SingleReplica(rolled[1]), R!Unregister(rolled),
         outdated' = [outdated EXCEPT ![rolled] = TRUE], roll' = "retiring",
         UNCHANGED <<at, hosts, state, chain, turn, left, verdict, rolled, changes, unhurt, renewed>>
  PROVE  RegistryInv'
<1>1. /\ chain = "reload" /\ verdict # "none" /\ verdict # "soft-reload"
      /\ i \in R!Instances /\ i \notin left /\ i[1] = Targets[turn] /\ i[3] < changes
      /\ state[i] # "none" /\ Alive(n) /\ turn \in DOMAIN Targets
  BY DEF RegistryInv, Rolling, Chained
<1>2. n # i /\ n[1] = i[1] /\ i # NoContainer /\ i[1] \in R!Services
  BY InstanceFacts
<1>3. outdated'[i] /\ \A j \in R!Instances \ {i} : outdated'[j] = outdated[j]
  BY <1>1, RegistryArrays DEF RegistryInv
<1>4. BookTypes' /\ \A s \in R!Services : Book(s)' = {e \in Book(s) : e.owner # i}
  BY <1>1, Unregistered DEF RegistryInv
<1>5. \A j : InShadow(j) => j = n
  BY DEF InShadow
<1>6. RegTypes'
  BY <1>1, <1>4, <1>5 DEF RegistryInv, RegTypes, BookTypes
<1>7. Chained' /\ BootOrder'
  BY <1>1 DEF RegistryInv, Chained, BootOrder
<1>8. Rolling'
  BY <1>1, <1>2, <1>3, <1>5 DEF RegistryInv, Rolling
<1>9. \A j \in R!Instances : Alive(j)' <=> Alive(j) /\ j # i
  BY <1>1, <1>3 DEF Alive
<1>10. Generations'
  <2>1. \A j \in R!Instances : R!Shadow(j) = n => j = i
    BY <1>1, InstanceFacts
  <2> QED BY <1>1, <1>3, <1>5, <2>1 DEF RegistryInv, Generations, InShadow
<1>11. Retirement'
  BY <1>3, <1>5 DEF RegistryInv, Retirement, Addressed
<1>12. ASSUME unhurt' PROVE Unhurt' /\ Present'
  <2>1. Unhurt /\ Present /\ state[i] = "up"
    BY <1>5, <1>12 DEF RegistryInv, Unhurt
  <2>2. \A j \in R!Instances \ {i} : Owns(j[1], j) => Owns(j[1], j)'
    <3> TAKE j \in R!Instances \ {i}
    <3>1. j[1] \in R!Services
      BY InstanceFacts
    <3> QED BY <1>4, <3>1 DEF Owns
  <2>3. \A j \in R!Instances : Alive(j)' =>
          /\ state'[j] \in {"started", "publishing", "up"} => Addressed(j)'
          /\ state'[j] = "up" => Recycled(j)' \/ Owns(j[1], j)'
          /\ Booted(j[1])' => state'[j] = "up" \/ InShadow(j)'
    <3> TAKE j \in R!Instances
    <3>1. state[j] = "up" \/ ~Alive(j)
      BY <1>1, <1>5, <2>1 DEF Unhurt, Booted
    <3> QED BY <1>9, <2>1, <2>2, <3>1 DEF Unhurt, Addressed, Recycled
  <2>4. Unhurt'
    BY <1>4, <1>5, <1>9, <2>1, <2>3, RegistryArrays DEF Unhurt, Recycled, RegistryInv
  <2>5. Present'
    <3> SUFFICES ASSUME NEW s \in R!Services
                 PROVE  /\ \E j \in R!Instances : Member(j, s)'
                        /\ ~R!SingleReplica(s) =>
                             \E j, k \in R!Instances : j # k /\ Member(j, s)' /\ Member(k, s)'
      BY DEF Present, InShadow
    <3>1. Booted(s)
      BY <1>1 DEF Booted
    <3>2. \A j \in R!Instances \ {i} : Member(j, s) => Member(j, s)'
      BY <1>9 DEF Member
    <3>3. CASE s # i[1]
      BY <2>1, <3>1, <3>2, <3>3 DEF Present, Member
    <3>4. CASE s = i[1]
      <4>1. Member(n, s)'
        BY <1>1, <1>2, <1>9, <3>4 DEF Member
      <4>2. PICK x, y \in R!Instances : x # y /\ Member(x, s) /\ Member(y, s) /\ ~InShadow(x) /\ ~InShadow(y)
        BY <1>5, <2>1, <3>1, <3>4 DEF Present
      <4>3. x # n /\ y # n
        BY <4>2 DEF InShadow
      <4>4. \E z \in R!Instances : z # n /\ Member(z, s)'
        BY <3>2, <4>2, <4>3
      <4> QED BY <1>2, <4>1, <4>4
    <3> QED BY <3>3, <3>4
  <2> QED BY <2>4, <2>5
<1>13. ASSUME renewed' PROVE Known'
  <2>1. Known /\ EarlierKept
    BY <1>13 DEF RegistryInv, EarlierKept
  <2>2. \A k \in DOMAIN Targets : \A j \in R!Instances :
          Member(j, Targets[k])' /\ Passed(j, k)' => Member(j, Targets[k]) /\ Passed(j, k)
    BY <1>9 DEF Member, Passed
  <2> QED BY <2>1, <2>2, KnownKept
<1> QED BY <1>6, <1>7, <1>8, <1>10, <1>11, <1>12, <1>13 DEF RegistryInv

LEMMA RegistrySwaps == ASSUME RegistryInv, R!Swaps PROVE RegistryInv'
<1>0. /\ roll = "shadow" /\ state[R!Shadow(rolled)] = "up"
      /\ UNCHANGED <<at, aliasOf, hosts, state, chain, turn, left, verdict, changes, unhurt, renewed>>
  BY DEF R!Swaps, R!histVars
<1>1. CASE R!SingleReplica(rolled[1]) /\ R!ReplicaDone /\ UNCHANGED <<byFqdn, outdated>>
  <2>1. outdated[rolled] /\ chain = "reload" /\ at \in [Ips -> R!Instances \cup {NoContainer}]
    BY <1>0, <1>1 DEF RegistryInv, Rolling, RegTypes
  <2>2. \A j : Addressed(j)' <=> Addressed(j)
    BY <1>0 DEF Addressed
  <2> QED BY <1>0, <1>1, <2>1, <2>2, RegistryRolled
<1>2. CASE /\ ~R!SingleReplica(rolled[1]) /\ R!Unregister(rolled)
           /\ outdated' = [outdated EXCEPT ![rolled] = TRUE] /\ roll' = "retiring" /\ UNCHANGED rolled
  BY <1>0, <1>2, RollFacts, RegistryTakesOver
<1> QED BY <1>1, <1>2 DEF R!Swaps

LEMMA RegistryFailedOf ==
  ASSUME RegistryInv, R!ShadowFails, NEW n \in R!Instances, n = R!Shadow(rolled)
  PROVE  RegistryInv'
<1>0. /\ roll = "shadow" /\ R!Removed(n) /\ state' = [state EXCEPT ![n] = "none"]
      /\ roll' = "none" /\ rolled' = NoContainer /\ ~unhurt' /\ ~renewed'
      /\ UNCHANGED <<byFqdn, aliasOf, hosts, outdated, chain, turn, left, verdict, changes, exits>>
  BY DEF R!ShadowFails, R!registryVars, R!ReplicaDone, R!Go, R!Hurt
<1>1. chain = "reload" /\ Alive(n) /\ n \notin left
  BY <1>0 DEF RegistryInv, Rolling
<1>2. n # rolled /\ \A j \in R!Instances : R!Shadow(j) = n => j = rolled
  BY <1>0, RollFacts
<1>3. at' \in [Ips -> R!Instances \cup {NoContainer}] /\ \A j \in R!Instances : Addressed(j)' => Addressed(j)
  BY <1>0, <1>2, AddressesFreed
<1>4. \A j : InShadow(j) => j = n
  BY DEF InShadow
<1>5. state'[n] = "none" /\ \A j \in R!Instances \ {n} : state'[j] = state[j]
  BY <1>0, <1>2, RegistryArrays DEF RegistryInv
<1>6. RegTypes'
  BY <1>0, <1>3 DEF RegistryInv, RegTypes, Book
<1>7. Chained' /\ Rolling' /\ BootOrder'
  <2>1. \A j \in left : j \in R!Instances \ {n}
    BY <1>1 DEF RegistryInv, RegTypes
  <2> QED BY <1>0, <1>1, <1>5, <2>1 DEF RegistryInv, Chained, Rolling, BootOrder
<1>8. Generations'
  <2>1. ~outdated[n]
    BY <1>1 DEF Alive
  <2>2. ~InShadow(R!Shadow(n))
    BY <1>2, <1>4, InstanceFacts
  <2>3. R!Shadow(n) \in R!Instances => state[R!Shadow(n)] = "none"
    BY <1>2, <2>1, <2>2 DEF RegistryInv, Generations
  <2>4. \A j \in R!Instances : state'[j] # "none" => j # n /\ state[j] # "none"
    BY <1>5
  <2>5. \A j \in R!Instances : state'[j] = "none" => ~outdated[j]
    BY <1>5, <2>1 DEF RegistryInv, Generations
  <2>6. \A j \in R!Instances :
          R!Shadow(j) \in R!Instances /\ state'[R!Shadow(j)] # "none" => state'[j] # "none" /\ outdated[j]
    <3> SUFFICES ASSUME NEW j \in R!Instances, R!Shadow(j) \in R!Instances, state'[R!Shadow(j)] # "none"
                 PROVE  state'[j] # "none" /\ outdated[j]
      OBVIOUS
    <3>1. R!Shadow(j) # n /\ state[R!Shadow(j)] # "none"
      BY <2>4
    <3>2. state[j] # "none" /\ outdated[j] /\ j # n
      BY <1>4, <2>3, <3>1 DEF RegistryInv, Generations
    <3> QED BY <1>5, <3>2
  <2> QED BY <1>0, <2>4, <2>5, <2>6 DEF RegistryInv, Generations
<1>9. Retirement'
  BY <1>0, <1>3, <1>5 DEF RegistryInv, Retirement
<1> QED BY <1>0, <1>6, <1>7, <1>8, <1>9 DEF RegistryInv
LEMMA RegistryOldCleared == ASSUME RegistryInv, R!OldCleared PROVE RegistryInv'
BY RollFacts, RegistryClearedOf DEF R!OldCleared

LEMMA RegistryShadowFails == ASSUME RegistryInv, R!ShadowFails PROVE RegistryInv'
BY RollFacts, RegistryFailedOf DEF R!ShadowFails

LEMMA RegistrySoftReloadBegins ==
  ASSUME RegistryInv, NEW i \in R!Instances, R!SoftReloadBegins(i)
  PROVE  RegistryInv'
<1>0. /\ chain = "reload" /\ roll = "none" /\ verdict = "soft-reload" /\ i \in left /\ ~outdated[i]
      /\ left' = left \ {i} /\ (unhurt' => unhurt) /\ (renewed' => renewed /\ unhurt')
      /\ UNCHANGED <<at, aliasOf, hosts, state, outdated, chain, turn, verdict, changes, exits>>
  BY DEF R!SoftReloadBegins, R!Hurt, R!histVars, RegistryInv, RegTypes
<1>1. ~renewed'
  BY <1>0 DEF RegistryInv, Chained
<1>2. /\ i[1] = Targets[turn] /\ turn \in DOMAIN Targets /\ state[i] # "none" /\ i[3] < changes
      /\ rolled = NoContainer /\ i # NoContainer
  BY <1>0, InstanceFacts DEF RegistryInv, Chained, Rolling, Generations
<1>3. Chained' /\ Retirement' /\ BootOrder'
  BY <1>0, <1>1 DEF RegistryInv, Chained, Retirement, BootOrder, Addressed, Rolling
<1>4. \/ R!Unregister(i) /\ roll' = "cycling" /\ rolled' = i /\ unhurt' = unhurt
      \/ ~unhurt' /\ UNCHANGED <<byFqdn, roll, rolled>>
  BY DEF R!SoftReloadBegins, R!Hurt, R!histVars
<1>5. BookTypes'
  <2>1. CASE UNCHANGED byFqdn
    BY <2>1 DEF BookTypes, RegistryInv, RegTypes, Book
  <2> QED BY <1>4, <2>1, Unregistered DEF RegistryInv
<1>6. RegTypes'
  BY <1>0, <1>1, <1>5 DEF RegistryInv, RegTypes, BookTypes
<1>7. Rolling' /\ Generations'
  BY <1>0, <1>2, <1>4 DEF RegistryInv, Rolling, Generations, InShadow
<1>8. ASSUME unhurt' PROVE Unhurt' /\ Present'
  <2>1. Unhurt /\ Present
    BY <1>0, <1>8 DEF RegistryInv
  <2>2. R!Unregister(i) /\ roll' = "cycling" /\ rolled' = i
    BY <1>4, <1>8
  <2>3. \A s \in R!Services : Book(s)' = {e \in Book(s) : e.owner # i}
    BY <2>2, Unregistered DEF RegistryInv
  <2>4. \A j \in R!Instances \ {i} : Owns(j[1], j) => Owns(j[1], j)'
    <3> TAKE j \in R!Instances \ {i}
    <3>1. j[1] \in R!Services
      BY InstanceFacts
    <3> QED BY <2>3, <3>1 DEF Owns
  <2>5. \A j \in R!Instances : Alive(j)' =>
          /\ state'[j] \in {"started", "publishing", "up"} => Addressed(j)'
          /\ state'[j] = "up" => Recycled(j)' \/ Owns(j[1], j)'
          /\ Booted(j[1])' => state'[j] = "up" \/ InShadow(j)'
    BY <1>0, <2>1, <2>2, <2>4, <1>8, UpBetweenRolls DEF Unhurt, Addressed, Recycled, Alive
  <2>6. Unhurt'
    BY <1>0, <2>1, <2>2, <2>3, <2>5 DEF Unhurt, Recycled, Alive
  <2>7. Present'
    BY <1>0, <2>1, <2>2 DEF Present, Booted, Member, Alive, InShadow
  <2> QED BY <2>6, <2>7
<1> QED BY <1>1, <1>3, <1>6, <1>7, <1>8 DEF RegistryInv

LEMMA RegistryCycledOf ==
  ASSUME RegistryInv, R!SoftReloadEnds, NEW i \in R!Instances, i = rolled
  PROVE  RegistryInv'
<1>0. /\ roll = "cycling" /\ roll' = "none" /\ rolled' = NoContainer
      /\ (unhurt' => unhurt) /\ (renewed' => renewed /\ unhurt')
      /\ UNCHANGED <<hosts, state, outdated, chain, turn, left, verdict, changes, exits>>
  BY DEF R!SoftReloadEnds, R!Hurt, R!histVars, R!ReplicaDone, RegistryInv, RegTypes
<1>1. /\ chain = "reload" /\ verdict = "soft-reload" /\ state[i] # "none" /\ i # NoContainer
      /\ (outdated[i] => state[i] = "failed")
  BY <1>0, RollFacts DEF RegistryInv, Rolling
<1>2. ~renewed'
  BY <1>0, <1>1 DEF RegistryInv, Chained
<1>3. \/ \E a \in Ips : /\ at[a] = i \/ at[a] = NoContainer
                        /\ at' = [at EXCEPT ![a] = i] /\ R!Register(i, a)
      \/ ~unhurt' /\ UNCHANGED <<at, byFqdn>>
  BY DEF R!SoftReloadEnds, R!Hurt, R!AddressesOf, R!Free, R!registryVars
<1>4. BookTypes' /\ at' \in [Ips -> R!Instances \cup {NoContainer}]
  <2>1. at \in [Ips -> R!Instances \cup {NoContainer}]
    BY DEF RegistryInv, RegTypes
  <2>2. CASE UNCHANGED <<at, byFqdn>>
    BY <2>1, <2>2 DEF BookTypes, RegistryInv, RegTypes, Book
  <2>3. CASE \E a \in Ips : at' = [at EXCEPT ![a] = i] /\ R!Register(i, a)
    BY <2>1, <2>3, Registered DEF RegistryInv
  <2> QED BY <1>3, <2>2, <2>3
<1>5. \A j \in R!Instances \ {i} : Addressed(j)' <=> Addressed(j)
  BY <1>3, RegistryConstants, RegistryArrays DEF Addressed, RegistryInv
<1>6. RegTypes'
  BY <1>0, <1>2, <1>4 DEF RegistryInv, RegTypes, BookTypes
<1>7. Chained' /\ BootOrder'
  BY <1>0, <1>1, <1>2 DEF RegistryInv, Chained, BootOrder
<1>8. Rolling' /\ Generations'
  BY <1>0, <1>1 DEF RegistryInv, Rolling, Generations, InShadow
<1>9. Retirement'
  BY <1>0, <1>1, <1>5 DEF RegistryInv, Retirement
<1>10. ASSUME unhurt' PROVE Unhurt' /\ Present'
  <2>1. Unhurt /\ Present /\ ~outdated[i]
    BY <1>0, <1>10 DEF RegistryInv, Unhurt
  <2>2. PICK a \in Ips : (at[a] = i \/ at[a] = NoContainer) /\ at' = [at EXCEPT ![a] = i] /\ R!Register(i, a)
    BY <1>3, <1>10
  <2>3. /\ \A s \in R!Services : \A e \in Book(s)' :
             (e \in Book(s) /\ e.owner # i) \/ (e.owner = i /\ e.ip = a)
        /\ \A j \in R!Instances \ {i} : Owns(j[1], j) => Owns(j[1], j)'
        /\ Owns(i[1], i)'
    BY <2>2, Registered DEF RegistryInv
  <2>4. at'[a] = i /\ \A b \in Ips \ {a} : at'[b] = at[b]
    BY <2>2, RegistryArrays DEF RegistryInv
  <2>5. \A j : Alive(j)' <=> Alive(j)
    BY <1>0 DEF Alive
  <2>6. \A j \in R!Instances : Alive(j)' =>
          /\ state'[j] \in {"started", "publishing", "up"} => Addressed(j)'
          /\ state'[j] = "up" => Recycled(j)' \/ Owns(j[1], j)'
          /\ Booted(j[1])' => state'[j] = "up" \/ InShadow(j)'
    <3> TAKE j \in R!Instances
    <3>1. Alive(j) => state[j] = "up" \/ ~Booted(j[1])
      BY <1>0, <2>1 DEF Unhurt, InShadow
    <3>2. Booted(j[1])
      BY <1>1 DEF Booted
    <3>3. CASE j = i
      BY <1>0, <2>3, <2>4, <2>5, <3>1, <3>2, <3>3 DEF Addressed
    <3>4. CASE j # i
      BY <1>0, <1>5, <2>1, <2>3, <2>5, <3>1, <3>2, <3>4 DEF Unhurt, Recycled
    <3> QED BY <3>3, <3>4
  <2>7. \A s \in R!Services : \A e \in Book(s)' : at'[e.ip] = e.owner /\ Alive(e.owner)'
    <3> SUFFICES ASSUME NEW s \in R!Services, NEW e \in Book(s)' PROVE at'[e.ip] = e.owner /\ Alive(e.owner)'
      OBVIOUS
    <3>1. CASE e.owner = i /\ e.ip = a
      BY <1>1, <2>1, <2>4, <2>5, <3>1 DEF Alive
    <3>2. CASE e \in Book(s) /\ e.owner # i
      <4>1. at[e.ip] = e.owner /\ Alive(e.owner) /\ e.ip \in Ips /\ e.owner # NoContainer
        BY <2>1, <3>2, RegistryArrays DEF Unhurt, RegistryInv
      <4> QED BY <2>2, <2>4, <2>5, <3>2, <4>1
    <3> QED BY <2>3, <3>1, <3>2
  <2>8. Unhurt'
    BY <1>0, <2>6, <2>7 DEF Unhurt, Recycled
  <2>9. Present'
    BY <1>0, <2>1 DEF Present, Booted, Member, Alive, InShadow
  <2> QED BY <2>8, <2>9
<1> QED BY <1>2, <1>6, <1>7, <1>8, <1>9, <1>10 DEF RegistryInv

LEMMA RegistryStep == ASSUME RegistryInv, [R!RegistryNext]_(R!vars) PROVE RegistryInv'
<1>1. CASE \E i \in R!Instances :
             \/ \E a \in Ips : R!ContainerStarts(i, a)
             \/ R!ProbeEnds(i) \/ R!Publishes(i) \/ R!BootsNext(i)
  BY <1>1, RegistryContainerStarts, RegistryProbeEnds, RegistryPublishes, RegistryBootsNext
<1>2. CASE \E i \in R!Instances : R!Exits(i) \/ R!Degrades(i) \/ R!Restarts(i) \/ R!RestartFails(i)
  BY <1>2, RegistryExits, RegistryDegrades, RegistryRestarts, RegistryRestartFails
<1>3. CASE \E i \in R!Instances : R!Skips(i) \/ R!RollBegins(i) \/ R!SoftReloadBegins(i)
  BY <1>3, RegistrySkips, RegistryRollBegins, RegistrySoftReloadBegins
<1>4. CASE R!TargetUp \/ R!SourceChanged \/ R!TargetBegins \/ R!TargetEnds
  BY <1>4, RegistryTargetUp, RegistrySourceChanged, RegistryTargetBegins, RegistryTargetEnds
<1>5. CASE R!SoftReloadEnds
  <2>1. rolled \in R!Instances
    BY <1>5, RollFacts DEF R!SoftReloadEnds
  <2> QED BY <1>5, <2>1, RegistryCycledOf
<1>6. CASE UNCHANGED R!vars
  <2>1. UNCHANGED <<at, byFqdn, hosts, state, outdated, chain, turn, left, verdict, rolled, roll,
                    changes, unhurt, renewed>>
    BY <1>6 DEF R!vars, R!registryVars, R!chainVars, R!histVars
  <2>2. Unhurt' = Unhurt /\ Present' = Present
    BY <2>1 DEF Unhurt, Present, Alive, Member, Addressed, Owns, Book, Recycled, InShadow, Booted
  <2>3. Known' = Known
    BY <2>1 DEF Known, Member, Alive, Passed, Knows, R!LeadsTo
  <2>4. RegTypes' /\ Chained' /\ Rolling' /\ Generations' /\ Retirement' /\ BootOrder'
    BY <2>1 DEF RegistryInv, RegTypes, Chained, Rolling, Generations, Retirement, BootOrder, Alive,
      Addressed, InShadow, Book
  <2> QED BY <2>1, <2>2, <2>3, <2>4 DEF RegistryInv
<1> QED BY <1>1, <1>2, <1>3, <1>4, <1>5, <1>6, RegistryOldCleared, RegistrySwaps, RegistryOldRemoved,
      RegistryShadowFails DEF R!RegistryNext

LEMMA RegistryServes == ASSUME RegistryInv PROVE R!AlwaysRegistered /\ R!PeersFound
<1>1. R!AlwaysRegistered
  <2> SUFFICES ASSUME unhurt, NEW k \in 1 .. Len(Targets), chain # "boot" \/ k < turn,
                      ~R!SingleReplica(Targets[k])
               PROVE  \E e \in R!ToSet(byFqdn[Targets[k]]) : at[e.ip] = e.owner
    BY DEF R!AlwaysRegistered
  <2> DEFINE s == Targets[k]
  <2>1. s \in R!Services /\ Booted(s)
    BY RegistryConstants DEF Booted
  <2>2. R!ToSet(byFqdn[s]) = Book(s)
    BY DEF R!ToSet, Book
  <2>3. Unhurt /\ Present
    BY DEF RegistryInv
  <2> HIDE DEF s
  <2>4. PICK i, j \in R!Instances :
          i # j /\ Member(i, s) /\ Member(j, s) /\ ~InShadow(i) /\ ~InShadow(j)
    BY <2>1, <2>3 DEF Present, s
  <2>5. PICK m \in R!Instances : Member(m, s) /\ ~InShadow(m) /\ ~Recycled(m)
    BY <2>4 DEF Recycled
  <2>6. Owns(s, m)
    BY <2>1, <2>3, <2>5 DEF Unhurt, Member
  <2> QED BY <2>1, <2>2, <2>3, <2>6 DEF Unhurt, Owns, s
<1>2. R!PeersFound
  <2> SUFFICES ASSUME renewed, NEW k \in 1 .. turn - 1, NEW j \in 1 .. turn - 1, j < k,
                      NEW i \in R!Live(Targets[k])
               PROVE  R!LeadsTo(hosts[i][Targets[j]], Targets[j])
    BY DEF R!PeersFound
  <2>1. k \in DOMAIN Targets /\ j \in DOMAIN Targets /\ k < turn
    BY RegistryConstants DEF RegistryInv, Chained
  <2>2. i \in R!Instances /\ Member(i, Targets[k])
    BY DEF R!Live, R!Of, Member, Alive
  <2>3. Known
    BY DEF RegistryInv
  <2> QED BY <2>1, <2>2, <2>3 DEF Known, Passed, Knows
<1> QED BY <1>1, <1>2

(***************************************************************************)
(* The three together                                                      *)
(***************************************************************************)

ServicesInv == WatchInv /\ RegistryInv

LEMMA ReloadsStart == ASSUME ReloadsInit PROVE ServicesInv
BY WatchStarts, RegistryStarts DEF ReloadsInit, ServicesInv

LEMMA ReloadsStep == ASSUME ServicesInv, [ReloadsNext]_allVars PROVE ServicesInv'
<1>1. [W!WatchNext]_(W!vars) /\ [R!RegistryNext]_(R!vars)
  BY DEF ReloadsNext, Runs, Finds, Watches, allVars, registryVars, watchVars,
    R!vars, R!registryVars, R!chainVars, R!histVars, W!vars, W!watcherVars, W!reloadVars, W!replicaVars
<1> QED BY <1>1, WatchStep, RegistryStep DEF ServicesInv

(* Every save reaches every replica, by a rebuild where copying is not       *)
(* enough; a service of several replicas that is up stays in the registry,   *)
(* and every replica knows the services before its own, as long as no        *)
(* container exits by itself and docker refuses nothing.                     *)
THEOREM EveryReplicaInStep == ReloadsSpec => []InStep
<1>1. ReloadsInit => ServicesInv
  BY ReloadsStart
<1>2. ServicesInv /\ [ReloadsNext]_allVars => ServicesInv'
  BY ReloadsStep
<1>3. ServicesInv => InStep
  BY WatchInStep, RegistryServes DEF ServicesInv, InStep
<1> QED BY <1>1, <1>2, <1>3, PTL DEF ReloadsSpec
=============================================================================
