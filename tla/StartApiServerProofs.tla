------------------------ MODULE StartApiServerProofs ------------------------
(***************************************************************************)
(* Proofs about StartApiServer, for any sets of requests and containers    *)
(* and any number of reloads.                                              *)
(***************************************************************************)
EXTENDS StartApiServer, TLAPS

(* Reloads run one after the other, each installs a state of its own, and    *)
(* the newest one is built from what the watcher last saw, or newer.         *)
Chained ==
  /\ fired <= noticed /\ noticed <= source
  /\ \A k \in Reloads : k > fired => reload[k] = "none"
  /\ \A k \in Reloads : reload[k] # "none" => ChainFree(k)
  /\ \A k \in Reloads :
       reload[k] \in {"none", "building"} /\ ChainFree(k) => current < k
  /\ fired > 0 /\ reload[fired] = "building" => material[fired] >= noticed
  /\ Fresh

(* Only the current state's pool may be open; requests and containers belong *)
(* to a state that was installed, before the shutdown took the last one.     *)
Generations ==
  /\ \A g \in States : pool[g] = "none" <=> g > current
  /\ \A g \in States : g < current => pool[g] # "open"
  /\ \A r \in Requests : snapshot[r] <= current
  /\ \A c \in docker : owner[c] <= current
  /\ last = NoState <=> stage \in {"serving", "closing", "closed"}
  /\ last # NoState => /\ last <= current
                       /\ \A r \in Requests : snapshot[r] <= last
                       /\ \A c \in docker : owner[c] <= last
  /\ stage = "exited" => pool[last] = "closed"

(* Whose a container is, and what a dispose() has taken over.                *)
Lending ==
  /\ \A r \in Requests :
       \/ phase[r] = "starting"
       \/ phase[r] = "invoking" /\ Registered(snapshot[r])
       => owner[lease[r]] = snapshot[r]
  /\ \A g \in States : \A r \in settling[g] :
       pool[g] = "settling" /\ phase[r] = "starting" /\ snapshot[r] = g
  /\ \A g \in States : \A c \in doomed[g] :
       /\ pool[g] = "settling" /\ owner[c] = g
       /\ \A r \in Requests : phase[r] = "starting" => lease[r] # c
  /\ \A g \in States :
       pool[g] \in {"settling", "closed"} /\ g \notin timedOut => drain[g] = {}

(* What is left of a pool that has been harvested.                           *)
Accounted ==
  /\ \A c \in docker :
       pool[owner[c]] = "settling" =>
         \/ c \in doomed[owner[c]] \union strays
         \/ \E r \in settling[owner[c]] : lease[r] = c
  /\ \A c \in docker : pool[owner[c]] = "closed" => c \in strays

ServerInv == TypeOK /\ Chained /\ Generations /\ Lending /\ Accounted

LEMMA InitServerInv == Init => ServerInv
<1> SUFFICES ASSUME Init PROVE ServerInv
  OBVIOUS
<1> USE ServerAssumption DEF Init, States, Reloads, NoState, docker
<1>1. TypeOK
  BY DEF TypeOK
<1>2. Chained
  BY DEF Chained, Fresh
<1>3. Generations
  BY DEF Generations
<1>4. Lending
  BY DEF Lending
<1>5. Accounted
  BY DEF Accounted
<1> QED BY <1>1, <1>2, <1>3, <1>4, <1>5 DEF ServerInv

-----------------------------------------------------------------------------
(* The request handlers. *)

LEMMA HandleTypeOK ==
  ASSUME ServerInv, NEW r \in Requests, Handle(r)
  PROVE  TypeOK'
<1> USE ServerAssumption
    DEF ServerInv, TypeOK, poolVars, reloadVars, stageVars, histVars
<1>1. CASE Accept(r)
  BY <1>1 DEF Accept
<1>2. CASE BodyRead(r)
  BY <1>2 DEF BodyRead, Ends, Acquires
<1>3. CASE StartEnds(r)
  BY <1>3 DEF StartEnds, Settles
<1>4. CASE AcquireFails(r)
  BY <1>4 DEF AcquireFails, Settles, Ends, NoState
<1>5. CASE InvokeEnds(r)
  BY <1>5 DEF InvokeEnds, Released, Ends, Acquires
<1>6. ASSUME NEW c \in Containers, GetsWarm(r, c) PROVE TypeOK'
  BY <1>6 DEF GetsWarm, Leased
<1>7. ASSUME NEW c \in Containers, Starts(r, c) PROVE TypeOK'
  BY <1>7 DEF Starts, Leased
<1> QED BY <1>1, <1>2, <1>3, <1>4, <1>5, <1>6, <1>7 DEF Handle

LEMMA ReloadsUntouched ==
  ASSUME Chained, UNCHANGED reloadVars
  PROVE  Chained'
  BY DEF Chained, Fresh, ChainFree, reloadVars

LEMMA HandleGenerations ==
  ASSUME ServerInv, stage # "exited", NEW r \in Requests, Handle(r)
  PROVE  Generations'
<1> USE ServerAssumption
    DEF ServerInv, TypeOK, Generations, docker, poolVars, reloadVars, stageVars,
        States, NoState
<1>1. CASE Accept(r)
  BY <1>1 DEF Accept
<1>2. CASE BodyRead(r)
  BY <1>2 DEF BodyRead
<1>3. CASE StartEnds(r)
  BY <1>3 DEF StartEnds
<1>4. CASE AcquireFails(r)
  BY <1>4 DEF AcquireFails
<1>5. CASE InvokeEnds(r)
  BY <1>5 DEF InvokeEnds
<1>6. ASSUME NEW c \in Containers, GetsWarm(r, c) PROVE Generations'
  BY <1>6 DEF GetsWarm
<1>7. ASSUME NEW c \in Containers, Starts(r, c) PROVE Generations'
  BY <1>7 DEF Starts
<1> QED BY <1>1, <1>2, <1>3, <1>4, <1>5, <1>6, <1>7 DEF Handle

LEMMA HandleLending ==
  ASSUME ServerInv, NEW r \in Requests, Handle(r)
  PROVE  Lending'
<1> USE ServerAssumption
    DEF ServerInv, TypeOK, Lending, Registered, poolVars, reloadVars, stageVars,
        histVars
<1>1. CASE Accept(r)
  BY <1>1 DEF Accept
<1>2. CASE BodyRead(r)
  BY <1>2 DEF BodyRead, Ends, Acquires
<1>3. CASE StartEnds(r)
  BY <1>3 DEF StartEnds, Settles
<1>4. CASE AcquireFails(r)
  BY <1>4 DEF AcquireFails, Settles, Ends
<1>5. CASE InvokeEnds(r)
  BY <1>5 DEF InvokeEnds, Released, Ends, Acquires
<1>6. ASSUME NEW c \in Containers, GetsWarm(r, c) PROVE Lending'
  BY <1>6 DEF GetsWarm
<1>7. ASSUME NEW c \in Containers, Starts(r, c) PROVE Lending'
  BY <1>7 DEF Starts, docker, Leased, NoState, States
<1> QED BY <1>1, <1>2, <1>3, <1>4, <1>5, <1>6, <1>7 DEF Handle

LEMMA HandleAccounted ==
  ASSUME ServerInv, NEW r \in Requests, Handle(r)
  PROVE  Accounted'
<1> USE ServerAssumption
    DEF ServerInv, TypeOK, Lending, Accounted, docker, poolVars, reloadVars,
        stageVars, histVars, NoState, States
<1>1. CASE Accept(r)
  BY <1>1 DEF Accept
<1>2. CASE BodyRead(r)
  BY <1>2 DEF BodyRead
<1>3. CASE StartEnds(r)
  BY <1>3 DEF StartEnds, Settles
<1>4. CASE AcquireFails(r)
  <2>1. /\ UNCHANGED <<pool, strays>>
        /\ lease' = [lease EXCEPT ![r] = NoContainer]
        /\ owner' = [c \in Containers |-> IF c = lease[r] THEN NoState
                                                         ELSE owner[c]]
        /\ settling' = [g \in States |-> settling[g] \ {r}]
        /\ \A g \in States : doomed'[g] = doomed[g]
    BY <1>4 DEF AcquireFails, Settles
  <2>2. ASSUME NEW c \in docker'
        PROVE  c \in docker /\ owner'[c] = owner[c] /\ c # lease[r]
    BY <2>1
  <2>3. ASSUME NEW c \in docker', pool[owner[c]] = "settling"
        PROVE  \/ c \in doomed'[owner[c]] \union strays
               \/ \E s \in settling'[owner[c]] : lease'[s] = c
    <3>1. owner[c] \in States /\ c \in docker /\ c # lease[r]
      BY <2>2
    <3>2. CASE c \in doomed[owner[c]] \union strays
      BY <2>1, <3>1, <3>2
    <3>3. ASSUME NEW s \in settling[owner[c]], lease[s] = c
          PROVE  s \in settling'[owner[c]] /\ lease'[s] = c
      BY <2>1, <3>1, <3>3
    <3> QED BY <2>3, <3>1, <3>2, <3>3
  <2>4. ASSUME NEW c \in docker', pool[owner[c]] = "closed"
        PROVE  c \in strays
    BY <2>2, <2>4
  <2>5. ASSUME NEW c \in docker'
        PROVE  /\ pool'[owner'[c]] = "settling" =>
                    \/ c \in doomed'[owner'[c]] \union strays'
                    \/ \E s \in settling'[owner'[c]] : lease'[s] = c
               /\ pool'[owner'[c]] = "closed" => c \in strays'
    <3>1. owner'[c] = owner[c] /\ pool' = pool /\ strays' = strays
      BY <2>1, <2>2
    <3> HIDE DEF docker
    <3> QED BY <2>3, <2>4, <3>1
  <2> QED BY <2>5
<1>5. CASE InvokeEnds(r)
  <2>1. /\ UNCHANGED <<owner, pool, settling, doomed, strays>>
        /\ lease' = [lease EXCEPT ![r] = NoContainer]
        /\ phase[r] = "invoking"
    BY <1>5 DEF InvokeEnds, Released
  <2>2. \A g \in States : \A s \in settling[g] : lease'[s] = lease[s]
    BY <2>1
  <2>3. \A c \in docker : owner[c] \in States
    OBVIOUS
  <2> QED BY <2>1, <2>2, <2>3
<1>6. ASSUME NEW c \in Containers, GetsWarm(r, c) PROVE Accounted'
  BY <1>6 DEF GetsWarm
<1>7. ASSUME NEW c \in Containers, Starts(r, c) PROVE Accounted'
  BY <1>7 DEF Starts, Registered
<1> QED BY <1>1, <1>2, <1>3, <1>4, <1>5, <1>6, <1>7 DEF Handle

-----------------------------------------------------------------------------
(* dispose(). *)

LEMMA DisposeTypeOK ==
  ASSUME ServerInv, NEW g \in States, DisposeStep(g)
  PROVE  TypeOK'
<1> USE ServerAssumption
    DEF ServerInv, TypeOK, reqVars, reloadVars, stageVars, docker
<1>1. CASE Harvest(g)
  BY <1>1 DEF Harvest, InFlightStarts
<1>2. CASE Remove(g)
  <2>1. \A r \in settling[g] : lease[r] \in Containers
    BY <1>2 DEF Lending
  <2> QED BY <1>2, <2>1 DEF Remove, NoState
<1> QED BY <1>1, <1>2 DEF DisposeStep

LEMMA DisposeGenerations ==
  ASSUME ServerInv, stage # "exited", NEW g \in States, DisposeStep(g)
  PROVE  Generations'
<1> USE ServerAssumption
    DEF ServerInv, TypeOK, Generations, docker, reqVars, reloadVars, stageVars
<1>1. CASE Harvest(g)
  BY <1>1 DEF Harvest
<1>2. CASE Remove(g)
  BY <1>2 DEF Remove
<1> QED BY <1>1, <1>2 DEF DisposeStep

LEMMA DisposeLending ==
  ASSUME ServerInv, NEW g \in States, DisposeStep(g)
  PROVE  Lending'
<1> USE ServerAssumption
    DEF ServerInv, TypeOK, Lending, Registered, reqVars, docker
<1>1. CASE Harvest(g)
  BY <1>1 DEF Harvest, InFlightStarts, Undrained
<1>2. CASE Remove(g)
  BY <1>2 DEF Remove
<1> QED BY <1>1, <1>2 DEF DisposeStep

LEMMA DisposeAccounted ==
  ASSUME ServerInv, NEW g \in States, DisposeStep(g)
  PROVE  Accounted'
<1> USE ServerAssumption
    DEF ServerInv, TypeOK, Lending, Accounted, reqVars, docker
<1>1. CASE Harvest(g)
  BY <1>1 DEF Harvest, InFlightStarts
<1>2. CASE Remove(g)
  BY <1>2 DEF Remove
<1> QED BY <1>1, <1>2 DEF DisposeStep

-----------------------------------------------------------------------------
(* Reloads and the shutdown. *)

LEMMA Earlier == \A k \in Reloads : 1 .. (k - 1) = {j \in Reloads : j < k}
  BY ServerAssumption DEF Reloads

(* The chain is free for a reload when all the earlier ones are over.        *)
LEMMA ChainMeans ==
  ASSUME NEW k \in Reloads
  PROVE  /\ ChainFree(k) <=>
              \A j \in Reloads : j < k => reload[j] \in {"swapped", "failed"}
         /\ ChainFree(k)' <=>
              \A j \in Reloads : j < k => reload'[j] \in {"swapped", "failed"}
<1>1. \A j : j \in 1 .. (k - 1) <=> j \in Reloads /\ j < k
  BY Earlier
<1> QED BY <1>1 DEF ChainFree

(* A reload that runs is preceded by reloads that are over.                  *)
LEMMA ReloadChained ==
  ASSUME ServerInv, NEW k \in Reloads, ReloadStep(k)
  PROVE  Chained'
<1>1. /\ current \in Nat /\ Reloads \subseteq Nat /\ fired \in Nat
      /\ source \in Nat /\ noticed \in Nat
      /\ k \in DOMAIN reload /\ k \in DOMAIN material /\ DOMAIN reload = Reloads
      /\ \A j \in Reloads : j <= MaxReloads /\ j > 0
      /\ fired <= MaxReloads
      /\ DOMAIN material = Reloads
  BY ServerAssumption DEF ServerInv, TypeOK, Reloads, States
<1>2. Chained
  BY DEF ServerInv
<1>3. ChainFree(k) /\ k <= fired /\ reload[k] \in {"none", "building"}
  <2>1. CASE Synthesize(k)
    BY <2>1 DEF Synthesize
  <2>2. CASE reload[k] = "building"
    <3>1. ChainFree(k)
      BY <1>2, <2>2 DEF Chained
    <3>2. ~ (k > fired)
      BY <1>2, <2>2 DEF Chained
    <3>3. k \in Nat
      BY <1>1
    <3> QED BY <1>1, <2>2, <3>1, <3>2, <3>3
  <2> QED BY <2>1, <2>2 DEF ReloadStep, SynthFails, Swap
<1>4. /\ \A j \in Reloads : j < k => reload[j] \in {"swapped", "failed"}
      /\ \A j \in Reloads : j > k => reload[j] = "none"
      /\ current < k
  BY <1>1, <1>2, <1>3, ChainMeans DEF Chained
<1>5. /\ \A j \in Reloads \ {k} : /\ reload'[j] = reload[j]
                                 /\ material'[j] = material[j]
      /\ UNCHANGED <<source, fired, noticed>>
  BY <1>1 DEF ReloadStep, Synthesize, SynthFails, Swap
<1>6. \A j \in Reloads : reload'[j] # "none" => ChainFree(j)'
  BY <1>1, <1>2, <1>4, <1>5, ChainMeans DEF Chained
<1>7. ASSUME NEW j \in Reloads, reload'[j] \in {"none", "building"}, ChainFree(j)'
      PROVE  k <= j
  BY <1>1, <1>4, <1>5, <1>7
<1>8. fired \in Reloads
  BY <1>1, <1>3 DEF Reloads
<1>9. CASE Synthesize(k)
  <2>1. /\ reload'[k] = "building" /\ material'[k] = source
        /\ current' = current /\ served' = served
    BY <1>1, <1>9 DEF Synthesize
  <2>2. fired > 0 /\ reload'[fired] = "building" => material'[fired] >= noticed
    BY <1>1, <1>2, <1>3, <1>4, <1>5, <1>8, <2>1 DEF Chained
  <2>3. fired > 0 /\ reload'[fired] = "swapped" => served >= noticed
    BY <1>2, <1>5, <1>8, <2>1 DEF Chained, Fresh
  <2>4. \A j \in Reloads :
          reload'[j] \in {"none", "building"} /\ ChainFree(j)' => current' < j
    BY <1>1, <1>4, <1>7, <2>1
  <2>5. \A j \in Reloads : j > fired => reload'[j] = "none"
    BY <1>1, <1>3, <1>4, <1>5
  <2> QED BY <1>2, <1>5, <1>6, <2>1, <2>2, <2>3, <2>4, <2>5 DEF Chained, Fresh
<1>10. CASE SynthFails(k)
  <2>1. /\ reload'[k] = "failed"
        /\ current' = current /\ served' = served
    BY <1>1, <1>10 DEF SynthFails
  <2>2. fired > 0 /\ reload'[fired] = "building" => material'[fired] >= noticed
    BY <1>2, <1>5, <1>8, <2>1 DEF Chained
  <2>3. fired > 0 /\ reload'[fired] = "swapped" => served >= noticed
    BY <1>2, <1>5, <1>8, <2>1 DEF Chained, Fresh
  <2>4. \A j \in Reloads :
          reload'[j] \in {"none", "building"} /\ ChainFree(j)' => current' < j
    BY <1>1, <1>4, <1>7, <2>1
  <2>5. \A j \in Reloads : j > fired => reload'[j] = "none"
    BY <1>1, <1>3, <1>4, <1>5
  <2> QED BY <1>2, <1>5, <1>6, <2>1, <2>2, <2>3, <2>4, <2>5 DEF Chained, Fresh
<1>11. CASE Swap(k)
  <2>1. /\ reload'[k] = "swapped" /\ reload[k] = "building"
        /\ current' = current + 1 /\ served' = material[k]
    BY <1>1, <1>11 DEF Swap
  <2>2. fired = k \/ reload[fired] = "none"
    BY <1>1, <1>3, <1>4, <1>8
  <2>3. fired > 0 /\ reload'[fired] = "building" => material'[fired] >= noticed
    BY <1>5, <1>8, <2>1, <2>2
  <2>4. fired > 0 /\ reload'[fired] = "swapped" => served' >= noticed
    BY <1>2, <1>5, <1>8, <2>1, <2>2 DEF Chained
  <2>5. \A j \in Reloads :
          reload'[j] \in {"none", "building"} /\ ChainFree(j)' => current' < j
    <3>1. ASSUME NEW j \in Reloads, k <= j, j # k PROVE current' < j
      BY <1>1, <1>4, <2>1, <3>1
    <3> QED BY <1>7, <2>1, <3>1
  <2>6. \A j \in Reloads : j > fired => reload'[j] = "none"
    BY <1>1, <1>3, <1>4, <1>5
  <2> QED BY <1>2, <1>5, <1>6, <2>3, <2>4, <2>5, <2>6 DEF Chained, Fresh
<1> QED BY <1>9, <1>10, <1>11 DEF ReloadStep

(* A state that a reload installs is within the bound.                       *)
LEMMA NextState ==
  ASSUME ServerInv, NEW k \in Reloads, reload[k] = "building"
  PROVE  current + 1 \in States /\ current < k
  BY ServerAssumption DEF ServerInv, TypeOK, Chained, Reloads, States

LEMMA ReloadTypeOK ==
  ASSUME ServerInv, NEW k \in Reloads, ReloadStep(k)
  PROVE  TypeOK'
<1> USE ServerAssumption
    DEF ServerInv, TypeOK, reqVars, poolVars, stageVars, histVars
<1>1. CASE Synthesize(k)
  BY <1>1 DEF Synthesize
<1>2. CASE SynthFails(k)
  BY <1>2 DEF SynthFails, States
<1>3. CASE Swap(k)
  <2>1. current' \in States
    BY <1>3, NextState DEF Swap
  <2>2. /\ pool' \in [States -> {"none", "open", "draining", "settling", "closed"}]
        /\ drain' \in [States -> SUBSET Requests]
    BY <1>3 DEF Swap, Disposing, BeginDispose
  <2>3. material' \in [Reloads -> States] /\ served' \in States
    BY <1>3 DEF Swap, States
  <2> QED BY <1>3, <2>1, <2>2, <2>3 DEF Swap
<1> QED BY <1>1, <1>2, <1>3 DEF ReloadStep

LEMMA ReloadKeepsPools ==
  ASSUME ServerInv, stage # "exited", NEW k \in Reloads, ReloadStep(k)
  PROVE  Generations' /\ Lending' /\ Accounted'
<1> USE ServerAssumption
<1>1. CASE Synthesize(k) \/ SynthFails(k)
  BY <1>1
  DEF Synthesize, SynthFails, ServerInv, Generations, Lending, Accounted,
      docker, Registered, reqVars, poolVars, stageVars, histVars
<1>2. CASE Swap(k)
  <2>1. /\ current' = current + 1
        /\ pool' = [pool EXCEPT ![current] = Disposing(current),
                                ![current + 1] = "open"]
        /\ drain' = [drain EXCEPT ![current] =
             IF pool[current] = "open"
             THEN {r \in Requests : snapshot[r] = current /\ phase[r] = "invoking"}
             ELSE @]
        /\ UNCHANGED <<reqVars, owner, settling, doomed, stageVars, histVars>>
    BY <1>2 DEF Swap, BeginDispose
  <2>2. /\ current \in Nat /\ current \in States /\ current + 1 \in States
        /\ pool[current] # "none" /\ pool[current + 1] = "none"
    BY <1>2, NextState DEF Swap, ServerInv, TypeOK, Generations, States
  <2>3. /\ \A g \in States \ {current, current + 1} : pool'[g] = pool[g]
        /\ pool'[current + 1] = "open"
        /\ pool'[current] = IF pool[current] = "open" THEN "draining"
                            ELSE pool[current]
    BY <2>1, <2>2 DEF Disposing, ServerInv, TypeOK
  <2>4. Generations'
    <3>1. current' = current + 1 /\ UNCHANGED <<snapshot, owner, stage, last>>
      BY <2>1 DEF reqVars, stageVars
    <3>2. ASSUME NEW g \in States
          PROVE  /\ pool'[g] = "none" <=> g > current'
                 /\ g < current' => pool'[g] # "open"
      BY <2>2, <2>3, <3>1 DEF ServerInv, TypeOK, Generations, States
    <3>3. /\ \A r \in Requests : snapshot[r] \in Nat
          /\ \A c \in docker : owner[c] \in Nat
          /\ last # NoState => last \in Nat
      BY DEF ServerInv, TypeOK, docker, States
    <3> QED
      BY <2>2, <3>1, <3>2, <3>3 DEF ServerInv, Generations, docker
  <2>5. \A g \in States :
          /\ pool'[g] = "settling" <=> pool[g] = "settling"
          /\ pool'[g] = "closed" <=> pool[g] = "closed"
    BY <2>2, <2>3
  <2>6. \A r \in Requests :
          /\ snapshot[r] # current + 1
          /\ Registered(snapshot[r])' <=> Registered(snapshot[r])
    BY <2>1, <2>2, <2>3
    DEF ServerInv, TypeOK, Generations, Registered, reqVars, States
  <2>7. \A g \in States : pool[g] \in {"settling", "closed"} => drain'[g] = drain[g]
    BY <2>1, <2>2 DEF ServerInv, TypeOK
  <2>8. Lending'
    BY <2>1, <2>5, <2>6, <2>7
    DEF ServerInv, TypeOK, Lending, reqVars, histVars
  <2>9. Accounted'
    BY <2>1, <2>5
    DEF ServerInv, TypeOK, Accounted, docker, reqVars, histVars
  <2> QED BY <2>4, <2>8, <2>9
<1> QED BY <1>1, <1>2 DEF ReloadStep

(* The watcher's and the shutdown's steps.                                   *)
LEMMA CommandTypeOK ==
  ASSUME ServerInv,
         Edit \/ OnChange \/ Signal \/ ShutdownStep
  PROVE  TypeOK'
<1> USE ServerAssumption
    DEF ServerInv, TypeOK, reqVars, poolVars, reloadVars, histVars
<1>1. CASE Edit
  BY <1>1 DEF Edit, States, stageVars
<1>2. CASE OnChange
  BY <1>2 DEF OnChange, Chained, States, stageVars
<1>3. CASE Signal \/ CloseListener \/ Exit
  BY <1>3 DEF Signal, CloseListener, Exit
<1>4. CASE DisposeCurrent
  BY <1>4 DEF DisposeCurrent, FinalState, Disposing, BeginDispose
<1> QED BY <1>1, <1>2, <1>3, <1>4 DEF ShutdownStep

LEMMA CommandChained ==
  ASSUME ServerInv,
         Edit \/ OnChange \/ Signal \/ ShutdownStep
  PROVE  Chained'
<1> USE ServerAssumption DEF ServerInv
<1>1. CASE Edit
  BY <1>1 DEF Edit, TypeOK, Chained, Fresh, ChainFree, States
<1>2. CASE OnChange
  BY <1>2 DEF OnChange, TypeOK, Chained, Fresh, ChainFree, States, Reloads
<1>3. CASE Signal \/ ShutdownStep
  BY <1>3, ReloadsUntouched
  DEF Signal, ShutdownStep, CloseListener, DisposeCurrent, Exit
<1> QED BY <1>1, <1>2, <1>3

LEMMA CommandKeepsPools ==
  ASSUME ServerInv, stage # "exited",
         Edit \/ OnChange \/ Signal \/ ShutdownStep
  PROVE  Generations' /\ Lending' /\ Accounted'
<1> USE ServerAssumption DEF ServerInv
<1>1. CASE Edit \/ OnChange
  BY <1>1
  DEF Edit, OnChange, Generations, Lending, Accounted, docker, Registered,
      reqVars, poolVars, stageVars, histVars
<1>2. CASE Signal \/ CloseListener \/ Exit
  <2>1. UNCHANGED <<reqVars, poolVars, reloadVars, last, histVars>>
    BY <1>2 DEF Signal, CloseListener, Exit
  <2>2. Generations'
    BY <1>2, <2>1
    DEF Signal, CloseListener, Exit, Generations, docker, reqVars, poolVars,
        reloadVars
  <2>3. Lending' /\ Accounted'
    BY <2>1 DEF Lending, Accounted, docker, Registered, reqVars, poolVars, histVars
  <2> QED BY <2>2, <2>3
<1>3. CASE DisposeCurrent
  <2>1. /\ last' = current /\ stage' = "disposing"
        /\ pool' = [pool EXCEPT ![current] = Disposing(current)]
        /\ drain' = [drain EXCEPT ![current] =
             IF pool[current] = "open"
             THEN {r \in Requests : snapshot[r] = current /\ phase[r] = "invoking"}
             ELSE @]
        /\ UNCHANGED <<reqVars, owner, settling, doomed, reloadVars, histVars>>
    BY <1>3 DEF DisposeCurrent, FinalState, BeginDispose
  <2>2. current \in States /\ current # NoState /\ pool[current] # "none"
    BY DEF TypeOK, Generations, States, NoState
  <2>3. /\ \A g \in States \ {current} : pool'[g] = pool[g]
        /\ pool'[current] = IF pool[current] = "open" THEN "draining"
                            ELSE pool[current]
    BY <2>1, <2>2 DEF Disposing, TypeOK
  <2>4. Generations'
    BY <2>1, <2>2, <2>3
    DEF TypeOK, Generations, docker, reqVars, reloadVars, States
  <2>5. \A g \in States :
          /\ pool'[g] = "settling" <=> pool[g] = "settling"
          /\ pool'[g] = "closed" <=> pool[g] = "closed"
          /\ pool'[g] \in {"open", "draining"} <=> pool[g] \in {"open", "draining"}
    BY <2>2, <2>3
  <2>6. \A g \in States : pool[g] \in {"settling", "closed"} => drain'[g] = drain[g]
    BY <2>1, <2>2 DEF TypeOK
  <2>7. Lending'
    BY <2>1, <2>5, <2>6 DEF TypeOK, Lending, Registered, reqVars, histVars
  <2>8. Accounted'
    BY <2>1, <2>5 DEF TypeOK, Accounted, docker, reqVars, histVars
  <2> QED BY <2>4, <2>7, <2>8
<1> QED BY <1>1, <1>2, <1>3 DEF ShutdownStep

-----------------------------------------------------------------------------

LEMMA NextServerInv == ServerInv /\ [Next]_vars => ServerInv'
<1> SUFFICES ASSUME ServerInv, [Next]_vars PROVE ServerInv'
  OBVIOUS
<1>1. CASE UNCHANGED vars
  BY <1>1
  DEF ServerInv, TypeOK, Chained, Fresh, ChainFree, Generations, Lending,
      Accounted, docker, Registered, vars, reqVars, poolVars, reloadVars,
      stageVars, histVars
<1>2. ASSUME stage # "exited", NEW r \in Requests, Handle(r) PROVE ServerInv'
  <2>1. UNCHANGED reloadVars
    BY <1>2 DEF Handle, Accept, BodyRead, StartEnds, AcquireFails, InvokeEnds,
                GetsWarm, Starts
  <2> QED
    BY <1>2, <2>1, HandleTypeOK, ReloadsUntouched, HandleGenerations,
       HandleLending, HandleAccounted
    DEF ServerInv
<1>3. ASSUME stage # "exited", NEW g \in States, DisposeStep(g) PROVE ServerInv'
  <2>1. UNCHANGED reloadVars
    BY <1>3 DEF DisposeStep, Harvest, Remove
  <2> QED
    BY <1>3, <2>1, DisposeTypeOK, ReloadsUntouched, DisposeGenerations,
       DisposeLending, DisposeAccounted
    DEF ServerInv
<1>4. ASSUME stage # "exited", NEW k \in Reloads, ReloadStep(k) PROVE ServerInv'
  BY <1>4, ReloadTypeOK, ReloadChained, ReloadKeepsPools DEF ServerInv
<1>5. ASSUME stage # "exited", Edit \/ OnChange \/ Signal \/ ShutdownStep
      PROVE  ServerInv'
  BY <1>5, CommandTypeOK, CommandChained, CommandKeepsPools DEF ServerInv
<1>6. CASE Next
  BY <1>2, <1>3, <1>4, <1>5, <1>6 DEF Next
<1> QED BY <1>1, <1>6

LEMMA ServerInvariant == Spec => []ServerInv
  BY InitServerInv, NextServerInv, PTL DEF Spec

(* The server's state keeps its shape, a handler has a container exactly     *)
(* while it starts or invokes one, and no two handlers have the same.        *)
THEOREM ServerTypeCorrect == Spec => []TypeOK
  BY ServerInvariant, PTL DEF ServerInv

(* A container that a request has borrowed runs, in the pool of the state    *)
(* the request was accepted with, until that pool is disposed; and beyond,   *)
(* until it is given back, unless the drain times out.                       *)
THEOREM ServerHonoursLeases == Spec => []LeaseHonoured
<1>1. ServerInv => LeaseHonoured
  <2> SUFFICES ASSUME ServerInv, NEW r \in Requests, phase[r] = "invoking",
                      \/ pool[snapshot[r]] = "open"
                      \/ r \in drain[snapshot[r]] /\ snapshot[r] \notin timedOut
               PROVE  owner[lease[r]] = snapshot[r]
    BY DEF LeaseHonoured
  <2>1. /\ snapshot[r] \in States /\ pool[snapshot[r]] # "none"
        /\ pool[snapshot[r]] \in {"none", "open", "draining", "settling", "closed"}
    BY ServerAssumption DEF ServerInv, TypeOK, Generations, States
  <2>2. Registered(snapshot[r])
    BY <2>1 DEF ServerInv, Lending, Registered
  <2> QED BY <2>2 DEF ServerInv, Lending
<1> QED BY <1>1, ServerInvariant, PTL

(* However many pools the reloads leave behind, a disposed one leaves only   *)
(* containers started too late for its dispose(), and so does the command.   *)
THEOREM ServerForgetsNothing == Spec => []NoOrphan
<1>1. ServerInv => NoOrphan
  BY ServerAssumption
  DEF ServerInv, TypeOK, Generations, Accounted, docker, NoOrphan, States, NoState
<1> QED BY <1>1, ServerInvariant, PTL

(* Reloads that overlap in time do not overtake each other: after the last   *)
(* one the server serves what the watcher last saw, or newer.                *)
THEOREM ServerFresh == Spec => []Fresh
  BY ServerInvariant, PTL DEF ServerInv, Chained
=============================================================================
