---------------------------- MODULE SharedProofs ----------------------------
(***************************************************************************)
(* What is shared lasts as long as those it is for, nobody is let through  *)
(* unproven, and what studio lists it can still answer for: the invariants *)
(* of Shared, for any numbers of runs, requests, clients, replicas,        *)
(* targets and serves.  One section per component, then the composition.   *)
(***************************************************************************)
EXTENDS Shared, FiniteSetTheorems, SequenceTheorems, TLAPS

-----------------------------------------------------------------------------
(* The networks of concurrent runs.                                        *)

(* A sweep holds the network of a run that has ended, whatever it does with *)
(* it; a sidecar stands in its network.                                    *)
Steps ==
  {"off", "next", "attached", "owner", "reclaim", "network", "create", "sidecar", "up", "role",
   "down", "rm", "done", "failed", "dead"}
NetworkTypes ==
  /\ N!TypeOK
  /\ at \in [Runs -> Steps]
  /\ \A r \in Runs : at[r] \in {"attached", "owner", "reclaim", "network"} => name[r] \in Runs

NetworksKept ==
  /\ N!LiveKept
  /\ \A r \in Runs : at[r] \in {"reclaim", "network"} => ~N!Running(name[r])
  /\ \A n \in sidecar : subnet[n] # Nothing

(* Of what docker listed to a sweep, each orphan is gone or still ahead.   *)
Sweeping == {"next", "attached", "owner", "reclaim", "network"}
Gone(n) == subnet[n] = Nothing /\ n \notin sidecar
Ahead(r, n) ==
  /\ at[r] \in Sweeping
  /\ \/ n \in names[r]
     \/ at[r] # "next" /\ name[r] = n /\ (at[r] = "network" => n \notin sidecar)

OrphansAhead ==
  \A r \in Runs : \A n \in listed[r] :
    /\ ~N!Running(n) /\ n \notin netReplicas
    /\ HostOf[n] = HostOf[r] => Gone(n) \/ Ahead(r, n) \/ at[r] \in N!Ended

NetworkInv == NetworkTypes /\ NetworksKept /\ OrphansAhead

LEMMA NetworkConstants == N!SvcNetworksAssumption
BY SharedAssumption DEF SharedAssumption

LEMMA NetworkInit == ASSUME N!Init PROVE NetworkInv
<1> USE NetworkConstants DEF N!SvcNetworksAssumption, N!Init
<1>1. N!TypeOK
  BY DEF N!TypeOK
<1>2. NetworkTypes
  BY <1>1 DEF NetworkTypes, Steps
<1>3. NetworksKept
  BY DEF NetworksKept, N!LiveKept
<1>4. OrphansAhead
  BY DEF OrphansAhead
<1> QED BY <1>2, <1>3, <1>4 DEF NetworkInv

LEMMA SweepsKeep ==
  ASSUME NetworkInv, NEW r \in Runs, N!Sweeps(r)
  PROVE  NetworkInv'
<1> USE NetworkConstants
    DEF N!SvcNetworksAssumption, NetworkInv, NetworkTypes, NetworksKept, OrphansAhead, Steps,
        N!TypeOK,
        N!LiveKept, N!Running, N!Ended, N!Goes, N!KeepsDocker, N!dockerVars, Sweeping, Gone, Ahead
<1>1. CASE N!ListNetworks(r)
  BY <1>1 DEF N!ListNetworks, N!Networks, N!Orphans
<1>2. CASE N!NextName(r)
  BY <1>2 DEF N!NextName
<1>3. CASE N!InspectAttached(r)
  BY <1>3 DEF N!InspectAttached, N!Networks
<1>4. CASE N!InspectOwner(r)
  BY <1>4 DEF N!InspectOwner, N!Networks, N!OwnerIsAlive
<1>5. CASE N!ReclaimSidecar(r)
  BY <1>5 DEF N!ReclaimSidecar
<1>6. CASE N!ReclaimNetwork(r)
  BY <1>6 DEF N!ReclaimNetwork, N!DestroyNetworkOnly
<1> QED BY <1>1, <1>2, <1>3, <1>4, <1>5, <1>6 DEF N!Sweeps

LEMMA RunsKeep ==
  ASSUME NetworkInv, NEW r \in Runs, N!Creates(r) \/ N!Serves(r) \/ N!Ends(r) \/ N!Dies(r)
  PROVE  NetworkInv'
<1> USE NetworkConstants
    DEF N!SvcNetworksAssumption, NetworkInv, NetworkTypes, NetworksKept, OrphansAhead, Steps,
        N!TypeOK,
        N!LiveKept, N!Running, N!Ended, N!Goes, N!KeepsDocker, N!dockerVars, N!runVars, Sweeping,
        Gone, Ahead
<1>1. CASE N!CreateNetwork(r)
  <2> USE <1>1 DEF N!CreateNetwork
  <2>1. NetworkTypes'
    <3>1. at' \in [Runs -> Steps]
      OBVIOUS
    <3>2. octet' \in [Runs -> 0 .. Octets]
      <4>1. octet[r] # Octets => octet[r] + 1 \in 0 .. Octets
        OBVIOUS
      <4> QED BY <4>1
    <3>3. subnet' \in [Runs -> (0 .. Octets) \cup {Nothing}]
      OBVIOUS
    <3> QED BY <3>1, <3>2, <3>3
  <2>2. NetworksKept'
    OBVIOUS
  <2>3. OrphansAhead'
    OBVIOUS
  <2> QED BY <2>1, <2>2, <2>3
<1>2. CASE N!StartSidecar(r)
  BY <1>2 DEF N!StartSidecar
<1>3. CASE N!SidecarFails(r)
  BY <1>3 DEF N!SidecarFails, N!DestroyNetworkOnly
<1>4. CASE N!ReplaceSidecar(r)
  BY <1>4 DEF N!ReplaceSidecar
<1>5. CASE N!ServeTaskRole(r)
  BY <1>5 DEF N!ServeTaskRole
<1>6. CASE N!Attach(r)
  BY <1>6 DEF N!Attach
<1>7. CASE N!Teardown(r)
  BY <1>7 DEF N!Teardown
<1>8. CASE N!DestroySidecar(r)
  BY <1>8 DEF N!DestroySidecar
<1>9. CASE N!DestroyNetwork(r)
  BY <1>9 DEF N!DestroyNetwork, N!DestroyNetworkOnly
<1>10. CASE N!Dies(r)
  BY <1>10 DEF N!Dies
<1> QED BY <1>1, <1>2, <1>3, <1>4, <1>5, <1>6, <1>7, <1>8, <1>9, <1>10
        DEF N!Creates, N!Serves, N!Ends

LEMMA NetworkSafety == ASSUME NetworkInv PROVE N!LiveKept /\ N!OrphansReclaimed
BY DEF NetworkInv, NetworkTypes, NetworksKept, OrphansAhead, N!OrphansReclaimed, N!Ended,
    Sweeping,
       Gone, Ahead

LEMMA NetworkStep == ASSUME NetworkInv, [N!Next]_N!vars PROVE NetworkInv'
<1>1. CASE N!Next
  BY <1>1, SweepsKeep, RunsKeep DEF N!Next
<1>2. CASE UNCHANGED N!vars
  BY <1>2 DEF N!vars, N!runVars, N!dockerVars, NetworkInv, NetworkTypes, NetworksKept,
      OrphansAhead,
              N!TypeOK, N!LiveKept, N!Running, Gone, Ahead
<1> QED BY <1>1, <1>2

-----------------------------------------------------------------------------
(* The serves of studio.                                                   *)

(* The serves of a target begin one after the other, and the one that is   *)
(* tracked is the last; a pending start() is that of the tracked serve.    *)
ServesInOrder ==
  \A s \in S!Serves :
    /\ status[s] # "none" => \A r \in S!Serves : r < s => status[r] # "none"
    /\ S!Tracked(s) => \A r \in S!Serves : r > s => status[r] = "none"
    /\ S!Booting(s) => S!Tracked(s)
    /\ S!Tracked(s) /\ s \in settled => status[s] = "running"

(* What has become of a serve that is not tracked.                         *)
ServesEnd ==
  \A s \in S!Serves :
    /\ status[s] = "none" =>
         child[s] = "none" /\ s \notin settled /\ s \notin stopping /\ stop[s] = "none"
    /\ status[s] = "error" => s \in settled /\ s \notin stopping
    /\ stop[s] # "none" => s \in stopping
    /\ stop[s] \in {"released", "done"} => child[s] \in {"exited", "closed"}
    /\ s \in stopping => child[s] # "none"
    /\ s \in settled /\ ~S!Tracked(s) /\ s \notin stopping =>
         status[s] = "error" \/ (status[s] = "stopped" /\ child[s] = "closed")

(* A startup that binds stands in its slot, or is to be closed, or has lost *)
(* its slot; none is up for a serve that stop() has taken.                 *)
StartupsKept ==
  /\ doomed \subseteq S!Binding(proxy)
  /\ \A s \in S!Serves, u \in Upstreams : proxies[s][u] # Nothing =>
       /\ proxies[s][u] \notin doomed
       /\ S!Tracked(s) \/ s \in stopping \/ status[s] = "error"
  /\ \A p \in S!Binding(proxy) \ doomed :
       proxies[proxy[p].serve][proxy[p].upstream] = p \/ S!SlotLost(p)
  /\ \A p \in S!Proxies :
       /\ proxy[p].state # "none" =>
            /\ proxy[p].serve \in S!Serves /\ proxy[p].upstream \in Upstreams
            /\ child[proxy[p].serve] # "none"
       /\ proxy[p].state = "up" /\ proxy[p].serve \in stopping => S!SlotLost(p)

ShutdownWaits ==
  /\ swept \subseteq stopping
  /\ studio = "closed" => S!AllStopped

ServeInv ==
  /\ S!TypeOK /\ S!Listed /\ S!ProxiesReleased
  /\ ServesInOrder /\ ServesEnd /\ StartupsKept /\ ShutdownWaits

(* Slots and startups as the await of onReady() left them: a startup that is *)
(* up for the serve s may stand in its slot although s is no longer tracked. *)
Lost(px, p) ==
  \E q \in S!Proxies : /\ px[q].state = "failed" /\ px[q].serve = px[p].serve
                       /\ px[q].upstream = px[p].upstream
Startup ==
  [serve : S!Serves \cup {Nothing}, upstream : Upstreams \cup {Nothing},
   state : {"none", "binding", "up", "closed", "failed"}]
SlotsTyped(maps, px) ==
  /\ maps \in [S!Serves -> [Upstreams -> S!Proxies \cup {Nothing}]]
  /\ px \in [S!Proxies -> Startup]
  /\ \A s \in S!Serves, u \in Upstreams : maps[s][u] # Nothing =>
       LET p == px[maps[s][u]] IN p.serve = s /\ p.upstream = u /\ p.state \in {"binding", "up"}
RestTyped ==
  /\ entry \in S!Serves \cup {Nothing}
  /\ status \in [S!Serves -> {"none", "starting", "running", "stopped", "error"}]
  /\ settled \subseteq S!Serves /\ stopping \subseteq S!Serves /\ signalled \subseteq S!Serves
  /\ child \in [S!Serves -> {"none", "alive", "exited", "closed"}]
  /\ stop \in [S!Serves -> {"none", "waiting", "released", "done"}]
  /\ awaits \in [S!Serves -> SUBSET S!Proxies]
  /\ doomed \subseteq S!Proxies
  /\ published \in (S!Serves \cup {Nothing}) \X {"none", "starting", "running", "stopped", "error"}
  /\ studio \in {"up", "stopping", "closed"}
  /\ swept \subseteq S!Serves
Standing(s, maps, px) ==
  /\ SlotsTyped(maps, px)
  /\ \A r \in S!Serves, u \in Upstreams : maps[r][u] # Nothing =>
       /\ maps[r][u] \notin S!Binding(px) \cap doomed
       /\ S!Tracked(r) \/ r \in stopping \/ status[r] = "error"
  /\ \A p \in S!Binding(px) \ doomed :
       maps[px[p].serve][px[p].upstream] = p \/ Lost(px, p)
  /\ \A p \in S!Proxies : px[p].state # "none" =>
       /\ px[p].serve \in S!Serves /\ px[p].upstream \in Upstreams
       /\ child[px[p].serve] # "none"
  /\ \A p \in S!Proxies : px[p].state = "up" =>
       LET r == px[p].serve
           stands == maps[r][px[p].upstream] = p
       IN  /\ (stands /\ (S!Tracked(r) \/ r = s)) \/ S!Restarted(r) \/ Lost(px, p)
           /\ r \in stopping => (stands /\ r = s) \/ Lost(px, p)

LEMMA ServeConstants == S!ServeAssumption
BY SharedAssumption DEF SharedAssumption

LEMMA NothingIsNoStartup == Nothing \notin S!Proxies /\ Nothing \notin S!Serves
BY ServeConstants DEF S!ServeAssumption, S!Proxies, S!Serves

LEMMA TypesSplit == S!TypeOK <=> RestTyped /\ SlotsTyped(proxies, proxy)
BY DEF S!TypeOK, RestTyped, SlotsTyped, Startup

LEMMA TypesSplitNext == S!TypeOK' <=> RestTyped' /\ SlotsTyped(proxies', proxy')
BY DEF S!TypeOK, RestTyped, SlotsTyped, Startup

LEMMA SlotsClosed ==
  ASSUME NEW s \in S!Serves, NEW maps, NEW px, SlotsTyped(maps, px), doomed \subseteq S!Proxies,
         S!CloseProxies(s, maps, px)
  PROVE  SlotsTyped(proxies', proxy') /\ doomed' \subseteq S!Proxies
<1> USE ServeConstants DEF S!ServeAssumption, S!Serves, S!Proxies, S!CloseProxies, S!Held
<1>1. proxies' \in [S!Serves -> [Upstreams -> S!Proxies \cup {Nothing}]]
  BY DEF SlotsTyped
<1>2. ASSUME NEW p \in S!Proxies
      PROVE  /\ proxy'[p].serve = px[p].serve /\ proxy'[p].upstream = px[p].upstream
             /\ proxy'[p].state =
                  IF p \in S!Held(maps[s]) /\ px[p].state = "up" THEN "closed" ELSE px[p].state
             /\ proxy'[p] \in Startup
  <2>1. px[p] \in Startup
    BY DEF SlotsTyped
  <2>2. [px[p] EXCEPT !.state = "closed"] \in Startup
    BY <2>1 DEF Startup
  <2> QED BY <2>1, <2>2 DEF Startup
<1>3. proxy' \in [S!Proxies -> Startup]
  BY <1>2
<1>4. ASSUME NEW r \in S!Serves, NEW u \in Upstreams, proxies'[r][u] # Nothing
      PROVE  /\ r # s /\ proxies'[r][u] = maps[r][u] /\ maps[r][u] \in S!Proxies
             /\ maps[r][u] \notin S!Held(maps[s])
  BY <1>4 DEF SlotsTyped
<1> QED BY <1>1, <1>2, <1>3, <1>4 DEF SlotsTyped, S!Binding

LEMMA ProceedKeeps ==
  ASSUME ServeInv, NEW s \in S!Serves, child[s] # "none", NEW maps, NEW px, Standing(s, maps, px),
         S!Proceed(s, maps, px),
         UNCHANGED <<entry, stopping, child, signalled, stop, awaits, S!studioVars>>
  PROVE  ServeInv'
<1> USE ServeConstants
    DEF S!ServeAssumption, S!Serves, S!Tracked, ServeInv, S!studioVars, S!Silent, S!None
<1>1. S!TornDown(s) \/ s \in settled \/ S!Tracked(s)
  BY DEF ServesInOrder, S!Booting, S!TornDown
<1>2. CASE S!TornDown(s)
  <2> USE <1>2 DEF S!Proceed
  <2>1. SlotsTyped(proxies', proxy') /\ doomed' \subseteq S!Proxies
    BY SlotsClosed DEF Standing, S!TypeOK
  <2>2. S!TypeOK'
    <3>1. RestTyped'
      BY <2>1, TypesSplit DEF RestTyped
    <3> QED BY <2>1, <3>1, TypesSplitNext
  <2>3. S!Listed' /\ ServesInOrder' /\ ServesEnd' /\ ShutdownWaits'
    BY DEF S!Listed, ServesInOrder, S!Booting, ServesEnd, ShutdownWaits, S!AllStopped
  <2>4. \A p \in S!Proxies :
          /\ proxy'[p].serve = px[p].serve /\ proxy'[p].upstream = px[p].upstream
          /\ proxy'[p].state =
               IF p \in S!Held(maps[s]) /\ px[p].state = "up" THEN "closed" ELSE px[p].state
    BY DEF S!CloseProxies, Standing, SlotsTyped, Startup
  <2>5. \A r \in S!Serves, u \in Upstreams :
          proxies'[r][u] = IF r = s THEN Nothing ELSE maps[r][u]
    BY DEF S!CloseProxies, Standing, SlotsTyped
  <2>6. ASSUME NEW p \in S!Proxies, Lost(px, p) PROVE S!SlotLost(p)'
    BY <2>4, <2>6 DEF Lost, S!SlotLost
  <2>7. S!ProxiesReleased'
    <3> SUFFICES ASSUME NEW p \in S!Proxies, (proxy[p].state = "up")'
                 PROVE  \/ S!Restarted(proxy[p].serve)' \/ S!SlotLost(p)'
                        \/ S!Tracked(proxy[p].serve)' /\ (proxies[proxy[p].serve][proxy[p].upstream] = p)'
      BY DEF S!ProxiesReleased
    <3>1. /\ px[p].state = "up" /\ p \notin S!Held(maps[s]) /\ px[p].serve \in S!Serves
          /\ px[p].upstream \in Upstreams /\ proxy'[p].serve = px[p].serve
          /\ proxy'[p].upstream = px[p].upstream
      BY <2>4 DEF Standing
    <3>2. ~(px[p].serve = s /\ maps[s][px[p].upstream] = p)
      <4>1. p # Nothing
        BY NothingIsNoStartup
      <4> QED BY <3>1, <4>1 DEF S!Held
    <3>3. S!Restarted(px[p].serve) => S!Restarted(px[p].serve)'
      BY DEF S!Restarted
    <3> QED BY <2>5, <2>6, <3>1, <3>2, <3>3 DEF Standing
  <2>8. StartupsKept'
    <3>1. doomed' = (doomed \cup S!Held(maps[s])) \cap S!Binding(px) /\ S!Binding(px) = S!Binding(proxy')
      BY <2>4 DEF S!CloseProxies, S!Binding
    <3>2. doomed' \subseteq S!Binding(proxy')
      BY <3>1
    <3>3. ASSUME NEW r \in S!Serves, NEW u \in Upstreams, proxies'[r][u] # Nothing
          PROVE  /\ proxies'[r][u] \notin doomed'
                 /\ S!Tracked(r)' \/ r \in stopping' \/ status'[r] = "error"
      BY <2>5, <3>1, <3>3 DEF Standing, SlotsTyped, S!Held
    <3>4. ASSUME NEW p \in S!Binding(px) \ doomed'
          PROVE  proxies'[px[p].serve][px[p].upstream] = p \/ S!SlotLost(p)'
      BY <2>5, <2>6, <3>1 DEF Standing, S!Binding, S!Held
    <3>5. ASSUME NEW p \in S!Proxies
          PROVE  /\ proxy'[p].state # "none" =>
                      /\ proxy'[p].serve \in S!Serves /\ proxy'[p].upstream \in Upstreams
                      /\ child'[proxy'[p].serve] # "none"
                 /\ proxy'[p].state = "up" /\ proxy'[p].serve \in stopping' => S!SlotLost(p)'
      <4>1. px[p].state # "none" => child[px[p].serve] # "none" /\ px[p].serve \in S!Serves /\ px[p].upstream \in Upstreams
        BY DEF Standing
      <4>2. ASSUME px[p].state = "up", px[p].serve \in stopping, p \notin S!Held(maps[s]) PROVE Lost(px, p)
        <5>1. px[p].serve \in S!Serves /\ px[p].upstream \in Upstreams /\ p # Nothing
          BY <4>1, <4>2, NothingIsNoStartup
        <5> QED BY <4>2, <5>1 DEF Standing, S!Held
      <4>3. stopping' = stopping /\ child' = child
        OBVIOUS
      <4>4. proxy'[p].serve = px[p].serve /\ proxy'[p].upstream = px[p].upstream
        BY <2>4
      <4>5. proxy'[p].state # "none" => px[p].state # "none"
        BY <2>4
      <4>6. proxy'[p].state = "up" => px[p].state = "up" /\ p \notin S!Held(maps[s])
        BY <2>4
      <4>7. ASSUME proxy'[p].state = "up", proxy'[p].serve \in stopping' PROVE S!SlotLost(p)'
        <5>1. Lost(px, p)
          BY <4>2, <4>3, <4>4, <4>6, <4>7
        <5> QED BY <2>6, <5>1
      <4>8. proxy'[p].state # "none" =>
              /\ proxy'[p].serve \in S!Serves /\ proxy'[p].upstream \in Upstreams
              /\ child'[proxy'[p].serve] # "none"
        BY <4>1, <4>3, <4>4, <4>5
      <4> QED BY <4>7, <4>8
    <3>6. \A p \in S!Binding(proxy') \ doomed' :
            proxies'[proxy'[p].serve][proxy'[p].upstream] = p \/ S!SlotLost(p)'
      BY <2>4, <3>1, <3>4 DEF S!Binding
    <3> QED BY <3>2, <3>3, <3>5, <3>6 DEF StartupsKept
  <2> QED BY <2>2, <2>3, <2>7, <2>8
<1>3. CASE ~S!TornDown(s)
  <2>1. /\ proxies' = maps /\ proxy' = px /\ doomed' = doomed \cap S!Binding(px)
        /\ settled' = settled \cup {s} /\ published' = <<s, status'[s]>>
        /\ status' = IF s \in settled THEN status ELSE [status EXCEPT ![s] = "running"]
    BY <1>3 DEF S!Proceed, S!SettleRunning
  <2>2. RestTyped
    BY TypesSplit
  <2>3. status' \in [S!Serves -> {"none", "starting", "running", "stopped", "error"}]
    BY <2>1, <2>2 DEF RestTyped
  <2>4. S!TypeOK'
    <3>1. RestTyped'
      BY <2>1, <2>2, <2>3 DEF RestTyped
    <3> QED BY <2>1, <3>1, TypesSplitNext DEF Standing
  <2>5. S!Listed'
    BY <1>1, <1>3, <2>1 DEF S!Listed, S!TypeOK, S!TornDown
  <2>6. ServesInOrder' /\ ServesEnd' /\ ShutdownWaits'
    BY <1>1, <1>3, <2>1 DEF S!Listed, ServesInOrder, S!Booting, ServesEnd, ShutdownWaits,
        S!AllStopped,
       S!TornDown, S!TypeOK
  <2>7. \A r \in S!Serves : /\ status[r] # "none" => status'[r] # "none"
                            /\ status[r] = "error" => status'[r] = "error"
    BY <2>1, <2>2 DEF ServesEnd, RestTyped
  <2>8. \A r \in S!Serves : S!Restarted(r) => S!Restarted(r)'
    BY <2>7 DEF S!Restarted
  <2>9. S!ProxiesReleased'
    <3> SUFFICES ASSUME NEW p \in S!Proxies, px[p].state = "up"
                 PROVE  \/ S!Restarted(px[p].serve)' \/ Lost(px, p)
                        \/ S!Tracked(px[p].serve) /\ maps[px[p].serve][px[p].upstream] = p
      BY <2>1 DEF S!ProxiesReleased, S!SlotLost, Lost
    <3> DEFINE r == px[p].serve  u == px[p].upstream
    <3>1. r \in S!Serves /\ u \in Upstreams
      BY DEF Standing
    <3>2. CASE maps[r][u] = p /\ r = s /\ ~S!Tracked(s)
      <4>1. entry \in S!Serves /\ s \notin stopping
        BY <1>1, <1>3, <2>2, <3>2 DEF S!TornDown, RestTyped
      <4>2. status[s] = "error"
        BY <3>1, <3>2, <4>1, NothingIsNoStartup DEF Standing
      <4>3. entry > s /\ status[entry] # "none"
        BY <3>2, <4>1, <4>2 DEF ServesInOrder, S!Listed
      <4> QED BY <2>8, <3>2, <4>1, <4>2, <4>3 DEF S!Restarted
    <3> QED BY <2>8, <3>1, <3>2 DEF Standing
  <2>10. StartupsKept'
    BY <1>1, <1>3, <2>1, <2>7
        DEF StartupsKept, Standing, S!SlotLost, Lost, S!Binding, SlotsTyped, S!TornDown
  <2> QED BY <2>4, <2>5, <2>6, <2>9, <2>10
<1> QED BY <1>2, <1>3

LEMMA ReadyNowKeeps ==
  ASSUME ServeInv, NEW s \in S!Serves, S!ReadyNow(s)
  PROVE  ServeInv'
<1>1. SlotsTyped(proxies, proxy)
  BY TypesSplit DEF ServeInv
<1>2. Standing(s, proxies, proxy)
  BY <1>1 DEF ServeInv, Standing, StartupsKept, S!ProxiesReleased, S!SlotLost, Lost
<1>3. child[s] # "none" /\ S!Proceed(s, proxies, proxy)
  BY DEF S!ReadyNow, S!Prints
<1>4. UNCHANGED <<entry, stopping, child, signalled, stop, awaits, S!studioVars>>
  BY DEF S!ReadyNow
<1> QED BY <1>2, <1>3, <1>4, ProceedKeeps

(* What one startup becomes leaves the others standing.                    *)
LEMMA ProxyBindsKeeps ==
  ASSUME ServeInv, NEW p \in S!Proxies, S!ProxyBinds(p)
  PROVE  ServeInv'
<1> DEFINE s == proxy[p].serve
           px == [proxy EXCEPT ![p].state = IF p \in doomed THEN "closed" ELSE "up"]
<1> USE DEF ServeInv
<1>1. s \in S!Serves /\ proxy[p].upstream \in Upstreams /\ child[s] # "none" /\ proxy[p].state = "binding"
  BY DEF S!ProxyBinds, StartupsKept
<1>2. SlotsTyped(proxies, proxy)
  BY TypesSplit
<1>3. \A q \in S!Proxies :
        /\ px[q].serve = proxy[q].serve /\ px[q].upstream = proxy[q].upstream
        /\ px[q].state =
             IF q = p THEN (IF p \in doomed THEN "closed" ELSE "up") ELSE proxy[q].state
  BY <1>2 DEF SlotsTyped, Startup
<1>4. SlotsTyped(proxies, px)
  <2>1. px \in [S!Proxies -> Startup]
    BY <1>2 DEF SlotsTyped, Startup
  <2>2. ASSUME NEW r \in S!Serves, NEW u \in Upstreams, proxies[r][u] # Nothing
        PROVE  /\ px[proxies[r][u]].serve = r /\ px[proxies[r][u]].upstream = u
               /\ px[proxies[r][u]].state \in {"binding", "up"}
    <3>1. proxies[r][u] \in S!Proxies /\ proxies[r][u] \notin doomed
      BY <1>2, <2>2 DEF SlotsTyped, StartupsKept
    <3> QED BY <1>2, <1>3, <2>2, <3>1 DEF SlotsTyped
  <2> QED BY <1>2, <2>1, <2>2 DEF SlotsTyped
<1>5. \A q \in S!Proxies : S!SlotLost(q) => Lost(px, q)
  BY <1>1, <1>3 DEF S!SlotLost, Lost
<1>6. S!Binding(px) \subseteq S!Binding(proxy)
  BY <1>1, <1>3 DEF S!Binding
<1>7. ASSUME NEW q \in S!Proxies, px[q].state = "up"
      PROVE  LET r == proxy[q].serve
                 stands == proxies[r][proxy[q].upstream] = q
             IN  /\ (stands /\ (S!Tracked(r) \/ r = s)) \/ S!Restarted(r) \/ Lost(px, q)
                 /\ r \in stopping => (stands /\ r = s) \/ Lost(px, q)
  <2>1. CASE q = p
    <3>1. p \in S!Binding(proxy) \ doomed
      BY <1>1, <1>3, <1>7, <2>1 DEF S!Binding
    <3> QED BY <1>5, <2>1, <3>1 DEF StartupsKept
  <2>2. CASE q # p
    BY <1>3, <1>5, <1>7, <2>2 DEF StartupsKept, S!ProxiesReleased
  <2> QED BY <2>1, <2>2
<1>8. Standing(s, proxies, px)
  <2>1. ASSUME NEW r \in S!Serves, NEW u \in Upstreams, proxies[r][u] # Nothing
        PROVE  /\ proxies[r][u] \notin S!Binding(px) \cap doomed
               /\ S!Tracked(r) \/ r \in stopping \/ status[r] = "error"
    BY <2>1 DEF StartupsKept
  <2>2. \A q \in S!Binding(px) \ doomed : proxies[px[q].serve][px[q].upstream] = q \/ Lost(px, q)
    BY <1>3, <1>5, <1>6 DEF StartupsKept, S!Binding
  <2>3. \A q \in S!Proxies : px[q].state # "none" =>
          px[q].serve \in S!Serves /\ px[q].upstream \in Upstreams /\ child[px[q].serve] # "none"
    BY <1>1, <1>3 DEF StartupsKept
  <2> HIDE DEF px, s
  <2> QED BY <1>3, <1>4, <1>7, <2>1, <2>2, <2>3 DEF Standing
<1>9. S!Proceed(s, proxies, px) /\ UNCHANGED <<entry, stopping, child, signalled, stop, awaits, S!studioVars>>
  BY DEF S!ProxyBinds
<1> HIDE DEF px, s
<1> QED BY <1>1, <1>8, <1>9, ProceedKeeps

LEMMA ProxyFailsKeeps ==
  ASSUME ServeInv, NEW p \in S!Proxies, S!ProxyFails(p)
  PROVE  ServeInv'
<1> DEFINE s == proxy[p].serve
           u == proxy[p].upstream
           maps == S!SlotEmptied(s, u)
           px == [proxy EXCEPT ![p].state = "failed"]
<1> USE DEF ServeInv
<1>1. s \in S!Serves /\ u \in Upstreams /\ child[s] # "none" /\ proxy[p].state = "binding"
  BY DEF S!ProxyFails, StartupsKept
<1>2. SlotsTyped(proxies, proxy)
  BY TypesSplit
<1>3. \A q \in S!Proxies :
        /\ px[q].serve = proxy[q].serve /\ px[q].upstream = proxy[q].upstream
        /\ px[q].state = IF q = p THEN "failed" ELSE proxy[q].state
  BY <1>2 DEF SlotsTyped, Startup
<1>4. \A r \in S!Serves, v \in Upstreams :
        maps[r][v] = IF r = s /\ v = u THEN Nothing ELSE proxies[r][v]
  BY <1>1, <1>2 DEF SlotsTyped, S!SlotEmptied
<1>5. SlotsTyped(maps, px)
  <2>1. px \in [S!Proxies -> Startup]
    BY <1>2 DEF SlotsTyped, Startup
  <2>2. maps \in [S!Serves -> [Upstreams -> S!Proxies \cup {Nothing}]]
    BY <1>1, <1>2 DEF SlotsTyped, S!SlotEmptied
  <2>3. ASSUME NEW r \in S!Serves, NEW v \in Upstreams, maps[r][v] # Nothing
        PROVE  /\ px[maps[r][v]].serve = r /\ px[maps[r][v]].upstream = v
               /\ px[maps[r][v]].state \in {"binding", "up"}
    <3>1. /\ maps[r][v] = proxies[r][v] /\ proxies[r][v] \in S!Proxies /\ proxies[r][v] # p
          /\ proxy[proxies[r][v]].serve = r /\ proxy[proxies[r][v]].upstream = v
          /\ proxy[proxies[r][v]].state \in {"binding", "up"}
      BY <1>2, <1>4, <2>3 DEF SlotsTyped
    <3> QED BY <1>3, <3>1
  <2> HIDE DEF maps, px
  <2> QED BY <2>1, <2>2, <2>3 DEF SlotsTyped
<1>6. \A q \in S!Proxies : S!SlotLost(q) => Lost(px, q)
  BY <1>1, <1>3 DEF S!SlotLost, Lost
<1>7. ASSUME NEW q \in S!Proxies, q # p, proxy[q].serve \in S!Serves, proxy[q].upstream \in Upstreams,
             proxies[proxy[q].serve][proxy[q].upstream] = q
      PROVE  maps[proxy[q].serve][proxy[q].upstream] = q \/ Lost(px, q)
  BY <1>3, <1>4, <1>7 DEF Lost
<1>8. \A q \in S!Proxies : px[q].state # "none" =>
        px[q].serve \in S!Serves /\ px[q].upstream \in Upstreams /\ child[px[q].serve] # "none"
  BY <1>1, <1>3 DEF StartupsKept
<1>9. ASSUME NEW q \in S!Proxies, px[q].state = "up"
      PROVE  LET r == px[q].serve
                 stands == maps[r][px[q].upstream] = q
             IN  /\ (stands /\ (S!Tracked(r) \/ r = s)) \/ S!Restarted(r) \/ Lost(px, q)
                 /\ r \in stopping => (stands /\ r = s) \/ Lost(px, q)
  <2>1. q # p /\ proxy[q].state = "up"
    BY <1>3, <1>9
  <2> HIDE DEF maps, px, s
  <2> QED BY <1>3, <1>6, <1>7, <1>8, <1>9, <2>1 DEF StartupsKept, S!ProxiesReleased
<1>10. Standing(s, maps, px)
  <2>1. ASSUME NEW r \in S!Serves, NEW v \in Upstreams, maps[r][v] # Nothing
        PROVE  /\ maps[r][v] \notin S!Binding(px) \cap doomed
               /\ S!Tracked(r) \/ r \in stopping \/ status[r] = "error"
    BY <1>4, <2>1 DEF StartupsKept
  <2>2. ASSUME NEW q \in S!Binding(px) \ doomed
        PROVE  maps[px[q].serve][px[q].upstream] = q \/ Lost(px, q)
    <3>1. q \in S!Binding(proxy) \ doomed /\ q # p /\ q \in S!Proxies
      BY <1>3 DEF S!Binding
    <3>2. proxies[proxy[q].serve][proxy[q].upstream] = q \/ S!SlotLost(q)
      BY <3>1 DEF StartupsKept
    <3>3. proxy[q].serve \in S!Serves /\ proxy[q].upstream \in Upstreams
      BY <3>1 DEF StartupsKept, S!Binding
    <3> QED BY <1>3, <1>6, <1>7, <3>1, <3>2, <3>3
  <2> HIDE DEF maps, px, s
  <2> QED BY <1>5, <1>8, <1>9, <2>1, <2>2 DEF Standing
<1>11. S!Proceed(s, maps, px) /\ UNCHANGED <<entry, stopping, child, signalled, stop, awaits, S!studioVars>>
  BY DEF S!ProxyFails
<1> HIDE DEF maps, px, s
<1> QED BY <1>1, <1>10, <1>11, ProceedKeeps

(* closeProxies() of a serve: what is up afterwards has lost its slot.      *)
LEMMA StartupsClosed ==
  ASSUME ServeInv, NEW s \in S!Serves, S!CloseProxies(s, proxies, proxy)
  PROVE  /\ SlotsTyped(proxies', proxy') /\ doomed' \subseteq S!Proxies
         /\ doomed' \subseteq S!Binding(proxy')
         /\ \A r \in S!Serves, u \in Upstreams : proxies'[r][u] # Nothing =>
              r # s /\ proxies'[r][u] = proxies[r][u] /\ proxies'[r][u] \notin doomed'
         /\ \A p \in S!Binding(proxy') \ doomed' :
              proxies'[proxy'[p].serve][proxy'[p].upstream] = p \/ S!SlotLost(p)'
         /\ \A p \in S!Proxies :
              /\ proxy'[p].serve = proxy[p].serve /\ proxy'[p].upstream = proxy[p].upstream
              /\ proxy'[p].state # "none" => proxy[p].state # "none"
              /\ S!SlotLost(p) => S!SlotLost(p)'
              /\ proxy'[p].state = "up" =>
                   /\ proxy[p].state = "up"
                   /\ proxy[p].serve = s => S!SlotLost(p)' \/ S!Restarted(s)
                   /\ proxy[p].serve # s => proxies'[proxy[p].serve] = proxies[proxy[p].serve]
<1> USE DEF ServeInv
<1>1. RestTyped /\ SlotsTyped(proxies, proxy)
  BY TypesSplit
<1>2. SlotsTyped(proxies', proxy') /\ doomed' \subseteq S!Proxies
  BY <1>1, SlotsClosed DEF RestTyped
<1>3. \A p \in S!Proxies :
        /\ proxy'[p].serve = proxy[p].serve /\ proxy'[p].upstream = proxy[p].upstream
        /\ proxy'[p].state =
             IF p \in S!Held(proxies[s]) /\ proxy[p].state = "up" THEN "closed" ELSE proxy[p].state
  BY <1>1 DEF S!CloseProxies, SlotsTyped, Startup
<1>4. /\ \A r \in S!Serves, u \in Upstreams : proxies'[r][u] = IF r = s THEN Nothing ELSE proxies[r][u]
      /\ \A r \in S!Serves : r # s => proxies'[r] = proxies[r]
  BY <1>1 DEF S!CloseProxies, SlotsTyped
<1>5. /\ doomed' = (doomed \cup S!Held(proxies[s])) \cap S!Binding(proxy)
      /\ \A p : p \in S!Binding(proxy) <=> p \in S!Binding(proxy')
  BY <1>3 DEF S!CloseProxies, S!Binding
<1>6. \A p \in S!Proxies : S!SlotLost(p) => S!SlotLost(p)'
  BY <1>3 DEF S!SlotLost
<1>7. ASSUME NEW r \in S!Serves, NEW u \in Upstreams, proxies'[r][u] # Nothing
      PROVE  r # s /\ proxies'[r][u] = proxies[r][u] /\ proxies'[r][u] \notin doomed'
  BY <1>1, <1>4, <1>5, <1>7 DEF StartupsKept, SlotsTyped, S!Held
<1>8. ASSUME NEW p \in S!Binding(proxy'), p \notin doomed'
      PROVE  proxies'[proxy'[p].serve][proxy'[p].upstream] = p \/ S!SlotLost(p)'
  <2>1. p \in S!Binding(proxy) \ doomed /\ p \in S!Proxies /\ p # Nothing /\ p \notin S!Held(proxies[s])
    BY <1>5, <1>8, NothingIsNoStartup DEF S!Binding
  <2>2. proxies[proxy[p].serve][proxy[p].upstream] = p \/ S!SlotLost(p)
    BY <2>1 DEF StartupsKept
  <2>3. proxy[p].serve \in S!Serves /\ proxy[p].upstream \in Upstreams
    BY <2>1 DEF StartupsKept, S!Binding
  <2> QED BY <1>3, <1>4, <1>6, <2>1, <2>2, <2>3 DEF S!Held
<1>9. ASSUME NEW p \in S!Proxies, proxy'[p].state = "up"
      PROVE  /\ proxy[p].state = "up"
             /\ proxy[p].serve = s => S!SlotLost(p)' \/ S!Restarted(s)
             /\ proxy[p].serve # s => proxies'[proxy[p].serve] = proxies[proxy[p].serve]
  <2>1. proxy[p].state = "up" /\ p \notin S!Held(proxies[s]) /\ p # Nothing
    BY <1>3, <1>9, NothingIsNoStartup
  <2>2. proxy[p].serve \in S!Serves /\ proxy[p].upstream \in Upstreams
    BY <2>1 DEF StartupsKept
  <2>3. proxy[p].serve = s => S!SlotLost(p) \/ S!Restarted(s)
    BY <2>1, <2>2 DEF S!ProxiesReleased, S!Held
  <2> QED BY <1>4, <1>6, <2>1, <2>2, <2>3
<1> QED BY <1>2, <1>3, <1>5, <1>6, <1>7, <1>8, <1>9

(* The end of a serve, by its timer, its child or stop().                   *)
LEMMA EndKeeps ==
  ASSUME ServeInv, NEW s \in S!Serves, S!CloseProxies(s, proxies, proxy),
         S!Tracked(s), entry' = Nothing,
         stopping' \in {stopping, stopping \cup {s}},
         \A r \in S!Serves : r # s => status'[r] = status[r],
         status[s] \in {"starting", "running"}, status'[s] # "none",
         \A r \in S!Serves : child[r] # "none" => child'[r] # "none"
  PROVE  S!ProxiesReleased' /\ StartupsKept'
<1> USE DEF ServeInv
<1>1. ~S!Restarted(s)
  BY DEF S!Restarted
<1>2. \A r \in S!Serves : S!Restarted(r) => r # s /\ S!Restarted(r)'
  <2>1. \A r \in S!Serves : status[r] # "none" => status'[r] # "none"
    OBVIOUS
  <2> QED BY <1>1, <2>1 DEF S!Restarted
<1>3. ASSUME NEW p \in S!Proxies, proxy'[p].state = "up"
      PROVE  /\ S!Restarted(proxy[p].serve)' \/ S!SlotLost(p)'
             /\ proxy[p].serve \in stopping' => S!SlotLost(p)'
  <2>1. proxy[p].state = "up" /\ proxy[p].serve \in S!Serves
    BY <1>3, StartupsClosed DEF StartupsKept
  <2>2. CASE proxy[p].serve = s
    BY <1>1, <1>3, <2>2, StartupsClosed
  <2>3. CASE proxy[p].serve # s
    <3>1. S!Restarted(proxy[p].serve) \/ S!SlotLost(p)
      BY <2>1, <2>3 DEF S!ProxiesReleased, S!Tracked
    <3>2. proxy[p].serve \in stopping' => S!SlotLost(p)
      BY <2>1, <2>3 DEF StartupsKept
    <3>3. S!SlotLost(p) => S!SlotLost(p)'
      BY StartupsClosed
    <3>4. proxy'[p].serve = proxy[p].serve
      BY StartupsClosed
    <3>5. S!Restarted(proxy[p].serve) => S!Restarted(proxy[p].serve)'
      BY <1>2, <2>1, <3>4 DEF S!Restarted
    <3> QED BY <3>1, <3>2, <3>3, <3>5
  <2> QED BY <2>2, <2>3
<1>4. S!ProxiesReleased'
  BY <1>3, StartupsClosed DEF S!ProxiesReleased
<1>5. ASSUME NEW r \in S!Serves, NEW u \in Upstreams, proxies'[r][u] # Nothing
      PROVE  proxies'[r][u] \notin doomed' /\ (r \in stopping' \/ status'[r] = "error")
  <2>1. r # s /\ proxies'[r][u] = proxies[r][u] /\ proxies'[r][u] \notin doomed'
    BY <1>5, StartupsClosed
  <2> QED BY <1>5, <2>1 DEF StartupsKept, S!Tracked
<1>6. ASSUME NEW p \in S!Proxies, proxy'[p].state # "none"
      PROVE  /\ proxy'[p].serve \in S!Serves /\ proxy'[p].upstream \in Upstreams
             /\ child'[proxy'[p].serve] # "none"
  BY <1>6, StartupsClosed DEF StartupsKept
<1> QED BY <1>3, <1>4, <1>5, <1>6, StartupsClosed DEF StartupsKept

LEMMA ChildClosesKeeps ==
  ASSUME ServeInv, NEW s \in S!Serves, S!ChildCloses(s)
  PROVE  ServeInv'
<1> USE ServeConstants DEF S!ServeAssumption, S!Serves, S!Proxies, S!Tracked, ServeInv
<1>1. /\ child[s] = "exited" /\ child' = [child EXCEPT ![s] = "closed"]
      /\ stop' = [stop EXCEPT ![s] = IF @ = "waiting" THEN "released" ELSE @]
      /\ UNCHANGED <<stopping, signalled, awaits, studio, swept>>
  BY DEF S!ChildCloses, S!studioVars
<1>2. RestTyped /\ SlotsTyped(proxies, proxy)
  BY TypesSplit
<1>3. CASE \/ s \notin settled /\ s \in stopping
           \/ s \in settled /\ ~(S!Tracked(s) /\ status[s] = "running")
  <2>1. UNCHANGED <<entry, status, proxies, proxy, doomed>> /\ published' = <<Nothing, "none">>
    BY <1>3 DEF S!ChildCloses, S!ClosedBooting, S!ClosedRunning, S!proxyVars, S!Silent, S!None
  <2>2. settled' = settled \cup {s}
    BY <1>3 DEF S!ChildCloses, S!ClosedBooting, S!ClosedRunning
  <2>3. S!TypeOK'
    <3>1. RestTyped'
      BY <1>1, <1>2, <2>1, <2>2 DEF RestTyped
    <3> QED BY <1>2, <2>1, <3>1, TypesSplitNext
  <2>4. ~S!Tracked(s)
    BY <1>3 DEF S!Listed, ServesInOrder
  <2>5. S!Listed' /\ ServesInOrder' /\ ServesEnd' /\ ShutdownWaits'
    BY <1>1, <1>2, <1>3, <2>1, <2>2, <2>4
       DEF RestTyped, S!Listed, ServesInOrder, S!Booting, ServesEnd, ShutdownWaits, S!AllStopped
  <2>6. S!ProxiesReleased' /\ StartupsKept'
    BY <1>1, <1>2, <2>1
       DEF RestTyped, S!ProxiesReleased, S!Restarted, S!SlotLost, StartupsKept, S!Binding
  <2> QED BY <2>3, <2>5, <2>6
<1>4. CASE \/ s \notin settled /\ s \notin stopping
           \/ s \in settled /\ S!Tracked(s) /\ status[s] = "running"
  <2>1. /\ S!CloseProxies(s, proxies, proxy) /\ entry' = Nothing /\ settled' = settled \cup {s}
        /\ \/ status' = [status EXCEPT ![s] = "error"] /\ published' = <<s, "error">> /\ s \notin stopping
           \/ status' = [status EXCEPT ![s] = "stopped"] /\ published' = <<s, "stopped">>
    BY <1>4 DEF S!ChildCloses, S!ClosedBooting, S!ClosedRunning, S!Publish
  <2>2. S!Tracked(s) /\ s \notin stopping
    BY <1>1, <1>4 DEF ServesInOrder, S!Booting, S!Listed
  <2>3. SlotsTyped(proxies', proxy') /\ doomed' \subseteq S!Proxies
    BY <1>2, <2>1, StartupsClosed
  <2>4. S!TypeOK'
    <3>1. status' \in [S!Serves -> {"none", "starting", "running", "stopped", "error"}]
      BY <1>2, <2>1 DEF RestTyped
    <3>2. published' \in (S!Serves \cup {Nothing}) \X {"none", "starting", "running", "stopped", "error"}
      BY <2>1
    <3>3. RestTyped'
      BY <1>1, <1>2, <2>1, <2>3, <3>1, <3>2 DEF RestTyped
    <3> QED BY <2>3, <3>3, TypesSplitNext
  <2>5. S!Listed' /\ ServesInOrder' /\ ServesEnd' /\ ShutdownWaits'
    BY <1>1, <1>2, <2>1, <2>2
       DEF RestTyped, S!Listed, ServesInOrder, S!Booting, ServesEnd, ShutdownWaits, S!AllStopped
  <2>6. S!ProxiesReleased' /\ StartupsKept'
    <3>1. status[s] \in {"starting", "running"} /\ status'[s] # "none"
      BY <1>2, <2>1, <2>2 DEF S!Listed, RestTyped
    <3>2. \A r \in S!Serves : r # s => status'[r] = status[r]
      BY <1>2, <2>1 DEF RestTyped
    <3>3. \A r \in S!Serves : child[r] # "none" => child'[r] # "none"
      BY <1>1, <1>2 DEF RestTyped
    <3> QED BY <1>1, <2>1, <2>2, <3>1, <3>2, <3>3, EndKeeps
  <2> QED BY <2>4, <2>5, <2>6
<1> QED BY <1>3, <1>4

LEMMA StartKeeps ==
  ASSUME ServeInv, NEW s \in S!Serves, S!Start(s)
  PROVE  ServeInv'
<1> USE ServeConstants DEF S!ServeAssumption, S!Serves, S!Proxies, S!Tracked, S!Held,
    ServeInv, S!Start, S!NextServe, S!Publish, S!proxyVars, S!studioVars
<1>1. S!TypeOK'
  BY DEF S!TypeOK
<1>2. S!Listed'
  BY DEF S!TypeOK, S!Listed, ServesEnd
<1>3. S!ProxiesReleased'
  BY DEF S!ProxiesReleased, S!Restarted, S!SlotLost, StartupsKept
<1>4. ServesInOrder'
  BY DEF S!Booting, ServesInOrder, ServesEnd
<1>5. ServesEnd'
  BY DEF S!TypeOK, ServesEnd
<1>6. StartupsKept'
  BY DEF S!SlotLost, StartupsKept
<1>7. ShutdownWaits'
  BY DEF ShutdownWaits
<1> QED BY <1>1, <1>2, <1>3, <1>4, <1>5, <1>6, <1>7

LEMMA SpawnFailsKeeps ==
  ASSUME ServeInv, NEW s \in S!Serves, S!SpawnFails(s)
  PROVE  ServeInv'
<1> USE ServeConstants DEF S!ServeAssumption, S!Serves, S!Proxies, S!Tracked, S!Held,
    ServeInv, S!SpawnFails, S!NextServe, S!Publish, S!proxyVars, S!studioVars
<1>1. S!TypeOK'
  BY DEF S!TypeOK
<1>2. S!Listed'
  BY DEF S!Listed
<1>3. S!ProxiesReleased'
  BY DEF S!ProxiesReleased, S!Restarted, S!SlotLost
<1>4. ServesInOrder'
  BY DEF S!Booting, ServesInOrder
<1>5. ServesEnd'
  BY DEF S!TypeOK, ServesEnd
<1>6. StartupsKept'
  BY DEF S!SlotLost, StartupsKept
<1>7. ShutdownWaits'
  BY DEF ShutdownWaits
<1> QED BY <1>1, <1>2, <1>3, <1>4, <1>5, <1>6, <1>7

LEMMA FailsKeeps ==
  ASSUME ServeInv, NEW s \in S!Serves, S!Fails(s)
  PROVE  ServeInv'
<1> USE ServeConstants DEF S!ServeAssumption, S!Serves, S!Proxies, S!Tracked, S!Held,
    ServeInv, S!Fails, S!Publish, S!Terminate, S!studioVars
<1>1. S!TypeOK'
  <2>1. RestTyped /\ SlotsTyped(proxies, proxy)
    BY TypesSplit
  <2>2. SlotsTyped(proxies', proxy') /\ doomed' \subseteq S!Proxies
    BY <2>1, SlotsClosed DEF RestTyped
  <2>3. RestTyped'
    BY <2>1, <2>2 DEF RestTyped
  <2> QED BY <2>2, <2>3, TypesSplitNext
<1>2. S!Listed'
  BY DEF S!Listed
<1>3. S!ProxiesReleased' /\ StartupsKept'
  <2>1. S!Tracked(s) /\ entry' = Nothing
    BY DEF ServesInOrder
  <2>2. status[s] \in {"starting", "running"} /\ status'[s] # "none"
    BY <2>1 DEF S!Listed, S!TypeOK
  <2>3. \A r \in S!Serves : r # s => status'[r] = status[r]
    BY DEF S!TypeOK
  <2> QED BY <2>1, <2>2, <2>3, EndKeeps
<1>4. ServesInOrder'
  BY DEF S!Booting, ServesInOrder, ServesEnd
<1>5. ServesEnd'
  BY DEF S!TypeOK, S!Booting, ServesEnd
<1>7. ShutdownWaits'
  BY DEF ShutdownWaits, S!AllStopped
<1> QED BY <1>1, <1>2, <1>3, <1>4, <1>5, <1>7

LEMMA ReadyLineKeeps ==
  ASSUME ServeInv, NEW s \in S!Serves, NEW u \in Upstreams, NEW p \in S!Proxies, S!ReadyLine(s, u, p)
  PROVE  ServeInv'
<1> USE ServeConstants DEF S!ServeAssumption, S!Serves, S!Proxies, S!Tracked, S!Held,
    ServeInv, S!ReadyLine, S!Prints, S!Unused, S!Silent, S!None, S!serveVars, S!studioVars
<1>a. /\ proxy[p].state = "none" /\ proxy'[p] = [serve |-> s, upstream |-> u, state |-> "binding"]
      /\ \A q \in S!Proxies : q # p => proxy'[q] = proxy[q]
  BY DEF S!TypeOK
<1>b. \A q \in S!Proxies : S!SlotLost(q) /\ q # p => S!SlotLost(q)'
  BY <1>a DEF S!SlotLost
<1>1. S!TypeOK'
  BY DEF S!TypeOK
<1>2. S!Listed'
  BY DEF S!Listed
<1>3. S!ProxiesReleased'
  BY <1>a, <1>b DEF S!ProxiesReleased, S!Restarted, StartupsKept, S!TypeOK, S!Listed
<1>4. ServesInOrder'
  BY DEF S!Booting, ServesInOrder
<1>5. ServesEnd'
  BY DEF ServesEnd
<1>6. StartupsKept'
  <2>1. ASSUME NEW q \in S!Binding(proxy') \ doomed'
        PROVE  proxies'[proxy'[q].serve][proxy'[q].upstream] = q \/ S!SlotLost(q)'
    <3>1. CASE q = p
      BY <3>1, <1>a DEF S!TypeOK
    <3>2. CASE q # p
      <4>1. q \in S!Binding(proxy) \ doomed /\ proxy'[q] = proxy[q]
        BY <3>2, <1>a DEF S!Binding
      <4>2. proxies[proxy[q].serve][proxy[q].upstream] = q => proxies'[proxy[q].serve][proxy[q].upstream] = q
        BY <3>2, <4>1 DEF S!TypeOK, StartupsKept, S!Binding
      <4> QED BY <1>b, <3>2, <4>1, <4>2 DEF StartupsKept, S!Binding
    <3> QED BY <3>1, <3>2
  <2>2. ASSUME NEW r \in S!Serves, NEW v \in Upstreams, proxies'[r][v] # Nothing
        PROVE  /\ proxies'[r][v] \notin doomed
               /\ S!Tracked(r) \/ r \in stopping \/ status[r] = "error"
    <3>1. CASE r = s /\ v = u
      <4>1. proxies'[r][v] = p /\ p \notin doomed
        BY <1>a, <3>1 DEF S!TypeOK, StartupsKept, S!Binding
      <4>2. S!Tracked(s) \/ s \in stopping \/ status[s] = "error"
        BY DEF ServesInOrder, ServesEnd, S!Booting
      <4> QED BY <3>1, <4>1, <4>2
    <3>2. CASE ~(r = s /\ v = u)
      <4>1. proxies'[r][v] = proxies[r][v]
        BY <3>2 DEF S!TypeOK
      <4> QED BY <2>2, <4>1 DEF StartupsKept
    <3> QED BY <3>1, <3>2
  <2>3. doomed \subseteq S!Binding(proxy')
    BY <1>a DEF StartupsKept, S!Binding
  <2>4. ASSUME NEW q \in S!Proxies
        PROVE  /\ proxy'[q].state # "none" =>
                    /\ proxy'[q].serve \in S!Serves /\ proxy'[q].upstream \in Upstreams
                    /\ child'[proxy'[q].serve] # "none"
               /\ proxy'[q].state = "up" /\ proxy'[q].serve \in stopping' => S!SlotLost(q)'
    BY <1>a, <1>b DEF StartupsKept
  <2> QED BY <2>1, <2>2, <2>3, <2>4 DEF StartupsKept
<1>7. ShutdownWaits'
  BY DEF ShutdownWaits, S!AllStopped
<1> QED BY <1>1, <1>2, <1>3, <1>4, <1>5, <1>6, <1>7

LEMMA ChildExitsKeeps ==
  ASSUME ServeInv, NEW s \in S!Serves, S!ChildExits(s)
  PROVE  ServeInv'
<1> USE ServeConstants DEF S!ServeAssumption, S!Serves, S!Proxies, S!Tracked, S!Held,
    ServeInv, S!ChildExits, S!Silent, S!None, S!proxyVars, S!studioVars
<1>1. S!TypeOK'
  BY DEF S!TypeOK
<1>2. S!Listed'
  BY DEF S!Listed
<1>3. S!ProxiesReleased'
  BY DEF S!ProxiesReleased, S!Restarted, S!SlotLost
<1>4. ServesInOrder'
  BY DEF S!Booting, ServesInOrder
<1>5. ServesEnd'
  BY DEF ServesEnd
<1>6. StartupsKept'
  BY DEF S!SlotLost, StartupsKept
<1>7. ShutdownWaits'
  BY DEF ShutdownWaits, S!AllStopped
<1> QED BY <1>1, <1>2, <1>3, <1>4, <1>5, <1>6, <1>7

LEMMA ClaimKeeps ==
  ASSUME ServeInv, NEW s \in S!Serves, S!Tracked(s), S!Claim(s), (UNCHANGED S!studioVars) \/ (studio = "up" /\ studio' = "stopping" /\ swept' = {s})
  PROVE  ServeInv'
<1> USE ServeConstants DEF S!ServeAssumption, S!Serves, S!Proxies, S!Tracked, S!Held,
    ServeInv, S!Claim, S!Terminate, S!Silent, S!None, S!studioVars
<1>1. S!TypeOK'
  <2>1. RestTyped /\ SlotsTyped(proxies, proxy)
    BY TypesSplit
  <2>2. SlotsTyped(proxies', proxy') /\ doomed' \subseteq S!Proxies
    BY <2>1, SlotsClosed DEF RestTyped
  <2>3. awaits' \in [S!Serves -> SUBSET S!Proxies]
    <3>1. {proxies[s][u] : u \in Upstreams} \ {Nothing} \subseteq S!Proxies
      BY <2>1 DEF SlotsTyped
    <3> QED BY <2>1, <3>1 DEF RestTyped, S!Binding
  <2>4. RestTyped'
    BY <2>1, <2>2, <2>3 DEF RestTyped
  <2> QED BY <2>2, <2>4, TypesSplitNext
<1>2. S!Listed'
  BY DEF S!Listed
<1>3. S!ProxiesReleased' /\ StartupsKept'
  BY EndKeeps DEF S!Listed
<1>4. ServesInOrder'
  BY DEF S!Booting, ServesInOrder
<1>5. ServesEnd'
  BY DEF S!Listed, ServesEnd
<1>7. ShutdownWaits'
  BY DEF S!Listed, ShutdownWaits, S!AllStopped
<1> QED BY <1>1, <1>2, <1>3, <1>4, <1>5, <1>7

LEMMA StopEndsKeeps ==
  ASSUME ServeInv, NEW s \in S!Serves, S!StopEnds(s)
  PROVE  ServeInv'
<1> USE ServeConstants DEF S!ServeAssumption, S!Serves, S!Proxies, S!Tracked, S!Held,
    ServeInv, S!StopEnds, S!Publish, S!proxyVars, S!studioVars
<1>1. S!TypeOK'
  BY DEF S!TypeOK
<1>2. S!Listed'
  BY DEF S!Listed, ServesEnd
<1>3. S!ProxiesReleased'
  BY DEF S!ProxiesReleased, S!Restarted, S!SlotLost, ServesEnd
<1>4. ServesInOrder'
  BY DEF S!Listed, S!Booting, ServesInOrder, ServesEnd
<1>5. ServesEnd'
  BY DEF ServesEnd
<1>6. StartupsKept'
  BY DEF S!SlotLost, ServesEnd, StartupsKept
<1>7. ShutdownWaits'
  BY DEF ShutdownWaits, S!AllStopped
<1> QED BY <1>1, <1>2, <1>3, <1>4, <1>5, <1>6, <1>7

LEMMA ServerClosesKeeps ==
  ASSUME ServeInv, S!ServerCloses
  PROVE  ServeInv'
<1> USE ServeConstants DEF S!ServeAssumption, S!Serves, S!Proxies, S!Tracked, S!Held,
    ServeInv, S!ServerCloses, S!AllStopped, S!serveVars, S!proxyVars, S!Silent, S!None
<1>1. S!TypeOK'
  BY DEF S!TypeOK
<1>2. S!Listed'
  BY DEF S!Listed
<1>3. S!ProxiesReleased'
  BY DEF S!ProxiesReleased, S!Restarted, S!SlotLost
<1>4. ServesInOrder'
  BY DEF S!Booting, ServesInOrder
<1>5. ServesEnd'
  BY DEF ServesEnd
<1>6. StartupsKept'
  BY DEF S!SlotLost, StartupsKept
<1>7. ShutdownWaits'
  BY DEF ShutdownWaits
<1> QED BY <1>1, <1>2, <1>3, <1>4, <1>5, <1>6, <1>7

LEMMA ServeInit == ASSUME S!Init PROVE ServeInv
<1> USE ServeConstants
    DEF S!ServeAssumption, S!Serves, S!Proxies, S!Init, S!Unused, S!None, S!Tracked
<1>1. S!TypeOK
  BY DEF S!TypeOK
<1>2. S!Listed /\ ServesInOrder /\ ServesEnd
  BY NothingIsNoStartup DEF S!Listed, ServesInOrder, S!Booting, ServesEnd
<1>3. S!ProxiesReleased /\ StartupsKept /\ ShutdownWaits
  BY DEF S!ProxiesReleased, StartupsKept, S!Binding, ShutdownWaits
<1> QED BY <1>1, <1>2, <1>3 DEF ServeInv

LEMMA ServeStep == ASSUME ServeInv, [S!Next]_S!vars PROVE ServeInv'
<1>1. ASSUME NEW s \in S!Serves, S!Stop(s) PROVE ServeInv'
  BY <1>1, ClaimKeeps DEF S!Stop
<1>2. CASE S!Shutdown
  <2>1. ASSUME NEW s \in S!Serves, S!Tracked(s), S!Claim(s) PROVE ServeInv'
    <3>1. swept' = {s} /\ studio = "up" /\ studio' = "stopping"
      BY <1>2, <2>1 DEF S!Shutdown, S!Tracked
    <3> QED BY <2>1, <3>1, ClaimKeeps
  <2>2. CASE entry = Nothing /\ UNCHANGED <<S!serveVars, S!proxyVars>> /\ S!Silent
    <3>1. swept' = {} /\ studio' = "stopping"
      BY <1>2, <2>2, NothingIsNoStartup DEF S!Shutdown, S!Tracked
    <3> QED BY <2>2, <3>1
      DEF S!serveVars, S!proxyVars, S!Silent, S!None, ServeInv, S!TypeOK, S!Listed, S!Tracked,
          S!ProxiesReleased, S!Restarted, S!SlotLost, ServesInOrder, S!Booting, ServesEnd,
          StartupsKept, S!Binding, ShutdownWaits
  <2> QED BY <1>2, <2>1, <2>2 DEF S!Shutdown
<1>3. CASE UNCHANGED S!vars
  BY <1>3 DEF S!vars, S!serveVars, S!proxyVars, S!studioVars, ServeInv, S!TypeOK, S!Listed,
     S!Tracked, S!ProxiesReleased, S!Restarted, S!SlotLost, ServesInOrder, S!Booting, ServesEnd,
     StartupsKept, S!Binding, ShutdownWaits, S!AllStopped
<1> QED
  BY <1>1, <1>2, <1>3, StartKeeps, SpawnFailsKeeps, FailsKeeps, ReadyNowKeeps, ReadyLineKeeps,
     ProxyBindsKeeps, ProxyFailsKeeps, ChildExitsKeeps, ChildClosesKeeps, StopEndsKeeps,
     ServerClosesKeeps
  DEF S!Next, S!Own, S!Settling

LEMMA ServeSafety == ASSUME ServeInv PROVE S!CleanExit
<1>1. swept \subseteq S!Serves /\ swept \subseteq stopping
  BY DEF ServeInv, ShutdownWaits, S!TypeOK
<1> QED BY <1>1 DEF ServeInv, ServesEnd, StartupsKept, ShutdownWaits, S!CleanExit, S!AllStopped

(* A serve the user has stopped.                                           *)
LEMMA ServeStopped ==
  ASSUME ServeInv, S!Next, published'[1] \in stopping
  PROVE  published'[2] = "stopped"
<1> USE DEF ServeInv, S!Publish
<1>1. stopping \subseteq S!Serves /\ Nothing \notin S!Serves
  BY NothingIsNoStartup DEF S!TypeOK
<1>2. ~S!Silent
  BY <1>1 DEF S!Silent, S!None
<1>3. ASSUME NEW s \in S!Serves, NEW maps, NEW px, S!Proceed(s, maps, px) PROVE FALSE
  <2>1. s \notin stopping /\ published' = <<s, status'[s]>>
    BY <1>2, <1>3 DEF S!Proceed, S!TornDown, S!SettleRunning
  <2> QED BY <2>1
<1>4. ASSUME NEW s \in S!Serves,
             S!Start(s) \/ S!SpawnFails(s) \/ S!ReadyNow(s) \/ S!ChildExits(s) \/ S!Fails(s) \/ S!Stop(s)
      PROVE  FALSE
  BY <1>2, <1>3, <1>4 DEF S!Start, S!SpawnFails, S!NextServe, S!ReadyNow, S!ChildExits,
      S!Fails, S!Booting, S!Stop,
     S!Claim, ServesEnd
<1>5. ASSUME NEW s \in S!Serves, S!ChildCloses(s) PROVE published'[2] = "stopped"
  BY <1>2, <1>5 DEF S!ChildCloses, S!ClosedBooting, S!ClosedRunning
<1>6. ASSUME NEW s \in S!Serves, S!StopEnds(s) PROVE published'[2] = "stopped"
  BY <1>6 DEF S!StopEnds
<1>7. ASSUME NEW p \in S!Proxies, S!Settling(p) PROVE FALSE
  <2>1. proxy[p].serve \in S!Serves
    BY <1>7 DEF S!Settling, S!ProxyBinds, S!ProxyFails, StartupsKept
  <2> QED BY <1>3, <1>7, <2>1 DEF S!Settling, S!ProxyBinds, S!ProxyFails
<1>8. ~S!Shutdown /\ ~S!ServerCloses
      /\ \A s \in S!Serves, u \in Upstreams, p \in S!Proxies : ~S!ReadyLine(s, u, p)
  BY <1>2 DEF S!Shutdown, S!Claim, S!ServerCloses, S!ReadyLine
<1> QED BY <1>4, <1>5, <1>6, <1>7, <1>8 DEF S!Next, S!Own

-----------------------------------------------------------------------------
(* The front door of an ALB: first the pool of replicas behind it.         *)

LEMMA DoorConstants == F!FrontDoorAssumption
BY SharedAssumption DEF SharedAssumption

LEMMA SameFinite == \A T : F!IsFiniteSet(T) <=> IsFiniteSet(T)
BY Zenon DEF F!IsFiniteSet, IsFiniteSet
LEMMA SameSize == \A T : F!Cardinality(T) = Cardinality(T)
BY Zenon DEF F!Cardinality, Cardinality

(* How far the entry at i is behind the cursor, in a pool of n entries     *)
(* whose next is the one after the entry at p.                             *)
Behind(i, p, n) == IF i <= p THEN p - i + 1 ELSE p - i + 1 + n

PoolTypes ==
  /\ entries \in Seq(Replicas) /\ cursor \in 0 .. Wrap - 1
  /\ \A i, j \in 1 .. Len(entries) : entries[i] = entries[j] => i = j

(* A round has served the k entries right behind the cursor, and not all.  *)
Served(k) ==
  {entries[i] : i \in {j \in 1 .. Len(entries) : Behind(j, cursor % Len(entries), Len(entries)) <= k}}
RoundKept ==
  /\ entries # <<>> => \E k \in 0 .. Len(entries) - 1 : served = Served(k)

PoolInv == PoolTypes /\ RoundKept

LEMMA ModSucc ==
  ASSUME NEW x \in Nat, NEW n \in Nat \ {0}
  PROVE  x % n \in 0 .. n - 1 /\ (x + 1) % n = IF (x % n) + 1 = n THEN 0 ELSE (x % n) + 1
<1> DEFINE q == x \div n  r == x % n
<1>1. x = q * n + r /\ r \in 0 .. n - 1 /\ q \in Nat
  OBVIOUS
<1>2. ASSUME NEW u \in Nat, NEW v \in 0 .. n - 1 PROVE (u * n + v) % n = v
  OBVIOUS
<1>3. CASE r + 1 = n
  <2>1. x + 1 = (q + 1) * n + 0
    BY <1>1, <1>3
  <2>2. ((q + 1) * n + 0) % n = 0
    BY <1>1, <1>2
  <2> QED BY <1>3, <2>1, <2>2
<1>4. CASE r + 1 # n
  <2>1. x + 1 = q * n + (r + 1)
    BY <1>1
  <2>2. (q * n + (r + 1)) % n = r + 1
    BY <1>1, <1>2, <1>4
  <2> QED BY <1>4, <2>1, <2>2
<1> QED BY <1>3, <1>4

(* The cursor goes on by one, also modulo the length of a pool, until it   *)
(* starts over.                                                            *)
LEMMA CursorAdvances ==
  ASSUME PoolTypes, entries # <<>>
  PROVE  LET n == Len(entries)
             p == cursor % n IN
         /\ n \in Nat \ {0} /\ p \in 0 .. n - 1
         /\ F!Advanced(cursor) \in 0 .. Wrap - 1
         /\ cursor # Wrap - 1 => F!Advanced(cursor) % n = IF p + 1 = n THEN 0 ELSE p + 1
<1> DEFINE n == Len(entries)  p == cursor % n
<1>1. n \in Nat \ {0} /\ cursor \in Nat /\ Wrap \in Nat \ {0}
  BY DoorConstants DEF PoolTypes, F!FrontDoorAssumption
<1>2. p \in 0 .. n - 1 /\ (cursor + 1) % n = IF p + 1 = n THEN 0 ELSE p + 1
  BY <1>1, ModSucc
<1>3. F!Advanced(cursor) = IF cursor + 1 = Wrap THEN 0 ELSE cursor + 1
  <2>1. cursor % Wrap = cursor
    BY <1>1 DEF PoolTypes
  <2>2. F!Advanced(cursor) = IF (cursor % Wrap) + 1 = Wrap THEN 0 ELSE (cursor % Wrap) + 1
    BY <1>1, ModSucc DEF F!Advanced
  <2> QED BY <2>1, <2>2
<1> QED BY <1>1, <1>2, <1>3 DEF PoolTypes

(* To drop an entry keeps the others, each once.                           *)
LEMMA WithoutKeeps ==
  ASSUME entries \in Seq(Replicas), NEW r \in Replicas,
         \A i, j \in 1 .. Len(entries) : entries[i] = entries[j] => i = j
  PROVE  LET w == F!Without(r) IN
         /\ w \in Seq(Replicas)
         /\ \A i, j \in 1 .. Len(w) : w[i] = w[j] => i = j
         /\ \A i \in 1 .. Len(w) : w[i] # r
<1>1. CASE r \in F!Range(entries)
  <2> DEFINE k == CHOOSE i \in DOMAIN entries : entries[i] = r
  <2>1. DOMAIN entries = 1 .. Len(entries) /\ Len(entries) \in Nat
    OBVIOUS
  <2>2. k \in 1 .. Len(entries) /\ entries[k] = r
    BY <1>1, <2>1 DEF F!Range
  <2> DEFINE w == SubSeq(entries, 1, k - 1) \o SubSeq(entries, k + 1, Len(entries))
  <2>3. F!Without(r) = w
    BY <1>1 DEF F!Without, F!RemoveAt
  <2> HIDE DEF k
  <2> DEFINE u == SubSeq(entries, 1, k - 1)
              v == SubSeq(entries, k + 1, Len(entries))
  <2>4. u \in Seq(Replicas) /\ Len(u) = k - 1 /\ \A i \in 1 .. k - 1 : u[i] = entries[i]
    BY <2>1, <2>2
  <2>5. /\ v \in Seq(Replicas) /\ Len(v) = Len(entries) - k
        /\ \A i \in 1 .. Len(entries) - k : v[i] = entries[i + k]
    <3>1. /\ k + 1 \in Int /\ Len(entries) \in Int
          /\ \A i \in k + 1 .. Len(entries) : entries[i] \in Replicas
      BY <2>1, <2>2
    <3>2. /\ v \in Seq(Replicas)
          /\ Len(v) = IF k + 1 <= Len(entries) THEN Len(entries) - (k + 1) + 1 ELSE 0
          /\ \A i \in 1 .. Len(entries) - (k + 1) + 1 : v[i] = entries[k + 1 + i - 1]
      BY <3>1, SubSeqProperties
    <3>3. Len(v) = Len(entries) - k
      <4>1. Len(v) = IF k + 1 <= Len(entries) THEN Len(entries) - (k + 1) + 1 ELSE 0
        BY <3>2
      <4>2. \A n \in Nat : \A j \in 1 .. n : (IF j + 1 <= n THEN n - (j + 1) + 1 ELSE 0) = n - j
        OBVIOUS
      <4>3. (IF k + 1 <= Len(entries) THEN Len(entries) - (k + 1) + 1 ELSE 0) = Len(entries) - k
        BY <2>1, <2>2, <4>2
      <4> HIDE DEF v
      <4> QED BY <4>1, <4>3
    <3>4. ASSUME NEW i \in 1 .. Len(entries) - k PROVE v[i] = entries[i + k]
      <4>1. i \in 1 .. Len(entries) - (k + 1) + 1 /\ k + 1 + i - 1 = i + k
        BY <2>1, <2>2
      <4>2. v[i] = entries[k + 1 + i - 1]
        BY <3>2, <4>1
      <4> HIDE DEF v
      <4> QED BY <4>1, <4>2
    <3> QED BY <3>2, <3>3, <3>4
  <2> HIDE DEF u, v
  <2>6. /\ u \o v \in Seq(Replicas) /\ Len(u \o v) = Len(entries) - 1
        /\ \A i \in 1 .. Len(entries) - 1 :
             (u \o v)[i] = IF i < k THEN entries[i] ELSE entries[i + 1]
    <3>1. /\ u \o v \in Seq(Replicas) /\ Len(u \o v) = Len(u) + Len(v)
          /\ \A i \in 1 .. Len(u) + Len(v) :
               (u \o v)[i] = IF i <= Len(u) THEN u[i] ELSE v[i - Len(u)]
      BY <2>4, <2>5, ConcatProperties
    <3>2. ASSUME NEW i \in 1 .. Len(entries) - 1
          PROVE  (u \o v)[i] = IF i < k THEN entries[i] ELSE entries[i + 1]
      <4>1. CASE i < k
        BY <2>1, <2>2, <2>4, <2>5, <3>1, <4>1
      <4>2. CASE ~(i < k)
        <5>1. i \in 1 .. Len(u) + Len(v) /\ ~(i <= Len(u)) /\ i - Len(u) \in 1 .. Len(entries) - k
              /\ i - Len(u) + k = i + 1
          BY <2>1, <2>2, <2>4, <2>5, <4>2
        <5>2. (u \o v)[i] = v[i - Len(u)]
          BY <3>1, <5>1
        <5> QED BY <2>5, <4>2, <5>1, <5>2
      <4> QED BY <4>1, <4>2
    <3> QED BY <2>1, <2>2, <2>4, <2>5, <3>1, <3>2
  <2>7. /\ w \in Seq(Replicas) /\ Len(w) = Len(entries) - 1
        /\ \A i \in 1 .. Len(w) : w[i] = IF i < k THEN entries[i] ELSE entries[i + 1]
    BY <2>6 DEF u, v
  <2> HIDE DEF w
  <2>8. ASSUME NEW i \in 1 .. Len(w), NEW j \in 1 .. Len(w), w[i] = w[j] PROVE i = j
    BY <2>1, <2>2, <2>7, <2>8
  <2>9. ASSUME NEW i \in 1 .. Len(w) PROVE w[i] # r
    BY <2>1, <2>2, <2>7, <2>9
  <2> QED BY <2>3, <2>7, <2>8, <2>9
<1>2. CASE r \notin F!Range(entries)
  <2>1. DOMAIN entries = 1 .. Len(entries)
    OBVIOUS
  <2> QED BY <1>2, <2>1 DEF F!Without, F!Range
<1> QED BY <1>1, <1>2

LEMMA PicksEndpoint ==
  ASSUME PoolTypes, entries # <<>>
  PROVE  F!Endpoint \in Replicas
<1>1. Len(entries) \in Nat \ {0} /\ cursor % Len(entries) \in 0 .. Len(entries) - 1
  BY CursorAdvances
<1> QED BY <1>1 DEF F!Endpoint, PoolTypes

LEMMA PoolInit == ASSUME F!Init PROVE PoolInv
BY DoorConstants DEF F!FrontDoorAssumption, F!Init, PoolInv, PoolTypes, RoundKept

LEMMA NothingServed == ASSUME PoolTypes, served = {} PROVE RoundKept
<1> SUFFICES ASSUME entries # <<>> PROVE 0 \in 0 .. Len(entries) - 1 /\ Served(0) = {}
  BY DEF RoundKept
<1>1. Len(entries) \in Nat \ {0} /\ cursor % Len(entries) \in 0 .. Len(entries) - 1
  BY CursorAdvances
<1> QED BY <1>1 DEF Served, Behind

LEMMA NothingServedNext == (PoolTypes /\ served = {} => RoundKept)'
BY NothingServed, PTL

(* The endpoint that is picked is the one the round has gone longest       *)
(* without.                                                                *)
LEMMA PickKeeps ==
  ASSUME PoolInv, NEW c \in Clients, entries # <<>>, F!Picks(c), entries' = entries
  PROVE  F!Endpoint \notin served /\ RoundKept' /\ PoolTypes'
<1> DEFINE n == Len(entries)
           p == cursor % n
           q == cursor' % n
           e == F!Endpoint
           all == served \cup {e}
           near(m, b) == {entries[i] : i \in {j \in 1 .. n : Behind(j, m, n) <= b}}
<1>1. n \in Nat \ {0} /\ p \in 0 .. n - 1 /\ cursor' \in 0 .. Wrap - 1
  BY CursorAdvances DEF PoolInv, F!Picks
<1>2. cursor # Wrap - 1 => q = IF p + 1 = n THEN 0 ELSE p + 1
  BY CursorAdvances DEF PoolInv, F!Picks
<1>3. e = entries[p + 1]
  BY DEF F!Endpoint
<1>4. PICK k \in 0 .. n - 1 : served = near(p, k)
  BY DEF PoolInv, RoundKept, Served
<1>5. \A i, j \in 1 .. n : entries[i] = entries[j] => i = j
  BY DEF PoolInv, PoolTypes
<1>6. F!Range(entries) = {entries[i] : i \in 1 .. n}
  <2>1. DOMAIN entries = 1 .. n
    BY DEF PoolInv, PoolTypes
  <2> QED BY <2>1 DEF F!Range
<1>7. served' = IF all = F!Range(entries) \/ cursor = Wrap - 1 THEN {} ELSE all
  BY DEF F!Picks
<1>8. RoundKept' <=> \E b \in 0 .. n - 1 : served' = near(q, b)
  BY DEF RoundKept, Served
<1> HIDE DEF n, p, q, e
<1>9. e \notin served
  BY <1>1, <1>3, <1>4, <1>5 DEF Behind
<1>10. ASSUME cursor # Wrap - 1 PROVE RoundKept'
  <2>1. q \in 0 .. n - 1 /\ q = IF p + 1 = n THEN 0 ELSE p + 1
    BY <1>1, <1>2, <1>10
  <2>2. all = near(q, k + 1)
    <3>1. \A j \in 1 .. n : Behind(j, q, n) = IF j = p + 1 THEN 1 ELSE Behind(j, p, n) + 1
      BY <1>1, <2>1 DEF Behind
    <3>2. \A j \in 1 .. n : Behind(j, q, n) <= k + 1 <=> Behind(j, p, n) <= k \/ j = p + 1
      BY <1>1, <3>1 DEF Behind
    <3>3. p + 1 \in 1 .. n
      BY <1>1
    <3> QED BY <1>3, <1>4, <3>2, <3>3
  <2>3. ASSUME k + 1 = n PROVE RoundKept'
    <3>1. \A j \in 1 .. n : Behind(j, q, n) \in 1 .. n
      BY <1>1, <2>1 DEF Behind
    <3>2. all = F!Range(entries)
      <4>1. {j \in 1 .. n : Behind(j, q, n) <= n} = 1 .. n
        BY <1>1, <3>1
      <4>2. all = near(q, n)
        BY <2>2, <2>3
      <4> QED BY <1>6, <4>1, <4>2
    <3>3. near(q, 0) = {}
      BY <1>1, <3>1
    <3>4. 0 \in 0 .. n - 1
      BY <1>1
    <3> QED BY <1>7, <1>8, <3>2, <3>3, <3>4
  <2>4. ASSUME k + 1 # n PROVE RoundKept'
    <3>1. q + 1 \in 1 .. n /\ Behind(q + 1, q, n) = n
      BY <1>1, <2>1 DEF Behind
    <3>2. entries[q + 1] \notin near(q, k + 1)
      <4>1. ASSUME NEW j \in 1 .. n, Behind(j, q, n) <= k + 1, entries[j] = entries[q + 1] PROVE FALSE
        BY <1>1, <1>5, <2>4, <3>1, <4>1
      <4> QED BY <4>1
    <3>3. all # F!Range(entries)
      BY <1>6, <2>2, <3>1, <3>2
    <3>4. k + 1 \in 0 .. n - 1
      BY <1>1, <2>4
    <3> QED BY <1>7, <1>8, <1>10, <2>2, <3>3, <3>4
  <2> QED BY <2>3, <2>4
<1>11. PoolTypes'
  BY <1>1 DEF PoolInv, PoolTypes
<1>12. ASSUME cursor = Wrap - 1 PROVE RoundKept'
  <2>1. served' = {}
    BY <1>7, <1>12
  <2> QED BY <1>11, <2>1, NothingServedNext
<1> QED BY <1>9, <1>10, <1>11, <1>12 DEF e

LEMMA PoolStep == ASSUME PoolInv, [F!Next]_F!vars PROVE PoolInv'
<1> USE DEF PoolInv
<1>1. ASSUME NEW r \in Replicas, F!Register(r) PROVE PoolInv'
  <2> DEFINE w == F!Without(r)
  <2>1. /\ w \in Seq(Replicas)
        /\ \A i, j \in 1 .. Len(w) : w[i] = w[j] => i = j
        /\ \A i \in 1 .. Len(w) : w[i] # r
    BY WithoutKeeps DEF PoolTypes
  <2>2. entries' = Append(w, r) /\ served' = {} /\ cursor' = cursor
    BY <1>1 DEF F!Register
  <2> HIDE DEF w
  <2>3. /\ entries' \in Seq(Replicas) /\ Len(entries') = Len(w) + 1 /\ Len(w) \in Nat
        /\ \A i \in 1 .. Len(w) + 1 : entries'[i] = IF i = Len(w) + 1 THEN r ELSE w[i]
    BY <2>1, <2>2
  <2>4. \A i, j \in 1 .. Len(entries') : entries'[i] = entries'[j] => i = j
    BY <2>1, <2>3
  <2>5. PoolTypes'
    BY <2>2, <2>3, <2>4 DEF PoolTypes
  <2> QED BY <2>2, <2>5, NothingServedNext
<1>2. ASSUME NEW r \in Replicas, F!Unregister(r) PROVE PoolInv'
  <2>1. entries' = F!Without(r) /\ served' = {} /\ cursor' = cursor
    BY <1>2 DEF F!Unregister
  <2>2. PoolTypes'
    BY <2>1, WithoutKeeps DEF PoolTypes
  <2> QED BY <2>1, <2>2, NothingServedNext
<1>3. ASSUME NEW c \in Clients, F!Dispatches(c) PROVE PoolInv'
  <2>1. CASE F!Picks(c) /\ entries # <<>>
    <3>1. entries' = entries
      BY <1>3 DEF F!Dispatches
    <3> QED BY <2>1, <3>1, PickKeeps
  <2>2. CASE ~(F!Picks(c) /\ entries # <<>>)
    <3>1. UNCHANGED <<entries, cursor, served>>
      BY <1>3, <2>2 DEF F!Dispatches
    <3> QED BY <3>1 DEF PoolTypes, RoundKept, Served
  <2> QED BY <2>1, <2>2
<1>4. CASE UNCHANGED <<entries, cursor, served>>
  BY <1>4 DEF PoolTypes, RoundKept, Served
<1>5. CASE F!Command \/ F!Signal \/ UNCHANGED F!vars \/ \E r \in Replicas : F!ReplicaGone(r)
  BY <1>4, <1>5
  DEF F!Command, F!Signal, F!vars, F!ReplicaGone, F!Binds, F!ContainerRuns, F!RieReady,
      F!LambdaFails,
      F!Boots, F!CloseListeners, F!ListenersClosed, F!StopLambdas, F!poolVars
<1>6. ASSUME NEW c \in Clients,
             \/ F!Arrives(c) \/ F!AuthChecked(c) \/ F!Responds(c) \/ F!Finishes(c)
             \/ F!UpstreamCloses(c) \/ F!TimesOut(c) \/ F!ClientCloses(c)
      PROVE  PoolInv'
  BY <1>4, <1>6 DEF F!Arrives, F!AuthChecked, F!Responds, F!Finishes, F!UpstreamCloses,
      F!TimesOut,
     F!ClientCloses, F!poolVars
<1> QED BY <1>1, <1>2, <1>3, <1>5, <1>6 DEF F!Next, F!Handling

-----------------------------------------------------------------------------
(* Its clients and its Lambda targets.                                     *)

Phases ==
  {"binding", "failed", "booting", "undoing", "serving", "replicas", "servers", "closing",
   "lambdas", "failing", "done"}
DoorTypes ==
  /\ phase \in Phases /\ next \in 0 .. Len(Lambdas)
  /\ stage \in [Clients -> {"none", "over", "auth", "checked", "invoking", "waiting", "flowing"}]
  /\ socket \in [Clients -> {"none", "open", "ended", "gone"}]
  /\ upstream \in [Clients -> Replicas \cup {Nothing}]

(* An upstream connection is that of a handler that waits for it, and a    *)
(* handler that is not over has its client, unless the client left before  *)
(* anyone listened.                                                        *)
ClientsHeld ==
  \A c \in Clients :
    /\ upstream[c] # Nothing => stage[c] \in {"waiting", "flowing"}
    /\ stage[c] \in {"auth", "checked", "waiting", "flowing"} => socket[c] = "open" \/ c \in early

(* The Lambda targets that are up have their containers until every        *)
(* connection has ended.                                                   *)
Unheard == {"lambdas", "failing", "done", "failed"}
TargetsHeld ==
  /\ phase \in Unheard => \A c \in Clients : socket[c] \in {"none", "gone"}
  /\ phase \notin Unheard => \A i \in 1 .. next : Lambdas[i] \in containers
  /\ phase \in {"binding", "done", "failed"} => containers = {}
  /\ phase = "binding" => next = 0 /\ \A c \in Clients : socket[c] = "none" /\ stage[c] = "none"
  /\ \A c \in Clients : stage[c] = "invoking" => next > 0

DoorInv == DoorTypes /\ ClientsHeld /\ TargetsHeld

(* No target boots twice, and a prefix of the targets is made of them.     *)
LEMMA TargetsDiffer ==
  /\ Len(Lambdas) \in Nat
  /\ \A i, j \in 1 .. Len(Lambdas) : Lambdas[i] = Lambdas[j] => i = j
BY DoorConstants DEF F!FrontDoorAssumption, F!IsInjective

LEMMA NoTargetYet == F!Range(SubSeq(Lambdas, 1, 0)) = {}
BY DoorConstants DEF F!FrontDoorAssumption, F!Range

LEMMA DoorInit == ASSUME F!Init PROVE DoorInv
BY TargetsDiffer DEF F!Init, DoorInv, DoorTypes, Phases, ClientsHeld, TargetsHeld

LEMMA CommandKeeps == ASSUME DoorInv, F!Command PROVE DoorInv'
<1> USE DEF DoorInv, DoorTypes, Phases, ClientsHeld, TargetsHeld, Unheard, F!clientVars,
    F!poolVars
<1>1. CASE F!Binds
  BY <1>1, TargetsDiffer DEF F!Binds
<1>2. CASE F!ContainerRuns
  BY <1>2, TargetsDiffer DEF F!ContainerRuns
<1>3. CASE F!RieReady
  BY <1>3, TargetsDiffer DEF F!RieReady
<1>4. CASE F!LambdaFails
  BY <1>4, TargetsDiffer DEF F!LambdaFails
<1>5. CASE F!Boots
  BY <1>5, TargetsDiffer DEF F!Boots
<1>6. CASE F!CloseListeners
  BY <1>6 DEF F!CloseListeners
<1>7. CASE F!ListenersClosed
  BY <1>7 DEF F!ListenersClosed
<1>8. CASE F!StopLambdas
  BY <1>8 DEF F!StopLambdas
<1> QED BY <1>1, <1>2, <1>3, <1>4, <1>5, <1>6, <1>7, <1>8 DEF F!Command

LEMMA ReplicasKeep ==
  ASSUME DoorInv, NEW r \in Replicas, F!Register(r) \/ F!Unregister(r) \/ F!ReplicaGone(r)
  PROVE  DoorInv'
BY DEF DoorInv, DoorTypes, ClientsHeld, TargetsHeld, F!Register, F!Unregister, F!ReplicaGone,
       F!clientVars, F!bootVars

LEMMA ClientsKeep ==
  ASSUME DoorInv, PoolInv, NEW c \in Clients,
         \/ F!Arrives(c) \/ F!Handling(c) \/ F!Responds(c) \/ F!Finishes(c)
         \/ F!UpstreamCloses(c) \/ F!TimesOut(c) \/ F!ClientCloses(c)
  PROVE  DoorInv'
<1> USE DEF DoorInv, DoorTypes, ClientsHeld, TargetsHeld, Unheard, F!poolVars, F!bootVars,
    F!Over
<1>1. CASE F!Arrives(c)
  BY <1>1 DEF F!Arrives, F!Listening
<1>2. CASE F!AuthChecked(c)
  BY <1>2 DEF F!AuthChecked, F!Rejected
<1>3. CASE F!Dispatches(c)
  BY <1>3, NoTargetYet, PicksEndpoint DEF F!Dispatches, F!Rejected, F!Picks, PoolInv
<1>4. CASE F!Responds(c)
  BY <1>4 DEF F!Responds
<1>5. CASE F!Finishes(c)
  BY <1>5 DEF F!Finishes
<1>6. CASE F!UpstreamCloses(c)
  BY <1>6 DEF F!UpstreamCloses
<1>7. CASE F!TimesOut(c)
  BY <1>7 DEF F!TimesOut
<1>8. CASE F!ClientCloses(c)
  BY <1>8 DEF F!ClientCloses, F!SocketClosed
<1> QED BY <1>1, <1>2, <1>3, <1>4, <1>5, <1>6, <1>7, <1>8 DEF F!Handling

LEMMA DoorStep == ASSUME DoorInv, PoolInv, [F!Next]_F!vars PROVE DoorInv' /\ PoolInv'
<1>1. ASSUME F!Signal \/ UNCHANGED F!vars PROVE DoorInv'
  BY <1>1 DEF F!Signal, F!vars, F!bootVars, F!poolVars, F!clientVars, DoorInv, DoorTypes,
      Phases, ClientsHeld,
     TargetsHeld, Unheard
<1> QED BY <1>1, CommandKeeps, ReplicasKeep, ClientsKeep, PoolStep DEF F!Next

LEMMA DoorSafety == ASSUME DoorInv PROVE F!UpstreamReleased /\ F!LambdasHeld
BY DEF DoorInv, DoorTypes, ClientsHeld, TargetsHeld, Unheard, F!UpstreamReleased, F!LambdasHeld

(* The replica a client is given is one this round has not served yet.     *)
LEMMA DoorRound ==
  ASSUME DoorInv, PoolInv, F!Next, NEW c \in Clients, stage[c] = "checked", stage'[c] = "waiting"
  PROVE  upstream'[c] \notin served
<1> USE DEF DoorInv, DoorTypes
<1>1. F!Dispatches(c)
  <2>1. ASSUME NEW d \in Clients,
               \/ F!Arrives(d) \/ F!AuthChecked(d) \/ F!Responds(d) \/ F!Finishes(d)
               \/ F!UpstreamCloses(d) \/ F!TimesOut(d) \/ F!ClientCloses(d)
        PROVE  FALSE
    BY <2>1 DEF F!Arrives, F!AuthChecked, F!Responds, F!Finishes, F!UpstreamCloses, F!TimesOut,
       F!ClientCloses, F!SocketClosed, F!Rejected, F!Over
  <2>2. ~F!Command /\ ~F!Signal
    BY DEF F!Command, F!Signal, F!Binds, F!ContainerRuns, F!RieReady, F!LambdaFails, F!Boots,
       F!CloseListeners, F!ListenersClosed, F!StopLambdas, F!clientVars
  <2>3. \A r \in Replicas : ~F!Register(r) /\ ~F!Unregister(r) /\ ~F!ReplicaGone(r)
    BY DEF F!Register, F!Unregister, F!ReplicaGone, F!clientVars
  <2>4. ASSUME NEW d \in Clients, d # c, F!Dispatches(d) PROVE FALSE
    BY <2>4 DEF F!Dispatches, F!Rejected, F!Over, F!Picks
  <2> QED BY <2>1, <2>2, <2>3, <2>4 DEF F!Next, F!Handling
<1>2. F!Picks(c) /\ entries # <<>> /\ entries' = entries
  BY <1>1 DEF F!Dispatches, F!Rejected, F!Over
<1>3. upstream'[c] = F!Endpoint
  BY <1>2 DEF F!Picks
<1> QED BY <1>2, <1>3, PickKeeps

-----------------------------------------------------------------------------
(* The authorizers.                                                        *)

AuthTypes ==
  /\ kind \in A!LambdaKinds \cup A!ApiKinds \cup A!ServeKinds
  /\ ttl \in Nat /\ clock \in Nat
  /\ granted \in [A!Callers -> [A!Routes -> Nat \cup {Nothing}]]
  /\ failedAt \in [A!Issuers -> Nat \cup {Nothing}]
  /\ DOMAIN keys = A!Issuers
  /\ DOMAIN step = Requests /\ DOMAIN request = Requests

(* A verdict that is in force allows nothing the authorizer has not allowed *)
(* that identity within the TTL, whichever request asked last.             *)
Backed(kept, identity, now, grants) ==
  /\ kept.expiresAt \in Nat
  /\ kind \in A!LambdaKinds /\ kept.expiresAt > now =>
       /\ identity \in A!Callers
       /\ \A p \in A!Routes : A!Permits(kept.verdict, p) =>
            grants[identity][p] \in 0 .. now /\ kept.expiresAt <= grants[identity][p] + ttl
VerdictsHold ==
  \A key \in DOMAIN verdicts : key.scheme = "" /\ Backed(verdicts[key], key.identity, clock, granted)

(* An entry that lets everyone pass is no older than the last failure.     *)
KeysHold ==
  \A i \in A!Issuers : keys[i] # Nothing =>
    /\ keys[i].expiresAt \in Nat
    /\ keys[i].passThrough /\ keys[i].expiresAt > clock =>
         failedAt[i] \in 0 .. clock /\ keys[i].expiresAt <= failedAt[i] + FailureTtl

(* What a request waits for is what its authorizer asks.                   *)
RequestsWait ==
  \A r \in Requests :
    /\ step[r] = "invoking" =>
         kind \in A!LambdaKinds /\ request[r].identity \in A!Callers /\ request[r].route \in A!Routes
    /\ step[r] = "discovering" => kind = "agentcore"
    /\ step[r] = "fetching" =>
         kind \notin A!LambdaKinds /\ A!IssuerOf(request[r].identity) \in A!Issuers

AuthInv == AuthTypes /\ VerdictsHold /\ KeysHold /\ RequestsWait /\ A!LambdaSaidSo /\ A!BlindOnlyBriefly

LEMMA AuthConstants == A!AuthorizersAssumption
BY SharedAssumption DEF SharedAssumption

(* An entry stays backed while what it rests on is kept or renewed.        *)
LEMMA BackedStill ==
  ASSUME NEW e, NEW i, NEW t \in Nat, NEW u \in Nat, t <= u, ttl \in Nat, NEW g, NEW h,
         Backed(e, i, t, g),
         \A p \in A!Routes :
           i \in A!Callers /\ e.expiresAt > u /\ g[i][p] \in 0 .. t /\ e.expiresAt <= g[i][p] + ttl =>
             h[i][p] \in {g[i][p], u}
  PROVE  Backed(e, i, u, h)
<1>1. e.expiresAt \in Nat
  BY DEF Backed
<1>2. ASSUME kind \in A!LambdaKinds, e.expiresAt > u, NEW p \in A!Routes, A!Permits(e.verdict, p)
      PROVE  h[i][p] \in 0 .. u /\ e.expiresAt <= h[i][p] + ttl
  <2>1. e.expiresAt > t
    BY <1>1, <1>2
  <2>2. i \in A!Callers /\ g[i][p] \in 0 .. t /\ e.expiresAt <= g[i][p] + ttl
    BY <1>2, <2>1 DEF Backed
  <2>3. h[i][p] \in {g[i][p], u}
    BY <1>2, <2>2
  <2> HIDE DEF Backed
  <2> QED BY <1>1, <2>2, <2>3
<1>3. ASSUME kind \in A!LambdaKinds, e.expiresAt > u PROVE i \in A!Callers
  BY <1>1, <1>3 DEF Backed
<1> QED BY <1>1, <1>2, <1>3 DEF Backed

LEMMA AuthInit == ASSUME A!Init PROVE AuthInv
<1> USE AuthConstants
    DEF A!AuthorizersAssumption, A!Init, A!LambdaKinds, A!ApiKinds, A!ServeKinds, A!Issuers,
        A!Callers,
        A!Routes
<1>1. AuthTypes
  BY DEF AuthTypes
<1>2. VerdictsHold
  <2>1. DOMAIN <<>> = {}
    OBVIOUS
  <2> QED BY <2>1 DEF VerdictsHold
<1>3. KeysHold
  BY DEF KeysHold
<1>4. RequestsWait
  BY DEF RequestsWait
<1>5. A!LambdaSaidSo /\ A!BlindOnlyBriefly
  BY DEF A!LambdaSaidSo, A!BlindOnlyBriefly
<1> QED BY <1>1, <1>2, <1>3, <1>4, <1>5 DEF AuthInv

LEMMA TickVerdicts == ASSUME AuthInv, A!Tick PROVE VerdictsHold'
<1>1. clock \in Nat /\ clock' \in Nat /\ clock <= clock' /\ ttl \in Nat /\ kind' = kind /\ ttl' = ttl
  BY DEF AuthInv, AuthTypes, A!Tick
<1>2. ASSUME NEW key \in DOMAIN verdicts'
      PROVE  /\ verdicts'[key] = verdicts[key] /\ verdicts[key].expiresAt > clock'
             /\ key.scheme = "" /\ Backed(verdicts[key], key.identity, clock, granted)
  BY <1>2 DEF AuthInv, VerdictsHold, A!Tick
<1>3. ASSUME NEW i \in A!Callers, NEW p \in A!Routes, granted[i][p] \in 0 .. clock,
             NEW t \in Nat, t > clock', t <= granted[i][p] + ttl
      PROVE  granted'[i][p] = granted[i][p]
  <2>1. granted[i][p] # Nothing /\ clock' - granted[i][p] < ttl
    <3>1. Nothing \notin Nat
      BY AuthConstants DEF A!AuthorizersAssumption
    <3> QED BY <1>1, <1>3, <3>1
  <2> QED BY <1>3, <2>1 DEF A!Tick
<1>4. ASSUME NEW key \in DOMAIN verdicts'
      PROVE  Backed(verdicts[key], key.identity, clock', granted')
  <2>1. PICK e, i : e = verdicts[key] /\ i = key.identity
    OBVIOUS
  <2>2. e.expiresAt > clock' /\ Backed(e, i, clock, granted)
    BY <1>2, <1>4, <2>1
  <2>3. e.expiresAt \in Nat
    BY <2>2 DEF Backed
  <2>4. Backed(e, i, clock', granted')
    BY <1>1, <1>3, <2>2, <2>3, BackedStill
  <2> QED BY <2>1, <2>4
<1> QED BY <1>1, <1>2, <1>4 DEF VerdictsHold, Backed

LEMMA TickKeeps == ASSUME AuthInv, A!Tick PROVE AuthInv'
<1> USE AuthConstants DEF A!AuthorizersAssumption, A!Tick, AuthInv, A!Issuers, A!Callers,
    A!Routes
<1>1. AuthTypes'
  BY DEF AuthTypes
<1>2. VerdictsHold'
  BY TickVerdicts
<1>3. KeysHold'
  BY DEF KeysHold, AuthTypes
<1>4. RequestsWait'
  BY DEF RequestsWait, A!IssuerOf
<1>5. A!LambdaSaidSo' /\ A!BlindOnlyBriefly'
  BY DEF A!LambdaSaidSo, A!BlindOnlyBriefly
<1> QED BY <1>1, <1>2, <1>3, <1>4, <1>5

LEMMA LambdaArrivesKeeps ==
  ASSUME AuthInv, NEW r \in Requests, kind \in A!LambdaKinds, step[r] = "idle",
         NEW i \in A!Callers, NEW p \in A!Routes,
         A!LambdaArrives(r, [identity |-> i, route |-> p]),
         UNCHANGED <<kind, ttl, clock, keys, granted, failedAt>>
  PROVE  AuthInv'
<1> DEFINE q == [identity |-> i, route |-> p]
<1> USE AuthConstants DEF A!AuthorizersAssumption, AuthInv
<1>0. verdicts' = verdicts
  BY DEF A!LambdaArrives
<1>1. AuthTypes' /\ VerdictsHold' /\ KeysHold'
  BY <1>0 DEF AuthTypes, VerdictsHold, Backed, KeysHold, A!LambdaArrives, A!Answers, A!Waits
<1>2. RequestsWait'
  BY DEF AuthTypes, RequestsWait, A!LambdaArrives, A!Answers, A!Waits, A!IssuerOf
<1>3. A!LambdaSaidSo'
  <2>1. CASE admitted' = Nothing
    BY <2>1 DEF A!LambdaSaidSo
  <2>2. CASE admitted' # Nothing
    <3> DEFINE key == A!Bare(i)
    <3>1. /\ admitted' = q
          /\ key \in DOMAIN verdicts /\ verdicts[key].expiresAt > clock
          /\ A!Permits(verdicts[key].verdict, p)
      BY <2>2 DEF A!LambdaArrives, A!Answers, A!Waits, A!Lookup, A!Evaluated
    <3>2. key.identity = i
      BY DEF A!Bare
    <3>3. granted[i][p] \in 0 .. clock /\ verdicts[key].expiresAt <= granted[i][p] + ttl
          /\ verdicts[key].expiresAt \in Nat
      BY <3>1, <3>2 DEF VerdictsHold, Backed
    <3> QED BY <3>1, <3>3 DEF A!LambdaSaidSo, A!Fresh, AuthTypes
  <2> QED BY <2>1, <2>2
<1>4. A!BlindOnlyBriefly'
  BY DEF A!BlindOnlyBriefly
<1> QED BY <1>1, <1>2, <1>3, <1>4

LEMMA ReturnsKeep ==
  ASSUME AuthInv, NEW r \in Requests, A!AuthorizerReturns(r) PROVE AuthInv'
<1> USE AuthConstants DEF A!AuthorizersAssumption, AuthInv
<1> DEFINE q == request[r]
<1>1. /\ kind \in A!LambdaKinds /\ q.identity \in A!Callers /\ q.route \in A!Routes
      /\ UNCHANGED <<kind, ttl, clock, keys, failedAt>>
  BY DEF RequestsWait, A!AuthorizerReturns
<1>2. PICK v \in A!Verdicts :
        LET allow == A!Permits(v, q.route) IN
        /\ verdicts' = A!Stored(A!Bare(q.identity), [v EXCEPT !.allow = allow], ttl)
        /\ A!Answers(r, q, allow)
        /\ granted' = [granted EXCEPT ![q.identity] =
              [p \in A!Routes |-> IF A!Permits(v, p) THEN clock ELSE @[p]]]
  BY DEF A!AuthorizerReturns
<1> DEFINE w == [v EXCEPT !.allow = A!Permits(v, q.route)]
<1>3. \A p \in A!Routes : A!Permits(w, p) => A!Permits(v, p)
  BY <1>1 DEF A!Permits, A!Verdicts
<1>4. AuthTypes'
  BY <1>1, <1>2 DEF AuthTypes, A!Answers
<1>5. VerdictsHold'
  <2> SUFFICES ASSUME NEW key \in DOMAIN verdicts'
               PROVE  key.scheme = "" /\ Backed(verdicts'[key], key.identity, clock, granted')
    BY <1>1 DEF VerdictsHold, Backed
  <2>0. clock \in Nat /\ ttl \in Nat
    BY DEF AuthTypes
  <2>1. CASE key \in DOMAIN verdicts /\ verdicts'[key] = verdicts[key]
    <3>1. PICK e, i : e = verdicts[key] /\ i = key.identity
      OBVIOUS
    <3>2. key.scheme = "" /\ Backed(e, i, clock, granted)
      BY <2>1, <3>1 DEF VerdictsHold
    <3>3. ASSUME NEW p \in A!Routes, i \in A!Callers, granted[i][p] \in 0 .. clock
          PROVE  granted'[i][p] \in {granted[i][p], clock}
      BY <1>1, <1>2, <3>3 DEF AuthTypes
    <3>4. clock <= clock
      BY <2>0
    <3>5. Backed(e, i, clock, granted')
      <4> HIDE DEF AuthInv
      <4> QED BY <2>0, <3>2, <3>3, <3>4, BackedStill
    <3> QED BY <2>1, <3>1, <3>2, <3>5
  <2>2. CASE key = A!Bare(q.identity) /\ verdicts'[key] = [verdict |-> w, expiresAt |-> clock + ttl]
    <3> DEFINE e == verdicts'[key]
    <3>1. key.scheme = "" /\ key.identity = q.identity
      BY <2>2 DEF A!Bare
    <3>2. e.verdict = w /\ e.expiresAt = clock + ttl
      BY <2>2
    <3>3. \A p \in A!Routes : A!Permits(w, p) => granted'[q.identity][p] = clock
      BY <1>1, <1>2, <1>3 DEF AuthTypes
    <3> HIDE DEF e, w, q
    <3>4. Backed(e, q.identity, clock, granted')
      BY <1>1, <2>0, <3>2, <3>3 DEF Backed
    <3> QED BY <3>1, <3>4 DEF e
  <2> QED BY <1>2, <2>1, <2>2 DEF A!Stored
<1>6. KeysHold' /\ RequestsWait'
  BY <1>1, <1>2 DEF AuthTypes, KeysHold, RequestsWait, A!Answers, A!IssuerOf
<1>7. A!LambdaSaidSo'
  BY <1>1, <1>2 DEF AuthTypes, A!Answers, A!LambdaSaidSo, A!Fresh
<1>8. A!BlindOnlyBriefly'
  BY <1>1 DEF A!BlindOnlyBriefly
<1> QED BY <1>4, <1>5, <1>6, <1>7, <1>8

(* The request q is allowed by an entry of its issuer's keys.              *)
LEMMA DecidesKeeps ==
  ASSUME AuthInv, NEW r \in Requests, NEW q, NEW kept, A!Decides(r, q, kept),
         kind \notin A!LambdaKinds, A!IssuerOf(q.identity) \in A!Issuers,
         UNCHANGED <<kind, ttl, clock, granted>>,
         failedAt' \in [A!Issuers -> Nat \cup {Nothing}], KeysHold', DOMAIN keys' = A!Issuers,
         kept.passThrough =>
           LET since == failedAt'[A!IssuerOf(q.identity)] IN since \in 0 .. clock /\ clock < since + FailureTtl
  PROVE  AuthInv'
<1> USE AuthConstants DEF A!AuthorizersAssumption, AuthInv
<1>1. AuthTypes' /\ RequestsWait'
  BY DEF AuthTypes, RequestsWait, A!Decides, A!Allows, A!Denies, A!Answers, A!IssuerOf
<1>2. VerdictsHold'
  <2>1. CASE verdicts' = verdicts
    BY <2>1 DEF VerdictsHold, Backed
  <2>2. CASE verdicts' # verdicts
    <3> DEFINE key == A!Bare(q.identity)  s == A!VerdictSeconds(q.identity)
    <3>1. verdicts' = A!Stored(key, [policy |-> Nothing, allow |-> TRUE], s) /\ s # 0
      BY <2>2 DEF A!Decides, A!Allows, A!Denies, A!Stored
    <3>2. s \in Nat /\ clock \in Nat
      BY DEF A!VerdictSeconds, A!Smaller, AuthTypes
    <3>3. key.scheme = ""
      BY DEF A!Bare
    <3> HIDE DEF key, s
    <3>4. \A k \in DOMAIN verdicts' :
            \/ k = key /\ verdicts'[k].expiresAt = clock + s
            \/ k \in DOMAIN verdicts /\ verdicts'[k] = verdicts[k]
      BY <3>1 DEF A!Stored
    <3>5. \A k \in DOMAIN verdicts : k.scheme = "" /\ verdicts[k].expiresAt \in Nat
      BY DEF VerdictsHold, Backed
    <3>6. ASSUME NEW k \in DOMAIN verdicts' PROVE k.scheme = "" /\ verdicts'[k].expiresAt \in Nat
      <4>1. CASE k = key /\ verdicts'[k].expiresAt = clock + s
        <5>1. clock + s \in Nat
          BY <3>2
        <5> QED BY <3>3, <4>1, <5>1
      <4>2. CASE k \in DOMAIN verdicts /\ verdicts'[k] = verdicts[k]
        BY <3>5, <4>2
      <4> QED BY <3>4, <3>6, <4>1, <4>2
    <3> QED BY <3>6 DEF VerdictsHold, Backed
  <2> QED BY <2>1, <2>2
<1>3. A!LambdaSaidSo'
  BY DEF A!LambdaSaidSo
<1>4. A!BlindOnlyBriefly'
  BY DEF A!BlindOnlyBriefly, A!Decides, A!Allows, A!Denies, A!Answers, A!Fresh, A!Proven,
      A!IssuerOf, AuthTypes
<1> QED BY <1>1, <1>2, <1>3, <1>4

LEMMA AsksKeeps ==
  ASSUME AuthInv, NEW r \in Requests, NEW q, A!AsksForKeys(r, q),
         kind \notin A!LambdaKinds, A!IssuerOf(q.identity) \in A!Issuers,
         UNCHANGED <<kind, ttl, clock, granted, keys, failedAt>>
  PROVE  AuthInv'
<1> USE AuthConstants DEF A!AuthorizersAssumption, AuthInv
<1> DEFINE issuer == A!IssuerOf(q.identity)
<1>1. CASE A!Known(issuer)
  <2>1. A!Decides(r, q, keys[issuer]) /\ keys[issuer].expiresAt > clock
    BY <1>1 DEF A!AsksForKeys, A!Known
  <2>2. keys[issuer].passThrough => failedAt[issuer] \in 0 .. clock /\ clock < failedAt[issuer] + FailureTtl
    BY <1>1, <2>1 DEF A!Known, KeysHold, AuthTypes
  <2>3. KeysHold' /\ DOMAIN keys' = A!Issuers /\ failedAt' \in [A!Issuers -> Nat \cup {Nothing}]
    BY DEF AuthTypes, KeysHold
  <2> QED BY <2>1, <2>2, <2>3, DecidesKeeps
<1>2. CASE ~A!Known(issuer)
  BY <1>2 DEF A!AsksForKeys, A!Waits, AuthTypes, VerdictsHold, Backed, KeysHold, RequestsWait,
     A!LambdaSaidSo, A!BlindOnlyBriefly, A!IssuerOf
<1> QED BY <1>1, <1>2

LEMMA JwtArrivesKeeps ==
  ASSUME AuthInv, NEW r \in Requests, NEW q, A!JwtArrives(r, q), kind \notin A!LambdaKinds,
         UNCHANGED <<kind, ttl, clock, keys, granted, failedAt>>
  PROVE  AuthInv'
<1> USE AuthConstants DEF A!AuthorizersAssumption, AuthInv
<1> DEFINE token == q.identity
<1>1. A!Lookup(A!LookupKey(token)) = Nothing
  <2>1. A!LookupKey(token).scheme # ""
    BY DEF A!LookupKey, A!Header
  <2> QED BY <2>1 DEF A!Lookup, VerdictsHold
<1>2. CASE A!Denies(r, q)
  BY <1>2 DEF A!Denies, A!Answers, AuthTypes, VerdictsHold, Backed, KeysHold, RequestsWait,
     A!LambdaSaidSo, A!BlindOnlyBriefly, A!IssuerOf
<1>3. CASE kind = "agentcore" /\ A!Waits(r, q, "discovering") /\ UNCHANGED verdicts
  BY <1>3 DEF A!Waits, AuthTypes, VerdictsHold, Backed, KeysHold, RequestsWait,
     A!LambdaSaidSo, A!BlindOnlyBriefly, A!IssuerOf
<1>4. CASE A!IssuerOf(token) # Nothing /\ A!AsksForKeys(r, q)
  <2>1. A!IssuerOf(token) \in A!Issuers
    BY <1>4 DEF A!IssuerOf, A!Issuers
  <2> QED BY <1>4, <2>1, AsksKeeps
<1> QED BY <1>1, <1>2, <1>3, <1>4 DEF A!JwtArrives

LEMMA DiscoveredKeeps == ASSUME AuthInv, NEW r \in Requests, A!Discovered(r) PROVE AuthInv'
<1> USE AuthConstants DEF A!AuthorizersAssumption, AuthInv
<1> DEFINE q == request[r]
<1>1. kind = "agentcore" /\ kind \notin A!LambdaKinds /\ UNCHANGED <<kind, ttl, clock, keys, granted>>
  BY DEF A!Discovered, RequestsWait, A!LambdaKinds
<1>2. A!IssuerOf(q.identity) = "pool1" /\ "pool1" \in A!Issuers
  BY <1>1 DEF A!IssuerOf, A!Issuers
<1>3. CASE A!AsksForKeys(r, q) /\ UNCHANGED failedAt
  BY <1>1, <1>2, <1>3, AsksKeeps
<1>4. CASE A!Allows(r, q) /\ failedAt' = [failedAt EXCEPT !["pool1"] = clock]
  <2> DEFINE kept == [passThrough |-> TRUE]
  <2>1. A!Decides(r, q, kept)
    BY <1>4 DEF A!Decides
  <2>2. clock \in Nat /\ failedAt' \in [A!Issuers -> Nat \cup {Nothing}] /\ failedAt'["pool1"] = clock
    BY <1>2, <1>4 DEF AuthTypes
  <2>3. KeysHold' /\ DOMAIN keys' = A!Issuers
    BY <1>1, <1>2, <1>4 DEF KeysHold, AuthTypes
  <2>4. failedAt'["pool1"] \in 0 .. clock /\ clock < failedAt'["pool1"] + FailureTtl
    BY <2>2
  <2> HIDE DEF q, kept
  <2> QED BY <1>1, <1>2, <2>1, <2>2, <2>3, <2>4, DecidesKeeps
<1> QED BY <1>3, <1>4 DEF A!Discovered

LEMMA FetchedKeeps == ASSUME AuthInv, NEW r \in Requests, A!KeysFetched(r) PROVE AuthInv'
<1> USE AuthConstants DEF A!AuthorizersAssumption, AuthInv
<1> DEFINE q == request[r]  issuer == A!IssuerOf(q.identity)
<1>1. kind \notin A!LambdaKinds /\ issuer \in A!Issuers /\ UNCHANGED <<kind, ttl, clock, granted>>
  BY DEF A!KeysFetched, RequestsWait
<1>2. PICK failed \in BOOLEAN :
        /\ keys' = [keys EXCEPT ![issuer] = A!KeysEntry(failed)]
        /\ failedAt' = IF failed THEN [failedAt EXCEPT ![issuer] = clock] ELSE failedAt
        /\ A!Decides(r, q, A!KeysEntry(failed))
  BY DEF A!KeysFetched
<1> DEFINE kept == A!KeysEntry(failed)
<1>3. clock \in Nat /\ failedAt' \in [A!Issuers -> Nat \cup {Nothing}] /\ DOMAIN keys' = A!Issuers
  BY <1>1, <1>2 DEF AuthTypes
<1>4. kept.passThrough = failed /\ kept.expiresAt = clock + (IF failed THEN FailureTtl ELSE KeysTtl)
  BY DEF A!KeysEntry
<1>5. failed => failedAt'[issuer] = clock
  BY <1>1, <1>2 DEF AuthTypes
<1> HIDE DEF kept, issuer
<1>6. KeysHold'
  BY <1>1, <1>2, <1>3, <1>4, <1>5 DEF KeysHold, AuthTypes, kept
<1>7. kept.passThrough => failedAt'[issuer] \in 0 .. clock /\ clock < failedAt'[issuer] + FailureTtl
  BY <1>3, <1>4, <1>5
<1> HIDE DEF q
<1> QED BY <1>1, <1>2, <1>3, <1>6, <1>7, DecidesKeeps DEF kept, issuer

LEMMA AuthStep == ASSUME AuthInv, [A!Next]_A!vars PROVE AuthInv'
<1>1. ASSUME NEW r \in Requests, A!Arrives(r) PROVE AuthInv'
  <2>1. PICK i \in A!Identities, p \in (IF kind \in A!LambdaKinds THEN A!Routes ELSE {"a"}) :
          LET q == [identity |-> i, route |-> p] IN
          IF kind \in A!LambdaKinds THEN A!LambdaArrives(r, q) ELSE A!JwtArrives(r, q)
    BY <1>1 DEF A!Arrives
  <2>2. step[r] = "idle" /\ UNCHANGED <<kind, ttl, clock, keys, granted, failedAt>>
    BY <1>1 DEF A!Arrives
  <2>3. CASE kind \in A!LambdaKinds
    BY <2>1, <2>2, <2>3, LambdaArrivesKeeps DEF A!Identities
  <2>4. CASE kind \notin A!LambdaKinds
    BY <2>1, <2>2, <2>4, JwtArrivesKeeps
  <2> QED BY <2>3, <2>4
<1>2. ASSUME NEW r \in Requests, A!AuthorizerThrows(r) PROVE AuthInv'
  BY <1>2, AuthConstants DEF A!AuthorizersAssumption, A!AuthorizerThrows, A!Answers, AuthInv,
      AuthTypes, VerdictsHold, Backed,
     KeysHold, RequestsWait, A!LambdaSaidSo, A!BlindOnlyBriefly, A!IssuerOf
<1>3. CASE UNCHANGED A!vars
  BY <1>3 DEF A!vars, AuthInv, AuthTypes, VerdictsHold, Backed, KeysHold, RequestsWait,
      A!IssuerOf,
     A!LambdaSaidSo, A!BlindOnlyBriefly, A!Fresh, A!Proven
<1> QED BY <1>1, <1>2, <1>3, TickKeeps, ReturnsKeep, DiscoveredKeeps, FetchedKeeps
    DEF A!Next, A!Step

-----------------------------------------------------------------------------
(* The timeline of studio.                                                 *)

Statuses == {"pending", "answered", "501", "502", "499"}
Row == [id : L!Shown, status : Statuses]
Event == Row \cup [id : Invokes, status : {"line"}]

Rows(rows) ==
  /\ rows \in Seq(Row)
  /\ \A j, k \in 1 .. Len(rows) : rows[j].id = rows[k].id => j = k

TimelineTypes ==
  /\ run \in [L!Shown -> {"new", "asked", "answering", "over"}]
  /\ Rows(store) /\ Rows(reply.rows)
  /\ wire \in Seq(Event)
  /\ page \in [L!Shown -> Statuses \cup {"none"}]

LEMMA RowFields == \A r \in Row : r.id \in L!Shown /\ r.status \in Statuses
BY DEF Row

LEMMA TimelineConstants == L!TimelineAssumption
BY SharedAssumption DEF SharedAssumption

(* What is kept of an invocation is the one row it has.                    *)
LEMMA RowKept ==
  ASSUME NEW rows, Rows(rows), NEW i
  PROVE  /\ \A k \in 1 .. Len(rows) : rows[k].id = i => L!KeptStatus(rows, i) = rows[k].status
         /\ (\A k \in 1 .. Len(rows) : rows[k].id # i) => L!KeptStatus(rows, i) = "none"
<1> DEFINE places == {k \in DOMAIN rows : rows[k].id = i}
<1>1. DOMAIN rows = 1 .. Len(rows)
  BY DEF Rows
<1>2. ASSUME NEW k \in 1 .. Len(rows), rows[k].id = i PROVE L!KeptStatus(rows, i) = rows[k].status
  <2>1. places = {k}
    BY <1>1, <1>2 DEF Rows
  <2> QED BY <2>1 DEF L!KeptStatus
<1>3. ASSUME \A k \in 1 .. Len(rows) : rows[k].id # i PROVE L!KeptStatus(rows, i) = "none"
  <2>1. places = {}
    BY <1>1, <1>3
  <2> QED BY <2>1 DEF L!KeptStatus
<1> QED BY <1>2, <1>3

(* An event changes the row of its invocation, or adds one, and perhaps    *)
(* pushes out another.                                                     *)
LEMMA KeptRows ==
  ASSUME NEW rows, Rows(rows), NEW i \in L!Shown, NEW s \in Statuses
  PROVE  LET new == L!Kept(rows, i, s) IN
         /\ Rows(new)
         /\ \A k \in 1 .. Len(new) :
              \/ new[k].id # i /\ \E j \in 1 .. Len(rows) : new[k] = rows[j]
              \/ new[k].id = i /\ new[k].status = L!Merged(L!KeptStatus(rows, i), s)
<1> DEFINE new == L!Kept(rows, i, s)  n == Len(rows)
<1>1. rows \in Seq(Row) /\ DOMAIN rows = 1 .. n /\ n \in Nat
  BY DEF Rows
<1>2. \A old \in Statuses \cup {"none"} : L!Merged(old, s) \in Statuses
  BY DEF L!Merged, Statuses
<1>3. CASE \E k \in 1 .. n : rows[k].id = i
  <2>1. PICK m \in 1 .. n : rows[m].id = i
    BY <1>3
  <2>2. L!KeptStatus(rows, i) = rows[m].status /\ rows[m].status \in Statuses
    <3>1. rows[m] \in Row
      BY <1>1
    <3> QED BY <2>1, <3>1, RowFields, RowKept
  <2>3. new = [k \in 1 .. n |->
                 IF rows[k].id = i THEN [id |-> i, status |-> L!Merged(rows[k].status, s)] ELSE rows[k]]
    BY <1>1, <2>2 DEF L!Kept, Statuses
  <2> HIDE DEF new
  <2>4. \A k \in 1 .. n : rows[k] \in Row /\ new[k] \in Row /\ new[k].id = rows[k].id
    <3> SUFFICES ASSUME NEW k \in 1 .. n
                 PROVE  rows[k] \in Row /\ new[k] \in Row /\ new[k].id = rows[k].id
      OBVIOUS
    <3>1. rows[k] \in Row /\ rows[k].status \in Statuses
      <4>1. rows[k] \in Row
        BY <1>1
      <4> QED BY <4>1, RowFields
    <3>2. CASE rows[k].id = i
      <4>1. new[k] = [id |-> i, status |-> L!Merged(rows[k].status, s)]
        BY <2>3, <3>2
      <4>2. L!Merged(rows[k].status, s) \in Statuses
        BY <1>2, <3>1
      <4> QED BY <3>1, <3>2, <4>1, <4>2 DEF Row
    <3>3. CASE rows[k].id # i
      BY <2>3, <3>1, <3>3
    <3> QED BY <3>2, <3>3
  <2>5. new \in Seq(Row) /\ Len(new) = n
    BY <1>1, <2>3, <2>4
  <2>6. Rows(new)
    BY <2>4, <2>5 DEF Rows
  <2>7. \A k \in 1 .. n : rows[k].id = i => k = m
    BY <2>1 DEF Rows
  <2> QED BY <2>2, <2>3, <2>5, <2>6, <2>7 DEF new
<1>4. CASE \A k \in 1 .. n : rows[k].id # i
  <2> DEFINE row == [id |-> i, status |-> s]
             all == Append(rows, row)
  <2>1. L!KeptStatus(rows, i) = "none" /\ L!Merged("none", s) = s
    BY <1>4, RowKept DEF L!Merged
  <2>2. new = IF n + 1 > MaxRows THEN Tail(all) ELSE all
    BY <1>1, <2>1 DEF L!Kept
  <2>3. /\ row \in Row /\ all \in Seq(Row) /\ Len(all) = n + 1
        /\ \A k \in 1 .. n + 1 : all[k] = IF k = n + 1 THEN row ELSE rows[k]
    BY <1>1 DEF Row
  <2>4. \A j, k \in 1 .. n + 1 : all[j].id = all[k].id => j = k
    <3>1. row.id = i
      OBVIOUS
    <3> HIDE DEF row, all
    <3> QED BY <1>1, <1>4, <2>3, <3>1 DEF Rows
  <2>5. \A k \in 1 .. n + 1 :
          \/ all[k].id # i /\ \E j \in 1 .. n : all[k] = rows[j]
          \/ all[k].id = i /\ all[k].status = s
    BY <1>4, <2>3
  <2> HIDE DEF all, new
  <2>6. all # <<>>
    BY <1>1, <2>3
  <2>7. Tail(all) \in Seq(Row) /\ Len(Tail(all)) = n /\ \A k \in 1 .. n : Tail(all)[k] = all[k + 1]
    BY <1>1, <2>3, <2>6
  <2>8. Rows(all)
    BY <2>3, <2>4 DEF Rows
  <2>9. Rows(Tail(all))
    BY <1>1, <2>4, <2>7 DEF Rows
  <2>10. CASE new = all
    BY <2>1, <2>3, <2>5, <2>8, <2>10 DEF new
  <2>11. CASE new = Tail(all)
    BY <1>1, <2>1, <2>5, <2>7, <2>9, <2>11 DEF new
  <2> QED BY <2>2, <2>10, <2>11
<1> QED BY <1>3, <1>4

(* How an invocation ended is said once, in one way, wherever it shows; a   *)
(* row without an end is that of an invocation that has not ended.         *)
Told(over, ends, i, s) == L!Final(s) => i \in over /\ s = ends[i]
EndsAgree(ends) ==
  /\ \A k \in 1 .. Len(store) :
       Told(ended, ends, store[k].id, store[k].status)
       /\ (store[k].status = "pending" => store[k].id \notin ended)
  /\ \A k \in 1 .. Len(wire) : wire[k].status # "line" => Told(ended, ends, wire[k].id, wire[k].status)
  /\ \A k \in 1 .. Len(reply.rows) : Told(ended, ends, reply.rows[k].id, reply.rows[k].status)
  /\ \A i \in L!Shown : Told(ended, ends, i, page[i])

NewIsOpen == \A i \in L!Shown : run[i] = "new" => i \notin ended

(* While the page has missed nothing, what is kept is shown, is on its way, *)
(* or is in the history it waits for.                                      *)
Shows(shown, events, rows, i, s) ==
  \/ shown[i] = s
  \/ \E m \in 1 .. Len(events) : events[m].id = i /\ events[m].status = s
  \/ L!KeptStatus(rows, i) = s
Hears(counts, events, lines, i) ==
  \/ counts[i] > 0
  \/ \E m \in 1 .. Len(events) : events[m].id = i /\ events[m].status = "line"
  \/ \E k \in 1 .. Len(lines) : lines[k] = i
NothingMissed ==
  /\ heard \in [Invokes -> Nat] /\ logs \in Seq(Invokes) /\ reply.lines \in Seq(Invokes)
  /\ history # "answered" => reply = L!NoReply
  /\ caughtUp =>
       /\ stream = "on" /\ history \in {"answered", "loaded"}
       /\ \A k \in 1 .. Len(store) : Shows(page, wire, reply.rows, store[k].id, store[k].status)
       /\ \A k \in 1 .. Len(logs) : Hears(heard, wire, reply.lines, logs[k])

TimelineInv ==
  /\ TimelineTypes /\ NewIsOpen /\ NothingMissed
  /\ \E ends \in [L!Shown -> Statuses] : EndsAgree(ends)

LEMMA SameCount == \A T : L!Cardinality(T) = Cardinality(T)
BY Zenon DEF L!Cardinality, Cardinality

LEMMA TimelineInit == ASSUME L!Init PROVE TimelineInv
<1> USE DEF L!Init, L!NoReply
<1>1. TimelineTypes
  BY DEF TimelineTypes, Rows
<1>2. NewIsOpen /\ NothingMissed
  BY DEF NewIsOpen, NothingMissed
<1>3. EndsAgree([i \in L!Shown |-> "answered"])
  BY DEF EndsAgree, Told, L!Final
<1> QED BY <1>1, <1>2, <1>3 DEF TimelineInv, Statuses

(* What an event leaves of the status a row has.                           *)
LEMMA MergedAgrees ==
  ASSUME NEW over, NEW ends, NEW i, NEW old \in Statuses \cup {"none"}, NEW s \in Statuses,
         Told(over, ends, i, old), Told(over, ends, i, s)
  PROVE  /\ Told(over, ends, i, L!Merged(old, s)) /\ L!Merged(old, s) \in Statuses
         /\ L!Final(old) => L!Merged(old, s) = old
         /\ L!Final(s) => L!Merged(old, s) = s
         /\ i \notin over => L!Merged(old, s) = "pending" /\ s = "pending" /\ old \in {"none", "pending"}
BY DEF Told, L!Final, L!Merged, Statuses

LEMMA LengthOfRows == \A rows : Rows(rows) => Len(rows) \in Nat /\ \A k \in 1 .. Len(rows) : rows[k] \in Row
BY DEF Rows

(* An event of the bus: a beginning, or the first end.                     *)
LEMMA EmitsKeeps ==
  ASSUME TimelineInv, NEW i \in L!Shown, NEW s \in Statuses, L!Emits(i, s), i \notin ended,
         IF s = "pending" THEN ended' = ended ELSE ended' = ended \cup {i},
         run' \in [L!Shown -> {"new", "asked", "answering", "over"}], NewIsOpen'
  PROVE  /\ TimelineInv'
         /\ \A j \in L!Shown : L!Final(L!KeptStatus(store, j)) =>
              L!KeptStatus(store', j) \in {"none", L!KeptStatus(store, j)}
<1> DEFINE new == store'  event == [id |-> i, status |-> s]  n == Len(store)
<1>1. /\ TimelineTypes /\ NothingMissed /\ new = L!Kept(store, i, s)
      /\ UNCHANGED <<logs, stream, history, reply, caughtUp, page, heard>>
      /\ wire' = IF stream = "on" THEN Append(wire, event) ELSE wire
  BY DEF TimelineInv, L!Emits, L!Sent, L!pageVars
<1>2. PICK ends \in [L!Shown -> Statuses] : EndsAgree(ends)
  BY DEF TimelineInv
<1>3. /\ Rows(new)
      /\ \A k \in 1 .. Len(new) :
           \/ new[k].id # i /\ \E j \in 1 .. n : new[k] = store[j]
           \/ new[k].id = i /\ new[k].status = L!Merged(L!KeptStatus(store, i), s)
  BY <1>1, KeptRows DEF TimelineTypes
<1>4. event \in Event /\ event.id = i /\ event.status = s /\ s # "line"
  BY DEF Event, Row, Statuses
<1>5. /\ wire' \in Seq(Event) /\ Len(wire) \in Nat
      /\ \/ wire' = wire
         \/ /\ Len(wire') = Len(wire) + 1
            /\ \A m \in 1 .. Len(wire) + 1 : wire'[m] = IF m = Len(wire) + 1 THEN event ELSE wire[m]
  BY <1>1, <1>4 DEF TimelineTypes
<1> HIDE DEF new, event
<1>6. L!KeptStatus(store, i) \in {"none", "pending"}
  <2>1. CASE \E k \in 1 .. n : store[k].id = i
    <3>1. PICK k \in 1 .. n : store[k].id = i
      BY <2>1
    <3>2. store[k].status = "pending"
      <4>1. ~L!Final(store[k].status) /\ store[k] \in Row
        BY <1>1, <1>2, <3>1, LengthOfRows DEF EndsAgree, Told, TimelineTypes
      <4> QED BY <4>1, RowFields DEF L!Final, Statuses
    <3> QED BY <1>1, <3>1, <3>2, RowKept DEF TimelineTypes
  <2>2. CASE \A k \in 1 .. n : store[k].id # i
    BY <1>1, <2>2, RowKept DEF TimelineTypes
  <2> QED BY <2>1, <2>2
<1>7. L!Merged(L!KeptStatus(store, i), s) = s
  BY <1>6 DEF L!Merged
<1> DEFINE ends2 == IF s = "pending" THEN ends ELSE [ends EXCEPT ![i] = s]
<1>8. /\ ends2 \in [L!Shown -> Statuses]
      /\ \A j \in L!Shown : \A t : Told(ended, ends, j, t) => Told(ended', ends2, j, t)
      /\ Told(ended', ends2, i, s)
  BY DEF Told, L!Final
<1> HIDE DEF ends2
<1>9. EndsAgree(ends2)'
  <2>1. ASSUME NEW k \in 1 .. Len(new)
        PROVE  /\ Told(ended', ends2, new[k].id, new[k].status)
               /\ new[k].status = "pending" => new[k].id \notin ended'
    <3>1. CASE new[k].id = i
      <4>1. new[k].status = s
        BY <1>3, <1>7, <3>1
      <4> QED BY <1>8, <3>1, <4>1
    <3>2. CASE new[k].id # i
      <4>1. PICK j \in 1 .. n : new[k] = store[j]
        BY <1>3, <2>1, <3>2
      <4>2. store[j] \in Row
        BY <1>1, LengthOfRows DEF TimelineTypes
      <4>3. Told(ended, ends, store[j].id, store[j].status) /\ (store[j].status = "pending" => store[j].id \notin ended)
        BY <1>2 DEF EndsAgree
      <4>4. Told(ended', ends2, store[j].id, store[j].status)
        BY <1>8, <4>2, <4>3, RowFields
      <4> QED BY <3>2, <4>1, <4>3, <4>4 DEF new
    <3> QED BY <3>1, <3>2
  <2>2. ASSUME NEW k \in 1 .. Len(wire'), wire'[k].status # "line"
        PROVE  Told(ended', ends2, wire'[k].id, wire'[k].status)
    <3>1. CASE wire'[k] = event
      BY <1>4, <1>8, <3>1
    <3>2. CASE k \in 1 .. Len(wire) /\ wire'[k] = wire[k]
      <4>1. wire[k] \in Event /\ Told(ended, ends, wire[k].id, wire[k].status)
        BY <1>1, <1>2, <2>2, <3>2 DEF EndsAgree, TimelineTypes
      <4>2. wire[k].id \in L!Shown
        BY <4>1, RowFields DEF Event, L!Shown
      <4> QED BY <1>8, <3>2, <4>1, <4>2
    <3> QED BY <1>5, <2>2, <3>1, <3>2
  <2>3. ASSUME NEW k \in 1 .. Len(reply.rows) PROVE Told(ended', ends2, reply.rows[k].id, reply.rows[k].status)
    <3>1. reply.rows[k] \in Row /\ Told(ended, ends, reply.rows[k].id, reply.rows[k].status)
      BY <1>1, <1>2, LengthOfRows DEF EndsAgree, TimelineTypes
    <3> QED BY <1>1, <1>8, <3>1, RowFields
  <2>4. ASSUME NEW j \in L!Shown PROVE Told(ended', ends2, j, page[j])
    BY <1>1, <1>2, <1>8 DEF EndsAgree
  <2> QED BY <1>1, <2>1, <2>2, <2>3, <2>4 DEF EndsAgree, new
<1>10. TimelineTypes'
  BY <1>1, <1>3, <1>5 DEF TimelineTypes, new
<1>11. NothingMissed'
  <2>1. ASSUME caughtUp PROVE \A k \in 1 .. Len(new) : Shows(page, wire', reply.rows, new[k].id, new[k].status)
    <3>1. stream = "on" /\ \A k \in 1 .. n : Shows(page, wire, reply.rows, store[k].id, store[k].status)
      BY <1>1, <2>1 DEF NothingMissed
    <3>2. wire' = Append(wire, event) /\ wire'[Len(wire')] = event /\ Len(wire') \in 1 .. Len(wire')
      BY <1>1, <1>5, <3>1 DEF event, TimelineTypes
    <3>3. \A j, t : Shows(page, wire, reply.rows, j, t) => Shows(page, wire', reply.rows, j, t)
      BY <1>1, <1>5 DEF Shows
    <3>4. Shows(page, wire', reply.rows, i, s)
      BY <1>4, <3>2 DEF Shows
    <3> QED BY <1>3, <1>7, <3>1, <3>3, <3>4
  <2>2. \A j : Hears(heard, wire, reply.lines, j) => Hears(heard, wire', reply.lines, j)
    BY <1>1, <1>5 DEF Hears
  <2> QED BY <1>1, <2>1, <2>2 DEF NothingMissed, new
<1>12. \A j \in L!Shown : L!Final(L!KeptStatus(store, j)) =>
         L!KeptStatus(new, j) \in {"none", L!KeptStatus(store, j)}
  <2> SUFFICES ASSUME NEW j \in L!Shown, L!Final(L!KeptStatus(store, j)), NEW k \in 1 .. Len(new), new[k].id = j
               PROVE  new[k].status = L!KeptStatus(store, j)
    BY <1>3, RowKept
  <2>1. j # i
    BY <1>6 DEF L!Final
  <2>2. PICK m \in 1 .. n : new[k] = store[m]
    BY <1>3, <2>1
  <2> QED BY <1>1, <2>2, RowKept DEF TimelineTypes
<1> QED BY <1>8, <1>9, <1>10, <1>11, <1>12 DEF TimelineInv, new

(* A step that leaves the timeline as it is, but for the child or upstream. *)
LEMMA SilentKeeps ==
  ASSUME TimelineInv, L!Silent, ended' = ended,
         run' \in [L!Shown -> {"new", "asked", "answering", "over"}],
         \A i \in L!Shown : run'[i] = "new" => run[i] = "new"
  PROVE  TimelineInv'
<1>1. UNCHANGED <<store, logs, stream, wire, history, reply, drops, caughtUp, page, heard>>
  BY DEF L!Silent, L!keptVars, L!linkVars, L!pageVars
<1>2. TimelineTypes' /\ NewIsOpen' /\ NothingMissed'
  BY <1>1 DEF TimelineInv, TimelineTypes, NewIsOpen, NothingMissed
<1>3. \A ends : EndsAgree(ends) => EndsAgree(ends)'
  BY <1>1 DEF EndsAgree
<1> QED BY <1>2, <1>3 DEF TimelineInv

LEMMA EndKeepsTimeline ==
  ASSUME TimelineInv, NEW i \in L!Shown, NEW s \in Statuses, s # "pending", L!EmitEnd(i, s),
         run'[i] # "new", run' \in [L!Shown -> {"new", "asked", "answering", "over"}],
         \A j \in L!Shown : run'[j] = "new" => run[j] = "new"
  PROVE  /\ TimelineInv'
         /\ \A j \in L!Shown : L!Final(L!KeptStatus(store, j)) =>
              L!KeptStatus(store', j) \in {"none", L!KeptStatus(store, j)}
<1>1. CASE i \in ended
  <2>1. L!Silent /\ ended' = ended
    BY <1>1 DEF L!EmitEnd, L!EndsFirst
  <2> QED BY <2>1, SilentKeeps DEF L!Silent, L!keptVars
<1>2. CASE i \notin ended
  <2>1. L!Emits(i, s) /\ ended' = ended \cup {i}
    BY <1>2 DEF L!EmitEnd, L!EndsFirst
  <2>2. NewIsOpen'
    BY <2>1 DEF NewIsOpen, TimelineInv
  <2> QED BY <1>2, <2>1, <2>2, EmitsKeeps
<1> QED BY <1>1, <1>2

LEMMA LogsKeeps == ASSUME TimelineInv, NEW i \in L!Shown, L!Logs(i) PROVE TimelineInv'
<1> DEFINE event == [id |-> i, status |-> "line"]
<1>1. /\ i \in Invokes /\ UNCHANGED <<run, ended, store, stream, history, reply, caughtUp, page, heard>>
      /\ wire' = IF stream = "on" THEN Append(wire, event) ELSE wire
  BY DEF L!Logs, L!Sent, L!pageVars
<1>2. event \in Event /\ event.id = i /\ event.status = "line"
  BY <1>1 DEF Event
<1>3. /\ wire' \in Seq(Event) /\ Len(wire) \in Nat
      /\ \/ wire' = wire
         \/ /\ Len(wire') = Len(wire) + 1
            /\ \A m \in 1 .. Len(wire) + 1 : wire'[m] = IF m = Len(wire) + 1 THEN event ELSE wire[m]
  BY <1>1, <1>2 DEF TimelineInv, TimelineTypes
<1>4. TimelineTypes' /\ NewIsOpen'
  BY <1>1, <1>3 DEF TimelineInv, TimelineTypes, NewIsOpen
<1> HIDE DEF event
<1>5. \A ends : EndsAgree(ends) => EndsAgree(ends)'
  BY <1>1, <1>2, <1>3 DEF EndsAgree
<1>6. logs \in Seq(Invokes) /\ logs' \in Seq(Invokes)
      /\ \A k \in 1 .. Len(logs') : logs'[k] = i \/ \E j \in 1 .. Len(logs) : logs'[k] = logs[j]
  <2> DEFINE all == Append(logs, i)  n == Len(logs)
  <2>1. logs \in Seq(Invokes)
    BY DEF TimelineInv, NothingMissed
  <2>2. /\ all \in Seq(Invokes) /\ Len(all) = n + 1 /\ n \in Nat
        /\ \A k \in 1 .. n + 1 : all[k] = IF k = n + 1 THEN i ELSE logs[k]
    BY <1>1, <2>1
  <2>3. logs' = IF Len(all) > MaxLogs THEN Tail(all) ELSE all
    BY DEF L!Logs
  <2> HIDE DEF all
  <2>4. Tail(all) \in Seq(Invokes) /\ Len(Tail(all)) = n /\ \A k \in 1 .. n : Tail(all)[k] = all[k + 1]
    BY <2>2
  <2>5. CASE logs' = all
    BY <2>1, <2>2, <2>5
  <2>6. CASE logs' = Tail(all)
    <3>1. \A k \in 1 .. n : k + 1 \in 1 .. n + 1 /\ logs'[k] = all[k + 1]
      BY <2>2, <2>4, <2>6
    <3>2. logs' \in Seq(Invokes) /\ Len(logs') = n
      BY <2>4, <2>6
    <3> HIDE DEF n
    <3>3. ASSUME NEW k \in 1 .. n PROVE logs'[k] = i \/ (k + 1 \in 1 .. n /\ logs'[k] = logs[k + 1])
      <4>1. PICK m \in 1 .. n + 1 : m = k + 1 /\ logs'[k] = all[m]
        BY <3>1
      <4>2. n \in Nat /\ all[m] = IF m = n + 1 THEN i ELSE logs[m]
        BY <2>2, <4>1
      <4>3. m = n + 1 \/ m \in 1 .. n
        BY <4>1, <4>2
      <4> QED BY <4>1, <4>2, <4>3
    <3> QED BY <2>1, <3>2, <3>3 DEF n
  <2> QED BY <2>3, <2>5, <2>6
<1>7. NothingMissed'
  <2>1. \A j, t : Shows(page, wire, reply.rows, j, t) => Shows(page, wire', reply.rows, j, t)
    BY <1>1, <1>3 DEF Shows
  <2>2. \A j : Hears(heard, wire, reply.lines, j) => Hears(heard, wire', reply.lines, j)
    BY <1>1, <1>3 DEF Hears
  <2>3. ASSUME stream = "on" PROVE Hears(heard, wire', reply.lines, i)
    <3>1. wire'[Len(wire')] = event /\ Len(wire') \in 1 .. Len(wire')
      BY <1>1, <1>3, <2>3 DEF event, TimelineInv, TimelineTypes
    <3> QED BY <1>2, <3>1 DEF Hears
  <2> QED BY <1>1, <1>6, <2>1, <2>2, <2>3 DEF TimelineInv, NothingMissed
<1> QED BY <1>4, <1>5, <1>7 DEF TimelineInv

(* The link between the server and the page: what it loses or takes along. *)
LEMMA LinkKeeps ==
  ASSUME TimelineInv, L!StreamOpens \/ L!StreamDrops \/ L!HistoryTaken \/ L!HistoryFails
  PROVE  TimelineInv'
<1>1. UNCHANGED <<run, ended, store, logs, page, heard>>
  BY DEF L!StreamOpens, L!StreamDrops, L!HistoryTaken, L!HistoryFails, L!runVars, L!keptVars,
      L!pageVars
<1>2. wire' \in {wire, <<>>} /\ reply' \in {reply, L!NoReply, [rows |-> store, lines |-> logs]}
  BY DEF L!StreamOpens, L!StreamDrops, L!HistoryTaken, L!HistoryFails
<1>3. /\ Rows(<<>>) /\ <<>> \in Seq(Event) /\ <<>> \in Seq(Invokes) /\ Len(<<>>) = 0
      /\ L!NoReply.rows = <<>> /\ L!NoReply.lines = <<>>
  BY DEF Rows, L!NoReply
<1>7. reply'.rows \in {reply.rows, <<>>, store} /\ reply'.lines \in {reply.lines, <<>>, logs}
  BY <1>2, <1>3
<1>4. TimelineTypes' /\ NewIsOpen'
  <2>1. wire' \in Seq(Event)
    BY <1>2, <1>3 DEF TimelineInv, TimelineTypes
  <2>2. Rows(reply'.rows)
    BY <1>3, <1>7 DEF TimelineInv, TimelineTypes
  <2> QED BY <1>1, <2>1, <2>2 DEF TimelineInv, TimelineTypes, NewIsOpen
<1>5. \A ends : EndsAgree(ends) => EndsAgree(ends)'
  BY <1>1, <1>2, <1>3, <1>7 DEF EndsAgree
<1>6. NothingMissed'
  <2>1. heard' \in [Invokes -> Nat] /\ logs' \in Seq(Invokes) /\ reply'.lines \in Seq(Invokes)
    BY <1>1, <1>3, <1>7 DEF TimelineInv, NothingMissed
  <2>2. CASE L!StreamOpens
    BY <1>1, <2>1, <2>2 DEF L!StreamOpens, TimelineInv, NothingMissed
  <2>3. CASE L!StreamDrops \/ L!HistoryFails
    BY <1>1, <2>1, <2>3 DEF L!StreamDrops, L!HistoryFails, TimelineInv, NothingMissed
  <2>4. CASE L!HistoryTaken
    <3>1. reply'.rows = store /\ reply'.lines = logs /\ history' = "answered" /\ stream' = stream
          /\ caughtUp' = (stream = "on")
      BY <2>4 DEF L!HistoryTaken
    <3>2. \A k \in 1 .. Len(store) : L!KeptStatus(store, store[k].id) = store[k].status
      BY RowKept DEF TimelineInv, TimelineTypes
    <3> QED BY <1>1, <2>1, <3>1, <3>2 DEF NothingMissed, Shows, Hears
  <2> QED BY <2>2, <2>3, <2>4
<1> QED BY <1>4, <1>5, <1>6 DEF TimelineInv

(* What a row of the page is after an event about it, or after the history. *)
LEMMA PageKeeps ==
  ASSUME TimelineInv, L!PageReads \/ L!HistoryLoads
  PROVE  TimelineInv' /\ \A i \in L!Shown : L!Final(page[i]) => page'[i] = page[i]
<1>1. /\ UNCHANGED <<run, ended, store, logs, stream, caughtUp>>
      /\ TimelineTypes /\ NewIsOpen /\ NothingMissed
  BY DEF L!PageReads, L!HistoryLoads, L!runVars, L!keptVars, TimelineInv
<1>2. PICK ends \in [L!Shown -> Statuses] : EndsAgree(ends)
  BY DEF TimelineInv
<1> DEFINE Changed(i, s) ==
      /\ page'[i] = L!Merged(page[i], s) /\ s \in Statuses /\ Told(ended, ends, i, s)
<1>3. ASSUME NEW i \in L!Shown, NEW s, Changed(i, s)
      PROVE  /\ Told(ended, ends, i, page'[i]) /\ page'[i] \in Statuses
             /\ L!Final(page[i]) => page'[i] = page[i]
             /\ L!Final(s) => page'[i] = s
             /\ i \notin ended => page'[i] = "pending" /\ s = "pending"
  <2>1. page[i] \in Statuses \cup {"none"} /\ Told(ended, ends, i, page[i])
    BY <1>1, <1>2 DEF EndsAgree, TimelineTypes
  <2> QED BY <1>3, <2>1, MergedAgrees
(* The rows of the page stay as they are or change, and agree on the ends.  *)
<1>4. ASSUME page' \in [L!Shown -> Statuses \cup {"none"}], Rows(reply'.rows), wire' \in Seq(Event),
             \A i \in L!Shown : page'[i] = page[i] \/ \E s : Changed(i, s),
             \A k \in 1 .. Len(reply'.rows) : Told(ended, ends, reply'.rows[k].id, reply'.rows[k].status),
             \A k \in 1 .. Len(wire') : wire'[k].status # "line" => Told(ended, ends, wire'[k].id, wire'[k].status)
      PROVE  /\ TimelineTypes' /\ NewIsOpen' /\ EndsAgree(ends)'
             /\ \A i \in L!Shown : L!Final(page[i]) => page'[i] = page[i]
             /\ \A k \in 1 .. Len(store) : page[store[k].id] = store[k].status => page'[store[k].id] = store[k].status
             /\ \A k \in 1 .. Len(store) : \A s : Changed(store[k].id, s) /\ s = store[k].status => page'[store[k].id] = s
  <2>1. TimelineTypes' /\ NewIsOpen'
    BY <1>1, <1>4 DEF TimelineTypes, NewIsOpen
  <2>2. \A i \in L!Shown : Told(ended, ends, i, page'[i]) /\ (L!Final(page[i]) => page'[i] = page[i])
    BY <1>2, <1>3, <1>4 DEF EndsAgree
  <2>3. EndsAgree(ends)'
    BY <1>1, <1>2, <1>4, <2>2 DEF EndsAgree
  <2>4. ASSUME NEW k \in 1 .. Len(store)
        PROVE  /\ store[k].id \in L!Shown
               /\ (store[k].status = "pending" /\ store[k].id \notin ended) \/ L!Final(store[k].status)
    <3>1. store[k] \in Row
      BY <1>1, LengthOfRows DEF TimelineTypes
    <3> QED BY <1>2, <3>1, RowFields DEF EndsAgree, Statuses, L!Final
  <2> QED BY <1>3, <1>4, <2>1, <2>2, <2>3, <2>4
<1>5. CASE L!PageReads
  <2> DEFINE e == Head(wire)
  <2>1. /\ wire # <<>> /\ wire' = Tail(wire) /\ UNCHANGED <<history, reply>>
        /\ IF e.status = "line"
           THEN heard' = [heard EXCEPT ![e.id] = @ + 1] /\ UNCHANGED page
           ELSE page' = [page EXCEPT ![e.id] = L!Merged(@, e.status)] /\ UNCHANGED heard
    BY <1>5 DEF L!PageReads
  <2>2. /\ wire' \in Seq(Event) /\ Len(wire') = Len(wire) - 1 /\ Len(wire) \in Nat \ {0}
        /\ e = wire[1] /\ wire[1] \in Event
        /\ \A m \in 1 .. Len(wire') : wire'[m] = wire[m + 1]
    BY <1>1, <2>1 DEF TimelineTypes
  <2> HIDE DEF e
  <2>3. \A m \in 1 .. Len(wire) : wire[m] = e \/ (m - 1 \in 1 .. Len(wire') /\ wire[m] = wire'[m - 1])
    <3> SUFFICES ASSUME NEW m \in 1 .. Len(wire), m # 1
                 PROVE  m - 1 \in 1 .. Len(wire') /\ wire[m] = wire'[m - 1]
      BY <2>2
    <3>1. m - 1 \in 1 .. Len(wire) - 1 /\ (m - 1) + 1 = m
      OBVIOUS
    <3> QED BY <2>2, <3>1
  <2>4. \A k \in 1 .. Len(wire') : wire'[k].status # "line" => Told(ended, ends, wire'[k].id, wire'[k].status)
    <3>1. \A k \in 1 .. Len(wire') : k + 1 \in 1 .. Len(wire)
      BY <2>2
    <3> QED BY <1>2, <2>2, <3>1 DEF EndsAgree
  <2>5. e.status # "line" => e \in Row /\ Changed(e.id, e.status)
    <3> SUFFICES ASSUME e.status # "line" PROVE e \in Row /\ Changed(e.id, e.status)
      OBVIOUS
    <3>1. e \in Row
      BY <2>2 DEF Event
    <3>2. Told(ended, ends, e.id, e.status)
      <4>1. 1 \in 1 .. Len(wire)
        BY <2>2
      <4> QED BY <1>2, <2>2, <4>1 DEF EndsAgree
    <3> QED BY <1>1, <2>1, <3>1, <3>2, RowFields DEF TimelineTypes
  <2>6. /\ page' \in [L!Shown -> Statuses \cup {"none"}]
        /\ \A i \in L!Shown : page'[i] = page[i] \/ \E s : Changed(i, s)
    <3>1. CASE e.status = "line"
      BY <1>1, <2>1, <3>1 DEF TimelineTypes
    <3>2. CASE e.status # "line"
      <4>1. e.id \in L!Shown /\ page' = [page EXCEPT ![e.id] = L!Merged(page[e.id], e.status)]
        BY <2>1, <2>5, <3>2, RowFields
      <4>2. page'[e.id] \in Statuses
        BY <1>3, <2>5, <3>2, <4>1
      <4>3. \A i \in L!Shown : i # e.id => page'[i] = page[i]
        BY <1>1, <4>1 DEF TimelineTypes
      <4> QED BY <1>1, <2>5, <3>2, <4>1, <4>2, <4>3 DEF TimelineTypes
    <3> QED BY <3>1, <3>2
  <2>7. /\ TimelineTypes' /\ NewIsOpen' /\ EndsAgree(ends)'
        /\ \A i \in L!Shown : L!Final(page[i]) => page'[i] = page[i]
        /\ \A k \in 1 .. Len(store) : page[store[k].id] = store[k].status => page'[store[k].id] = store[k].status
        /\ \A k \in 1 .. Len(store) : \A s : Changed(store[k].id, s) /\ s = store[k].status => page'[store[k].id] = s
    <3>1. Rows(reply'.rows)
          /\ \A k \in 1 .. Len(reply'.rows) : Told(ended, ends, reply'.rows[k].id, reply'.rows[k].status)
      BY <1>1, <1>2, <2>1 DEF EndsAgree, TimelineTypes
    <3> HIDE DEF Changed
    <3> QED BY <1>4, <2>2, <2>4, <2>6, <3>1
  <2>8. \A k \in 1 .. Len(store) : Shows(page, wire, reply.rows, store[k].id, store[k].status) =>
          Shows(page', wire', reply'.rows, store[k].id, store[k].status)
    <3> SUFFICES ASSUME NEW k \in 1 .. Len(store), NEW m \in 1 .. Len(wire), wire[m].id = store[k].id,
                        wire[m].status = store[k].status
                 PROVE  Shows(page', wire', reply.rows, store[k].id, store[k].status)
      BY <2>1, <2>7 DEF Shows
    <3>1. store[k].status # "line"
      <4>1. store[k] \in Row
        BY <1>1, LengthOfRows DEF TimelineTypes
      <4> QED BY <4>1, RowFields DEF Statuses
    <3>2. CASE wire[m] = e
      BY <2>5, <2>7, <3>1, <3>2 DEF Shows
    <3>3. CASE m - 1 \in 1 .. Len(wire') /\ wire[m] = wire'[m - 1]
      BY <3>3 DEF Shows
    <3> QED BY <2>3, <3>2, <3>3
  <2>9. heard' \in [Invokes -> Nat]
        /\ \A i \in Invokes : heard'[i] >= heard[i] /\ (e.status = "line" /\ e.id = i => heard'[i] > 0)
    <3>1. e.status = "line" => e.id \in Invokes
      <4>1. \A r \in Event : r.status = "line" => r.id \in Invokes
        BY RowFields DEF Event, Statuses
      <4> QED BY <2>2, <4>1
    <3> QED BY <1>1, <2>1, <3>1 DEF NothingMissed
  <2>10. \A i \in Invokes : Hears(heard, wire, reply.lines, i) => Hears(heard', wire', reply'.lines, i)
    <3> SUFFICES ASSUME NEW i \in Invokes, NEW m \in 1 .. Len(wire), wire[m].id = i, wire[m].status = "line"
                 PROVE  Hears(heard', wire', reply.lines, i)
      BY <1>1, <2>1, <2>9 DEF Hears, NothingMissed
    <3> QED BY <2>3, <2>9 DEF Hears
  <2>11. NothingMissed'
    <3>1. \A k \in 1 .. Len(logs) : logs[k] \in Invokes
      BY <1>1 DEF NothingMissed
    <3> QED BY <1>1, <2>1, <2>8, <2>9, <2>10, <3>1 DEF NothingMissed
  <2> QED BY <2>7, <2>11 DEF TimelineInv
<1>6. CASE L!HistoryLoads
  <2> DEFINE past(i) == L!KeptStatus(reply.rows, i)
  <2>1. /\ reply' = L!NoReply /\ wire' = wire /\ history = "answered" /\ history' = "loaded"
        /\ page' = [i \in L!Shown |->
                      IF past(i) = "none" THEN page[i] ELSE L!Merged(page[i], past(i))]
        /\ heard' = [i \in Invokes |-> heard[i] + L!Times(reply.lines, i)]
    BY <1>6 DEF L!HistoryLoads, L!HistoryMerges
  <2>2. Rows(reply'.rows) /\ Len(reply'.rows) = 0 /\ reply'.lines \in Seq(Invokes)
    BY <2>1 DEF L!NoReply, Rows
  <2>3. \A i \in L!Shown : past(i) # "none" => Changed(i, past(i))
    <3> SUFFICES ASSUME NEW i \in L!Shown, past(i) # "none"
                 PROVE  past(i) \in Statuses /\ Told(ended, ends, i, past(i))
      BY <2>1
    <3>1. PICK k \in 1 .. Len(reply.rows) : reply.rows[k].id = i
      BY <1>1, RowKept DEF TimelineTypes
    <3>2. past(i) = reply.rows[k].status /\ reply.rows[k] \in Row
      BY <1>1, <3>1, RowKept, LengthOfRows DEF TimelineTypes
    <3> QED BY <1>2, <3>1, <3>2, RowFields DEF EndsAgree
  <2>4. /\ page' \in [L!Shown -> Statuses \cup {"none"}]
        /\ \A i \in L!Shown : page'[i] = page[i] \/ \E s : Changed(i, s)
    <3>1. \A i \in L!Shown : IF past(i) = "none" THEN page'[i] = page[i] ELSE Changed(i, past(i))
      BY <2>1, <2>3
    <3>2. \A i \in L!Shown : page'[i] \in Statuses \cup {"none"}
      BY <1>1, <1>3, <3>1 DEF TimelineTypes
    <3> QED BY <2>1, <3>1, <3>2
  <2>5. /\ TimelineTypes' /\ NewIsOpen' /\ EndsAgree(ends)'
        /\ \A i \in L!Shown : L!Final(page[i]) => page'[i] = page[i]
        /\ \A k \in 1 .. Len(store) : page[store[k].id] = store[k].status => page'[store[k].id] = store[k].status
        /\ \A k \in 1 .. Len(store) : \A s : Changed(store[k].id, s) /\ s = store[k].status => page'[store[k].id] = s
    <3>1. /\ wire' \in Seq(Event)
          /\ \A k \in 1 .. Len(wire') : wire'[k].status # "line" => Told(ended, ends, wire'[k].id, wire'[k].status)
      BY <1>1, <1>2, <2>1 DEF EndsAgree, TimelineTypes
    <3> HIDE DEF Changed
    <3> QED BY <1>4, <2>2, <2>4, <3>1
  <2>6. \A k \in 1 .. Len(store) : Shows(page, wire, reply.rows, store[k].id, store[k].status) =>
          Shows(page', wire', reply'.rows, store[k].id, store[k].status)
    <3> SUFFICES ASSUME NEW k \in 1 .. Len(store), past(store[k].id) = store[k].status
                 PROVE  page'[store[k].id] = store[k].status
      BY <2>1, <2>5 DEF Shows
    <3>1. store[k].id \in L!Shown /\ store[k].status # "none"
      <4>1. store[k] \in Row
        BY <1>1, LengthOfRows DEF TimelineTypes
      <4> QED BY <4>1, RowFields DEF Statuses
    <3> HIDE DEF Changed, past
    <3> QED BY <2>3, <2>5, <3>1
  <2>7. ASSUME NEW i \in Invokes
        PROVE  /\ L!Times(reply.lines, i) \in Nat
               /\ (\E k \in 1 .. Len(reply.lines) : reply.lines[k] = i) => L!Times(reply.lines, i) > 0
    <3> DEFINE places == {k \in DOMAIN reply.lines : reply.lines[k] = i}
    <3>1. reply.lines \in Seq(Invokes) /\ DOMAIN reply.lines = 1 .. Len(reply.lines) /\ Len(reply.lines) \in Nat
      BY <1>1 DEF NothingMissed
    <3>2. IsFiniteSet(places)
      <4>1. IsFiniteSet(1 .. Len(reply.lines)) /\ places \in SUBSET (1 .. Len(reply.lines))
        BY <3>1, FS_Interval
      <4> QED BY <4>1, FS_Subset
    <3>3. L!Times(reply.lines, i) = Cardinality(places)
      BY SameCount DEF L!Times
    <3>4. Cardinality(places) \in Nat /\ (Cardinality(places) = 0 <=> places = {})
      BY <3>2, FS_CardinalityType, FS_EmptySet
    <3>5. (\E k \in 1 .. Len(reply.lines) : reply.lines[k] = i) => places # {}
      BY <3>1
    <3> HIDE DEF places
    <3> QED BY <3>3, <3>4, <3>5
  <2>8. heard' \in [Invokes -> Nat]
        /\ \A i \in Invokes : Hears(heard, wire, reply.lines, i) => Hears(heard', wire', reply'.lines, i)
    <3>1. \A i \in Invokes : heard[i] \in Nat /\ heard'[i] = heard[i] + L!Times(reply.lines, i)
      BY <1>1, <2>1 DEF NothingMissed
    <3> QED BY <2>1, <2>7, <3>1 DEF Hears
  <2>9. NothingMissed'
    <3>1. \A k \in 1 .. Len(logs) : logs[k] \in Invokes
      BY <1>1 DEF NothingMissed
    <3> QED BY <1>1, <2>1, <2>2, <2>6, <2>8, <3>1 DEF NothingMissed
  <2> QED BY <2>5, <2>9 DEF TimelineInv
<1> QED BY <1>5, <1>6

LEMMA TimelineStep ==
  ASSUME TimelineInv, L!Next
  PROVE  /\ TimelineInv'
         /\ \A j \in L!Shown :
              /\ L!Final(L!KeptStatus(store, j)) => L!KeptStatus(store', j) \in {"none", L!KeptStatus(store, j)}
              /\ L!Final(page[j]) => page'[j] = page[j]
<1>1. ASSUME NEW i \in L!Shown, L!Begins(i)
      PROVE  /\ TimelineInv' /\ page' = page
             /\ \A j \in L!Shown : L!Final(L!KeptStatus(store, j)) =>
                  L!KeptStatus(store', j) \in {"none", L!KeptStatus(store, j)}
  <2>1. L!Emits(i, "pending") /\ ended' = ended /\ run[i] = "new" /\ run' = [run EXCEPT ![i] = "asked"]
    BY <1>1 DEF L!Begins
  <2>2. run \in [L!Shown -> {"new", "asked", "answering", "over"}] /\ i \notin ended /\ NewIsOpen
    BY <2>1 DEF TimelineInv, TimelineTypes, NewIsOpen
  <2>3. NewIsOpen' /\ run' \in [L!Shown -> {"new", "asked", "answering", "over"}]
    BY <2>1, <2>2 DEF NewIsOpen
  <2>4. "pending" \in Statuses /\ page' = page
    BY <2>1 DEF Statuses, L!Emits, L!pageVars
  <2> QED BY <2>1, <2>2, <2>3, <2>4, EmitsKeeps
<1>2. ASSUME NEW i \in L!Shown, L!Responds(i) \/ L!SpawnFails(i) \/ L!Stalls(i)
      PROVE  TimelineInv' /\ page' = page /\ store' = store
  <2>1. run \in [L!Shown -> {"new", "asked", "answering", "over"}]
    BY DEF TimelineInv, TimelineTypes
  <2>2. /\ run' \in [L!Shown -> {"new", "asked", "answering", "over"}]
        /\ \A j \in L!Shown : run'[j] = "new" => run[j] = "new"
    BY <1>2, <2>1 DEF L!Responds, L!SpawnFails, L!Stalls
  <2>3. L!Silent /\ ended' = ended
    BY <1>2 DEF L!Responds, L!SpawnFails, L!Stalls
  <2> QED BY <2>2, <2>3, SilentKeeps DEF L!Silent, L!pageVars, L!keptVars
<1>3. ASSUME NEW i \in L!Shown, L!Rejects(i) \/ L!Completes(i) \/ L!UpstreamFails(i) \/ L!ClientLeaves(i)
      PROVE  /\ TimelineInv' /\ page' = page
             /\ \A j \in L!Shown : L!Final(L!KeptStatus(store, j)) =>
                  L!KeptStatus(store', j) \in {"none", L!KeptStatus(store, j)}
  <2>1. run \in [L!Shown -> {"new", "asked", "answering", "over"}]
    BY DEF TimelineInv, TimelineTypes
  <2>2. /\ run' \in [L!Shown -> {"new", "asked", "answering", "over"}] /\ run'[i] # "new"
        /\ \A j \in L!Shown : run'[j] = "new" => run[j] = "new"
    BY <1>3, <2>1 DEF L!Rejects, L!Completes, L!UpstreamFails, L!ClientLeaves
  <2>3. \E s \in Statuses : s # "pending" /\ L!EmitEnd(i, s)
    BY <1>3 DEF L!Rejects, L!Completes, L!UpstreamFails, L!ClientLeaves, Statuses
  <2>4. page' = page
    BY <2>3 DEF L!EmitEnd, L!Emits, L!Silent, L!pageVars
  <2> QED BY <2>2, <2>3, <2>4, EndKeepsTimeline
<1>4. ASSUME NEW i \in L!Shown, L!Logs(i) PROVE TimelineInv' /\ page' = page /\ store' = store
  BY <1>4, LogsKeeps DEF L!Logs, L!pageVars
<1>5. ASSUME L!StreamOpens \/ L!StreamDrops \/ L!HistoryTaken \/ L!HistoryFails
      PROVE  TimelineInv' /\ page' = page /\ store' = store
  BY <1>5, LinkKeeps DEF L!StreamOpens, L!StreamDrops, L!HistoryTaken, L!HistoryFails,
      L!pageVars, L!keptVars
<1>6. ASSUME L!PageReads \/ L!HistoryLoads
      PROVE  TimelineInv' /\ store' = store /\ \A j \in L!Shown : L!Final(page[j]) => page'[j] = page[j]
  BY <1>6, PageKeeps DEF L!PageReads, L!HistoryLoads, L!keptVars
<1> QED BY <1>1, <1>2, <1>3, <1>4, <1>5, <1>6 DEF L!Next, L!Own

LEMMA TimelineSafety == ASSUME TimelineInv PROVE L!ShowsWhatIsKept
<1> SUFFICES ASSUME caughtUp, L!Quiescent
             PROVE  /\ \A k \in DOMAIN store : page[store[k].id] = store[k].status
                    /\ \A k \in DOMAIN logs : heard[logs[k]] > 0
  BY DEF L!ShowsWhatIsKept
<1>1. Len(wire) = 0 /\ history = "loaded"
  BY DEF TimelineInv, NothingMissed, L!Quiescent
<1>2. Len(reply.rows) = 0 /\ Len(reply.lines) = 0
  BY <1>1 DEF TimelineInv, NothingMissed, L!NoReply
<1>3. \A i : L!KeptStatus(reply.rows, i) = "none"
  BY <1>2, RowKept DEF TimelineInv, TimelineTypes
<1>4. ASSUME NEW k \in 1 .. Len(store) PROVE page[store[k].id] = store[k].status
  <2>1. store[k] \in Row
    BY LengthOfRows DEF TimelineInv, TimelineTypes
  <2>2. store[k].status # "none"
    BY <2>1, RowFields DEF Statuses
  <2>3. Shows(page, wire, reply.rows, store[k].id, store[k].status)
    BY DEF TimelineInv, NothingMissed
  <2> QED BY <1>1, <1>3, <2>2, <2>3 DEF Shows
<1>5. ASSUME NEW k \in 1 .. Len(logs) PROVE heard[logs[k]] > 0
  <2>1. Hears(heard, wire, reply.lines, logs[k])
    BY DEF TimelineInv, NothingMissed
  <2> QED BY <1>1, <1>2, <2>1 DEF Hears
<1>6. DOMAIN store = 1 .. Len(store) /\ DOMAIN logs = 1 .. Len(logs)
  BY DEF TimelineInv, TimelineTypes, Rows, NothingMissed
<1> QED BY <1>4, <1>5, <1>6

LEMMA TimelineStill == ASSUME TimelineInv, UNCHANGED L!vars PROVE TimelineInv'
<1>1. UNCHANGED <<run, ended, store, logs, stream, wire, history, reply, caughtUp, page, heard>>
  BY DEF L!vars, L!runVars, L!keptVars, L!linkVars, L!pageVars
<1>2. \A ends : EndsAgree(ends) => EndsAgree(ends)'
  BY <1>1 DEF EndsAgree
<1> QED BY <1>1, <1>2 DEF TimelineInv, TimelineTypes, NewIsOpen, NothingMissed

-----------------------------------------------------------------------------
(* The composition: a step of one component is none of the others.         *)

SharedInv == NetworkInv /\ AuthInv /\ DoorInv /\ PoolInv /\ TimelineInv /\ ServeInv

LEMMA EachAlone ==
  ASSUME [Next]_vars
  PROVE  /\ [N!Next]_N!vars /\ [A!Next]_A!vars /\ [F!Next]_F!vars /\ [L!Next]_L!vars /\ [S!Next]_S!vars
<1>1. UNCHANGED networkVars => UNCHANGED N!vars
  BY DEF networkVars, N!vars, N!runVars, N!dockerVars
<1>2. UNCHANGED authVars => UNCHANGED A!vars
  BY DEF authVars, A!vars
<1>3. UNCHANGED doorVars => UNCHANGED F!vars
  BY DEF doorVars, F!vars, F!bootVars, F!poolVars, F!clientVars
<1>4. UNCHANGED timelineVars => UNCHANGED L!vars
  BY DEF timelineVars, L!vars, L!runVars, L!keptVars, L!linkVars, L!pageVars
<1>5. UNCHANGED studioVars => UNCHANGED S!vars
  BY DEF studioVars, S!vars, S!serveVars, S!proxyVars, S!studioVars
<1>6. CASE Shares(N!Next)
  BY <1>2, <1>3, <1>4, <1>5, <1>6 DEF Shares
<1>7. CASE Authorizes(A!Next)
  BY <1>1, <1>3, <1>4, <1>5, <1>7 DEF Authorizes
<1>8. CASE Fronts(F!Next)
  BY <1>1, <1>2, <1>4, <1>5, <1>8 DEF Fronts
<1>9. CASE Records(L!Next)
  BY <1>1, <1>2, <1>3, <1>5, <1>9 DEF Records
<1>10. CASE Manages(S!Next)
  BY <1>1, <1>2, <1>3, <1>4, <1>10 DEF Manages
<1>11. CASE UNCHANGED vars
  BY <1>1, <1>2, <1>3, <1>4, <1>5, <1>11 DEF vars
<1> QED BY <1>6, <1>7, <1>8, <1>9, <1>10, <1>11 DEF Next

LEMMA SharedInit == Init => SharedInv
BY NetworkInit, AuthInit, DoorInit, PoolInit, TimelineInit, ServeInit DEF Init, SharedInv

LEMMA SharedStep == SharedInv /\ [Next]_vars => SharedInv'
<1> SUFFICES ASSUME SharedInv, [Next]_vars PROVE SharedInv'
  OBVIOUS
<1>1. /\ [N!Next]_N!vars /\ [A!Next]_A!vars /\ [F!Next]_F!vars /\ [L!Next]_L!vars /\ [S!Next]_S!vars
  BY EachAlone
<1>2. NetworkInv'
  BY <1>1, NetworkStep DEF SharedInv
<1>3. AuthInv'
  BY <1>1, AuthStep DEF SharedInv
<1>4. DoorInv' /\ PoolInv'
  BY <1>1, DoorStep DEF SharedInv
<1>5. TimelineInv'
  BY <1>1, TimelineStep, TimelineStill DEF SharedInv
<1>6. ServeInv'
  BY <1>1, ServeStep DEF SharedInv
<1> QED BY <1>2, <1>3, <1>4, <1>5, <1>6 DEF SharedInv

LEMMA SharedAlways == Spec => []SharedInv
BY SharedInit, SharedStep, PTL DEF Spec

(* A docker network lives as long as the run it is for, and a sweep leaves  *)
(* nothing of a dead run behind (ecs-network.ts); no connection to a        *)
(* replica outlives its client, and no Lambda target goes before those who  *)
(* wait for it (front-door-server.ts, local-start-alb.ts).                  *)
THEOREM SharedIsReleased == Spec => []Released
<1>1. SharedInv => Released
  BY NetworkSafety, DoorSafety DEF SharedInv, Released
<1> QED BY <1>1, SharedAlways, PTL

(* Nobody is let through but by an authorizer that said so for that route,  *)
(* by a token that proves its claims, or while its issuer cannot be         *)
(* reached (authorizer-cache.ts, cognito-jwt.ts).                           *)
THEOREM OnlyTheAuthorizedPass == Spec => []Authorized
<1>1. SharedInv => Authorized
  BY DEF SharedInv, AuthInv, Authorized
<1> QED BY <1>1, SharedAlways, PTL

(* What studio lists can still answer, no child is out of its reach, no     *)
(* capture proxy outlives its serve, and a studio that has ended waited for *)
(* its children (studio-serve-manager.ts).                                  *)
THEOREM ListedServesAnswer == Spec => []Listed
<1>1. SharedInv => Listed
  BY ServeSafety DEF SharedInv, ServeInv, Listed
<1> QED BY <1>1, SharedAlways, PTL

(* While the pool stays as it is, a round serves each of its replicas once  *)
(* (front-door-pool.ts).                                                    *)
THEOREM EachReplicaOncePerRound == Spec => RoundRobin
<1>1. SharedInv /\ [Next]_vars =>
        [\A c \in Clients : stage[c] = "checked" /\ stage'[c] = "waiting" => upstream'[c] \notin served]_F!vars
  BY EachAlone, DoorRound DEF SharedInv
<1> QED BY <1>1, SharedAlways, PTL DEF Spec, RoundRobin, F!RoundRobin

(* A row that shows how its invocation ended shows that from then on, a     *)
(* page that has missed nothing shows what is kept, and a serve the user    *)
(* has stopped is never shown as anything else (studio-store.ts,            *)
(* studio-ui.ts, studio-serve-manager.ts).                                  *)
THEOREM EndsStayShown == Spec => WhatIsShown
<1>1. SharedInv => L!ShowsWhatIsKept
  BY TimelineSafety DEF SharedInv
<1>2. SharedInv /\ [Next]_vars =>
        [\A i \in L!Shown :
          /\ L!Final(L!KeptStatus(store, i)) => L!KeptStatus(store', i) \in {"none", L!KeptStatus(store, i)}
          /\ L!Final(page[i]) => page'[i] = page[i]]_L!vars
  BY EachAlone, TimelineStep DEF SharedInv
<1>3. SharedInv /\ [Next]_vars =>
        [published'[1] \in stopping => published'[2] = "stopped"]_S!vars
  BY EachAlone, ServeStopped DEF SharedInv
<1> QED
  BY <1>1, <1>2, <1>3, SharedAlways, PTL DEF Spec, WhatIsShown, L!EndsAreFinal, S!StopIsFinal
=============================================================================
