--------------------------- MODULE StartApiServer ---------------------------
(***************************************************************************)
(* `cdkl start-api --watch` with one HTTP server: the request handler of   *)
(* src/src/local/http-server.ts, the reload and the shutdown of            *)
(* src/src/cli/commands/local-start-api.ts.                                *)
(*                                                                         *)
(* A reload swaps the ServerState (routes and container pool) under the    *)
(* requests that run, and disposes the old pool in the background.  A pool *)
(* is seen from outside: what an acquire may get from it in each phase of  *)
(* its dispose(), as ContainerPool has it; its Lambdas, its cap and its    *)
(* idle timers are left out, so a wait ends in any way it could.  State    *)
(* number g is the one the g-th successful reload installed.  WebSocket    *)
(* servers and the second signal are left out.                             *)
(***************************************************************************)
EXTENDS Naturals, FiniteSets

CONSTANTS
  Requests,      (* HTTP requests, each made at most once       *)
  Containers,
  NoContainer,
  MaxReloads     (* bound: source edits, so reloads and states  *)

ASSUME ServerAssumption ==
  NoContainer \notin Containers /\ MaxReloads \in Nat

States == 0 .. MaxReloads
Reloads == 1 .. MaxReloads
NoState == MaxReloads + 1

VARIABLES
  phase,     (* what each handler awaits                                   *)
  snapshot,  (* the ServerState it was given                               *)
  lease,     (* its container                                              *)
  owner,     (* state whose pool each container belongs to, or NoState     *)
  pool,      (* phase of each state's pool                                 *)
  drain,     (* requests whose lease a dispose() waits for                 *)
  settling,  (* requests whose cold start a dispose() waits for            *)
  doomed,    (* containers it removes                                      *)
  current,   (* currentState                                               *)
  served,    (* version of the source it was built from                    *)
  source,    (* version of the source on disk                              *)
  fired,     (* onChange calls so far, each a reload on reloadChain        *)
  noticed,   (* version of the source at the last of them                  *)
  reload,    (* state of each reload                                       *)
  material,  (* version of the source a reload that builds has read        *)
  stage,     (* of the command                                             *)
  last,      (* the state whose pool the shutdown disposes, or NoState     *)
  strays,    (* history: containers started after dispose() listed the     *)
             (* starts in flight, or still starting 5 s later              *)
  timedOut   (* history: states whose drain timed out                      *)

reqVars    == <<phase, snapshot, lease>>
poolVars   == <<owner, pool, drain, settling, doomed>>
reloadVars == <<current, served, source, fired, noticed, reload, material>>
stageVars  == <<stage, last>>
histVars   == <<strays, timedOut>>
vars == <<reqVars, poolVars, reloadVars, stageVars, histVars>>

docker == {c \in Containers : owner[c] # NoState}
Leased == {lease[r] : r \in Requests}

Init ==
  /\ phase = [r \in Requests |-> "new"]
  /\ snapshot = [r \in Requests |-> 0]
  /\ lease = [r \in Requests |-> NoContainer]
  /\ owner = [c \in Containers |-> NoState]
  /\ pool = [g \in States |-> IF g = 0 THEN "open" ELSE "none"]
  /\ drain = [g \in States |-> {}]
  /\ settling = [g \in States |-> {}]
  /\ doomed = [g \in States |-> {}]
  /\ current = 0 /\ served = 0
  /\ source = 0 /\ fired = 0 /\ noticed = 0
  /\ reload = [k \in Reloads |-> "none"]
  /\ material = [k \in Reloads |-> 0]
  /\ stage = "serving" /\ last = NoState
  /\ strays = {} /\ timedOut = {}

-----------------------------------------------------------------------------
(* handleRequest                                                            *)

(* A request is accepted: its handler gets the state of this moment and     *)
(* awaits the body.  server.close() comes after watcher.close().            *)
Accept(r) ==
  /\ stage \in {"serving", "closing"}
  /\ phase[r] = "new"
  /\ phase' = [phase EXCEPT ![r] = "reading"]
  /\ snapshot' = [snapshot EXCEPT ![r] = current]
  /\ UNCHANGED <<lease, poolVars, reloadVars, stageVars, histVars>>

(* entries lists what the pool has until dispose() harvests it. *)
Registered(g) == pool[g] \in {"open", "draining"}

Ends(r) == phase' = [phase EXCEPT ![r] = "done"]

(* state.pool.acquire in the turn of the caller.  A harvested pool throws:  *)
(* an authorizer that throws denies, the integration answers 502.           *)
Acquires(r) ==
  IF Registered(snapshot[r])
  THEN phase' = [phase EXCEPT ![r] = "waiting"]
  ELSE Ends(r)

(* The body is there: no such route, a preflight, an authorizer without a   *)
(* Lambda that denies; or a Lambda authorizer without a cached answer; or   *)
(* the integration.                                                         *)
BodyRead(r) ==
  /\ phase[r] = "reading"
  /\ Ends(r) \/ Acquires(r)
  /\ UNCHANGED <<snapshot, lease, poolVars, reloadVars, stageVars, histVars>>

(* A warm container of the pool. *)
GetsWarm(r, c) ==
  /\ phase[r] = "waiting"
  /\ owner[c] = snapshot[r] /\ Registered(snapshot[r]) /\ c \notin Leased
  /\ phase' = [phase EXCEPT ![r] = "invoking"]
  /\ lease' = [lease EXCEPT ![r] = c]
  /\ UNCHANGED <<snapshot, poolVars, reloadVars, stageVars, histVars>>

(* A cold start: acquire does not ask whether the pool is disposing. *)
Starts(r, c) ==
  /\ phase[r] = "waiting"
  /\ c \notin docker /\ c \notin Leased
  /\ phase' = [phase EXCEPT ![r] = "starting"]
  /\ lease' = [lease EXCEPT ![r] = c]
  /\ owner' = [owner EXCEPT ![c] = snapshot[r]]
  /\ strays' = IF Registered(snapshot[r]) THEN strays \ {c}
               ELSE strays \union {c}
  /\ UNCHANGED <<snapshot, pool, drain, settling, doomed, reloadVars,
                 stageVars, timedOut>>

(* A dispose() that waits for this start takes over the containers cs. *)
Settles(r, cs) ==
  /\ settling' = [g \in States |-> settling[g] \ {r}]
  /\ doomed' = [g \in States |->
                  IF r \in settling[g] THEN doomed[g] \union cs ELSE doomed[g]]

StartEnds(r) ==
  /\ phase[r] = "starting"
  /\ phase' = [phase EXCEPT ![r] = "invoking"]
  /\ Settles(r, {lease[r]})
  /\ UNCHANGED <<snapshot, lease, owner, pool, drain, reloadVars,
                 stageVars, histVars>>

(* docker fails before or after the container exists; or dispose() rejects  *)
(* the wait queue.                                                          *)
AcquireFails(r) ==
  /\ phase[r] \in {"waiting", "starting"}
  /\ Ends(r)
  /\ lease' = [lease EXCEPT ![r] = NoContainer]
  /\ owner' = [c \in Containers |-> IF c = lease[r] THEN NoState ELSE owner[c]]
  /\ Settles(r, {})
  /\ UNCHANGED <<snapshot, pool, drain, reloadVars, stageVars, histVars>>

(* The release in the finally block. *)
Released(r) == [lease EXCEPT ![r] = NoContainer]

(* The invocation ends, or fails because its container is gone.  After an   *)
(* authorizer's comes the integration's: the model does not count them.     *)
InvokeEnds(r) ==
  /\ phase[r] = "invoking"
  /\ lease' = Released(r)
  /\ drain' = [g \in States |-> drain[g] \ {r}]
  /\ Ends(r) \/ (lease[r] \in docker /\ Acquires(r))
  /\ UNCHANGED <<snapshot, owner, pool, settling, doomed, reloadVars, stageVars,
                 histVars>>

-----------------------------------------------------------------------------
(* dispose() of the pool of state g                                         *)

(* What it does before its first await; a second call returns at once. *)
BeginDispose(g) ==
  drain' = [drain EXCEPT ![g] =
    IF pool[g] = "open"
    THEN {r \in Requests : snapshot[r] = g /\ phase[r] = "invoking"}
    ELSE @]

Disposing(g) == IF pool[g] = "open" THEN "draining" ELSE pool[g]

(* Mutation: dispose() does not wait for borrowed containers. *)
NobodyBorrows(g) == {}

Undrained(g) == drain[g]

InFlightStarts(g) ==
  {r \in Requests : snapshot[r] = g /\ phase[r] = "starting"}

(* The leases are returned, or 30 s are over: the entries go, with the      *)
(* containers they listed, borrowed or not; starts in flight are awaited.   *)
Harvest(g) ==
  /\ pool[g] = "draining"
  /\ timedOut' = IF Undrained(g) = {} THEN timedOut ELSE timedOut \union {g}
  /\ pool' = [pool EXCEPT ![g] = "settling"]
  /\ settling' = [settling EXCEPT ![g] = InFlightStarts(g)]
  /\ doomed' = [doomed EXCEPT ![g] =
       {c \in docker : owner[c] = g /\
          \A r \in Requests : phase[r] = "starting" => lease[r] # c}]
  /\ UNCHANGED <<reqVars, owner, drain, reloadVars, stageVars, strays>>

(* The starts have settled, or 5 s are over: docker removes what was listed.*)
Remove(g) ==
  /\ pool[g] = "settling"
  /\ strays' = strays \union {lease[r] : r \in settling[g]}
  /\ owner' = [c \in Containers |->
                 IF c \in doomed[g] THEN NoState ELSE owner[c]]
  /\ pool' = [pool EXCEPT ![g] = "closed"]
  /\ settling' = [settling EXCEPT ![g] = {}]
  /\ doomed' = [doomed EXCEPT ![g] = {}]
  /\ UNCHANGED <<reqVars, drain, reloadVars, stageVars, timedOut>>

-----------------------------------------------------------------------------
(* --watch                                                                  *)

Edit ==
  /\ source < MaxReloads
  /\ source' = source + 1
  /\ UNCHANGED <<reqVars, poolVars, current, served, fired, noticed, reload,
                 material, stageVars, histVars>>

(* The debounced watcher; watcher.close() silences it at once. *)
OnChange ==
  /\ stage = "serving"
  /\ noticed # source
  /\ noticed' = source
  /\ fired' = fired + 1
  /\ UNCHANGED <<reqVars, poolVars, current, served, source, reload, material,
                 stageVars, histVars>>

(* Mutation: every change reloads at once. *)
Unchained(k) == TRUE

(* reloadChain: the reloads before this one are over, one way or the other. *)
ChainFree(k) == \A j \in 1 .. (k - 1) : reload[j] \in {"swapped", "failed"}

(* synthesizeAndBuild reads the source some time after the chain is free.   *)
Synthesize(k) ==
  /\ k <= fired /\ reload[k] = "none" /\ ChainFree(k)
  /\ reload' = [reload EXCEPT ![k] = "building"]
  /\ material' = [material EXCEPT ![k] = source]
  /\ UNCHANGED <<reqVars, poolVars, current, served, source, fired, noticed,
                 stageVars, histVars>>

(* cdk synth or an asset build throws: the previous version stays. *)
SynthFails(k) ==
  /\ reload[k] = "building"
  /\ reload' = [reload EXCEPT ![k] = "failed"]
  /\ material' = [material EXCEPT ![k] = 0]
  /\ UNCHANGED <<reqVars, poolVars, current, served, source, fired, noticed,
                 stageVars, histVars>>

(* setServerState with a new pool; the previous pool's dispose() is not     *)
(* awaited.                                                                 *)
Swap(k) ==
  /\ reload[k] = "building"
  /\ reload' = [reload EXCEPT ![k] = "swapped"]
  /\ current' = current + 1
  /\ served' = material[k]
  /\ material' = [material EXCEPT ![k] = 0]
  /\ pool' = [pool EXCEPT ![current] = Disposing(current),
                          ![current + 1] = "open"]
  /\ BeginDispose(current)
  /\ UNCHANGED <<reqVars, owner, settling, doomed, source, fired, noticed,
                 stageVars, histVars>>

-----------------------------------------------------------------------------
(* Shutdown: neither reloadChain nor a previous pool's dispose() is awaited.*)

(* The first signal: watcher.close() is called. *)
Signal ==
  /\ stage = "serving"
  /\ stage' = "closing"
  /\ UNCHANGED <<reqVars, poolVars, reloadVars, last, histVars>>

(* server.close(): nothing is accepted any more. *)
CloseListener ==
  /\ stage = "closing"
  /\ stage' = "closed"
  /\ UNCHANGED <<reqVars, poolVars, reloadVars, last, histVars>>

(* Mutation: server.close() without closeAllConnections. *)
KeptConnections == {r \in Requests : phase[r] \notin {"new", "done"}}

(* closeAllConnections leaves none for server.close() to wait for. *)
OpenConnections == {}

(* Mutation: the state the server was started with. *)
BootState == 0

(* getServerState() at the time of the call. *)
FinalState == current

DisposeCurrent ==
  /\ stage = "closed" /\ OpenConnections = {}
  /\ stage' = "disposing"
  /\ last' = FinalState
  /\ pool' = [pool EXCEPT ![FinalState] = Disposing(FinalState)]
  /\ BeginDispose(FinalState)
  /\ UNCHANGED <<reqVars, owner, settling, doomed, reloadVars, histVars>>

Exit ==
  /\ stage = "disposing" /\ pool[last] = "closed"
  /\ stage' = "exited"
  /\ UNCHANGED <<reqVars, poolVars, reloadVars, last, histVars>>

-----------------------------------------------------------------------------
Handle(r) ==
  \/ Accept(r) \/ BodyRead(r) \/ StartEnds(r) \/ AcquireFails(r) \/ InvokeEnds(r)
  \/ \E c \in Containers : GetsWarm(r, c) \/ Starts(r, c)

DisposeStep(g) == Harvest(g) \/ Remove(g)

ReloadStep(k) == Synthesize(k) \/ SynthFails(k) \/ Swap(k)

ShutdownStep == CloseListener \/ DisposeCurrent \/ Exit

(* process.exit ends everything. *)
Next ==
  /\ stage # "exited"
  /\ \/ \E r \in Requests : Handle(r)
     \/ \E g \in States : DisposeStep(g)
     \/ \E k \in Reloads : ReloadStep(k)
     \/ Edit \/ OnChange \/ Signal \/ ShutdownStep

Spec == Init /\ [][Next]_vars

(* The drain and the starts have timers, synth and docker end, the watcher  *)
(* sees a change, the cleanup goes on.  Nothing is assumed of the clients,  *)
(* nor of a handler: it may wait forever in a disposed pool.                *)
Fairness ==
  /\ \A g \in States : WF_vars(stage # "exited" /\ DisposeStep(g))
  /\ \A k \in Reloads : WF_vars(stage # "exited" /\ ReloadStep(k))
  /\ WF_vars(OnChange)
  /\ WF_vars(ShutdownStep)

FairSpec == Spec /\ Fairness

-----------------------------------------------------------------------------
(* Types; a handler has a container exactly while it starts or invokes one, *)
(* and only one handler has it (the release of http-server.ts:688).         *)
TypeOK ==
  /\ phase \in [Requests ->
       {"new", "reading", "waiting", "starting", "invoking", "done"}]
  /\ snapshot \in [Requests -> States]
  /\ lease \in [Requests -> Containers \union {NoContainer}]
  /\ owner \in [Containers -> States \union {NoState}]
  /\ pool \in [States -> {"none", "open", "draining", "settling", "closed"}]
  /\ drain \in [States -> SUBSET Requests]
  /\ settling \in [States -> SUBSET Requests]
  /\ doomed \in [States -> SUBSET Containers]
  /\ current \in States /\ served \in States /\ source \in States
  /\ fired \in States /\ noticed \in States
  /\ reload \in [Reloads -> {"none", "building", "swapped", "failed"}]
  /\ material \in [Reloads -> States]
  /\ stage \in {"serving", "closing", "closed", "disposing", "exited"}
  /\ last \in States \union {NoState}
  /\ strays \subseteq Containers /\ timedOut \subseteq States
  /\ \A r \in Requests :
       lease[r] # NoContainer <=> phase[r] \in {"starting", "invoking"}
  /\ \A r, s \in Requests : lease[r] = lease[s] => r = s \/ lease[r] = NoContainer

(* A container a request has borrowed runs, and comes from the pool of the  *)
(* state the request was accepted with, until that pool is disposed; one    *)
(* that was borrowed when the dispose began, until it is given back or the  *)
(* drain times out (the reload of local-start-api.ts:3658-3681 under the    *)
(* handler of http-server.ts:581-689).                                      *)
LeaseHonoured ==
  \A r \in Requests :
    LET g == snapshot[r]
    IN phase[r] = "invoking" /\
         (pool[g] = "open" \/ (r \in drain[g] /\ g \notin timedOut))
       => owner[lease[r]] = g

(* Of a disposed pool only those containers are left that were started      *)
(* after dispose() had listed the starts, or took longer than 5 s to start  *)
(* (container-pool.ts:704-733, over every generation of pools a reload      *)
(* leaves behind).  When the command exits, the pool it was serving with is *)
(* disposed; what is left belongs to an older one whose disposal was still  *)
(* under way (local-start-api.ts:1351-1361 against 3676).                   *)
NoOrphan ==
  /\ \A c \in docker : pool[owner[c]] = "closed" => c \in strays
  /\ stage = "exited" =>
       \A c \in docker \ strays :
         owner[c] < last /\ pool[owner[c]] \in {"draining", "settling"}

(* Once every reload is over and the last one succeeded, the server serves  *)
(* the source the watcher last saw, or a newer one: reloads that overlap    *)
(* in time do not overtake each other (reloadChain, 1263-1271).             *)
Fresh ==
  (fired > 0 /\ reload[fired] = "swapped") => served >= noticed

(* A change of the source is served some time, unless the last reload       *)
(* failed or the command ends: a failed reload does not end --watch.        *)
ChangeServed ==
  \A v \in Reloads :
    source >= v ~>
      \/ served >= v
      \/ fired > 0 /\ noticed = source /\ reload[fired] = "failed"
      \/ stage # "serving"

(* A signal ends the command, whatever the requests do. *)
ShutdownFinishes == stage = "closing" ~> stage = "exited"
=============================================================================
