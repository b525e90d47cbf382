--------------------------- MODULE ContainerPool ---------------------------
(***************************************************************************)
(* The warm container pool of `cdkl start-api`: createContainerPool in     *)
(* src/src/local/container-pool.ts.  One entry per Lambda; acquire takes a *)
(* warm container, grows the entry up to the concurrency cap under a       *)
(* promise mutex, or waits; release hands over or warms and arms the idle  *)
(* timer; the timer collects what stayed warm; dispose drains, harvests    *)
(* and removes.  An action is what runs between two awaits.                *)
(*                                                                         *)
(* A container is a member of Handles; which warm one is taken first is    *)
(* left open.  `docker rm` is assumed to succeed.                          *)
(***************************************************************************)
EXTENDS Integers, Sequences, FiniteSets

CONSTANTS
  Lambdas,              (* keys of the specs map                         *)
  Requests,             (* request handlers, one acquire at a time each  *)
  Handles,              (* containers                                    *)
  LambdaOf,             (* the Lambda each request invokes               *)
  PerLambdaConcurrency, (* options.perLambdaConcurrency, before clamping *)
  NotFinite,            (* a number that is not finite                   *)
  NoHandle              (* held by a request that has no container       *)

ASSUME PoolAssumption ==
  /\ LambdaOf \in [Requests -> Lambdas]
  /\ PerLambdaConcurrency \in Int \union {NotFinite}
  /\ NotFinite \notin Int
  /\ NoHandle \notin Handles

VARIABLES
  pc,            (* where each request is in acquire / release           *)
  held,          (* the container each request starts or borrows         *)
  warm,          (* entry.warm                                           *)
  inUse,         (* entry.inUse                                          *)
  waitQueue,     (* entry.waitQueue                                      *)
  growthMutex,   (* entry.growthMutex: the requests chained on it, the   *)
                 (* first one inside the body                            *)
  idleTimer,     (* entry.idleTimer # null                               *)
  docker,        (* the containers the daemon runs                       *)
  collecting,    (* containers gcIdle is removing                        *)
  phase,         (* how far dispose() is; disposed is phase # "live"     *)
  drains,        (* entries whose drain promise is pending               *)
  settling,      (* requests whose start dispose() still waits for       *)
  allHandles,    (* dispose()'s teardown set, less what is removed       *)
  drainTimedOut, (* some drain gave up after drainTimeoutMs              *)
  startTimedOut, (* some wait for a start gave up                        *)
  grace,         (* history: requests in flight since before dispose()   *)
  late           (* history: containers started after dispose() harvested *)

entryVars   == <<warm, inUse, waitQueue, growthMutex, idleTimer>>
disposeVars == <<phase, drains, settling, allHandles, drainTimedOut,
                 startTimedOut>>
histVars    == <<grace, late>>
vars == <<pc, held, entryVars, docker, collecting, disposeVars, histVars>>

-----------------------------------------------------------------------------

(* clampConcurrency *)
ClampConcurrency(input) ==
  IF input = NotFinite THEN 2
  ELSE IF input > 4 THEN 4 ELSE IF input < 1 THEN 1 ELSE input

Cap == ClampConcurrency(PerLambdaConcurrency)

PoolSize(l) == Cardinality(warm[l]) + Cardinality(inUse[l])

(* Mutation: off by one at the cap. *)
HasRoomOffByOne(l) == PoolSize(l) <= Cap

HasRoom(l) == PoolSize(l) < Cap

(* The start promises that have not settled: each is awaited by the acquire *)
(* that made it, so the set is kept as the requests inside startOne.        *)
InFlightStarts == {r \in Requests : pc[r] \in {"booting", "probing"}}

(* dispose() forgets the entries only at its very end. *)
Registered == phase # "done"
Disposed == phase # "live"
Harvested == phase \in {"settling", "removing", "done"}

(* r is inside the mutex body of its entry. *)
Holds(r) ==
  LET chain == growthMutex[LambdaOf[r]] IN chain # <<>> /\ Head(chain) = r

(* A container that nothing refers to: startOne names each one afresh. *)
Unused(h) ==
  /\ h \notin docker
  /\ h \notin collecting
  /\ h \notin allHandles
  /\ \A r \in Requests : held[r] # h
  /\ \A l \in Lambdas : h \notin warm[l] /\ h \notin inUse[l]

-----------------------------------------------------------------------------

Init ==
  /\ pc = [r \in Requests |-> "idle"]
  /\ held = [r \in Requests |-> NoHandle]
  /\ warm = [l \in Lambdas |-> {}]
  /\ inUse = [l \in Lambdas |-> {}]
  /\ waitQueue = [l \in Lambdas |-> <<>>]
  /\ growthMutex = [l \in Lambdas |-> <<>>]
  /\ idleTimer = [l \in Lambdas |-> FALSE]
  /\ docker = {}
  /\ collecting = {}
  /\ phase = "live"
  /\ drains = {}
  /\ settling = {}
  /\ allHandles = {}
  /\ drainTimedOut = FALSE
  /\ startTimedOut = FALSE
  /\ grace = {}
  /\ late = {}

(* Mutation: warm[0] is read but not shifted out. *)
PeekWarm(l, h) == UNCHANGED warm

(* warm.shift() *)
ShiftWarm(l, h) == warm' = [warm EXCEPT ![l] = @ \ {h}]

(* r takes the warm handle h of its Lambda. *)
TakeWarm(r, h) ==
  LET l == LambdaOf[r] IN
  /\ h \in warm[l]
  /\ ShiftWarm(l, h)
  /\ inUse' = [inUse EXCEPT ![l] = @ \union {h}]
  /\ pc' = [pc EXCEPT ![r] = "leased"]
  /\ held' = [held EXCEPT ![r] = h]

(* The request leaves withMutex, its finally lets the next one in. *)
LeaveMutex(r) ==
  growthMutex' = [growthMutex EXCEPT ![LambdaOf[r]] = Tail(@)]

-----------------------------------------------------------------------------
(* acquire *)

(* No entry: dispose() has cleared the map. *)
AcquireUnregistered(r) ==
  /\ pc[r] \in {"idle", "failed"}
  /\ ~Registered
  /\ pc' = [pc EXCEPT ![r] = "failed"]
  /\ UNCHANGED <<held, entryVars, docker, collecting, disposeVars, histVars>>

(* Fast path, the only one that cancels the idle timer. *)
AcquireWarm(r, h) ==
  /\ pc[r] \in {"idle", "failed"}
  /\ Registered
  /\ TakeWarm(r, h)
  /\ idleTimer' = [idleTimer EXCEPT ![LambdaOf[r]] = FALSE]
  /\ UNCHANGED <<waitQueue, growthMutex, docker, collecting, disposeVars,
                 histVars>>

(* No warm handle: chain on the growth mutex. *)
AcquireSlow(r) ==
  /\ pc[r] \in {"idle", "failed"}
  /\ Registered
  /\ warm[LambdaOf[r]] = {}
  /\ pc' = [pc EXCEPT ![r] = "queued"]
  /\ growthMutex' = [growthMutex EXCEPT ![LambdaOf[r]] = Append(@, r)]
  /\ UNCHANGED <<held, warm, inUse, waitQueue, idleTimer, docker, collecting,
                 disposeVars, histVars>>

(* Inside the mutex: a release has warmed a handle meanwhile. *)
RecheckWarm(r, h) ==
  /\ pc[r] = "queued"
  /\ Holds(r)
  /\ TakeWarm(r, h)
  /\ LeaveMutex(r)
  /\ UNCHANGED <<waitQueue, idleTimer, docker, collecting, disposeVars, histVars>>

(* Inside the mutex: below the cap, startOne begins with a name of its own. *)
BeginStart(r, h) ==
  /\ pc[r] = "queued"
  /\ Holds(r)
  /\ warm[LambdaOf[r]] = {}
  /\ HasRoom(LambdaOf[r])
  /\ Unused(h)
  /\ pc' = [pc EXCEPT ![r] = "booting"]
  /\ held' = [held EXCEPT ![r] = h]
  /\ late' = IF Harvested THEN late \union {h} ELSE late \ {h}
  /\ UNCHANGED <<entryVars, docker, collecting, disposeVars, grace>>

(* Inside the mutex: at the cap, wait for a release, holding the mutex. *)
JoinWaitQueue(r) ==
  /\ pc[r] = "queued"
  /\ Holds(r)
  /\ warm[LambdaOf[r]] = {}
  /\ ~HasRoom(LambdaOf[r])
  /\ pc' = [pc EXCEPT ![r] = "waiting"]
  /\ waitQueue' = [waitQueue EXCEPT ![LambdaOf[r]] = Append(@, r)]
  /\ UNCHANGED <<held, warm, inUse, growthMutex, idleTimer, docker, collecting,
                 disposeVars, histVars>>

-----------------------------------------------------------------------------
(* startOne, and the acquire that awaits it *)

(* docker run -d has started the container; the runtime is polled next. *)
ContainerRuns(r) ==
  /\ pc[r] = "booting"
  /\ pc' = [pc EXCEPT ![r] = "probing"]
  /\ docker' = docker \union {held[r]}
  /\ UNCHANGED <<held, entryVars, collecting, disposeVars, histVars>>

(* Mutation: a start that settles while dispose() waits for it is dropped. *)
SettleDropsHandle(r, handles) ==
  /\ settling' = settling \ {r}
  /\ UNCHANGED <<allHandles, phase, drains, drainTimedOut, startTimedOut>>

(* The start promise settles, with the handle of a container or, when it is *)
(* rejected, none: dispose() adds the handle of a start it waits for.       *)
Settle(r, handles) ==
  /\ settling' = settling \ {r}
  /\ allHandles' = IF r \in settling THEN allHandles \union handles
                                     ELSE allHandles
  /\ UNCHANGED <<phase, drains, drainTimedOut, startTimedOut>>

StartSucceeds(r) ==
  /\ pc[r] = "probing"
  /\ pc' = [pc EXCEPT ![r] = "leased"]
  /\ inUse' = [inUse EXCEPT ![LambdaOf[r]] = @ \union {held[r]}]
  /\ LeaveMutex(r)
  /\ Settle(r, {held[r]})
  /\ UNCHANGED <<held, warm, waitQueue, idleTimer, docker, collecting, histVars>>

(* Mutation: the failure path does not remove the container. *)
AbandonStart(r) == UNCHANGED docker

DiscardStart(r) == docker' = docker \ {held[r]}

(* docker run failed, or waitForRieReady did and the container is removed. *)
StartFails(r) ==
  /\ pc[r] \in {"booting", "probing"}
  /\ pc' = [pc EXCEPT ![r] = "failed"]
  /\ held' = [held EXCEPT ![r] = NoHandle]
  /\ DiscardStart(r)
  /\ LeaveMutex(r)
  /\ Settle(r, {})
  /\ UNCHANGED <<warm, inUse, waitQueue, idleTimer, collecting, histVars>>

-----------------------------------------------------------------------------
(* release *)

(* Mutation: the handler keeps its handle after the release. *)
ReturnedKeepsHandle(r) ==
  /\ pc[r] = "leased"
  /\ grace' = grace \ {r}
  /\ UNCHANGED <<held, late>>

Returned(r) ==
  /\ pc[r] = "leased"
  /\ held' = [held EXCEPT ![r] = NoHandle]
  /\ grace' = grace \ {r}
  /\ UNCHANGED late

(* The entries are gone: nothing left to do. *)
ReleaseUnregistered(r) ==
  /\ Returned(r)
  /\ ~Registered
  /\ pc' = [pc EXCEPT ![r] = "idle"]
  /\ UNCHANGED <<entryVars, docker, collecting, disposeVars>>

(* dispose() has begun: leave the handle to its harvest, never to a waiter, *)
(* and resolve the entry's drain when it was the last one.                  *)
ReleaseDisposed(r) ==
  LET l == LambdaOf[r] IN
  /\ Returned(r)
  /\ Registered /\ Disposed
  /\ pc' = [pc EXCEPT ![r] = "idle"]
  /\ inUse' = [inUse EXCEPT ![l] = @ \ {held[r]}]
  /\ warm' = [warm EXCEPT ![l] = @ \union {held[r]}]
  /\ drains' = IF inUse'[l] = {} THEN drains \ {l} ELSE drains
  /\ UNCHANGED <<waitQueue, growthMutex, idleTimer, docker, collecting, phase,
                 settling, allHandles, drainTimedOut, startTimedOut>>

(* Hand the container to the first waiter, which leaves the mutex with it. *)
ReleaseHandoff(r) ==
  LET l == LambdaOf[r]
      w == Head(waitQueue[l])
  IN
  /\ pc[r] = "leased"
  /\ ~Disposed
  /\ waitQueue[l] # <<>>
  /\ waitQueue' = [waitQueue EXCEPT ![l] = Tail(@)]
  /\ pc' = [pc EXCEPT ![r] = "idle", ![w] = "leased"]
  /\ held' = [held EXCEPT ![r] = NoHandle, ![w] = held[r]]
  /\ growthMutex' = [growthMutex EXCEPT ![l] = Tail(@)]
  /\ UNCHANGED <<warm, inUse, idleTimer, docker, collecting, disposeVars,
                 histVars>>

NobodyWaits(l) == waitQueue[l] = <<>>

ResetIdleTimer(l) == idleTimer' = [idleTimer EXCEPT ![l] = TRUE]

(* Nobody waits: the handle is warm again and resetIdleTimer arms the timer. *)
ReleaseWarm(r) ==
  LET l == LambdaOf[r] IN
  /\ Returned(r)
  /\ ~Disposed
  /\ NobodyWaits(l)
  /\ pc' = [pc EXCEPT ![r] = "idle"]
  /\ inUse' = [inUse EXCEPT ![l] = @ \ {held[r]}]
  /\ warm' = [warm EXCEPT ![l] = @ \union {held[r]}]
  /\ ResetIdleTimer(l)
  /\ UNCHANGED <<waitQueue, growthMutex, docker, collecting, disposeVars>>

-----------------------------------------------------------------------------
(* gcIdle *)

(* Mutation: the timer collects the whole entry, borrowed containers too. *)
IdleOrBorrowed(l) == warm[l] \union inUse[l]

(* warm.splice(0, warm.length) *)
IdleHandles(l) == warm[l]

IdleGc(l) ==
  /\ idleTimer[l]
  /\ idleTimer' = [idleTimer EXCEPT ![l] = FALSE]
  /\ warm' = [warm EXCEPT ![l] = {}]
  /\ collecting' = collecting \union IdleHandles(l)
  /\ UNCHANGED <<pc, held, inUse, waitQueue, growthMutex, docker, disposeVars,
                 histVars>>

RemoveCollected(h) ==
  /\ h \in collecting
  /\ collecting' = collecting \ {h}
  /\ docker' = docker \ {h}
  /\ UNCHANGED <<pc, held, entryVars, disposeVars, histVars>>

-----------------------------------------------------------------------------
(* dispose *)

(* Mutation: dispose() tears down without waiting for leases. *)
NoDrainTargets == {}

(* Entries dispose() waits for before it removes anything. *)
DrainTargets == {l \in Lambdas : inUse[l] # {}}

Waiters == UNION {{waitQueue[l][i] : i \in DOMAIN waitQueue[l]} : l \in Lambdas}

(* Timers cancelled, waiters rejected; each leaves the mutex it held. *)
CancelPending ==
  /\ idleTimer' = [l \in Lambdas |-> FALSE]
  /\ waitQueue' = [l \in Lambdas |-> <<>>]
  /\ growthMutex' = [l \in Lambdas |-> IF waitQueue[l] = <<>>
                                       THEN growthMutex[l]
                                       ELSE Tail(growthMutex[l])]
  /\ pc' = [r \in Requests |-> IF r \in Waiters THEN "failed" ELSE pc[r]]
  /\ grace' = {r \in Requests : pc[r] = "leased"}
  /\ UNCHANGED late

(* Every handle of every entry goes to the teardown set; the starts in      *)
(* flight at this moment are the ones dispose() waits for.                  *)
HarvestEntries ==
  /\ allHandles' = UNION {warm[l] \union inUse[l] : l \in Lambdas}
  /\ warm' = [l \in Lambdas |-> {}]
  /\ inUse' = [l \in Lambdas |-> {}]
  /\ settling' = InFlightStarts
  /\ phase' = "settling"

(* dispose() is called in a turn of its own (a signal, the end of a reload):  *)
(* no acquire is between a free mutex and its body then.                     *)
MutexSettled == \A r \in Requests : pc[r] = "queued" => ~Holds(r)

(* Nothing in use: dispose() runs to its harvest without an await. *)
DisposeIdle ==
  /\ phase = "live"
  /\ MutexSettled
  /\ DrainTargets = {}
  /\ CancelPending
  /\ HarvestEntries
  /\ UNCHANGED <<held, docker, collecting, drains, drainTimedOut,
                 startTimedOut>>

DisposeBusy ==
  /\ phase = "live"
  /\ MutexSettled
  /\ DrainTargets # {}
  /\ CancelPending
  /\ phase' = "draining"
  /\ drains' = DrainTargets
  /\ UNCHANGED <<held, warm, inUse, docker, collecting, settling, allHandles,
                 drainTimedOut, startTimedOut>>

(* 30 seconds without the entry's last release. *)
DrainTimeout(l) ==
  /\ phase = "draining"
  /\ l \in drains
  /\ drains' = drains \ {l}
  /\ drainTimedOut' = TRUE
  /\ UNCHANGED <<pc, held, entryVars, docker, collecting, phase, settling,
                 allHandles, startTimedOut, histVars>>

Harvest ==
  /\ phase = "draining"
  /\ drains = {}
  /\ HarvestEntries
  /\ UNCHANGED <<pc, held, waitQueue, growthMutex, idleTimer, docker,
                 collecting, drains, drainTimedOut, startTimedOut, histVars>>

(* 5 seconds without the start settling. *)
StartTimeout(r) ==
  /\ phase = "settling"
  /\ r \in settling
  /\ settling' = settling \ {r}
  /\ startTimedOut' = TRUE
  /\ UNCHANGED <<pc, held, entryVars, docker, collecting, phase, drains,
                 allHandles, drainTimedOut, histVars>>

BeginTeardown ==
  /\ phase = "settling"
  /\ settling = {}
  /\ phase' = "removing"
  /\ UNCHANGED <<pc, held, entryVars, docker, collecting, drains, settling,
                 allHandles, drainTimedOut, startTimedOut, histVars>>

TearDown(h) ==
  /\ phase = "removing"
  /\ h \in allHandles
  /\ allHandles' = allHandles \ {h}
  /\ docker' = docker \ {h}
  /\ UNCHANGED <<pc, held, entryVars, collecting, phase, drains, settling,
                 drainTimedOut, startTimedOut, histVars>>

DisposeEnd ==
  /\ phase = "removing"
  /\ allHandles = {}
  /\ phase' = "done"
  /\ UNCHANGED <<pc, held, entryVars, docker, collecting, drains, settling,
                 allHandles, drainTimedOut, startTimedOut, histVars>>

-----------------------------------------------------------------------------

Acquire(r) ==
  \/ AcquireUnregistered(r)
  \/ AcquireSlow(r)
  \/ \E h \in Handles : AcquireWarm(r, h)

(* The steps of an acquire that no one else has to enable. *)
InsideMutex(r) ==
  \/ JoinWaitQueue(r)
  \/ \E h \in Handles : RecheckWarm(r, h) \/ BeginStart(r, h)

Start(r) ==
  \/ ContainerRuns(r)
  \/ StartSucceeds(r)
  \/ StartFails(r)

Release(r) ==
  \/ ReleaseUnregistered(r)
  \/ ReleaseDisposed(r)
  \/ ReleaseHandoff(r)
  \/ ReleaseWarm(r)

Dispose ==
  \/ DisposeIdle
  \/ DisposeBusy
  \/ Harvest
  \/ BeginTeardown
  \/ DisposeEnd

Next ==
  \/ \E r \in Requests : Acquire(r) \/ InsideMutex(r) \/ Start(r) \/ Release(r)
  \/ \E r \in Requests : StartTimeout(r)
  \/ \E l \in Lambdas : IdleGc(l) \/ DrainTimeout(l)
  \/ \E h \in Handles : RemoveCollected(h) \/ TearDown(h)
  \/ Dispose

Spec == Init /\ [][Next]_vars

(* Promise continuations run; docker and the runtime poll answer or give up  *)
(* (30 s); the handler releases from a finally once its invocation has ended; *)
(* timers fire.  Requests need not arrive and dispose() need not be called.   *)
Fairness ==
  /\ \A r \in Requests :
       /\ WF_vars(InsideMutex(r))
       /\ WF_vars(Start(r))
       /\ WF_vars(Release(r))
       /\ WF_vars(StartTimeout(r))
  /\ \A l \in Lambdas : WF_vars(DrainTimeout(l)) /\ WF_vars(IdleGc(l))
  /\ \A h \in Handles : WF_vars(RemoveCollected(h)) /\ WF_vars(TearDown(h))
  /\ WF_vars(Harvest \/ BeginTeardown \/ DisposeEnd)

FairSpec == Spec /\ Fairness

-----------------------------------------------------------------------------

Leased == {r \in Requests : pc[r] = "leased"}
Pending == {"queued", "booting", "probing", "waiting"}
Starting(l) == {r \in InFlightStarts : LambdaOf[r] = l}

(* Shapes of the pool's state; a request holds a container exactly while it  *)
(* starts or borrows it.                                                     *)
TypeOK ==
  /\ pc \in [Requests -> {"idle", "failed", "leased"} \union Pending]
  /\ held \in [Requests -> Handles \union {NoHandle}]
  /\ warm \in [Lambdas -> SUBSET Handles]
  /\ inUse \in [Lambdas -> SUBSET Handles]
  /\ waitQueue \in [Lambdas -> Seq(Requests)]
  /\ growthMutex \in [Lambdas -> Seq(Requests)]
  /\ idleTimer \in [Lambdas -> BOOLEAN]
  /\ docker \subseteq Handles
  /\ collecting \subseteq Handles
  /\ phase \in {"live", "draining", "settling", "removing", "done"}
  /\ drains \subseteq Lambdas
  /\ settling \subseteq Requests
  /\ allHandles \subseteq Handles
  /\ drainTimedOut \in BOOLEAN
  /\ startTimedOut \in BOOLEAN
  /\ grace \subseteq Requests
  /\ late \subseteq Handles
  /\ \A r \in Requests : held[r] # NoHandle <=>
                         pc[r] \in {"booting", "probing", "leased"}

(* A request waits only while every container of the entry, up to the cap,   *)
(* is borrowed: no release leaves a warm container beside a waiter.          *)
WaiterMeansFull ==
  ~Disposed => \A l \in Lambdas :
                 waitQueue[l] # <<>> => /\ warm[l] = {}
                                        /\ Cardinality(inUse[l]) = Cap

(* "two acquire()s racing against the cap don't both try to lazy-start": the *)
(* containers of an entry and the start in flight stay within the cap until  *)
(* dispose() has taken the entry's containers over; and nobody waits below   *)
(* the cap or beside a warm container.                                       *)
CapacityRespected ==
  /\ ~Harvested => \A l \in Lambdas :
                     PoolSize(l) + Cardinality(Starting(l)) <= Cap
  /\ WaiterMeansFull

(* A container that a request borrows is nobody else's: not another          *)
(* request's, not in any warm list, not being collected by the idle timer.   *)
LeaseExclusive ==
  \A r \in Leased :
    /\ \A s \in Leased : held[s] = held[r] => s = r
    /\ \A l \in Lambdas : held[r] \notin warm[l]
    /\ held[r] \notin collecting

(* A borrowed container keeps running: as long as dispose() has not begun to *)
(* remove, and for a request in flight since before dispose() until it       *)
(* releases, unless a drain gave up.                                         *)
LeaseKept ==
  \A r \in Leased :
    ~Harvested \/ (r \in grace /\ ~drainTimedOut) => held[r] \in docker

(* dispose() leaves behind no container that ran or was starting when it     *)
(* harvested, unless a start outlived its 5 seconds.                         *)
DisposeRemoves ==
  phase = "done" /\ ~startTimedOut => docker \subseteq collecting \union late

(* Every container that runs is reachable from the pool, a start or a        *)
(* removal: no failed start, collection or hand-over forgets one, and        *)
(* neither does dispose().                                                   *)
NoOrphan ==
  /\ \A h \in docker :
       \/ \E l \in Lambdas : h \in warm[l] \union inUse[l]
       \/ \E r \in InFlightStarts : held[r] = h
       \/ h \in collecting \union allHandles
  /\ DisposeRemoves

(* Until the pool is disposed every acquire ends, with a container or an     *)
(* error, however many requests compete for the cap; and dispose() returns,  *)
(* whatever the requests and starts in flight do.                            *)
EverythingSettles ==
  /\ \A r \in Requests :
       pc[r] \in Pending ~> pc[r] \in {"leased", "failed"} \/ Disposed
  /\ Disposed ~> phase = "done"

(* The comment on waitQueue: dispose() rejects every pending waiter so that  *)
(* the request handler returns 502 instead of hanging forever.               *)
NoAcquireHangs ==
  \A r \in Requests :
    pc[r] \in Pending /\ ~Disposed ~> pc[r] \in {"leased", "failed"}

-----------------------------------------------------------------------------
(* The pool lends containers as LeasePool says it does. *)

Lease == INSTANCE LeasePool WITH
  alive <- docker,
  lease <- [r \in Requests |-> IF pc[r] = "leased" THEN held[r] ELSE NoHandle],
  open  <- ~Harvested

LendsSafely == Lease!Spec
=============================================================================
