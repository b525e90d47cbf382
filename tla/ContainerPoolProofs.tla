------------------------ MODULE ContainerPoolProofs ------------------------
(***************************************************************************)
(* Proofs about ContainerPool, for any sets of Lambdas, requests and       *)
(* containers and any concurrency option: leases are exclusive and last, no *)
(* container is forgotten, the cap holds, and the pool implements LeasePool.*)
(***************************************************************************)
EXTENDS ContainerPool, SequenceTheorems, FiniteSetTheorems, TLAPS

(* A request that starts a container or waits holds the mutex of its entry,  *)
(* and the wait queue of an entry is the request that waits there, if any.   *)
MutexOK ==
  /\ \A r \in Requests :
       pc[r] \in {"booting", "probing", "waiting"} => Holds(r)
  /\ \A r \in Requests :
       pc[r] = "waiting" => waitQueue[LambdaOf[r]] = <<r>>
  /\ \A l \in Lambdas :
       waitQueue[l] # <<>> =>
         \E r \in Requests :
           LambdaOf[r] = l /\ pc[r] = "waiting" /\ waitQueue[l] = <<r>>

TypeInv == TypeOK /\ MutexOK

(* At most one request is inside the mutex of an entry, so the one that      *)
(* leaves it takes nobody else out.                                          *)
LEMMA LeaveMutexOK ==
  ASSUME TypeInv, NEW r \in Requests, Holds(r), LeaveMutex(r)
  PROVE  /\ growthMutex' \in [Lambdas -> Seq(Requests)]
         /\ \A s \in Requests :
              s # r /\ pc[s] \in {"booting", "probing", "waiting"} =>
                LambdaOf[s] # LambdaOf[r] /\ Holds(s)'
<1> USE PoolAssumption
<1>1. Tail(growthMutex[LambdaOf[r]]) \in Seq(Requests)
  BY HeadTailProperties DEF TypeInv, TypeOK, Holds
<1>2. growthMutex' \in [Lambdas -> Seq(Requests)]
  BY <1>1 DEF TypeInv, TypeOK, LeaveMutex
<1>3. ASSUME NEW s \in Requests, s # r,
             pc[s] \in {"booting", "probing", "waiting"}
      PROVE  LambdaOf[s] # LambdaOf[r] /\ Holds(s)'
  <2>1. Holds(s)
    BY <1>3 DEF TypeInv, MutexOK
  <2>2. LambdaOf[s] # LambdaOf[r]
    BY <1>3, <2>1 DEF Holds
  <2> QED
    BY <2>1, <2>2 DEF TypeInv, TypeOK, Holds, LeaveMutex
<1> QED BY <1>2, <1>3

LEMMA InitTypeInv == Init => TypeInv
<1> SUFFICES ASSUME Init PROVE TypeInv
  OBVIOUS
<1>1. TypeOK
  BY PoolAssumption, EmptySeq DEF Init, TypeOK, Pending
<1>2. MutexOK
  BY PoolAssumption DEF Init, MutexOK
<1> QED BY <1>1, <1>2 DEF TypeInv

LEMMA AcquireTypeInv ==
  ASSUME TypeInv, NEW r \in Requests, Acquire(r)
  PROVE  TypeInv'
<1> USE PoolAssumption
<1>1. CASE AcquireUnregistered(r)
  BY <1>1 DEF TypeInv, TypeOK, MutexOK, Holds, AcquireUnregistered, Pending,
              entryVars, disposeVars, histVars
<1>2. CASE AcquireSlow(r)
  <2>1. TypeOK'
    BY <1>2 DEF TypeInv, TypeOK, AcquireSlow, Pending, disposeVars, histVars
  <2>2. ASSUME NEW s \in Requests, Holds(s) PROVE Holds(s)'
    <3>1. growthMutex[LambdaOf[s]] \in Seq(Requests)
      BY DEF TypeInv, TypeOK
    <3>2. CASE LambdaOf[s] = LambdaOf[r]
      <4>1. growthMutex'[LambdaOf[s]] = Append(growthMutex[LambdaOf[s]], r)
        BY <1>2, <3>2 DEF TypeInv, TypeOK, AcquireSlow
      <4> QED
        BY <2>2, <3>1, <4>1, HeadTailAppend, AppendProperties DEF Holds
    <3>3. CASE LambdaOf[s] # LambdaOf[r]
      BY <1>2, <2>2, <3>3 DEF TypeInv, TypeOK, Holds, AcquireSlow
    <3> QED BY <3>2, <3>3
  <2> QED
    BY <1>2, <2>1, <2>2 DEF TypeInv, TypeOK, MutexOK, AcquireSlow, Pending
<1>3. ASSUME NEW h \in Handles, AcquireWarm(r, h) PROVE TypeInv'
  BY <1>3 DEF TypeInv, TypeOK, MutexOK, Holds, AcquireWarm, TakeWarm, ShiftWarm,
              Pending, disposeVars, histVars
<1> QED BY <1>1, <1>2, <1>3 DEF Acquire

LEMMA InsideMutexTypeInv ==
  ASSUME TypeInv, NEW r \in Requests, InsideMutex(r)
  PROVE  TypeInv'
<1> USE PoolAssumption
<1>1. CASE JoinWaitQueue(r)
  <2>1. waitQueue[LambdaOf[r]] = <<>>
    BY <1>1 DEF TypeInv, TypeOK, MutexOK, Holds, JoinWaitQueue
  <2>2. waitQueue' = [waitQueue EXCEPT ![LambdaOf[r]] = <<r>>]
    BY <1>1, <2>1 DEF JoinWaitQueue, TypeInv, TypeOK
  <2>3. <<r>> \in Seq(Requests)
    OBVIOUS
  <2>4. TypeOK'
    BY <1>1, <2>2, <2>3
    DEF TypeInv, TypeOK, JoinWaitQueue, Pending, disposeVars, histVars
  <2>5. MutexOK'
    <3>1. pc' = [pc EXCEPT ![r] = "waiting"] /\ growthMutex' = growthMutex
      BY <1>1 DEF JoinWaitQueue
    <3>2. ASSUME NEW s \in Requests,
                 pc'[s] \in {"booting", "probing", "waiting"}
          PROVE  Holds(s)'
      BY <1>1, <3>1, <3>2 DEF TypeInv, TypeOK, MutexOK, Holds, JoinWaitQueue
    <3>3. ASSUME NEW s \in Requests, pc'[s] = "waiting"
          PROVE  waitQueue'[LambdaOf[s]] = <<s>>
      <4>1. CASE s = r
        BY <2>2, <4>1 DEF TypeInv, TypeOK
      <4>2. CASE s # r
        <5>1. pc[s] = "waiting" /\ waitQueue[LambdaOf[s]] = <<s>>
          BY <3>1, <3>3, <4>2 DEF TypeInv, TypeOK, MutexOK
        <5>2. LambdaOf[s] # LambdaOf[r]
          <6>1. <<s>> # <<>>
            OBVIOUS
          <6> QED BY <2>1, <5>1, <6>1
        <5> QED BY <2>2, <5>1, <5>2 DEF TypeInv, TypeOK
      <4> QED BY <4>1, <4>2
    <3>4. ASSUME NEW l \in Lambdas, waitQueue'[l] # <<>>
          PROVE  \E s \in Requests : /\ LambdaOf[s] = l
                                     /\ pc'[s] = "waiting"
                                     /\ waitQueue'[l] = <<s>>
      <4>1. CASE l = LambdaOf[r]
        BY <2>2, <3>1, <4>1 DEF TypeInv, TypeOK
      <4>2. CASE l # LambdaOf[r]
        <5>1. waitQueue'[l] = waitQueue[l]
          BY <2>2, <4>2 DEF TypeInv, TypeOK
        <5>2. PICK s \in Requests :
                LambdaOf[s] = l /\ pc[s] = "waiting" /\ waitQueue[l] = <<s>>
          BY <3>4, <5>1 DEF TypeInv, MutexOK
        <5> QED BY <3>1, <4>2, <5>1, <5>2 DEF TypeInv, TypeOK
      <4> QED BY <4>1, <4>2
    <3> QED BY <3>2, <3>3, <3>4 DEF MutexOK
  <2> QED BY <2>4, <2>5 DEF TypeInv
<1>2. ASSUME NEW h \in Handles, RecheckWarm(r, h) PROVE TypeInv'
  <2>1. TypeOK'
    BY <1>2, LeaveMutexOK
    DEF TypeInv, TypeOK, RecheckWarm, TakeWarm, ShiftWarm, Pending,
        disposeVars, histVars
  <2>2. MutexOK'
    BY <1>2, LeaveMutexOK
    DEF TypeInv, TypeOK, MutexOK, RecheckWarm, TakeWarm, ShiftWarm
  <2> QED BY <2>1, <2>2 DEF TypeInv
<1>3. ASSUME NEW h \in Handles, BeginStart(r, h) PROVE TypeInv'
  BY <1>3
  DEF TypeInv, TypeOK, MutexOK, Holds, BeginStart, Pending, entryVars,
      disposeVars
<1> QED BY <1>1, <1>2, <1>3 DEF InsideMutex

LEMMA StartTypeInv ==
  ASSUME TypeInv, NEW r \in Requests, Start(r)
  PROVE  TypeInv'
<1> USE PoolAssumption
<1>1. CASE ContainerRuns(r)
  BY <1>1
  DEF TypeInv, TypeOK, MutexOK, Holds, ContainerRuns, Pending, entryVars,
      disposeVars, histVars
<1>2. CASE StartSucceeds(r)
  <2>1. Holds(r) /\ LeaveMutex(r)
    BY <1>2 DEF StartSucceeds, TypeInv, MutexOK
  <2>2. TypeOK'
    BY <1>2, <2>1, LeaveMutexOK
    DEF TypeInv, TypeOK, StartSucceeds, Settle, Pending, histVars
  <2>3. MutexOK'
    BY <1>2, <2>1, LeaveMutexOK DEF TypeInv, TypeOK, MutexOK, StartSucceeds
  <2> QED BY <2>2, <2>3 DEF TypeInv
<1>3. CASE StartFails(r)
  <2>1. Holds(r) /\ LeaveMutex(r)
    BY <1>3 DEF StartFails, TypeInv, MutexOK
  <2>2. TypeOK'
    BY <1>3, <2>1, LeaveMutexOK
    DEF TypeInv, TypeOK, StartFails, DiscardStart, Settle, Pending, histVars
  <2>3. MutexOK'
    BY <1>3, <2>1, LeaveMutexOK DEF TypeInv, TypeOK, MutexOK, StartFails
  <2> QED BY <2>2, <2>3 DEF TypeInv
<1> QED BY <1>1, <1>2, <1>3 DEF Start

LEMMA ReleaseTypeInv ==
  ASSUME TypeInv, NEW r \in Requests, Release(r)
  PROVE  TypeInv'
<1> USE PoolAssumption
<1>1. CASE ReleaseUnregistered(r)
  BY <1>1
  DEF TypeInv, TypeOK, MutexOK, Holds, ReleaseUnregistered, Returned, Pending,
      entryVars, disposeVars
<1>2. CASE ReleaseDisposed(r)
  <2>1. held[r] \in Handles
    BY <1>2 DEF ReleaseDisposed, Returned, TypeInv, TypeOK
  <2>2. TypeOK'
    BY <1>2, <2>1 DEF TypeInv, TypeOK, ReleaseDisposed, Returned, Pending
  <2>3. MutexOK'
    BY <1>2 DEF TypeInv, TypeOK, MutexOK, Holds, ReleaseDisposed, Returned
  <2> QED BY <2>2, <2>3 DEF TypeInv
<1>3. CASE ReleaseWarm(r)
  <2>1. held[r] \in Handles
    BY <1>3 DEF ReleaseWarm, Returned, TypeInv, TypeOK
  <2>2. TypeOK'
    BY <1>3, <2>1
    DEF TypeInv, TypeOK, ReleaseWarm, ResetIdleTimer, Returned, Pending,
        disposeVars
  <2>3. MutexOK'
    BY <1>3 DEF TypeInv, TypeOK, MutexOK, Holds, ReleaseWarm, Returned
  <2> QED BY <2>2, <2>3 DEF TypeInv
<1>4. CASE ReleaseHandoff(r)
  <2> DEFINE l == LambdaOf[r]
  <2>1. PICK w \in Requests : /\ LambdaOf[w] = l
                              /\ pc[w] = "waiting"
                              /\ waitQueue[l] = <<w>>
    BY <1>4 DEF ReleaseHandoff, TypeInv, MutexOK
  <2>2. /\ waitQueue' = [waitQueue EXCEPT ![l] = <<>>]
        /\ pc' = [pc EXCEPT ![r] = "idle", ![w] = "leased"]
        /\ held' = [held EXCEPT ![r] = NoHandle, ![w] = held[r]]
        /\ LeaveMutex(w)
    BY <1>4, <2>1 DEF ReleaseHandoff, LeaveMutex
  <2>3. Holds(w)
    BY <2>1 DEF TypeInv, MutexOK
  <2>4. held[r] \in Handles /\ w # r
    BY <1>4, <2>1 DEF ReleaseHandoff, TypeInv, TypeOK
  <2>5. waitQueue' \in [Lambdas -> Seq(Requests)]
    BY <2>2, EmptySeq DEF TypeInv, TypeOK
  <2>6. TypeOK'
    <3>1. growthMutex' \in [Lambdas -> Seq(Requests)]
      BY <2>2, <2>3, LeaveMutexOK
    <3>2. pc' \in [Requests -> {"idle", "failed", "leased"} \union Pending]
      BY <2>2 DEF TypeInv, TypeOK
    <3>3. /\ held' \in [Requests -> Handles \union {NoHandle}]
          /\ \A s \in Requests : held'[s] # NoHandle <=>
                                   pc'[s] \in {"booting", "probing", "leased"}
      <4>1. held[r] # NoHandle
        BY <2>4
      <4>2. \A s \in Requests \ {r, w} : held'[s] = held[s] /\ pc'[s] = pc[s]
        BY <2>2 DEF TypeInv, TypeOK
      <4>3. held'[r] = NoHandle /\ pc'[r] = "idle"
        BY <2>2, <2>4 DEF TypeInv, TypeOK
      <4>4. held'[w] = held[r] /\ pc'[w] = "leased"
        BY <2>2, <2>4 DEF TypeInv, TypeOK
      <4>5. held' \in [Requests -> Handles \union {NoHandle}]
        BY <2>2, <2>4 DEF TypeInv, TypeOK
      <4> QED BY <4>1, <4>2, <4>3, <4>4, <4>5 DEF TypeInv, TypeOK
    <3>4. /\ UNCHANGED <<warm, inUse, idleTimer, docker, collecting>>
          /\ UNCHANGED <<disposeVars, histVars>>
      BY <1>4 DEF ReleaseHandoff
    <3> QED
      BY <2>5, <3>1, <3>2, <3>3, <3>4
      DEF TypeInv, TypeOK, disposeVars, histVars
  <2>7. MutexOK'
    BY <2>1, <2>2, <2>3, <2>4, LeaveMutexOK DEF TypeInv, TypeOK, MutexOK
  <2> QED BY <2>6, <2>7 DEF TypeInv
<1> QED BY <1>1, <1>2, <1>3, <1>4 DEF Release

LEMMA TimerTypeInv ==
  ASSUME TypeInv, NEW l \in Lambdas, IdleGc(l) \/ DrainTimeout(l)
  PROVE  TypeInv'
<1>1. CASE IdleGc(l)
  <2>1. TypeOK'
    BY <1>1 DEF TypeInv, TypeOK, IdleGc, IdleHandles, disposeVars, histVars
  <2>2. MutexOK'
    BY <1>1 DEF TypeInv, MutexOK, Holds, IdleGc
  <2> QED BY <2>1, <2>2 DEF TypeInv
<1>2. CASE DrainTimeout(l)
  <2>1. TypeOK'
    BY <1>2 DEF TypeInv, TypeOK, DrainTimeout, entryVars, histVars
  <2>2. MutexOK'
    BY <1>2 DEF TypeInv, MutexOK, Holds, DrainTimeout, entryVars
  <2> QED BY <2>1, <2>2 DEF TypeInv
<1> QED BY <1>1, <1>2

LEMMA RemovalTypeInv ==
  ASSUME TypeInv, NEW h \in Handles, RemoveCollected(h) \/ TearDown(h)
  PROVE  TypeInv'
<1>1. /\ UNCHANGED <<pc, held, entryVars, phase, drains, settling,
                     drainTimedOut, startTimedOut, histVars>>
      /\ docker' \subseteq docker
      /\ collecting' \subseteq collecting
      /\ allHandles' \subseteq allHandles
  BY DEF RemoveCollected, TearDown, disposeVars
<1>2. TypeOK'
  BY <1>1 DEF TypeInv, TypeOK, entryVars, histVars
<1>3. MutexOK'
  BY <1>1 DEF TypeInv, MutexOK, Holds, entryVars
<1> QED BY <1>2, <1>3 DEF TypeInv

LEMMA StartTimeoutTypeInv ==
  ASSUME TypeInv, NEW r \in Requests, StartTimeout(r)
  PROVE  TypeInv'
  BY DEF TypeInv, TypeOK, MutexOK, Holds, StartTimeout, entryVars, histVars

(* The waiters are exactly the requests in "waiting".                        *)
LEMMA WaitersAreWaiting ==
  ASSUME TypeInv, NEW r \in Requests
  PROVE  r \in Waiters <=> pc[r] = "waiting"
<1> USE PoolAssumption
<1>1. ASSUME r \in Waiters PROVE pc[r] = "waiting"
  <2>1. PICK l \in Lambdas : r \in {waitQueue[l][i] : i \in DOMAIN waitQueue[l]}
    BY <1>1 DEF Waiters
  <2>2. PICK i \in DOMAIN waitQueue[l] : waitQueue[l][i] = r
    BY <2>1
  <2>3. waitQueue[l] # <<>>
    BY <2>2
  <2>4. PICK s \in Requests : pc[s] = "waiting" /\ waitQueue[l] = <<s>>
    BY <2>3 DEF TypeInv, MutexOK
  <2> QED BY <2>2, <2>4
<1>2. ASSUME pc[r] = "waiting" PROVE r \in Waiters
  <2>1. waitQueue[LambdaOf[r]] = <<r>> /\ LambdaOf[r] \in Lambdas
    BY <1>2 DEF TypeInv, MutexOK
  <2>2. r \in {waitQueue[LambdaOf[r]][i] : i \in DOMAIN waitQueue[LambdaOf[r]]}
    BY <2>1
  <2> QED BY <2>1, <2>2 DEF Waiters
<1> QED BY <1>1, <1>2

LEMMA CancelPendingTypeInv ==
  ASSUME TypeInv, CancelPending
  PROVE  /\ pc' \in [Requests -> {"idle", "failed", "leased"} \union Pending]
         /\ waitQueue' \in [Lambdas -> Seq(Requests)]
         /\ growthMutex' \in [Lambdas -> Seq(Requests)]
         /\ idleTimer' \in [Lambdas -> BOOLEAN]
         /\ grace' \subseteq Requests
         /\ late' = late
         /\ \A r \in Requests :
              pc'[r] = IF pc[r] = "waiting" THEN "failed" ELSE pc[r]
         /\ MutexOK'
<1> USE PoolAssumption
<1>1. \A r \in Requests :
        pc'[r] = IF pc[r] = "waiting" THEN "failed" ELSE pc[r]
  BY WaitersAreWaiting DEF CancelPending
<1>2. pc' \in [Requests -> {"idle", "failed", "leased"} \union Pending]
  BY DEF CancelPending, TypeInv, TypeOK
<1>3. waitQueue' \in [Lambdas -> Seq(Requests)]
  BY EmptySeq DEF CancelPending
<1>4. growthMutex' \in [Lambdas -> Seq(Requests)]
  <2>1. ASSUME NEW l \in Lambdas, waitQueue[l] # <<>>
        PROVE  Tail(growthMutex[l]) \in Seq(Requests)
    <3>1. growthMutex[l] # <<>>
      BY <2>1 DEF TypeInv, MutexOK, Holds
    <3> QED BY <3>1, HeadTailProperties DEF TypeInv, TypeOK
  <2> QED BY <2>1 DEF CancelPending, TypeInv, TypeOK
<1>5. ASSUME NEW r \in Requests, pc'[r] \in {"booting", "probing", "waiting"}
      PROVE  Holds(r)'
  <2>1. Holds(r) /\ pc[r] \in {"booting", "probing"}
    BY <1>1, <1>5 DEF TypeInv, MutexOK
  <2>2. waitQueue[LambdaOf[r]] = <<>>
    BY <2>1 DEF TypeInv, MutexOK, Holds
  <2>3. growthMutex'[LambdaOf[r]] = growthMutex[LambdaOf[r]]
    BY <2>2 DEF CancelPending
  <2> QED BY <2>1, <2>3 DEF Holds
<1>6. MutexOK'
  BY <1>1, <1>5 DEF CancelPending, MutexOK
<1> QED
  BY <1>1, <1>2, <1>3, <1>4, <1>6 DEF CancelPending

LEMMA HarvestTypes ==
  ASSUME TypeInv, HarvestEntries
  PROVE  /\ allHandles' \subseteq Handles
         /\ warm' \in [Lambdas -> SUBSET Handles]
         /\ inUse' \in [Lambdas -> SUBSET Handles]
         /\ settling' \subseteq Requests
         /\ phase' = "settling"
<1>1. allHandles' \subseteq Handles
  <2>1. SUFFICES ASSUME NEW h \in allHandles' PROVE h \in Handles
    OBVIOUS
  <2>2. PICK l \in Lambdas : h \in warm[l] \union inUse[l]
    BY <2>1 DEF HarvestEntries
  <2> QED BY <2>2 DEF TypeInv, TypeOK
<1> QED BY <1>1 DEF HarvestEntries, InFlightStarts

LEMMA DisposeTypeInv ==
  ASSUME TypeInv, Dispose
  PROVE  TypeInv'
<1>1. CASE DisposeIdle
  <2>1. CancelPending /\ HarvestEntries
    BY <1>1 DEF DisposeIdle
  <2>2. TypeOK'
    BY <1>1, <2>1, CancelPendingTypeInv, HarvestTypes
    DEF TypeInv, TypeOK, DisposeIdle
  <2> QED BY <2>1, <2>2, CancelPendingTypeInv DEF TypeInv
<1>2. CASE DisposeBusy
  <2>1. CancelPending
    BY <1>2 DEF DisposeBusy
  <2>2. TypeOK'
    BY <1>2, <2>1, CancelPendingTypeInv
    DEF TypeInv, TypeOK, DisposeBusy, DrainTargets
  <2> QED BY <2>1, <2>2, CancelPendingTypeInv DEF TypeInv
<1>3. CASE Harvest
  <2>1. TypeOK'
    BY <1>3, HarvestTypes DEF TypeInv, TypeOK, Harvest, histVars
  <2>2. MutexOK'
    BY <1>3 DEF TypeInv, MutexOK, Holds, Harvest
  <2> QED BY <2>1, <2>2 DEF TypeInv
<1>4. CASE BeginTeardown
  <2>1. TypeOK'
    BY <1>4 DEF TypeInv, TypeOK, BeginTeardown, entryVars, histVars
  <2>2. MutexOK'
    BY <1>4 DEF TypeInv, MutexOK, Holds, BeginTeardown, entryVars
  <2> QED BY <2>1, <2>2 DEF TypeInv
<1>5. CASE DisposeEnd
  <2>1. TypeOK'
    BY <1>5 DEF TypeInv, TypeOK, DisposeEnd, entryVars, histVars
  <2>2. MutexOK'
    BY <1>5 DEF TypeInv, MutexOK, Holds, DisposeEnd, entryVars
  <2> QED BY <2>1, <2>2 DEF TypeInv
<1> QED BY <1>1, <1>2, <1>3, <1>4, <1>5 DEF Dispose

LEMMA NextTypeInv == TypeInv /\ [Next]_vars => TypeInv'
<1> SUFFICES ASSUME TypeInv, [Next]_vars PROVE TypeInv'
  OBVIOUS
<1>1. CASE UNCHANGED vars
  BY <1>1
  DEF TypeInv, TypeOK, MutexOK, Holds, vars, entryVars, disposeVars, histVars
<1>2. CASE Next
  BY <1>2, AcquireTypeInv, InsideMutexTypeInv, StartTypeInv, ReleaseTypeInv,
     StartTimeoutTypeInv, TimerTypeInv, RemovalTypeInv, DisposeTypeInv
  DEF Next
<1> QED BY <1>1, <1>2

(* The pool's state keeps its shape, and a request that starts a container   *)
(* or waits for one is alone inside its entry's growth mutex.                *)
THEOREM PoolTypeCorrect == Spec => [](TypeOK /\ MutexOK)
<1>1. Init => TypeInv
  BY InitTypeInv
<1>2. TypeInv /\ [Next]_vars => TypeInv'
  BY NextTypeInv
<1>3. Spec => []TypeInv
  BY <1>1, <1>2, PTL DEF Spec
<1> QED BY <1>3, PTL DEF TypeInv

-----------------------------------------------------------------------------
(* Exclusive leases. *)

Holders == {r \in Requests : pc[r] \in {"booting", "probing", "leased"}}

(* What a lease rests on: each container is in at most one place of the pool. *)
OnePlace ==
  /\ \A r, s \in Holders : held[r] = held[s] => r = s
  /\ \A r \in Holders : held[r] \notin collecting
  /\ \A r \in Holders, l \in Lambdas : held[r] \notin warm[l]
  /\ \A l, m \in Lambdas : \A h \in warm[l] : h \in warm[m] => l = m
  /\ \A l \in Lambdas : \A h \in warm[l] : h \notin collecting

LeaseInv == TypeInv /\ OnePlace

LEMMA AcquireOnePlace ==
  ASSUME LeaseInv, NEW r \in Requests, Acquire(r)
  PROVE  OnePlace'
<1> USE PoolAssumption
<1>1. CASE AcquireUnregistered(r)
  BY <1>1
  DEF LeaseInv, TypeInv, TypeOK, OnePlace, Holders, AcquireUnregistered,
      entryVars
<1>2. CASE AcquireSlow(r)
  BY <1>2 DEF LeaseInv, TypeInv, TypeOK, OnePlace, Holders, AcquireSlow
<1>3. ASSUME NEW h \in Handles, AcquireWarm(r, h) PROVE OnePlace'
  BY <1>3
  DEF LeaseInv, TypeInv, TypeOK, OnePlace, Holders, AcquireWarm, TakeWarm,
      ShiftWarm
<1> QED BY <1>1, <1>2, <1>3 DEF Acquire

LEMMA InsideMutexOnePlace ==
  ASSUME LeaseInv, NEW r \in Requests, InsideMutex(r)
  PROVE  OnePlace'
<1> USE PoolAssumption
<1>1. CASE JoinWaitQueue(r)
  BY <1>1 DEF LeaseInv, TypeInv, TypeOK, OnePlace, Holders, JoinWaitQueue
<1>2. ASSUME NEW h \in Handles, RecheckWarm(r, h) PROVE OnePlace'
  BY <1>2
  DEF LeaseInv, TypeInv, TypeOK, OnePlace, Holders, RecheckWarm, TakeWarm,
      ShiftWarm
<1>3. ASSUME NEW h \in Handles, BeginStart(r, h) PROVE OnePlace'
  BY <1>3
  DEF LeaseInv, TypeInv, TypeOK, OnePlace, Holders, BeginStart, Unused,
      entryVars
<1> QED BY <1>1, <1>2, <1>3 DEF InsideMutex

LEMMA StartOnePlace ==
  ASSUME LeaseInv, NEW r \in Requests, Start(r)
  PROVE  OnePlace'
<1>1. CASE ContainerRuns(r)
  BY <1>1
  DEF LeaseInv, TypeInv, TypeOK, OnePlace, Holders, ContainerRuns, entryVars
<1>2. CASE StartSucceeds(r)
  BY <1>2 DEF LeaseInv, TypeInv, TypeOK, OnePlace, Holders, StartSucceeds
<1>3. CASE StartFails(r)
  BY <1>3 DEF LeaseInv, TypeInv, TypeOK, OnePlace, Holders, StartFails
<1> QED BY <1>1, <1>2, <1>3 DEF Start

LEMMA ReleaseOnePlace ==
  ASSUME LeaseInv, NEW r \in Requests, Release(r)
  PROVE  OnePlace'
<1> USE PoolAssumption
<1>1. CASE ReleaseUnregistered(r)
  BY <1>1
  DEF LeaseInv, TypeInv, TypeOK, OnePlace, Holders, ReleaseUnregistered,
      Returned, entryVars
<1>2. CASE ReleaseDisposed(r)
  BY <1>2
  DEF LeaseInv, TypeInv, TypeOK, OnePlace, Holders, ReleaseDisposed, Returned
<1>3. CASE ReleaseWarm(r)
  BY <1>3
  DEF LeaseInv, TypeInv, TypeOK, OnePlace, Holders, ReleaseWarm, Returned
<1>4. CASE ReleaseHandoff(r)
  <2>1. PICK w \in Requests : /\ pc[w] = "waiting"
                              /\ waitQueue[LambdaOf[r]] = <<w>>
    BY <1>4 DEF ReleaseHandoff, LeaseInv, TypeInv, MutexOK
  <2>2. /\ pc' = [pc EXCEPT ![r] = "idle", ![w] = "leased"]
        /\ held' = [held EXCEPT ![r] = NoHandle, ![w] = held[r]]
        /\ UNCHANGED <<warm, collecting>>
    BY <1>4, <2>1 DEF ReleaseHandoff
  <2>3. w # r /\ pc[r] = "leased"
    BY <1>4, <2>1 DEF ReleaseHandoff
  <2>4. /\ Holders' = (Holders \ {r}) \union {w}
        /\ held'[w] = held[r]
        /\ \A s \in Holders \ {r} : held'[s] = held[s] /\ s # w
    BY <2>1, <2>2, <2>3 DEF LeaseInv, TypeInv, TypeOK, Holders
  <2>5. r \in Holders
    BY <2>3 DEF Holders
  <2> DEFINE H == Holders'
             source(s) == IF s = w THEN r ELSE s
  <2>6. \A s \in H : /\ source(s) \in Holders
                     /\ held'[s] = held[source(s)]
                     /\ s # w => s # r
    BY <2>4, <2>5
  <2>7. \A s, t \in H : held'[s] = held'[t] => s = t
    <3>1. SUFFICES ASSUME NEW s \in H, NEW t \in H, held'[s] = held'[t]
                   PROVE  s = t
      OBVIOUS
    <3>2. source(s) = source(t)
      BY <2>6, <3>1 DEF LeaseInv, OnePlace
    <3> QED BY <2>6, <3>2
  <2>8. \A s \in H : /\ held'[s] \notin collecting'
                     /\ \A l \in Lambdas : held'[s] \notin warm'[l]
    <3>1. \A t \in Holders : /\ held[t] \notin collecting
                             /\ \A l \in Lambdas : held[t] \notin warm[l]
      BY DEF LeaseInv, OnePlace
    <3>2. warm' = warm /\ collecting' = collecting
      BY <2>2
    <3> HIDE DEF H, source
    <3> QED BY <2>6, <3>1, <3>2
  <2>9. /\ \A l, m \in Lambdas : \A h \in warm'[l] : h \in warm'[m] => l = m
        /\ \A l \in Lambdas : \A h \in warm'[l] : h \notin collecting'
    BY <2>2 DEF LeaseInv, OnePlace
  <2> QED BY <2>7, <2>8, <2>9 DEF OnePlace
<1> QED BY <1>1, <1>2, <1>3, <1>4 DEF Release

LEMMA TimerOnePlace ==
  ASSUME LeaseInv, NEW l \in Lambdas, IdleGc(l) \/ DrainTimeout(l)
  PROVE  OnePlace'
<1>1. CASE IdleGc(l)
  BY <1>1
  DEF LeaseInv, TypeInv, TypeOK, OnePlace, Holders, IdleGc, IdleHandles
<1>2. CASE DrainTimeout(l)
  BY <1>2 DEF LeaseInv, OnePlace, Holders, DrainTimeout, entryVars
<1> QED BY <1>1, <1>2

LEMMA DisposeOnePlace ==
  ASSUME LeaseInv, Dispose
  PROVE  OnePlace'
<1>1. ASSUME CancelPending, UNCHANGED <<held, collecting>>,
             warm' = warm \/ warm' = [l \in Lambdas |-> {}]
      PROVE  OnePlace'
  <2>1. Holders' = Holders
    BY <1>1, CancelPendingTypeInv DEF LeaseInv, Holders
  <2> QED BY <1>1, <2>1 DEF LeaseInv, OnePlace
<1>2. CASE DisposeIdle
  BY <1>1, <1>2 DEF DisposeIdle, HarvestEntries
<1>3. CASE DisposeBusy
  BY <1>1, <1>3 DEF DisposeBusy
<1>4. CASE Harvest
  BY <1>4 DEF LeaseInv, OnePlace, Holders, Harvest, HarvestEntries
<1>5. CASE BeginTeardown \/ DisposeEnd
  BY <1>5
  DEF LeaseInv, OnePlace, Holders, BeginTeardown, DisposeEnd, entryVars
<1> QED BY <1>2, <1>3, <1>4, <1>5 DEF Dispose

LEMMA NextOnePlace == LeaseInv /\ [Next]_vars => OnePlace'
<1> SUFFICES ASSUME LeaseInv, [Next]_vars PROVE OnePlace'
  OBVIOUS
<1>1. CASE UNCHANGED vars
  BY <1>1 DEF LeaseInv, OnePlace, Holders, vars, entryVars
<1>2. ASSUME NEW h \in Handles, RemoveCollected(h) \/ TearDown(h)
      PROVE  OnePlace'
  BY <1>2
  DEF LeaseInv, OnePlace, Holders, RemoveCollected, TearDown, entryVars
<1>3. ASSUME NEW r \in Requests, StartTimeout(r) PROVE OnePlace'
  BY <1>3 DEF LeaseInv, OnePlace, Holders, StartTimeout, entryVars
<1>4. CASE Next
  BY <1>2, <1>3, <1>4, AcquireOnePlace, InsideMutexOnePlace, StartOnePlace,
     ReleaseOnePlace, TimerOnePlace, DisposeOnePlace
  DEF Next
<1> QED BY <1>1, <1>4

(* Whatever the number of requests, Lambdas and containers, a container that *)
(* a request borrows is in no warm list, under no collection, and nobody     *)
(* else's.                                                                   *)
THEOREM PoolLeasesExclusive == Spec => []LeaseExclusive
<1>1. Init => LeaseInv
  BY InitTypeInv DEF Init, LeaseInv, OnePlace, Holders
<1>2. LeaseInv /\ [Next]_vars => LeaseInv'
  BY NextTypeInv, NextOnePlace DEF LeaseInv
<1>3. LeaseInv => LeaseExclusive
  BY DEF LeaseInv, OnePlace, Holders, LeaseExclusive, Leased
<1> QED BY <1>1, <1>2, <1>3, PTL DEF Spec

-----------------------------------------------------------------------------
(* Borrowed containers keep running. *)

(* Until dispose() harvests, what is borrowed or warm runs and is entered in *)
(* the pool's books; what probes its runtime runs.                           *)
Running ==
  ~Harvested =>
    /\ allHandles = {} /\ settling = {}
    /\ \A r \in Requests : pc[r] \in {"probing", "leased"} => held[r] \in docker
    /\ \A r \in Leased : held[r] \in inUse[LambdaOf[r]]
    /\ \A l \in Lambdas : warm[l] \subseteq docker

(* The entry of a request in flight since before dispose() keeps its drain   *)
(* until that request has released.                                          *)
Drained ==
  /\ phase = "live" => grace = {}
  /\ grace \subseteq Leased
  /\ ~drainTimedOut =>
       /\ Harvested => grace = {}
       /\ phase = "draining" => \A r \in grace : LambdaOf[r] \in drains

RunningInv == LeaseInv /\ Running /\ Drained

LEMMA AcquireRunning ==
  ASSUME RunningInv, NEW r \in Requests, Acquire(r)
  PROVE  Running' /\ Drained'
<1> USE PoolAssumption
    DEF RunningInv, LeaseInv, TypeInv, TypeOK, Running, Drained, Leased,
        Harvested
<1>1. CASE AcquireUnregistered(r)
  BY <1>1 DEF AcquireUnregistered, entryVars, disposeVars, histVars
<1>2. CASE AcquireSlow(r)
  BY <1>2 DEF AcquireSlow, disposeVars, histVars
<1>3. ASSUME NEW h \in Handles, AcquireWarm(r, h) PROVE Running' /\ Drained'
  BY <1>3 DEF AcquireWarm, TakeWarm, ShiftWarm, disposeVars, histVars
<1> QED BY <1>1, <1>2, <1>3 DEF Acquire

LEMMA InsideMutexRunning ==
  ASSUME RunningInv, NEW r \in Requests, InsideMutex(r)
  PROVE  Running' /\ Drained'
<1> USE PoolAssumption
    DEF RunningInv, LeaseInv, TypeInv, TypeOK, Running, Drained, Leased,
        Harvested
<1>1. CASE JoinWaitQueue(r)
  BY <1>1 DEF JoinWaitQueue, disposeVars, histVars
<1>2. ASSUME NEW h \in Handles, RecheckWarm(r, h) PROVE Running' /\ Drained'
  BY <1>2 DEF RecheckWarm, TakeWarm, ShiftWarm, disposeVars, histVars
<1>3. ASSUME NEW h \in Handles, BeginStart(r, h) PROVE Running' /\ Drained'
  BY <1>3 DEF BeginStart, entryVars, disposeVars
<1> QED BY <1>1, <1>2, <1>3 DEF InsideMutex

LEMMA StartRunning ==
  ASSUME RunningInv, NEW r \in Requests, Start(r)
  PROVE  Running' /\ Drained'
<1> USE PoolAssumption
    DEF RunningInv, LeaseInv, TypeInv, TypeOK, Running, Drained, Leased,
        Harvested
<1>1. CASE ContainerRuns(r)
  BY <1>1 DEF ContainerRuns, entryVars, disposeVars, histVars
<1>2. CASE StartSucceeds(r)
  BY <1>2 DEF StartSucceeds, Settle, histVars
<1>3. CASE StartFails(r)
  BY <1>3 DEF StartFails, DiscardStart, Settle, histVars, OnePlace, Holders
<1> QED BY <1>1, <1>2, <1>3 DEF Start

LEMMA ReleaseRunning ==
  ASSUME RunningInv, NEW r \in Requests, Release(r)
  PROVE  Running' /\ Drained'
<1> USE PoolAssumption
    DEF RunningInv, LeaseInv, TypeInv, TypeOK, Running, Drained, Leased,
        Harvested, OnePlace, Holders
<1>1. CASE ReleaseUnregistered(r)
  BY <1>1
  DEF ReleaseUnregistered, Returned, Registered, entryVars, disposeVars
<1>2. CASE ReleaseDisposed(r)
  BY <1>2 DEF ReleaseDisposed, Returned, Disposed
<1>3. CASE ReleaseWarm(r)
  BY <1>3 DEF ReleaseWarm, Returned, Disposed, disposeVars
<1>4. CASE ReleaseHandoff(r)
  <2>1. PICK w \in Requests : /\ LambdaOf[w] = LambdaOf[r]
                              /\ pc[w] = "waiting"
                              /\ waitQueue[LambdaOf[r]] = <<w>>
    BY <1>4 DEF ReleaseHandoff, MutexOK
  <2>2. /\ pc' = [pc EXCEPT ![r] = "idle", ![w] = "leased"]
        /\ held' = [held EXCEPT ![r] = NoHandle, ![w] = held[r]]
        /\ UNCHANGED <<warm, inUse, docker, disposeVars, histVars>>
        /\ phase = "live" /\ pc[r] = "leased"
    BY <1>4, <2>1 DEF ReleaseHandoff, Disposed
  <2> QED BY <2>1, <2>2 DEF disposeVars, histVars
<1> QED BY <1>1, <1>2, <1>3, <1>4 DEF Release

LEMMA DisposeRunning ==
  ASSUME RunningInv, Dispose
  PROVE  Running' /\ Drained'
<1> USE PoolAssumption DEF RunningInv, LeaseInv, Running, Drained, Leased, Harvested
<1>1. ASSUME CancelPending
      PROVE  /\ \A r \in Requests :
                  pc'[r] = IF pc[r] = "waiting" THEN "failed" ELSE pc[r]
             /\ Leased' = Leased
             /\ grace' = Leased
  BY <1>1, CancelPendingTypeInv DEF CancelPending
<1>2. ASSUME DrainTargets = {} PROVE ~Harvested => Leased = {}
  BY <1>2 DEF DrainTargets, TypeInv, TypeOK
<1>3. CASE DisposeIdle
  BY <1>1, <1>2, <1>3 DEF DisposeIdle, HarvestEntries
<1>4. CASE DisposeBusy
  <2>1. \A r \in Leased : LambdaOf[r] \in DrainTargets
    BY <1>4 DEF DisposeBusy, DrainTargets
  <2> QED BY <1>1, <1>4, <2>1 DEF DisposeBusy
<1>5. CASE Harvest
  BY <1>5 DEF Harvest, HarvestEntries, histVars
<1>6. CASE BeginTeardown \/ DisposeEnd
  BY <1>6 DEF BeginTeardown, DisposeEnd, entryVars, histVars
<1> QED BY <1>3, <1>4, <1>5, <1>6 DEF Dispose

LEMMA NextRunning == RunningInv /\ [Next]_vars => Running' /\ Drained'
<1> SUFFICES ASSUME RunningInv, [Next]_vars PROVE Running' /\ Drained'
  OBVIOUS
<1> USE DEF RunningInv, Running, Drained, Leased, Harvested
<1>1. CASE UNCHANGED vars
  BY <1>1 DEF vars, entryVars, disposeVars, histVars
<1>2. ASSUME NEW l \in Lambdas, IdleGc(l) PROVE Running' /\ Drained'
  BY <1>2 DEF IdleGc, disposeVars, histVars, LeaseInv, TypeInv, TypeOK
<1>3. ASSUME NEW l \in Lambdas, DrainTimeout(l) PROVE Running' /\ Drained'
  BY <1>3 DEF DrainTimeout, entryVars, histVars
<1>4. ASSUME NEW h \in Handles, RemoveCollected(h) PROVE Running' /\ Drained'
  BY <1>4
  DEF RemoveCollected, entryVars, disposeVars, histVars, LeaseInv, OnePlace,
      Holders
<1>5. ASSUME NEW h \in Handles, TearDown(h) PROVE Running' /\ Drained'
  BY <1>5 DEF TearDown, entryVars, histVars
<1>6. ASSUME NEW r \in Requests, StartTimeout(r) PROVE Running' /\ Drained'
  BY <1>6 DEF StartTimeout, entryVars, histVars
<1>7. CASE Next
  BY <1>2, <1>3, <1>4, <1>5, <1>6, <1>7, AcquireRunning, InsideMutexRunning,
     StartRunning, ReleaseRunning, DisposeRunning
  DEF Next
<1> QED BY <1>1, <1>7

LEMMA PoolRunning == Spec => []RunningInv
<1>1. Init => RunningInv
  BY InitTypeInv
  DEF Init, RunningInv, LeaseInv, OnePlace, Holders, Running, Drained, Leased
<1>2. RunningInv /\ [Next]_vars => RunningInv'
  BY NextTypeInv, NextOnePlace, NextRunning DEF RunningInv, LeaseInv
<1> QED BY <1>1, <1>2, PTL DEF Spec

(* A container keeps running while a request borrows it, until dispose()     *)
(* begins to remove; and for a request in flight since before dispose(),     *)
(* until it releases, unless a drain gave up.                                *)
THEOREM PoolKeepsLeases == Spec => []LeaseKept
<1>1. RunningInv => LeaseKept
  BY DEF RunningInv, Running, Drained, LeaseKept, Leased
<1> QED BY <1>1, PoolRunning, PTL

-----------------------------------------------------------------------------
(* No container is forgotten. *)

(* What dispose() still has to remove at each of its stages.                 *)
Remaining ==
  /\ phase \in {"removing", "done"} => settling = {}
  /\ phase = "done" => allHandles = {}
  /\ Harvested /\ ~startTimedOut =>
       /\ \A r \in InFlightStarts : r \in settling \/ held[r] \in late
       /\ \A h \in docker :
            \/ h \in collecting \union allHandles \union late
            \/ \E r \in settling \intersect InFlightStarts : held[r] = h

Reachable(h) ==
  \/ \E l \in Lambdas : h \in warm[l] \union inUse[l]
  \/ \E r \in InFlightStarts : held[r] = h
  \/ h \in collecting \union allHandles

Accounted == (\A h \in docker : Reachable(h)) /\ Remaining

AccountInv == RunningInv /\ Accounted

LEMMA AcquireAccounted ==
  ASSUME AccountInv, NEW r \in Requests, Acquire(r)
  PROVE  Accounted'
<1> USE PoolAssumption
    DEF AccountInv, RunningInv, LeaseInv, TypeInv, TypeOK, Accounted, Reachable,
        Remaining, InFlightStarts, Harvested
<1>1. CASE AcquireUnregistered(r)
  BY <1>1 DEF AcquireUnregistered, entryVars, disposeVars, histVars
<1>2. CASE AcquireSlow(r)
  BY <1>2 DEF AcquireSlow, disposeVars, histVars
<1>3. ASSUME NEW h \in Handles, AcquireWarm(r, h) PROVE Accounted'
  BY <1>3 DEF AcquireWarm, TakeWarm, ShiftWarm, disposeVars, histVars
<1> QED BY <1>1, <1>2, <1>3 DEF Acquire

LEMMA InsideMutexAccounted ==
  ASSUME AccountInv, NEW r \in Requests, InsideMutex(r)
  PROVE  Accounted'
<1> USE PoolAssumption
    DEF AccountInv, RunningInv, LeaseInv, TypeInv, TypeOK, Accounted, Reachable,
        Remaining, InFlightStarts, Harvested
<1>1. CASE JoinWaitQueue(r)
  BY <1>1 DEF JoinWaitQueue, disposeVars, histVars
<1>2. ASSUME NEW h \in Handles, RecheckWarm(r, h) PROVE Accounted'
  BY <1>2 DEF RecheckWarm, TakeWarm, ShiftWarm, disposeVars, histVars
<1>3. ASSUME NEW h \in Handles, BeginStart(r, h) PROVE Accounted'
  BY <1>3 DEF BeginStart, entryVars, disposeVars
<1> QED BY <1>1, <1>2, <1>3 DEF InsideMutex

LEMMA StartAccounted ==
  ASSUME AccountInv, NEW r \in Requests, Start(r)
  PROVE  Accounted'
<1> USE PoolAssumption
    DEF AccountInv, RunningInv, LeaseInv, TypeInv, TypeOK, Accounted, Reachable,
        Remaining, InFlightStarts, Harvested
<1>1. CASE ContainerRuns(r)
  <2>1. /\ pc[r] = "booting"
        /\ pc' = [pc EXCEPT ![r] = "probing"]
        /\ docker' = docker \union {held[r]}
        /\ UNCHANGED <<held, entryVars, collecting, disposeVars, histVars>>
    BY <1>1 DEF ContainerRuns
  <2>2. InFlightStarts' = InFlightStarts /\ r \in InFlightStarts
    BY <2>1
  <2>3. \A h \in docker' : Reachable(h)'
    BY <2>1, <2>2 DEF entryVars, disposeVars
  <2>4. Remaining'
    BY <2>1, <2>2 DEF disposeVars, histVars
  <2> QED BY <2>3, <2>4
<1>2. CASE StartSucceeds(r)
  <2>1. /\ InFlightStarts' = InFlightStarts \ {r}
        /\ held' = held /\ docker' = docker /\ warm' = warm
        /\ inUse' = [inUse EXCEPT ![LambdaOf[r]] = @ \union {held[r]}]
        /\ collecting' = collecting /\ phase' = phase /\ late' = late
        /\ startTimedOut' = startTimedOut
        /\ settling' = settling \ {r}
        /\ allHandles' = IF r \in settling THEN allHandles \union {held[r]}
                                           ELSE allHandles
    BY <1>2 DEF StartSucceeds, Settle, histVars
  <2>2. ASSUME NEW h \in docker' PROVE Reachable(h)'
    <3>1. held[r] \in inUse'[LambdaOf[r]]
      BY <2>1
    <3>2. \A l \in Lambdas : inUse[l] \subseteq inUse'[l]
      BY <2>1
    <3> QED BY <2>1, <2>2, <3>1, <3>2
  <2>3. Remaining'
    <3>1. ASSUME Harvested, ~startTimedOut, NEW h \in docker,
                 NEW s \in settling \intersect InFlightStarts, held[s] = h
          PROVE  \/ h \in allHandles'
                 \/ s \in settling' \intersect InFlightStarts'
      BY <2>1, <3>1
    <3>2. allHandles \subseteq allHandles'
      BY <2>1
    <3>3. phase = "done" => allHandles' = {}
      BY <2>1
    <3>4. ASSUME Harvested, ~startTimedOut, NEW h \in docker
          PROVE  \/ h \in collecting \union allHandles' \union late
                 \/ \E s \in settling' \intersect InFlightStarts' : held[s] = h
      BY <3>1, <3>2, <3>4
    <3>5. ASSUME Harvested, ~startTimedOut, NEW s \in InFlightStarts'
          PROVE  s \in settling' \/ held[s] \in late
      BY <2>1, <3>5
    <3>6. phase \in {"removing", "done"} => settling' = {}
      BY <2>1
    <3> HIDE DEF InFlightStarts
    <3> QED BY <2>1, <3>3, <3>4, <3>5, <3>6
  <2> QED BY <2>2, <2>3
<1>3. CASE StartFails(r)
  BY <1>3 DEF StartFails, DiscardStart, Settle, histVars
<1> QED BY <1>1, <1>2, <1>3 DEF Start

LEMMA ReleaseAccounted ==
  ASSUME AccountInv, NEW r \in Requests, Release(r)
  PROVE  Accounted'
<1> USE PoolAssumption
    DEF AccountInv, RunningInv, LeaseInv, TypeInv, TypeOK, Accounted, Reachable,
        Remaining, InFlightStarts, Harvested
<1>1. CASE ReleaseUnregistered(r)
  BY <1>1 DEF ReleaseUnregistered, Returned, entryVars, disposeVars
<1>2. CASE ReleaseDisposed(r)
  BY <1>2 DEF ReleaseDisposed, Returned
<1>3. CASE ReleaseWarm(r)
  BY <1>3 DEF ReleaseWarm, Returned, disposeVars
<1>4. CASE ReleaseHandoff(r)
  <2>1. PICK w \in Requests : /\ LambdaOf[w] = LambdaOf[r]
                              /\ pc[w] = "waiting"
                              /\ waitQueue[LambdaOf[r]] = <<w>>
    BY <1>4 DEF ReleaseHandoff, MutexOK
  <2>2. /\ pc' = [pc EXCEPT ![r] = "idle", ![w] = "leased"]
        /\ held' = [held EXCEPT ![r] = NoHandle, ![w] = held[r]]
        /\ UNCHANGED <<warm, inUse, docker, collecting, disposeVars, histVars>>
        /\ phase = "live" /\ pc[r] = "leased"
    BY <1>4, <2>1 DEF ReleaseHandoff, Disposed
  <2> QED BY <2>1, <2>2 DEF disposeVars, histVars
<1> QED BY <1>1, <1>2, <1>3, <1>4 DEF Release

LEMMA DisposeAccounted ==
  ASSUME AccountInv, Dispose
  PROVE  Accounted'
<1> USE PoolAssumption
    DEF AccountInv, RunningInv, Running, LeaseInv, Accounted, Reachable,
        Remaining, InFlightStarts, Harvested
<1>1. ASSUME CancelPending
      PROVE  InFlightStarts' = InFlightStarts
  BY <1>1, CancelPendingTypeInv
<1>2. CASE DisposeIdle
  BY <1>1, <1>2 DEF DisposeIdle, CancelPending, HarvestEntries
<1>3. CASE DisposeBusy
  BY <1>1, <1>3 DEF DisposeBusy, CancelPending
<1>4. CASE Harvest
  BY <1>4 DEF Harvest, HarvestEntries, histVars
<1>5. CASE BeginTeardown \/ DisposeEnd
  BY <1>5 DEF BeginTeardown, DisposeEnd, entryVars, histVars
<1> QED BY <1>2, <1>3, <1>4, <1>5 DEF Dispose

LEMMA NextAccounted == AccountInv /\ [Next]_vars => Accounted'
<1> SUFFICES ASSUME AccountInv, [Next]_vars PROVE Accounted'
  OBVIOUS
<1> USE DEF AccountInv, RunningInv, LeaseInv, TypeInv, TypeOK, Accounted, Reachable,
        Remaining, InFlightStarts, Harvested
<1>1. CASE UNCHANGED vars
  BY <1>1 DEF vars, entryVars, disposeVars, histVars
<1>2. ASSUME NEW l \in Lambdas, IdleGc(l) \/ DrainTimeout(l) PROVE Accounted'
  BY <1>2
  DEF IdleGc, IdleHandles, DrainTimeout, entryVars, disposeVars, histVars
<1>3. ASSUME NEW h \in Handles, RemoveCollected(h) \/ TearDown(h)
      PROVE  Accounted'
  BY <1>3 DEF RemoveCollected, TearDown, entryVars, disposeVars, histVars
<1>4. ASSUME NEW r \in Requests, StartTimeout(r) PROVE Accounted'
  BY <1>4 DEF StartTimeout, entryVars, histVars
<1>5. CASE Next
  BY <1>2, <1>3, <1>4, <1>5, AcquireAccounted, InsideMutexAccounted,
     StartAccounted, ReleaseAccounted, DisposeAccounted
  DEF Next
<1> QED BY <1>1, <1>5

(* Every container that runs is warm, borrowed, starting or being removed,   *)
(* and after dispose() nothing runs that it saw, unless a start outlived its *)
(* timeout.                                                                  *)
THEOREM PoolForgetsNothing == Spec => []NoOrphan
<1>1. Init => Accounted
  BY DEF Init, Accounted, Remaining, InFlightStarts, Harvested
<1>2. AccountInv /\ [Next]_vars => Accounted'
  BY NextAccounted
<1>3. Accounted => NoOrphan
  BY DEF Accounted, Reachable, Remaining, NoOrphan, DisposeRemoves, Harvested
<1> QED BY <1>1, <1>2, <1>3, PoolRunning, PTL DEF Spec, AccountInv

-----------------------------------------------------------------------------
(* The concurrency cap. *)

LEMMA CapRange == Cap \in 1..4
  BY PoolAssumption DEF Cap, ClampConcurrency

(* An entry's containers stay within the cap, leave room for a start in      *)
(* flight, and fill the cap while a request waits.                           *)
WithinCap(l) ==
  /\ IsFiniteSet(warm[l]) /\ IsFiniteSet(inUse[l])
  /\ ~Harvested => /\ PoolSize(l) <= Cap
                   /\ Starting(l) # {} => PoolSize(l) < Cap
  /\ ~Disposed /\ waitQueue[l] # <<>> => /\ warm[l] = {}
                                         /\ Cardinality(inUse[l]) = Cap

EveryWithinCap == \A l \in Lambdas : WithinCap(l)

CapInv == RunningInv /\ EveryWithinCap

(* The mutex of an entry admits one start or waiter at a time.               *)
LEMMA AloneInMutex ==
  ASSUME TypeInv, NEW r \in Requests, Holds(r)
  PROVE  /\ Starting(LambdaOf[r]) \subseteq {r}
         /\ pc[r] # "waiting" => waitQueue[LambdaOf[r]] = <<>>
<1> USE PoolAssumption
<1>1. Starting(LambdaOf[r]) \subseteq {r}
  BY DEF TypeInv, MutexOK, Holds, Starting, InFlightStarts
<1>2. ASSUME waitQueue[LambdaOf[r]] # <<>> PROVE pc[r] = "waiting"
  BY <1>2 DEF TypeInv, MutexOK, Holds
<1> QED BY <1>1, <1>2

(* An entry whose lists a step leaves alone stays within the cap.            *)
LEMMA EntryUntouched ==
  ASSUME NEW l \in Lambdas, WithinCap(l),
         warm'[l] = warm[l], inUse'[l] = inUse[l],
         Harvested => Harvested', Disposed => Disposed',
         Harvested' \/ Starting(l)' \subseteq Starting(l),
         waitQueue'[l] \in {waitQueue[l], <<>>}
  PROVE  WithinCap(l)'
  BY DEF WithinCap, PoolSize

(* Moving an element from one finite set to another.                         *)
LEMMA MovedElement ==
  ASSUME NEW S, NEW T, NEW x \in S, IsFiniteSet(S), IsFiniteSet(T)
  PROVE  /\ IsFiniteSet(S \ {x}) /\ IsFiniteSet(T \union {x})
         /\ Cardinality(S) \in Nat /\ Cardinality(T) \in Nat
         /\ Cardinality(S \ {x}) \in Nat /\ Cardinality(T \union {x}) \in Nat
         /\ Cardinality(S \ {x}) = Cardinality(S) - 1
         /\ Cardinality(T \union {x}) <= Cardinality(T) + 1
<1>1. /\ IsFiniteSet(S \ {x})
      /\ Cardinality(S \ {x}) = Cardinality(S) - 1
  BY FS_RemoveElement
<1>2. /\ IsFiniteSet(T \union {x})
      /\ Cardinality(T \union {x})
           = IF x \in T THEN Cardinality(T) ELSE Cardinality(T) + 1
  BY FS_AddElement
<1>3. /\ Cardinality(S) \in Nat /\ Cardinality(T) \in Nat
      /\ Cardinality(S \ {x}) \in Nat /\ Cardinality(T \union {x}) \in Nat
  BY <1>1, <1>2, FS_CardinalityType
<1> QED BY <1>1, <1>2, <1>3

(* Taking a warm container keeps the size of the entry.                      *)
LEMMA TakeWarmWithinCap ==
  ASSUME CapInv, NEW r \in Requests, NEW h \in Handles, TakeWarm(r, h),
         UNCHANGED <<phase, waitQueue>>
  PROVE  \A l \in Lambdas : WithinCap(l)'
<1> USE PoolAssumption
<1> DEFINE k == LambdaOf[r]
<1>1. /\ h \in warm[k] /\ k \in Lambdas
      /\ warm' = [warm EXCEPT ![k] = @ \ {h}]
      /\ inUse' = [inUse EXCEPT ![k] = @ \union {h}]
      /\ pc' = [pc EXCEPT ![r] = "leased"]
  BY DEF TakeWarm, ShiftWarm
<1>2. \A l \in Lambdas : Starting(l)' \subseteq Starting(l)
  BY <1>1 DEF CapInv, EveryWithinCap, RunningInv, LeaseInv, TypeInv, TypeOK, Starting,
              InFlightStarts
<1>3. ASSUME NEW l \in Lambdas, l # k PROVE WithinCap(l)'
  <2>1. /\ warm'[l] = warm[l] /\ inUse'[l] = inUse[l]
        /\ WithinCap(l)
    BY <1>1, <1>3 DEF CapInv, EveryWithinCap, RunningInv, LeaseInv, TypeInv, TypeOK
  <2> QED BY <1>2, <2>1, EntryUntouched DEF Harvested, Disposed
<1>4. WithinCap(k)'
  <2>1. warm'[k] = warm[k] \ {h} /\ inUse'[k] = inUse[k] \union {h}
    BY <1>1 DEF CapInv, EveryWithinCap, RunningInv, LeaseInv, TypeInv, TypeOK
  <2>2. WithinCap(k)
    BY <1>1 DEF CapInv, EveryWithinCap
  <2>3. /\ IsFiniteSet(warm'[k]) /\ IsFiniteSet(inUse'[k])
        /\ Cardinality(warm[k]) \in Nat /\ Cardinality(inUse[k]) \in Nat
        /\ Cardinality(warm'[k]) \in Nat /\ Cardinality(inUse'[k]) \in Nat
        /\ Cardinality(warm'[k]) = Cardinality(warm[k]) - 1
        /\ Cardinality(inUse'[k]) <= Cardinality(inUse[k]) + 1
    <3>1. h \in warm[k] /\ IsFiniteSet(warm[k]) /\ IsFiniteSet(inUse[k])
      BY <1>1, <2>2 DEF WithinCap
    <3> DEFINE W == warm[k] \ {h}
               U == inUse[k] \union {h}
    <3>2. /\ IsFiniteSet(W) /\ IsFiniteSet(U)
          /\ Cardinality(warm[k]) \in Nat /\ Cardinality(inUse[k]) \in Nat
          /\ Cardinality(W) \in Nat /\ Cardinality(U) \in Nat
          /\ Cardinality(W) = Cardinality(warm[k]) - 1
          /\ Cardinality(U) <= Cardinality(inUse[k]) + 1
      BY <3>1, MovedElement
    <3>3. warm'[k] = W /\ inUse'[k] = U
      BY <2>1
    <3> HIDE DEF W, U
    <3> QED BY <3>2, <3>3
  <2>4. PoolSize(k)' <= PoolSize(k) /\ PoolSize(k)' \in Nat /\ PoolSize(k) \in Nat
    BY <2>3 DEF PoolSize
  <2>5. ~Disposed => waitQueue'[k] = <<>>
    BY <1>1, <2>2 DEF WithinCap
  <2> QED BY <1>1, <1>2, <2>2, <2>3, <2>4, <2>5, CapRange
          DEF WithinCap, Harvested, Disposed
<1> QED BY <1>3, <1>4

LEMMA AcquireWithinCap ==
  ASSUME CapInv, NEW r \in Requests, Acquire(r)
  PROVE  \A l \in Lambdas : WithinCap(l)'
<1> USE PoolAssumption
<1>1. CASE AcquireUnregistered(r) \/ AcquireSlow(r)
  <2>1. /\ UNCHANGED <<warm, inUse, waitQueue, phase>>
        /\ \A l \in Lambdas : Starting(l)' \subseteq Starting(l)
    BY <1>1
    DEF AcquireUnregistered, AcquireSlow, entryVars, disposeVars, CapInv, EveryWithinCap,
        RunningInv, LeaseInv, TypeInv, TypeOK, Starting, InFlightStarts
  <2> QED BY <2>1, EntryUntouched DEF CapInv, EveryWithinCap, Harvested, Disposed
<1>2. ASSUME NEW h \in Handles, AcquireWarm(r, h)
      PROVE  \A l \in Lambdas : WithinCap(l)'
  BY <1>2, TakeWarmWithinCap DEF AcquireWarm, disposeVars
<1> QED BY <1>1, <1>2 DEF Acquire

LEMMA InsideMutexWithinCap ==
  ASSUME CapInv, NEW r \in Requests, InsideMutex(r)
  PROVE  \A l \in Lambdas : WithinCap(l)'
<1> USE PoolAssumption
<1> DEFINE k == LambdaOf[r]
<1>1. ASSUME NEW h \in Handles, RecheckWarm(r, h)
      PROVE  \A l \in Lambdas : WithinCap(l)'
  BY <1>1, TakeWarmWithinCap DEF RecheckWarm, disposeVars
<1>2. ASSUME pc[r] = "queued", Holds(r)
      PROVE  Starting(k) = {} /\ waitQueue[k] = <<>> /\ k \in Lambdas
  BY <1>2, AloneInMutex
  DEF CapInv, EveryWithinCap, RunningInv, LeaseInv, Starting, InFlightStarts
<1>3. ASSUME NEW h \in Handles, BeginStart(r, h)
      PROVE  \A l \in Lambdas : WithinCap(l)'
  <2>1. /\ UNCHANGED <<warm, inUse, waitQueue, phase>>
        /\ pc' = [pc EXCEPT ![r] = "booting"]
        /\ waitQueue[k] = <<>>
        /\ PoolSize(k) < Cap
    BY <1>2, <1>3 DEF BeginStart, entryVars, disposeVars, HasRoom
  <2>2. ASSUME NEW l \in Lambdas, l # k PROVE Starting(l)' \subseteq Starting(l)
    BY <2>1, <2>2
    DEF CapInv, EveryWithinCap, RunningInv, LeaseInv, TypeInv, TypeOK, Starting, InFlightStarts
  <2>3. ASSUME NEW l \in Lambdas, l # k PROVE WithinCap(l)'
    BY <2>1, <2>2, <2>3, EntryUntouched DEF CapInv, EveryWithinCap, Harvested, Disposed
  <2>4. WithinCap(k)'
    BY <1>2, <1>3, <2>1, CapRange
    DEF BeginStart, CapInv, EveryWithinCap, WithinCap, PoolSize, Harvested
  <2> QED BY <2>3, <2>4
<1>4. CASE JoinWaitQueue(r)
  <2>1. /\ UNCHANGED <<warm, inUse, phase>>
        /\ pc' = [pc EXCEPT ![r] = "waiting"]
        /\ waitQueue' = [waitQueue EXCEPT ![k] = Append(@, r)]
        /\ warm[k] = {} /\ ~(PoolSize(k) < Cap)
    BY <1>4 DEF JoinWaitQueue, disposeVars, HasRoom
  <2>2. \A l \in Lambdas : Starting(l)' \subseteq Starting(l)
    BY <2>1
    DEF CapInv, EveryWithinCap, RunningInv, LeaseInv, TypeInv, TypeOK, Starting, InFlightStarts
  <2>3. ASSUME NEW l \in Lambdas, l # k PROVE WithinCap(l)'
    <3>1. waitQueue'[l] = waitQueue[l]
      BY <2>1, <2>3 DEF CapInv, EveryWithinCap, RunningInv, LeaseInv, TypeInv, TypeOK
    <3> QED
      BY <2>1, <2>2, <2>3, <3>1, EntryUntouched DEF CapInv, EveryWithinCap, Harvested, Disposed
  <2>4. WithinCap(k)'
    <3>1. WithinCap(k)
      BY DEF CapInv, EveryWithinCap
    <3>2. Cardinality(warm[k]) = 0 /\ Cardinality(inUse[k]) \in Nat
      BY <2>1, <3>1, FS_EmptySet, FS_CardinalityType DEF WithinCap
    <3>3. ~Harvested => Cardinality(inUse[k]) = Cap
      BY <2>1, <3>1, <3>2, CapRange DEF WithinCap, PoolSize
    <3> QED BY <2>1, <2>2, <3>1, <3>3
            DEF WithinCap, PoolSize, Harvested, Disposed
  <2> QED BY <2>3, <2>4
<1> QED BY <1>1, <1>3, <1>4 DEF InsideMutex

LEMMA StartWithinCap ==
  ASSUME CapInv, NEW r \in Requests, Start(r)
  PROVE  \A l \in Lambdas : WithinCap(l)'
<1> USE PoolAssumption
<1> DEFINE k == LambdaOf[r]
<1>1. CASE ContainerRuns(r) \/ StartFails(r)
  <2>1. /\ UNCHANGED <<warm, inUse, waitQueue, phase>>
        /\ \A l \in Lambdas : Starting(l)' \subseteq Starting(l)
    BY <1>1
    DEF ContainerRuns, StartFails, Settle, entryVars, disposeVars, CapInv, EveryWithinCap,
        RunningInv, LeaseInv, TypeInv, TypeOK, Starting, InFlightStarts
  <2> QED BY <2>1, EntryUntouched DEF CapInv, EveryWithinCap, Harvested, Disposed
<1>2. CASE StartSucceeds(r)
  <2>1. /\ UNCHANGED <<warm, waitQueue, phase>>
        /\ inUse' = [inUse EXCEPT ![k] = @ \union {held[r]}]
        /\ pc' = [pc EXCEPT ![r] = "leased"]
    BY <1>2 DEF StartSucceeds, Settle
  <2>2. Holds(r) /\ r \in Starting(k) /\ k \in Lambdas
    BY <1>2
    DEF StartSucceeds, CapInv, RunningInv, LeaseInv, TypeInv, MutexOK,
        Starting, InFlightStarts
  <2>3. waitQueue[k] = <<>> /\ Starting(k)' = {}
    BY <1>2, <2>1, <2>2, AloneInMutex
    DEF StartSucceeds, CapInv, RunningInv, LeaseInv, TypeInv, TypeOK, Starting,
        InFlightStarts
  <2>4. ASSUME NEW l \in Lambdas, l # k PROVE WithinCap(l)'
    <3>1. inUse'[l] = inUse[l] /\ Starting(l)' \subseteq Starting(l)
      BY <2>1, <2>4
      DEF CapInv, EveryWithinCap, RunningInv, LeaseInv, TypeInv, TypeOK, Starting,
          InFlightStarts
    <3> QED BY <2>1, <3>1, EntryUntouched DEF CapInv, EveryWithinCap, Harvested, Disposed
  <2>5. WithinCap(k)'
    <3>1. inUse'[k] = inUse[k] \union {held[r]} /\ warm'[k] = warm[k]
      BY <2>1, <2>2 DEF CapInv, EveryWithinCap, RunningInv, LeaseInv, TypeInv, TypeOK
    <3>2. /\ IsFiniteSet(warm[k]) /\ IsFiniteSet(inUse[k])
          /\ ~Harvested => PoolSize(k) < Cap
      BY <2>2 DEF CapInv, EveryWithinCap, WithinCap
    <3>3. /\ IsFiniteSet(inUse'[k]) /\ IsFiniteSet(warm'[k])
          /\ Cardinality(inUse'[k]) <= Cardinality(inUse[k]) + 1
          /\ Cardinality(inUse[k]) \in Nat /\ Cardinality(inUse'[k]) \in Nat
          /\ Cardinality(warm[k]) \in Nat
      <4> DEFINE U == inUse[k] \union {held[r]}
      <4>1. /\ IsFiniteSet(U)
            /\ Cardinality(U) = IF held[r] \in inUse[k]
                                THEN Cardinality(inUse[k])
                                ELSE Cardinality(inUse[k]) + 1
        BY <3>2, FS_AddElement
      <4>2. inUse'[k] = U
        BY <3>1
      <4> HIDE DEF U
      <4>3. /\ IsFiniteSet(inUse'[k])
            /\ Cardinality(inUse'[k])
                 = IF held[r] \in inUse[k] THEN Cardinality(inUse[k])
                                           ELSE Cardinality(inUse[k]) + 1
        BY <4>1, <4>2
      <4>4. /\ Cardinality(inUse[k]) \in Nat /\ Cardinality(inUse'[k]) \in Nat
            /\ Cardinality(warm[k]) \in Nat
        BY <3>2, <4>3, FS_CardinalityType
      <4> QED BY <3>1, <3>2, <4>3, <4>4
    <3>4. ~Harvested => PoolSize(k)' <= Cap
      BY <3>1, <3>2, <3>3, CapRange DEF PoolSize
    <3> QED BY <2>1, <2>3, <3>3, <3>4 DEF WithinCap, Harvested
  <2> QED BY <2>4, <2>5
<1> QED BY <1>1, <1>2 DEF Start

(* Taking a container back into the warm list keeps the size of the entry.   *)
LEMMA WarmedWithinCap ==
  ASSUME CapInv, NEW r \in Requests, pc[r] = "leased",
         warm' = [warm EXCEPT ![LambdaOf[r]] = @ \union {held[r]}],
         inUse' = [inUse EXCEPT ![LambdaOf[r]] = @ \ {held[r]}],
         pc' = [pc EXCEPT ![r] = "idle"],
         waitQueue' = waitQueue, phase' = phase,
         Disposed \/ waitQueue[LambdaOf[r]] = <<>>
  PROVE  \A l \in Lambdas : WithinCap(l)'
<1> USE PoolAssumption
<1> DEFINE k == LambdaOf[r]
<1>1. k \in Lambdas /\ \A l \in Lambdas : Starting(l)' \subseteq Starting(l)
  BY DEF CapInv, EveryWithinCap, RunningInv, LeaseInv, TypeInv, TypeOK, Starting, InFlightStarts
<1>2. ASSUME NEW l \in Lambdas, l # k PROVE WithinCap(l)'
  <2>1. warm'[l] = warm[l] /\ inUse'[l] = inUse[l] /\ WithinCap(l)
    BY <1>2 DEF CapInv, EveryWithinCap, RunningInv, LeaseInv, TypeInv, TypeOK
  <2> QED BY <1>1, <2>1, EntryUntouched DEF Harvested, Disposed
<1>3. WithinCap(k)'
  <2>1. warm'[k] = warm[k] \union {held[r]} /\ inUse'[k] = inUse[k] \ {held[r]}
    BY <1>1 DEF CapInv, EveryWithinCap, RunningInv, LeaseInv, TypeInv, TypeOK
  <2>2. WithinCap(k)
    BY <1>1 DEF CapInv, EveryWithinCap
  <2>3. IsFiniteSet(warm[k]) /\ IsFiniteSet(inUse[k])
    BY <2>2 DEF WithinCap
  <2>4. ~Harvested => held[r] \in inUse[k]
    BY DEF CapInv, EveryWithinCap, RunningInv, Running, Leased
  <2>5. IsFiniteSet(warm'[k]) /\ IsFiniteSet(inUse'[k])
    <3> DEFINE W == warm[k] \union {held[r]}
               U == inUse[k] \ {held[r]}
    <3>1. IsFiniteSet(W) /\ IsFiniteSet(U)
      BY <2>3, FS_AddElement, FS_RemoveElement
    <3>2. warm'[k] = W /\ inUse'[k] = U
      BY <2>1
    <3> HIDE DEF W, U
    <3> QED BY <3>1, <3>2
  <2>6. ~Harvested => PoolSize(k)' <= PoolSize(k) /\ PoolSize(k)' \in Nat
                      /\ PoolSize(k) \in Nat
    <3>1. SUFFICES ASSUME held[r] \in inUse[k]
                   PROVE  /\ PoolSize(k)' <= PoolSize(k)
                          /\ PoolSize(k)' \in Nat /\ PoolSize(k) \in Nat
      BY <2>4
    <3>2. /\ Cardinality(warm[k]) \in Nat /\ Cardinality(inUse[k]) \in Nat
          /\ Cardinality(warm'[k]) \in Nat /\ Cardinality(inUse'[k]) \in Nat
          /\ Cardinality(inUse'[k]) = Cardinality(inUse[k]) - 1
          /\ Cardinality(warm'[k]) <= Cardinality(warm[k]) + 1
      <4> DEFINE W == warm[k] \union {held[r]}
                 U == inUse[k] \ {held[r]}
      <4>1. /\ Cardinality(warm[k]) \in Nat /\ Cardinality(inUse[k]) \in Nat
            /\ Cardinality(W) \in Nat /\ Cardinality(U) \in Nat
            /\ Cardinality(U) = Cardinality(inUse[k]) - 1
            /\ Cardinality(W) <= Cardinality(warm[k]) + 1
        BY <2>3, <3>1, MovedElement
      <4>2. warm'[k] = W /\ inUse'[k] = U
        BY <2>1
      <4> HIDE DEF W, U
      <4> QED BY <4>1, <4>2
    <3> QED BY <3>2 DEF PoolSize
  <2> QED BY <1>1, <2>2, <2>5, <2>6, CapRange
          DEF WithinCap, Harvested, Disposed
<1> QED BY <1>2, <1>3

LEMMA ReleaseWithinCap ==
  ASSUME CapInv, NEW r \in Requests, Release(r)
  PROVE  \A l \in Lambdas : WithinCap(l)'
<1> USE PoolAssumption
<1>1. CASE ReleaseUnregistered(r)
  <2>1. /\ UNCHANGED <<warm, inUse, waitQueue, phase>>
        /\ \A l \in Lambdas : Starting(l)' \subseteq Starting(l)
    BY <1>1
    DEF ReleaseUnregistered, entryVars, disposeVars, CapInv, EveryWithinCap, RunningInv,
        LeaseInv, TypeInv, TypeOK, Starting, InFlightStarts
  <2> QED BY <2>1, EntryUntouched DEF CapInv, EveryWithinCap, Harvested, Disposed
<1>2. CASE ReleaseDisposed(r)
  BY <1>2, WarmedWithinCap DEF ReleaseDisposed, Returned
<1>3. CASE ReleaseWarm(r)
  BY <1>3, WarmedWithinCap DEF ReleaseWarm, Returned, NobodyWaits, disposeVars
<1>4. CASE ReleaseHandoff(r)
  <2>1. PICK w \in Requests : /\ pc[w] = "waiting"
                              /\ waitQueue[LambdaOf[r]] = <<w>>
    BY <1>4 DEF ReleaseHandoff, CapInv, RunningInv, LeaseInv, TypeInv, MutexOK
  <2>2. /\ UNCHANGED <<warm, inUse, phase>>
        /\ pc' = [pc EXCEPT ![r] = "idle", ![w] = "leased"]
        /\ waitQueue' = [waitQueue EXCEPT ![LambdaOf[r]] = <<>>]
    BY <1>4, <2>1 DEF ReleaseHandoff, disposeVars
  <2>3. \A l \in Lambdas : /\ Starting(l)' \subseteq Starting(l)
                           /\ waitQueue'[l] \in {waitQueue[l], <<>>}
    BY <2>2
    DEF CapInv, EveryWithinCap, RunningInv, LeaseInv, TypeInv, TypeOK, Starting, InFlightStarts
  <2> QED BY <2>2, <2>3, EntryUntouched DEF CapInv, EveryWithinCap, Harvested, Disposed
<1> QED BY <1>1, <1>2, <1>3, <1>4 DEF Release

LEMMA DisposeWithinCap ==
  ASSUME CapInv, Dispose
  PROVE  \A l \in Lambdas : WithinCap(l)'
<1>1. ASSUME HarvestEntries PROVE \A l \in Lambdas : WithinCap(l)'
  BY <1>1, FS_EmptySet DEF HarvestEntries, WithinCap, Harvested, Disposed
<1>2. CASE DisposeBusy
  <2>1. /\ UNCHANGED <<warm, inUse>>
        /\ \A l \in Lambdas : /\ Starting(l)' = Starting(l)
                              /\ waitQueue'[l] = <<>>
    BY <1>2, CancelPendingTypeInv
    DEF DisposeBusy, CancelPending, CapInv, RunningInv, LeaseInv, Starting,
        InFlightStarts
  <2>2. phase = "live" /\ phase' = "draining"
    BY <1>2 DEF DisposeBusy
  <2> QED BY <2>1, <2>2, EntryUntouched DEF CapInv, EveryWithinCap, Harvested, Disposed
<1>3. CASE BeginTeardown \/ DisposeEnd
  <2>1. /\ UNCHANGED <<warm, inUse, waitQueue>>
        /\ \A l \in Lambdas : Starting(l)' = Starting(l)
        /\ Harvested' /\ Disposed'
    BY <1>3
    DEF BeginTeardown, DisposeEnd, entryVars, Starting, InFlightStarts,
        Harvested, Disposed
  <2> QED BY <2>1, EntryUntouched DEF CapInv, EveryWithinCap
<1> QED BY <1>1, <1>2, <1>3 DEF Dispose, DisposeIdle, Harvest

LEMMA NextWithinCap ==
  CapInv /\ [Next]_vars => EveryWithinCap'
<1> SUFFICES ASSUME CapInv, [Next]_vars PROVE \A l \in Lambdas : WithinCap(l)'
  BY DEF EveryWithinCap
<1>1. ASSUME UNCHANGED <<pc, warm, inUse, waitQueue, phase>>
      PROVE  \A l \in Lambdas : WithinCap(l)'
  BY <1>1
  DEF CapInv, EveryWithinCap, WithinCap, PoolSize, Starting, InFlightStarts,
      Harvested, Disposed
<1>2. ASSUME NEW k \in Lambdas, IdleGc(k) PROVE \A l \in Lambdas : WithinCap(l)'
  <2>1. /\ UNCHANGED <<pc, inUse, waitQueue, phase>>
        /\ warm' = [warm EXCEPT ![k] = {}]
    BY <1>2 DEF IdleGc, disposeVars
  <2>2. ASSUME NEW l \in Lambdas, l # k PROVE WithinCap(l)'
    <3>1. warm'[l] = warm[l] /\ Starting(l)' = Starting(l)
      BY <2>1, <2>2
      DEF CapInv, EveryWithinCap, RunningInv, LeaseInv, TypeInv, TypeOK, Starting,
          InFlightStarts
    <3> QED BY <2>1, <3>1, EntryUntouched DEF CapInv, EveryWithinCap, Harvested, Disposed
  <2>3. WithinCap(k)'
    <3>1. WithinCap(k) /\ warm'[k] = {} /\ Starting(k)' = Starting(k)
      BY <2>1
      DEF CapInv, EveryWithinCap, RunningInv, LeaseInv, TypeInv, TypeOK, Starting,
          InFlightStarts
    <3>2. /\ Cardinality(warm'[k]) = 0 /\ IsFiniteSet(warm'[k])
          /\ Cardinality(warm[k]) \in Nat /\ Cardinality(inUse[k]) \in Nat
      BY <3>1, FS_EmptySet, FS_CardinalityType DEF WithinCap
    <3>3. PoolSize(k)' <= PoolSize(k) /\ PoolSize(k)' \in Nat /\ PoolSize(k) \in Nat
      BY <2>1, <3>2 DEF PoolSize
    <3> QED BY <2>1, <3>1, <3>2, <3>3, CapRange
            DEF WithinCap, Harvested, Disposed
  <2> QED BY <2>2, <2>3
<1>3. ASSUME NEW h \in Handles, RemoveCollected(h) \/ TearDown(h)
      PROVE  \A l \in Lambdas : WithinCap(l)'
  BY <1>1, <1>3 DEF RemoveCollected, TearDown, entryVars, disposeVars
<1>4. ASSUME NEW r \in Requests, StartTimeout(r)
      PROVE  \A l \in Lambdas : WithinCap(l)'
  BY <1>1, <1>4 DEF StartTimeout, entryVars
<1>5. ASSUME NEW k \in Lambdas, DrainTimeout(k)
      PROVE  \A l \in Lambdas : WithinCap(l)'
  BY <1>1, <1>5 DEF DrainTimeout, entryVars
<1>6. CASE UNCHANGED vars
  BY <1>1, <1>6 DEF vars, entryVars, disposeVars
<1>7. CASE Next
  BY <1>2, <1>3, <1>4, <1>5, <1>7, AcquireWithinCap, InsideMutexWithinCap,
     StartWithinCap, ReleaseWithinCap, DisposeWithinCap
  DEF Next
<1> QED BY <1>6, <1>7

(* Two acquires that race against the cap never exceed it, and nobody waits  *)
(* below the cap or beside a warm container.                                 *)
THEOREM PoolRespectsCap == Spec => []CapacityRespected
<1>1. Init => EveryWithinCap
  BY FS_EmptySet, CapRange
  DEF Init, EveryWithinCap, WithinCap, PoolSize, Starting, InFlightStarts, Harvested
<1>2. CapInv /\ [Next]_vars => EveryWithinCap'
  BY NextWithinCap
<1>3. CapInv => CapacityRespected
  <2> SUFFICES ASSUME CapInv PROVE CapacityRespected
    OBVIOUS
  <2>1. ASSUME ~Harvested, NEW l \in Lambdas
        PROVE  PoolSize(l) + Cardinality(Starting(l)) <= Cap
    <3>1. PoolSize(l) \in Nat /\ PoolSize(l) <= Cap
          /\ (Starting(l) # {} => PoolSize(l) < Cap)
      BY <2>1, FS_CardinalityType DEF CapInv, EveryWithinCap, WithinCap, PoolSize
    <3>2. CASE Starting(l) = {}
      BY <3>1, <3>2, FS_EmptySet, CapRange
    <3>3. CASE Starting(l) # {}
      <4>1. PICK r \in Starting(l) : Starting(l) \subseteq {r}
        <5>1. PICK r : r \in Starting(l)
          BY <3>3
        <5>2. r \in Requests /\ LambdaOf[r] = l /\ Holds(r)
          BY <5>1 DEF CapInv, EveryWithinCap, RunningInv, LeaseInv, TypeInv, MutexOK, Starting,
                      InFlightStarts
        <5> QED BY <5>1, <5>2, AloneInMutex DEF CapInv, EveryWithinCap, RunningInv, LeaseInv
      <4>2. Starting(l) = {r}
        BY <4>1
      <4>3. Cardinality(Starting(l)) = 1
        BY <4>2, FS_Singleton
      <4> QED BY <3>1, <3>3, <4>3, CapRange
    <3> QED BY <3>2, <3>3
  <2>2. WaiterMeansFull
    BY DEF CapInv, EveryWithinCap, WithinCap, WaiterMeansFull
  <2> QED BY <2>1, <2>2 DEF CapacityRespected
<1> QED BY <1>1, <1>2, <1>3, PoolRunning, PTL DEF Spec, CapInv

-----------------------------------------------------------------------------
(* The pool implements LeasePool. *)

(* What the pool lends, as LeasePool names it.                               *)
lease == [r \in Requests |-> IF pc[r] = "leased" THEN held[r] ELSE NoHandle]

LEMMA LeaseIs ==
  ASSUME TypeInv
  PROVE  /\ \A r \in Requests :
              lease[r] = IF pc[r] = "leased" THEN held[r] ELSE NoHandle
         /\ \A r \in Requests : lease[r] # NoHandle <=> pc[r] = "leased"
         /\ lease \in [Requests -> Handles \union {NoHandle}]
  BY DEF lease, TypeInv, TypeOK

(* A container that no request borrows is lent to nobody.                    *)
LEMMA NotLent ==
  ASSUME TypeInv, NEW h \in Handles, \A s \in Leased : held[s] # h
  PROVE  h \notin Lease!Lent
  BY PoolAssumption DEF Lease!Lent, Leased, TypeInv, TypeOK

LEMMA InitLease == Init => Lease!Init
  BY DEF Init, Lease!Init, Harvested

(* A request that gets the container h, without its coming or going.         *)
LEMMA BorrowStep ==
  ASSUME RunningInv, NEW r \in Requests, NEW h \in Handles,
         pc[r] # "leased", \A s \in Leased : held[s] # h,
         ~Harvested => h \in docker,
         pc' = [pc EXCEPT ![r] = "leased"],
         held' = [held EXCEPT ![r] = h] \/ (held' = held /\ held[r] = h),
         UNCHANGED <<docker, phase>>
  PROVE  Lease!Next
<1>1. lease' = [lease EXCEPT ![r] = h]
  BY DEF lease, RunningInv, LeaseInv, TypeInv, TypeOK
<1>2. lease[r] = NoHandle /\ h \notin Lease!Lent
  BY LeaseIs, NotLent DEF RunningInv, LeaseInv
<1>3. Lease!Borrow(r, h)
  BY <1>1, <1>2 DEF Lease!Borrow, lease, Harvested
<1> QED BY <1>3 DEF Lease!Next

(* A removal of containers that no request borrows, one or none.             *)
LEMMA RemoveStep ==
  ASSUME RunningInv, NEW h \in Handles,
         ~Harvested => \A s \in Leased : held[s] # h,
         docker' = docker \ {h}, lease' = lease, phase' = phase
  PROVE  [Lease!Next]_Lease!lpVars
<1>1. CASE h \in docker
  <2>1. ~Harvested => h \notin Lease!Lent
    BY NotLent DEF RunningInv, LeaseInv
  <2>2. Lease!Remove(h)
    BY <1>1, <2>1 DEF Lease!Remove, lease, Harvested
  <2> QED BY <2>2 DEF Lease!Next
<1>2. CASE h \notin docker
  <2>1. docker' = docker
    BY <1>2
  <2> QED BY <2>1 DEF Lease!lpVars, lease, Harvested
<1> QED BY <1>1, <1>2

(* Steps that touch neither the leases nor the containers.                   *)
LEMMA StutterStep ==
  ASSUME lease' = lease, docker' = docker, Harvested' = Harvested
  PROVE  UNCHANGED Lease!lpVars
  BY DEF Lease!lpVars, lease

LEMMA RequestLends ==
  ASSUME RunningInv, NEW r \in Requests,
         Acquire(r) \/ InsideMutex(r) \/ Start(r)
  PROVE  [Lease!Next]_Lease!lpVars
<1> USE PoolAssumption DEF RunningInv, LeaseInv, TypeInv, TypeOK
<1>1. CASE \/ AcquireUnregistered(r) \/ AcquireSlow(r)
           \/ JoinWaitQueue(r) \/ \E h \in Handles : BeginStart(r, h)
  <2>1. /\ docker' = docker /\ phase' = phase
        /\ \A s \in Requests : IF pc[s] = "leased"
                               THEN pc'[s] = "leased" /\ held'[s] = held[s]
                               ELSE pc'[s] # "leased"
    BY <1>1
    DEF AcquireUnregistered, AcquireSlow, JoinWaitQueue, BeginStart, entryVars,
        disposeVars
  <2>2. lease' = lease
    BY <2>1 DEF lease
  <2> QED BY <2>1, <2>2, StutterStep DEF Harvested
<1>2. ASSUME NEW h \in Handles, AcquireWarm(r, h) \/ RecheckWarm(r, h)
      PROVE  [Lease!Next]_Lease!lpVars
  <2>1. /\ pc[r] # "leased"
        /\ pc' = [pc EXCEPT ![r] = "leased"]
        /\ held' = [held EXCEPT ![r] = h]
        /\ h \in warm[LambdaOf[r]]
        /\ UNCHANGED <<docker, phase>>
    BY <1>2 DEF AcquireWarm, RecheckWarm, TakeWarm, disposeVars
  <2>2. /\ \A s \in Leased : held[s] # h
        /\ ~Harvested => h \in docker
    BY <2>1 DEF OnePlace, Holders, Leased, Running
  <2> QED BY <2>1, <2>2, BorrowStep
<1>3. CASE ContainerRuns(r)
  <2>1. /\ held[r] \in Handles /\ r \in Holders /\ r \notin Leased
        /\ docker' = docker \union {held[r]}
        /\ UNCHANGED <<held, phase>>
        /\ pc[r] = "booting" /\ pc' = [pc EXCEPT ![r] = "probing"]
    BY <1>3 DEF ContainerRuns, Holders, Leased, disposeVars
  <2>2. held[r] \notin Lease!Lent
    BY <2>1, NotLent DEF OnePlace, Holders, Leased
  <2>3. lease' = lease
    BY <2>1 DEF lease
  <2>4. CASE held[r] \in docker
    <3>1. docker' = docker
      BY <2>1, <2>4
    <3> QED BY <2>1, <2>3, <3>1, StutterStep DEF Harvested
  <2>5. CASE held[r] \notin docker
    <3>1. Lease!Boot(held[r])
      BY <2>1, <2>2, <2>3, <2>5 DEF Lease!Boot, lease, Harvested
    <3> QED BY <2>1, <3>1 DEF Lease!Next
  <2> QED BY <2>4, <2>5
<1>4. CASE StartSucceeds(r)
  <2>1. /\ held[r] \in Handles /\ pc[r] = "probing"
        /\ pc' = [pc EXCEPT ![r] = "leased"]
        /\ UNCHANGED <<held, docker, phase>>
    BY <1>4 DEF StartSucceeds, Settle
  <2>2. /\ \A s \in Leased : held[s] # held[r]
        /\ ~Harvested => held[r] \in docker
    BY <2>1 DEF OnePlace, Holders, Leased, Running
  <2> QED BY <2>1, <2>2, BorrowStep
<1>5. CASE StartFails(r)
  <2>1. /\ held[r] \in Handles /\ pc[r] \in {"booting", "probing"}
        /\ pc' = [pc EXCEPT ![r] = "failed"]
        /\ held' = [held EXCEPT ![r] = NoHandle]
        /\ docker' = docker \ {held[r]}
        /\ phase' = phase
    BY <1>5 DEF StartFails, DiscardStart, Settle
  <2>2. \A s \in Leased : held[s] # held[r]
    BY <2>1 DEF OnePlace, Holders, Leased
  <2>3. lease' = lease
    BY <2>1 DEF lease
  <2> QED BY <2>1, <2>2, <2>3, RemoveStep
<1> QED
  BY <1>1, <1>2, <1>3, <1>4, <1>5 DEF Acquire, InsideMutex, Start

LEMMA ReleaseReturns ==
  ASSUME RunningInv, NEW r \in Requests, Release(r)
  PROVE  Lease!Next
<1> USE PoolAssumption DEF RunningInv, LeaseInv, TypeInv, TypeOK
<1>1. CASE ReleaseUnregistered(r) \/ ReleaseDisposed(r) \/ ReleaseWarm(r)
  <2>1. /\ pc[r] = "leased"
        /\ pc' = [pc EXCEPT ![r] = "idle"]
        /\ held' = [held EXCEPT ![r] = NoHandle]
        /\ UNCHANGED <<docker, phase>>
    BY <1>1
    DEF ReleaseUnregistered, ReleaseDisposed, ReleaseWarm, Returned, disposeVars
  <2>2. lease' = [lease EXCEPT ![r] = NoHandle]
    BY <2>1 DEF lease
  <2>3. Lease!Return(r)
    BY <2>1, <2>2, LeaseIs DEF Lease!Return, lease, Harvested
  <2> QED BY <2>3 DEF Lease!Next
<1>2. CASE ReleaseHandoff(r)
  <2>1. PICK w \in Requests : /\ pc[w] = "waiting"
                              /\ waitQueue[LambdaOf[r]] = <<w>>
    BY <1>2 DEF ReleaseHandoff, MutexOK
  <2>2. /\ pc[r] = "leased"
        /\ pc' = [pc EXCEPT ![r] = "idle", ![w] = "leased"]
        /\ held' = [held EXCEPT ![r] = NoHandle, ![w] = held[r]]
        /\ UNCHANGED <<docker, phase>>
    BY <1>2, <2>1 DEF ReleaseHandoff, disposeVars
  <2>3. lease' = [lease EXCEPT ![r] = NoHandle, ![w] = lease[r]]
    BY <2>1, <2>2 DEF lease
  <2>4. Lease!HandOver(r, w)
    BY <2>1, <2>2, <2>3, LeaseIs DEF Lease!HandOver, lease, Harvested
  <2> QED BY <2>4 DEF Lease!Next
<1> QED BY <1>1, <1>2 DEF Release

LEMMA DisposeCloses ==
  ASSUME RunningInv, Dispose
  PROVE  [Lease!Next]_Lease!lpVars
<1>1. ASSUME CancelPending, held' = held PROVE lease' = lease
  BY <1>1, CancelPendingTypeInv DEF RunningInv, LeaseInv, lease
<1>2. ASSUME lease' = lease, docker' = docker, ~Harvested, Harvested'
      PROVE  Lease!Next
  BY <1>2 DEF Lease!Next, Lease!Close, lease
<1>3. CASE DisposeIdle
  BY <1>1, <1>2, <1>3 DEF DisposeIdle, HarvestEntries, Harvested
<1>4. CASE DisposeBusy
  BY <1>1, <1>4, StutterStep DEF DisposeBusy, Harvested
<1>5. CASE Harvest
  BY <1>2, <1>5 DEF Harvest, HarvestEntries, Harvested, lease
<1>6. CASE BeginTeardown \/ DisposeEnd
  BY <1>6, StutterStep DEF BeginTeardown, DisposeEnd, Harvested, lease
<1> QED BY <1>3, <1>4, <1>5, <1>6 DEF Dispose

LEMMA NextLends == RunningInv /\ [Next]_vars => [Lease!Next]_Lease!lpVars
<1> SUFFICES ASSUME RunningInv, [Next]_vars PROVE [Lease!Next]_Lease!lpVars
  OBVIOUS
<1>1. CASE UNCHANGED vars
  BY <1>1, StutterStep DEF vars, disposeVars, Harvested, lease
<1>2. ASSUME NEW l \in Lambdas, IdleGc(l) \/ DrainTimeout(l)
      PROVE  [Lease!Next]_Lease!lpVars
  BY <1>2, StutterStep DEF IdleGc, DrainTimeout, disposeVars, Harvested, lease
<1>3. ASSUME NEW h \in Handles, RemoveCollected(h) \/ TearDown(h)
      PROVE  [Lease!Next]_Lease!lpVars
  <2>1. /\ docker' = docker \ {h} /\ phase' = phase
        /\ lease' = lease
    BY <1>3 DEF RemoveCollected, TearDown, disposeVars, lease
  <2>2. ~Harvested => \A s \in Leased : held[s] # h
    BY <1>3
    DEF RemoveCollected, TearDown, Harvested, RunningInv, LeaseInv, OnePlace,
        Holders, Leased
  <2> QED BY <2>1, <2>2, RemoveStep
<1>4. ASSUME NEW r \in Requests, StartTimeout(r)
      PROVE  [Lease!Next]_Lease!lpVars
  BY <1>4, StutterStep DEF StartTimeout, Harvested, lease
<1>5. CASE Next
  BY <1>2, <1>3, <1>4, <1>5, RequestLends, ReleaseReturns, DisposeCloses
  DEF Next
<1> QED BY <1>1, <1>5

(* Whatever it does inside, the pool lends containers as LeasePool allows:   *)
(* one request at a time, only what runs, and nothing lent is removed before *)
(* the pool closes.                                                          *)
THEOREM PoolImplementsLeasePool == Spec => LendsSafely
<1>1. Init => Lease!Init
  BY InitLease
<1>2. RunningInv /\ [Next]_vars => [Lease!Next]_Lease!lpVars
  BY NextLends
<1> QED BY <1>1, <1>2, PoolRunning, PTL DEF Spec, LendsSafely, Lease!Spec
=============================================================================
