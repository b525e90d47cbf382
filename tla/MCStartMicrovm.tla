--------------------------- MODULE MCStartMicrovm ---------------------------
(* Containers kept from one request to the next.  Two MicroVMs, so that one *)
(* is served and terminated while the other one boots; two requests, so     *)
(* that one resume is shared; one crash.  Or a pool of which three requests *)
(* want the two containers it may have.  One of the two runs.               *)
EXTENDS StartMicrovm

CONSTANTS f,           \* a Lambda
          a1, a2, a3,  \* acquires of its pool
          h1, h2,      \* its containers
          Nobody

VARIABLES program,
    pc, held, warm, inUse, waitQueue, growthMutex, idleTimer, docker, collecting, phase,
    drains, settling, allHandles, drainTimedOut, startTimedOut, grace, lateStarts

poolVars == <<pc, held, warm, inUse, waitQueue, growthMutex, idleTimer, docker, collecting,
    phase, drains, settling, allHandles, drainTimedOut, startTimedOut, grace, lateStarts>>

P == INSTANCE ContainerPool WITH
        Lambdas <- {f}, Requests <- {a1, a2, a3}, Handles <- {h1, h2},
        LambdaOf <- [r \in {a1, a2, a3} |-> f], PerLambdaConcurrency <- 2,
        NotFinite <- Nobody, NoHandle <- Nobody, late <- lateStarts

MCInit == program \in {"microvm", "pool"} /\ Init /\ P!Init

Runs(action) == program = "microvm" /\ action /\ UNCHANGED <<program, poolVars>>
Lends(action) == program = "pool" /\ action /\ UNCHANGED <<program, vars>>

MCNext == Runs(Next) \/ Lends(P!Next)

MCSpec ==
  /\ MCInit /\ [][MCNext]_<<program, vars, poolVars>>
  /\ \A v \in Vms :
       /\ WF_vars(Runs(~exited /\ SuspendStep(v)))
       /\ WF_vars(Runs(~exited /\ ResumeStep(v)))
       /\ WF_vars(Runs(~exited /\ TerminateStep(v)))
  /\ WF_vars(Runs(~exited /\ TeardownStep))
  /\ WF_vars(Runs(~exited /\ CommandStep))
  /\ \A r \in {a1, a2, a3} :
       /\ WF_poolVars(Lends(P!InsideMutex(r))) /\ WF_poolVars(Lends(P!Start(r)))
       /\ WF_poolVars(Lends(P!Release(r))) /\ WF_poolVars(Lends(P!StartTimeout(r)))
  /\ WF_poolVars(Lends(P!DrainTimeout(f))) /\ WF_poolVars(Lends(P!IdleGc(f)))
  /\ \A h \in {h1, h2} :
       WF_poolVars(Lends(P!RemoveCollected(h))) /\ WF_poolVars(Lends(P!TearDown(h)))
  /\ WF_poolVars(Lends(P!Harvest \/ P!BeginTeardown \/ P!DisposeEnd))

(* The pool alone, with the steps in which no request calls acquire after   *)
(* dispose(): what the requests already inside acquire run into by          *)
(* themselves.                                                              *)
QuietNext ==
  /\ Lends(P!Next)
  /\ P!Disposed => \A r \in {a1, a2, a3} :
                     pc[r] \in {"idle", "failed"} => pc'[r] = pc[r]

QuietSpec ==
  /\ MCInit /\ program = "pool"
  /\ [][QuietNext]_<<program, vars, poolVars>>
  /\ P!Fairness

(* An acquire that waits is served or rejected, also by a dispose().        *)
NoAcquireHangs == P!NoAcquireHangs

(* Every request that waits gets an answer, and every reason to end ends    *)
(* the command.  Every acquire of a live pool ends, and dispose() returns.  *)
EverythingSettles == Settles /\ P!EverythingSettles
=============================================================================
