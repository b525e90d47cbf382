------------------------- MODULE StartMicrovmProofs -------------------------
(***************************************************************************)
(* Proofs about StartMicrovm, for any number of MicroVMs, requests and     *)
(* crashes.                                                                *)
(***************************************************************************)
EXTENDS StartMicrovm, TLAPS

Up == {"running", "exited"}

(* The command boots MicroVMs in the order of their index: those after it   *)
(* are not created, nor is it before its `docker run` has returned; and a   *)
(* container is bare only once a teardown has begun.                        *)
CommandOK ==
  /\ \A v \in Vms : v > index => current[v] = "none"
  /\ main \in {"building", "ports", "running"} => current[index] = "none"
  /\ bare # {} => teardown # "none"
  /\ removing \subseteq bare

(* A promise in flight belongs to the state it was started in, unless a     *)
(* terminate() has taken over; that one waits until both are over.          *)
PromisesOK ==
  \A v \in Vms :
    /\ current[v] \in Gone <=> terminating[v] # "none"
    /\ current[v] = "terminated" <=> terminating[v] = "done"
    /\ suspending[v] # "none" => current[v] \in {"suspending"} \union Gone
    /\ resuming[v] # "none" => current[v] \in {"resuming"} \union Gone
    /\ terminating[v] \notin {"none", "waiting"} => InFlightSettled(v)

(* What docker has for each state of a MicroVM, also half-way of a resume.  *)
ContainersOK ==
  \A v \in Vms :
    /\ container[v] = "paused" => paused[v]
    /\ current[v] \in {"booting", "running", "suspending"} =>
         container[v] \in Up
    /\ current[v] = "resuming" =>
         \/ /\ resuming[v] = "unpausing"
            /\ container[v] = "paused" \/ v \in stuck
         \/ resuming[v] \in {"hook", "repausing"} /\ container[v] \in Up
    /\ current[v] = "suspended" => container[v] = "paused" \/ v \in stuck
    /\ current[v] = "terminated" => container[v] = "removed"

(* Every container is wrapped, bare, or being started; the teardown leaves  *)
(* none of them out but those started behind its back.                      *)
TeardownOK ==
  /\ \A v \in Vms :
       \/ container[v] \in {"none", "removed"}
       \/ current[v] # "none"
       \/ v \in bare
       \/ v = index /\ main = "running"
  /\ teardown \in {"vms", "bare"} /\ main = "running" => index \in late
  /\ teardown = "bare" =>
       /\ \A v \in Created : terminating[v] = "done"
       /\ \A v \in bare \ late : v \in removing \/ container[v] = "removed"
  /\ exited /\ ~abandoned => teardown = "bare" /\ removing = {}

IInv == /\ TypeOK /\ CommandOK /\ PromisesOK /\ ContainersOK
        /\ TerminateThaws /\ TeardownOK

-----------------------------------------------------------------------------
(* Each action preserves the invariant: a lemma per action, a step per part.*)

USE DEF IInv, TypeOK, VmTypes, RequestTypes, CommandTypes,
  Created, Gone, vmVars, reqVars, mainVars, downVars

(* A request may start a resume, of a suspended MicroVM: none is in flight *)
(* there.                                                                  *)
LEMMA ArriveInv ==
  ASSUME IInv, NEW r \in Requests, NEW v \in Vms, Arrive(r, v)
  PROVE  IInv'
<1>1. TypeOK'
  <2>1. VmTypes'
    <3>1. CASE UNCHANGED <<current, resuming>>
      BY <3>1 DEF Arrive
    <3>2. CASE /\ current' = [current EXCEPT ![v] = "resuming"]
               /\ resuming' = [resuming EXCEPT ![v] = "unpausing"]
      BY <3>2 DEF Arrive
    <3> QED BY <3>1, <3>2 DEF Arrive
  <2>2. RequestTypes'
    BY DEF Arrive, Verdict
  <2>3. CommandTypes'
    BY DEF Arrive, Verdict
  <2>4. (bare \intersect Created = {})'
    BY DEF CommandOK, Arrive, Verdict
  <2> QED BY <2>1, <2>2, <2>3, <2>4
<1>2. CommandOK'
  BY DEF CommandOK, Arrive, Verdict
<1>3. PromisesOK'
  BY DEF PromisesOK, InFlightSettled, Arrive, Verdict
<1>4. ContainersOK'
  BY DEF PromisesOK, ContainersOK, Up, Arrive, Verdict
<1>5. TerminateThaws'
  BY DEF PromisesOK, ContainersOK, TerminateThaws, InFlightSettled, Up,
     Arrive, Verdict
<1>6. TeardownOK'
  BY DEF CommandOK, PromisesOK, ContainersOK, TeardownOK, Up, Arrive,
     Verdict
<1> QED BY <1>1, <1>2, <1>3, <1>4, <1>5, <1>6

(* Only a running MicroVM is suspended, so its container is up.            *)
LEMMA SuspendInv ==
  ASSUME IInv, NEW v \in Vms, Suspend(v)
  PROVE  IInv'
<1>1. TypeOK'
  BY DEF CommandOK, Suspend
<1>2. CommandOK'
  BY DEF CommandOK, Suspend
<1>3. PromisesOK'
  BY DEF PromisesOK, InFlightSettled, Suspend
<1>4. ContainersOK'
  BY DEF PromisesOK, ContainersOK, Up, Suspend
<1>5. TerminateThaws'
  BY DEF PromisesOK, ContainersOK, TerminateThaws, InFlightSettled, Up,
     Suspend
<1>6. TeardownOK'
  BY DEF CommandOK, PromisesOK, ContainersOK, TeardownOK, Up, Suspend
<1> QED BY <1>1, <1>2, <1>3, <1>4, <1>5, <1>6

(* Only what the suspend awaits changes.                                   *)
LEMMA SuspendHookAnswersInv ==
  ASSUME IInv, NEW v \in Vms, SuspendHookAnswers(v)
  PROVE  IInv'
<1>1. TypeOK'
  BY DEF CommandOK, SuspendHookAnswers
<1>2. CommandOK'
  BY DEF CommandOK, SuspendHookAnswers
<1>3. PromisesOK'
  BY DEF PromisesOK, InFlightSettled, SuspendHookAnswers
<1>4. ContainersOK'
  BY DEF PromisesOK, ContainersOK, Up, SuspendHookAnswers
<1>5. TerminateThaws'
  BY DEF PromisesOK, ContainersOK, TerminateThaws, InFlightSettled, Up,
     SuspendHookAnswers
<1>6. TeardownOK'
  BY DEF CommandOK, PromisesOK, ContainersOK, TeardownOK, Up,
     SuspendHookAnswers
<1> QED BY <1>1, <1>2, <1>3, <1>4, <1>5, <1>6

(* A pause ends under the suspend it belongs to, so no /terminate hook     *)
(* runs.                                                                   *)
LEMMA PauseSucceedsInv ==
  ASSUME IInv, NEW v \in Vms, PauseSucceeds(v)
  PROVE  IInv'
<1>1. TypeOK'
  BY DEF CommandOK, PauseSucceeds, Completes, Answer, Waiting
<1>2. CommandOK'
  BY DEF CommandOK, PauseSucceeds, Completes, Answer, Waiting
<1>3. PromisesOK'
  BY DEF PromisesOK, InFlightSettled, PauseSucceeds, Completes, Answer,
     Waiting
<1>4. ContainersOK'
  BY DEF PromisesOK, ContainersOK, Up, PauseSucceeds, Completes, Answer,
     Waiting
<1>5. TerminateThaws'
  BY DEF PromisesOK, ContainersOK, TerminateThaws, InFlightSettled, Up,
     PauseSucceeds, Completes, Answer, Waiting
<1>6. TeardownOK'
  BY DEF CommandOK, PromisesOK, ContainersOK, TeardownOK, Up, PauseSucceeds,
     Completes, Answer, Waiting
<1> QED BY <1>1, <1>2, <1>3, <1>4, <1>5, <1>6

(* The container has not been paused yet.                                  *)
LEMMA SuspendFailsInv ==
  ASSUME IInv, NEW v \in Vms, SuspendFails(v)
  PROVE  IInv'
<1>1. TypeOK'
  BY DEF CommandOK, SuspendFails, Completes, Answer, Waiting, Verdict
<1>2. CommandOK'
  BY DEF CommandOK, SuspendFails, Completes, Answer, Waiting, Verdict
<1>3. PromisesOK'
  BY DEF PromisesOK, InFlightSettled, SuspendFails, Completes, Answer,
     Waiting, Verdict
<1>4. ContainersOK'
  BY DEF PromisesOK, ContainersOK, Up, SuspendFails, Completes, Answer,
     Waiting, Verdict
<1>5. TerminateThaws'
  BY DEF PromisesOK, ContainersOK, TerminateThaws, InFlightSettled, Up,
     SuspendFails, Completes, Answer, Waiting, Verdict
<1>6. TeardownOK'
  BY DEF CommandOK, PromisesOK, ContainersOK, TeardownOK, Up, SuspendFails,
     Completes, Answer, Waiting, Verdict
<1> QED BY <1>1, <1>2, <1>3, <1>4, <1>5, <1>6

(* The container is up again, and the resume goes on with its hook.        *)
LEMMA UnpauseSucceedsInv ==
  ASSUME IInv, NEW v \in Vms, UnpauseSucceeds(v)
  PROVE  IInv'
<1>1. TypeOK'
  BY DEF CommandOK, UnpauseSucceeds, Unpauses
<1>2. CommandOK'
  BY DEF CommandOK, UnpauseSucceeds, Unpauses
<1>3. PromisesOK'
  BY DEF PromisesOK, InFlightSettled, UnpauseSucceeds, Unpauses
<1>4. ContainersOK'
  BY DEF PromisesOK, ContainersOK, Up, UnpauseSucceeds, Unpauses
<1>5. TerminateThaws'
  BY DEF PromisesOK, ContainersOK, TerminateThaws, InFlightSettled, Up,
     UnpauseSucceeds, Unpauses
<1>6. TeardownOK'
  BY DEF CommandOK, PromisesOK, ContainersOK, TeardownOK, Up,
     UnpauseSucceeds, Unpauses
<1> QED BY <1>1, <1>2, <1>3, <1>4, <1>5, <1>6

(* A resume that still has the state has unpaused the container.           *)
LEMMA ResumeHookAnswersInv ==
  ASSUME IInv, NEW v \in Vms, ResumeHookAnswers(v)
  PROVE  IInv'
<1>1. TypeOK'
  BY DEF CommandOK, ResumeHookAnswers, Completes, Answer, Verdict
<1>2. CommandOK'
  BY DEF CommandOK, ResumeHookAnswers, Completes, Answer, Verdict
<1>3. PromisesOK'
  BY DEF PromisesOK, InFlightSettled, ResumeHookAnswers, Completes, Answer,
     Verdict
<1>4. ContainersOK'
  BY DEF PromisesOK, ContainersOK, Up, ResumeHookAnswers, Completes, Answer,
     Verdict
<1>5. TerminateThaws'
  BY DEF PromisesOK, ContainersOK, TerminateThaws, InFlightSettled, Up,
     ResumeHookAnswers, Completes, Answer, Verdict
<1>6. TeardownOK'
  BY DEF CommandOK, PromisesOK, ContainersOK, TeardownOK, Up,
     ResumeHookAnswers, Completes, Answer, Verdict
<1> QED BY <1>1, <1>2, <1>3, <1>4, <1>5, <1>6

(* The container stays up until it is paused again.                        *)
LEMMA ResumeHookFailsInv ==
  ASSUME IInv, NEW v \in Vms, ResumeHookFails(v)
  PROVE  IInv'
<1>1. TypeOK'
  BY DEF CommandOK, ResumeHookFails, Repauses
<1>2. CommandOK'
  BY DEF CommandOK, ResumeHookFails, Repauses
<1>3. PromisesOK'
  BY DEF PromisesOK, InFlightSettled, ResumeHookFails, Repauses
<1>4. ContainersOK'
  BY DEF PromisesOK, ContainersOK, Up, ResumeHookFails, Repauses
<1>5. TerminateThaws'
  BY DEF PromisesOK, ContainersOK, TerminateThaws, InFlightSettled, Up,
     ResumeHookFails, Repauses
<1>6. TeardownOK'
  BY DEF CommandOK, PromisesOK, ContainersOK, TeardownOK, Up,
     ResumeHookFails, Repauses
<1> QED BY <1>1, <1>2, <1>3, <1>4, <1>5, <1>6

(* Whatever fails, the container is paused or the MicroVM is stuck.        *)
LEMMA ResumeFailsInv ==
  ASSUME IInv, NEW v \in Vms, ResumeFails(v)
  PROVE  IInv'
<1>1. TypeOK'
  <2>1. VmTypes'
    <3>1. CASE UNCHANGED <<container, paused>>
      BY <3>1 DEF ResumeFails, Completes
    <3>2. CASE /\ container' = [container EXCEPT ![v] = "paused"]
               /\ paused' = [paused EXCEPT ![v] = TRUE]
      BY <3>2 DEF ResumeFails, Completes
    <3> QED BY <3>1, <3>2 DEF ResumeFails
  <2>2. RequestTypes'
    BY DEF ResumeFails, Repauses, Completes, Answer
  <2>3. CommandTypes'
    BY DEF ResumeFails, Repauses, Completes, Answer
  <2>4. (bare \intersect Created = {})'
    BY DEF CommandOK, ResumeFails, Repauses, Completes, Answer
  <2> QED BY <2>1, <2>2, <2>3, <2>4
<1>2. CommandOK'
  BY DEF CommandOK, ResumeFails, Repauses, Completes, Answer
<1>3. PromisesOK'
  BY DEF PromisesOK, InFlightSettled, ResumeFails, Repauses, Completes,
     Answer
<1>4. ContainersOK'
  BY DEF PromisesOK, ContainersOK, Up, ResumeFails, Repauses, Completes,
     Answer
<1>5. TerminateThaws'
  BY DEF PromisesOK, ContainersOK, TerminateThaws, InFlightSettled, Up,
     ResumeFails, Repauses, Completes, Answer
<1>6. TeardownOK'
  BY DEF CommandOK, PromisesOK, ContainersOK, TeardownOK, Up, ResumeFails,
     Repauses, Completes, Answer
<1> QED BY <1>1, <1>2, <1>3, <1>4, <1>5, <1>6

(* terminate() takes the state; what is in flight stays in flight.         *)
LEMMA TerminateInv ==
  ASSUME IInv, NEW v \in Vms, Terminate(v)
  PROVE  IInv'
<1>1. TypeOK'
  <2>1. VmTypes'
    BY DEF Terminate, Terminable, BeginTerminate
  <2>2. RequestTypes'
    BY DEF Terminate, Terminable, BeginTerminate
  <2>3. CommandTypes'
    BY DEF Terminate, Terminable, BeginTerminate
  <2>4. (bare \intersect Created = {})'
    BY DEF CommandOK, Terminate, Terminable, BeginTerminate
  <2> QED BY <2>1, <2>2, <2>3, <2>4
<1>2. CommandOK'
  BY DEF CommandOK, Terminate, Terminable, BeginTerminate
<1>3. PromisesOK'
  BY DEF PromisesOK, InFlightSettled, Terminate, Terminable, BeginTerminate
<1>4. ContainersOK'
  BY DEF PromisesOK, ContainersOK, Up, Terminate, Terminable, BeginTerminate
<1>5. TerminateThaws'
  BY DEF PromisesOK, ContainersOK, TerminateThaws, InFlightSettled, Up,
     Terminate, Terminable, BeginTerminate
<1>6. TeardownOK'
  BY DEF CommandOK, PromisesOK, ContainersOK, TeardownOK, Up, Terminate,
     Terminable, BeginTerminate
<1> QED BY <1>1, <1>2, <1>3, <1>4, <1>5, <1>6

(* Nothing is in flight: an unpaused container stays unpaused.             *)
LEMMA TerminateGoesOnInv ==
  ASSUME IInv, NEW v \in Vms, TerminateGoesOn(v)
  PROVE  IInv'
<1>1. TypeOK'
  BY DEF CommandOK, TerminateGoesOn, InFlightSettled
<1>2. CommandOK'
  BY DEF CommandOK, TerminateGoesOn, InFlightSettled
<1>3. PromisesOK'
  BY DEF PromisesOK, InFlightSettled, TerminateGoesOn
<1>4. ContainersOK'
  BY DEF PromisesOK, ContainersOK, Up, TerminateGoesOn, InFlightSettled
<1>5. TerminateThaws'
  BY DEF PromisesOK, ContainersOK, TerminateThaws, InFlightSettled, Up,
     TerminateGoesOn
<1>6. TeardownOK'
  BY DEF CommandOK, PromisesOK, ContainersOK, TeardownOK, Up,
     TerminateGoesOn, InFlightSettled
<1> QED BY <1>1, <1>2, <1>3, <1>4, <1>5, <1>6

(* The container is unpaused or the MicroVM is stuck.                      *)
LEMMA TerminateUnpausesInv ==
  ASSUME IInv, NEW v \in Vms, TerminateUnpauses(v)
  PROVE  IInv'
<1>1. TypeOK'
  <2>1. VmTypes'
    <3>1. CASE UNCHANGED <<container, paused>>
      BY <3>1 DEF TerminateUnpauses
    <3>2. CASE Unpauses(v)
      BY <3>2 DEF TerminateUnpauses, Unpauses
    <3> QED BY <3>1, <3>2 DEF TerminateUnpauses
  <2>2. RequestTypes'
    BY DEF TerminateUnpauses, Unpauses
  <2>3. CommandTypes'
    BY DEF TerminateUnpauses, Unpauses
  <2>4. (bare \intersect Created = {})'
    BY DEF CommandOK, TerminateUnpauses, Unpauses
  <2> QED BY <2>1, <2>2, <2>3, <2>4
<1>2. CommandOK'
  BY DEF CommandOK, TerminateUnpauses, Unpauses
<1>3. PromisesOK'
  BY DEF PromisesOK, InFlightSettled, TerminateUnpauses, Unpauses
<1>4. ContainersOK'
  <2>1. CASE UNCHANGED <<container, paused>>
    BY <2>1 DEF TerminateUnpauses, PromisesOK, ContainersOK, Up
  <2>2. CASE Unpauses(v)
    BY <2>2 DEF TerminateUnpauses, Unpauses, PromisesOK, ContainersOK, Up
  <2> QED BY <2>1, <2>2 DEF TerminateUnpauses
<1>5. TerminateThaws'
  BY DEF PromisesOK, ContainersOK, TerminateThaws, InFlightSettled, Up,
     TerminateUnpauses, Unpauses
<1>6. TeardownOK'
  BY DEF CommandOK, PromisesOK, ContainersOK, TeardownOK, Up,
     TerminateUnpauses, Unpauses
<1> QED BY <1>1, <1>2, <1>3, <1>4, <1>5, <1>6

(* Only what the termination awaits changes.                               *)
LEMMA TerminateHookEndsInv ==
  ASSUME IInv, NEW v \in Vms, TerminateHookEnds(v)
  PROVE  IInv'
<1>1. TypeOK'
  BY DEF CommandOK, TerminateHookEnds
<1>2. CommandOK'
  BY DEF CommandOK, TerminateHookEnds
<1>3. PromisesOK'
  BY DEF PromisesOK, InFlightSettled, TerminateHookEnds
<1>4. ContainersOK'
  BY DEF PromisesOK, ContainersOK, Up, TerminateHookEnds
<1>5. TerminateThaws'
  BY DEF PromisesOK, ContainersOK, TerminateThaws, InFlightSettled, Up,
     TerminateHookEnds
<1>6. TeardownOK'
  BY DEF CommandOK, PromisesOK, ContainersOK, TeardownOK, Up,
     TerminateHookEnds
<1> QED BY <1>1, <1>2, <1>3, <1>4, <1>5, <1>6

(* The MicroVM is terminated once its container is removed.                *)
LEMMA RemovedInv ==
  ASSUME IInv, NEW v \in Vms, Removed(v)
  PROVE  IInv'
<1>1. TypeOK'
  <2>1. VmTypes'
    BY DEF Removed, AllBooted
  <2>2. RequestTypes'
    BY DEF Removed, AllBooted
  <2>3. CommandTypes'
    BY DEF Removed, AllBooted
  <2>4. (bare \intersect Created = {})'
    BY DEF CommandOK, PromisesOK, Removed, AllBooted
  <2> QED BY <2>1, <2>2, <2>3, <2>4
<1>2. CommandOK'
  BY DEF CommandOK, PromisesOK, Removed, AllBooted
<1>3. PromisesOK'
  BY DEF PromisesOK, InFlightSettled, Removed, AllBooted
<1>4. ContainersOK'
  BY DEF PromisesOK, ContainersOK, Up, Removed, AllBooted
<1>5. TerminateThaws'
  BY DEF PromisesOK, ContainersOK, TerminateThaws, InFlightSettled, Up,
     Removed, AllBooted
<1>6. TeardownOK'
  BY DEF CommandOK, PromisesOK, ContainersOK, TeardownOK, Up, Removed,
     AllBooted
<1> QED BY <1>1, <1>2, <1>3, <1>4, <1>5, <1>6

(* A container that was up has exited, which none of the states excludes.  *)
LEMMA CrashInv ==
  ASSUME IInv, NEW v \in Vms, Crash(v)
  PROVE  IInv'
<1>1. TypeOK'
  BY MicrovmAssumption DEF CommandOK, Crash
<1>2. CommandOK'
  BY DEF CommandOK, Crash
<1>3. PromisesOK'
  BY DEF PromisesOK, InFlightSettled, Crash
<1>4. ContainersOK'
  BY DEF PromisesOK, ContainersOK, Up, Crash
<1>5. TerminateThaws'
  BY DEF PromisesOK, ContainersOK, TerminateThaws, InFlightSettled, Up,
     Crash
<1>6. TeardownOK'
  BY DEF CommandOK, PromisesOK, ContainersOK, TeardownOK, Up, Crash
<1> QED BY <1>1, <1>2, <1>3, <1>4, <1>5, <1>6

(* Only the command's promise changes.                                     *)
LEMMA ExitSeenInv ==
  ASSUME IInv, NEW v \in Vms, ExitSeen(v)
  PROVE  IInv'
  BY DEF CommandOK, PromisesOK, ContainersOK, TerminateThaws, TeardownOK,
     InFlightSettled, Up, ExitSeen

(* The teardown begins: every MicroVM not yet terminating is taken over.   *)
LEMMA SignalInv ==
  ASSUME IInv, Signal
  PROVE  IInv'
<1>1. TypeOK'
  <2>1. VmTypes'
    <3>1. CASE UNCHANGED <<current, terminating, wasBooting>>
      BY <3>1 DEF Signal
    <3>2. CASE TerminateAll
      BY <3>2 DEF Signal, TerminateAll, BeginTerminate
    <3> QED BY <3>1, <3>2 DEF Signal, BeginTeardown
  <2>2. RequestTypes'
    BY DEF Signal, BeginTeardown, RunInFlight, TerminateAll, BeginTerminate,
       Terminable
  <2>3. CommandTypes'
    BY DEF Signal, BeginTeardown, RunInFlight, TerminateAll, BeginTerminate,
       Terminable
  <2>4. (bare \intersect Created = {})'
    BY DEF CommandOK, Signal, BeginTeardown, RunInFlight, TerminateAll,
       BeginTerminate, Terminable
  <2> QED BY <2>1, <2>2, <2>3, <2>4
<1>2. CommandOK'
  BY DEF CommandOK, Signal, BeginTeardown, RunInFlight, TerminateAll,
     BeginTerminate, Terminable
<1>3. PromisesOK'
  BY DEF PromisesOK, InFlightSettled, Signal, BeginTeardown, RunInFlight,
     TerminateAll, BeginTerminate, Terminable
<1>4. ContainersOK'
  BY DEF PromisesOK, ContainersOK, Up, Signal, BeginTeardown, RunInFlight,
     TerminateAll, BeginTerminate, Terminable
<1>5. TerminateThaws'
  BY DEF PromisesOK, ContainersOK, TerminateThaws, InFlightSettled, Up,
     Signal, BeginTeardown, RunInFlight, TerminateAll, BeginTerminate,
     Terminable
<1>6. TeardownOK'
  BY DEF CommandOK, PromisesOK, ContainersOK, TeardownOK, Up, Signal,
     BeginTeardown, RunInFlight, TerminateAll, BeginTerminate, Terminable
<1> QED BY <1>1, <1>2, <1>3, <1>4, <1>5, <1>6

(* The process gives up and says so.                                       *)
LEMMA SecondSignalInv ==
  ASSUME IInv, SecondSignal
  PROVE  IInv'
  BY DEF CommandOK, PromisesOK, ContainersOK, TerminateThaws, TeardownOK,
     InFlightSettled, Up, SecondSignal, RunInFlight

(* The docker run waited for has returned, so none is in flight any more.  *)
LEMMA RunSettledInv ==
  ASSUME IInv, RunSettled
  PROVE  IInv'
<1>1. TypeOK'
  <2>1. VmTypes'
    BY DEF RunSettled, RunInFlight, TerminateAll, BeginTerminate, Terminable
  <2>2. RequestTypes'
    BY DEF RunSettled, RunInFlight, TerminateAll, BeginTerminate, Terminable
  <2>3. CommandTypes'
    BY DEF RunSettled, RunInFlight, TerminateAll, BeginTerminate, Terminable
  <2>4. (bare \intersect Created = {})'
    BY DEF CommandOK, RunSettled, RunInFlight, TerminateAll, BeginTerminate,
       Terminable
  <2> QED BY <2>1, <2>2, <2>3, <2>4
<1>2. CommandOK'
  BY DEF CommandOK, RunSettled, RunInFlight, TerminateAll, BeginTerminate,
     Terminable
<1>3. PromisesOK'
  BY DEF PromisesOK, InFlightSettled, RunSettled, RunInFlight, TerminateAll,
     BeginTerminate, Terminable
<1>4. ContainersOK'
  BY DEF PromisesOK, ContainersOK, Up, RunSettled, RunInFlight,
     TerminateAll, BeginTerminate, Terminable
<1>5. TerminateThaws'
  BY DEF PromisesOK, ContainersOK, TerminateThaws, InFlightSettled, Up,
     RunSettled, RunInFlight, TerminateAll, BeginTerminate, Terminable
<1>6. TeardownOK'
  BY DEF CommandOK, PromisesOK, ContainersOK, TeardownOK, Up, RunSettled,
     RunInFlight, TerminateAll, BeginTerminate, Terminable
<1> QED BY <1>1, <1>2, <1>3, <1>4, <1>5, <1>6

(* All MicroVMs are done; the bare containers are still to be removed.     *)
LEMMA VmsTerminatedInv ==
  ASSUME IInv, VmsTerminated
  PROVE  IInv'
<1>1. TypeOK'
  BY DEF CommandOK, VmsTerminated
<1>2. CommandOK'
  BY DEF CommandOK, VmsTerminated
<1>3. PromisesOK'
  BY DEF PromisesOK, InFlightSettled, VmsTerminated
<1>4. ContainersOK'
  BY DEF PromisesOK, ContainersOK, Up, VmsTerminated
<1>5. TerminateThaws'
  BY DEF PromisesOK, ContainersOK, TerminateThaws, InFlightSettled, Up,
     VmsTerminated
<1>6. TeardownOK'
  BY DEF CommandOK, PromisesOK, ContainersOK, TeardownOK, Up, VmsTerminated
<1> QED BY <1>1, <1>2, <1>3, <1>4, <1>5, <1>6

(* A bare container belongs to no MicroVM, so no state speaks of it.       *)
LEMMA RemoveBareInv ==
  ASSUME IInv, NEW v \in Vms, RemoveBare(v)
  PROVE  IInv'
<1>1. TypeOK'
  BY DEF CommandOK, RemoveBare
<1>2. CommandOK'
  BY DEF CommandOK, RemoveBare
<1>3. PromisesOK'
  BY DEF PromisesOK, InFlightSettled, RemoveBare
<1>4. ContainersOK'
  <2>1. current[v] = "none"  BY DEF RemoveBare, CommandOK
  <2> QED BY <2>1 DEF RemoveBare, ContainersOK, Up
<1>5. TerminateThaws'
  BY DEF PromisesOK, ContainersOK, TerminateThaws, InFlightSettled, Up,
     RemoveBare
<1>6. TeardownOK'
  BY DEF CommandOK, PromisesOK, ContainersOK, TeardownOK, Up, RemoveBare
<1> QED BY <1>1, <1>2, <1>3, <1>4, <1>5, <1>6

(* The process ends with nothing left to remove.                           *)
LEMMA ExitInv ==
  ASSUME IInv, Exit
  PROVE  IInv'
  BY DEF CommandOK, PromisesOK, ContainersOK, TerminateThaws, TeardownOK,
     InFlightSettled, Up, Exit

(* The command has created no MicroVM yet.                                 *)
LEMMA BuiltInv ==
  ASSUME IInv, Built
  PROVE  IInv'
<1>1. TypeOK'
  BY DEF CommandOK, Built, Throws
<1>2. CommandOK'
  BY DEF CommandOK, Built, Throws
<1>3. PromisesOK'
  BY DEF PromisesOK, InFlightSettled, Built, Throws
<1>4. ContainersOK'
  BY DEF PromisesOK, ContainersOK, Up, Built, Throws
<1>5. TerminateThaws'
  BY DEF PromisesOK, ContainersOK, TerminateThaws, InFlightSettled, Up,
     Built, Throws
<1>6. TeardownOK'
  BY DEF CommandOK, PromisesOK, ContainersOK, TeardownOK, Up, Built, Throws
<1> QED BY <1>1, <1>2, <1>3, <1>4, <1>5, <1>6

(* docker run is in flight, behind the back of a teardown if there is one. *)
LEMMA PortsPickedInv ==
  ASSUME IInv, PortsPicked
  PROVE  IInv'
<1>1. TypeOK'
  BY DEF CommandOK, PortsPicked
<1>2. CommandOK'
  BY DEF CommandOK, PortsPicked
<1>3. PromisesOK'
  BY DEF PromisesOK, InFlightSettled, PortsPicked
<1>4. ContainersOK'
  BY DEF PromisesOK, ContainersOK, Up, CommandOK, PortsPicked
<1>5. TerminateThaws'
  BY DEF PromisesOK, ContainersOK, TerminateThaws, InFlightSettled, Up,
     PortsPicked
<1>6. TeardownOK'
  BY DEF CommandOK, PromisesOK, ContainersOK, TeardownOK, Up, PortsPicked
<1> QED BY <1>1, <1>2, <1>3, <1>4, <1>5, <1>6

(* The container is wrapped, or bare if a teardown has begun.              *)
LEMMA RunReturnsInv ==
  ASSUME IInv, RunReturns
  PROVE  IInv'
<1>1. TypeOK'
  <2>1. VmTypes'
    BY DEF RunReturns, Wrapped
  <2>2. RequestTypes'
    BY DEF RunReturns, Wrapped
  <2>3. CommandTypes'
    <3>1. bare' \subseteq Vms  BY DEF RunReturns, Wrapped
    <3>2. main' \in {"booting", "forever"}  BY DEF RunReturns
    <3> QED BY <3>1, <3>2 DEF RunReturns
  <2>4. (bare \intersect Created = {})'
    BY DEF CommandOK, RunReturns, Wrapped
  <2> QED BY <2>1, <2>2, <2>3, <2>4
<1>2. CommandOK'
  BY MicrovmAssumption DEF CommandOK, Vms, RunReturns, Wrapped
<1>3. PromisesOK'
  BY DEF PromisesOK, InFlightSettled, CommandOK, RunReturns, Wrapped
<1>4. ContainersOK'
  BY DEF PromisesOK, ContainersOK, Up, CommandOK, RunReturns, Wrapped
<1>5. TerminateThaws'
  BY DEF PromisesOK, ContainersOK, TerminateThaws, InFlightSettled, Up,
     RunReturns, Wrapped
<1>6. TeardownOK'
  <2>1. CASE teardown = "none"
    BY <2>1 DEF RunReturns, Wrapped, CommandOK, PromisesOK, TeardownOK
  <2>2. CASE teardown # "none"
    <3>1. /\ bare' = bare \union {index} /\ main' = "forever"
          /\ container' = [container EXCEPT ![index] = "running"]
          /\ UNCHANGED <<current, terminating, index, late, downVars>>
      BY <2>2 DEF RunReturns
    <3>2. \A v \in Vms : \/ container'[v] \in {"none", "removed"}
                        \/ current'[v] # "none" \/ v \in bare'
      BY <3>1 DEF TeardownOK
    <3>3. teardown \in {"vms", "bare"} => index \in late
      BY DEF RunReturns, TeardownOK
    <3>4. teardown = "bare" =>
            /\ \A v \in Created : terminating[v] = "done"
            /\ \A v \in bare' \ late :
                 v \in removing \/ container'[v] = "removed"
      BY <3>1, <3>3 DEF TeardownOK
    <3> QED BY <3>1, <3>2, <3>4 DEF TeardownOK
  <2> QED BY <2>1, <2>2
<1> QED BY <1>1, <1>2, <1>3, <1>4, <1>5, <1>6

(* docker run leaves no container.                                         *)
LEMMA RunFailsInv ==
  ASSUME IInv, RunFails
  PROVE  IInv'
<1>1. TypeOK'
  BY DEF CommandOK, RunFails, Throws
<1>2. CommandOK'
  BY DEF CommandOK, RunFails, Throws
<1>3. PromisesOK'
  BY DEF PromisesOK, InFlightSettled, RunFails, Throws
<1>4. ContainersOK'
  BY DEF PromisesOK, ContainersOK, Up, CommandOK, RunFails, Throws
<1>5. TerminateThaws'
  BY DEF PromisesOK, ContainersOK, TerminateThaws, InFlightSettled, Up,
     RunFails, Throws
<1>6. TeardownOK'
  BY DEF CommandOK, PromisesOK, ContainersOK, TeardownOK, Up, RunFails,
     Throws
<1> QED BY <1>1, <1>2, <1>3, <1>4, <1>5, <1>6

(* The MicroVM runs unless a terminate() has come first.                   *)
LEMMA BootEndsInv ==
  ASSUME IInv, BootEnds
  PROVE  IInv'
<1>1. TypeOK'
  <2>1. VmTypes'
    BY DEF BootEnds, Throws, Completes
  <2>2. RequestTypes'
    BY DEF BootEnds, Throws, Completes
  <2>3. CommandTypes'
    BY DEF BootEnds, Throws, Completes
  <2>4. (bare \intersect Created = {})'
    BY DEF CommandOK, BootEnds, Throws, Completes
  <2> QED BY <2>1, <2>2, <2>3, <2>4
<1>2. CommandOK'
  BY DEF CommandOK, BootEnds, Throws, Completes
<1>3. PromisesOK'
  BY DEF PromisesOK, InFlightSettled, BootEnds, Throws, Completes
<1>4. ContainersOK'
  BY DEF PromisesOK, ContainersOK, Up, BootEnds, Throws, Completes
<1>5. TerminateThaws'
  BY DEF PromisesOK, ContainersOK, TerminateThaws, InFlightSettled, Up,
     BootEnds, Throws, Completes
<1>6. TeardownOK'
  BY DEF CommandOK, PromisesOK, ContainersOK, TeardownOK, Up, BootEnds,
     Throws, Completes
<1> QED BY <1>1, <1>2, <1>3, <1>4, <1>5, <1>6

(* The next MicroVM has not been created.                                  *)
LEMMA ListensInv ==
  ASSUME IInv, Listens
  PROVE  IInv'
<1>1. TypeOK'
  <2>1. VmTypes'
    BY DEF Listens
  <2>2. RequestTypes'
    BY DEF Listens
  <2>3. CommandTypes'
    <3>1. index' \in Vms  BY MicrovmAssumption DEF Listens, Vms
    <3>2. doors' \subseteq Vms  BY DEF Listens
    <3>3. allTerminated' \in BOOLEAN  BY DEF Listens
    <3> QED BY <3>1, <3>2, <3>3 DEF Listens
  <2>4. (bare \intersect Created = {})'
    BY DEF CommandOK, Listens
  <2> QED BY <2>1, <2>2, <2>3, <2>4
<1>2. CommandOK'
  BY MicrovmAssumption DEF CommandOK, Vms, Listens
<1>3. PromisesOK'
  BY DEF PromisesOK, InFlightSettled, Listens
<1>4. ContainersOK'
  BY DEF PromisesOK, ContainersOK, Up, Listens
<1>5. TerminateThaws'
  BY DEF PromisesOK, ContainersOK, TerminateThaws, InFlightSettled, Up,
     Listens
<1>6. TeardownOK'
  BY DEF CommandOK, PromisesOK, ContainersOK, TeardownOK, Up, Listens
<1> QED BY <1>1, <1>2, <1>3, <1>4, <1>5, <1>6

(* Only what the command awaits changes.                                   *)
LEMMA ListenFailsInv ==
  ASSUME IInv, ListenFails
  PROVE  IInv'
  BY DEF CommandOK, PromisesOK, ContainersOK, TerminateThaws, TeardownOK,
     InFlightSettled, Up, ListenFails, Throws

(* Only what the command awaits changes.                                   *)
LEMMA ExitReportedInv ==
  ASSUME IInv, ExitReported
  PROVE  IInv'
  BY DEF CommandOK, PromisesOK, ContainersOK, TerminateThaws, TeardownOK,
     InFlightSettled, Up, ExitReported, Throws

(* As for a signal.                                                        *)
LEMMA TearsDownInv ==
  ASSUME IInv, TearsDown
  PROVE  IInv'
<1>1. TypeOK'
  <2>1. VmTypes'
    <3>1. CASE UNCHANGED <<current, terminating, wasBooting>>
      BY <3>1 DEF TearsDown
    <3>2. CASE TerminateAll
      BY <3>2 DEF TearsDown, TerminateAll, BeginTerminate
    <3> QED BY <3>1, <3>2 DEF TearsDown, BeginTeardown
  <2>2. RequestTypes'
    BY DEF TearsDown, BeginTeardown, RunInFlight, TerminateAll,
       BeginTerminate, Terminable
  <2>3. CommandTypes'
    BY DEF TearsDown, BeginTeardown, RunInFlight, TerminateAll,
       BeginTerminate, Terminable
  <2>4. (bare \intersect Created = {})'
    BY DEF CommandOK, TearsDown, BeginTeardown, RunInFlight, TerminateAll,
       BeginTerminate, Terminable
  <2> QED BY <2>1, <2>2, <2>3, <2>4
<1>2. CommandOK'
  BY DEF CommandOK, TearsDown, BeginTeardown, RunInFlight, TerminateAll,
     BeginTerminate, Terminable
<1>3. PromisesOK'
  BY DEF PromisesOK, InFlightSettled, TearsDown, BeginTeardown, RunInFlight,
     TerminateAll, BeginTerminate, Terminable
<1>4. ContainersOK'
  BY DEF PromisesOK, ContainersOK, Up, TearsDown, BeginTeardown,
     RunInFlight, TerminateAll, BeginTerminate, Terminable
<1>5. TerminateThaws'
  BY DEF PromisesOK, ContainersOK, TerminateThaws, InFlightSettled, Up,
     TearsDown, BeginTeardown, RunInFlight, TerminateAll, BeginTerminate,
     Terminable
<1>6. TeardownOK'
  BY DEF CommandOK, PromisesOK, ContainersOK, TeardownOK, Up, TearsDown,
     BeginTeardown, RunInFlight, TerminateAll, BeginTerminate, Terminable
<1> QED BY <1>1, <1>2, <1>3, <1>4, <1>5, <1>6

-----------------------------------------------------------------------------
(* Nothing has been created.                                               *)
LEMMA InitInv == Init => IInv
<1> SUFFICES ASSUME Init PROVE IInv
  OBVIOUS
<1> USE DEF Init
<1>1. 0 \in Vms
  BY MicrovmAssumption DEF Vms
<1>2. VmTypes /\ RequestTypes
  BY <1>1
<1>3. CommandTypes /\ bare \intersect Created = {}
  <2>1. crashes \in 0 .. MaxCrashes
    BY MicrovmAssumption
  <2> QED BY <1>1, <2>1
<1>4. CommandOK
  BY <1>1 DEF CommandOK
<1>5. PromisesOK
  BY DEF PromisesOK
<1>6. ContainersOK /\ TerminateThaws /\ TeardownOK
  BY DEF ContainersOK, TerminateThaws, TeardownOK
<1> QED BY <1>2, <1>3, <1>4, <1>5, <1>6

(* Every step preserves the invariant: one lemma per action.               *)
LEMMA NextInv == IInv /\ [Next]_vars => IInv'
<1> SUFFICES ASSUME IInv, [Next]_vars PROVE IInv'
  OBVIOUS
<1>1. CASE UNCHANGED vars
  BY <1>1 DEF vars, CommandOK, PromisesOK, ContainersOK, TerminateThaws,
     TeardownOK, InFlightSettled
<1>2. ASSUME NEW v \in Vms, SuspendStep(v) PROVE IInv'
  BY <1>2, SuspendHookAnswersInv, PauseSucceedsInv, SuspendFailsInv
     DEF SuspendStep
<1>3. ASSUME NEW v \in Vms, ResumeStep(v) PROVE IInv'
  BY <1>3, UnpauseSucceedsInv, ResumeHookAnswersInv, ResumeHookFailsInv,
     ResumeFailsInv DEF ResumeStep
<1>4. ASSUME NEW v \in Vms, TerminateStep(v) PROVE IInv'
  BY <1>4, TerminateGoesOnInv, TerminateUnpausesInv, TerminateHookEndsInv,
     RemovedInv DEF TerminateStep
<1>5. CASE TeardownStep
  BY <1>5, RunSettledInv, VmsTerminatedInv, ExitInv, RemoveBareInv
     DEF TeardownStep
<1>6. CASE CommandStep
  BY <1>6, BuiltInv, PortsPickedInv, RunReturnsInv, RunFailsInv, BootEndsInv,
     ListensInv, ListenFailsInv, ExitReportedInv, TearsDownInv DEF CommandStep
<1> QED
  BY <1>1, <1>2, <1>3, <1>4, <1>5, <1>6, ArriveInv, SuspendInv, TerminateInv,
     CrashInv, ExitSeenInv, SignalInv, SecondSignalInv DEF Next

(* The inductive invariant holds in every reachable state.                 *)
THEOREM MicrovmInductive == Spec => []IInv
<1> QED BY InitInv, NextInv, PTL DEF Spec

(* The MicroVMs and the command keep their shape, and bareContainers and   *)
(* vms share no container, for any --count.                                *)
THEOREM MicrovmTypeCorrect == Spec => []TypeOK
<1>1. IInv => TypeOK
  OBVIOUS
<1> QED BY <1>1, MicrovmInductive, PTL

(* No /terminate hook of LocalMicrovm.terminate() is called on a paused    *)
(* container that docker could unpause, whatever was in flight.            *)
THEOREM MicrovmTerminateThaws == Spec => []TerminateThaws
<1>1. IInv => TerminateThaws
  OBVIOUS
<1> QED BY <1>1, MicrovmInductive, PTL

(* The state of a MicroVM tells what docker has: a running one is not      *)
(* paused, a suspended one is (unless docker refused), a terminated one is *)
(* removed.                                                                *)
THEOREM MicrovmStateMatches == Spec => []StateMatchesContainer
<1>1. IInv => StateMatchesContainer
  BY DEF ContainersOK, StateMatchesContainer, Up
<1> QED BY <1>1, MicrovmInductive, PTL

(* When the command ends, no container is left but for those whose docker  *)
(* run was called behind the teardown's back and those the user gave up    *)
(* on.                                                                     *)
THEOREM MicrovmCleanExit == Spec => []CleanExit
<1>1. ASSUME IInv, exited, ~abandoned, NEW v \in Vms \ late
      PROVE  container[v] \in {"none", "removed"}
  <2>1. teardown = "bare" /\ removing = {}
    BY <1>1 DEF TeardownOK
  <2>2. current[v] # "none" => container[v] = "removed"
    BY <1>1, <2>1 DEF TeardownOK, PromisesOK, ContainersOK
  <2>3. v \in bare => container[v] = "removed"
    BY <1>1, <2>1 DEF TeardownOK
  <2>4. ~(v = index /\ main = "running")
    BY <1>1, <2>1 DEF TeardownOK
  <2> QED BY <1>1, <2>2, <2>3, <2>4 DEF TeardownOK
<1>2. IInv => CleanExit
  BY <1>1 DEF CleanExit
<1> QED BY <1>2, MicrovmInductive, PTL

(* What terminate() has taken stays taken. *)
Keeps(w) ==
  /\ current[w] = "terminating" => current'[w] \in Gone
  /\ current[w] = "terminated" => current'[w] = "terminated"

(* No step takes the state away from terminate().                          *)
LEMMA StepKeeps ==
  ASSUME IInv, [Next]_vars, NEW w \in Vms
  PROVE  Keeps(w)
<1> USE DEF Keeps
<1>1. CASE UNCHANGED current
  BY <1>1
<1>2. ASSUME NEW r \in Requests, NEW v \in Vms, Arrive(r, v) PROVE Keeps(w)
  BY <1>2 DEF Arrive
<1>3. ASSUME NEW v \in Vms, Suspend(v) PROVE Keeps(w)
  BY <1>3 DEF Suspend
<1>4. ASSUME NEW v \in Vms, SuspendStep(v) PROVE Keeps(w)
  BY <1>4 DEF SuspendStep, SuspendHookAnswers, PauseSucceeds, SuspendFails,
     Completes
<1>5. ASSUME NEW v \in Vms, ResumeStep(v) PROVE Keeps(w)
  BY <1>5 DEF ResumeStep, UnpauseSucceeds, ResumeHookAnswers, ResumeHookFails,
     ResumeFails, Completes
<1>6. ASSUME NEW v \in Vms, Terminate(v) PROVE Keeps(w)
  BY <1>6 DEF Terminate, BeginTerminate, Terminable, PromisesOK
<1>7. ASSUME NEW v \in Vms, TerminateStep(v) PROVE Keeps(w)
  BY <1>7 DEF TerminateStep, TerminateGoesOn, TerminateUnpauses,
     TerminateHookEnds, Removed
<1>8. CASE TerminateAll
  BY <1>8 DEF TerminateAll, BeginTerminate, Terminable, PromisesOK
<1>9. CASE RunReturns
  BY <1>9 DEF RunReturns, CommandOK
<1>10. CASE BootEnds
  BY <1>10 DEF BootEnds, Completes
<1>11. CASE UNCHANGED vars
  BY <1>1, <1>11 DEF vars
<1>12. CASE TeardownStep
  BY <1>1, <1>8, <1>12 DEF TeardownStep, RunSettled, VmsTerminated, Exit,
     RemoveBare
<1>13. CASE CommandStep
  <2>1. CASE TearsDown
    BY <1>1, <1>8, <2>1 DEF TearsDown, BeginTeardown
  <2> QED
    BY <1>1, <1>9, <1>10, <1>13, <2>1 DEF CommandStep, Built, PortsPicked,
       RunFails, Listens, ListenFails, ExitReported, Throws
<1>14. CASE Signal
  BY <1>1, <1>8, <1>14 DEF Signal, BeginTeardown
<1>15. ASSUME NEW v \in Vms, Crash(v) \/ ExitSeen(v) \/ SecondSignal
       PROVE  Keeps(w)
  BY <1>1, <1>15 DEF Crash, ExitSeen, SecondSignal
<1> QED
  BY <1>2, <1>3, <1>4, <1>5, <1>6, <1>7, <1>11, <1>12, <1>13, <1>14, <1>15
     DEF Next

(* Once terminate() has taken a MicroVM's state, no boot, suspend or       *)
(* resume that ends later brings it back.                                  *)
THEOREM MicrovmTerminationFinal == Spec => TerminationIsFinal
<1>1. IInv /\ [Next]_vars => [\A v \in Vms : Keeps(v)]_vars
  BY StepKeeps
<1>2. [\A v \in Vms : Keeps(v)]_vars =>
        [\A v \in Vms :
           /\ current[v] = "terminating" => current'[v] \in Gone
           /\ current[v] = "terminated" => current'[v] = "terminated"]_vars
  BY DEF Keeps
<1> QED BY <1>1, <1>2, MicrovmInductive, PTL DEF Spec, TerminationIsFinal

(* allTerminated is true of all MicroVMs, also those it had yet to boot. *)
EndOK ==
  /\ main = "failing" => failed
  /\ allTerminated \/ (teardown # "none" /\ ~shuttingDown /\ ~failed) =>
       \A v \in Vms : current[v] = "terminated"

(* The command's own end is announced by the last of --count terminations, *)
(* or it follows a signal or a failure.                                    *)
LEMMA NextEnd ==
  ASSUME IInv, EndOK, [Next]_vars
  PROVE  EndOK'
<1> DEFINE Over == \A v \in Vms : current[v] = "terminated"
<1>1. Over => Over'
  BY StepKeeps DEF Keeps
<1> USE DEF EndOK
<1>2. CASE UNCHANGED <<main, failed, allTerminated, teardown, shuttingDown>>
  BY <1>1, <1>2
<1>3. ASSUME NEW v \in Vms, Removed(v) PROVE EndOK'
  BY <1>1, <1>3 DEF Removed, AllBooted
<1>4. CASE Signal
  BY <1>1, <1>4 DEF Signal
<1>5. CASE RunSettled \/ VmsTerminated
  BY <1>1, <1>5 DEF RunSettled, VmsTerminated
<1>6. CASE CommandStep
  <2>1. CASE Throws /\ UNCHANGED <<allTerminated, downVars>>
    BY <1>1, <2>1 DEF Throws
  <2>2. CASE Built \/ RunFails \/ ListenFails \/ ExitReported \/ BootEnds
    <3>1. CASE /\ main' # "failing"
               /\ UNCHANGED <<failed, allTerminated, downVars>>
      BY <1>1, <3>1
    <3> QED
      BY <2>1, <2>2, <3>1
      DEF Built, RunFails, ListenFails, ExitReported, BootEnds
  <2>3. CASE PortsPicked \/ RunReturns
    BY <1>1, <2>3 DEF PortsPicked, RunReturns
  <2>4. CASE Listens
    BY <1>1, <2>4 DEF Listens
  <2>5. CASE TearsDown
    BY <1>1, <2>5 DEF TearsDown, BeginTeardown
  <2> QED BY <1>6, <2>2, <2>3, <2>4, <2>5 DEF CommandStep
<1> QED
  BY <1>2, <1>3, <1>4, <1>5, <1>6
  DEF Next, vars, Arrive, Suspend, SuspendStep, SuspendHookAnswers,
      PauseSucceeds, SuspendFails, ResumeStep, UnpauseSucceeds,
      ResumeHookAnswers, ResumeHookFails, ResumeFails, Terminate,
      TerminateStep, TerminateGoesOn, TerminateUnpauses, TerminateHookEnds,
      Crash, ExitSeen, SecondSignal, TeardownStep, RemoveBare, Exit

(* Without a signal or a failure the teardown begins only when every one   *)
(* of --count MicroVMs has been terminated.                                *)
THEOREM MicrovmEndsOnlyWhenDone == Spec => []EndsOnlyWhenDone
<1>1. Init => EndOK
  BY DEF Init, EndOK
<1>2. IInv /\ EndOK /\ [Next]_vars => EndOK'
  BY NextEnd
<1>3. IInv /\ EndOK => EndsOnlyWhenDone
  BY DEF EndOK, EndsOnlyWhenDone, ContainersOK
<1> QED BY <1>1, <1>2, <1>3, MicrovmInductive, PTL DEF Spec

(* However suspends, resumes and terminations meet or fail, the containers  *)
(* are what the states say and what the hooks need.                         *)
THEOREM MicrovmContainersFollow == Spec => []ContainersFollow
<1>1. StateMatchesContainer /\ TerminateThaws => ContainersFollow
  BY DEF ContainersFollow
<1> QED BY <1>1, MicrovmStateMatches, MicrovmTerminateThaws, PTL

(* The command ends only when it should, and leaves no container behind.    *)
THEOREM MicrovmEndsCleanly == Spec => []EndsCleanly
<1>1. CleanExit /\ EndsOnlyWhenDone => EndsCleanly
  BY DEF EndsCleanly
<1> QED BY <1>1, MicrovmCleanExit, MicrovmEndsOnlyWhenDone, PTL

=============================================================================
