---------------------------- MODULE StartMicrovm ----------------------------
(***************************************************************************)
(* `cdkl start-microvm`: the command of                                    *)
(* src/src/cli/commands/local-start-microvm.ts that boots --count MicroVMs *)
(* one after another and tears them down, the lifecycle of each one        *)
(* (LocalMicrovm, src/src/local/microvm-runner.ts) and the admission of    *)
(* requests at its front door (src/src/local/microvm-front-door.ts).       *)
(*                                                                         *)
(* An action is what one promise chain runs between two awaits.  A hook    *)
(* that is not enabled is one that answers.  A request for traffic with    *)
(* --auto-resume and a POST to /resume are alike; what is forwarded is not *)
(* followed further.  `docker rm` is assumed to succeed.                   *)
(***************************************************************************)
EXTENDS Naturals, FiniteSets

CONSTANTS
  Count,       (* --count                                          *)
  Requests,    (* requests at the front doors, each made once      *)
  MaxCrashes   (* bound: containers that exit by themselves        *)

ASSUME MicrovmAssumption == Count \in Nat \ {0} /\ MaxCrashes \in Nat

Vms == 0 .. Count - 1

VARIABLES
  current,      (* LocalMicrovm.current, "none" before it is created        *)
  paused,       (* LocalMicrovm.paused                                      *)
  suspending,   (* what a suspend() in flight awaits                        *)
  resuming,     (* what a resume() in flight awaits                         *)
  terminating,  (* what terminate() awaits                                  *)
  wasBooting,   (* terminate() found the MicroVM booting                    *)
  container,    (* the container of each MicroVM                            *)
  request, to,  (* what each request awaits, and its MicroVM                *)
  main,         (* what the command awaits                                  *)
  index,        (* the MicroVM it boots                                     *)
  bare,         (* bareContainers                                           *)
  doors,        (* frontDoors                                               *)
  allTerminated, unexpectedExit, (* the promises the command races          *)
  shuttingDown,
  teardown,     (* what the one teardown awaits                             *)
  removing,     (* the bare containers it removes                           *)
  exited,       (* the process has ended                                    *)
  crashes,      (* bounded counter                                          *)
  abandoned,    (* history: a second signal cut a `docker run` short        *)
  failed,       (* history: the command failed                              *)
  late,         (* history: `docker run` was called after the teardown began*)
  stuck         (* history: `docker pause` or `unpause` failed when undoing *)

vmVars   == <<current, paused, suspending, resuming, terminating, wasBooting>>
reqVars  == <<request, to>>
mainVars == <<main, index, bare, doors, unexpectedExit, failed, late>>
downVars == <<shuttingDown, teardown, removing, exited, abandoned>>
vars == <<vmVars, container, reqVars, mainVars, allTerminated, downVars, crashes,
          stuck>>

Created == {v \in Vms : current[v] # "none"}
Gone == {"terminating", "terminated"}

Init ==
  /\ current = [v \in Vms |-> "none"]
  /\ paused = [v \in Vms |-> FALSE]
  /\ suspending = [v \in Vms |-> "none"]
  /\ resuming = [v \in Vms |-> "none"]
  /\ terminating = [v \in Vms |-> "none"]
  /\ wasBooting = [v \in Vms |-> FALSE]
  /\ container = [v \in Vms |-> "none"]
  /\ request = [r \in Requests |-> "new"]
  /\ to = [r \in Requests |-> 0]
  /\ main = "building" /\ index = 0
  /\ bare = {} /\ doors = {}
  /\ allTerminated = FALSE /\ unexpectedExit = FALSE
  /\ shuttingDown = FALSE /\ teardown = "none" /\ removing = {}
  /\ exited = FALSE /\ crashes = 0
  /\ abandoned = FALSE /\ failed = FALSE /\ late = {} /\ stuck = {}

-----------------------------------------------------------------------------
(* admit: what a request gets                                               *)

Verdict(state) == IF state = "running" THEN "forwarded" ELSE "refused"

Waiting(v, what) == {r \in Requests : request[r] = what /\ to[r] = v}

Answer(rs, verdict) ==
  request' = [r \in Requests |-> IF r \in rs THEN verdict ELSE request[r]]

(* Mutation: a resume that fails forgets the requests that share it. *)
ForgetsWaiters(v) ==
  IF resuming[v] = "hook" THEN Waiting(v, "resuming") ELSE {}

(* Everyone who awaits this.resuming. *)
ResumeWaiters(v) == Waiting(v, "resuming")

(* Traffic is turned away without --auto-resume, unless the MicroVM runs.   *)
(* With it, and for a POST to /resume, a resume in flight is shared, a      *)
(* suspend in flight is waited for.                                         *)
Arrive(r, v) ==
  /\ request[r] = "new" /\ v \in doors
  /\ to' = [to EXCEPT ![r] = v]
  /\ \/ /\ request' = [request EXCEPT ![r] = Verdict(current[v])]
        /\ UNCHANGED <<current, resuming>>
     \/ /\ resuming[v] # "none" /\ current[v] = "resuming"
        /\ request' = [request EXCEPT ![r] = "resuming"]
        /\ UNCHANGED <<current, resuming>>
     \/ /\ suspending[v] # "none" /\ current[v] = "suspending"
        /\ request' = [request EXCEPT ![r] = "chained"]
        /\ UNCHANGED <<current, resuming>>
     \/ /\ current[v] = "suspended"
        /\ request' = [request EXCEPT ![r] = "resuming"]
        /\ current' = [current EXCEPT ![v] = "resuming"]
        /\ resuming' = [resuming EXCEPT ![v] = "unpausing"]
  /\ UNCHANGED <<paused, suspending, terminating, wasBooting, container,
                 mainVars, allTerminated, downVars, crashes, stuck>>

-----------------------------------------------------------------------------
(* suspend and resume                                                       *)

Suspend(v) ==
  /\ v \in doors /\ current[v] = "running"
  /\ current' = [current EXCEPT ![v] = "suspending"]
  /\ suspending' = [suspending EXCEPT ![v] = "hook"]
  /\ UNCHANGED <<paused, resuming, terminating, wasBooting, container, reqVars,
                 mainVars, allTerminated, downVars, crashes, stuck>>

SuspendHookAnswers(v) ==
  /\ suspending[v] = "hook"
  /\ suspending' = [suspending EXCEPT ![v] = "pausing"]
  /\ UNCHANGED <<current, paused, resuming, terminating, wasBooting, container,
                 reqVars, mainVars, allTerminated, downVars, crashes, stuck>>

(* Mutation: the completion overwrites a terminate() that began meanwhile. *)
Overwrites(v, from, next) == next

(* "Every state write on completion is guarded." *)
Completes(v, from, next) == IF current[v] = from THEN next ELSE current[v]

(* A resume asked for meanwhile starts now, if there is something to resume.*)
PauseSucceeds(v) ==
  /\ suspending[v] = "pausing" /\ container[v] = "running"
  /\ container' = [container EXCEPT ![v] = "paused"]
  /\ paused' = [paused EXCEPT ![v] = TRUE]
  /\ suspending' = [suspending EXCEPT ![v] = "none"]
  /\ LET next  == Completes(v, "suspending", "suspended")
         again == next = "suspended" /\ Waiting(v, "chained") # {}
     IN /\ current' = [current EXCEPT ![v] = IF again THEN "resuming" ELSE next]
        /\ resuming' = [resuming EXCEPT ![v] = IF again THEN "unpausing" ELSE @]
        /\ Answer(Waiting(v, "chained"), IF again THEN "resuming" ELSE "refused")
  /\ UNCHANGED <<terminating, wasBooting, to, mainVars, allTerminated, downVars,
                 crashes, stuck>>

(* The hook or docker fails: the MicroVM runs on. *)
SuspendFails(v) ==
  /\ suspending[v] \in {"hook", "pausing"}
  /\ suspending' = [suspending EXCEPT ![v] = "none"]
  /\ LET next == Completes(v, "suspending", "running")
     IN /\ current' = [current EXCEPT ![v] = next]
        /\ Answer(Waiting(v, "chained"), Verdict(next))
  /\ UNCHANGED <<paused, resuming, terminating, wasBooting, container, to,
                 mainVars, allTerminated, downVars, crashes, stuck>>

Unpauses(v) ==
  /\ container[v] = "paused"
  /\ container' = [container EXCEPT ![v] = "running"]
  /\ paused' = [paused EXCEPT ![v] = FALSE]

UnpauseSucceeds(v) ==
  /\ resuming[v] = "unpausing"
  /\ Unpauses(v)
  /\ resuming' = [resuming EXCEPT ![v] = "hook"]
  /\ UNCHANGED <<current, suspending, terminating, wasBooting, reqVars, mainVars,
                 allTerminated, downVars, crashes, stuck>>

ResumeHookAnswers(v) ==
  /\ resuming[v] = "hook"
  /\ resuming' = [resuming EXCEPT ![v] = "none"]
  /\ LET next == Completes(v, "resuming", "running")
     IN /\ current' = [current EXCEPT ![v] = next]
        /\ Answer(ResumeWaiters(v), Verdict(next))
  /\ UNCHANGED <<paused, suspending, terminating, wasBooting, container, to,
                 mainVars, allTerminated, downVars, crashes, stuck>>

(* Mutation: a failed /resume leaves the container running. *)
NeverRepauses(v) == FALSE

Repauses(v) == current[v] = "resuming"

ResumeHookFails(v) ==
  /\ resuming[v] = "hook" /\ Repauses(v)
  /\ resuming' = [resuming EXCEPT ![v] = "repausing"]
  /\ UNCHANGED <<current, paused, suspending, terminating, wasBooting, container,
                 reqVars, mainVars, allTerminated, downVars, crashes, stuck>>

(* resume() throws: docker unpause failed, /resume failed under a           *)
(* terminate(), or the container is paused again, as far as docker does it. *)
ResumeFails(v) ==
  /\ \/ /\ resuming[v] = "unpausing" \/ (resuming[v] = "hook" /\ ~Repauses(v))
        /\ UNCHANGED <<container, paused, stuck>>
     \/ /\ resuming[v] = "repausing" /\ container[v] = "running"
        /\ container' = [container EXCEPT ![v] = "paused"]
        /\ paused' = [paused EXCEPT ![v] = TRUE]
        /\ UNCHANGED stuck
     \/ /\ resuming[v] = "repausing"
        /\ stuck' = stuck \union {v}
        /\ UNCHANGED <<container, paused>>
  /\ resuming' = [resuming EXCEPT ![v] = "none"]
  /\ current' = [current EXCEPT ![v] = Completes(v, "resuming", "suspended")]
  /\ Answer(ResumeWaiters(v), "refused")
  /\ UNCHANGED <<suspending, terminating, wasBooting, to, mainVars,
                 allTerminated, downVars, crashes>>

-----------------------------------------------------------------------------
(* terminate                                                                *)

(* this.terminating ??= ...: the first call counts, the others await it. *)
Terminable(v) == current[v] # "none" /\ terminating[v] = "none"

BeginTerminate(vs) ==
  /\ wasBooting' = [v \in Vms |->
                      IF v \in vs THEN current[v] = "booting" ELSE wasBooting[v]]
  /\ current' = [v \in Vms |-> IF v \in vs THEN "terminating" ELSE current[v]]
  /\ terminating' = [v \in Vms |-> IF v \in vs THEN "waiting" ELSE terminating[v]]

TerminateAll == BeginTerminate({v \in Vms : Terminable(v)})

(* POST /terminate. *)
Terminate(v) ==
  /\ v \in doors /\ Terminable(v)
  /\ BeginTerminate({v})
  /\ UNCHANGED <<paused, suspending, resuming, container, reqVars, mainVars,
                 allTerminated, downVars, crashes, stuck>>

InFlightSettled(v) == suspending[v] = "none" /\ resuming[v] = "none"

TerminateGoesOn(v) ==
  /\ terminating[v] = "waiting" /\ InFlightSettled(v)
  /\ terminating' = [terminating EXCEPT ![v] =
       IF paused[v] THEN "unpausing"
       ELSE IF wasBooting[v] THEN "removing" ELSE "hook"]
  /\ UNCHANGED <<current, paused, suspending, resuming, wasBooting, container,
                 reqVars, mainVars, allTerminated, downVars, crashes, stuck>>

(* A failing docker unpause is swallowed. *)
TerminateUnpauses(v) ==
  /\ terminating[v] = "unpausing"
  /\ \/ Unpauses(v) /\ UNCHANGED stuck
     \/ stuck' = stuck \union {v} /\ UNCHANGED <<container, paused>>
  /\ terminating' = [terminating EXCEPT ![v] =
       IF wasBooting[v] THEN "removing" ELSE "hook"]
  /\ UNCHANGED <<current, suspending, resuming, wasBooting, reqVars, mainVars,
                 allTerminated, downVars, crashes>>

(* The /terminate hook answers, fails or times out. *)
TerminateHookEnds(v) ==
  /\ terminating[v] = "hook"
  /\ terminating' = [terminating EXCEPT ![v] = "removing"]
  /\ UNCHANGED <<current, paused, suspending, resuming, wasBooting, container,
                 reqVars, mainVars, allTerminated, downVars, crashes, stuck>>

(* vms.length === options.count *)
AllBooted == Created = Vms

(* The container is gone; onTerminated looks whether it was the last one. *)
Removed(v) ==
  /\ terminating[v] = "removing"
  /\ terminating' = [terminating EXCEPT ![v] = "done"]
  /\ container' = [container EXCEPT ![v] = "removed"]
  /\ current' = [current EXCEPT ![v] = "terminated"]
  /\ allTerminated' =
       (allTerminated \/ (AllBooted /\ \A w \in Created : current'[w] = "terminated"))
  /\ UNCHANGED <<paused, suspending, resuming, wasBooting, reqVars, mainVars,
                 downVars, crashes, stuck>>

(* A container exits by itself. *)
Crash(v) ==
  /\ crashes < MaxCrashes
  /\ container[v] = "running"
  /\ container' = [container EXCEPT ![v] = "exited"]
  /\ crashes' = crashes + 1
  /\ UNCHANGED <<vmVars, reqVars, mainVars, allTerminated, downVars, stuck>>

(* `docker wait` answers, unless the teardown has stopped the watch. *)
ExitSeen(v) ==
  /\ container[v] = "exited" /\ v \in Created /\ ~unexpectedExit
  /\ teardown = "none" /\ current[v] \notin Gone
  /\ unexpectedExit' = TRUE
  /\ UNCHANGED <<vmVars, container, reqVars, main, index, bare, doors, failed,
                 late, allTerminated, downVars, crashes, stuck>>

-----------------------------------------------------------------------------
(* doTeardown: one for all its callers                                      *)

(* Mutation: a `docker run` in flight is not waited for. *)
NoRunInFlight == FALSE

RunInFlight == main = "running"

BeginTeardown ==
  IF teardown # "none"
  THEN UNCHANGED <<teardown, current, terminating, wasBooting>>
  ELSE IF RunInFlight
       THEN teardown' = "run" /\ UNCHANGED <<current, terminating, wasBooting>>
       ELSE teardown' = "vms" /\ TerminateAll

RunSettled ==
  /\ teardown = "run" /\ ~RunInFlight
  /\ teardown' = "vms"
  /\ TerminateAll
  /\ UNCHANGED <<paused, suspending, resuming, container, reqVars, mainVars,
                 allTerminated, shuttingDown, removing, exited, abandoned,
                 crashes, stuck>>

VmsTerminated ==
  /\ teardown = "vms"
  /\ \A v \in Created : terminating[v] = "done"
  /\ teardown' = "bare"
  /\ removing' = bare \ Created
  /\ UNCHANGED <<vmVars, container, reqVars, mainVars, allTerminated,
                 shuttingDown, exited, abandoned, crashes, stuck>>

RemoveBare(v) ==
  /\ v \in removing
  /\ removing' = removing \ {v}
  /\ container' = [container EXCEPT ![v] = "removed"]
  /\ UNCHANGED <<vmVars, reqVars, mainVars, allTerminated, shuttingDown,
                 teardown, exited, abandoned, crashes, stuck>>

(* The front doors close, in bounded time; then every caller of teardown()  *)
(* ends the process.                                                        *)
Exit ==
  /\ teardown = "bare" /\ removing = {}
  /\ exited' = TRUE
  /\ UNCHANGED <<vmVars, container, reqVars, mainVars, allTerminated,
                 shuttingDown, teardown, removing, abandoned, crashes, stuck>>

Signal ==
  /\ ~shuttingDown
  /\ shuttingDown' = TRUE
  /\ BeginTeardown
  /\ UNCHANGED <<paused, suspending, resuming, container, reqVars, mainVars,
                 allTerminated, removing, exited, abandoned, crashes, stuck>>

(* A second signal gives up on a `docker run` that does not return. *)
SecondSignal ==
  /\ shuttingDown /\ teardown = "run" /\ RunInFlight
  /\ exited' = TRUE /\ abandoned' = TRUE
  /\ UNCHANGED <<vmVars, container, reqVars, mainVars, allTerminated,
                 shuttingDown, teardown, removing, crashes, stuck>>

-----------------------------------------------------------------------------
(* localStartMicrovmCommand                                                 *)

(* The catch clause: after a signal the command only waits for the exit.    *)
Throws ==
  /\ main' = IF shuttingDown THEN "forever" ELSE "failing"
  /\ failed' = (failed \/ ~shuttingDown)

Built ==
  /\ main = "building"
  /\ \/ /\ main' = IF teardown = "none" THEN "ports" ELSE "forever"
        /\ UNCHANGED failed
     \/ Throws
  /\ UNCHANGED <<vmVars, container, reqVars, index, bare, doors, unexpectedExit,
                 late, allTerminated, downVars, crashes, stuck>>

(* The free ports are there: `docker run` is called, teardown or not. *)
PortsPicked ==
  /\ main = "ports"
  /\ main' = "running"
  /\ container' = [container EXCEPT ![index] = "starting"]
  /\ late' = IF teardown = "none" THEN late ELSE late \union {index}
  /\ UNCHANGED <<vmVars, reqVars, index, bare, doors, unexpectedExit, failed,
                 allTerminated, downVars, crashes, stuck>>

(* Mutation: a wrapped container stays in bareContainers. *)
KeepsBare == bare \union {index}

(* bareContainers once the container is wrapped. *)
Wrapped == bare

RunReturns ==
  /\ main = "running"
  /\ container' = [container EXCEPT ![index] = "running"]
  /\ IF teardown = "none"
     THEN /\ main' = "booting" /\ bare' = Wrapped
          /\ current' = [current EXCEPT ![index] = "booting"]
     ELSE /\ main' = "forever" /\ bare' = bare \union {index}
          /\ UNCHANGED current
  /\ UNCHANGED <<paused, suspending, resuming, terminating, wasBooting, reqVars,
                 index, doors, unexpectedExit, failed, late, allTerminated,
                 downVars, crashes, stuck>>

RunFails ==
  /\ main = "running"
  /\ container' = [container EXCEPT ![index] = "none"]
  /\ Throws
  /\ UNCHANGED <<vmVars, reqVars, index, bare, doors, unexpectedExit, late,
                 allTerminated, downVars, crashes, stuck>>

(* /ready, /validate and /run have answered, or one has failed. *)
BootEnds ==
  /\ main = "booting"
  /\ \/ /\ container[index] = "running"
        /\ current' = [current EXCEPT ![index] =
                         Completes(index, "booting", "running")]
        /\ main' = IF teardown = "none" THEN "listening" ELSE "forever"
        /\ UNCHANGED failed
     \/ Throws /\ UNCHANGED current
  /\ UNCHANGED <<paused, suspending, resuming, terminating, wasBooting,
                 container, reqVars, index, bare, doors, unexpectedExit, late,
                 allTerminated, downVars, crashes, stuck>>

Listens ==
  /\ main = "listening"
  /\ doors' = doors \union {index}
  /\ IF index + 1 < Count
     THEN main' = "ports" /\ index' = index + 1 /\ UNCHANGED allTerminated
     ELSE /\ main' = "serving" /\ UNCHANGED index
          /\ allTerminated' =
               (allTerminated \/ \A v \in Vms : current[v] = "terminated")
  /\ UNCHANGED <<vmVars, container, reqVars, bare, unexpectedExit, failed, late,
                 downVars, crashes, stuck>>

ListenFails ==
  /\ main = "listening"
  /\ Throws
  /\ UNCHANGED <<vmVars, container, reqVars, index, bare, doors, unexpectedExit,
                 late, allTerminated, downVars, crashes, stuck>>

(* The race is won by an exit: its logs are read before the teardown. *)
ExitReported ==
  /\ main = "serving" /\ unexpectedExit
  /\ Throws
  /\ UNCHANGED <<vmVars, container, reqVars, index, bare, doors, unexpectedExit,
                 late, allTerminated, downVars, crashes, stuck>>

(* The race is won by the last termination, or a failure has been reported. *)
TearsDown ==
  /\ \/ main = "serving" /\ allTerminated
     \/ main = "failing"
  /\ main' = "forever"
  /\ IF main = "serving" /\ shuttingDown
     THEN UNCHANGED <<teardown, current, terminating, wasBooting>>
     ELSE BeginTeardown
  /\ UNCHANGED <<paused, suspending, resuming, container, reqVars, index, bare,
                 doors, unexpectedExit, failed, late, allTerminated,
                 shuttingDown, removing, exited, abandoned, crashes, stuck>>

-----------------------------------------------------------------------------
SuspendStep(v) == SuspendHookAnswers(v) \/ PauseSucceeds(v) \/ SuspendFails(v)

ResumeStep(v) ==
  UnpauseSucceeds(v) \/ ResumeHookAnswers(v) \/ ResumeHookFails(v) \/ ResumeFails(v)

TerminateStep(v) ==
  \/ TerminateGoesOn(v) \/ TerminateUnpauses(v) \/ TerminateHookEnds(v)
  \/ Removed(v)

TeardownStep == RunSettled \/ VmsTerminated \/ Exit \/ \E v \in Vms : RemoveBare(v)

CommandStep ==
  \/ Built \/ PortsPicked \/ RunReturns \/ RunFails \/ BootEnds \/ Listens
  \/ ListenFails \/ ExitReported \/ TearsDown

(* process.exit ends everything. *)
Next ==
  /\ ~exited
  /\ \/ \E r \in Requests, v \in Vms : Arrive(r, v)
     \/ \E v \in Vms :
          \/ Suspend(v) \/ SuspendStep(v) \/ ResumeStep(v)
          \/ Terminate(v) \/ TerminateStep(v) \/ Crash(v) \/ ExitSeen(v)
     \/ Signal \/ SecondSignal \/ TeardownStep \/ CommandStep

Spec == Init /\ [][Next]_vars

(* Hooks have deadlines, docker and the sockets answer; what the promise    *)
(* chains await comes.                                                      *)
Fairness ==
  /\ \A v \in Vms :
       /\ WF_vars(~exited /\ SuspendStep(v))
       /\ WF_vars(~exited /\ ResumeStep(v))
       /\ WF_vars(~exited /\ TerminateStep(v))
  /\ WF_vars(~exited /\ TeardownStep)
  /\ WF_vars(~exited /\ CommandStep)

FairSpec == Spec /\ Fairness

-----------------------------------------------------------------------------
VmTypes ==
  /\ current \in [Vms -> {"none", "booting", "running", "suspending",
                          "suspended", "resuming"} \union Gone]
  /\ paused \in [Vms -> BOOLEAN]
  /\ suspending \in [Vms -> {"none", "hook", "pausing"}]
  /\ resuming \in [Vms -> {"none", "unpausing", "hook", "repausing"}]
  /\ terminating \in [Vms -> {"none", "waiting", "unpausing", "hook",
                              "removing", "done"}]
  /\ wasBooting \in [Vms -> BOOLEAN]
  /\ container \in [Vms -> {"none", "starting", "running", "paused", "exited",
                            "removed"}]

RequestTypes ==
  /\ request \in [Requests -> {"new", "chained", "resuming", "forwarded",
                               "refused"}]
  /\ to \in [Requests -> Vms]

CommandTypes ==
  /\ main \in {"building", "ports", "running", "booting", "listening",
               "serving", "failing", "forever"}
  /\ index \in Vms /\ bare \subseteq Vms /\ doors \subseteq Vms
  /\ allTerminated \in BOOLEAN /\ unexpectedExit \in BOOLEAN
  /\ shuttingDown \in BOOLEAN
  /\ teardown \in {"none", "run", "vms", "bare"}
  /\ removing \subseteq Vms /\ exited \in BOOLEAN
  /\ crashes \in 0 .. MaxCrashes
  /\ abandoned \in BOOLEAN /\ failed \in BOOLEAN
  /\ late \subseteq Vms /\ stuck \subseteq Vms

(* Types; bareContainers and vms share no container, so the teardown        *)
(* removes none before its /terminate hook (local-start-microvm.ts:495).    *)
TypeOK ==
  /\ VmTypes /\ RequestTypes /\ CommandTypes
  /\ bare \intersect Created = {}

(* A MicroVM said to run is not paused, so what the front door forwards can *)
(* be answered; one said to be suspended is paused, also when a resume has  *)
(* failed half-way, unless docker refused to pause it again.                *)
StateMatchesContainer ==
  \A v \in Vms :
    /\ current[v] = "running" => container[v] \in {"running", "exited"}
    /\ current[v] = "suspended" /\ v \notin stuck => container[v] = "paused"
    /\ current[v] = "terminated" => container[v] = "removed"

(* "So /terminate cannot hang against frozen processes": whatever suspend   *)
(* or resume was in flight, the hook is called on a container that is not   *)
(* paused and will not be, unless docker failed to unpause it.              *)
TerminateThaws ==
  \A v \in Vms :
    terminating[v] = "hook" => container[v] # "paused" \/ v \in stuck

(* The containers are what the states say, and what the hooks need, after   *)
(* any sequence of suspends, resumes and terminations that meet or fail.    *)
ContainersFollow == StateMatchesContainer /\ TerminateThaws

(* "A terminate() that started meanwhile keeps its own state": no suspend,  *)
(* resume or boot that ends later revives a MicroVM.                        *)
TerminationIsFinal ==
  [][\A v \in Vms :
       /\ current[v] = "terminating" => current'[v] \in Gone
       /\ current[v] = "terminated" => current'[v] = "terminated"]_vars

(* When the process ends no container is left, whatever failed or was       *)
(* terminated before; but for a `docker run` called after the teardown had  *)
(* begun, which it may not see (late), and one the user gave up on.         *)
CleanExit ==
  exited /\ ~abandoned =>
    \A v \in Vms \ late : container[v] \in {"none", "removed"}

(* Without a signal or a failure the command ends only when its users have  *)
(* terminated all --count MicroVMs, also those it had yet to boot.          *)
EndsOnlyWhenDone ==
  teardown # "none" /\ ~shuttingDown /\ ~failed =>
    \A v \in Vms : container[v] = "removed"

(* The command ends when it should, and clean.                              *)
EndsCleanly == CleanExit /\ EndsOnlyWhenDone

(* A request that waits for a resume is forwarded or refused some time,     *)
(* also when the resume fails, or a terminate() comes in between; and a     *)
(* signal, a failure and the termination of all its MicroVMs end the        *)
(* command.                                                                 *)
Settles ==
  /\ \A r \in Requests :
       request[r] \in {"chained", "resuming"} ~>
         request[r] \in {"forwarded", "refused"} \/ exited
  /\ shuttingDown \/ failed \/ (\A v \in Vms : current[v] = "terminated")
       ~> exited
=============================================================================
