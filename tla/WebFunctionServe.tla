------------------------- MODULE WebFunctionServe -------------------------
(***************************************************************************)
(* A WebFunctionServe (src/src/cli/commands/web-function-serve.ts): the    *)
(* bundle and the container of one web function, from start() to the end   *)
(* of a teardown() that may begin at any point of it.                      *)
(*                                                                         *)
(* The container is not --rm, so one that docker makes after the teardown  *)
(* has looked is never removed.  start() and doTeardown() await the same   *)
(* promises; what each of them does when one is settled is one step.       *)
(***************************************************************************)

CONSTANT Serves

VARIABLES
    start,      \* what start() awaits, or how it ended
    bundle,     \* the extracted directory is on disk
    container,  \* docker: "none", "created" (it never started), "running", "exited"
    id,         \* this.id is set
    teardown    \* what doTeardown() awaits

serveVars == <<start, bundle, container, id, teardown>>

ServesInit ==
    /\ start = [s \in Serves |-> "new"]
    /\ bundle = [s \in Serves |-> FALSE]
    /\ container = [s \in Serves |-> "none"]
    /\ id = [s \in Serves |-> FALSE]
    /\ teardown = [s \in Serves |-> "none"]

TornDown(s) == teardown[s] # "none"

\* Where start() goes on: nowhere once a teardown has begun.
Onward(s, stage) == IF TornDown(s) THEN "stopped" ELSE stage

-----------------------------------------------------------------------------
(* start(). *)

Begins(s) == start[s] = "new" /\ start' = [start EXCEPT ![s] = "artifact"]

\* A zip is extracted into a directory, a directory is mounted as it is.
Extracted(s) ==
    /\ start[s] = "artifact"
    /\ bundle' \in {bundle, [bundle EXCEPT ![s] = TRUE]}
    /\ start' = [start EXCEPT ![s] = Onward(s, "env")]
    /\ UNCHANGED <<container, id, teardown>>

EnvResolved(s) ==
    /\ start[s] = "env"
    /\ start' = [start EXCEPT ![s] = "pull"]
    /\ UNCHANGED <<bundle, container, id, teardown>>

Pulled(s) ==
    /\ start[s] = "pull"
    /\ start' = [start EXCEPT ![s] = Onward(s, "port")]
    /\ UNCHANGED <<bundle, container, id, teardown>>

(* Mutation: the teardown is not looked at again after the port is picked. *)
PortUnchecked(s) == "run"

PortChecked(s) == Onward(s, "run")

\* The port is picked and `docker run` issued.
Runs(s) ==
    /\ start[s] = "port"
    /\ start' = [start EXCEPT ![s] = PortChecked(s)]
    /\ UNCHANGED <<bundle, container, id, teardown>>

\* The docker CLI creates the container some time before it answers.
Creates(s) ==
    /\ start[s] = "run" /\ container[s] = "none"
    /\ container' = [container EXCEPT ![s] = "running"]
    /\ UNCHANGED <<start, bundle, id, teardown>>

Answers(s) ==
    /\ start[s] = "run" /\ container[s] \in {"running", "exited"}
    /\ start' = [start EXCEPT ![s] = Onward(s, "ready")]
    /\ id' = [id EXCEPT ![s] = ~TornDown(s)]
    /\ UNCHANGED <<bundle, container, teardown>>

Ready(s) ==
    /\ start[s] = "ready"
    /\ container[s] = "running"
    /\ start' = [start EXCEPT ![s] = Onward(s, "up")]
    /\ UNCHANGED <<bundle, container, id, teardown>>

\* Any of them fails: the server does not answer in time or exits, the container
\* cannot start (its port was taken meanwhile) and stays as docker created it.
Throws(s) ==
    /\ start[s] \in {"artifact", "env", "pull", "port", "run", "ready"}
    /\ start' = [start EXCEPT ![s] = "thrown"]
    /\ start[s] = "run" => container[s] = "none"
    /\ container' \in {container} \cup
         IF start[s] = "run" THEN {[container EXCEPT ![s] = "created"]} ELSE {}
    /\ UNCHANGED <<bundle, id, teardown>>

\* The server exits on its own; its container stays until it is removed.
ServerExits(s) ==
    /\ container[s] = "running"
    /\ container' = [container EXCEPT ![s] = "exited"]
    /\ UNCHANGED <<start, bundle, id, teardown>>

-----------------------------------------------------------------------------
(* teardown(), memoized. *)

TearsDown(all) ==
    teardown' = [s \in Serves |-> IF s \in all /\ ~TornDown(s) THEN "artifact" ELSE teardown[s]]

ArtifactSettled(s) ==
    /\ teardown[s] = "artifact" /\ start[s] # "artifact"
    /\ teardown' = [teardown EXCEPT ![s] = "run"]
    /\ UNCHANGED <<start, bundle, container, id>>

\* An in-flight `docker run` is awaited for the id of its container.
WaitingOnRun(s) == teardown[s] = "run" /\ start[s] = "run"

RunSettled(s) ==
    /\ teardown[s] = "run" /\ start[s] # "run"
    /\ teardown' = [teardown EXCEPT ![s] = "remove"]
    /\ id' = [id EXCEPT ![s] = container[s] \in {"running", "exited"}]
    /\ UNCHANGED <<start, bundle, container>>

Removed(s) ==
    /\ teardown[s] = "remove"
    /\ teardown' = [teardown EXCEPT ![s] = "done"]
    /\ container' = IF id[s] THEN [container EXCEPT ![s] = "none"] ELSE container
    /\ bundle' = [bundle EXCEPT ![s] = FALSE]
    /\ UNCHANGED <<start, id>>

Down(s) == teardown[s] = "done"

ServeStep(s) ==
    \/ Extracted(s) \/ EnvResolved(s) \/ Pulled(s) \/ Runs(s) \/ Creates(s) \/ Answers(s)
    \/ Ready(s) \/ Throws(s)
    \/ ArtifactSettled(s) \/ RunSettled(s) \/ Removed(s)

-----------------------------------------------------------------------------
(* Properties. *)

\* Nothing is left of a serve: no directory, and no container but one that docker
\* could not start, which nobody knows the id of.
Gone(s) == ~bundle[s] /\ container[s] \in {"none", "created"}

=============================================================================
