------------------------- MODULE StartWebFunction -------------------------
(***************************************************************************)
(* `cdkl start-web-function`                                               *)
(* (src/src/cli/commands/local-start-web-function.ts) from the moment its  *)
(* signal handlers are armed: one WebFunctionServe, the signals, and the   *)
(* exit of the server it serves.                                           *)
(***************************************************************************)
EXTENDS WebFunctionServe

CONSTANT served   \* the one serve of the command

VARIABLES
    web,        \* what the command awaits, or "exited"
    signalled,  \* shuttingDown
    abandoned   \* a second signal gave up on `docker run`

webVars == <<web, signalled, abandoned>>

WebInit == web = "starting" /\ signalled = FALSE /\ abandoned = FALSE

WebAlive == web # "exited"

\* serve.start() is called at once.
Starts ==
    /\ web = "starting" /\ Begins(served)
    /\ UNCHANGED <<webVars, bundle, container, id, teardown>>

Serving ==
    /\ web = "starting" /\ start[served] = "up"
    /\ web' = "up"
    /\ UNCHANGED <<signalled, abandoned, serveVars>>

\* A signal mid-start: its shutdown owns the teardown and the exit.
Yields ==
    /\ web = "starting" /\ start[served] \in {"stopped", "thrown"} /\ signalled
    /\ web' = "forever"
    /\ UNCHANGED <<signalled, abandoned, serveVars>>

\* The start failed: torn down, then thrown.
StartFails ==
    /\ web = "starting" /\ start[served] = "thrown" /\ ~signalled
    /\ web' = "throwing"
    /\ TearsDown({served})
    /\ UNCHANGED <<signalled, abandoned, start, bundle, container, id>>

\* The server exits while serving: its last output is fetched, then the same.  A
\* teardown that began stops the watch.
ExitSeen ==
    /\ web = "up" /\ container[served] = "exited" /\ ~TornDown(served)
    /\ web' = "dying"
    /\ UNCHANGED <<signalled, abandoned, serveVars>>

Dies ==
    /\ web = "dying"
    /\ web' = "throwing"
    /\ TearsDown({served})
    /\ UNCHANGED <<signalled, abandoned, start, bundle, container, id>>

FirstSignal ==
    /\ WebAlive /\ start[served] # "new" /\ ~signalled
    /\ signalled' = TRUE
    /\ TearsDown({served})
    /\ UNCHANGED <<web, abandoned, start, bundle, container, id>>

Abandons == WaitingOnRun(served)

\* A second one is ignored, but while the teardown waits for `docker run`: the bundle
\* is removed at once and the container given up, by its name.
SecondSignal ==
    /\ WebAlive /\ signalled
    /\ Abandons
    /\ web' = "exited" /\ abandoned' = TRUE
    /\ bundle' = [bundle EXCEPT ![served] = FALSE]
    /\ UNCHANGED <<signalled, start, container, id, teardown>>

\* The shutdown, or the throw, once the one teardown is over.
WebExit ==
    /\ WebAlive /\ Down(served)
    /\ signalled \/ web = "throwing"
    /\ web' = "exited"
    /\ UNCHANGED <<signalled, abandoned, serveVars>>

WebStep == Starts \/ Serving \/ Yields \/ StartFails \/ ExitSeen \/ Dies \/ WebExit

WebNext ==
    \/ WebStep \/ FirstSignal \/ SecondSignal
    \/ WebAlive /\ (ServeStep(served) \/ ServerExits(served)) /\ UNCHANGED webVars

-----------------------------------------------------------------------------
(* Properties. *)

\* Whenever the process ends, the bundle and the container are gone; only a container
\* that was still being made when the user insisted may be left.
WebLeavesNothing ==
    web = "exited" =>
        /\ ~bundle[served]
        /\ Gone(served) \/ (abandoned /\ start[served] = "run")

=============================================================================
