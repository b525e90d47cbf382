------------------------- MODULE StudioServeManager -------------------------
(***************************************************************************)
(* The serve manager of `cdkl studio`                                      *)
(* (src/src/local/studio-serve-manager.ts): it spawns one CLI child per    *)
(* served target, waits for its ready lines, fronts every HTTP endpoint    *)
(* they name with a capture proxy, and tears both down on stop, on a       *)
(* failure, on a timeout and when studio ends                              *)
(* (src/src/cli/commands/local-studio.ts).                                 *)
(*                                                                         *)
(* The map `entries` is keyed by target and two targets share nothing, so  *)
(* the model follows ONE target: its serves are numbered in the order      *)
(* start() was called, and entry is the one the map holds.  Proxy startups *)
(* are numbered too: proxyFactory() returns a promise, and what happens    *)
(* between the call and its settling is where the races are.               *)
(***************************************************************************)
EXTENDS Naturals, FiniteSets

CONSTANTS
    MaxServes,    \* bound: accepted calls of start() for the target
    MaxProxies,   \* bound: calls of proxyFactory()
    Upstreams,    \* the endpoints a child may name in its ready lines
    Nobody        \* no serve, no proxy

ServeAssumption == MaxServes \in Nat \ {0} /\ MaxProxies \in Nat /\ Nobody \notin Nat

Serves == 1 .. MaxServes
Proxies == 1 .. MaxProxies

VARIABLES
    entry,      \* the serve `entries` holds for the target
    status,     \* ServeEntry.status, "none" before start()
    settled,    \* the serves whose start() promise has settled
    stopping,   \* the serves stop() has taken (ServeEntry.stopping)
    child,      \* the process: "none", "alive", "exited", "closed" (stdio drained)
    signalled,  \* the serves whose child stopChild() has sent SIGTERM
    stop,       \* stop(): "none", "waiting" for `close`, "released", "done"
    awaits,     \* the pending proxies closeProxies() of stop() waits for
    proxies,    \* ServeEntry.proxies: serve -> upstream -> startup or Nobody
    proxy,      \* startup -> [serve, upstream, state]
    doomed,     \* startups whose closer waits for them to bind
    published,  \* the `serve` event the last step emitted: <<serve, status>>, or None
    studio,     \* "up", "stopping" (stopAll runs), "closed"
    swept       \* the serves stopAll() waits for

serveVars == <<entry, status, settled, stopping, child, signalled, stop, awaits>>
proxyVars == <<proxies, proxy, doomed>>
studioVars == <<studio, swept>>
vars == <<serveVars, proxyVars, published, studioVars>>

None == <<Nobody, "none">>
Silent == published' = None

Unused == [serve |-> Nobody, upstream |-> Nobody, state |-> "none"]

Init ==
    /\ entry = Nobody
    /\ status = [s \in Serves |-> "none"]
    /\ settled = {} /\ stopping = {} /\ signalled = {}
    /\ child = [s \in Serves |-> "none"]
    /\ stop = [s \in Serves |-> "none"]
    /\ awaits = [s \in Serves |-> {}]
    /\ proxies = [s \in Serves |-> [u \in Upstreams |-> Nobody]]
    /\ proxy = [p \in Proxies |-> Unused]
    /\ doomed = {}
    /\ published = None
    /\ studio = "up" /\ swept = {}

-----------------------------------------------------------------------------
(* What the handlers are made of. *)

Tracked(s) == entry = s

\* The startups in the map m of a serve.
Held(m) == {m[u] : u \in Upstreams} \ {Nobody}

Binding(px) == {p \in Proxies : px[p].state = "binding"}

(* Mutation: the map is emptied and a proxy that still binds is forgotten. *)
CloseBoundProxies(s, maps, px) ==
    /\ proxies' = [maps EXCEPT ![s] = [u \in Upstreams |-> Nobody]]
    /\ proxy' = [p \in Proxies |->
                    IF p \in Held(maps[s]) /\ px[p].state = "up"
                    THEN [px[p] EXCEPT !.state = "closed"] ELSE px[p]]
    /\ doomed' = doomed \cap Binding(px)

\* closeProxies(): the map is emptied at once; a proxy that is up closes, one
\* that still binds is closed by the callback left on its promise.
CloseProxies(s, maps, px) ==
    /\ proxies' = [maps EXCEPT ![s] = [u \in Upstreams |-> Nobody]]
    /\ proxy' = [p \in Proxies |->
                    IF p \in Held(maps[s]) /\ px[p].state = "up"
                    THEN [px[p] EXCEPT !.state = "closed"] ELSE px[p]]
    /\ doomed' = (doomed \cup Held(maps[s])) \cap Binding(px)

\* stopChild(): SIGTERM now, SIGKILL after the grace; nothing for a dead child.
Terminate(s) ==
    signalled' = IF child[s] = "alive" THEN signalled \cup {s} ELSE signalled

Publish(s, st) == published' = <<s, st>>

\* The start() promise of s is pending and stop() has not claimed the serve:
\* the guard of the ready timer and of failServe().
Booting(s) == child[s] # "none" /\ s \notin settled /\ s \notin stopping

-----------------------------------------------------------------------------
(* start(). *)

NextServe(s) == child[s] = "none" /\ status[s] = "none" /\ \A r \in 1 .. s - 1 : status[r] # "none"

\* start(): refused while the target has an entry (an entry that is stopped or
\* in error has left the map); otherwise a child is spawned and tracked.
Start(s) ==
    /\ NextServe(s)
    /\ studio # "closed"
    /\ entry = Nobody
    /\ entry' = s
    /\ status' = [status EXCEPT ![s] = "starting"]
    /\ child' = [child EXCEPT ![s] = "alive"]
    /\ Publish(s, "starting")
    /\ UNCHANGED <<settled, stopping, signalled, stop, awaits, proxyVars, studioVars>>

\* The spawn fails: at once, or through the `error` event, which comes before
\* any request of the page can.
SpawnFails(s) ==
    /\ NextServe(s)
    /\ studio # "closed"
    /\ entry = Nobody
    /\ status' = [status EXCEPT ![s] = "error"]
    /\ settled' = settled \cup {s}
    /\ Publish(s, "error")
    /\ UNCHANGED <<entry, stopping, child, signalled, stop, awaits, proxyVars, studioVars>>

\* The ready timeout, and failServe() on a ready line that names a foreign host.
Fails(s) ==
    /\ Booting(s)
    /\ settled' = settled \cup {s}
    /\ status' = [status EXCEPT ![s] = "error"]
    /\ Publish(s, "error")
    /\ Terminate(s)
    /\ CloseProxies(s, proxies, proxy)
    /\ entry' = IF Tracked(s) THEN Nobody ELSE entry
    /\ UNCHANGED <<stopping, child, stop, awaits, studioVars>>

-----------------------------------------------------------------------------
(* Ready lines and proxies. *)

\* onReady() after its await: a serve that was torn down meanwhile is not
\* resurrected.
TornDown(s) == s \in stopping \/ (s \in settled /\ entry = Nobody)

\* becomeRunning(), or another event for a serve that has settled.
SettleRunning(s) ==
    /\ settled' = settled \cup {s}
    /\ status' = IF s \in settled THEN status ELSE [status EXCEPT ![s] = "running"]
    /\ published' = <<s, status'[s]>>

\* The rest of onReady(), with the proxy map and the startups as the await
\* left them: the first endpoint makes the serve running, a later one is
\* published again.
Proceed(s, maps, px) ==
    IF TornDown(s)
    THEN /\ CloseProxies(s, maps, px)
         /\ UNCHANGED <<status, settled>> /\ Silent
    ELSE /\ proxies' = maps
         /\ proxy' = px
         /\ doomed' = doomed \cap Binding(px)
         /\ SettleRunning(s)

\* A line the child prints, or that is flushed after its exit.
Prints(s) == child[s] \in {"alive", "exited"}

\* A ready line that names no endpoint to capture (ws://, --no-capture-requests,
\* an ecs service), or one whose proxy is up: no turn of the event loop passes.
ReadyNow(s) ==
    /\ Prints(s)
    /\ Proceed(s, proxies, proxy)
    /\ UNCHANGED <<entry, stopping, child, signalled, stop, awaits, studioVars>>

\* A ready line that names an upstream no startup is pending for.  (A line that
\* names one that is binding joins its promise: the settling serves both.)
ReadyLine(s, u, p) ==
    /\ Prints(s)
    /\ proxies[s][u] = Nobody
    /\ proxy[p] = Unused /\ \A q \in 1 .. p - 1 : proxy[q] # Unused
    /\ proxies' = [proxies EXCEPT ![s][u] = p]
    /\ proxy' = [proxy EXCEPT ![p] = [serve |-> s, upstream |-> u, state |-> "binding"]]
    /\ UNCHANGED <<serveVars, doomed, studioVars>> /\ Silent

\* The promise of a startup resolves: the closer left by closeProxies() runs,
\* and the onReady() that waits goes on.
ProxyBinds(p) ==
    /\ proxy[p].state = "binding"
    /\ Proceed(proxy[p].serve, proxies,
               [proxy EXCEPT ![p].state = IF p \in doomed THEN "closed" ELSE "up"])
    /\ UNCHANGED <<entry, stopping, child, signalled, stop, awaits, studioVars>>

SlotEmptied(s, u) == [proxies EXCEPT ![s][u] = Nobody]

\* It rejects: the upstream's slot is emptied, whatever it holds by now, and the
\* serve falls back to the child's own URL.
ProxyFails(p) ==
    LET s == proxy[p].serve  u == proxy[p].upstream IN
    /\ proxy[p].state = "binding"
    /\ Proceed(s, SlotEmptied(s, u), [proxy EXCEPT ![p].state = "failed"])
    /\ UNCHANGED <<entry, stopping, child, signalled, stop, awaits, studioVars>>

-----------------------------------------------------------------------------
(* The child. *)

\* The process ends: of itself, on SIGTERM, or on the SIGKILL of the grace timer.
ChildExits(s) ==
    /\ child[s] = "alive"
    /\ child' = [child EXCEPT ![s] = "exited"]
    /\ UNCHANGED <<entry, status, settled, stopping, signalled, stop, awaits, proxyVars, studioVars>> /\ Silent

\* The `close` event before start() has settled: a boot failure, unless stop()
\* claimed the serve.
ClosedBooting(s) ==
    /\ s \notin settled
    /\ settled' = settled \cup {s}
    /\ IF s \in stopping
       THEN UNCHANGED <<entry, status, proxyVars>> /\ Silent
       ELSE /\ status' = [status EXCEPT ![s] = "error"]
            /\ Publish(s, "error")
            /\ CloseProxies(s, proxies, proxy)
            /\ entry' = Nobody

\* ... and after it: a serve that is tracked as running has stopped.
ClosedRunning(s) ==
    /\ s \in settled
    /\ UNCHANGED settled
    /\ IF Tracked(s) /\ status[s] = "running"
       THEN /\ status' = [status EXCEPT ![s] = "stopped"]
            /\ Publish(s, "stopped")
            /\ CloseProxies(s, proxies, proxy)
            /\ entry' = Nobody
       ELSE UNCHANGED <<entry, status, proxyVars>> /\ Silent

ChildCloses(s) ==
    /\ child[s] = "exited"
    /\ child' = [child EXCEPT ![s] = "closed"]
    /\ stop' = [stop EXCEPT ![s] = IF @ = "waiting" THEN "released" ELSE @]
    /\ ClosedBooting(s) \/ ClosedRunning(s)
    /\ UNCHANGED <<stopping, signalled, awaits, studioVars>>

-----------------------------------------------------------------------------
(* stop() and the end of studio. *)

\* stop(), up to its await.
Claim(s) ==
    /\ entry' = Nobody
    /\ stopping' = stopping \cup {s}
    /\ CloseProxies(s, proxies, proxy)
    /\ Terminate(s)
    /\ awaits' = [awaits EXCEPT ![s] = Held(proxies[s]) \cap Binding(proxy)]
    /\ stop' = [stop EXCEPT ![s] = IF child[s] = "alive" THEN "waiting" ELSE "released"]
    /\ UNCHANGED <<status, settled, child>> /\ Silent

Stop(s) == Tracked(s) /\ studio # "closed" /\ Claim(s) /\ UNCHANGED studioVars

\* Its end: the proxies are closed, the child is gone.  The event is published
\* whatever the target serves by then.
StopEnds(s) ==
    /\ stop[s] = "released"
    /\ awaits[s] \cap Binding(proxy) = {}
    /\ stop' = [stop EXCEPT ![s] = "done"]
    /\ status' = [status EXCEPT ![s] = "stopped"]
    /\ Publish(s, "stopped")
    /\ UNCHANGED <<entry, settled, stopping, child, signalled, awaits, proxyVars, studioVars>>

\* A signal: stopAll() stops what is tracked now.
Shutdown ==
    /\ studio = "up"
    /\ studio' = "stopping"
    /\ swept' = {s \in Serves : Tracked(s)}
    /\ \/ \E s \in Serves : Tracked(s) /\ Claim(s)
       \/ entry = Nobody /\ UNCHANGED <<serveVars, proxyVars>> /\ Silent

\* stopAll() has returned; a stop() that a request began before the signal is not
\* waited for.
AllStopped == \A s \in swept : stop[s] = "done"

ServerCloses ==
    /\ studio = "stopping"
    /\ AllStopped
    /\ studio' = "closed"
    /\ UNCHANGED <<serveVars, proxyVars, swept>> /\ Silent

-----------------------------------------------------------------------------
\* Everything the process may still do when nobody asks for anything.
Own(s) == Fails(s) \/ ChildCloses(s) \/ StopEnds(s)
Settling(p) == ProxyBinds(p) \/ ProxyFails(p)

Next ==
    \/ \E s \in Serves : Start(s) \/ SpawnFails(s) \/ ReadyNow(s) \/ ChildExits(s) \/ Own(s) \/ Stop(s)
    \/ \E s \in Serves, u \in Upstreams, p \in Proxies : ReadyLine(s, u, p)
    \/ \E p \in Proxies : Settling(p)
    \/ Shutdown
    \/ ServerCloses

(* Mutation: stopChild() sends SIGTERM and no SIGKILL. *)
NoSigkill(s) == FALSE

\* The ready timer fires; a signalled child ends, by SIGKILL if need be; a dead
\* one closes its stdio; a proxy binds or fails.
SigkillArrives(s) == s \in signalled /\ ChildExits(s)

Fairness ==
    /\ \A s \in Serves : WF_vars(Own(s)) /\ WF_vars(SigkillArrives(s))
    /\ \A p \in Proxies : WF_vars(Settling(p))
    /\ WF_vars(ServerCloses)

Spec == Init /\ [][Next]_vars /\ Fairness

-----------------------------------------------------------------------------
(* Properties. *)

\* The types, and that a slot of a proxy map holds a startup of its serve and
\* upstream that may still be used: a failed or a closed one is never reused.
TypeOK ==
    /\ entry \in Serves \cup {Nobody}
    /\ status \in [Serves -> {"none", "starting", "running", "stopped", "error"}]
    /\ settled \subseteq Serves /\ stopping \subseteq Serves /\ signalled \subseteq Serves
    /\ child \in [Serves -> {"none", "alive", "exited", "closed"}]
    /\ stop \in [Serves -> {"none", "waiting", "released", "done"}]
    /\ awaits \in [Serves -> SUBSET Proxies]
    /\ proxies \in [Serves -> [Upstreams -> Proxies \cup {Nobody}]]
    /\ proxy \in [Proxies -> [serve : Serves \cup {Nobody}, upstream : Upstreams \cup {Nobody},
                              state : {"none", "binding", "up", "closed", "failed"}]]
    /\ doomed \subseteq Proxies
    /\ published \in (Serves \cup {Nobody}) \X {"none", "starting", "running", "stopped", "error"}
    /\ studio \in {"up", "stopping", "closed"}
    /\ swept \subseteq Serves
    /\ \A s \in Serves, u \in Upstreams : proxies[s][u] # Nobody =>
           LET p == proxy[proxies[s][u]] IN
               p.serve = s /\ p.upstream = u /\ p.state \in {"binding", "up"}

\* What `entries` holds is a serve whose child can still answer, and no child is
\* out of studio's reach: one that runs is tracked, so that it can be stopped, or
\* has been told to end.
Listed ==
    /\ \A s \in Serves : Tracked(s) =>
           child[s] \in {"alive", "exited"} /\ status[s] \in {"starting", "running"} /\ s \notin stopping
    /\ \A s \in Serves : child[s] = "alive" => Tracked(s) \/ s \in signalled

\* No proxy outlives its serve: one that is bound stands in the map of the tracked
\* serve.  Two cases are excepted, where the code does leave one behind: the late
\* ready line of a failed serve whose target has been started again passes the
\* check of TornDown, which asks for any entry of the target; and a startup that
\* fails empties the slot of the startup that has replaced it.
Restarted(s) == status[s] = "error" /\ \E r \in Serves : r > s /\ status[r] # "none"
SlotLost(p) ==
    \E q \in Proxies : /\ proxy[q].state = "failed" /\ proxy[q].serve = proxy[p].serve
                       /\ proxy[q].upstream = proxy[p].upstream
ProxiesReleased ==
    \A p \in Proxies : proxy[p].state = "up" =>
        \/ Tracked(proxy[p].serve) /\ proxies[proxy[p].serve][proxy[p].upstream] = p
        \/ Restarted(proxy[p].serve)
        \/ SlotLost(p)

\* When studio closes, the child of the serve stopAll() found has ended and its
\* proxies are released: they do not outlive the process that would log them.
CleanExit ==
    studio = "closed" => \A s \in swept :
        /\ child[s] \in {"exited", "closed"}
        /\ \A p \in Proxies : proxy[p].serve = s /\ proxy[p].state = "up" => SlotLost(p)

\* A serve the user has stopped is never shown again as anything but stopped:
\* no error banner from its timer, its child or its ready lines.
StopIsFinal ==
    [][published'[1] \in stopping => published'[2] = "stopped"]_vars

\* Every start() settles, every stop() returns and the shutdown ends, whatever
\* the child and its proxies do.  (There are MaxServes calls and what is over
\* stays over, so this is the same as one ~> for each.)
Over ==
    /\ \A s \in Serves : child[s] # "none" => s \in settled
    /\ \A s \in Serves : stop[s] \in {"none", "done"}
    /\ studio # "stopping"
Settles == <>[]Over

=============================================================================
