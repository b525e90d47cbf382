-------------------------- MODULE StudioTimeline --------------------------
(***************************************************************************)
(* What studio shows of invocations: those it runs itself                  *)
(* (src/src/local/studio-dispatch.ts) and the requests its capture proxies *)
(* see (src/src/local/studio-proxy.ts), over the event bus into the        *)
(* bounded store (src/src/local/studio-store.ts), and from there to a page *)
(* (src/src/local/studio-ui.ts) by a history request and an event stream   *)
(* that the server (src/src/local/studio-server.ts) answers in any order   *)
(* and that may drop and reopen.                                           *)
(***************************************************************************)
EXTENDS Naturals, Sequences, FiniteSets

CONSTANTS
    Invokes, Proxied,   \* invocations studio runs, requests it captures
    MaxRows, MaxLogs,   \* maxInvocations, maxLogs
    MaxDrops            \* bound: the stream drops

TimelineAssumption ==
    /\ Invokes \cap Proxied = {}
    /\ MaxRows \in Nat \ {0} /\ MaxLogs \in Nat \ {0} /\ MaxDrops \in Nat

Shown == Invokes \cup Proxied

VARIABLES
    run,         \* the child or the upstream: "new", "asked", "answering", "over"
    left,        \* the clients that hung up
    ended,       \* those whose end event was emitted
    said,        \* invocations whose child has logged a line
    store,       \* the rows kept, oldest first
    logs,        \* the lines kept
    stream,      \* the page's event stream: "opening", "on"
    wire,        \* events on their way to the page
    history,     \* its history request: "asked", "answered", "loaded", "failed"
    reply,       \* the answer on its way
    page,        \* status a row shows, "none" without a row
    heard,       \* how often the page shows a line
    drops,
    \* history
    caughtUp     \* the history was taken while the stream was on, which never dropped since

runVars == <<run, left, ended, said>>
keptVars == <<store, logs>>
linkVars == <<stream, wire, history, reply, drops, caughtUp>>
pageVars == <<page, heard>>
vars == <<runVars, keptVars, linkVars, pageVars>>

NoReply == [rows |-> <<>>, lines |-> <<>>]

\* A page is being opened.
Init ==
    /\ run = [i \in Shown |-> "new"] /\ left = {} /\ ended = {} /\ said = {}
    /\ store = <<>> /\ logs = <<>>
    /\ stream = "opening" /\ wire = <<>> /\ history = "asked" /\ drops = 0 /\ caughtUp = FALSE
    /\ reply = NoReply
    /\ page = [i \in Shown |-> "none"] /\ heard = [i \in Invokes |-> 0]

-----------------------------------------------------------------------------
(* The bus: what is emitted is kept and sent to an open stream in one turn. *)

\* An event without a status leaves the one a row has.
Merged(old, status) == IF status = "pending" /\ old # "none" THEN old ELSE status

KeptStatus(rows, i) ==
    LET at == {k \in DOMAIN rows : rows[k].id = i}
    IN  IF at = {} THEN "none" ELSE rows[CHOOSE k \in at : TRUE].status

\* A row keeps its place; beyond the limit the oldest one goes.
Kept(rows, i, status) ==
    IF KeptStatus(rows, i) # "none"
    THEN [k \in DOMAIN rows |->
            IF rows[k].id = i THEN [id |-> i, status |-> Merged(rows[k].status, status)] ELSE rows[k]]
    ELSE LET all == Append(rows, [id |-> i, status |-> status])
         IN  IF Len(all) > MaxRows THEN Tail(all) ELSE all

Sent(event) == IF stream = "on" THEN Append(wire, event) ELSE wire

Emits(i, status) ==
    /\ store' = Kept(store, i, status)
    /\ wire' = Sent([id |-> i, status |-> status])
    /\ UNCHANGED <<logs, stream, history, reply, drops, caughtUp, pageVars>>

Silent == UNCHANGED <<keptVars, linkVars, pageVars>>

\* A line of a child, as it comes or after it has exited.
Logs(i) ==
    /\ i \in Invokes /\ run[i] = "answering" /\ i \notin said
    /\ said' = said \cup {i}
    /\ logs' = LET all == Append(logs, i) IN IF Len(all) > MaxLogs THEN Tail(all) ELSE all
    /\ wire' = Sent([id |-> i, status |-> "line"])
    /\ UNCHANGED <<run, left, ended, store, stream, history, reply, drops, caughtUp, pageVars>>

-----------------------------------------------------------------------------
(* Invocations and captured requests. *)

(* Mutation: emitEnd forgets that it was called. *)
EndsEachTime(i) == TRUE

EndsFirst(i) == i \notin ended

EmitEnd(i, status) ==
    /\ IF EndsFirst(i) THEN Emits(i, status) ELSE Silent
    /\ ended' = ended \cup {i}
    /\ UNCHANGED said

Begins(i) ==
    /\ run[i] = "new"
    /\ run' = [run EXCEPT ![i] = "asked"]
    /\ Emits(i, "pending")
    /\ UNCHANGED <<left, ended, said>>

\* A kind of target that is served, not invoked, is refused by one event.
Rejects(i) ==
    /\ i \in Invokes /\ run[i] = "new"
    /\ run' = [run EXCEPT ![i] = "over"]
    /\ EmitEnd(i, "501")
    /\ UNCHANGED left

\* The child is spawned, or the upstream begins its response.
Responds(i) ==
    /\ run[i] = "asked" /\ i \notin left
    /\ run' = [run EXCEPT ![i] = "answering"]
    /\ UNCHANGED <<left, ended, said>> /\ Silent

\* The child cannot be spawned: the caller gets an error, its row no end.
SpawnFails(i) ==
    /\ i \in Invokes /\ run[i] = "asked"
    /\ run' = [run EXCEPT ![i] = "over"]
    /\ UNCHANGED <<left, ended, said>> /\ Silent

\* The child exits, well or not; the upstream's response is complete.
Completes(i) ==
    /\ run[i] = "answering" /\ i \notin left
    /\ run' = [run EXCEPT ![i] = "over"]
    /\ EmitEnd(i, "answered")
    /\ UNCHANGED left

\* The upstream fails before or in the middle of its response, also because the
\* request to it was destroyed.
UpstreamFails(i) ==
    /\ i \in Proxied /\ run[i] \in {"asked", "answering"}
    /\ run' = [run EXCEPT ![i] = "over"]
    /\ EmitEnd(i, "502")
    /\ UNCHANGED left

\* The client hangs up: the request to the upstream is destroyed.
ClientLeaves(i) ==
    /\ i \in Proxied \ left /\ run[i] \in {"asked", "answering"}
    /\ left' = left \cup {i}
    /\ EmitEnd(i, "499")
    /\ UNCHANGED run

\* A client that leaves when its request was sent in full is not noticed, and the
\* response it no longer takes may stay where it is.
Stalls(i) ==
    /\ i \in Proxied \ left /\ run[i] \in {"asked", "answering"}
    /\ run' = [run EXCEPT ![i] = "over"]
    /\ UNCHANGED <<left, ended, said>> /\ Silent

-----------------------------------------------------------------------------
(* The page: a history request and a stream, sent one after the other. *)

StreamOpens ==
    /\ stream = "opening"
    /\ stream' = "on"
    /\ UNCHANGED <<wire, history, reply, drops, caughtUp, runVars, keptVars, pageVars>>

\* The browser reopens it by itself; what was sent meanwhile is not sent again.
StreamDrops ==
    /\ stream = "on" /\ drops < MaxDrops
    /\ stream' = "opening" /\ wire' = <<>>
    /\ drops' = drops + 1 /\ caughtUp' = FALSE
    /\ UNCHANGED <<history, reply, runVars, keptVars, pageVars>>

HistoryTaken ==
    /\ history = "asked"
    /\ history' = "answered" /\ reply' = [rows |-> store, lines |-> logs]
    /\ caughtUp' = (stream = "on")
    /\ UNCHANGED <<stream, wire, drops, runVars, keptVars, pageVars>>

HistoryFails ==
    /\ history \in {"asked", "answered"}
    /\ history' = "failed" /\ reply' = NoReply /\ caughtUp' = FALSE
    /\ UNCHANGED <<stream, wire, drops, runVars, keptVars, pageVars>>

HistoryMerges(i) == Merged(page[i], KeptStatus(reply.rows, i))

Times(lines, i) == Cardinality({k \in DOMAIN lines : lines[k] = i})

HistoryLoads ==
    /\ history = "answered"
    /\ history' = "loaded" /\ reply' = NoReply
    /\ page' = [i \in Shown |->
                  IF KeptStatus(reply.rows, i) = "none" THEN page[i] ELSE HistoryMerges(i)]
    /\ heard' = [i \in Invokes |-> heard[i] + Times(reply.lines, i)]
    /\ UNCHANGED <<stream, wire, drops, caughtUp, runVars, keptVars>>

PageReads ==
    /\ wire # <<>>
    /\ wire' = Tail(wire)
    /\ LET e == Head(wire) IN
       IF e.status = "line"
       THEN heard' = [heard EXCEPT ![e.id] = @ + 1] /\ UNCHANGED page
       ELSE page' = [page EXCEPT ![e.id] = Merged(@, e.status)] /\ UNCHANGED heard
    /\ UNCHANGED <<stream, history, reply, drops, caughtUp, runVars, keptVars>>

-----------------------------------------------------------------------------
Own(i) ==
    \/ Begins(i) \/ Rejects(i) \/ Responds(i) \/ SpawnFails(i) \/ Logs(i) \/ Completes(i)
    \/ UpstreamFails(i) \/ ClientLeaves(i) \/ Stalls(i)

Next ==
    \/ \E i \in Shown : Own(i)
    \/ StreamOpens \/ StreamDrops \/ HistoryTaken \/ HistoryFails \/ HistoryLoads \/ PageReads

Spec == Init /\ [][Next]_vars

-----------------------------------------------------------------------------
(* Properties. *)

Final(status) == status \notin {"none", "pending"}

\* A row that shows how its invocation ended shows that from then on, in the store
\* while it is kept and on the page, whatever comes in which order.
EndsAreFinal ==
    [][\A i \in Shown :
          /\ Final(KeptStatus(store, i)) => KeptStatus(store', i) \in {"none", KeptStatus(store, i)}
          /\ Final(page[i]) => page'[i] = page[i]]_vars

\* Nothing the page waits for is under way.
Quiescent == stream = "on" /\ wire = <<>> /\ history \notin {"asked", "answered"}

\* A page whose history was taken after its stream opened, and whose stream never
\* dropped, shows every row and every line that is kept.
ShowsWhatIsKept ==
    caughtUp /\ Quiescent =>
        /\ \A k \in DOMAIN store : page[store[k].id] = store[k].status
        /\ \A k \in DOMAIN logs : heard[logs[k]] > 0

=============================================================================
