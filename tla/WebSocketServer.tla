-------------------------- MODULE WebSocketServer --------------------------
(***************************************************************************)
(* A WebSocket API of `cdkl start-api`: attachWebSocketServer in           *)
(* src/src/local/websocket-server.ts and the @connections endpoint of      *)
(* websocket-mgmt-api.ts.  A connection waits for its $connect verdict     *)
(* while its frames are buffered; once admitted its frames and its         *)
(* $disconnect run one after another on the connection's dispatch chain;   *)
(* close() closes the sockets and waits, in bounded time, for what they    *)
(* cause.                                                                  *)
(*                                                                         *)
(* A handler is what invokeRoute does, from pool.acquire to release; it    *)
(* may fail, time out or never end.  A frame that no route takes is a      *)
(* handler that ends at once.  Of the ws library: a socket the server has  *)
(* closed still delivers frames until its peer answers, and is destroyed   *)
(* if the peer never does.                                                 *)
(***************************************************************************)
EXTENDS Naturals, Sequences, SequencesExt

CONSTANTS
  Conns,       (* upgrade requests                                         *)
  Unguarded,   (* those to an API without a $connect route                 *)
  MaxFrames,   (* bound: frames a client sends                             *)
  MAX_PRE_VERDICT_FRAMES

WebSocketAssumption ==
  /\ Unguarded \subseteq Conns
  /\ MaxFrames \in Nat
  /\ MAX_PRE_VERDICT_FRAMES \in Nat

VARIABLES
  phase,       (* how far onConnect is, and whether registry holds the     *)
               (* connection ("registered")                                *)
  socket,      (* the server's end: closing once closed here, ending once  *)
               (* the peer has closed or broken                            *)
  sent,        (* the number of frames that have arrived                   *)
  buffer,      (* preVerdictFrames                                         *)
  chain,       (* dispatchChainsByConnection: what has not begun yet       *)
  running,     (* what a handler is at work on, of each connection         *)
  server,      (* how far close() is                                       *)
  closes,      (* the sockets close() waits for                            *)
  drained,     (* inFlightDisconnects as close() has listed them           *)
  latest,      (* history: the last frame dispatched                       *)
  overflowed,  (* history: the frames dropped before the verdict           *)
  unanswered   (* history: connections close() has stopped waiting for     *)

connVars  == <<phase, socket, sent, buffer, chain, running>>
closeVars == <<server, closes, drained>>
histVars  == <<latest, overflowed, unanswered>>
vars == <<connVars, closeVars, histVars>>

(* $disconnect on a dispatch chain, among the numbers of the frames. *)
Bye == 0

Live(c) == socket[c] \in {"open", "closing", "ending"}

Init ==
  /\ phase = [c \in Conns |-> "none"]
  /\ socket = [c \in Conns |-> "none"]
  /\ sent = [c \in Conns |-> 0]
  /\ buffer = [c \in Conns |-> <<>>]
  /\ chain = [c \in Conns |-> <<>>]
  /\ running = [c \in Conns |-> {}]
  /\ server = "up" /\ closes = {} /\ drained = {}
  /\ latest = [c \in Conns |-> 0]
  /\ overflowed = [c \in Conns |-> {}]
  /\ unanswered = {}

-----------------------------------------------------------------------------
(* onConnect                                                                *)

(* Mutation: what was buffered before the verdict is forgotten. *)
BufferForgotten(c) == chain[c]

(* The buffered frames go ahead of those that arrive from now on. *)
BufferDispatched(c) == chain[c] \o buffer[c]

Register(c) ==
  /\ phase' = [phase EXCEPT ![c] = "registered"]
  /\ chain' = [chain EXCEPT ![c] = BufferDispatched(c)]
  /\ buffer' = [buffer EXCEPT ![c] = <<>>]

Upgrade(c) ==
  /\ server = "up" /\ socket[c] = "none"
  /\ socket' = [socket EXCEPT ![c] = "open"]
  /\ \/ c \in Unguarded /\ Register(c)
     \/ /\ c \notin Unguarded
        /\ phase' = [phase EXCEPT ![c] = "connecting"]
        /\ UNCHANGED <<chain, buffer>>
  /\ UNCHANGED <<sent, running, closeVars, histVars>>

(* ws.readyState === ws.OPEN *)
StillOpen(c) == socket[c] = "open"

Allowed(c) ==
  /\ phase[c] = "connecting"
  /\ \/ StillOpen(c) /\ Register(c)
     \/ /\ ~StillOpen(c)
        /\ phase' = [phase EXCEPT ![c] = "refused"]
        /\ buffer' = [buffer EXCEPT ![c] = <<>>]
        /\ UNCHANGED chain
  /\ UNCHANGED <<socket, sent, running, closeVars, histVars>>

(* A verdict other than 2xx, or any failure on the way to one. *)
Denied(c) ==
  /\ phase[c] = "connecting"
  /\ phase' = [phase EXCEPT ![c] = "refused"]
  /\ buffer' = [buffer EXCEPT ![c] = <<>>]
  /\ socket' = [socket EXCEPT ![c] = IF @ = "open" THEN "closing" ELSE @]
  /\ UNCHANGED <<sent, chain, running, closeVars, histVars>>

-----------------------------------------------------------------------------
(* What the listeners of a socket do                                        *)

(* enqueueDispatch *)
Enqueued(c, work) == Append(chain[c], work)

BufferFull(c) == Len(buffer[c]) >= MAX_PRE_VERDICT_FRAMES

(* A frame is buffered or dropped before the verdict and enqueued after an  *)
(* admission; nobody listens to a refused connection.                       *)
FrameArrives(c) ==
  /\ socket[c] \in {"open", "closing"} /\ sent[c] < MaxFrames
  /\ sent' = [sent EXCEPT ![c] = @ + 1]
  /\ \/ /\ phase[c] = "connecting" /\ ~BufferFull(c)
        /\ buffer' = [buffer EXCEPT ![c] = Append(@, sent'[c])]
        /\ UNCHANGED <<chain, overflowed>>
     \/ /\ phase[c] = "connecting" /\ BufferFull(c)
        /\ overflowed' = [overflowed EXCEPT ![c] = @ \union {sent'[c]}]
        /\ UNCHANGED <<chain, buffer>>
     \/ /\ phase[c] = "registered"
        /\ chain' = [chain EXCEPT ![c] = Enqueued(c, sent'[c])]
        /\ UNCHANGED <<buffer, overflowed>>
     \/ phase[c] = "refused" /\ UNCHANGED <<chain, buffer, overflowed>>
  /\ UNCHANGED <<phase, socket, running, closeVars, latest, unanswered>>

PeerCloses(c) ==
  /\ socket[c] \in {"open", "closing"}
  /\ socket' = [socket EXCEPT ![c] = "ending"]
  /\ UNCHANGED <<phase, sent, buffer, chain, running, closeVars, histVars>>

(* The close event: only a registered connection listens to it. *)
SocketCloses(c) ==
  /\ socket[c] \in {"closing", "ending"}
  /\ socket' = [socket EXCEPT ![c] = "closed"]
  /\ chain' = [chain EXCEPT ![c] =
                 IF phase[c] = "registered" THEN Enqueued(c, Bye) ELSE @]
  /\ closes' = closes \ {c}
  /\ UNCHANGED <<phase, sent, buffer, running, server, drained, histVars>>

(* DELETE /@connections/<id> *)
DeleteConnection(c) ==
  /\ phase[c] = "registered" /\ socket[c] = "open"
  /\ socket' = [socket EXCEPT ![c] = "closing"]
  /\ UNCHANGED <<phase, sent, buffer, chain, running, closeVars, histVars>>

-----------------------------------------------------------------------------
(* The dispatch chain                                                       *)

(* Mutation: a frame does not wait for the one before it. *)
NeverWaits(c) == TRUE

(* prev.then(work) *)
PreviousEnded(c) == running[c] = {}

(* dispatchMessage, which finds the connection registered, or onDisconnect, *)
(* which removes it.                                                        *)
HandlerStarts(c) ==
  /\ chain[c] # <<>> /\ PreviousEnded(c)
  /\ phase[c] = "registered"
  /\ IF Head(chain[c]) = Bye
     THEN phase' = [phase EXCEPT ![c] = "unregistered"] /\ UNCHANGED latest
     ELSE latest' = [latest EXCEPT ![c] = Head(chain[c])] /\ UNCHANGED phase
  /\ running' = [running EXCEPT ![c] = @ \union {Head(chain[c])}]
  /\ chain' = [chain EXCEPT ![c] = Tail(@)]
  /\ UNCHANGED <<socket, sent, buffer, closeVars, overflowed, unanswered>>

HandlerEnds(c) ==
  /\ \E work \in running[c] :
       running' = [running EXCEPT ![c] = @ \ {work}]
  /\ UNCHANGED <<phase, socket, sent, buffer, chain, closeVars, histVars>>

-----------------------------------------------------------------------------
(* close()                                                                  *)

(* No upgrade from now on; code 1001 for every client. *)
Close ==
  /\ server = "up"
  /\ server' = "closing"
  /\ closes' = {c \in Conns : Live(c)}
  /\ socket' = [c \in Conns |-> IF socket[c] = "open" THEN "closing" ELSE socket[c]]
  /\ UNCHANGED <<phase, sent, buffer, chain, running, drained, histVars>>

(* "Defensive timeout so a stuck socket never hangs shutdown." *)
CloseTimeout(c) ==
  /\ server = "closing" /\ c \in closes
  /\ closes' = closes \ {c}
  /\ unanswered' = unanswered \union {c}
  /\ UNCHANGED <<connVars, server, drained, latest, overflowed>>

(* await Promise.all(closes) *)
SocketsClosed == closes = {}

InFlightDisconnects ==
  {c \in Conns : Contains(chain[c], Bye) \/ Bye \in running[c]}

Drain ==
  /\ server = "closing" /\ SocketsClosed
  /\ server' = "draining"
  /\ drained' = InFlightDisconnects
  /\ UNCHANGED <<connVars, closes, histVars>>

(* Promise.allSettled of those *)
DrainCompletes ==
  /\ server = "draining" /\ drained \intersect InFlightDisconnects = {}
  /\ server' = "ending"
  /\ UNCHANGED <<connVars, closes, drained, histVars>>

(* SHUTDOWN_DRAIN_MS have passed: the handlers left run on unawaited. *)
DrainTimesOut ==
  /\ server = "draining" /\ drained \intersect InFlightDisconnects # {}
  /\ server' = "ending"
  /\ unanswered' = unanswered \union (drained \intersect InFlightDisconnects)
  /\ UNCHANGED <<connVars, closes, drained, latest, overflowed>>

(* wss.close() calls back once its last client has gone. *)
ClientsLeft == \E c \in Conns : Live(c)

Closed ==
  /\ server = "ending" /\ ~ClientsLeft
  /\ server' = "closed"
  /\ UNCHANGED <<connVars, closes, drained, histVars>>

CloseStep ==
  \/ \E c \in Conns : CloseTimeout(c)
  \/ Drain \/ DrainCompletes \/ DrainTimesOut \/ Closed

-----------------------------------------------------------------------------
Next ==
  \/ \E c \in Conns :
       \/ Upgrade(c) \/ Allowed(c) \/ Denied(c) \/ FrameArrives(c)
       \/ PeerCloses(c) \/ SocketCloses(c) \/ DeleteConnection(c)
       \/ HandlerStarts(c) \/ HandlerEnds(c)
  \/ Close \/ CloseStep

Spec == Init /\ [][Next]_vars

(* The timers of close() and of the ws library fire; of the handlers and    *)
(* the clients nothing is assumed.                                          *)
Fairness ==
  /\ WF_vars(CloseStep)
  /\ \A c \in Conns : WF_vars(SocketCloses(c))

FairSpec == Spec /\ Fairness

-----------------------------------------------------------------------------
(* Types; at most one handler of a connection runs, and what is kept for a  *)
(* client that has not been admitted is bounded.                            *)
TypeOK ==
  /\ phase \in [Conns -> {"none", "connecting", "refused", "registered",
                          "unregistered"}]
  /\ socket \in [Conns -> {"none", "open", "closing", "ending", "closed"}]
  /\ sent \in [Conns -> 0 .. MaxFrames]
  /\ buffer \in [Conns -> Seq(1 .. MaxFrames)]
  /\ \A c \in Conns : Len(buffer[c]) <= MAX_PRE_VERDICT_FRAMES
  /\ chain \in [Conns -> Seq(0 .. MaxFrames)]
  /\ running \in [Conns -> {{}} \union {{work} : work \in 0 .. MaxFrames}]
  /\ server \in {"up", "closing", "draining", "ending", "closed"}
  /\ closes \subseteq Conns /\ drained \subseteq Conns
  /\ latest \in [Conns -> 0 .. MaxFrames]
  /\ overflowed \in [Conns -> SUBSET (1 .. MaxFrames)]
  /\ unanswered \subseteq Conns

(* The frames of a connection on their way to its handlers. *)
Pending(c) == ToSet(buffer[c]) \union (ToSet(chain[c]) \ {Bye})

(* Every frame of an admitted connection that did not overflow the buffer   *)
(* reaches a handler before $disconnect does, also those that came before   *)
(* the verdict; and a registered connection whose socket has closed has its *)
(* $disconnect queued, so the registry does not keep it.                    *)
NothingLost ==
  \A c \in Conns :
    /\ phase[c] \in {"connecting", "registered"} =>
         \A f \in 1 .. sent[c] :
           f \in overflowed[c] \union Pending(c) \/ f <= latest[c]
    /\ phase[c] = "unregistered" => Pending(c) = {}
    /\ phase[c] = "registered" /\ socket[c] = "closed" => Contains(chain[c], Bye)

(* "Resolves once every socket has emitted its `close` event (which also    *)
(* fires the $disconnect Lambda per connection)": but for the sockets and   *)
(* handlers it has given up on, nothing is left on any chain.               *)
ByeBeforeClosed ==
  server = "closed" =>
    \A c \in Conns :
      /\ ~Live(c)
      /\ c \notin unanswered => /\ chain[c] = <<>> /\ running[c] = {}
                               /\ phase[c] # "registered"

(* A shutdown ends, whatever handlers and clients do. *)
CloseReturns == server = "closing" ~> server = "closed"

-----------------------------------------------------------------------------
Delivery == INSTANCE OrderedDelivery WITH
  link <- [c \in Conns |->
             CASE phase[c] = "registered" -> "live"
               [] phase[c] = "unregistered" -> "gone"
               [] OTHER -> "absent"],
  busy <- {c \in Conns : running[c] # {}}

(* The handlers of every connection see what OrderedDelivery promises them. *)
DeliversInOrder == Delivery!Spec

=============================================================================
