-------------------------- MODULE OrderedDelivery --------------------------
(***************************************************************************)
(* What a WebSocket API promises the handlers of a connection, whatever    *)
(* the sockets, the shutdown and the other connections do: between         *)
(* admission and $disconnect they see its frames one at a time, each at    *)
(* most once, in the order the client sent them, and nothing afterwards.   *)
(* WebSocketServer implements it.                                          *)
(***************************************************************************)
EXTENDS Naturals

CONSTANTS
  Conns,      (* connections                                               *)
  MaxFrames   (* bound: frames of a connection, numbered in sending order  *)

VARIABLES
  link,       (* "absent", "live" or "gone"                                *)
  latest,     (* the last frame given to a handler, 0 before the first     *)
  busy        (* connections with a handler at work                        *)

odVars == <<link, latest, busy>>

Init ==
  /\ link = [c \in Conns |-> "absent"]
  /\ latest = [c \in Conns |-> 0]
  /\ busy = {}

Admit(c) ==
  /\ link[c] = "absent"
  /\ link' = [link EXCEPT ![c] = "live"]
  /\ UNCHANGED <<latest, busy>>

(* The handler of a frame starts; frames may be skipped, never repeated. *)
Deliver(c, f) ==
  /\ link[c] = "live" /\ c \notin busy
  /\ f > latest[c]
  /\ latest' = [latest EXCEPT ![c] = f]
  /\ busy' = busy \union {c}
  /\ UNCHANGED link

(* The handler of $disconnect starts. *)
Disconnect(c) ==
  /\ link[c] = "live" /\ c \notin busy
  /\ link' = [link EXCEPT ![c] = "gone"]
  /\ busy' = busy \union {c}
  /\ UNCHANGED latest

HandlerEnds(c) ==
  /\ c \in busy
  /\ busy' = busy \ {c}
  /\ UNCHANGED <<link, latest>>

Next ==
  \E c \in Conns :
    \/ Admit(c) \/ Disconnect(c) \/ HandlerEnds(c)
    \/ \E f \in 1 .. MaxFrames : Deliver(c, f)

Spec == Init /\ [][Next]_odVars

=============================================================================
