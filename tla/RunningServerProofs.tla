------------------------ MODULE RunningServerProofs ------------------------
(***************************************************************************)
(* What a running start-api promises the clients of its HTTP and of its    *)
(* WebSocket APIs, for any numbers of requests, containers, connections    *)
(* and frames, for any routes and any globs: the invariants of             *)
(* RunningServer.                                                          *)
(***************************************************************************)
EXTENDS RunningServer, FiniteSetTheorems, WellFoundedInduction, TLAPS

-----------------------------------------------------------------------------
(* One request                                                              *)

Stages == {"body", "authorizer", "calling", "waiting", "sending", "backoff", "sent", "text",
           "prelude", "done"}
Invoking == {"sending", "backoff", "sent", "text", "prelude"}
Dispatched == {"calling", "waiting"} \cup Invoking

RequestTypes ==
  /\ reqStage \in [Requests -> Stages] /\ route \in [Requests -> Q!Kinds]
  /\ borrowed \in [Requests -> Pooled \cup {NoContainer}]
  /\ armed \subseteq Requests
  /\ timer \in [Requests -> {"off", "on", "fired"}]
  /\ drained \in [Requests -> {"no", "reading", "ended", "failed"}]
  /\ works \in [Pooled -> Requests \cup {NoContainer}]
  /\ replies \in [Requests -> {"none", "head", "all", "broken", "refused"}]

(* Who invokes was let through, and has a container of its own until it has *)
(* returned it or left that to the events of its response.                  *)
Holds ==
  /\ \A r \in Requests : reqStage[r] \in Dispatched => r \in cleared
  /\ \A r \in Requests : reqStage[r] \in Invoking \/ r \in armed => borrowed[r] # NoContainer
  /\ \A r \in armed : reqStage[r] = "done"
  /\ \A r, q \in Requests : borrowed[r] = borrowed[q] /\ borrowed[r] # NoContainer => r = q

(* What comes from the handler, and what is said of a stream.               *)
Hears ==
  \A r \in Requests :
    /\ reqStage[r] \in {"sending", "backoff"} => replies[r] = "none"
    /\ reqStage[r] \in {"body", "authorizer", "calling", "waiting"} => replies[r] = "none"
    /\ reqStage[r] = "prelude" \/ drained[r] = "reading" => route[r] = "stream"

(* A handler runs the event of one request, which waits for it with the     *)
(* container, but for one that timed out, a stream that was given up or an  *)
(* attempt that failed on the way.                                          *)
Runs ==
  /\ \A c, d \in Pooled : works[c] = works[d] /\ works[c] # NoContainer => c = d
  /\ \A c \in Pooled : \A r \in Requests : works[c] = r =>
       /\ reqStage[r] \in Invoking \cup {"done"}
       /\ borrowed[r] = c \/ reqStage[r] = "done"
       /\ r \notin unheard =>
            /\ replies[r] \in {"none", "head"} /\ (replies[r] = "head" => route[r] = "stream")
            /\ reqStage[r] \in {"sent", "prelude", "done"}
            /\ route[r] = "stream" \/ timer[r] = "fired" \/ reqStage[r] = "sent"

RequestInv ==
  RequestTypes /\ Holds /\ Hears /\ Runs /\ called \subseteq cleared /\ again = {}

LEMMA NothingIsNone == NoContainer \notin Requests /\ NoContainer \notin Pooled
BY RunningAssumption DEF Q!RequestAssumption

LEMMA RequestBegins == Q!RequestInit => RequestInv
BY NothingIsNone
   DEF Q!RequestInit, RequestInv, RequestTypes, Holds, Hears, Runs, Stages, Invoking, Dispatched

LEMMA RequestSafety == RequestInv => RequestsServed
<1> SUFFICES ASSUME RequestInv PROVE Q!LentIdle
  BY DEF RequestInv, RequestsServed, Q!RequestsServed, Q!AuthorizedFirst, Q!ReturnedOnce
<1> SUFFICES ASSUME NEW r \in Requests, NEW q \in Requests, borrowed[r] # NoContainer, r # q,
                    works[borrowed[r]] = q
             PROVE  timer[q] = "fired" \/ route[q] = "stream" \/ q \in unheard
  BY DEF Q!LentIdle
<1>1. borrowed[r] \in Pooled
  BY DEF RequestInv, RequestTypes
<1>2. borrowed[q] # borrowed[r]
  BY DEF RequestInv, Holds
<1>3. reqStage[q] # "sent"
  BY <1>1, <1>2 DEF RequestInv, Runs
<1> QED BY <1>1, <1>2, <1>3 DEF RequestInv, Runs

LEMMA BodyReadKeeps ==
  ASSUME RequestInv, NEW r \in Requests, Q!BodyRead(r)
  PROVE  RequestInv'
<1>1. PICK to \in {"authorizer", "calling", "waiting", "done"} :
        /\ reqStage' = [reqStage EXCEPT ![r] = to]
        /\ cleared \subseteq cleared' /\ (to \in {"calling", "waiting"} => r \in cleared')
  BY DEF Q!BodyRead, Q!Dispatches, Q!Answers, Q!Goes
<1>2. /\ reqStage[r] = "body"
      /\ UNCHANGED <<route, borrowed, armed, timer, drained, works, replies, again>>
  BY DEF Q!BodyRead, Q!replyVars
<1>3. called' \subseteq cleared' /\ again' = {}
  BY DEF RequestInv, Q!BodyRead, Q!Dispatches
<1>4. RequestTypes'
  BY <1>1, <1>2 DEF RequestInv, RequestTypes, Stages
<1>5. Holds'
  BY <1>1, <1>2 DEF RequestInv, RequestTypes, Holds, Invoking, Dispatched
<1>6. Hears'
  BY <1>1, <1>2 DEF RequestInv, RequestTypes, Hears
<1>7. Runs'
  <2>1. UNCHANGED unheard /\ \A c \in Pooled : works[c] # r
    BY <1>2 DEF RequestInv, Runs, Invoking, Q!BodyRead, Q!replyVars
  <2> QED BY <1>1, <1>2, <2>1 DEF RequestInv, RequestTypes, Runs
<1> QED BY <1>3, <1>4, <1>5, <1>6, <1>7 DEF RequestInv

LEMMA BodyFailsKeeps ==
  ASSUME RequestInv, NEW r \in Requests, Q!BodyFails(r)
  PROVE  RequestInv'
<1> USE NothingIsNone DEF RequestInv, Q!BodyFails, Q!replyVars, Q!Answers
<1>1. RequestTypes'
  BY DEF RequestTypes, Stages
<1>2. Holds'
  BY DEF Holds, Invoking, Dispatched
<1>3. Hears'
  BY DEF Hears
<1>4. Runs'
  BY DEF Invoking, Runs
<1>5. called' \subseteq cleared' /\ again' = {}
  OBVIOUS
<1> QED BY <1>1, <1>2, <1>3, <1>4, <1>5

LEMMA AuthorizesKeeps ==
  ASSUME RequestInv, NEW r \in Requests, Q!Authorizes(r)
  PROVE  RequestInv'
<1> USE NothingIsNone DEF RequestInv, Q!Authorizes, Q!replyVars, Q!Dispatches, Q!Answers, Q!Goes
<1>1. RequestTypes'
  BY DEF RequestTypes, Stages
<1>2. Holds'
  BY DEF Holds, RequestTypes, Invoking, Dispatched
<1>3. Hears'
  BY DEF Hears, RequestTypes
<1>4. Runs'
  BY DEF Invoking, Runs, RequestTypes
<1>5. called' \subseteq cleared' /\ again' = {}
  OBVIOUS
<1> QED BY <1>1, <1>2, <1>3, <1>4, <1>5

LEMMA CalledKeeps ==
  ASSUME RequestInv, NEW r \in Requests, Q!Called(r)
  PROVE  RequestInv'
<1> USE NothingIsNone DEF RequestInv, Q!Called, Q!replyVars, Q!Answers
<1>1. RequestTypes'
  BY DEF RequestTypes, Stages
<1>2. Holds'
  BY DEF Holds, Invoking, Dispatched
<1>3. Hears'
  BY DEF Hears
<1>4. Runs'
  BY DEF Invoking, Runs
<1>5. called' \subseteq cleared' /\ again' = {}
  OBVIOUS
<1> QED BY <1>1, <1>2, <1>3, <1>4, <1>5

LEMMA AcquiresKeeps ==
  ASSUME RequestInv, NEW r \in Requests, Q!Acquires(r)
  PROVE  RequestInv'
<1> USE NothingIsNone DEF RequestInv, Q!Acquires, Q!replyVars, Q!Answers, Q!Goes, Q!Lent
<1>1. RequestTypes'
  BY DEF RequestTypes, Stages
<1>2. Holds'
  BY DEF Holds, RequestTypes, Invoking, Dispatched
<1>3. Hears'
  BY DEF Hears, RequestTypes
<1>4. Runs'
  BY DEF Invoking, Runs, RequestTypes
<1>5. called' \subseteq cleared' /\ again' = {}
  BY DEF Holds, Dispatched
<1> QED BY <1>1, <1>2, <1>3, <1>4, <1>5

LEMMA DeliveredKeeps ==
  ASSUME RequestInv, NEW r \in Requests, Q!Delivered(r)
  PROVE  RequestInv'
<1> USE NothingIsNone DEF RequestInv, Q!Delivered, Q!replyVars
<1>1. RequestTypes'
  BY DEF RequestTypes, Stages
<1>2. Holds'
  BY DEF Holds, Invoking, Dispatched
<1>3. Hears'
  BY DEF Hears, RequestTypes
<1>4. Runs'
  BY DEF Invoking, Runs, Hears, RequestTypes
<1>5. called' \subseteq cleared' /\ again' = {}
  OBVIOUS
<1> QED BY <1>1, <1>2, <1>3, <1>4, <1>5

LEMMA RefusedKeeps ==
  ASSUME RequestInv, NEW r \in Requests, Q!Refused(r)
  PROVE  RequestInv'
<1> USE NothingIsNone DEF RequestInv, Q!Refused, Q!replyVars, Q!Goes, Q!Fails, Q!Releases, Q!Stops
<1>1. RequestTypes'
  BY DEF RequestTypes, Stages
<1>2. Holds'
  BY DEF Holds, RequestTypes, Invoking, Dispatched
<1>3. Hears'
  BY DEF Hears, RequestTypes
<1>4. Runs'
  BY DEF Invoking, Runs, RequestTypes
<1>5. called' \subseteq cleared' /\ again' = {}
  BY DEF Holds, Invoking
<1> QED BY <1>1, <1>2, <1>3, <1>4, <1>5

LEMMA RetriesKeeps ==
  ASSUME RequestInv, NEW r \in Requests, Q!Retries(r)
  PROVE  RequestInv'
<1> USE NothingIsNone DEF RequestInv, Q!Retries, Q!replyVars
<1>1. RequestTypes'
  BY DEF RequestTypes, Stages
<1>2. Holds'
  BY DEF Holds, Invoking, Dispatched
<1>3. Hears'
  BY DEF Hears
<1>4. Runs'
  BY DEF Invoking, Runs
<1>5. called' \subseteq cleared' /\ again' = {}
  OBVIOUS
<1> QED BY <1>1, <1>2, <1>3, <1>4, <1>5

LEMMA AbortedKeeps ==
  ASSUME RequestInv, NEW r \in Requests, Q!Aborted(r)
  PROVE  RequestInv'
<1> USE NothingIsNone DEF RequestInv, Q!Aborted, Q!replyVars, Q!Fails, Q!Releases
<1>1. RequestTypes'
  BY DEF RequestTypes, Stages
<1>2. Holds'
  BY DEF Holds, RequestTypes, Invoking, Dispatched
<1>3. Hears'
  BY DEF Hears
<1>4. Runs'
  BY DEF Invoking, Runs, RequestTypes
<1>5. called' \subseteq cleared' /\ again' = {}
  BY DEF Holds, Invoking
<1> QED BY <1>1, <1>2, <1>3, <1>4, <1>5

LEMMA RespondsKeeps ==
  ASSUME RequestInv, NEW r \in Requests, Q!Responds(r)
  PROVE  RequestInv'
<1> USE NothingIsNone DEF RequestInv, Q!Responds, Q!replyVars, Q!Goes, Q!Stops
<1>1. RequestTypes'
  BY DEF RequestTypes, Stages
<1>2. Holds'
  BY DEF Holds, RequestTypes, Invoking, Dispatched
<1>3. Hears'
  BY DEF Hears, RequestTypes
<1>4. Runs'
  BY DEF Invoking, Runs, RequestTypes
<1>5. called' \subseteq cleared' /\ again' = {}
  OBVIOUS
<1> QED BY <1>1, <1>2, <1>3, <1>4, <1>5

LEMMA TextKeeps ==
  ASSUME RequestInv, NEW r \in Requests, Q!Text(r)
  PROVE  RequestInv'
<1> USE NothingIsNone DEF RequestInv, Q!Text, Q!replyVars, Q!Answers, Q!Releases
<1>1. RequestTypes'
  BY DEF RequestTypes, Stages
<1>2. Holds'
  BY DEF Holds, RequestTypes, Invoking, Dispatched
<1>3. Hears'
  BY DEF Hears
<1>4. Runs'
  BY DEF Invoking, Runs, RequestTypes
<1>5. called' \subseteq cleared' /\ again' = {}
  BY DEF Holds, Invoking
<1> QED BY <1>1, <1>2, <1>3, <1>4, <1>5

LEMMA PreludeKeeps ==
  ASSUME RequestInv, NEW r \in Requests, Q!Prelude(r)
  PROVE  RequestInv'
<1> USE NothingIsNone DEF RequestInv, Q!Prelude, Q!replyVars, Q!Fails, Q!Releases, Q!Stops
<1>1. RequestTypes'
  BY DEF RequestTypes, Stages
<1>2. Holds'
  BY DEF Holds, RequestTypes, Invoking, Dispatched
<1>3. Hears'
  BY DEF Hears, RequestTypes
<1>4. Runs'
  BY DEF Invoking, Runs, RequestTypes
<1>5. called' \subseteq cleared' /\ again' = {}
  BY DEF Holds, Invoking
<1> QED BY <1>1, <1>2, <1>3, <1>4, <1>5

LEMMA ReadsKeeps ==
  ASSUME RequestInv, NEW r \in Requests, Q!Reads(r)
  PROVE  RequestInv'
<1> USE NothingIsNone DEF RequestInv, Q!Reads, Q!replyVars, Q!Stops
<1>1. RequestTypes'
  BY DEF RequestTypes
<1>2. Holds'
  BY DEF Holds
<1>3. Hears'
  BY DEF Hears, RequestTypes
<1>4. Runs'
  BY DEF Invoking, Runs, Hears
<1>5. called' \subseteq cleared' /\ again' = {}
  OBVIOUS
<1> QED BY <1>1, <1>2, <1>3, <1>4, <1>5

LEMMA ErrsKeeps ==
  ASSUME RequestInv, NEW r \in Requests, Q!Errs(r)
  PROVE  RequestInv'
<1> USE NothingIsNone DEF RequestInv, Q!Errs, Q!replyVars, Q!ReleaseOnce, Q!Releases
<1>1. RequestTypes'
  BY DEF RequestTypes
<1>2. Holds'
  BY DEF Holds, RequestTypes, Invoking
<1>3. Hears'
  BY DEF Hears
<1>4. Runs'
  BY DEF Invoking, Runs, RequestTypes
<1>5. called' \subseteq cleared' /\ again' = {}
  BY DEF Holds
<1> QED BY <1>1, <1>2, <1>3, <1>4, <1>5

LEMMA TakenKeeps ==
  ASSUME RequestInv, NEW r \in Requests, Q!Taken(r)
  PROVE  RequestInv'
<1> USE NothingIsNone DEF RequestInv, Q!Taken, Q!replyVars
<1>1. RequestTypes'
  BY DEF RequestTypes
<1>2. Holds'
  BY DEF Holds
<1>3. Hears'
  BY DEF Hears
<1>4. Runs'
  BY DEF Invoking, Runs
<1>5. called' \subseteq cleared' /\ again' = {}
  OBVIOUS
<1> QED BY <1>1, <1>2, <1>3, <1>4, <1>5

LEMMA ClosesKeeps ==
  ASSUME RequestInv, NEW r \in Requests, Q!Closes(r)
  PROVE  RequestInv'
<1> USE NothingIsNone DEF RequestInv, Q!Closes, Q!replyVars, Q!ReleaseOnce, Q!Releases
<1>1. RequestTypes'
  BY DEF RequestTypes
<1>2. Holds'
  BY DEF Holds, RequestTypes, Invoking
<1>3. Hears'
  BY DEF Hears
<1>4. Runs'
  BY DEF Invoking, Runs, Holds, RequestTypes
<1>5. called' \subseteq cleared' /\ again' = {}
  BY DEF Holds
<1> QED BY <1>1, <1>2, <1>3, <1>4, <1>5

LEMMA TimesOutKeeps ==
  ASSUME RequestInv, NEW r \in Requests, Q!TimesOut(r)
  PROVE  RequestInv'
<1> USE NothingIsNone DEF RequestInv, Q!TimesOut, Q!replyVars
<1>1. RequestTypes'
  BY DEF RequestTypes
<1>2. Holds'
  BY DEF Holds
<1>3. Hears'
  BY DEF Hears
<1>4. Runs'
  BY DEF Invoking, Runs
<1>5. called' \subseteq cleared' /\ again' = {}
  OBVIOUS
<1> QED BY <1>1, <1>2, <1>3, <1>4, <1>5

LEMMA LeavesKeeps ==
  ASSUME RequestInv, NEW r \in Requests, Q!Leaves(r)
  PROVE  RequestInv'
<1> USE NothingIsNone DEF RequestInv, Q!Leaves, Q!replyVars, Q!ReleaseOnce, Q!Releases
<1>1. RequestTypes'
  BY DEF RequestTypes
<1>2. Holds'
  BY DEF Holds, RequestTypes, Invoking
<1>3. Hears'
  BY DEF Hears
<1>4. Runs'
  BY DEF Invoking, Runs, Holds, RequestTypes
<1>5. called' \subseteq cleared' /\ again' = {}
  BY DEF Holds
<1> QED BY <1>1, <1>2, <1>3, <1>4, <1>5

LEMMA HandlerRunsKeep ==
  ASSUME RequestInv, NEW c \in Pooled, Q!HandlerRuns(c)
  PROVE  RequestInv'
<1> USE NothingIsNone DEF RequestInv, Q!HandlerRuns, Q!replyVars
<1>1. RequestTypes'
  BY DEF RequestTypes
<1>2. Holds'
  BY DEF Holds
<1>3. Hears'
  BY DEF Hears, Runs, RequestTypes
<1>4. Runs'
  BY DEF Invoking, Runs, RequestTypes
<1>5. called' \subseteq cleared' /\ again' = {}
  OBVIOUS
<1> QED BY <1>1, <1>2, <1>3, <1>4, <1>5

LEMMA RequestKeeps ==
  ASSUME RequestInv, [Q!RequestNext]_Q!requestVars
  PROVE  RequestInv'
<1>1. ASSUME NEW r \in Requests, Q!Handles(r) PROVE RequestInv'
  BY <1>1, BodyReadKeeps, BodyFailsKeeps, AuthorizesKeeps, CalledKeeps, AcquiresKeeps,
     DeliveredKeeps, RefusedKeeps, RetriesKeeps, AbortedKeeps, RespondsKeeps, TextKeeps,
     PreludeKeeps, ReadsKeeps, ErrsKeeps, TakenKeeps, ClosesKeeps
     DEF Q!Handles
<1>2. CASE UNCHANGED Q!requestVars
  BY <1>2 DEF Q!requestVars, Q!replyVars, RequestInv, RequestTypes, Holds, Hears, Runs
<1> QED BY <1>1, <1>2, TimesOutKeeps, LeavesKeeps, HandlerRunsKeep DEF Q!RequestNext

-----------------------------------------------------------------------------
(* The connections of a WebSocket API: what WebSocketServerProofs says of   *)
(* WebSocketServer holds of its instance W.                                 *)

WP == INSTANCE WebSocketServerProofs WITH phase <- connection, drained <- unsettled

LEMMA SocketConstants == WP!WebSocketAssumption
BY RunningAssumption DEF W!WebSocketAssumption, WP!WebSocketAssumption

LEMMA SocketsBegin == W!Init => WP!SocketInv
<1>1. W!Init => WP!Init
  BY DEF W!Init, WP!Init
<1> QED BY <1>1, SocketConstants, WP!InitSocketInv

(* Both stand for the same steps. *)
LEMMA SameSteps ==
  ASSUME [W!Next]_W!vars
  PROVE  [WP!Next]_WP!vars
<1>1. CASE W!Next
  BY <1>1 DEF W!vars, WP!vars, W!connVars, WP!connVars, W!closeVars, WP!closeVars,
      W!histVars, WP!histVars, W!Bye, WP!Bye, W!Live, WP!Live, W!BufferDispatched,
      WP!BufferDispatched, W!Register, WP!Register, W!Upgrade, WP!Upgrade, W!StillOpen,
      WP!StillOpen, W!Allowed, WP!Allowed, W!Denied, WP!Denied, W!Enqueued, WP!Enqueued,
      W!BufferFull, WP!BufferFull, W!FrameArrives, WP!FrameArrives, W!PeerCloses,
      WP!PeerCloses, W!SocketCloses, WP!SocketCloses, W!DeleteConnection,
      WP!DeleteConnection, W!PreviousEnded, WP!PreviousEnded, W!HandlerStarts,
      WP!HandlerStarts, W!HandlerEnds, WP!HandlerEnds, W!Close, WP!Close,
      W!CloseTimeout, WP!CloseTimeout, W!SocketsClosed, WP!SocketsClosed,
      W!InFlightDisconnects, WP!InFlightDisconnects, W!Drain, WP!Drain,
      W!DrainCompletes, WP!DrainCompletes, W!DrainTimesOut, WP!DrainTimesOut,
      W!ClientsLeft, WP!ClientsLeft, W!Closed, WP!Closed, W!CloseStep, WP!CloseStep,
      W!Next, WP!Next, W!Contains, WP!Contains
<1>2. CASE UNCHANGED W!vars
  BY <1>2 DEF W!vars, WP!vars, W!connVars, WP!connVars, W!closeVars, WP!closeVars,
      W!histVars, WP!histVars
<1> QED BY <1>1, <1>2

LEMMA SocketsKeep ==
  ASSUME WP!SocketInv, [W!Next]_W!vars
  PROVE  WP!SocketInv'
BY SameSteps, SocketConstants, WP!SocketInvStep

LEMMA SocketSafety == WP!SocketInv => NothingLost
<1> SUFFICES ASSUME WP!SocketInv PROVE NothingLost
  OBVIOUS
<1>1. WP!TypeOK /\ WP!NothingLost /\ WP!ByeBeforeClosed
  BY SocketConstants, WP!FramesAccounted, WP!NothingLeftOpen DEF WP!SocketInv
<1>2. W!TypeOK
  BY <1>1 DEF W!TypeOK, WP!TypeOK
<1>3. W!NothingLost
  BY <1>1 DEF W!NothingLost, WP!NothingLost, W!Pending, WP!Pending, W!Bye, WP!Bye,
      W!ToSet, WP!ToSet, W!Contains, WP!Contains
<1>4. W!ByeBeforeClosed
  BY <1>1 DEF W!ByeBeforeClosed, WP!ByeBeforeClosed, W!Live, WP!Live
<1> QED BY <1>2, <1>3, <1>4 DEF NothingLost

-----------------------------------------------------------------------------
(* Induction over data, by the least counterexample.                         *)

(* A non-empty set of numbers has a least one.                               *)
LEMMA Least ==
  ASSUME NEW S \in SUBSET Nat, S # {}
  PROVE  \E x \in S : \A y \in S : x <= y
<1> DEFINE Less == {n \in Nat \X Nat : n[1] < n[2]}
<1>1. OpToRel(<, Nat) = Less
  BY Zenon DEF OpToRel
<1>2. PICK x \in S : \A y \in S : <<y, x>> \notin Less
  BY <1>1, NatLessThanWellFounded, WFMin
<1>3. \A y \in S : x <= y
  <2> TAKE y \in S
  <2>1. x \in Nat /\ y \in Nat
    OBVIOUS
  <2>2. ~(y < x)
    BY <1>2, <2>1
  <2> QED BY <2>1, <2>2
<1> QED BY <1>3

-----------------------------------------------------------------------------
(* The routes                                                               *)

(* What the passes need to know of a list of routes.                         *)
Listed(rs) ==
  /\ DOMAIN rs = 1 .. Len(rs) /\ Len(rs) \in Nat
  /\ \A i \in DOMAIN rs : /\ rs[i].tier \in {"full", "greedy", "$default"}
                          /\ R!LiteralCount(rs[i]) \in Nat

(* The first of the routes with the most literals goes before the others.    *)
Leads(rs, i, j) ==
  \/ R!LiteralCount(rs[j]) < R!LiteralCount(rs[i])
  \/ R!LiteralCount(rs[j]) = R!LiteralCount(rs[i]) /\ i <= j
Foremost(rs, T) == CHOOSE i \in T : \A j \in T : Leads(rs, i, j)

LEMMA OneLeads ==
  ASSUME NEW rs, Listed(rs), NEW T \in SUBSET DOMAIN rs, T # {}
  PROVE  \E i \in T : \A j \in T : Leads(rs, i, j)
<1> DEFINE Led(k) == \A U \in SUBSET (1 .. k) : U # {} => \E i \in U : \A j \in U : Leads(rs, i, j)
           bad == {k \in 0 .. Len(rs) : ~Led(k)}
<1>0. Len(rs) \in Nat /\ DOMAIN rs = 1 .. Len(rs)
  BY DEF Listed
<1>1. Led(0)
  <2>1. 1 .. 0 = {}
    OBVIOUS
  <2>2. \A U \in SUBSET (1 .. 0) : U = {}
    BY <2>1
  <2> QED BY <2>2
<1>2. ASSUME NEW k \in 0 .. Len(rs), k < Len(rs), Led(k) PROVE Led(k + 1)
  <2> SUFFICES ASSUME NEW U \in SUBSET (1 .. k + 1), U # {}
               PROVE  \E i \in U : \A j \in U : Leads(rs, i, j)
    OBVIOUS
  <2>1. U \ {k + 1} \in SUBSET (1 .. k) /\ k + 1 \in DOMAIN rs /\ \A j \in U : j \in DOMAIN rs
    BY <1>0, <1>2
  <2>2. \A j \in DOMAIN rs : R!LiteralCount(rs[j]) \in Nat /\ j \in Nat
    BY <1>0 DEF Listed
  <2>3. CASE U \ {k + 1} = {}
    <3>1. U = {k + 1}
      BY <2>3
    <3>2. Leads(rs, k + 1, k + 1)
      BY <2>1, <2>2 DEF Leads
    <3> QED BY <3>1, <3>2
  <2>4. CASE U \ {k + 1} # {}
    <3>1. PICK i \in U \ {k + 1} : \A j \in U \ {k + 1} : Leads(rs, i, j)
      BY <1>2, <2>1, <2>4
    <3>2. i \in 1 .. k /\ i <= k + 1
      BY <1>0, <2>1, <3>1
    <3>3. CASE k + 1 \notin U \/ ~(R!LiteralCount(rs[i]) < R!LiteralCount(rs[k + 1]))
      BY <2>1, <2>2, <3>1, <3>2, <3>3 DEF Leads
    <3>4. CASE k + 1 \in U /\ R!LiteralCount(rs[i]) < R!LiteralCount(rs[k + 1])
      <4>1. \A j \in U : Leads(rs, k + 1, j)
        BY <2>1, <2>2, <3>1, <3>2, <3>4 DEF Leads
      <4> QED BY <3>4, <4>1
    <3> QED BY <3>3, <3>4
  <2> QED BY <2>3, <2>4
<1> HIDE DEF Led
<1>3. bad = {}
  <2> SUFFICES ASSUME bad # {} PROVE FALSE
    OBVIOUS
  <2>1. PICK e \in bad : \A f \in bad : e <= f
    <3>1. bad \in SUBSET Nat
      BY <1>0
    <3> HIDE DEF bad
    <3> QED BY <3>1, Least
  <2>2. e # 0 /\ e \in 0 .. Len(rs)
    BY <1>1
  <2>3. e - 1 \in 0 .. Len(rs) /\ e - 1 < Len(rs) /\ (e - 1) + 1 = e /\ e - 1 \notin bad
    BY <1>0, <2>1, <2>2
  <2>4. Led(e - 1)
    BY <2>3
  <2> QED BY <1>2, <2>3, <2>4
<1>4. Led(Len(rs))
  BY <1>0, <1>3
<1> QED BY <1>0, <1>4 DEF Led

LEMMA ForemostLeads ==
  ASSUME NEW rs, Listed(rs), NEW T \in SUBSET DOMAIN rs, T # {}
  PROVE  /\ Foremost(rs, T) \in T /\ \A j \in T : Leads(rs, Foremost(rs, T), j)
         /\ \A i \in T : (\A j \in T : Leads(rs, i, j)) => i = Foremost(rs, T)
<1>1. Foremost(rs, T) \in T /\ \A j \in T : Leads(rs, Foremost(rs, T), j)
  BY OneLeads DEF Foremost
<1>2. \A j \in DOMAIN rs : R!LiteralCount(rs[j]) \in Nat /\ j \in Nat
  BY DEF Listed
<1>3. ASSUME NEW i \in T, \A j \in T : Leads(rs, i, j) PROVE i = Foremost(rs, T)
  BY <1>1, <1>2, <1>3 DEF Leads
<1> QED BY <1>1, <1>3

-----------------------------------------------------------------------------
(* A pass is a fold over the indices of the routes.                          *)

Taken(tier, method, path, rs, S) == {i \in S : rs[i].tier = tier /\ R!Hit(rs[i], method, path)}
Better(tier, method, path, rs, best, i) ==
  IF /\ rs[i].tier = tier /\ R!Hit(rs[i], method, path)
     /\ best = 0 \/ R!LiteralCount(rs[i]) > R!LiteralCount(rs[best])
  THEN i ELSE best
Ids(rs) == [i \in 1 .. Len(rs) |-> i]
Folded(tier, method, path, rs, f, S) ==
  IF S = {} THEN 0 ELSE Better(tier, method, path, rs, f[S \ {R!Max(S)}], Ids(rs)[R!Max(S)])
Fold(tier, method, path, rs) ==
  CHOOSE f : f = [S \in SUBSET DOMAIN Ids(rs) |-> Folded(tier, method, path, rs, f, S)]
Best(tier, method, path, rs, S) ==
  IF Taken(tier, method, path, rs, S) = {} THEN 0
  ELSE Foremost(rs, Taken(tier, method, path, rs, S))

(* The fold, and the equation its function solves.                           *)
LEMMA PassFold ==
  ASSUME NEW rs, NEW tier, NEW method, NEW path
  PROVE R!Pass(tier, method, path, rs) = Fold(tier, method, path, rs)[DOMAIN Ids(rs)]
BY Zenon DEF R!Pass, R!FoldLeft, R!MapThenFoldSet, Fold, Folded, Ids, Better

LEMMA Maximum ==
  ASSUME NEW n \in Nat, NEW S \in SUBSET (1 .. n), S # {}
  PROVE  R!Max(S) \in S /\ \A y \in S : R!Max(S) >= y
<1> DEFINE T == {n - y : y \in S}
<1>1. T \in SUBSET Nat /\ T # {}
  <2>1. \A y \in S : n - y \in Nat
    OBVIOUS
  <2> QED BY <2>1
<1>2. PICK t \in T : \A u \in T : t <= u
  <2> HIDE DEF T
  <2> QED BY <1>1, Least
<1>3. PICK x \in S : t = n - x
  OBVIOUS
<1>4. \A y \in S : x >= y
  <2> TAKE y \in S
  <2>1. n - y \in T
    OBVIOUS
  <2>2. n - x <= n - y
    BY <1>2, <1>3, <2>1
  <2> QED BY <2>2
<1> QED BY <1>4 DEF R!Max

(* One more route, behind the others.                                        *)
LEMMA BestOfMore ==
  ASSUME NEW tier, NEW method, NEW path, NEW rs, Listed(rs),
         NEW S \in SUBSET DOMAIN rs, NEW x \in S, \A y \in S : x >= y
  PROVE  Best(tier, method, path, rs, S) =
           Better(tier, method, path, rs, Best(tier, method, path, rs, S \ {x}), x)
<1> DEFINE T == Taken(tier, method, path, rs, S)
           U == Taken(tier, method, path, rs, S \ {x})
<1>1. \A j \in DOMAIN rs : R!LiteralCount(rs[j]) \in Nat /\ j \in Nat \ {0}
  BY DEF Listed
<1>2. T \in SUBSET DOMAIN rs /\ U \in SUBSET DOMAIN rs /\ U = T \ {x}
  BY DEF Taken
<1>3. x \in T <=> rs[x].tier = tier /\ R!Hit(rs[x], method, path)
  BY DEF Taken
<1>4. /\ Best(tier, method, path, rs, S) = IF T = {} THEN 0 ELSE Foremost(rs, T)
      /\ Best(tier, method, path, rs, S \ {x}) = IF U = {} THEN 0 ELSE Foremost(rs, U)
  BY DEF Best
<1>5. \A y \in T : x >= y
  BY DEF Taken
<1> HIDE DEF T, U
<1>6. CASE x \notin T
  <2>1. U = T
    BY <1>2, <1>6
  <2> QED BY <1>3, <1>4, <1>6, <2>1 DEF Better
<1>7. CASE x \in T /\ U = {}
  <2>1. T = {x}
    BY <1>2, <1>7
  <2>2. Foremost(rs, T) = x
    BY <1>2, <2>1, ForemostLeads
  <2> QED BY <1>3, <1>4, <1>7, <2>1, <2>2 DEF Better
<1>8. CASE x \in T /\ U # {}
  <2> DEFINE b == Foremost(rs, U)
  <2>1. b \in U /\ \A j \in U : Leads(rs, b, j)
    BY <1>2, <1>8, ForemostLeads
  <2>2. b \in DOMAIN rs /\ b # 0 /\ b # x /\ x >= b /\ x \in DOMAIN rs
    BY <1>1, <1>2, <1>5, <2>1
  <2> HIDE DEF b
  <2>3. CASE R!LiteralCount(rs[x]) > R!LiteralCount(rs[b])
    <3>1. \A j \in T : Leads(rs, x, j)
      BY <1>1, <1>2, <1>8, <2>1, <2>2, <2>3 DEF Leads
    <3>2. x = Foremost(rs, T)
      BY <1>2, <1>8, <3>1, ForemostLeads
    <3> QED BY <1>3, <1>4, <1>8, <2>3, <3>2 DEF Better, b
  <2>4. CASE ~(R!LiteralCount(rs[x]) > R!LiteralCount(rs[b]))
    <3>1. \A j \in T : Leads(rs, b, j)
      <4>1. Leads(rs, b, x)
        BY <1>1, <2>2, <2>4 DEF Leads
      <4> QED BY <1>2, <2>1, <4>1
    <3>2. b = Foremost(rs, T)
      BY <1>2, <1>8, <2>1, <3>1, ForemostLeads
    <3> QED BY <1>3, <1>4, <1>8, <2>2, <2>4, <3>2 DEF Better, b
  <2> QED BY <2>3, <2>4
<1> QED BY <1>6, <1>7, <1>8

(* A pass keeps the first of the routes of its tier with the most literals.  *)
LEMMA PassKeepsBest ==
  ASSUME NEW tier, NEW method, NEW path, NEW rs, Listed(rs)
  PROVE  R!Pass(tier, method, path, rs) = Best(tier, method, path, rs, DOMAIN rs)
<1> DEFINE B(S) == Best(tier, method, path, rs, S)
           F == [S \in SUBSET DOMAIN Ids(rs) |-> B(S)]
           f == Fold(tier, method, path, rs)
<1>0. /\ DOMAIN Ids(rs) = 1 .. Len(rs) /\ DOMAIN rs = 1 .. Len(rs) /\ Len(rs) \in Nat
      /\ \A i \in 1 .. Len(rs) : Ids(rs)[i] = i
  BY DEF Ids, Listed
<1>1. B({}) = 0
  BY DEF Best, Taken
<1>2. ASSUME NEW S \in SUBSET DOMAIN rs, S # {}
      PROVE  /\ R!Max(S) \in S /\ S \ {R!Max(S)} \in SUBSET DOMAIN rs
             /\ B(S) = Better(tier, method, path, rs, B(S \ {R!Max(S)}), R!Max(S))
  <2>1. R!Max(S) \in S /\ \A y \in S : R!Max(S) >= y
    BY <1>0, <1>2, Maximum
  <2> QED BY <2>1, BestOfMore
<1> HIDE DEF B
<1>3. F = [S \in SUBSET DOMAIN Ids(rs) |-> Folded(tier, method, path, rs, F, S)]
  <2>1. \A S \in SUBSET DOMAIN Ids(rs) : F[S] = B(S)
    OBVIOUS
  <2> HIDE DEF F
  <2>2. ASSUME NEW S \in SUBSET DOMAIN Ids(rs) PROVE B(S) = Folded(tier, method, path, rs, F, S)
    <3>1. CASE S = {}
      BY <1>1, <3>1 DEF Folded
    <3>2. CASE S # {}
      <4>1. /\ R!Max(S) \in S /\ S \ {R!Max(S)} \in SUBSET DOMAIN Ids(rs)
            /\ B(S) = Better(tier, method, path, rs, B(S \ {R!Max(S)}), R!Max(S))
        BY <1>0, <1>2, <3>2
      <4>2. Ids(rs)[R!Max(S)] = R!Max(S) /\ F[S \ {R!Max(S)}] = B(S \ {R!Max(S)})
        BY <1>0, <2>1, <4>1
      <4> QED BY <3>2, <4>1, <4>2 DEF Folded
    <3> QED BY <3>1, <3>2
  <2> QED BY <2>2 DEF F
<1>4. f = [S \in SUBSET DOMAIN Ids(rs) |-> Folded(tier, method, path, rs, f, S)]
  <2> HIDE DEF F
  <2> QED BY <1>3, Zenon DEF Fold
<1> HIDE DEF f
<1>5. \A S \in SUBSET DOMAIN Ids(rs) : f[S] = Folded(tier, method, path, rs, f, S)
  BY <1>4
<1> DEFINE Same(k) == f[1 .. k] = B(1 .. k)
           bad == {k \in 0 .. Len(rs) : ~Same(k)}
<1>6. Same(0)
  <2>1. 1 .. 0 = {} /\ {} \in SUBSET DOMAIN Ids(rs)
    OBVIOUS
  <2>2. f[{}] = 0
    BY <1>5, <2>1 DEF Folded
  <2> QED BY <1>1, <2>1, <2>2
<1>7. ASSUME NEW k \in 0 .. Len(rs), k < Len(rs), Same(k) PROVE Same(k + 1)
  <2>1. 1 .. k + 1 \in SUBSET DOMAIN rs /\ 1 .. k + 1 # {}
    BY <1>0, <1>7
  <2>2. R!Max(1 .. k + 1) = k + 1
    <3>1. R!Max(1 .. k + 1) \in 1 .. k + 1 /\ \A y \in 1 .. k + 1 : R!Max(1 .. k + 1) >= y
      BY <1>0, <2>1, Maximum
    <3>2. k + 1 \in 1 .. k + 1
      BY <1>0
    <3> HIDE DEF bad
    <3> QED BY <1>0, <3>1, <3>2
  <2>3. (1 .. k + 1) \ {k + 1} = 1 .. k
    BY <1>0
  <2>4. B(1 .. k + 1) = Better(tier, method, path, rs, B(1 .. k), k + 1)
    BY <1>2, <2>1, <2>2, <2>3
  <2>5. f[1 .. k + 1] = Better(tier, method, path, rs, f[1 .. k], k + 1)
    <3>1. f[1 .. k + 1] = Folded(tier, method, path, rs, f, 1 .. k + 1)
      BY <1>0, <1>5, <2>1
    <3>2. Ids(rs)[k + 1] = k + 1
      BY <1>0, <1>7
    <3> QED BY <2>1, <2>2, <2>3, <3>1, <3>2 DEF Folded
  <2> QED BY <1>7, <2>4, <2>5
<1> HIDE DEF Same
<1>8. bad = {}
  <2> SUFFICES ASSUME bad # {} PROVE FALSE
    OBVIOUS
  <2>1. PICK e \in bad : \A g \in bad : e <= g
    <3>1. bad \in SUBSET Nat
      BY <1>0
    <3> HIDE DEF bad
    <3> QED BY <3>1, Least
  <2>2. e # 0 /\ e \in 0 .. Len(rs)
    BY <1>6
  <2>3. e - 1 \in 0 .. Len(rs) /\ e - 1 < Len(rs) /\ (e - 1) + 1 = e /\ e - 1 \notin bad
    BY <1>0, <2>1, <2>2
  <2>4. Same(e - 1)
    BY <2>3
  <2> QED BY <1>7, <2>3, <2>4
<1>9. Same(Len(rs))
  BY <1>0, <1>8
<1> QED BY <1>0, <1>9, PassFold DEF Same, B, f

LEMMA PassTakes ==
  ASSUME NEW tier, NEW method, NEW path, NEW rs, Listed(rs)
  PROVE  LET hit == R!Pass(tier, method, path, rs)
             taken == Taken(tier, method, path, rs, DOMAIN rs)
         IN /\ taken = {} => hit = 0
            /\ taken # {} => hit \in taken /\ \A i \in taken : Leads(rs, hit, i)
<1> DEFINE taken == Taken(tier, method, path, rs, DOMAIN rs)
<1>1. taken \in SUBSET DOMAIN rs
  BY DEF Taken
<1>2. R!Pass(tier, method, path, rs) = IF taken = {} THEN 0 ELSE Foremost(rs, taken)
  BY PassKeepsBest DEF Best
<1> HIDE DEF taken
<1>3. taken # {} => Foremost(rs, taken) \in taken /\ \A j \in taken : Leads(rs, Foremost(rs, taken), j)
  BY <1>1, ForemostLeads
<1> QED BY <1>2, <1>3 DEF taken

(* The first tier in which a route hits.                                     *)
LEMMA FirstPass ==
  ASSUME NEW method, NEW path, NEW rs, Listed(rs)
  PROVE  R!matchRoute(method, path, rs) =
           IF R!Pass("full", method, path, rs) # 0 THEN R!Pass("full", method, path, rs)
           ELSE IF R!Pass("greedy", method, path, rs) # 0 THEN R!Pass("greedy", method, path, rs)
           ELSE R!Pass("$default", method, path, rs)
<1> DEFINE a == R!Pass("full", method, path, rs)
           b == R!Pass("greedy", method, path, rs)
           c == R!Pass("$default", method, path, rs)
           passes == <<a, b, c, 0>>
           Fits(k) == (k = 4 \/ passes[k] # 0) /\ \A j \in 1 .. k - 1 : passes[j] = 0
<1>1. R!matchRoute(method, path, rs) = passes[CHOOSE k \in 1 .. 4 : Fits(k)]
  BY DEF R!matchRoute
<1> HIDE DEF a, b, c
<1>2. passes[1] = a /\ passes[2] = b /\ passes[3] = c /\ passes[4] = 0
  OBVIOUS
<1>3. \A k, l \in 1 .. 4 : Fits(k) /\ Fits(l) => k = l
  <2> SUFFICES ASSUME NEW k \in 1 .. 4, NEW l \in 1 .. 4, Fits(k), Fits(l), k < l PROVE FALSE
    OBVIOUS
  <2>1. k \in 1 .. l - 1 /\ k # 4
    OBVIOUS
  <2> QED BY <2>1
<1> HIDE DEF passes
<1>4. /\ a # 0 => Fits(1)
      /\ a = 0 /\ b # 0 => Fits(2)
      /\ a = 0 /\ b = 0 /\ c # 0 => Fits(3)
      /\ a = 0 /\ b = 0 /\ c = 0 => Fits(4)
  BY <1>2
<1> HIDE DEF Fits
<1>5. PICK n \in 1 .. 4 : Fits(n)
  BY <1>4
<1>6. (CHOOSE k \in 1 .. 4 : Fits(k)) = n
  BY <1>3, <1>5
<1>7. passes[n] = IF a # 0 THEN a ELSE IF b # 0 THEN b ELSE c
  BY <1>2, <1>3, <1>4, <1>5
<1> QED BY <1>1, <1>6, <1>7 DEF a, b, c

(* What the tiers are, and that a pattern of a known tier is matched by both *)
(* copies of the rules alike.                                                *)
LEMMA HitsOwnTier ==
  ASSUME NEW method, NEW path, NEW rs, Listed(rs), NEW i \in DOMAIN rs, R!Hit(rs[i], method, path)
  PROVE  R!methodMatches(rs[i], method) /\ R!pathPatternMatchesPath(rs[i], path)
<1>1. rs[i].tier \in {"full", "greedy", "$default"}
  BY DEF Listed
<1> QED BY <1>1 DEF R!Hit, R!pathPatternMatchesPath

(* matchRoute, for any list of routes.                                       *)
LEMMA MatchTakes ==
  ASSUME NEW method, NEW path, NEW rs, Listed(rs)
  PROVE  LET hit == R!matchRoute(method, path, rs)
             takers == {i \in DOMAIN rs : R!Hit(rs[i], method, path)}
         IN IF takers = {} THEN hit = 0
            ELSE /\ hit \in takers
                 /\ \A i \in takers : R!MoreSpecific(rs[i], rs[hit]) = FALSE
                 /\ \A i \in takers : i < hit => R!MoreSpecific(rs[hit], rs[i])
<1> DEFINE takers == {i \in DOMAIN rs : R!Hit(rs[i], method, path)}
           hit == R!matchRoute(method, path, rs)
           Of(tier) == Taken(tier, method, path, rs, DOMAIN rs)
<1>0. 0 \notin DOMAIN rs /\ \A j \in DOMAIN rs : R!LiteralCount(rs[j]) \in Nat /\ j \in Nat
  BY DEF Listed
<1>1. /\ \A i \in takers : rs[i].tier \in {"full", "greedy", "$default"}
      /\ \A t : Of(t) = {i \in takers : rs[i].tier = t}
  BY DEF Listed, Taken
<1>2. \A t \in {"full", "greedy", "$default"} :
        /\ Of(t) = {} => R!Pass(t, method, path, rs) = 0
        /\ Of(t) # {} => /\ R!Pass(t, method, path, rs) \in Of(t)
                         /\ \A i \in Of(t) : Leads(rs, R!Pass(t, method, path, rs), i)
  BY PassTakes
<1>3. \A t : Of(t) \subseteq DOMAIN rs
  BY DEF Taken
<1>4. CASE takers = {}
  <2>1. \A t : Of(t) = {}
    BY <1>1, <1>4
  <2>2. hit = 0
    BY <1>2, <2>1, FirstPass
  <2> QED BY <1>4, <2>2
<1>5. CASE takers # {}
  <2>1. PICK t \in {"full", "greedy", "$default"} :
          /\ Of(t) # {} /\ hit = R!Pass(t, method, path, rs)
          /\ t \in {"greedy", "$default"} => Of("full") = {}
          /\ t = "$default" => Of("greedy") = {}
    <3>1. \A u \in {"full", "greedy", "$default"} : R!Pass(u, method, path, rs) # 0 <=> Of(u) # {}
      BY <1>0, <1>2, <1>3
    <3>2. \E u \in {"full", "greedy", "$default"} : Of(u) # {}
      BY <1>1, <1>5
    <3>3. hit = IF Of("full") # {} THEN R!Pass("full", method, path, rs)
                ELSE IF Of("greedy") # {} THEN R!Pass("greedy", method, path, rs)
                ELSE R!Pass("$default", method, path, rs)
      BY <3>1, FirstPass
    <3> HIDE DEF Of, hit
    <3> QED BY <3>2, <3>3
  <2>2. hit \in Of(t) /\ \A i \in Of(t) : Leads(rs, hit, i)
    BY <1>2, <2>1
  <2> HIDE DEF hit, takers, Of
  <2>3. hit \in takers /\ rs[hit].tier = t
    BY <1>1, <2>2
  <2>4. ASSUME NEW i \in takers
        PROVE  /\ R!Tier(rs[hit]) < R!Tier(rs[i]) \/ (R!Tier(rs[hit]) = R!Tier(rs[i]) /\ i \in Of(t))
               /\ R!Tier(rs[hit]) \in 1 .. 3 /\ R!Tier(rs[i]) \in 1 .. 3
    <3>1. rs[i].tier \in {"full", "greedy", "$default"} /\ i \in Of(rs[i].tier)
      BY <1>1
    <3>2. R!Tier(rs[i]) = IF rs[i].tier = "full" THEN 1 ELSE IF rs[i].tier = "greedy" THEN 2 ELSE 3
      BY <3>1 DEF R!Tier
    <3>3. R!Tier(rs[hit]) = IF t = "full" THEN 1 ELSE IF t = "greedy" THEN 2 ELSE 3
      BY <2>3 DEF R!Tier
    <3> QED BY <2>1, <3>1, <3>2, <3>3
  <2>5. hit \in DOMAIN rs /\ \A i \in takers : i \in DOMAIN rs
    BY <2>3 DEF takers
  <2>6. ASSUME NEW i \in takers
        PROVE  ~R!MoreSpecific(rs[i], rs[hit]) /\ (i < hit => R!MoreSpecific(rs[hit], rs[i]))
    <3>1. i \in Of(t) => Leads(rs, hit, i)
      BY <2>2
    <3> QED BY <1>0, <2>4, <2>5, <3>1 DEF Leads, R!MoreSpecific
  <2> QED BY <1>5, <2>3, <2>6 DEF hit, takers
<1> QED BY <1>4, <1>5

LEMMA RoutesListed == ASSUME routes \in Seq(Routes) PROVE Listed(routes)
<1>1. ASSUME NEW i \in DOMAIN routes
      PROVE  routes[i].tier \in {"full", "greedy", "$default"} /\ R!LiteralCount(routes[i]) \in Nat
  <2>1. routes[i] \in Routes
    OBVIOUS
  <2>2. /\ routes[i].tier \in {"full", "greedy", "$default"}
        /\ routes[i].segments \in Seq(R!ToSet(routes[i].segments))
    BY <2>1, RunningAssumption DEF R!RoutesAssumption
  <2>3. DOMAIN routes[i].segments = 1 .. Len(routes[i].segments) /\ Len(routes[i].segments) \in Nat
    BY <2>2
  <2>4. IsFiniteSet(DOMAIN routes[i].segments)
    BY <2>3, FS_Interval
  <2> DEFINE literals == {k \in DOMAIN routes[i].segments : routes[i].segments[k] # Placeholder}
  <2>5. IsFiniteSet(literals)
    <3>1. literals \subseteq DOMAIN routes[i].segments
      OBVIOUS
    <3> HIDE DEF literals
    <3> QED BY <2>4, <3>1, FS_Subset
  <2>6. Cardinality(literals) \in Nat
    <3> HIDE DEF literals
    <3> QED BY <2>5, FS_CardinalityType
  <2>7. R!LiteralCount(routes[i]) = Cardinality(literals)
    BY Zenon DEF R!LiteralCount, R!Cardinality, Cardinality
  <2> HIDE DEF literals
  <2> QED BY <2>2, <2>6, <2>7
<1> QED BY <1>1 DEF Listed

LEMMA PreflightsOwned ==
  ASSUME routes \in Seq(Routes), NEW path PROVE R!PreflightOwned("GET", path)
<1> DEFINE api == R!Preflight("GET", path, routes)
           methodOf(r) == IF r.api = api THEN r.method ELSE "of another API"
           own == [i \in DOMAIN routes |-> [method |-> methodOf(routes[i]),
                     tier |-> routes[i].tier, segments |-> routes[i].segments]]
           hit == R!matchRoute("GET", path, routes)
           servedBy == R!matchRoute("OPTIONS", path, own)
<1> SUFFICES ASSUME api # "none"
             PROVE  routes[hit].api = api /\ (servedBy = 0 \/ own[servedBy].method = "ANY")
  BY DEF R!PreflightOwned
<1>1. /\ hit # 0 /\ api = routes[hit].api
      /\ \A i \in DOMAIN routes : routes[i].api = api /\ routes[i].method = "OPTIONS" =>
           ~R!pathPatternMatchesPath(routes[i], path)
  BY DEF R!Preflight
<1> HIDE DEF api, hit
<1>2. Listed(own)
  <2>1. Listed(routes)
    BY RoutesListed
  <2>2. DOMAIN own = 1 .. Len(routes) /\ Len(own) = Len(routes) /\ Len(routes) \in Nat
    <3>1. DOMAIN own = DOMAIN routes /\ DOMAIN routes = 1 .. Len(routes) /\ Len(routes) \in Nat
      OBVIOUS
    <3> HIDE DEF own
    <3> QED BY <3>1
  <2>3. \A i \in DOMAIN routes : own[i].tier = routes[i].tier /\ own[i].segments = routes[i].segments
    OBVIOUS
  <2> HIDE DEF own
  <2>4. \A i \in DOMAIN routes : R!LiteralCount(own[i]) = R!LiteralCount(routes[i])
    BY <2>3 DEF R!LiteralCount
  <2>5. DOMAIN own = DOMAIN routes
    BY <2>1, <2>2 DEF Listed
  <2> QED BY <2>1, <2>2, <2>3, <2>4, <2>5 DEF Listed
<1>3. ASSUME servedBy # 0 PROVE own[servedBy].method = "ANY"
  <2>1. servedBy \in DOMAIN routes /\ R!Hit(own[servedBy], "OPTIONS", path)
    <3>1. DOMAIN own = DOMAIN routes
      OBVIOUS
    <3> HIDE DEF own
    <3> QED BY <1>2, <1>3, <3>1, MatchTakes
  <2>2. R!methodMatches(own[servedBy], "OPTIONS") /\ R!pathPatternMatchesPath(own[servedBy], path)
    <3>1. DOMAIN own = DOMAIN routes
      OBVIOUS
    <3> HIDE DEF own, servedBy
    <3> QED BY <1>2, <2>1, <3>1, HitsOwnTier
  <2>3. /\ own[servedBy].method = methodOf(routes[servedBy])
        /\ own[servedBy].tier = routes[servedBy].tier /\ own[servedBy].segments = routes[servedBy].segments
    BY <2>1
  <2> HIDE DEF own, servedBy
  <2>4. R!pathPatternMatchesPath(routes[servedBy], path)
    BY <2>2, <2>3 DEF R!pathPatternMatchesPath
  <2> QED BY <1>1, <2>1, <2>2, <2>3, <2>4 DEF R!methodMatches
<1> QED BY <1>1, <1>3

LEMMA RoutesKeep == ASSUME routes \in Seq(Routes), [R!RoutesNext]_routes PROVE (routes \in Seq(Routes))'
BY DEF R!RoutesNext, R!Discovers

LEMMA RoutesSafety == ASSUME routes \in Seq(Routes) PROVE R!RoutedAsDeclared
<1>1. ASSUME NEW method, NEW path PROVE R!MostSpecific(method, path)
  BY RoutesListed, MatchTakes DEF R!MostSpecific
<1> QED BY <1>1, PreflightsOwned DEF R!RoutedAsDeclared

-----------------------------------------------------------------------------
(* The globs                                                                *)

Globs == 1 .. Len(glob) + 1
Texts == 1 .. Len(text) + 1

(* What is left of a text against what is left of the glob, by its first     *)
(* token: the equation of the function in Means.                             *)
Rules(f, i, j) ==
    IF i > Len(glob) THEN level = "path" \/ j > Len(text)
    ELSE IF glob[i] = G!Star THEN \E k \in j .. Len(text) + 1 : f[<<i + 1, k>>]
    ELSE j <= Len(text) /\ G!Fits(glob[i], text[j]) /\ f[<<i + 1, j + 1>>]
From == CHOOSE f : f = [at \in Globs \X Texts |-> Rules(f, at[1], at[2])]

LEMMA MeansFrom == G!Means <=> From[<<1, 1>>]
BY DEF G!Means, From, Globs, Texts, Rules

GlobTypes ==
  /\ level \in {"segment", "path"}
  /\ glob \in Seq(Letters \cup G!Wild(level)) /\ text \in Seq(Letters)

(* A walk through the glob, which is at h[k] of the text when it comes to token k. *)
Walks(h, i) ==
  /\ \A k \in i .. Len(glob) :
       IF glob[k] = G!Star THEN h[k] <= h[k + 1]
       ELSE h[k] <= Len(text) /\ G!Fits(glob[k], text[h[k]]) /\ h[k + 1] = h[k] + 1
  /\ level = "path" \/ h[Len(glob) + 1] > Len(text)
Walk(i, j) == \E h \in [i .. Len(glob) + 1 -> Texts] : h[i] = j /\ Walks(h, i)

(* Walks follow the rules, so that a function does that is defined by them.  *)
LEMMA WalksUnfold ==
  ASSUME GlobTypes, NEW i \in Globs, NEW j \in Texts
  PROVE  Walk(i, j) <=>
           IF i > Len(glob) THEN level = "path" \/ j > Len(text)
           ELSE IF glob[i] = G!Star THEN \E k \in j .. Len(text) + 1 : Walk(i + 1, k)
           ELSE j <= Len(text) /\ G!Fits(glob[i], text[j]) /\ Walk(i + 1, j + 1)
<1>1. Len(glob) \in Nat /\ Len(text) \in Nat /\ i \in 1 .. Len(glob) + 1 /\ j \in 1 .. Len(text) + 1
  BY DEF GlobTypes, Globs, Texts
<1>2. CASE i > Len(glob)
  <2>1. i = Len(glob) + 1 /\ i .. Len(glob) + 1 = {i} /\ i .. Len(glob) = {}
    BY <1>1, <1>2
  <2>2. ASSUME level = "path" \/ j > Len(text) PROVE Walk(i, j)
    <3>1. [k \in i .. Len(glob) + 1 |-> j] \in [i .. Len(glob) + 1 -> Texts]
      OBVIOUS
    <3>2. [k \in i .. Len(glob) + 1 |-> j][i] = j
      BY <2>1
    <3>3. Walks([k \in i .. Len(glob) + 1 |-> j], i)
      BY <2>1, <2>2, <3>2 DEF Walks
    <3> QED BY <3>1, <3>2, <3>3 DEF Walk
  <2>3. ASSUME Walk(i, j) PROVE level = "path" \/ j > Len(text)
    BY <2>1, <2>3 DEF Walk, Walks
  <2> QED BY <1>2, <2>2, <2>3
<1>3. CASE i <= Len(glob)
  <2>1. i + 1 .. Len(glob) + 1 \subseteq i .. Len(glob) + 1 /\ i + 1 \in i + 1 .. Len(glob) + 1
        /\ i \in i .. Len(glob) /\ i + 1 .. Len(glob) \subseteq i .. Len(glob)
    BY <1>1, <1>3
  <2>2. ASSUME NEW h \in [i .. Len(glob) + 1 -> Texts], h[i] = j, Walks(h, i)
        PROVE  /\ h[i + 1] \in Texts /\ Walk(i + 1, h[i + 1])
               /\ IF glob[i] = G!Star THEN h[i + 1] \in j .. Len(text) + 1
                  ELSE j <= Len(text) /\ G!Fits(glob[i], text[j]) /\ h[i + 1] = j + 1
    <3> DEFINE g == [k \in i + 1 .. Len(glob) + 1 |-> h[k]]
    <3>1. h[i + 1] \in Texts
      BY <2>1
    <3>2. g \in [i + 1 .. Len(glob) + 1 -> Texts] /\ g[i + 1] = h[i + 1]
      BY <2>1
    <3>3. \A k \in i + 1 .. Len(glob) : g[k] = h[k] /\ g[k + 1] = h[k + 1]
      BY <1>1
    <3>4. g[Len(glob) + 1] = h[Len(glob) + 1]
      BY <1>1, <1>3
    <3>5. Walks(g, i + 1)
      BY <2>1, <2>2, <3>3, <3>4 DEF Walks
    <3>6. Walk(i + 1, h[i + 1])
      BY <3>2, <3>5 DEF Walk
    <3>7. IF glob[i] = G!Star THEN j <= h[i + 1]
          ELSE j <= Len(text) /\ G!Fits(glob[i], text[j]) /\ h[i + 1] = j + 1
      BY <2>1, <2>2 DEF Walks
    <3> QED BY <1>1, <3>1, <3>6, <3>7 DEF Texts
  <2>3. ASSUME NEW q \in Texts, Walk(i + 1, q),
               IF glob[i] = G!Star THEN j <= q
               ELSE j <= Len(text) /\ G!Fits(glob[i], text[j]) /\ q = j + 1
        PROVE  Walk(i, j)
    <3>1. PICK g \in [i + 1 .. Len(glob) + 1 -> Texts] : g[i + 1] = q /\ Walks(g, i + 1)
      BY <2>3 DEF Walk
    <3> DEFINE h == [k \in i .. Len(glob) + 1 |-> IF k = i THEN j ELSE g[k]]
    <3>2. h \in [i .. Len(glob) + 1 -> Texts] /\ h[i] = j
      BY <1>1, <1>3
    <3>3. h[i + 1] = q /\ h[Len(glob) + 1] = g[Len(glob) + 1]
          /\ \A k \in i + 1 .. Len(glob) : h[k] = g[k] /\ h[k + 1] = g[k + 1]
      BY <1>1, <1>3, <3>1
    <3> HIDE DEF h
    <3>4. ASSUME NEW k \in i .. Len(glob)
          PROVE  IF glob[k] = G!Star THEN h[k] <= h[k + 1]
                 ELSE h[k] <= Len(text) /\ G!Fits(glob[k], text[h[k]]) /\ h[k + 1] = h[k] + 1
      <4>1. CASE k = i
        BY <2>3, <3>2, <3>3, <4>1
      <4>2. CASE k # i
        <5>1. k \in i + 1 .. Len(glob)
          BY <1>1, <4>2
        <5> QED BY <3>1, <3>3, <5>1 DEF Walks
      <4> QED BY <4>1, <4>2
    <3>5. level = "path" \/ h[Len(glob) + 1] > Len(text)
      BY <3>1, <3>3 DEF Walks
    <3>6. Walks(h, i)
      BY <3>4, <3>5 DEF Walks
    <3> QED BY <3>2, <3>6 DEF Walk
  <2>4. Walk(i, j) <=> \E q \in Texts : /\ Walk(i + 1, q)
                                       /\ IF glob[i] = G!Star THEN j <= q
                                          ELSE j <= Len(text) /\ G!Fits(glob[i], text[j]) /\ q = j + 1
    <3>1. ASSUME Walk(i, j)
          PROVE  \E q \in Texts : /\ Walk(i + 1, q)
                                  /\ IF glob[i] = G!Star THEN j <= q
                                     ELSE j <= Len(text) /\ G!Fits(glob[i], text[j]) /\ q = j + 1
      <4>1. PICK h \in [i .. Len(glob) + 1 -> Texts] : h[i] = j /\ Walks(h, i)
        BY <3>1 DEF Walk
      <4>2. h[i + 1] \in Texts /\ Walk(i + 1, h[i + 1])
        BY <2>2, <4>1
      <4>3. IF glob[i] = G!Star THEN h[i + 1] \in j .. Len(text) + 1
            ELSE j <= Len(text) /\ G!Fits(glob[i], text[j]) /\ h[i + 1] = j + 1
        BY <2>2, <4>1
      <4>4. glob[i] = G!Star => j <= h[i + 1]
        BY <1>1, <4>3
      <4> QED BY <4>2, <4>3, <4>4
    <3> QED BY <2>3, <3>1
  <2>5. \A q : q \in Texts /\ j <= q <=> q \in j .. Len(text) + 1
    BY <1>1 DEF Texts
  <2>6. j <= Len(text) => j + 1 \in Texts
    BY <1>1 DEF Texts
  <2>7. ~(i > Len(glob))
    BY <1>1, <1>3
  <2> QED BY <2>4, <2>5, <2>6, <2>7
<1> QED BY <1>1, <1>2, <1>3

LEMMA FromRules ==
  ASSUME GlobTypes
  PROVE  \A i \in Globs, j \in Texts : From[<<i, j>>] <=> Rules(From, i, j)
<1> DEFINE F == [at \in Globs \X Texts |-> Walk(at[1], at[2])]
<1>0. Len(glob) \in Nat /\ Len(text) \in Nat
  BY DEF GlobTypes
<1>1. ASSUME NEW i \in Globs, NEW j \in Texts PROVE Rules(F, i, j) <=> Walk(i, j)
  <2>1. \A q \in Globs, k \in Texts : F[<<q, k>>] <=> Walk(q, k)
    OBVIOUS
  <2> HIDE DEF F
  <2>2. i <= Len(glob) => i + 1 \in Globs
    BY <1>0 DEF Globs
  <2>3. /\ \A k \in j .. Len(text) + 1 : k \in Texts
        /\ j <= Len(text) => j + 1 \in Texts
    BY <1>0 DEF Texts
  <2>4. CASE i > Len(glob)
    BY <2>4, WalksUnfold DEF Rules
  <2>5. CASE ~(i > Len(glob)) /\ glob[i] = G!Star
    <3>1. Walk(i, j) <=> \E k \in j .. Len(text) + 1 : Walk(i + 1, k)
      BY <2>5, WalksUnfold
    <3>2. i + 1 \in Globs
      BY <1>0, <2>2, <2>5 DEF Globs
    <3>3. Rules(F, i, j) <=> \E k \in j .. Len(text) + 1 : F[<<i + 1, k>>]
      BY <2>5 DEF Rules
    <3> QED BY <2>1, <2>3, <3>1, <3>2, <3>3
  <2>6. CASE ~(i > Len(glob)) /\ glob[i] # G!Star
    <3>1. Walk(i, j) <=> j <= Len(text) /\ G!Fits(glob[i], text[j]) /\ Walk(i + 1, j + 1)
      BY <2>6, WalksUnfold
    <3>2. i + 1 \in Globs
      BY <1>0, <2>2, <2>6 DEF Globs
    <3>3. Rules(F, i, j) <=> (j <= Len(text) /\ G!Fits(glob[i], text[j]) /\ F[<<i + 1, j + 1>>])
      BY <2>6 DEF Rules
    <3> QED BY <2>1, <2>3, <3>1, <3>2, <3>3
  <2> QED BY <2>4, <2>5, <2>6
<1>2. F = [at \in Globs \X Texts |-> Rules(F, at[1], at[2])]
  <2>1. \A at \in Globs \X Texts : at[1] \in Globs /\ at[2] \in Texts
    OBVIOUS
  <2> HIDE DEF F
  <2>2. \A at \in Globs \X Texts : Rules(F, at[1], at[2]) = Walk(at[1], at[2])
    BY <1>1, <2>1 DEF Rules, Walk
  <2> QED BY <2>2 DEF F
<1>3. From = [at \in Globs \X Texts |-> Rules(From, at[1], at[2])]
  <2> HIDE DEF F
  <2> QED BY <1>2, Zenon DEF From
<1> HIDE DEF F
<1>4. \A at \in Globs \X Texts : From[at] = Rules(From, at[1], at[2])
  BY <1>3
<1> SUFFICES ASSUME NEW i \in Globs, NEW j \in Texts PROVE From[<<i, j>>] = Rules(From, i, j)
  OBVIOUS
<1>5. <<i, j>> \in Globs \X Texts /\ <<i, j>>[1] = i /\ <<i, j>>[2] = j
  OBVIOUS
<1> QED BY <1>4, <1>5

(* A run of tokens that are no stars takes as many characters or segments.   *)
LEMMA Slides ==
  ASSUME GlobTypes, NEW i \in Globs, NEW j \in Texts, From[<<i, j>>],
         NEW d \in Nat, i + d \in Globs, \A k \in i .. i + d - 1 : glob[k] # G!Star
  PROVE  j + d \in Texts /\ From[<<i + d, j + d>>]
<1> DEFINE Good(e) == j + e \in Texts /\ From[<<i + e, j + e>>]
           bad == {e \in 0 .. d : ~Good(e)}
<1>0. Len(glob) \in Nat /\ Len(text) \in Nat /\ i \in Nat \ {0} /\ j \in Nat \ {0}
  BY DEF GlobTypes, Globs, Texts
<1>1. Good(0)
  <2>1. i + 0 = i /\ j + 0 = j
    BY <1>0
  <2> QED BY <2>1
<1>2. ASSUME NEW e \in 0 .. d, e < d, Good(e) PROVE Good(e + 1)
  <2>1. i + e \in Globs /\ i + e <= Len(glob) /\ glob[i + e] # G!Star
    BY <1>0, <1>2 DEF Globs
  <2>2. Rules(From, i + e, j + e)
    BY <1>2, <2>1, FromRules
  <2>3. j + e <= Len(text) /\ From[<<(i + e) + 1, (j + e) + 1>>]
    BY <1>0, <2>1, <2>2 DEF Rules
  <2>4. (i + e) + 1 = i + (e + 1) /\ (j + e) + 1 = j + (e + 1)
    BY <1>0
  <2> QED BY <1>0, <1>2, <2>3, <2>4 DEF Texts
<1> HIDE DEF Good
<1>3. bad = {}
  <2> SUFFICES ASSUME bad # {} PROVE FALSE
    OBVIOUS
  <2>1. PICK e \in bad : \A f \in bad : e <= f
    <3>1. bad \in SUBSET Nat
      OBVIOUS
    <3> HIDE DEF bad
    <3> QED BY <3>1, Least
  <2>2. e # 0 /\ e \in 0 .. d
    BY <1>1
  <2>3. e - 1 \in 0 .. d /\ e - 1 < d /\ (e - 1) + 1 = e /\ e - 1 \notin bad
    BY <2>1, <2>2
  <2>4. Good(e - 1)
    BY <2>3
  <2> QED BY <1>2, <2>3, <2>4
<1> QED BY <1>3 DEF Good

(* At the end of the text, stars take nothing.                               *)
LEMMA StarsAtEnd ==
  ASSUME GlobTypes, NEW q \in Globs, NEW i \in 1 .. q, \A k \in i .. q - 1 : glob[k] = G!Star
  PROVE  From[<<i, Len(text) + 1>>] <=> From[<<q, Len(text) + 1>>]
<1> DEFINE End == Len(text) + 1
           Same(d) == From[<<q - d, End>>] <=> From[<<q, End>>]
           bad == {d \in 0 .. q - i : ~Same(d)}
<1>0. Len(glob) \in Nat /\ Len(text) \in Nat /\ q \in Nat \ {0} /\ q <= Len(glob) + 1
  BY DEF GlobTypes, Globs
<1>1. Same(0)
  BY <1>0
<1>2. ASSUME NEW d \in 0 .. q - i, d < q - i, Same(d) PROVE Same(d + 1)
  <2> DEFINE n == q - (d + 1)
  <2>1. n \in i .. q - 1 /\ n \in Globs /\ n <= Len(glob) /\ n + 1 = q - d
    BY <1>0, <1>2 DEF Globs
  <2>2. End \in Texts /\ \A k : k \in End .. Len(text) + 1 <=> k = End
    BY <1>0 DEF Texts
  <2> HIDE DEF n, End
  <2>3. From[<<n, End>>] <=> Rules(From, n, End)
    BY <2>1, <2>2, FromRules
  <2>4. Rules(From, n, End) <=> \E k \in End .. Len(text) + 1 : From[<<n + 1, k>>]
    BY <1>0, <2>1 DEF Rules
  <2>5. From[<<n, End>>] <=> From[<<q - d, End>>]
    BY <2>1, <2>2, <2>3, <2>4
  <2> QED BY <1>2, <2>5 DEF n
<1> HIDE DEF Same
<1>3. bad = {}
  <2> SUFFICES ASSUME bad # {} PROVE FALSE
    OBVIOUS
  <2>0. q - i \in Nat
    BY <1>0
  <2>1. PICK e \in bad : \A f \in bad : e <= f
    <3>1. bad \in SUBSET Nat
      BY <2>0
    <3> HIDE DEF bad
    <3> QED BY <3>1, Least
  <2>2. e # 0 /\ e \in 0 .. q - i
    BY <1>1
  <2>3. e - 1 \in 0 .. q - i /\ e - 1 < q - i /\ (e - 1) + 1 = e /\ e - 1 \notin bad
    BY <2>0, <2>1, <2>2
  <2>4. Same(e - 1)
    BY <2>3
  <2> QED BY <1>2, <2>3, <2>4
<1>4. q - i \in 0 .. q - i /\ q - (q - i) = i
  BY <1>0
<1>5. Same(q - i)
  BY <1>3, <1>4
<1> QED BY <1>4, <1>5 DEF Same

(* The pointers, and the run of tokens since the last star.                  *)
Pointers ==
  /\ p \in Globs /\ s \in Texts /\ starP \in 0 .. p - 1
  /\ starP # 0 =>
       /\ glob[starP] = G!Star /\ starS \in 1 .. s /\ p - starP - 1 = s - starS
       /\ \A k \in starP + 1 .. p - 1 : glob[k] # G!Star

(* Another place where the last star may end.                                *)
Elsewhere == starP # 0 /\ \E k \in starS + 1 .. Len(text) + 1 : From[<<starP + 1, k>>]

(* The glob matches exactly if its rest does, or the last star takes more:   *)
(* stars before the last one need not be tried again.                        *)
GlobInv ==
  /\ GlobTypes /\ Pointers
  /\ verdict \in {"none", "yes", "no"}
  /\ verdict = "none" => (From[<<1, 1>>] <=> From[<<p, s>>] \/ Elsewhere)
  /\ verdict # "none" => (verdict = "yes" <=> From[<<1, 1>>])

(* If the last star took more, the tokens since would be matched later on.   *)
LEMMA Later ==
  ASSUME GlobTypes, Pointers, Elsewhere
  PROVE  \E k \in Texts : k > s /\ From[<<p, k>>]
<1>0. Len(glob) \in Nat /\ Len(text) \in Nat
  BY DEF GlobTypes
<1>1. /\ p \in 1 .. Len(glob) + 1 /\ starP \in 1 .. p - 1 /\ s \in 1 .. Len(text) + 1
      /\ starS \in 1 .. s /\ p - starP - 1 = s - starS
  BY <1>0 DEF Pointers, Elsewhere, Globs, Texts
<1>2. PICK k \in starS + 1 .. Len(text) + 1 : From[<<starP + 1, k>>]
  BY DEF Elsewhere
<1> DEFINE d == p - (starP + 1)
<1>3. /\ d \in Nat /\ starP + 1 \in Globs /\ k \in Texts /\ (starP + 1) + d = p /\ k + d > s
      /\ (starP + 1) + d - 1 = p - 1
  BY <1>0, <1>1 DEF Globs, Texts
<1>4. \A n \in starP + 1 .. p - 1 : glob[n] # G!Star
  BY <1>1 DEF Pointers
<1> HIDE DEF d
<1>5. p \in Globs
  BY DEF Pointers
<1>6. k + d \in Texts /\ From[<<(starP + 1) + d, k + d>>]
  BY <1>2, <1>3, <1>4, <1>5, Slides
<1> QED BY <1>3, <1>6

LEMMA GlobBegins == ASSUME RunningInit PROVE GlobInv
<1>1. CASE program = "globs"
  <2>1. G!GlobInit
    BY <1>1 DEF RunningInit
  <2>2. GlobTypes
    <3>1. \A A : \A n \in 0 .. MaxGlob : [1 .. n -> A] \subseteq Seq(A)
      BY RunningAssumption DEF G!GlobAssumption
    <3>2. \A A : \A n \in 0 .. MaxText : [1 .. n -> A] \subseteq Seq(A)
      BY RunningAssumption DEF G!GlobAssumption
    <3>3. glob \in Seq(Letters \cup G!Wild(level))
      BY <2>1, <3>1 DEF G!GlobInit, G!Words
    <3>4. text \in Seq(Letters)
      BY <2>1, <3>2 DEF G!GlobInit, G!Words
    <3> QED BY <2>1, <3>3, <3>4 DEF GlobTypes, G!GlobInit
  <2> QED BY <2>1, <2>2 DEF GlobInv, G!GlobInit, Pointers, Elsewhere, GlobTypes, Globs, Texts
<1>2. CASE program # "globs"
  <2>1. level = "path" /\ glob = <<>> /\ text = <<>> /\ p = 1 /\ s = 1 /\ starP = 0 /\ verdict = "yes"
    BY <1>2 DEF RunningInit
  <2>2. GlobTypes
    BY <2>1 DEF GlobTypes
  <2>3. 1 \in Globs /\ 1 \in Texts /\ Len(glob) = 0
    BY <2>1 DEF Globs, Texts
  <2>4. From[<<1, 1>>]
    <3>1. Rules(From, 1, 1)
      BY <2>1, <2>3 DEF Rules
    <3> QED BY <2>2, <2>3, <3>1, FromRules
  <2> QED BY <2>1, <2>2, <2>3, <2>4 DEF GlobInv, Pointers
<1> QED BY <1>1, <1>2

LEMMA GlobOpens == ASSUME GlobInv, G!Opens PROVE GlobInv'
<1>0. /\ verdict = "none" /\ s <= Len(text) /\ p <= Len(glob) /\ glob[p] = G!Star
      /\ starP' = p /\ starS' = s /\ p' = p + 1
      /\ level' = level /\ glob' = glob /\ text' = text /\ s' = s /\ verdict' = verdict
  BY DEF G!Opens, G!Steps, G!AtStar
<1>1. Len(glob) \in Nat /\ Len(text) \in Nat /\ p \in 1 .. Len(glob) /\ s \in 1 .. Len(text)
  BY <1>0 DEF GlobInv, GlobTypes, Pointers, Globs, Texts
<1>2. From' = From /\ GlobTypes' /\ G!Star' = G!Star
  BY <1>0 DEF From, Rules, Globs, Texts, G!Star, G!Fits, GlobInv, GlobTypes
<1>3. Pointers'
  BY <1>0, <1>1, <1>2 DEF Pointers, Globs, Texts
<1>4. \A k \in Texts : From[<<p, k>>] <=> \E n \in k .. Len(text) + 1 : From[<<p + 1, n>>]
  <2> TAKE k \in Texts
  <2>1. p \in Globs /\ ~(p > Len(glob))
    BY <1>1 DEF Globs
  <2> QED BY <1>0, <2>1, FromRules DEF Rules, GlobInv
<1>5. Elsewhere => From[<<p, s>>]
  <2> HAVE Elsewhere
  <2>1. PICK k \in Texts : k > s /\ From[<<p, k>>]
    BY Later DEF GlobInv
  <2>2. PICK n \in k .. Len(text) + 1 : From[<<p + 1, n>>]
    BY <1>4, <2>1
  <2>3. n \in s .. Len(text) + 1 /\ s \in Texts
    BY <1>1, <2>1 DEF Texts
  <2> QED BY <1>4, <2>2, <2>3
<1>6. From[<<p, s>>] <=> From[<<p + 1, s>>] \/ \E k \in s + 1 .. Len(text) + 1 : From[<<p + 1, k>>]
  <2>1. s \in Texts /\ \A k : k \in s .. Len(text) + 1 <=> k = s \/ k \in s + 1 .. Len(text) + 1
    BY <1>1 DEF Texts
  <2> QED BY <1>4, <2>1
<1>7. Elsewhere' <=> \E k \in s + 1 .. Len(text) + 1 : From[<<p + 1, k>>]
  BY <1>0, <1>1, <1>2 DEF Elsewhere
<1>8. From[<<1, 1>>]' <=> From[<<p, s>>]' \/ Elsewhere'
  BY <1>0, <1>2, <1>5, <1>6, <1>7 DEF GlobInv
<1> QED BY <1>0, <1>2, <1>3, <1>8 DEF GlobInv

LEMMA GlobAdvances == ASSUME GlobInv, G!Advances PROVE GlobInv'
<1>0. /\ verdict = "none" /\ s <= Len(text) /\ p <= Len(glob) /\ glob[p] # G!Star
      /\ G!Fits(glob[p], text[s]) /\ p' = p + 1 /\ s' = s + 1
      /\ level' = level /\ glob' = glob /\ text' = text /\ verdict' = verdict
      /\ starP' = starP /\ starS' = starS
  BY DEF G!Advances, G!Steps, G!Matches
<1>1. Len(glob) \in Nat /\ Len(text) \in Nat /\ p \in 1 .. Len(glob) /\ s \in 1 .. Len(text)
  BY <1>0 DEF GlobInv, GlobTypes, Pointers, Globs, Texts
<1>2. From' = From /\ GlobTypes' /\ G!Star' = G!Star
  BY <1>0 DEF From, Rules, Globs, Texts, G!Star, G!Fits, GlobInv, GlobTypes
<1>3. Pointers'
  <2>1. starP \in 0 .. p - 1
    BY DEF GlobInv, Pointers
  <2>2. /\ p + 1 \in Globs /\ s + 1 \in Texts /\ starP \in 0 .. (p + 1) - 1
        /\ \A k \in starP + 1 .. (p + 1) - 1 : k = p \/ k \in starP + 1 .. p - 1
    BY <1>1, <2>1 DEF Globs, Texts
  <2>3. ASSUME starP # 0
        PROVE  /\ glob[starP] = G!Star /\ starS \in 1 .. s + 1 /\ (p + 1) - starP - 1 = (s + 1) - starS
               /\ \A k \in starP + 1 .. (p + 1) - 1 : glob[k] # G!Star
    BY <1>0, <1>1, <2>1, <2>2, <2>3 DEF GlobInv, Pointers
  <2>4. Globs' = Globs /\ Texts' = Texts
    BY <1>0 DEF Globs, Texts
  <2> QED BY <1>0, <1>2, <2>2, <2>3, <2>4 DEF Pointers
<1>4. From[<<p, s>>] <=> From[<<p + 1, s + 1>>]
  <2>1. p \in Globs /\ s \in Texts /\ ~(p > Len(glob))
    BY <1>1 DEF Globs, Texts
  <2> QED BY <1>0, <2>1, FromRules DEF Rules, GlobInv
<1>5. Elsewhere' = Elsewhere
  BY <1>0, <1>2 DEF Elsewhere
<1> QED BY <1>0, <1>2, <1>3, <1>4, <1>5 DEF GlobInv

LEMMA GlobReturns == ASSUME GlobInv, G!Returns PROVE GlobInv'
<1>0. /\ verdict = "none" /\ s <= Len(text) /\ starP # 0
      /\ ~G!Matches /\ ~G!AtStar /\ ~G!Contents
      /\ p' = starP + 1 /\ starS' = starS + 1 /\ s' = starS + 1
      /\ level' = level /\ glob' = glob /\ text' = text /\ verdict' = verdict /\ starP' = starP
  BY DEF G!Returns, G!Steps, G!Resumes
<1>1. /\ Len(glob) \in Nat /\ Len(text) \in Nat /\ p \in 1 .. Len(glob) + 1 /\ s \in 1 .. Len(text)
      /\ starP \in 1 .. p - 1 /\ starS \in 1 .. s /\ glob[starP] = G!Star
  BY <1>0 DEF GlobInv, GlobTypes, Pointers, Globs, Texts
<1>2. From' = From /\ GlobTypes' /\ G!Star' = G!Star
  BY <1>0 DEF From, Rules, Globs, Texts, G!Star, G!Fits, GlobInv, GlobTypes
<1>3. Pointers'
  BY <1>0, <1>1, <1>2 DEF Pointers, Globs, Texts
<1>4. ~From[<<p, s>>]
  <2>1. p \in Globs /\ s \in Texts
    BY <1>1 DEF Globs, Texts
  <2>2. ~Rules(From, p, s)
    BY <1>0, <1>1 DEF Rules, G!Matches, G!AtStar, G!Contents, GlobInv, GlobTypes
  <2> QED BY <2>1, <2>2, FromRules DEF GlobInv
<1>5. Elsewhere <=> From[<<starP + 1, starS + 1>>]
                    \/ \E k \in (starS + 1) + 1 .. Len(text) + 1 : From[<<starP + 1, k>>]
  <2>1. \A k : k \in starS + 1 .. Len(text) + 1 <=> k = starS + 1 \/ k \in (starS + 1) + 1 .. Len(text) + 1
    BY <1>1
  <2> QED BY <1>0, <2>1 DEF Elsewhere
<1>6. Elsewhere' <=> \E k \in (starS + 1) + 1 .. Len(text) + 1 : From[<<starP + 1, k>>]
  BY <1>0, <1>2 DEF Elsewhere
<1> QED BY <1>0, <1>2, <1>3, <1>4, <1>5, <1>6 DEF GlobInv

LEMMA GlobDecides == ASSUME GlobInv, G!Decides PROVE GlobInv'
<1>0. /\ verdict = "none"
      /\ level' = level /\ glob' = glob /\ text' = text /\ p' = p /\ s' = s
      /\ starP' = starP /\ starS' = starS
  BY DEF G!Decides
<1>1. /\ Len(glob) \in Nat /\ Len(text) \in Nat /\ p \in 1 .. Len(glob) + 1 /\ s \in 1 .. Len(text) + 1
      /\ p \in Globs /\ s \in Texts
  BY DEF GlobInv, GlobTypes, Pointers, Globs, Texts
<1>2. From' = From /\ GlobTypes' /\ Pointers'
  BY <1>0 DEF From, Rules, Globs, Texts, G!Star, G!Fits, GlobInv, GlobTypes, Pointers
<1>3. From[<<1, 1>>] <=> From[<<p, s>>] \/ Elsewhere
  BY <1>0 DEF GlobInv
<1>4. From[<<p, s>>] <=> Rules(From, p, s)
  BY <1>1, FromRules DEF GlobInv
<1>5. CASE s <= Len(text) /\ G!Contents /\ verdict' = "yes"
  <2>1. Rules(From, p, s)
    BY <1>1, <1>5 DEF Rules, G!Contents
  <2> QED BY <1>0, <1>2, <1>3, <1>4, <1>5, <2>1 DEF GlobInv
<1>6. CASE s <= Len(text) /\ ~G!Matches /\ ~G!AtStar /\ ~G!Contents /\ starP = 0 /\ verdict' = "no"
  <2>1. ~Rules(From, p, s)
    BY <1>1, <1>6 DEF Rules, G!Matches, G!AtStar, G!Contents, GlobInv, GlobTypes
  <2>2. ~Elsewhere
    BY <1>6 DEF Elsewhere
  <2> QED BY <1>0, <1>2, <1>3, <1>4, <1>6, <2>1, <2>2 DEF GlobInv
<1>7. CASE s > Len(text) /\ verdict' = IF G!Rest = {} THEN "yes" ELSE "no"
  <2>1. s = Len(text) + 1
    BY <1>1, <1>7
  <2>2. ~Elsewhere
    <3> SUFFICES ASSUME Elsewhere PROVE FALSE
      OBVIOUS
    <3>1. PICK k \in Texts : k > s
      BY Later DEF GlobInv
    <3> QED BY <1>1, <2>1, <3>1 DEF Texts
  <2>3. CASE G!Rest = {}
    <3>1. \A k \in p .. Len(glob) : glob[k] = G!Star
      BY <2>3 DEF G!Rest
    <3>2. Len(glob) + 1 \in Globs /\ p \in 1 .. Len(glob) + 1 /\ Len(glob) + 1 - 1 = Len(glob)
      BY <1>1 DEF Globs
    <3>3. From[<<p, s>>] <=> From[<<Len(glob) + 1, s>>]
      BY <2>1, <3>1, <3>2, StarsAtEnd DEF GlobInv
    <3>4. Rules(From, Len(glob) + 1, s)
      BY <1>1, <1>7 DEF Rules
    <3>5. From[<<Len(glob) + 1, s>>]
      BY <1>1, <3>2, <3>4, FromRules DEF GlobInv
    <3> QED BY <1>0, <1>2, <1>3, <1>7, <2>3, <3>3, <3>5 DEF GlobInv
  <2>4. CASE G!Rest # {}
    <3>1. G!Rest \in SUBSET Nat
      BY <1>1 DEF G!Rest
    <3>2. PICK q \in G!Rest : \A k \in G!Rest : q <= k
      BY <2>4, <3>1, Least
    <3>3. q \in p .. Len(glob) /\ glob[q] # G!Star
      BY DEF G!Rest
    <3>4. \A k \in p .. q - 1 : glob[k] = G!Star
      <4> TAKE k \in p .. q - 1
      <4>1. k \in p .. Len(glob) /\ ~(q <= k)
        BY <1>1, <3>3
      <4> QED BY <3>2, <4>1 DEF G!Rest
    <3>5. q \in Globs /\ p \in 1 .. q /\ ~(q > Len(glob))
      BY <1>1, <3>3 DEF Globs
    <3>6. From[<<p, s>>] <=> From[<<q, s>>]
      BY <2>1, <3>4, <3>5, StarsAtEnd DEF GlobInv
    <3>7. ~Rules(From, q, s)
      BY <1>1, <1>7, <3>3, <3>5 DEF Rules
    <3>8. ~From[<<q, s>>]
      BY <1>1, <3>5, <3>7, FromRules DEF GlobInv
    <3> QED BY <1>0, <1>2, <1>3, <1>7, <2>2, <2>4, <3>6, <3>8 DEF GlobInv
  <2> QED BY <2>3, <2>4
<1> QED BY <1>5, <1>6, <1>7 DEF G!Decides

LEMMA GlobKeeps == ASSUME GlobInv, [G!GlobNext]_(G!globVars) PROVE GlobInv'
<1>1. CASE UNCHANGED G!globVars
  <2>1. From' = From
    BY <1>1 DEF G!globVars, From, Rules, Globs, Texts, G!Star, G!Fits
  <2> QED BY <1>1, <2>1 DEF G!globVars, GlobInv, GlobTypes, Pointers, Elsewhere, Globs, Texts, G!Star
<1> QED BY <1>1, GlobOpens, GlobAdvances, GlobReturns, GlobDecides DEF G!GlobNext

LEMMA GlobSafety == ASSUME GlobInv PROVE G!DecidesAsMeant
BY MeansFrom DEF GlobInv, G!DecidesAsMeant

-----------------------------------------------------------------------------
(* The composition: a step of one part is none of the others.               *)

RunningInv == RequestInv /\ WP!SocketInv /\ routes \in Seq(Routes) /\ GlobInv

LEMMA EachAlone ==
  ASSUME [RunningNext]_runningVars
  PROVE  /\ [Q!RequestNext]_Q!requestVars /\ [W!Next]_W!vars
         /\ [R!RoutesNext]_routes /\ [G!GlobNext]_(G!globVars)
<1> USE DEF globVars, G!globVars
<1>1. UNCHANGED requestVars => UNCHANGED Q!requestVars
  BY DEF requestVars, Q!requestVars, Q!replyVars
<1>2. UNCHANGED socketVars => UNCHANGED W!vars
  BY DEF socketVars, W!vars, W!connVars, W!closeVars, W!histVars
<1>3. CASE Request(Q!RequestNext)
  BY <1>2, <1>3 DEF Request
<1>4. CASE Serves(W!Next)
  BY <1>1, <1>4 DEF Serves
<1>5. CASE Server(Next) \/ Declares(R!RoutesNext) \/ Watches(G!GlobNext)
  BY <1>1, <1>2, <1>5 DEF Server, Declares, Watches
<1>6. CASE UNCHANGED runningVars
  BY <1>1, <1>2, <1>6 DEF runningVars
<1> QED BY <1>3, <1>4, <1>5, <1>6 DEF RunningNext

LEMMA RunningAlways == RunningSpec => []RunningInv
<1>1. RunningInit => RunningInv
  <2>1. R!RoutesInit => routes \in Seq(Routes)
    BY DEF R!RoutesInit
  <2> QED BY <2>1, RequestBegins, SocketsBegin, GlobBegins DEF RunningInit, RunningInv
<1>2. RunningInv /\ [RunningNext]_runningVars => RunningInv'
  BY EachAlone, RequestKeeps, SocketsKeep, RoutesKeep, GlobKeeps DEF RunningInv
<1> QED BY <1>1, <1>2, PTL DEF RunningSpec

(* Nothing behind an authorizer is reached before its verdict, a container  *)
(* is returned once by each request that acquired it, and is lent while its *)
(* handler is idle, but for an event that timed out or a stream that was    *)
(* given up (http-server.ts, rie-client.ts).                                *)
THEOREM RequestsAreServed == RunningSpec => []RequestsServed
<1>1. RunningInv => RequestsServed
  BY RequestSafety DEF RunningInv
<1> QED BY <1>1, RunningAlways, PTL

(* Every frame of an admitted connection that did not overflow the buffer   *)
(* reaches a handler before $disconnect, and a server that has closed has   *)
(* no socket left and no handler but those it has stopped waiting for       *)
(* (websocket-server.ts).                                                   *)
THEOREM NoFrameIsLost == RunningSpec => []NothingLost
<1>1. RunningInv => NothingLost
  BY SocketSafety DEF RunningInv
<1> QED BY <1>1, RunningAlways, PTL

(* The request is served by the first of the most specific routes that take  *)
(* it, for any list of routes and any path; a preflight is answered for the  *)
(* API that serves what it announces (route-matcher.ts, http-server.ts).  A  *)
(* glob matches what it means, whatever its length and that of the text      *)
(* (glob-match.ts).                                                          *)
THEOREM MatchedAsDeclared == RunningSpec => []Matched
<1>1. RunningInv => Matched
  BY RoutesSafety, GlobSafety DEF RunningInv, Matched
<1> QED BY <1>1, RunningAlways, PTL

LEMMA DeliveryBegins == W!Init => W!Delivery!Init
<1>1. W!Init => WP!Init
  BY DEF W!Init, WP!Init
<1>2. WP!Delivery!Init => W!Delivery!Init
  BY DEF WP!Delivery!Init, W!Delivery!Init
<1> QED BY <1>1, <1>2, WP!DeliveryBegins

LEMMA SameDeliveries ==
  ASSUME [WP!Delivery!Next]_WP!Delivery!odVars
  PROVE  [W!Delivery!Next]_W!Delivery!odVars
<1>1. CASE WP!Delivery!Next
  BY <1>1 DEF WP!Delivery!Next, W!Delivery!Next, WP!Delivery!Admit, W!Delivery!Admit,
      WP!Delivery!Deliver, W!Delivery!Deliver, WP!Delivery!Disconnect, W!Delivery!Disconnect,
      WP!Delivery!HandlerEnds, W!Delivery!HandlerEnds
<1>2. CASE UNCHANGED WP!Delivery!odVars
  BY <1>2 DEF WP!Delivery!odVars, W!Delivery!odVars
<1> QED BY <1>1, <1>2

(* The handlers of a connection see its frames one at a time, in the order  *)
(* the client sent them, each at most once, and nothing after $disconnect.  *)
THEOREM DeliveredInOrder == RunningSpec => DeliversInOrder
<1>1. RunningInit => W!Delivery!Init
  BY DeliveryBegins DEF RunningInit
<1>2. RunningInv /\ [RunningNext]_runningVars => [W!Delivery!Next]_W!Delivery!odVars
  <2> SUFFICES ASSUME RunningInv, [RunningNext]_runningVars
               PROVE  [W!Delivery!Next]_W!Delivery!odVars
    OBVIOUS
  <2>1. [WP!Delivery!Next]_WP!Delivery!odVars
    BY EachAlone, SameSteps, SocketConstants, WP!ServedInOrder DEF RunningInv
  <2> QED BY <2>1, SameDeliveries
<1> QED
  BY <1>1, <1>2, RunningAlways, PTL
     DEF RunningSpec, DeliversInOrder, W!DeliversInOrder, W!Delivery!Spec
=============================================================================
