---------------------------- MODULE LambdaRequest ----------------------------
(***************************************************************************)
(* What `cdkl start-api` does with one request: handleRequest              *)
(* (src/src/local/http-server.ts), the integrations it dispatches to, and  *)
(* the invocation of a Lambda function in a container                      *)
(* (src/src/local/rie-client.ts), buffered or streamed.                    *)
(*                                                                         *)
(* The pool is seen from outside: an acquire gets a container nobody       *)
(* borrows, or fails (ContainerPool says when).  A container runs one      *)
(* handler at a time and refuses other events meanwhile.  Headers, events  *)
(* and templates are left out: what fails in them fails here any time.     *)
(***************************************************************************)
EXTENDS Naturals, FiniteSets

CONSTANTS Requests, Containers, Nothing

RequestAssumption == Nothing \notin Requests \cup Containers

VARIABLES
    reqStage,   \* what each handler awaits
    route,      \* the kind of route it matches
    left,       \* requests whose client has closed its connection
    answer,     \* of the response: "none", "head" written, "whole", "cut" off
    borrowed,   \* the container each has acquired and not released
    armed,      \* requests whose releaseOnce waits for an event of the response
    closed,     \* requests whose response has emitted 'close'
    tries,      \* attempts of fetchWithStartupRetry
    timer,      \* the timer of the invocation: "off", "on" or "fired"
    drained,    \* the Readable of a stream: "no", "reading", "ended" or "failed"
    works,      \* the request whose event each container's handler runs
    replies,    \* what the container has sent: "none", "head", "all", "broken" off, "refused"
    unheard,    \* requests whose handler is at an attempt that has failed
    cleared,    \* history: requests an authorizer let through, or that need none
    served,     \* history: requests whose integration was called
    again       \* history: requests that returned a container they no longer had

replyVars == <<tries, timer, drained, works, replies, unheard>>
requestVars == <<reqStage, route, left, answer, borrowed, armed, closed, replyVars,
    cleared, served, again>>

Kinds == {"answered here", "service", "upstream", "lambda", "buffered", "stream"}

RequestInit ==
    /\ reqStage = [r \in Requests |-> "body"] /\ route \in [Requests -> Kinds]
    /\ left = {} /\ closed = {} /\ armed = {}
    /\ answer = [r \in Requests |-> "none"]
    /\ borrowed = [r \in Requests |-> Nothing]
    /\ tries = [r \in Requests |-> 0] /\ timer = [r \in Requests |-> "off"]
    /\ drained = [r \in Requests |-> "no"]
    /\ works = [c \in Containers |-> Nothing]
    /\ replies = [r \in Requests |-> "none"]
    /\ unheard = {} /\ cleared = {} /\ served = {} /\ again = {}

Lent == {borrowed[r] : r \in Requests} \ {Nothing}

\* What a handler writes to a response that is there; one whose client left is closed.
Writes(r, what) ==
    answer' = [answer EXCEPT ![r] = IF @ = "none" /\ r \notin closed THEN what ELSE @]

\* The response is over, and its handler returns.
Answers(r) ==
    /\ reqStage' = [reqStage EXCEPT ![r] = "done"]
    /\ Writes(r, "whole")

Goes(r, to) ==
    /\ reqStage' = [reqStage EXCEPT ![r] = to]
    /\ UNCHANGED answer

-----------------------------------------------------------------------------
(* handleRequest up to the integration *)

\* The integration of a route: MOCK answers in the same turn, as does a template or a
\* mapping that fails; the others await a service, an upstream or a container.
Dispatches(r) ==
    \/ route[r] \in {"service", "upstream", "lambda"} /\ Answers(r) /\ UNCHANGED served
    \/ /\ route[r] \in {"service", "upstream"}
       /\ Goes(r, "calling") /\ served' = served \cup {r}
    \/ /\ route[r] \in {"lambda", "buffered", "stream"}
       /\ Goes(r, "waiting") /\ UNCHANGED served

\* With the body the route is matched.  A preflight, no route, a MOCK preflight and an
\* unsupported route are answered at once, before any authorizer.
BodyRead(r) ==
    /\ reqStage[r] = "body"
    /\ \/ route[r] = "answered here" /\ Answers(r) /\ UNCHANGED <<cleared, served>>
       \/ route[r] # "answered here" /\ Goes(r, "authorizer") /\ UNCHANGED <<cleared, served>>
       \/ /\ route[r] # "answered here"
          /\ Dispatches(r) /\ cleared' = cleared \cup {r}
    /\ UNCHANGED <<route, left, borrowed, armed, closed, replyVars, again>>

BodyFails(r) ==
    /\ reqStage[r] = "body" /\ r \in left
    /\ Answers(r)
    /\ UNCHANGED <<route, left, borrowed, armed, closed, replyVars, cleared, served, again>>

\* The verdict; an authorizer that throws denies.
Authorizes(r) ==
    /\ reqStage[r] = "authorizer"
    /\ \/ Answers(r) /\ UNCHANGED <<cleared, served>>
       \/ Dispatches(r) /\ cleared' = cleared \cup {r}
    /\ UNCHANGED <<route, left, borrowed, armed, closed, replyVars, again>>

\* The service or the upstream answers, or fails, which is a response as well.
Called(r) ==
    /\ reqStage[r] = "calling"
    /\ Answers(r)
    /\ UNCHANGED <<route, left, borrowed, armed, closed, replyVars, cleared, served, again>>

-----------------------------------------------------------------------------
(* The invocation *)

Acquires(r) ==
    /\ reqStage[r] = "waiting"
    /\ \/ /\ Answers(r) /\ UNCHANGED <<borrowed, timer, tries, served>>
       \/ \E c \in Containers \ Lent :
            /\ borrowed' = [borrowed EXCEPT ![r] = c]
            /\ timer' = [timer EXCEPT ![r] = "on"] /\ tries' = [tries EXCEPT ![r] = 1]
            /\ served' = served \cup {r}
            /\ Goes(r, "sending")
    /\ UNCHANGED <<route, left, armed, closed, drained, works, replies, unheard, cleared, again>>

\* state.pool.release(handle)
Releases(r) ==
    /\ borrowed' = [borrowed EXCEPT ![r] = Nothing]
    /\ again' = IF borrowed[r] = Nothing THEN again \cup {r} ELSE again

\* What ends an invocation by an exception: 502, or the end of a response that has begun,
\* and the container is returned.
Fails(r) ==
    /\ reqStage' = [reqStage EXCEPT ![r] = "done"]
    /\ answer' = [answer EXCEPT ![r] = IF r \in closed THEN @ ELSE "whole"]
    /\ Releases(r)

Stops(r) == timer' = [timer EXCEPT ![r] = "off"]

\* The event reaches the container, whose handler runs it unless it is at another one.
Delivered(r) ==
    LET c == borrowed[r]
    IN /\ reqStage[r] = "sending" /\ timer[r] = "on"
       /\ reqStage' = [reqStage EXCEPT ![r] = "sent"]
       /\ IF works[c] = Nothing
          THEN works' = [works EXCEPT ![c] = r] /\ UNCHANGED replies
          ELSE replies' = [replies EXCEPT ![r] = "all"] /\ UNCHANGED works
       /\ UNCHANGED <<route, left, answer, borrowed, armed, closed, tries, timer, drained, unheard, cleared, served, again>>

\* fetchWithStartupRetry: a failed attempt is made again after 200 ms, up to twice; an
\* abort is not.  The attempt may fail with its handler, or on the way, when the handler
\* goes on with an event whose answer nobody hears.
Refused(r) ==
    /\ timer[r] = "on" /\ reqStage[r] \in {"sending", "sent"}
    /\ replies' = [replies EXCEPT ![r] = "none"]
    /\ unheard' = IF works[borrowed[r]] = r THEN unheard \cup {r} ELSE unheard
    /\ IF tries[r] < 3
       THEN Goes(r, "backoff") /\ UNCHANGED <<borrowed, timer, again>>
       ELSE Fails(r) /\ Stops(r)
    /\ UNCHANGED <<route, left, armed, closed, tries, drained, works, cleared, served>>

Retries(r) ==
    /\ reqStage[r] = "backoff"
    /\ reqStage' = [reqStage EXCEPT ![r] = "sending"]
    /\ tries' = [tries EXCEPT ![r] = @ + 1]
    /\ UNCHANGED <<route, left, answer, borrowed, armed, closed, timer, drained, works, replies, unheard, cleared, served, again>>

TimesOut(r) ==
    /\ timer[r] = "on"
    /\ timer' = [timer EXCEPT ![r] = "fired"]
    /\ UNCHANGED <<reqStage, route, left, answer, borrowed, armed, closed, tries, drained, works, replies, unheard, cleared, served, again>>

\* The signal of the aborted fetch, or of the reader of a stream.
Aborted(r) ==
    /\ timer[r] = "fired" /\ reqStage[r] \in {"sending", "sent", "prelude"}
    /\ Fails(r)
    /\ UNCHANGED <<route, left, armed, closed, tries, timer, drained, works, replies, unheard, cleared, served>>

\* invokeRie: the response has a head; the timer is off while the body is read.
Responds(r) ==
    /\ reqStage[r] = "sent" /\ timer[r] = "on" /\ replies[r] \in {"head", "all", "broken"}
    /\ IF route[r] = "stream"
       THEN Goes(r, "prelude") /\ UNCHANGED timer
       ELSE Goes(r, "text") /\ Stops(r)
    /\ UNCHANGED <<route, left, borrowed, armed, closed, tries, drained, works, replies, unheard, cleared, served, again>>

\* The payload becomes the response; what throws on the way is a 502.  finally releases.
Text(r) ==
    /\ reqStage[r] = "text"
    /\ Answers(r) /\ Releases(r)
    /\ UNCHANGED <<route, left, armed, closed, replyVars, cleared, served>>

-----------------------------------------------------------------------------
(* Streams *)

\* invokeRieStreaming reads until the separator: without one, with an empty response,
\* with a prelude that is no JSON or a header that is not valid, it throws.  Otherwise
\* the head is written, and the container is returned by an event of the response, which
\* only those events find that are still to come.
Prelude(r) ==
    /\ reqStage[r] = "prelude" /\ timer[r] = "on"
    /\ \/ /\ Fails(r) /\ Stops(r)
          /\ UNCHANGED <<armed, drained>>
       \/ /\ reqStage' = [reqStage EXCEPT ![r] = "done"]
          /\ Writes(r, "head")
          /\ armed' = armed \cup {r}
          /\ drained' = [drained EXCEPT ![r] = "reading"]
          /\ UNCHANGED <<borrowed, timer, again>>
    /\ UNCHANGED <<route, left, closed, tries, works, replies, unheard, cleared, served>>

\* The reader behind the Readable: the last chunk; an abort, a broken connection or a
\* body beyond the limit.
Reads(r) ==
    /\ drained[r] = "reading"
    /\ \/ /\ timer[r] # "fired" /\ replies[r] = "all"
          /\ drained' = [drained EXCEPT ![r] = "ended"]
       \/ drained' = [drained EXCEPT ![r] = "failed"]
    /\ Stops(r)
    /\ UNCHANGED <<reqStage, route, left, answer, borrowed, armed, closed, tries, works, replies, unheard, cleared, served, again>>

(* Mutation: releaseOnce without its flag. *)
ReleasesEach(r) ==
    IF r \in armed
    THEN Releases(r) /\ UNCHANGED armed
    ELSE UNCHANGED <<borrowed, armed, again>>

ReleaseOnce(r) ==
    IF r \in armed
    THEN Releases(r) /\ armed' = armed \ {r}
    ELSE UNCHANGED <<borrowed, armed, again>>

\* The 'error' of the Readable: the response is destroyed.
Errs(r) ==
    /\ drained[r] = "failed" /\ reqStage[r] = "done"
    /\ drained' = [drained EXCEPT ![r] = "no"]
    /\ answer' = [answer EXCEPT ![r] = IF @ = "head" THEN "cut" ELSE @]
    /\ ReleaseOnce(r)
    /\ UNCHANGED <<reqStage, route, left, closed, tries, timer, works, replies, unheard, cleared, served>>

\* pipe() has written the last chunk and its client has taken it all.
Taken(r) ==
    /\ drained[r] = "ended" /\ answer[r] = "head" /\ r \notin closed
    /\ answer' = [answer EXCEPT ![r] = "whole"]
    /\ UNCHANGED <<reqStage, route, left, borrowed, armed, closed, replyVars, cleared, served, again>>

\* A response that is over, was destroyed, or lost its client emits 'close', once.
Closes(r) ==
    /\ r \notin closed /\ answer[r] \in {"whole", "cut"}
    /\ closed' = closed \cup {r}
    /\ ReleaseOnce(r)
    /\ UNCHANGED <<reqStage, route, left, answer, replyVars, cleared, served>>

Leaves(r) ==
    /\ r \notin left /\ r \notin closed
    /\ left' = left \cup {r} /\ closed' = closed \cup {r}
    /\ ReleaseOnce(r)
    /\ UNCHANGED <<reqStage, route, answer, replyVars, cleared, served>>

-----------------------------------------------------------------------------
(* The container *)

\* The handler of an event begins a stream; returns or throws; or dies with its process.
HandlerRuns(c) ==
    LET r == works[c] IN
    /\ r # Nothing
    /\ \/ /\ route[r] = "stream" /\ replies[r] = "none" /\ r \notin unheard
          /\ replies' = [replies EXCEPT ![r] = "head"] /\ UNCHANGED <<works, unheard>>
       \/ /\ \/ r \in unheard /\ UNCHANGED replies
             \/ /\ r \notin unheard
                /\ \E what \in {"all", IF replies[r] = "head" THEN "broken" ELSE "refused"} :
                      replies' = [replies EXCEPT ![r] = what]
          /\ works' = [works EXCEPT ![c] = Nothing] /\ unheard' = unheard \ {r}
    /\ UNCHANGED <<reqStage, route, left, answer, borrowed, armed, closed, tries, timer, drained, cleared, served, again>>

Handles(r) ==
    \/ BodyRead(r) \/ BodyFails(r) \/ Authorizes(r) \/ Called(r) \/ Acquires(r) \/ Delivered(r)
    \/ Refused(r) \/ Retries(r) \/ Aborted(r) \/ Responds(r) \/ Text(r) \/ Prelude(r)
    \/ Reads(r) \/ Errs(r) \/ Taken(r) \/ Closes(r)

RequestNext ==
    \/ \E r \in Requests : Handles(r) \/ TimesOut(r) \/ Leaves(r)
    \/ \E c \in Containers : HandlerRuns(c)

RequestSpec == RequestInit /\ [][RequestNext]_requestVars

-----------------------------------------------------------------------------
(* Properties *)

\* Nothing behind an authorizer, neither a service nor a container, is reached before its
\* verdict; a container is returned once by each that acquired it; and one whose handler
\* is still at an event of somebody else is lent only after that event timed out, its
\* stream was given up, or the attempt that brought it failed on the way.
AuthorizedFirst == served \subseteq cleared
ReturnedOnce == again = {}
LentIdle ==
    \A r, q \in Requests :
        borrowed[r] # Nothing /\ r # q /\ works[borrowed[r]] = q =>
            timer[q] = "fired" \/ route[q] = "stream" \/ q \in unheard

RequestsServed == AuthorizedFirst /\ ReturnedOnce /\ LentIdle

\* "`releasePool` runs in a `finally`-equivalent path so the warm container is returned to
\* the pool whether the stream ends cleanly or errors": when the handler has left that to
\* the events of the response, one that does it is still to come.
StreamsGiveBack ==
    \A r \in Requests :
        reqStage[r] = "done" /\ borrowed[r] # Nothing =>
            r \in armed /\ (r \notin closed \/ drained[r] # "ended")
=============================================================================
