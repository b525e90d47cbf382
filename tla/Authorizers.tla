---------------------------- MODULE Authorizers ----------------------------
(***************************************************************************)
(* Who may call: the authorizers of `start-api`, the authenticate-* guard  *)
(* of the ALB front door and the inbound JWT check of `start-agentcore`.   *)
(*                                                                         *)
(* Concurrent requests share two maps with expiries: the verdicts of       *)
(* authorizers per identity (authorizer-cache.ts) and the signing keys per *)
(* issuer (cognito-jwt.ts).  Between a look into a map and the write that  *)
(* follows it lies a call to a Lambda or to the issuer, and other requests *)
(* answer meanwhile.  One authorizer, of one kind, is modelled at a time;  *)
(* a policy is the set of routes it allows.                                *)
(***************************************************************************)
EXTENDS Naturals

CONSTANTS
    Requests,
    VerdictTtl,   \* resultTtlSeconds of a Lambda authorizer, the cap of a JWT verdict
    KeysTtl,      \* ttlMs, of keys that were fetched
    FailureTtl,   \* failureTtlMs, of a fetch that failed
    Expiry,       \* the exp claim of every token
    MaxClock,     \* bound: the clock stops there
    Nothing

AuthorizersAssumption ==
    /\ {VerdictTtl, KeysTtl, FailureTtl, Expiry, MaxClock} \subseteq Nat \ {0}
    /\ FailureTtl < KeysTtl /\ Nothing \notin Nat

VARIABLES
    kind,      \* AuthorizerInfo.kind, or the guard of another server
    ttl,       \* its TTL; 0 is no cache
    clock,     \* Date.now()
    verdicts,  \* the AuthorizerCache
    keys,      \* the JwksCache, per issuer
    step,      \* what each request waits for
    request,   \* the identity it shows, the route it asks for
    admitted,  \* the request that was let through just now
    granted,   \* when an authorizer Lambda last allowed an identity a route
    failedAt   \* when an issuer could last not be reached

vars == <<kind, ttl, clock, verdicts, keys, step, request, admitted, granted, failedAt>>

LambdaKinds == {"lambda-token", "lambda-request"}
ApiKinds == {"cognito", "jwt"}
ServeKinds == {"alb", "agentcore"}

Routes == {"a", "b"}
Issuers == {"pool1", "pool2"}

\* Tokens by what tells them apart: the issuer they claim, if they parse at all, and
\* whether the keys of that issuer, the audience and the claims bear them out.
Token(iss, genuine) == [iss |-> iss, genuine |-> genuine]
Good == Token("pool1", TRUE)
Garbage == Token(Nothing, FALSE)
Tokens == {Good, Token("pool2", TRUE), Token("pool1", FALSE), Token("elsewhere", FALSE), Garbage}

Callers == {"alice", Nothing}
Identities == IF kind \in LambdaKinds THEN Callers ELSE Tokens \cup {Nothing}

\* What a cache key is made of: buildIdentityHash() of a token is the token, hashOne()
\* of a header is the header, the scheme included.
Bare(identity) == [scheme |-> "", identity |-> identity]
Header(token) == [scheme |-> "Bearer ", identity |-> token]

Init ==
    /\ kind \in LambdaKinds \cup ApiKinds \cup ServeKinds
    /\ ttl \in IF kind \in LambdaKinds THEN {0, VerdictTtl} ELSE {VerdictTtl}
    /\ clock = 0 /\ verdicts = <<>>
    \* prewarmJwks() of start-api fetches the keys of every pool.
    /\ failedAt \in [Issuers -> {0, Nothing}]
    /\ kind \notin ApiKinds => \A i \in Issuers : failedAt[i] = Nothing
    /\ keys = [i \in Issuers |->
                CASE kind \notin ApiKinds -> Nothing
                  [] failedAt[i] = 0 -> [passThrough |-> TRUE, expiresAt |-> FailureTtl]
                  [] OTHER -> [passThrough |-> FALSE, expiresAt |-> KeysTtl]]
    /\ step = [r \in Requests |-> "idle"] /\ request = [r \in Requests |-> Nothing]
    /\ admitted = Nothing
    /\ granted = [i \in Callers |-> [p \in Routes |-> Nothing]]

-----------------------------------------------------------------------------
(* The caches. *)

Lookup(key) ==
    IF key \in DOMAIN verdicts /\ verdicts[key].expiresAt > clock THEN verdicts[key] ELSE Nothing

\* set(): no TTL, no entry.
Stored(key, verdict, seconds) ==
    IF seconds = 0 THEN verdicts
    ELSE [k \in DOMAIN verdicts \cup {key} |->
            IF k = key THEN [verdict |-> verdict, expiresAt |-> clock + seconds] ELSE verdicts[k]]

\* The request q of r is answered, or waits for what `to` names.
Answers(r, q, allow) ==
    /\ step' = [step EXCEPT ![r] = "idle"] /\ request' = [request EXCEPT ![r] = Nothing]
    /\ admitted' = IF allow THEN q ELSE Nothing

Waits(r, q, to) ==
    /\ step' = [step EXCEPT ![r] = to] /\ request' = [request EXCEPT ![r] = q]
    /\ admitted' = Nothing

-----------------------------------------------------------------------------
(* Lambda authorizers: runAuthorizerPass(). *)

\* What the response of an authorizer says of a route; { isAuthorized } and a response
\* that is none at all have no policy.
Permits(verdict, route) ==
    IF verdict.policy = Nothing THEN verdict.allow ELSE route \in verdict.policy

(* Mutation: the verdict is taken as it was for the route that was asked first. *)
AsItWas(verdict, route) == verdict.allow

\* evaluateCachedLambdaPolicy(): a policy is asked again for the route at hand.
Evaluated(verdict, route) == Permits(verdict, route)

LambdaArrives(r, q) ==
    LET hit == Lookup(Bare(q.identity)) IN
    /\ IF kind = "lambda-token" /\ q.identity = Nothing
       THEN Answers(r, q, FALSE)
       ELSE IF hit # Nothing THEN Answers(r, q, Evaluated(hit.verdict, q.route))
       ELSE Waits(r, q, "invoking")
    /\ UNCHANGED verdicts

Verdicts ==
    [policy : SUBSET Routes, allow : {FALSE}]
    \cup [policy : {Nothing}, allow : IF kind = "lambda-request" THEN BOOLEAN ELSE {FALSE}]

AuthorizerReturns(r) ==
    /\ step[r] = "invoking"
    /\ LET q == request[r] IN
       \E v \in Verdicts :
          LET allow == Permits(v, q.route) IN
          /\ verdicts' = Stored(Bare(q.identity), [v EXCEPT !.allow = allow], ttl)
          /\ Answers(r, q, allow)
          /\ granted' = [granted EXCEPT ![q.identity] =
                [p \in Routes |-> IF Permits(v, p) THEN clock ELSE @[p]]]
    /\ UNCHANGED <<kind, ttl, clock, keys, failedAt>>

\* A pool without a container, or a RIE that answers too late: denied, not cached.
AuthorizerThrows(r) ==
    /\ step[r] = "invoking"
    /\ Answers(r, request[r], FALSE)
    /\ UNCHANGED <<kind, ttl, clock, verdicts, keys, granted, failedAt>>

-----------------------------------------------------------------------------
(* JWT authorizers: verifyCognitoJwt(), verifyJwtAuthorizer(), *)
(* verifyJwtViaDiscovery() and verifyAndShape(). *)

Smaller(m, n) == IF m < n THEN m ELSE n

\* The pool whose keys decide: of several, the one the token claims to be from.
IssuerOf(token) ==
    CASE kind # "cognito" -> "pool1"
      [] kind = "cognito" /\ token.iss \in Issuers -> token.iss
      [] OTHER -> Nothing

\* shapeAllowResult(): as long as the token is valid, and no longer than the cap.
VerdictSeconds(token) ==
    IF token = Garbage \/ clock >= Expiry THEN 0 ELSE Smaller(VerdictTtl, Expiry - clock)

\* Let in, with known keys or with none; only start-api keeps verdicts.
Allows(r, q) ==
    /\ Answers(r, q, TRUE)
    /\ verdicts' =
        IF kind \in ApiKinds
        THEN Stored(Bare(q.identity), [policy |-> Nothing, allow |-> TRUE], VerdictSeconds(q.identity))
        ELSE verdicts

Denies(r, q) == Answers(r, q, FALSE) /\ UNCHANGED verdicts

Proven(token) == token.genuine /\ token.iss = IssuerOf(token) /\ clock < Expiry

Decides(r, q, entry) == IF entry.passThrough \/ Proven(q.identity) THEN Allows(r, q) ELSE Denies(r, q)

Known(issuer) == keys[issuer] # Nothing /\ keys[issuer].expiresAt > clock

\* fetchAndCache(), as far as the network.
AsksForKeys(r, q) ==
    LET issuer == IssuerOf(q.identity) IN
    IF Known(issuer) THEN Decides(r, q, keys[issuer])
    ELSE Waits(r, q, "fetching") /\ UNCHANGED verdicts

\* The key under which a verdict is looked for.
LookupKey(token) == Header(token)

JwtArrives(r, q) ==
    LET token == q.identity IN
    CASE token = Nothing -> Denies(r, q)
      [] token # Nothing /\ kind \in ApiKinds /\ Lookup(LookupKey(token)) # Nothing ->
            Answers(r, q, TRUE) /\ UNCHANGED verdicts
      [] OTHER ->
            CASE IssuerOf(token) = Nothing -> Denies(r, q)
              [] kind = "agentcore" -> Waits(r, q, "discovering") /\ UNCHANGED verdicts
              [] OTHER -> AsksForKeys(r, q)

\* The discovery document is asked for by every request; without it the token passes.
Discovered(r) ==
    /\ step[r] = "discovering"
    /\ \/ AsksForKeys(r, request[r]) /\ UNCHANGED failedAt
       \/ Allows(r, request[r]) /\ failedAt' = [failedAt EXCEPT !["pool1"] = clock]
    /\ UNCHANGED <<kind, ttl, clock, keys, granted>>

\* A failure is an entry too, of a shorter life.
KeysEntry(passThrough) ==
    [passThrough |-> passThrough,
     expiresAt |-> clock + (IF passThrough THEN FailureTtl ELSE KeysTtl)]

\* The answer of the issuer, or none; it overwrites whatever is there by now.
KeysFetched(r) ==
    /\ step[r] = "fetching"
    /\ LET issuer == IssuerOf(request[r].identity) IN
       \E failed \in BOOLEAN :
        /\ keys' = [keys EXCEPT ![issuer] = KeysEntry(failed)]
        /\ failedAt' = IF failed THEN [failedAt EXCEPT ![issuer] = clock] ELSE failedAt
        /\ Decides(r, request[r], KeysEntry(failed))
    /\ UNCHANGED <<kind, ttl, clock, granted>>

-----------------------------------------------------------------------------

Arrives(r) ==
    /\ step[r] = "idle"
    /\ \E i \in Identities, p \in (IF kind \in LambdaKinds THEN Routes ELSE {"a"}) :
        LET q == [identity |-> i, route |-> p] IN
        IF kind \in LambdaKinds THEN LambdaArrives(r, q) ELSE JwtArrives(r, q)
    /\ UNCHANGED <<kind, ttl, clock, keys, granted, failedAt>>

Fresh(since, seconds) == since # Nothing /\ (since = clock \/ clock - since < seconds)

\* Time passes.  What has expired is forgotten at once, while the caches find it
\* expired when they next look; so is history that no property asks for any more.
Tick ==
    /\ clock < MaxClock
    /\ clock' = clock + 1
    /\ verdicts' = [k \in {l \in DOMAIN verdicts : verdicts[l].expiresAt > clock'} |-> verdicts[k]]
    /\ keys' = [i \in Issuers |->
                IF keys[i] # Nothing /\ keys[i].expiresAt > clock' THEN keys[i] ELSE Nothing]
    /\ granted' = [i \in Callers |-> [p \in Routes |->
                IF granted[i][p] # Nothing /\ clock' - granted[i][p] < ttl THEN granted[i][p] ELSE Nothing]]
    /\ admitted' = Nothing
    /\ UNCHANGED <<kind, ttl, step, request, failedAt>>

Step(r) == Arrives(r) \/ AuthorizerReturns(r) \/ AuthorizerThrows(r) \/ Discovered(r) \/ KeysFetched(r)

Next == Tick \/ \E r \in Requests : Step(r)

Spec == Init /\ [][Next]_vars

-----------------------------------------------------------------------------
(* Properties. *)

\* A Lambda authorizer that let an identity through has allowed it that very route, no
\* longer ago than its TTL, whichever route and request the cached verdict is from.
LambdaSaidSo ==
    kind \in LambdaKinds /\ admitted # Nothing => Fresh(granted[admitted.identity][admitted.route], ttl)

\* A token that proves nothing, or has expired, passes only while its issuer cannot be
\* reached: no longer than the TTL of a failure.
BlindOnlyBriefly ==
    kind \notin LambdaKinds /\ admitted # Nothing =>
        Proven(admitted.identity) \/ Fresh(failedAt[IssuerOf(admitted.identity)], FailureTtl)

\* One request after another, a token is not verified again while there is a verdict on
\* it: "Authorizer results are cached per `(authorizer, identity)`" and "JWT: cached for
\* `min(remaining-exp, 300s)`" (docs/local-emulation.md:1063-1066).
VerdictReused ==
    \A r \in Requests : step[r] = "fetching" => Lookup(Bare(request[r].identity)) = Nothing

=============================================================================
