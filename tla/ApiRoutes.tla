------------------------------ MODULE ApiRoutes ------------------------------
(***************************************************************************)
(* What `cdkl start-api` makes of the routes of an API, and what a request *)
(* to one of them is answered: the discovery of routes                     *)
(* (src/src/local/route-discovery.ts), their authorizers                   *)
(* (authorizer-resolver.ts), CORS (cors-handler.ts) and the order of an    *)
(* HTTP request (http-server.ts).                                          *)
(*                                                                         *)
(* All routes are of one API or Function URL and one path: RouteMatcher    *)
(* has the paths.  An ARN is [fn, marker, names]: the intrinsic, whether   *)
(* its text is that of an invocation, what it names as <<id, attribute>>.  *)
(***************************************************************************)
EXTENDS Naturals, Sequences, SequencesExt

CONSTANTS
    Apis,       \* kinds of API: "rest", "http", "websocket", "url"
    Routes,     \* what a template may declare, by the kind of its API
    Parents,    \* resource of a REST API -> its parent, "api" or "none"
    Configs,    \* CORS configurations: [origins, methods, headers, credentials]
    MaxRoutes

ApiRoutesAssumption == MaxRoutes \in Nat /\ DOMAIN Routes = Apis

VARIABLES
    api,        \* the kind of the API
    declared,   \* its routes, in the order of the template
    cors,       \* its own configuration, or <<>>
    borrowed,   \* for a Function URL, those of the behaviors of its distribution
    fronted,    \* its distribution signs what it sends to it
    strict,     \* --strict-sigv4
    table       \* <<>> until the command has started; then [refused, routes]

apiRouteVars == <<api, declared, cors, borrowed, fronted, strict, table>>

ApiRoutesInit ==
    /\ api \in Apis /\ declared = <<>> /\ cors = <<>> /\ borrowed = <<>> /\ fronted = FALSE
    /\ strict \in BOOLEAN /\ table = <<>>

-----------------------------------------------------------------------------
(* resolveLambdaArnIntrinsic *)

\* The function an ARN names: <<>> when it cannot be told.
resolveLambdaArn(arn) ==
    LET named == SelectSeq(arn.names, LAMBDA n : n[2] = "Arn")
    IN CASE arn.fn = "Ref" -> <<arn.names[1][1]>>
         [] arn.fn = "GetAtt" -> IF arn.names[1][2] = "Arn" THEN <<arn.names[1][1]>> ELSE <<>>
         [] arn.fn \in {"Join", "Sub"} -> IF arn.marker /\ named # <<>> THEN <<named[1][1]>> ELSE <<>>
         [] OTHER -> <<>>

uriContainsLambdaMarker(arn) == arn.marker \/ arn.fn \in {"Ref", "GetAtt"}

-----------------------------------------------------------------------------
(* discoverRoutes *)

Malformed == [kind |-> "malformed"]
Unsupported == [kind |-> "unsupported", lambda |-> ""]
Kept(kind) == [kind |-> kind, lambda |-> ""]
Invokes(kind, arn) ==
    IF resolveLambdaArn(arn) = <<>> THEN Unsupported
    ELSE [kind |-> kind, lambda |-> resolveLambdaArn(arn)[1]]

\* buildRestV1Path: the chain of parents ends at the root, or where no parent is named.
RECURSIVE LeadsToRoot(_, _)
LeadsToRoot(node, visited) ==
    \/ node \in {"root", "api", "none"}
    \/ node \in DOMAIN Parents \ visited /\ LeadsToRoot(Parents[node], visited \cup {node})

\* A MOCK of OPTIONS with literal headers is taken for a preflight.
discoverRestV1Method(r) ==
    IF r.type = "missing" \/ ~LeadsToRoot(r.resource, {}) THEN Malformed
    ELSE CASE r.type = "MOCK" -> Kept(IF r.method = "OPTIONS" /\ r.headers = "literal" THEN "preflight" ELSE "integration")
           [] r.type \in {"HTTP", "HTTP_PROXY"} -> IF r.uri.fn = "literal" THEN Kept("integration") ELSE Unsupported
           [] r.type = "AWS" -> IF uriContainsLambdaMarker(r.uri) THEN Invokes("integration", r.uri) ELSE Unsupported
           [] r.type = "AWS_PROXY" -> Invokes("lambda", r.uri)
           [] OTHER -> Unsupported

classifyServiceIntegrationRoute(r) ==
    IF r.subtype = "known" /\ r.parameters THEN Kept("service") ELSE Unsupported

discoverHttpApiRoute(r) ==
    IF r.type = "missing" THEN Malformed
    ELSE IF r.type # "AWS_PROXY" THEN Unsupported
    ELSE IF r.subtype # "none" THEN classifyServiceIntegrationRoute(r)
    ELSE Invokes("lambda", r.uri)

discoverFunctionUrl(r) ==
    IF resolveLambdaArn(r.uri) = <<>> THEN Malformed
    ELSE IF r.auth \notin {"NONE", "AWS_IAM"} \/ r.mode = "other"
    THEN [Invokes("unsupported", r.uri) EXCEPT !.kind = "unsupported"]
    ELSE Invokes(IF r.mode = "RESPONSE_STREAM" THEN "stream" ELSE "lambda", r.uri)

\* The routes of a WebSocket API are not served over HTTP.
Discovered(r) ==
    CASE api = "rest" -> discoverRestV1Method(r)
      [] api = "http" -> discoverHttpApiRoute(r)
      [] OTHER -> discoverFunctionUrl(r)

-----------------------------------------------------------------------------
(* attachAuthorizers *)

Open == [kind |-> "none"]
Unresolvable == [kind |-> "unresolvable"]

(* Mutation: an authorizer that cannot be resolved is none. *)
ServesUnguarded(arn) == IF resolveLambdaArn(arn) = <<>> THEN Open ELSE [kind |-> "lambda"]

ByLambda(arn) == IF resolveLambdaArn(arn) = <<>> THEN Unresolvable ELSE [kind |-> "lambda"]

\* A pool named by Fn::GetAtt is a placeholder nobody can reach.
Pools(arns) ==
    IF arns = <<>> \/ \E i \in DOMAIN arns : arns[i] \notin {"literal", "GetAtt"} THEN Malformed
    ELSE [kind |-> "jwt", blind |-> \E i \in DOMAIN arns : arns[i] = "GetAtt"]

resolveRestV1Authorizer(a) ==
    CASE a.type = "TOKEN" ->
            IF resolveLambdaArn(a.uri) = <<>> THEN Unresolvable
            ELSE IF a.source = "header" THEN [kind |-> "lambda"] ELSE Malformed
      [] a.type = "REQUEST" -> ByLambda(a.uri)
      [] a.type = "COGNITO_USER_POOLS" -> Pools(a.pools)
      [] OTHER -> Malformed

resolveHttpApiAuthorizer(a) ==
    CASE a.type = "REQUEST" -> ByLambda(a.uri)
      [] a.type = "JWT" -> IF a.issuer = "literal" THEN [kind |-> "jwt", blind |-> FALSE] ELSE Malformed
      [] OTHER -> Malformed

\* An HTTP API has no AWS_IAM of its own.
detectAuthorizer(r) ==
    IF api = "url" THEN IF r.auth = "AWS_IAM" THEN [kind |-> "iam", oacFronted |-> fronted] ELSE Open
    ELSE IF r.auth \in {"undefined", "NONE"} THEN Open
    ELSE IF api = "rest" /\ r.auth = "AWS_IAM" THEN [kind |-> "iam", oacFronted |-> FALSE]
    ELSE IF r.authorizer = <<>> THEN Malformed
    ELSE IF api = "rest" THEN resolveRestV1Authorizer(r.authorizer[1])
    ELSE resolveHttpApiAuthorizer(r.authorizer[1])

\* What is never dispatched needs no authorizer.
Attached(r) ==
    LET route == Discovered(r)
        authorizer == IF route.kind \in {"unsupported", "preflight"} THEN Open ELSE detectAuthorizer(r)
    IN [method |-> IF api = "url" THEN "ANY" ELSE r.method,
        kind |-> IF authorizer.kind = "unresolvable" THEN "unsupported" ELSE route.kind,
        authorizer |-> IF authorizer.kind = "unresolvable" THEN Open ELSE authorizer,
        of |-> r]

-----------------------------------------------------------------------------
(* The steps *)

Declares(r) ==
    /\ table = <<>> /\ Len(declared) < IF api = "url" THEN 1 ELSE MaxRoutes
    /\ declared' = Append(declared, r)
    /\ UNCHANGED <<api, cors, borrowed, fronted, strict, table>>

ConfiguresCors(c) ==
    /\ table = <<>> /\ api \in {"http", "url"} /\ cors = <<>> /\ cors' = <<c>>
    /\ UNCHANGED <<api, declared, borrowed, fronted, strict, table>>

Fronts(c, signs) ==
    /\ table = <<>> /\ api = "url" /\ Len(borrowed) < 2
    /\ borrowed' = Append(borrowed, c) /\ fronted' = (fronted \/ signs)
    /\ UNCHANGED <<api, declared, cors, strict, table>>

\* One route that is malformed, or whose authorizer is, refuses the command.
discoverRoutes ==
    /\ table = <<>> /\ declared # <<>>
    /\ LET routes == IF api = "websocket" THEN <<>> ELSE [i \in DOMAIN declared |-> Attached(declared[i])]
           refused == \/ routes = <<>>
                      \/ \E i \in DOMAIN routes : Discovered(declared[i]).kind = "malformed"
                      \/ \E i \in DOMAIN routes : routes[i].authorizer.kind = "malformed"
       IN table' = <<[refused |-> refused, routes |-> IF refused THEN <<>> ELSE routes]>>
    /\ UNCHANGED <<api, declared, cors, borrowed, fronted, strict>>

ApiRoutesNext ==
    \/ \E r \in Routes[api] : Declares(r)
    \/ \E c \in Configs : ConfiguresCors(c) \/ Fronts(c, TRUE) \/ Fronts(c, FALSE)
    \/ discoverRoutes

-----------------------------------------------------------------------------
(* CORS *)

\* buildCorsConfigFromCloudFrontChain, buildCorsConfigByApiId: the last of the behaviors,
\* whatever its origin, and the API's own over all of them.
corsConfig == IF cors # <<>> THEN cors ELSE IF borrowed # <<>> THEN <<Last(borrowed)>> ELSE <<>>

In(x, allowed) == x \in allowed \/ "*" \in allowed

matchPreflight(req, c) ==
    /\ In(req.origin, c.origins) /\ In(req.asks, c.methods)
    /\ req.headers = {} \/ "*" \in c.headers \/ req.headers \subseteq c.headers

\* applyCorsResponseHeaders: what the page may read the answer with.
applyCors(origin) ==
    IF corsConfig = <<>> \/ ~In(origin, corsConfig[1].origins) THEN "nothing"
    ELSE IF "*" \in corsConfig[1].origins /\ ~corsConfig[1].credentials THEN "*" ELSE origin

-----------------------------------------------------------------------------
(* handleRequest: the request of a page, [method, origin, asks, headers, proof] *)

Served == table # <<>> /\ table[1].routes # <<>>

\* On one path it is the first route that takes the method: RouteMatcher has the others.
matchRoute(method) ==
    SelectInSeq(table[1].routes, LAMBDA r : r.method \in {method, "ANY"})

maybeHandleCorsPreflight(req) ==
    /\ matchRoute(req.asks) # 0 /\ api # "rest" /\ corsConfig # <<>>
    /\ \A i \in DOMAIN table[1].routes : table[1].routes[i].method # "OPTIONS"
    /\ matchPreflight(req, corsConfig[1])

\* The verdicts of runAuthorizerPass on a proof that is "none", "good", "bad" or, for a
\* signature, somebody else's.  A pool that cannot be reached lets every token through,
\* SigV4 has why a foreign signature passes.
runAuthorizerPass(authorizer, proof) ==
    CASE authorizer.kind = "none" -> TRUE
      [] authorizer.kind = "lambda" -> proof = "good"
      [] authorizer.kind = "jwt" -> proof = "good" \/ (proof = "bad" /\ authorizer.blind)
      [] OTHER -> proof = "good" \/ (proof = "foreign" /\ (authorizer.oacFronted \/ ~strict))

\* Who answers a request, and the origin its answer may be read from; a stream begins with
\* the headers of the function, whose own go before those of the configuration.
Answer(req) ==
    LET i == matchRoute(req.method)
        route == table[1].routes[i]
    IN IF i = 0 THEN [by |-> "nobody", allows |-> "nothing"]
       ELSE IF route.kind = "preflight" THEN [by |-> "preflight", allows |-> "its own"]
       ELSE IF route.kind = "unsupported" THEN [by |-> "nobody", allows |-> applyCors(req.origin)]
       ELSE IF ~runAuthorizerPass(route.authorizer, req.proof) THEN [by |-> "authorizer", allows |-> applyCors(req.origin)]
       ELSE IF route.kind = "stream" /\ req.own THEN [by |-> "backend", allows |-> "its own"]
       ELSE [by |-> "backend", allows |-> applyCors(req.origin)]

-----------------------------------------------------------------------------
(* Properties *)

PageRequests ==
    [method : {"GET", "OPTIONS"}, origin : {"page", "other"}, asks : {"GET"}, headers : {{}, {"x"}},
     proof : {"none", "good", "bad", "foreign"}, own : BOOLEAN]

\* A route with an authorization reaches its backend only with a proof that is good, but
\* for a pool that is known after deployment only and a signature nobody can verify here,
\* which --strict-sigv4 refuses unless a distribution signs; an authorization that cannot
\* be resolved closes the route or refuses the command.
GuardKept ==
    Served => \A req \in PageRequests :
        LET r == table[1].routes[matchRoute(req.method)].of
        IN Answer(req).by = "backend" /\ r.auth \notin {"undefined", "NONE"} =>
             \/ req.proof = "good"
             \/ /\ req.proof = "bad" /\ r.authorizer # <<>>
                /\ r.authorizer[1].type = "COGNITO_USER_POOLS"
                /\ \E i \in DOMAIN r.authorizer[1].pools : r.authorizer[1].pools[i] = "GetAtt"
             \/ req.proof = "foreign" /\ r.auth = "AWS_IAM" /\ ((api = "url" /\ fronted) \/ ~strict)

\* If a preflight is answered for a page, the page can read what the request is answered,
\* be it an error, unless a function streams headers of its own.
ReadableAsPromised ==
    Served => \A req \in PageRequests :
        req.method = "GET" /\ maybeHandleCorsPreflight(req) /\ Answer(req).by # "preflight" =>
            /\ Answer(req).allows \in {req.origin, "*", "its own"}
            /\ Answer(req).allows = "its own" => req.own /\ table[1].routes[matchRoute("GET")].of.mode = "RESPONSE_STREAM"
            /\ req.headers \subseteq corsConfig[1].headers \cup (IF "*" \in corsConfig[1].headers THEN {"x"} ELSE {})

\* A configuration with credentials never answers with the wildcard, and an origin it does
\* not name reads nothing.
CorsNamesOrigin ==
    Served /\ corsConfig # <<>> => \A req \in PageRequests :
        LET c == corsConfig[1]
            allows == Answer(req).allows
        IN /\ c.credentials => allows # "*"
           /\ req.origin \notin c.origins /\ "*" \notin c.origins => allows \in {"nothing", "its own"}

ApisAsDeclared == GuardKept /\ ReadableAsPromised /\ CorsNamesOrigin
=============================================================================
