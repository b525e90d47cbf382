---------------------------- MODULE MCTemplates ----------------------------
\* The warm container pool; and, as they need no fairness either, what the commands make of
\* what a template declares, each question over a small universe of declarations: a
\* variable of a container's environment, the listeners and rules of ALBs, the routes of an
\* API, and who has signed a request.  One is looked at at a time.
EXTENDS ContainerPool, TLC

CONSTANTS
    l1, l2, r1, r2, r3, r4,
    Anything, Intrinsic     \* what a condition of a rule may ask for

VARIABLES
    question,
    command, finch, declared, override, record, deployed, exported, entry, stage, value,
    unresolved, sensitive, plaintext, lookedUp,
    listeners,
    api, offered, cors, borrowed, fronted, strict, table,
    asked, loader, warnedIds, denies, signs, answered, told

envVars == <<command, finch, declared, override, record, deployed, exported, entry, stage,
    value, unresolved, sensitive, plaintext, lookedUp>>
apiVars == <<api, offered, cors, borrowed, fronted, strict, table>>
signatureVars == <<asked, loader, warnedIds, denies, signs, answered, told>>
templateVars == << envVars, listeners, apiVars, signatureVars>>

\* Three requests compete for l1 while r4 uses l2: dispose() has two drains.
TwoLambdas == [r \in Requests |-> IF r = r4 THEN l2 ELSE l1]

\* The requests of one Lambda are interchangeable, the containers always.
Symmetry == Permutations(Requests \ {r4}) \cup Permutations(Handles)

\* A value of at most three levels over a resource, a SecureString, a NoEcho parameter, an
\* attribute that is a secret, an output of another stack and a dynamic reference.
Declares(op, name, i, parts) == [op |-> op, name |-> name, at |-> i, parts |-> parts]
Leaf(op, names) == {Declares(op, n, 0, <<>>) : n \in names}
Import == Declares("Import", "", 0, <<Declares("literal", "text", 0, <<>>)>>)
Leaves ==
    Leaf("literal", {"text", "token"}) \cup Leaf("Ref", {"bucket", "secure", "noecho"})
    \cup Leaf("GetAtt", {"client.secret", "bucket.arn"}) \cup {Import}
Templates ==
    Leaves
    \cup {Declares("Sub", n, 0, <<v>>) : n \in {"text", "token"}, v \in Leaves}
    \cup {Declares("Select", "", i, <<v, w>>) : i \in {1, 2}, v, w \in Leaf("literal", {"token"}) \cup Leaf("Ref", {"bucket", "secure"})}
    \cup {Declares(op, "", 1, <<v>>) : op \in {"SelectSplit", "Split", "Import"}, v \in Leaves}
    \cup {Declares("Output", "", 1, <<v>>) : v \in Leaves}
    \cup {Declares("Join", "", 0, <<Declares("Sub", "text", 0, <<v>>), w>>) : v \in Leaves, w \in Leaf("literal", {"text", "token"})}

V == INSTANCE ContainerEnv WITH
        Values <- Templates, Resources <- {"bucket"}, Attributes <- {"bucket.arn"},
        Parameters <- {"secure"}, Secure <- {"secure"}, Pseudo <- {}, NoEcho <- {"noecho"},
        SecretAttributes <- {"client.secret"}

\* Rules of every field, lists of actions with literal guards and others, a Lambda, a
\* service and two groups that cannot be served.
Rule(p, conditions, actions) == [priority |-> p, conditions |-> conditions, actions |-> actions]
On(field, values) == [field |-> field, values |-> values]
Auth(literal) == [type |-> "authenticate", literal |-> literal]
To(groups) == [type |-> "forward", groups |-> groups]
Weighed(group, weight) == [group |-> group, weight |-> weight]
ActionLists ==
    {<<Auth(TRUE), Auth(FALSE), To(<<Weighed("f", 1), Weighed("s", 0)>>)>>,
     <<Auth(FALSE), To(<<Weighed("missing", 1), Weighed("unbacked", 1)>>)>>,
     <<To(<<Weighed("s", 1), Weighed("f", 2)>>)>>}
ConditionLists ==
    {<<On("path", {"a"})>>, <<On("path", {"a"}), On("host", {Intrinsic})>>,
     <<On("query", {"a"}), On("query", {"b"})>>, <<On("header", {"a"}), On("header", {"b"})>>,
     <<On("host", {Anything}), On("source", {[family |-> "v4", n |-> 2, prefix |-> 1]})>>}

L == INSTANCE AlbRules WITH
        Rules <- {Rule(p, cs, <<To(<<Weighed("s", 1), Weighed("f", 2)>>)>>) : p \in {1, 2}, cs \in ConditionLists}
                 \cup {Rule(1, <<On("path", {"a"})>>, as) : as \in ActionLists \cup {<<[type |-> "fixed-response"]>>}},
        Defaults <- ActionLists, Ports <- [p \in {80, 81} |-> 8000 + p], Stacks <- {"A", "B"},
        Groups <- [f |-> [kind |-> "lambda", of |-> "fn"], s |-> [kind |-> "service", of |-> "svc"],
                   missing |-> [kind |-> "not in the stack", of |-> "none"],
                   unbacked |-> [kind |-> "unbacked", of |-> "none"]],
        Clients <- {[path |-> p, host |-> IF q = {"a"} THEN {} ELSE {"h"}, header |-> q, query |-> q,
                     method |-> {"GET"}, source |-> [family |-> f, n |-> 3]] :
                        p \in {{"a"}, {"b"}}, q \in {{"a"}, {"a", "b"}}, f \in {"mapped", "v6"}},
        Bits <- 2, MaxListeners <- 2, MaxDeclared <- 3

\* Routes with every kind of authorizer, resolvable, unresolvable and malformed, of every
\* kind of integration; a chain of resources that leads nowhere.
Arn(fn, marker, names) == [fn |-> fn, marker |-> marker, names |-> names]
Fn == Arn("Join", TRUE, <<<<"f", "Name">>, <<"f", "Arn">>>>)
Obscure == Arn("Sub", FALSE, <<<<"f", "Arn">>>>)
Text == Arn("literal", FALSE, <<>>)
Guard(type, uri, source, pools, issuer) ==
    <<"CUSTOM", <<[type |-> type, uri |-> uri, source |-> source, pools |-> pools, issuer |-> issuer]>>>>
NoGuard == <<"NONE", <<>>>>
RestGuards ==
    {NoGuard, <<"AWS_IAM", <<>>>>, <<"CUSTOM", <<>>>>} \cup
    {Guard("TOKEN", u, s, <<>>, "") : u \in {Fn, Obscure}, s \in {"header", "other"}} \cup
    {Guard("COGNITO_USER_POOLS", Text, "", ps, "") : ps \in {<<>>, <<"literal">>, <<"literal", "GetAtt">>}}
HttpGuards ==
    {NoGuard, <<"AWS_IAM", <<>>>>} \cup {Guard("REQUEST", u, "header", <<>>, "") : u \in {Fn, Text}} \cup
    {Guard("JWT", Text, "", <<>>, i) : i \in {"literal", "Ref"}}
RouteOf(method, type, uri, guard) ==
    [method |-> method, type |-> type, uri |-> uri, auth |-> guard[1], authorizer |-> guard[2],
     headers |-> "literal", subtype |-> "none", parameters |-> TRUE, mode |-> "", resource |-> "a"]
HttpRoutes ==
    {RouteOf(m, "AWS_PROXY", Fn, g) : m \in {"GET", "ANY"}, g \in HttpGuards} \cup
    {RouteOf("OPTIONS", "AWS_PROXY", u, NoGuard) : u \in {Fn, Obscure}} \cup
    {[RouteOf("GET", t, Text, NoGuard) EXCEPT !.subtype = s] : t \in {"AWS_PROXY", "missing"}, s \in {"known", "unknown"}}
RestRoutes ==
    {RouteOf("GET", "AWS_PROXY", Fn, g) : g \in RestGuards} \cup
    {RouteOf("OPTIONS", t, Text, g) : t \in {"MOCK", "HTTP", "AWS"}, g \in {NoGuard, <<"AWS_IAM", <<>>>>}} \cup
    {[RouteOf("GET", "AWS", Fn, NoGuard) EXCEPT !.resource = n] : n \in {"c", "gone"}}
Urls ==
    {[RouteOf("ANY", "", Arn("GetAtt", FALSE, <<<<"f", a>>>>), <<g, <<>>>>) EXCEPT !.mode = m] :
        a \in {"Arn", "Name"}, g \in {"NONE", "AWS_IAM"}, m \in {"BUFFERED", "RESPONSE_STREAM", "other"}}

A == INSTANCE ApiRoutes WITH
        Apis <- {"rest", "http", "url", "websocket"},
        Routes <- [rest |-> RestRoutes, http |-> HttpRoutes, url |-> Urls, websocket |-> {RouteOf("ANY", "AWS_PROXY", Fn, NoGuard)}],
        Parents <- [a |-> "root", b |-> "c", c |-> "b"], MaxRoutes <- 2, declared <- offered,
        Configs <- {[origins |-> o, methods |-> {"GET"}, headers |-> h, credentials |-> h = {}] :
                        o \in {{"page"}, {"*", "page"}}, h \in {{}, {"x"}, {"x", "*"}}}

\* Requests of the developer, of two others and of one who pretends, whole and changed.
S == INSTANCE SigV4 WITH
        Foreign <- {"first", "second"}, MaxWarned <- 1, Skew <- 15, MaxWaiting <- 2,
        Signed <- {[by |-> "developer", form |-> "SigV4", date |-> "x-amz-date", day |-> "same", age |-> 15,
                    lists |-> {"host", "x"}, payload |-> p, touched |-> t] :
                        p \in {"declared", "hashed", "unsigned"}, t \in {"nothing", "query", "x", "body"}}
                  \cup {[by |-> b, form |-> "SigV4", date |-> "date", day |-> "same", age |-> a,
                         lists |-> {"host"}, payload |-> "hashed", touched |-> "nothing"] :
                            b \in {"developer", "pretender", "first", "second"}, a \in {0, 16}}

ASSUME V!EnvAssumption /\ L!AlbAssumption /\ A!ApiRoutesAssumption /\ S!SigV4Assumption

MCInit ==
    /\ question \in {"pool", "environment", "rules", "routes", "signatures"}
    /\ Init /\ V!EnvInit /\ L!AlbInit /\ A!ApiRoutesInit /\ S!SigV4Init
    /\ question # "environment" =>
        /\ declared = Import /\ exported = {} /\ command = "task" /\ entry = "none"
        /\ override = "none" /\ record /\ ~finch
    /\ question # "routes" => api = "url" /\ ~strict
    /\ question # "signatures" => ~denies /\ ~signs

Pool(action) ==
    question = "pool" /\ action /\ UNCHANGED <<question, templateVars>>
Environment(action) ==
    question = "environment" /\ action /\ UNCHANGED <<question, vars, listeners, apiVars, signatureVars>>
Rules(action) ==
    question = "rules" /\ action /\ UNCHANGED <<question, vars, envVars, apiVars, signatureVars>>
RoutesOf(action) ==
    question = "routes" /\ action /\ UNCHANGED <<question, vars, envVars, listeners, signatureVars>>
Signatures(action) ==
    question = "signatures" /\ action /\ UNCHANGED <<question, vars, envVars, listeners, apiVars>>

MCNext ==
    \/ Pool(Next) \/ Environment(V!EnvNext) \/ Rules(L!AlbNext) \/ RoutesOf(A!ApiRoutesNext)
    \/ Signatures(S!SigV4Next)

MCSpec == MCInit /\ [][MCNext]_<<question, vars, templateVars>>

\* Whatever a template, an override, the state of a stack and a deployed function say of a
\* variable: no plaintext on a command line, no dynamic reference but the template's own
\* looked up, none left to a container, and the override wins.
EnvAsDeclared == V!EnvAsDeclared

\* Whatever a template declares, a rule serves what it asks for and no more, nobody gets
\* past its guard, and a forward leads to the targets of its ALB; a route of an API is as
\* guarded as declared, a page can read what a preflight promised, and the name a signed
\* request gets is that of who signed it.
RequestsAsDeclared == L!AlbAsDeclared /\ A!ApisAsDeclared /\ S!SignaturesHonoured

=============================================================================
