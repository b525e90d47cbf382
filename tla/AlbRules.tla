------------------------------ MODULE AlbRules ------------------------------
(***************************************************************************)
(* Which rule of which listener serves a request to `cdkl start-alb`, and  *)
(* what the rule leads to: the resolution of a template                    *)
(* (src/src/local/elb-front-door-resolver.ts), the conditions              *)
(* (src/src/local/alb-path-matcher.ts), the registries of targets          *)
(* (src/src/cli/commands/ecs-service-emulator.ts) and the pick of a target *)
(* (src/src/local/front-door-server.ts).                                   *)
(*                                                                         *)
(* A condition is [field, values]: a value is one fact a request may have, *)
(* Anything, or Intrinsic, which cannot be told locally.  A request has a  *)
(* set of facts per field, so that a glob is the facts it takes.           *)
(***************************************************************************)
EXTENDS Integers, Sequences, FiniteSets, SequencesExt

CONSTANTS
    Rules,        \* what a template may declare: [priority, conditions, actions]
    Defaults,     \* default actions
    Ports,        \* listener port -> host port, with --lb-port
    Stacks,
    Groups,       \* target group -> [kind, of]
    Clients,      \* requests: [field -> facts], and the address as [family, n]
    Bits,         \* the width of an address
    Anything, Intrinsic,
    MaxListeners, MaxDeclared \* bounds: listeners, listeners and rules

AlbAssumption ==
    /\ Anything # Intrinsic
    /\ \A g \in DOMAIN Groups : Groups[g].kind \in {"lambda", "service", "unbacked", "not in the stack"}
    /\ MaxListeners \in Nat /\ MaxDeclared \in Nat

VARIABLE listeners   \* as declared, over the ALBs in the order of the command line

AlbInit == listeners = <<>>

Declared == FoldLeft(LAMBDA n, l : n + 1 + Len(l.rules), 0, listeners)

DeclaresListener ==
    /\ Len(listeners) < MaxListeners /\ Declared < MaxDeclared
    /\ \E s \in Stacks, p \in DOMAIN Ports, d \in Defaults :
        listeners' = Append(listeners, [stack |-> s, port |-> p, default |-> d, rules |-> <<>>])

DeclaresRule ==
    /\ listeners # <<>> /\ Declared < MaxDeclared
    /\ \E r \in Rules :
        listeners' = [listeners EXCEPT ![Len(listeners)].rules = Append(@, r)]

AlbNext == DeclaresListener \/ DeclaresRule

-----------------------------------------------------------------------------
(* parseRuleConditions: the values of one field come together, but for headers; a rule   *)
(* with a value that cannot be told is left out, and so is one without any condition.     *)

MergedFields == {"path", "host", "method", "query", "source"}

ValuesOf(rule, field) ==
    UNION {rule.conditions[i].values : i \in {j \in DOMAIN rule.conditions : rule.conditions[j].field = field}}

Kept(rule) ==
    /\ \A i \in DOMAIN rule.conditions :
        /\ Intrinsic \notin rule.conditions[i].values
        /\ rule.conditions[i].field \in MergedFields \cup {"header"}
        /\ rule.conditions[i].field = "header" => rule.conditions[i].values # {}
    /\ \E i \in DOMAIN rule.conditions : rule.conditions[i].values # {}

\* parseAuthenticateAction: a guard whose pool or issuer is not literal is left out.
Guards(action) == action.type = "authenticate" /\ action.literal

\* collectForwardTargetGroupRefs, resolveForwardAction: the groups that can be served.
ServableGroups(action) ==
    SelectSeq(action.groups, LAMBDA g : Groups[g.group].kind \in {"lambda", "service"})

IsTerminal(action) ==
    \/ action.type \in {"redirect", "fixed-response"}
    \/ action.type = "forward" /\ ServableGroups(action) # <<>>

\* The first action that ends the list, with the guards before it; 0 when there is none.
Terminal(actions) == SelectInSeq(actions, IsTerminal)

resolveAction(actions) ==
    LET end == Terminal(actions)
    IN IF end = 0 THEN <<>>
       ELSE <<[action |-> actions[end], guarded |-> \E i \in 1 .. end - 1 : Guards(actions[i])]>>

\* resolveAlbFrontDoor: the rules that can be served, by their place in the template.
Servable(listener) ==
    {i \in DOMAIN listener.rules : Kept(listener.rules[i]) /\ resolveAction(listener.rules[i].actions) # <<>>}

IsServed(listener) == resolveAction(listener.default) # <<>> \/ Servable(listener) # {}

\* The first listener that claims a host port has it.
Claims(k) ==
    /\ IsServed(listeners[k])
    /\ \A j \in 1 .. k - 1 : IsServed(listeners[j]) => Ports[listeners[j].port] # Ports[listeners[k].port]

-----------------------------------------------------------------------------
(* matchAlbPathRule *)

\* unmapV4MappedV6, and matchBitPrefix on addresses of one family.
Unmapped(address) == IF address.family = "mapped" THEN [address EXCEPT !.family = "v4"] ELSE address

albCidrMatches(cidr, address) ==
    LET ip == Unmapped(address)
        size == 2 ^ (Bits - cidr.prefix)
    IN cidr.family = ip.family /\ cidr.n \div size = ip.n \div size

Takes(field, values, client) ==
    IF field = "source" THEN \E c \in values : albCidrMatches(c, client.source)
    ELSE \E v \in values : IF v = Anything THEN client[field] # {} ELSE v \in client[field]

(* Mutation: conditions on different headers are merged like those on other fields. *)
MatchesSomeHeader(rule, client) ==
    /\ \A f \in MergedFields : ValuesOf(rule, f) # {} => Takes(f, ValuesOf(rule, f), client)
    /\ ValuesOf(rule, "header") # {} => Takes("header", ValuesOf(rule, "header"), client)

ruleMatches(rule, client) ==
    /\ \A f \in MergedFields : ValuesOf(rule, f) # {} => Takes(f, ValuesOf(rule, f), client)
    /\ \A i \in DOMAIN rule.conditions :
        rule.conditions[i].field = "header" => Takes("header", rule.conditions[i].values, client)

\* The sort is stable.
Before(listener, i, j) ==
    \/ listener.rules[i].priority < listener.rules[j].priority
    \/ listener.rules[i].priority = listener.rules[j].priority /\ i < j

\* The rule that serves; 0 is the default action.
matchAlbPathRule(listener, client) ==
    LET hits == {i \in Servable(listener) : ruleMatches(listener.rules[i], client)}
    IN IF hits = {} THEN 0 ELSE CHOOSE i \in hits : \A j \in hits \ {i} : Before(listener, i, j)

Route(listener, client) ==
    LET rule == matchAlbPathRule(listener, client)
    IN resolveAction(IF rule = 0 THEN listener.default ELSE listener.rules[rule].actions)

-----------------------------------------------------------------------------
(* serveAction *)

\* pickWeightedTarget: what the roll may pick; {} is answered with a 502.
pickWeightedTarget(targets) == {i \in DOMAIN targets : targets[i].weight > 0}

\* The forward actions of a listener in the order its routes are built.
Forwards(listener) ==
    FoldLeft(LAMBDA acc, actions :
                LET resolved == resolveAction(actions)
                IN IF resolved # <<>> /\ resolved[1].action.type = "forward"
                   THEN acc \o ServableGroups(resolved[1].action) ELSE acc,
             <<>>,
             <<listener.default>> \o
                FoldLeft(LAMBDA acc, i : IF i \in Servable(listener) THEN Append(acc, listener.rules[i].actions) ELSE acc,
                         <<>>, [i \in DOMAIN listener.rules |-> i]))

\* The registry of Lambdas goes by their logical ids: whoever comes first lends the
\* others the function of its stack.
FunctionOf(group, k) ==
    LET names(l) == \E i \in DOMAIN Forwards(l) : Groups[Forwards(l)[i].group] = Groups[group]
        first == CHOOSE j \in 1 .. k :
                    Claims(j) /\ names(listeners[j]) /\ \A h \in 1 .. j - 1 : ~(Claims(h) /\ names(listeners[h]))
    IN <<listeners[first].stack, Groups[group].of>>

\* The pools of services go by the service with its stack.
TargetOf(group, k) ==
    IF Groups[group].kind = "lambda" THEN FunctionOf(group, k)
    ELSE <<listeners[k].stack, Groups[group].of>>

\* What may become of a request to listener k that is authenticated or not.
Outcomes(k, client, authenticated) ==
    LET route == Route(listeners[k], client)
    IN IF route = <<>> THEN {<<"404">>}
       ELSE IF route[1].guarded /\ ~authenticated THEN {<<"401">>}
       ELSE IF route[1].action.type # "forward" THEN {<<route[1].action.type>>}
       ELSE LET targets == ServableGroups(route[1].action)
                picks == pickWeightedTarget(targets)
            IN IF picks = {} THEN {<<"502">>}
               ELSE {<<"target">> \o TargetOf(targets[i].group, k) : i \in picks}

-----------------------------------------------------------------------------
(* Properties *)

\* Whether a request has all a rule asks for, each condition for itself but for those on
\* one field.
Asked(rule, client) ==
    \A i \in DOMAIN rule.conditions :
        LET c == rule.conditions[i]
            values == IF c.field = "header" THEN c.values ELSE ValuesOf(rule, c.field)
        IN IF c.field = "source"
           THEN values = {} \/ \E v \in values : /\ v.family = Unmapped(client.source).family
                                                 /\ v.n <= client.source.n
                                                 /\ client.source.n < v.n + 2 ^ (Bits - v.prefix)
           ELSE c.field \in DOMAIN client /\ (values = {} \/ \E v \in values : v \in client[c.field] \cup (IF client[c.field] = {} THEN {} ELSE {Anything}))

\* A rule serves a request only if the request has everything the rule asks for, and no
\* rule that could be served and comes before asks for less: what cannot be told locally
\* never widens a rule.
RuledAsDeclared ==
    \A k \in DOMAIN listeners, client \in Clients :
        LET l == listeners[k]
            rule == matchAlbPathRule(l, client)
            servable == {i \in DOMAIN l.rules : /\ l.rules[i].conditions # <<>> /\ Terminal(l.rules[i].actions) # 0
                                                /\ \A c \in DOMAIN l.rules[i].conditions :
                                                    Intrinsic \notin l.rules[i].conditions[c].values}
        IN /\ rule # 0 => Asked(l.rules[rule], client)
           /\ \A i \in servable : Asked(l.rules[i], client) =>
                rule # 0 /\ (i = rule \/ l.rules[rule].priority <= l.rules[i].priority)

\* Nobody gets past an authentication whose pool or issuer is literal, wherever in the
\* list of actions it stands before the one that serves.
Authenticated ==
    \A k \in DOMAIN listeners, client \in Clients :
        LET l == listeners[k]
            rule == matchAlbPathRule(l, client)
            actions == IF rule = 0 THEN l.default ELSE l.rules[rule].actions
            end == Terminal(actions)
        IN (end # 0 /\ \E i \in 1 .. end - 1 : actions[i].type = "authenticate" /\ actions[i].literal) =>
              Outcomes(k, client, FALSE) = {<<"401">>}

\* A forward reaches targets of its own stack and no group of weight 0, unless an ALB that
\* came before has a Lambda of the same name.
LeadsHome ==
    \A k \in DOMAIN listeners, client \in Clients : Claims(k) =>
        \A o \in Outcomes(k, client, TRUE) : o[1] = "target" =>
            /\ \/ o[2] = listeners[k].stack
               \/ \E j \in 1 .. k - 1, g \in DOMAIN Groups :
                    /\ Claims(j) /\ listeners[j].stack = o[2]
                    /\ Groups[g] = [kind |-> "lambda", of |-> o[3]]
            /\ \E g \in DOMAIN Groups : Groups[g].of = o[3] /\ Groups[g].kind \in {"lambda", "service"}

AlbAsDeclared == RuledAsDeclared /\ Authenticated /\ LeadsHome
=============================================================================
