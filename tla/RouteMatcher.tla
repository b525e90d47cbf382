---------------------------- MODULE RouteMatcher ----------------------------
(***************************************************************************)
(* Which route of `cdkl start-api` serves a request: matchRoute            *)
(* (src/src/local/route-matcher.ts), and the CORS preflight that goes      *)
(* before it, with its own copy of the rules for paths                     *)
(* (src/src/local/http-server.ts).                                         *)
(*                                                                         *)
(* A path is the sequence of its segments.  A pattern is of a tier ("full" *)
(* has no greedy placeholder, "greedy" ends in one, "$default") and has    *)
(* segments, the greedy one left out.  Case and trailing slashes, which    *)
(* both sides drop, are left out, and so are the captured parameters.      *)
(***************************************************************************)
EXTENDS Naturals, Sequences, FiniteSets, SequencesExt

CONSTANTS
    Routes,       \* what a template may declare: [api, method, tier, segments]
    Paths,        \* the paths of requests
    Cors,         \* API -> the methods its CORS configuration allows
    Placeholder,  \* "{name}"
    MaxRoutes     \* bound

RoutesAssumption ==
    /\ \A r \in Routes :
        /\ r.tier \in {"full", "greedy", "$default"} /\ r.segments \in Seq(ToSet(r.segments))
        /\ r.tier = "$default" => r.segments = <<>>
    /\ MaxRoutes \in Nat

VARIABLE routes   \* in the order of their discovery

RoutesInit == routes = <<>>

\* Discovery appends the routes of one API after those of another, in template order.
Discovers(r) == Len(routes) < MaxRoutes /\ routes' = Append(routes, r)

RoutesNext == \E r \in Routes : Discovers(r)

-----------------------------------------------------------------------------
(* matchRoute *)

methodMatches(r, method) == r.method \in {"ANY", method}

\* The walk over the segments of a pattern, each a placeholder or a literal.
Walk(segments, path) ==
    \A i \in DOMAIN segments : segments[i] \in {Placeholder, path[i]}

matchFullPattern(segments, path) == Len(segments) = Len(path) /\ Walk(segments, path)
matchProxyPattern(segments, path) == Len(segments) <= Len(path) /\ Walk(segments, path)

LiteralCount(r) == Cardinality({i \in DOMAIN r.segments : r.segments[i] # Placeholder})

Hit(r, method, path) ==
    /\ methodMatches(r, method)
    /\ CASE r.tier = "full" -> matchFullPattern(r.segments, path)
         [] r.tier = "greedy" -> matchProxyPattern(r.segments, path)
         [] OTHER -> TRUE

\* A pass over the routes, which keeps the first of those with the most literals; 0 when
\* there is none.
Pass(tier, method, path, rs) ==
    FoldLeft(LAMBDA best, i :
                IF /\ rs[i].tier = tier /\ Hit(rs[i], method, path)
                   /\ best = 0 \/ LiteralCount(rs[i]) > LiteralCount(rs[best])
                THEN i ELSE best,
             0, [i \in 1 .. Len(rs) |-> i])

(* Mutation: one pass, whatever the tier. *)
MostLiterals(method, path, rs) ==
    FoldLeft(LAMBDA best, i :
                IF Hit(rs[i], method, path) /\ (best = 0 \/ LiteralCount(rs[i]) > LiteralCount(rs[best]))
                THEN i ELSE best,
             0, [i \in 1 .. Len(rs) |-> i])

matchRoute(method, path, rs) ==
    LET passes == <<Pass("full", method, path, rs), Pass("greedy", method, path, rs),
                    Pass("$default", method, path, rs), 0>>
    IN passes[CHOOSE k \in 1 .. 4 : (k = 4 \/ passes[k] # 0) /\ \A j \in 1 .. k - 1 : passes[j] = 0]

-----------------------------------------------------------------------------
(* maybeHandleCorsPreflight *)

\* The second copy of the rules, for a path alone.
pathPatternMatchesPath(r, path) ==
    \/ r.tier = "$default"
    \/ r.tier = "greedy" /\ matchProxyPattern(r.segments, path)
    \/ r.tier = "full" /\ matchFullPattern(r.segments, path)

\* The API that answers the preflight of a method, or "none".
Preflight(method, path, rs) ==
    LET hit == matchRoute(method, path, rs)
        owned == {i \in DOMAIN rs : rs[i].api = rs[hit].api /\ rs[i].method = "OPTIONS"}
    IN IF /\ hit # 0
          /\ \A i \in owned : ~pathPatternMatchesPath(rs[i], path)
          /\ rs[hit].api \in DOMAIN Cors /\ method \in Cors[rs[hit].api]
       THEN rs[hit].api ELSE "none"

-----------------------------------------------------------------------------
(* Properties *)

Tier(r) == CASE r.tier = "full" -> 1 [] r.tier = "greedy" -> 2 [] OTHER -> 3

\* r goes before q: by its tier, and in one tier by its literals.
MoreSpecific(r, q) ==
    \/ Tier(r) < Tier(q)
    \/ Tier(r) = Tier(q) /\ LiteralCount(r) > LiteralCount(q)

\* A request is served by a route that takes it, unless none does; none that takes it is
\* more specific, and none that is as specific comes before.
MostSpecific(method, path) ==
    LET hit == matchRoute(method, path, routes)
        takers == {i \in DOMAIN routes : Hit(routes[i], method, path)}
    IN IF takers = {} THEN hit = 0
       ELSE /\ hit \in takers
            /\ \A i \in takers : MoreSpecific(routes[i], routes[hit]) = FALSE
            /\ \A i \in takers : i < hit => MoreSpecific(routes[hit], routes[i])

\* A preflight is answered for the API that would serve the request it announces, and only
\* if none of that API's own OPTIONS routes would have been served instead.
PreflightOwned(method, path) ==
    LET api == Preflight(method, path, routes)
        methodOf(r) == IF r.api = api THEN r.method ELSE "of another API"
        own == [i \in DOMAIN routes |-> [method |-> methodOf(routes[i]),
                    tier |-> routes[i].tier, segments |-> routes[i].segments]]
        served == matchRoute("OPTIONS", path, own)
    IN api # "none" =>
          /\ routes[matchRoute(method, path, routes)].api = api
          /\ served = 0 \/ own[served].method = "ANY"

RoutedAsDeclared ==
    \A path \in Paths : MostSpecific("GET", path) /\ MostSpecific("OPTIONS", path) /\ PreflightOwned("GET", path)
=============================================================================
