------------------------------ MODULE GlobMatch ------------------------------
(***************************************************************************)
(* The globs of `watch.include` and `watch.exclude`                        *)
(* (src/src/utils/glob-match.ts): two loops of two pointers with one place *)
(* to return to, matchSegment over the characters of one name and          *)
(* matchSegments over the segments of one path.  A step is one turn of a   *)
(* loop; what a glob means is Means.                                       *)
(***************************************************************************)
EXTENDS Naturals, Sequences

CONSTANTS
    Letters,    \* characters of a name, or segments of a path; no wildcard
    MaxGlob,    \* bound: the length of a glob
    MaxText     \* bound: the length of what it is matched against

GlobAssumption == Letters \cap {"*", "?", "**"} = {} /\ MaxGlob \in Nat /\ MaxText \in Nat

VARIABLES
    level,      \* the loop that runs, "segment" or "path"
    glob,       \* what compilePattern made of a glob, or one token of it
    text,       \* the name or the path
    p, s,       \* the pointers
    starP,      \* the last star, 0 before the first
    starS,      \* what it has not taken begins here
    verdict     \* "none" while the loop runs, "yes" or "no"

globVars == <<level, glob, text, p, s, starP, starS, verdict>>

Wild(l) == IF l = "segment" THEN {"*", "?"} ELSE {"**", "*"}
Star == IF level = "segment" THEN "*" ELSE "**"

Words(alphabet, max) == UNION {[1 .. n -> alphabet] : n \in 0 .. max}

GlobInit ==
    /\ level \in {"segment", "path"}
    /\ glob \in Words(Letters \cup Wild(level), MaxGlob) /\ text \in Words(Letters, MaxText)
    /\ p = 1 /\ s = 1 /\ starP = 0 /\ starS = 0
    /\ verdict = "none"

\* One token against one character, or against one segment, of which any is "*".
Fits(token, letter) == token \in {letter, IF level = "segment" THEN "?" ELSE "*"}

Steps(condition) == verdict = "none" /\ s <= Len(text) /\ condition

Matches ==
    /\ p <= Len(glob) /\ glob[p] # Star
    /\ Fits(glob[p], text[s])

AtStar == p <= Len(glob) /\ glob[p] = Star

\* The star takes nothing yet.
Opens ==
    /\ Steps(AtStar)
    /\ starP' = p /\ starS' = s /\ p' = p + 1
    /\ UNCHANGED <<level, glob, text, s, verdict>>

Advances ==
    /\ Steps(Matches)
    /\ p' = p + 1 /\ s' = s + 1
    /\ UNCHANGED <<level, glob, text, starP, starS, verdict>>

\* matchSegments is done with a glob it has consumed; what is below matches as well.
Contents == level = "path" /\ p > Len(glob)

(* Mutation: the star takes one more than it had when the pointers came here. *)
Resumed == s + 1

\* Where the text goes on after the last star has taken one more.
Resumes == starS + 1

Returns ==
    /\ Steps(~Matches /\ ~AtStar /\ ~Contents /\ starP # 0)
    /\ p' = starP + 1
    /\ starS' = Resumes /\ s' = Resumes
    /\ UNCHANGED <<level, glob, text, starP, verdict>>

Rest == {i \in p .. Len(glob) : glob[i] # Star}

Decides ==
    /\ verdict = "none"
    /\ \/ s <= Len(text) /\ Contents /\ verdict' = "yes"
       \/ s <= Len(text) /\ ~Matches /\ ~AtStar /\ ~Contents /\ starP = 0 /\ verdict' = "no"
       \/ s > Len(text) /\ verdict' = IF Rest = {} THEN "yes" ELSE "no"
    /\ UNCHANGED <<level, glob, text, p, s, starP, starS>>

GlobNext == Opens \/ Advances \/ Returns \/ Decides

-----------------------------------------------------------------------------
(* Properties *)

\* The star takes any run, of characters or of segments; a path matches with all below.
Means ==
    LET from[at \in (1 .. Len(glob) + 1) \X (1 .. Len(text) + 1)] ==
            LET i == at[1]
                j == at[2]
            IN IF i > Len(glob) THEN level = "path" \/ j > Len(text)
               ELSE IF glob[i] = Star THEN \E k \in j .. Len(text) + 1 : from[<<i + 1, k>>]
               ELSE j <= Len(text) /\ Fits(glob[i], text[j]) /\ from[<<i + 1, j + 1>>]
    IN from[<<1, 1>>]

\* One place to return to is enough: the loops decide what the globs mean.
DecidesAsMeant == verdict # "none" => (verdict = "yes" <=> Means)
=============================================================================
