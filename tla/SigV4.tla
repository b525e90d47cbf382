------------------------------- MODULE SigV4 -------------------------------
(***************************************************************************)
(* What a route with AWS_IAM makes of a signature                          *)
(* (src/src/local/sigv4-verify.ts).  Requests share the credentials of the *)
(* developer, loaded on the first one, and the set of foreign access keys  *)
(* that were warned about.                                                 *)
(*                                                                         *)
(* A request is [by, form, date, day, age, lists, payload, touched]: whose *)
(* key signed it, whether its header is one of SigV4, where its time is,   *)
(* the day of its scope, its age, the headers it lists, what it says of    *)
(* its payload, and the part that was changed on its way.                  *)
(***************************************************************************)
EXTENDS Naturals, Sequences, SequencesExt

CONSTANTS
    Signed,         \* requests
    Foreign,        \* access keys that are not the developer's
    MaxWarned,      \* FOREIGN_ID_DEDUP_MAX
    Skew,           \* 15 minutes
    MaxWaiting      \* bound: requests at a time

SigV4Assumption == {MaxWarned, Skew, MaxWaiting} \subseteq Nat \ {0}

VARIABLES
    asked,      \* the requests that wait for the credentials
    loader,     \* the promise of defaultCredentialsLoader()
    warnedIds,  \* warnedForeignIds, the oldest first
    denies,     \* opts.strict
    signs,      \* opts.oacFronted
    answered,   \* the verdict just given: [request, allow, principal, warns]
    told        \* the keys a warning was ever written for

sigVars == <<asked, loader, warnedIds, denies, signs, answered, told>>

SigV4Init ==
    /\ asked = <<>> /\ loader = "none" /\ warnedIds = <<>> /\ denies \in BOOLEAN
    /\ signs \in BOOLEAN /\ answered = <<>> /\ told = {}

-----------------------------------------------------------------------------
(* verifySigV4 *)

parseAuthorizationHeader(r) == r.form = "SigV4"

validateAmzDateMatchesCredentialDate(r) == r.date # "none" /\ r.day = "same"
amzDateOutsideSkew(r) == r.age > Skew

WellFormed(r) ==
    parseAuthorizationHeader(r) /\ validateAmzDateMatchesCredentialDate(r) /\ ~amzDateOutsideSkew(r)

\* The access key of a request; "pretender" has the developer's, and not the secret.
Id(r) == IF r.by = "pretender" THEN "developer" ELSE r.by

(* Mutation: the headers it lists are left out of what is hashed. *)
LeavesHeadersOut(r) == [part \in {"method", "path", "query"} |-> IF part = r.touched THEN "changed" ELSE "signed"]

\* What is hashed.  Another encoding of the path, order of the query or spacing of a header
\* is the same request, and so is one with other headers than those it lists.
Canonical(r) == [part \in {"method", "path", "query"} \cup r.lists |-> IF part = r.touched THEN "changed" ELSE "signed"]

\* A declared hash is taken for that of the payload, which UNSIGNED-PAYLOAD in lower case
\* is not, and the time is hashed as it is written.
computeSignature(r) ==
    [secret |-> "developer", canonical |-> Canonical(r),
     payload |-> CASE r.payload = "unsigned" -> "in lower case"
                   [] r.payload = "declared" -> "signed"
                   [] OTHER -> IF r.touched = "body" THEN "changed" ELSE "signed",
     date |-> IF r.date = "x-amz-date" THEN "ISO 8601" ELSE "RFC 1123"]

\* What the signer hashed, who listed no header it did not send.
Signature(r) ==
    [secret |-> r.by, canonical |-> [part \in DOMAIN Canonical(r) |-> "signed"],
     payload |-> IF r.payload = "unsigned" THEN "UNSIGNED-PAYLOAD" ELSE "signed", date |-> "ISO 8601"]

Verdict(r, allow, principal, warns) == [request |-> r, allow |-> allow, principal |-> principal, warns |-> warns]
Denied(r) == Verdict(r, FALSE, "nobody", FALSE)

\* Who cannot be verified here passes unless opts.strict, and from a distribution anyway.
Unverified == signs \/ ~denies

Judged(r, loaded) ==
    IF loaded = "failed" THEN Verdict(r, Unverified, "unverified-no-creds", TRUE)
    ELSE IF Id(r) # "developer"
    THEN Verdict(r, Unverified, "unverified-foreign-identity", ~Contains(warnedIds, Id(r)))
    ELSE IF computeSignature(r) # Signature(r) THEN Denied(r)
    ELSE Verdict(r, TRUE, Id(r), FALSE)

rememberWarnedForeignId(id) ==
    IF Contains(warnedIds, id) THEN warnedIds
    ELSE Append(IF Len(warnedIds) < MaxWarned THEN warnedIds ELSE Tail(warnedIds), id)

-----------------------------------------------------------------------------
(* The steps *)

\* What is malformed is refused before the credentials are asked for.
verifySigV4(r) ==
    /\ Len(asked) < MaxWaiting
    /\ IF WellFormed(r)
       THEN /\ asked' = Append(asked, r) /\ loader' = IF loader = "none" THEN "loading" ELSE loader
            /\ answered' = <<>>
       ELSE answered' = <<Denied(r)>> /\ UNCHANGED <<asked, loader>>
    /\ UNCHANGED <<warnedIds, denies, signs, told>>

\* The promise is kept, a rejected one too: no later request asks again.
credentials(outcome) ==
    /\ loader = "loading" /\ loader' = outcome
    /\ answered' = <<>> /\ UNCHANGED <<asked, warnedIds, denies, signs, told>>

Answers ==
    /\ asked # <<>> /\ loader \in {"loaded", "failed"}
    /\ LET v == Judged(Head(asked), loader)
           foreign == v.warns /\ loader = "loaded"
       IN /\ answered' = <<v>>
          /\ warnedIds' = IF foreign THEN rememberWarnedForeignId(Id(Head(asked))) ELSE warnedIds
          /\ told' = IF foreign THEN told \cup {Id(Head(asked))} ELSE told
    /\ asked' = Tail(asked)
    /\ UNCHANGED <<loader, denies, signs>>

SigV4Next ==
    \/ \E r \in Signed : verifySigV4(r)
    \/ \E outcome \in {"loaded", "failed"} : credentials(outcome)
    \/ Answers

-----------------------------------------------------------------------------
(* Properties *)

\* A request that carries the developer's name was signed with the developer's secret, in
\* the last minutes, and nothing it signs was changed; one that cannot be verified has no
\* name of a person, and passes only where that was asked for.
NamesTheSigner ==
    answered # <<>> => LET v == answered[1]
                           r == v.request
        IN v.allow =>
            /\ WellFormed(r)
            /\ v.principal = "developer" =>
                /\ r.by = "developer" /\ r.touched \notin {"method", "path", "query"} \cup r.lists
                /\ r.touched = "body" => r.payload = "declared"
            /\ v.principal # "developer" => Unverified /\ (loader = "failed" \/ Id(r) \in Foreign)

\* What the developer signs passes, but for UNSIGNED-PAYLOAD and a `date` header.
HonestPasses ==
    answered # <<>> => LET r == answered[1].request
        IN r.by = "developer" /\ r.touched = "nothing" /\ WellFormed(r) /\ loader = "loaded"
           /\ r.payload # "unsigned" /\ r.date = "x-amz-date" => answered[1].allow

\* Nobody is passed in silence: a foreign key was warned about before, or just now, and
\* the set that remembers it does not grow past its bound.
WarnedOf ==
    /\ Len(warnedIds) <= MaxWarned /\ IsInjective(warnedIds) /\ ToSet(warnedIds) \subseteq told
    /\ answered # <<>> => LET v == answered[1]
        IN v.principal = "unverified-foreign-identity" => v.warns \/ Id(v.request) \in told

SignaturesHonoured == NamesTheSigner /\ HonestPasses /\ WarnedOf
=============================================================================
