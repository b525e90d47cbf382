---------------------------- MODULE ContainerEnv ----------------------------
(***************************************************************************)
(* One environment variable of a container, from the value a template     *)
(* declares to the command line of `docker run`, in the four commands that *)
(* build one: cdkl invoke, cdkl start-api, cdkl invoke-agentcore and       *)
(* cdkl run-task (cdkl start-service builds tasks the same way).           *)
(*                                                                         *)
(* A text is the set of what stands in it: "text"; "token", a dynamic      *)
(* reference of the template; "secret", the plaintext of one; "deployed",  *)
(* what a deployed function has; "given", what --env-vars gives.  All but  *)
(* "text" may read as a dynamic reference.                                 *)
(***************************************************************************)
EXTENDS Naturals, Sequences

CONSTANTS
    Values,          \* what a template may declare: [op, name, at, parts]
    Resources,       \* logical ids in the state of the stack
    Attributes,      \* "id.attribute" the state has captured
    Parameters,      \* parameters with a value in the state
    Secure,          \* those that were SecureStrings
    Pseudo,          \* pseudo parameters that are known
    NoEcho,          \* parameters the template declares NoEcho
    SecretAttributes \* attributes that hold secrets, by the type of their resource

EnvAssumption == Secure \subseteq Parameters

CrossStack == {"Import", "Output"}

VARIABLES
    command,    \* "invoke", "start-api", "agentcore" or "task"
    finch,      \* docker is finch, which puts the values it is passed on its command line
    declared,   \* the value in the template
    override,   \* what --env-vars says of the key: "none", "null" (clear it) or "given"
    record,     \* the state of the stack was loaded
    deployed,   \* the deployed function's environment can be read
    exported,   \* what a producer's output holds; {} when there is none
    entry,      \* Secrets entry of the same name: "none", "readable" or "dropped"
    stage,
    value,      \* [is: "absent", "intrinsic" or "text", text]
    unresolved, \* the state could not tell the value
    sensitive,  \* the key is kept off the command line
    plaintext,  \* its value is not looked at for dynamic references
    lookedUp    \* what was taken for a dynamic reference

vars == <<command, finch, declared, override, record, deployed, exported, entry, stage,
          value, unresolved, sensitive, plaintext, lookedUp>>
given == <<command, finch, declared, override, record, deployed, exported, entry>>

Absent == [is |-> "absent", text |-> {}]
IntrinsicValue == [is |-> "intrinsic", text |-> {}]
Text(t) == [is |-> "text", text |-> t]

ReadsAsToken(text) == text \ {"text"} # {}

-----------------------------------------------------------------------------
(* substituteAgainstState *)

Literal(text, secure) == [ok |-> TRUE, text |-> text, sensitive |-> secure]
Unresolved == [ok |-> FALSE, text |-> {}, sensitive |-> FALSE]

\* A string of its own text and of others, known when all of these are.
Concat(own, rs) ==
    IF \A i \in DOMAIN rs : rs[i].ok
    THEN Literal(own \cup UNION {rs[i].text : i \in DOMAIN rs}, \E i \in DOMAIN rs : rs[i].sensitive)
    ELSE Unresolved

resolveRef(name) ==
    IF name \in Pseudo \cup Resources \cup (Parameters \ Secure) THEN Literal({"text"}, FALSE)
    ELSE IF name \in Secure THEN Literal({"secret"}, TRUE)
    ELSE Unresolved

resolveGetAtt(name) == IF name \in Attributes THEN Literal({"text"}, FALSE) ELSE Unresolved

\* All elements are resolved before one is picked.
resolveSelect(at, rs) ==
    LET list == Concat({}, rs)
    IN IF list.ok /\ at < Len(rs) THEN [list EXCEPT !.text = rs[at + 1].text] ELSE Unresolved

\* The list of a Select may be a Split; a string is split in two.
resolveSplitAsArray(r) == IF r.ok THEN <<r, r>> ELSE <<Unresolved>>

RECURSIVE substituteAgainstState(_)
substituteAgainstState(v) ==
    LET parts == [i \in DOMAIN v.parts |-> substituteAgainstState(v.parts[i])]
    IN CASE v.op = "literal" -> Literal({v.name}, FALSE)
         [] v.op = "Ref" -> resolveRef(v.name)
         [] v.op = "GetAtt" -> resolveGetAtt(v.name)
         [] v.op = "Sub" -> Concat({v.name}, parts)
         [] v.op = "Join" -> Concat({}, parts)
         [] v.op = "Select" -> resolveSelect(v.at, parts)
         [] v.op = "SelectSplit" -> resolveSelect(v.at, resolveSplitAsArray(parts[1]))
         [] OTHER -> Unresolved

\* Another stack is asked only when all arguments are known.
Asks(v) == v.op \in CrossStack /\ Concat({}, [i \in DOMAIN v.parts |-> substituteAgainstState(v.parts[i])]).ok

crossStackLiteral(text) ==
    IF "token" \in text THEN Literal((text \ {"token"}) \cup {"secret"}, TRUE) ELSE Literal(text, FALSE)

\* Only the value itself may name another stack, and not in start-api.
substituteAgainstStateAsync(v) ==
    IF v.op \in CrossStack
    THEN IF Asks(v) /\ exported # {} THEN crossStackLiteral(exported) ELSE Unresolved
    ELSE substituteAgainstState(v)

Substituted == IF command = "start-api" THEN substituteAgainstState(declared)
               ELSE substituteAgainstStateAsync(declared)

-----------------------------------------------------------------------------
(* deployedFillMayBeSecret *)

(* Mutation: only the value itself is looked at. *)
TopLevelMayBeSecret(v) ==
    \/ v.op \in {"literal", "Sub"} /\ v.name = "token"
    \/ v.op \in CrossStack
    \/ v.op = "Ref" /\ v.name \in NoEcho
    \/ v.op = "GetAtt" /\ v.name \in SecretAttributes

RECURSIVE deployedFillMayBeSecret(_)
deployedFillMayBeSecret(v) ==
    \/ v.op \in {"literal", "Sub"} /\ v.name = "token"
    \/ v.op \in CrossStack
    \/ v.op = "Ref" /\ v.name \in NoEcho
    \/ v.op = "GetAtt" /\ v.name \in SecretAttributes
    \/ \E i \in DOMAIN v.parts : deployedFillMayBeSecret(v.parts[i])

\* What CloudFormation has put into the deployed function.
RECURSIVE Deploys(_)
Deploys(v) ==
    {"deployed"} \cup UNION {Deploys(v.parts[i]) : i \in DOMAIN v.parts}
    \cup IF \/ v.name = "token"
            \/ v.op = "Ref" /\ v.name \in NoEcho
            \/ v.op = "GetAtt" /\ v.name \in SecretAttributes
            \/ v.op \in CrossStack /\ "token" \in exported
         THEN {"secret"} ELSE {}

-----------------------------------------------------------------------------
(* The steps *)

RECURSIVE NamesStack(_)
NamesStack(v) == v.op \in CrossStack \/ \E i \in DOMAIN v.parts : NamesStack(v.parts[i])

EnvInit ==
    /\ command \in {"invoke", "start-api", "agentcore", "task"}
    /\ declared \in Values
    /\ override \in {"none", "null", "given"}
    /\ record \in BOOLEAN
    /\ deployed \in IF record /\ command \in {"invoke", "start-api"} THEN BOOLEAN ELSE {FALSE}
    /\ finch \in BOOLEAN
    /\ exported \in IF NamesStack(declared) /\ record THEN {{}, {"text"}, {"text", "token"}} ELSE {{}}
    /\ entry \in IF command = "task" THEN {"none", "readable", "dropped"} ELSE {"none"}
    /\ stage = "declared"
    /\ value = IF declared.op = "literal" THEN Text({declared.name}) ELSE IntrinsicValue
    /\ unresolved = FALSE /\ sensitive = FALSE /\ plaintext = FALSE /\ lookedUp = {}

\* invoke and invoke-agentcore leave out what is overridden before they ask anyone.
LeavesOut ==
    /\ stage = "declared" /\ command \in {"invoke", "agentcore"} /\ override # "none"
    /\ stage' = "filled" /\ value' = Absent
    /\ UNCHANGED <<given, unresolved, sensitive, plaintext, lookedUp>>

\* substituteEnvVarsFromState(Async), the entries of parseContainer and the cross-stack
\* pass of a task.  Reading the secret of a producer may fail.
Substitutes ==
    /\ stage = "declared" /\ (command \in {"start-api", "task"} \/ override = "none")
    /\ \/ /\ stage' = "substituted"
          /\ IF value = IntrinsicValue /\ record
             THEN /\ value' = IF Substituted.ok THEN Text(Substituted.text) ELSE Absent
                  /\ sensitive' = Substituted.sensitive
                  /\ unresolved' = ~Substituted.ok
             ELSE UNCHANGED <<value, sensitive, unresolved>>
       \/ /\ record /\ command # "start-api" /\ Asks(declared) /\ "token" \in exported
          /\ stage' = "failed" /\ UNCHANGED <<value, sensitive, unresolved>>
    /\ UNCHANGED <<given, plaintext, lookedUp>>

applyDeployedEnvFallback ==
    /\ stage = "substituted" /\ stage' = "filled"
    /\ IF unresolved /\ deployed
       THEN /\ value' = Text(Deploys(declared)) /\ plaintext' = TRUE
            /\ sensitive' = deployedFillMayBeSecret(declared)
       ELSE UNCHANGED <<value, plaintext, sensitive>>
    /\ UNCHANGED <<given, unresolved, lookedUp>>

Overridden(v) == CASE override = "none" -> v [] override = "null" -> Absent [] OTHER -> Text({"given"})

\* resolveEnvVars drops an intrinsic that is left; keysNotFromTemplate.
resolveEnvVars ==
    /\ stage = "filled" /\ stage' = "merged" /\ command # "task"
    /\ value' = Overridden(IF value = IntrinsicValue THEN Absent ELSE value)
    /\ plaintext' = (plaintext \/ sensitive \/ override # "none")
    /\ UNCHANGED <<given, unresolved, sensitive, lookedUp>>

\* A task looks at the references of its Environment before anything goes over it.
dynamicReferenceEnvKeys ==
    /\ stage = "filled" /\ stage' = "merged" /\ command = "task"
    /\ value' = IF value = IntrinsicValue THEN Absent ELSE value
    /\ plaintext' = (sensitive \/ entry = "readable" \/ override # "none")
    /\ UNCHANGED <<given, unresolved, sensitive, lookedUp>>

\* finchSecretArgvRefusal: a task is refused before it looks anything up.
Refuses(kept) == finch /\ kept

TaskRefused ==
    Refuses(\/ entry = "readable" \/ sensitive
            \/ entry = "dropped" /\ override # "none"
            \/ ~plaintext /\ ReadsAsToken(value.text))

\* resolveDynamicReferencesInEnv: all references, or no container.
resolveDynamicReferencesInEnv ==
    /\ stage = "merged"
    /\ IF command = "task" /\ TaskRefused THEN stage' = "failed" /\ UNCHANGED <<value, sensitive, lookedUp>>
       ELSE IF ~plaintext /\ ReadsAsToken(value.text)
       THEN /\ lookedUp' = value.text \ {"text"}
            /\ \/ /\ stage' = "resolved" /\ sensitive' = TRUE
                  /\ value' = Text((value.text \cap {"text"}) \cup {"secret"})
               \/ stage' = "failed" /\ UNCHANGED <<value, sensitive>>
       ELSE stage' = "resolved" /\ UNCHANGED <<value, sensitive, lookedUp>>
    /\ UNCHANGED <<given, unresolved, plaintext>>

\* buildDockerRunArgs: Environment, then Secrets, then overrides; resolveEcsSecrets asks
\* for those that are not overridden.
resolveEcsSecrets ==
    /\ stage = "resolved" /\ command = "task"
    /\ \/ /\ stage' = "built"
          /\ value' = Overridden(IF entry = "readable" THEN Text({"secret"}) ELSE value)
          /\ sensitive' = (sensitive \/ entry # "none")
       \/ entry = "readable" /\ override = "none" /\ stage' = "failed" /\ UNCHANGED <<value, sensitive>>
    /\ UNCHANGED <<given, unresolved, plaintext, lookedUp>>

\* runDetached, which passes what is sensitive in the environment of docker.
runDetached ==
    /\ stage = IF command = "task" THEN "built" ELSE "resolved"
    /\ stage' = IF command # "task" /\ Refuses(sensitive /\ value # Absent) THEN "failed" ELSE "running"
    /\ UNCHANGED <<given, value, unresolved, sensitive, plaintext, lookedUp>>

EnvNext ==
    \/ LeavesOut \/ Substitutes \/ applyDeployedEnvFallback \/ resolveEnvVars
    \/ dynamicReferenceEnvKeys \/ resolveDynamicReferencesInEnv \/ resolveEcsSecrets
    \/ runDetached

-----------------------------------------------------------------------------
(* Properties *)

\* The plaintext of a secret never stands on a command line, wherever it has come from.
SecretsHidden == stage = "running" /\ "secret" \in value.text => sensitive /\ ~finch

RECURSIVE ReadsSecure(_)
ReadsSecure(v) ==
    \/ v.op = "Ref" /\ v.name \in Secure
    \/ \E i \in DOMAIN v.parts : ReadsSecure(v.parts[i])

\* A container is given no intrinsic, and a dynamic reference only by a value that has read
\* a SecureString, which nobody scans.
FailsClosed ==
    stage = "running" =>
        /\ value # IntrinsicValue
        /\ "token" \in value.text => sensitive /\ ReadsSecure(declared)

\* Only what the template says is taken for a dynamic reference: no plaintext, no value
\* of a deployed function, nothing a developer has given.
OnlyTokensLookedUp == lookedUp \subseteq {"token"}

\* What --env-vars says of a key is what the container gets; nothing is looked up for it,
\* and no lookup fails, but for the cross-stack value of a task.
OverrideWins ==
    override # "none" =>
        /\ stage = "running" => value = Overridden(value)
        /\ lookedUp = {}
        /\ stage = "failed" => (finch \/ (command = "task" /\ Asks(declared)))

EnvAsDeclared == SecretsHidden /\ FailsClosed /\ OnlyTokensLookedUp /\ OverrideWins
=============================================================================
