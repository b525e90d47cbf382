-------------------------- MODULE StartApiCommand --------------------------
(***************************************************************************)
(* `cdkl start-api` as a command                                           *)
(* (src/src/cli/commands/local-start-api.ts): one server per API, booted   *)
(* one after another from what one pass of synthesizeAndBuild returns;     *)
(* further passes that --watch queues and that swap the state of every     *)
(* HTTP server; and the cleanup of a signal.  What one request meets       *)
(* meanwhile is StartApiServer's subject: here a pool is open, disposed or *)
(* gone, and a container knows the pass its spec is from.                  *)
(***************************************************************************)
EXTENDS Naturals, Sequences, SequencesExt

CONSTANTS
    Groups,      \* the HTTP APIs of the first pass, in template order
    Sockets,     \* the WebSocket APIs
    Backing,     \* the Lambdas behind each API
    Resolved,    \* uniqueLambdaIds: the Lambdas in the order a pass resolves them
    Layered,     \* those with a layer that is downloaded; all have inline code
    MaxPasses,   \* bound: passes of synthesizeAndBuild
    NoApi

Http == ToSet(Groups)
Apis == Http \cup ToSet(Sockets)
BootOrder == Groups \o Sockets
Lambdas == ToSet(Resolved)
Passes == 1 .. MaxPasses

ApiCommandAssumption ==
    /\ MaxPasses \in Nat \ {0} /\ NoApi \notin Apis
    /\ Groups \in Seq(Http) /\ Sockets \in Seq(ToSet(Sockets)) /\ Resolved \in Seq(Lambdas)
    /\ \A i, j \in DOMAIN BootOrder : BootOrder[i] = BootOrder[j] => i = j
    /\ Backing \in [Apis -> SUBSET Lambdas] /\ Layered \subseteq Lambdas

VARIABLES
    apiStage,    \* booting, serving, which await of the cleanup, or how it ended
    warm,        \* --warm
    profile,     \* --profile
    credsFile,   \* the credentials file: "none", on "disk", "known" to the cleanup
    work,        \* where the running pass is, and at which Lambda
    passes,      \* passes begun
    changes,     \* firings of the watcher that wait on reloadChain
    tmpDirs,     \* temporary directories on disk
    tracked,     \* inlineTmpDirs and layerTmpDirs
    accepting,   \* APIs whose server listens
    good,        \* the last pass that ended well
    present,     \* the HTTP APIs it found
    version,     \* the pass each API serves
    pools,       \* the pools of each API, one for each pass
    endpoint,    \* where the first pass's spec of each Lambda posts to
    warmed,      \* containers: API and pass of the pool, Lambda, where it posts to
    late,        \* history: directories in the making at the removal, or made after it
    background   \* history: pools that a reload disposes and nobody awaits

dirVars == <<tmpDirs, tracked, late>>
passVars == <<credsFile, work, passes, dirVars>>
serverVars == <<accepting, good, present, version, pools, endpoint, warmed, background>>
apiVars == <<apiStage, warm, profile, changes, passVars, serverVars>>

Cleaning == {"watcher", "sockets", "servers", "hosts", "pools", "socket pools", "creds"}
Booting == {"build", "warm", "probe", "bind"}
ApiAlive == apiStage \notin {"exited", "forced", "failed", "killed"}

Idle == [at |-> "idle", lambda |-> 1]

ApiInit ==
    /\ apiStage = "build" /\ warm \in BOOLEAN /\ profile \in BOOLEAN
    /\ credsFile = "none" /\ changes = 0
    /\ work = [Idle EXCEPT !.at = "synth"] /\ passes = 1
    /\ tmpDirs = {} /\ tracked = {} /\ late = {} /\ background = {}
    /\ accepting = {} /\ good = 0 /\ present = {} /\ warmed = {}
    /\ version = [a \in Apis |-> 0]
    /\ pools = [a \in Apis |-> [p \in Passes |-> "none"]]
    /\ endpoint = [l \in Lambdas |-> NoApi]

-----------------------------------------------------------------------------
(* synthesizeAndBuild *)

GoesOn(at, lambda) ==
    /\ work' = [at |-> at, lambda |-> lambda]
    /\ UNCHANGED apiStage

\* A pass that throws: the boot ends with it, and nothing is cleaned up; a reload leaves
\* what is served as it is.
Throws ==
    /\ work' = Idle
    /\ apiStage' = IF apiStage = "build" THEN "failed" ELSE apiStage

Dir(what) == [pass |-> passes, lambda |-> work.lambda, what |-> what]

\* On to Lambda i: its inline code is in a directory, entered in the set before it is
\* filled, when the turn ends.
Enters(i) ==
    LET d == [pass |-> passes, lambda |-> i, what |-> "code"]
    IN IF i > Len(Resolved)
       THEN GoesOn("images", i) /\ UNCHANGED dirVars
       ELSE /\ tmpDirs' = tmpDirs \cup {d} /\ tracked' = tracked \cup {d}
            /\ late' = IF apiStage = "creds" THEN late \cup {d} ELSE late
            /\ GoesOn("layers", i) \/ Throws

Synthesizes ==
    /\ work.at = "synth"
    /\ UNCHANGED credsFile
    /\ \/ Throws /\ UNCHANGED dirVars
       \/ profile /\ GoesOn("profile", 1) /\ UNCHANGED dirVars
       \/ ~profile /\ Enters(1)

\* Every pass resolves --profile; only the first writes its file.
ResolvesProfile ==
    /\ work.at = "profile"
    /\ \/ Throws /\ UNCHANGED <<credsFile, dirVars>>
       \/ credsFile = "none" /\ GoesOn("writing", 1) /\ credsFile' = "disk" /\ UNCHANGED dirVars
       \/ credsFile # "none" /\ Enters(1) /\ UNCHANGED credsFile

WritesProfile ==
    /\ work.at = "writing"
    /\ \/ Throws /\ UNCHANGED <<credsFile, dirVars>>
       \/ credsFile' = "known" /\ Enters(1)

\* The layers: a download lands in a directory which is entered once it is unzipped.
MaterializesLayers ==
    /\ work.at \in {"layers", "unzip"} /\ UNCHANGED credsFile
    /\ \/ /\ work.at = "layers" /\ Resolved[work.lambda] \notin Layered
          /\ GoesOn("env", work.lambda) /\ UNCHANGED dirVars
       \/ /\ work.at = "layers" /\ Resolved[work.lambda] \in Layered
          /\ UNCHANGED tracked
          /\ \/ Throws /\ UNCHANGED <<tmpDirs, late>>
             \/ /\ tmpDirs' = tmpDirs \cup {Dir("layer")}
                /\ late' = IF apiStage = "creds" THEN late \cup {Dir("layer")} ELSE late
                /\ GoesOn("unzip", work.lambda)
       \/ /\ work.at = "unzip" /\ UNCHANGED late
          /\ \/ Throws /\ tmpDirs' = tmpDirs \ {Dir("layer")} /\ UNCHANGED tracked
             \/ tracked' = tracked \cup {Dir("layer")} /\ GoesOn("env", work.lambda) /\ UNCHANGED tmpDirs

\* Dynamic references, the role to assume: then the next Lambda, in the same turn.
ResolvesEnv ==
    /\ work.at = "env"
    /\ UNCHANGED credsFile
    /\ (Throws /\ UNCHANGED dirVars) \/ Enters(work.lambda + 1)

-----------------------------------------------------------------------------
(* The boot *)

\* The loops build a pool for an API and bind its server, HTTP APIs first; between them
\* the version of docker is asked for.
Boots(n, known) ==
    IF n > Len(BootOrder)
    THEN apiStage' = "serving" /\ UNCHANGED <<version, pools>>
    ELSE IF n = Len(Groups) + 1 /\ ~known
    THEN apiStage' = "probe" /\ UNCHANGED <<version, pools>>
    ELSE /\ version' = [version EXCEPT ![BootOrder[n]] = 1]
         /\ pools' = [pools EXCEPT ![BootOrder[n]][1] = "open"]
         /\ apiStage' = IF warm /\ n <= Len(Groups) THEN "warm" ELSE "bind"

BuildsFirst ==
    /\ work.at = "images" /\ apiStage = "build"
    /\ UNCHANGED <<credsFile, dirVars>>
    /\ \/ Throws /\ UNCHANGED <<good, present, version, pools>>
       \/ work' = Idle /\ good' = 1 /\ present' = Http /\ Boots(1, FALSE)
    /\ UNCHANGED <<passes, accepting, endpoint, warmed, background>>

Number(api) == CHOOSE n \in 1 .. Len(BootOrder) : BootOrder[n] = api
Next1 == BootOrder[CHOOSE n \in 1 .. Len(BootOrder) :
            BootOrder[n] \notin accepting /\ \A k \in 1 .. n - 1 : BootOrder[k] \in accepting]

\* The container pool reads the environment when it starts a container.
Container(api, l) ==
    [api |-> api, pass |-> version[api], lambda |-> l,
     posts |-> IF version[api] = 1 THEN endpoint[l] ELSE NoApi]

\* --warm: one container for each Lambda, as many as start.
Warms ==
    /\ apiStage = "warm"
    /\ \E started \in SUBSET Backing[Next1] :
         warmed' = warmed \cup {Container(Next1, l) : l \in started}
    /\ apiStage' = "bind"
    /\ UNCHANGED <<passVars, accepting, good, present, version, pools, endpoint, background>>

Probes ==
    /\ apiStage = "probe"
    /\ \/ apiStage' = "failed" /\ UNCHANGED <<version, pools>>
       \/ Boots(Len(Groups) + 1, TRUE)
    /\ UNCHANGED <<passVars, accepting, good, present, endpoint, warmed, background>>

\* The server listens.  Before it can serve a connection, that of a WebSocket API enters
\* its address in the specs of its Lambdas: those of the first pass, which the pools of
\* the HTTP APIs share.
Binds ==
    /\ apiStage = "bind"
    /\ \/ apiStage' = "failed" /\ UNCHANGED <<accepting, endpoint, version, pools>>
       \/ /\ accepting' = accepting \cup {Next1}
          /\ endpoint' = [l \in Lambdas |->
                IF Next1 \notin Http /\ l \in Backing[Next1] THEN Next1 ELSE endpoint[l]]
          /\ Boots(Number(Next1) + 1, Next1 \notin Http)
    /\ UNCHANGED <<passVars, good, present, warmed, background>>

-----------------------------------------------------------------------------
(* Requests, and reloads *)

\* A handler without a warm container: its request came while the state was served.
ColdStart(api, l) ==
    /\ api \in accepting \/ apiStage \in Cleaning
    /\ pools[api][version[api]] = "open"
    /\ warmed' = warmed \cup {Container(api, l)}
    /\ UNCHANGED <<apiStage, passVars, accepting, good, present, version, pools, endpoint, background>>

Collects(c) ==
    /\ pools[c.api][c.pass] = "open"
    /\ warmed' = warmed \ {c}
    /\ UNCHANGED <<apiStage, passVars, accepting, good, present, version, pools, endpoint, background>>

Changes ==
    /\ apiStage = "serving" /\ passes + changes < MaxPasses
    /\ changes' = changes + 1
    /\ UNCHANGED <<apiStage, passVars, serverVars>>

Reloads ==
    /\ changes > 0 /\ work = Idle
    /\ changes' = changes - 1 /\ passes' = passes + 1
    /\ work' = [Idle EXCEPT !.at = "synth"]
    /\ UNCHANGED <<apiStage, credsFile, dirVars, serverVars>>

\* Swaps the state of the servers in one turn and leaves the old pools to themselves.  A
\* server whose API is gone stays as it is; an API that is new waits for a restart.
(* Mutation: the first API that is gone ends the loop. *)
StopsAtGone(found) ==
    {Groups[n] : n \in {k \in 1 .. Len(Groups) : \A j \in 1 .. k : Groups[j] \in found}}

Swapped(found) == Http \cap found

Swaps ==
    /\ work.at = "images" /\ apiStage # "build"
    /\ work' = Idle
    /\ UNCHANGED <<apiStage, credsFile, passes, dirVars, accepting, endpoint, warmed>>
    /\ \/ UNCHANGED <<good, present, version, pools, background>>
       \/ \E found \in SUBSET Http :
            /\ found # {} \/ Len(Sockets) > 0
            /\ good' = passes /\ present' = found
            /\ version' = [a \in Apis |-> IF a \in Swapped(found) THEN passes ELSE version[a]]
            /\ pools' = [a \in Apis |-> IF a \notin Swapped(found) THEN pools[a]
                 ELSE [pools[a] EXCEPT
                        ![version[a]] = IF @ = "open" THEN "disposing" ELSE @,
                        ![passes] = IF a \in accepting THEN "open" ELSE "unused"]]
            /\ background' = background \cup
                 {<<a, version[a]>> : a \in {x \in Swapped(found) : pools[x][version[x]] = "open"}}

\* A dispose() that a reload or the cleanup has called ends.
Disposed(api, p) ==
    /\ pools[api][p] = "disposing"
    /\ pools' = [pools EXCEPT ![api][p] = "gone"]
    /\ warmed' = {c \in warmed : c.api # api \/ c.pass # p}
    /\ UNCHANGED <<apiStage, passVars, accepting, good, present, version, endpoint, background>>

-----------------------------------------------------------------------------
(* Signals *)

\* The handlers are there once every server listens: earlier a signal kills the process.
\* The second one ends it at once.
Signal ==
    /\ apiStage' = CASE apiStage \in Booting -> "killed"
                     [] apiStage = "serving" -> "watcher"
                     [] OTHER -> "forced"
    /\ UNCHANGED <<passVars, serverVars>>

Disposing(apis) ==
    pools' = [a \in Apis |-> IF a \notin apis THEN pools[a]
                ELSE [pools[a] EXCEPT ![version[a]] = IF @ \in {"open", "unused"} THEN "disposing" ELSE @]]

Awaited == \E a \in Apis, p \in Passes : pools[a][p] = "disposing" /\ <<a, p>> \notin background

\* runCleanup: the watcher, the WebSockets, the servers and those of WebSockets; the
\* pools of the states served by then; the directories; the credentials file.
Cleans ==
    /\ \/ /\ apiStage = "watcher" /\ apiStage' = "sockets"
          /\ UNCHANGED <<accepting, pools, dirVars, credsFile>>
       \/ /\ apiStage = "sockets" /\ apiStage' = "servers"
          /\ accepting' = accepting \ Http
          /\ UNCHANGED <<pools, dirVars, credsFile>>
       \/ /\ apiStage = "servers" /\ apiStage' = "hosts"
          /\ accepting' = {} /\ UNCHANGED <<pools, dirVars, credsFile>>
       \/ /\ apiStage = "hosts" /\ apiStage' = "pools"
          /\ Disposing(Http) /\ UNCHANGED <<accepting, dirVars, credsFile>>
       \/ /\ apiStage = "pools" /\ ~Awaited /\ apiStage' = "socket pools"
          /\ Disposing(ToSet(Sockets)) /\ UNCHANGED <<accepting, dirVars, credsFile>>
       \/ /\ apiStage = "socket pools" /\ ~Awaited
          /\ tmpDirs' = tmpDirs \ tracked /\ UNCHANGED tracked
          /\ late' = IF work.at = "unzip" THEN {Dir("layer")} ELSE {}
          /\ apiStage' = IF credsFile = "known" THEN "creds" ELSE "exited"
          /\ UNCHANGED <<accepting, pools, credsFile>>
       \/ /\ apiStage = "creds" /\ apiStage' = "exited"
          /\ credsFile' = "none" /\ UNCHANGED <<accepting, pools, dirVars>>
    /\ UNCHANGED <<work, passes, good, present, version, endpoint, warmed, background>>

Builds ==
    /\ Synthesizes \/ ResolvesProfile \/ WritesProfile \/ MaterializesLayers \/ ResolvesEnv
    /\ UNCHANGED <<passes, serverVars>>

\* What the command does by itself.
ApiStep ==
    \/ Builds \/ BuildsFirst \/ Warms \/ Probes \/ Binds \/ Swaps \/ Cleans
    \/ \E api \in Apis, p \in Passes : Disposed(api, p)

ApiNext ==
    /\ ApiAlive
    /\ UNCHANGED <<warm, profile>>
    /\ \/ /\ \/ ApiStep \/ Signal
             \/ \E api \in Apis : \E l \in Backing[api] : ColdStart(api, l)
             \/ \E c \in warmed : Collects(c)
          /\ UNCHANGED changes
       \/ Changes \/ Reloads

CleanStep == ApiAlive /\ Cleans /\ UNCHANGED <<warm, profile, changes>>
DisposeStep ==
    /\ ApiAlive
    /\ \E api \in Apis, p \in Passes : Disposed(api, p)
    /\ UNCHANGED <<warm, profile, changes>>

-----------------------------------------------------------------------------
(* Properties *)

\* A signal to a command that serves leaves no directory, no credentials and no container,
\* but for the directory a pass of that moment makes and the pools of a reload, which
\* nobody awaits.
ApiLeavesNothing ==
    apiStage = "exited" =>
        /\ tmpDirs \subseteq late /\ credsFile = "none"
        /\ \A c \in warmed : <<c.api, c.pass>> \in background

\* All servers whose API is there serve the last pass that ended well, from a pool that is
\* not disposed under them.
OneVersion ==
    apiStage \in Cleaning \cup {"serving"} =>
        /\ \A g \in present : version[g] = good
        /\ \A a \in accepting : pools[a][version[a]] = "open"

\* The containers of a WebSocket API post back to it, also those started while others
\* boot, unless another one shares the Lambda; a Lambda behind none posts nowhere.
PostsHome ==
    \A c \in warmed :
        LET homes == {s \in ToSet(Sockets) : c.lambda \in Backing[s]}
        IN /\ homes = {c.api} => c.posts = c.api
           /\ homes = {} => c.posts = NoApi
=============================================================================
