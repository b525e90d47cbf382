# A TLA+ verification of cdk-local

`cdk-local` (the `cdkl` command) runs the resources of an AWS CDK application on
a developer's machine: Lambda functions behind API Gateway routes, ECS services,
load balancers, CloudFront distributions, AgentCore runtimes, Lambda MicroVMs.
Almost everything it does ends in a Docker container, and almost everything that
can go wrong in it is a container that is used twice, removed under a request,
booted again after the shutdown, or left behind.

It is one Node.js process. Its concurrency is that of promise chains: code runs
undisturbed from one `await` to the next, and any other chain (a request, a
timer, a watcher of `docker wait`, a reload, a signal handler) may run at an
`await`. **An action of these modules is therefore what one chain runs between
two awaits**, with everything it changes on the way; state that a chain read
before an `await` and uses afterwards is kept in a variable of its own.

## 1. Inventory

Paths are relative to `src/`. Section 3 says which module models what.

### 1.1 Warm container pool: `src/local/container-pool.ts` (modelled)

*State*: per Lambda `warm`, `inUse`, `waitQueue`, `growthMutex`, `idleTimer`;
for the pool `inFlightStarts` and `disposed`. *Operations*: `acquire`, the cold
start (`startOne`), `release`, the idle timer, `dispose`. *Interactions*: the
request handlers of `http-server.ts` and `websocket-server.ts` acquire and
release; a reload or a shutdown disposes. *Hard*: acquires that race against the
cap, a hand-over to a waiter that races with the idle timer, starts that fail,
a `dispose` that waits for leases and starts while acquires still arrive.
*Correct when*: a container is lent to one request at a time, the cap holds, no
wakeup is lost, no container is forgotten, `dispose` ends and leaves nothing.

### 1.2 API server, reload and shutdown: `src/local/http-server.ts`, `src/cli/commands/local-start-api.ts` (modelled)

*State*: `currentState` (routes and pool), `reloadChain`, the shutdown flags.
*Operations*: accept and serve a request, debounced change, synthesize, swap,
background `dispose`, first signal. *Interactions*: uses one pool per generation
of the state. *Hard*: requests that outlive the state they were accepted with,
several disposals at once, a signal in the middle of a reload. *Correct when*:
a request's container stays until it is answered, the newest source ends up
served, a failed reload changes nothing, the exit leaves no container behind.

### 1.3 ECS service runner: `src/local/ecs-service-runner.ts`, `src/cli/commands/ecs-service-emulator.ts`, parts of `src/local/ecs-task-runner.ts` (modelled)

*State*: the list of replicas, each with its container, registrations,
`inFlightBoot`, `shuttingDown`, soft-reload flag and generation. *Operations*:
boot loop, exit watcher with restart policy and backoff, rolling replacement,
soft reload, cleanup. *Interactions*: registers endpoints in the Cloud Map
registry and the front-door pools. *Hard*: the watcher, the reload and the
cleanup work on the same replica; a controlled stop looks like a crash; docker
may refuse each step. *Correct when*: no container is lost or outlives the
command, the service stays served while it is reloaded, a fixed host port is
never claimed twice, every exit is dealt with, every signal ends the command.

### 1.4 MicroVMs: `src/cli/commands/local-start-microvm.ts`, `src/local/microvm-runner.ts`, `src/local/microvm-front-door.ts` (modelled)

*State*: the lifecycle state of each MicroVM and the promises of its suspend,
resume and terminate; of the command: the MicroVMs, unwrapped containers, the
`docker run` in flight, one teardown. *Operations*: boot one after another,
suspend, resume (also by traffic), terminate, teardown, first and second signal.
*Hard*: each operation spans several awaits and any other one may start in
between; each can fail half-way. *Correct when*: the state never lies about the
container, a termination is final and never hangs on a paused container, every
request gets an answer, the exit leaves no container behind.

### 1.5 WebSocket API server: `src/local/websocket-server.ts`, `websocket-mgmt-api.ts` (modelled)

*State*: connection registry, one dispatch chain per connection, the pre-verdict
buffer, the set of `$disconnect`s in flight. *Operations*: `$connect`, message,
`$disconnect`, `DELETE @connections`, `close()`. *Hard*: a client that leaves
during `$connect`, frames that arrive before the verdict, a shutdown with
bounded waits. *Correct when*: frames are dispatched in order and one at a time,
none that fits the buffer is lost, `$disconnect` comes last.

### 1.6 One request of start-api: `src/local/http-server.ts`, `rie-client.ts`, `route-matcher.ts`, `src/utils/glob-match.ts` (modelled)

*State*: none beyond the request's own: its route, its container, its timer and
its response. *Operations*: match, preflight, authorize, acquire, invoke
(buffered or streamed, with retries), answer, give back. *Hard*: the client may
leave at any await, two events may each return the container of a stream.
*Correct when*: the most specific route serves, nothing is reached before its
authorizer's verdict, every container is returned exactly once.

### 1.7 start-api as a command: `src/cli/commands/local-start-api.ts` (modelled)

*State*: servers, pools and temporary directories of every pass, the credentials
file. *Operations*: synthesis, grouping, boot of one server after another,
reload of all, cleanup. *Correct when*: all servers serve one version, a WebSocket
API's containers post back to it, a cleanup takes everything that was made.

### 1.8 Studio: `src/local/studio-serve-manager.ts`, `studio-dispatch.ts`, `studio-proxy.ts`, `studio-store.ts`, `studio-server.ts`, `studio-ui.ts` (modelled)

*State*: one entry per served target with its child, proxies and ready timer; a
bounded store of invocations and log lines; what a page has drawn. *Hard*: a
target stopped and started again while handlers of its old child still run; a
history request and an event stream that answer in any order. *Correct when*: an
entry is there exactly while its serve lives, no child or proxy is orphaned,
each start and stop settles, a finished row never becomes pending again.

### 1.9 ALB front door: `src/local/front-door-*.ts` (modelled)

*State*: round-robin endpoint pools that rolls and restarts change under
traffic, the containers of Lambda targets, the upstream of each request.
*Correct when*: a live replica is always reached, an upstream goes with its
client, a stop leaves no container.

### 1.10 Authorizers: `src/local/cognito-jwt.ts`, `authorizer-cache.ts`, `lambda-authorizer.ts`, the guards of `http-server.ts`, `front-door-server.ts`, `agentcore-http-server.ts` (modelled)

Two maps with expiry filled by concurrent requests. *Correct when*: nobody is let
through without a verdict for that route, and a failing issuer lets tokens
through unverified only briefly.

### 1.11 Service discovery and networks: `src/local/cloud-map-registry.ts`, `ecs-network.ts` (modelled)

Registrations and shared aliases by owner, the `/etc/hosts` of each container,
the /24 of each run and its sidecar, the sweep of what dead runs left. *Correct
when*: a reload keeps every name registered, what a container was told leads
somewhere, a sweep takes dead runs' networks and no others.

### 1.12 --watch of services: `src/local/file-watcher.ts`, `source-change-classifier.ts` (modelled)

Debounce, reload chain, the choice between a rebuild and a copy. *Correct when*:
every save reaches every replica, by a rebuild where copying is not enough.

### 1.13 Commands that own containers (modelled)

`cdkl invoke`, `invoke-agentcore`, `run-task`, `start-web-function`,
`start-cloudfront`, `start-agentcore`: each acquires directories, containers,
networks on its way, hands them to variables a single-flight cleanup reads, and
runs that cleanup from signal handlers and a `finally`. *Correct when*: whatever
fails or is interrupted, what was made is taken back, and the command ends.

### 1.14 What a template declares: `src/local/state-resolver.ts`, `dynamic-reference-resolver.ts`, `elb-front-door-resolver.ts`, `alb-path-matcher.ts`, `route-discovery.ts`, `authorizer-resolver.ts`, `cors-handler.ts`, `sigv4-verify.ts` (modelled in part)

No chain interleaves here; what is hard is the number of cases that meet: a
variable of a container's environment between the state, other stacks, dynamic
references and overrides; listeners, rules and weighted groups; the routes of an
API with their authorizers and CORS; a signature and the credentials it is
checked with. *Correct when*: a secret is not passed where a plain text is
expected and the other way round, and a request meets the rule, the route, the
authorizer and the headers that were declared for it.

### 1.15 What is not modelled

Synthesis and target selection, image plans and Docker command lines, the
reads of AWS themselves, events, mapping templates, option parsing, the rendering
of the studio page, logging. They translate one value into another or print it;
no two chains share state in them. They are also most of the lines of the
program: the map covers about a seventh of the implementation, which is nearly
all of what is concurrent in it. `PROJECT.json` lists every component with what
is left out of it.

## 2. Plan

All modules of the plan are written, and the safety properties of most runs are
proved:

| Subject | Modules | Proved | Only checked |
|---------|---------|--------|--------------|
| warm pool | `ContainerPool`, `LeasePool` | every safety property, refinement of `LeasePool` | liveness |
| start-api server and its reloads | `StartApiServer` | every safety property | liveness |
| requests, their routes, the globs of --watch, and WebSockets | `LambdaRequest`, `RouteMatcher`, `GlobMatch`, `WebSocketServer`, composed in `RunningServer` | every safety property, refinement of `OrderedDelivery` | liveness |
| services under reloads | `EcsServiceRunner`, `ServiceWatch`, `CloudMapRegistry`, composed in `Reloads` | every safety property of the passing runs | liveness |
| MicroVMs | `StartMicrovm` | every safety property | liveness |
| what is shared | `SvcNetworks`, `Authorizers`, `FrontDoor`, `StudioServeManager`, `StudioTimeline`, composed in `Shared` | every safety property | liveness |
| commands that own containers | `InvokeCommand`, `RunTask`, `WebFunctionServe`, `StartWebFunction`, `StartCloudFront`, `StartAgentCore`, `StartApiCommand`, composed in `Commands` | every safety property | liveness |
| templates | `ContainerEnv`, `AlbRules`, `ApiRoutes`, `SigV4` | | everything |

A component has its own module. Components of one subject are composed in a module
that is generic in all its constants (`Reloads`, `Shared`, `RunningServer`, `Commands`), which
the `MC` module of that subject extends with small instances for TLC and the
`Proofs` module with theorems.

Abstract specifications: `LeasePool` (what a pool promises its callers) and
`OrderedDelivery` (what a WebSocket API promises a connection's handlers); the
meaning of globs and of routes (`Means`, `RoutedAsDeclared`) as definitions of
their own beside the loops.

Only `ContainerEnv` and `ApiRoutes`, which are checked and not proved about,
declare RECURSIVE operators. The other modules write recursion as functions or
folds, and use sequences through the library's operators.

## 3. The modules

### `LeasePool`, `ContainerPool`

`LeasePool` is the promise of the pool to its callers in six actions: containers
come and go, one is lent to at most one request, handed over or returned, and
until the pool is closed a lent one is not removed.

`ContainerPool` is the code. `Acquire` is `acquire()` up to its first await: the
fast path takes a warm container, the others chain on `growthMutex` (a sequence
of requests whose first is inside the body). `InsideMutex` is the body: look
again at `warm`, start below the cap, or wait. `Start` groups the steps of
`startOne`. `Release` hands over to the first waiter or warms the container and
arms the timer; after `dispose()` it only drops the lease. `IdleGc` and
`RemoveCollected` are the timer; `Dispose` cancels timers and waiters and opens
the drains, `Harvest` lists the containers and the starts in flight when the
drains have settled, `BeginTeardown` and `TearDown` remove, `DisposeEnd`
returns. `PerLambdaConcurrency` is the option before `clampConcurrency`.
Which warm container is popped is left open.

### `EcsServiceRunner`

A replica is an index and a generation; `Shadow(i)` is the one a roll boots
beside it. `task[i]` is what the replica's own chain awaits: its boot, then the
watcher (`sleeping`, `watching`, `deferring`, `backoff`, `clearing`, `booting`
again). `reload` is what the one reload awaits: a roll (`shadow`, `swap`,
`draining`, `retiring`, ...; for a single replica that publishes host ports the
old one goes first) or a soft reload (`copying`, `stopping`, `starting`,
`probing`, `publishing`). `emulator` is the signal's cleanup. `docker` is the
state of each container, `answer` that of the `docker wait` in flight, which may
come late. `routes` stands for Cloud Map handles and front-door endpoint
together. Left out: sidecars and networks, aliases, log streams, several
services under one command, `--keep-running`.

### `StartApiServer`

A state is the number of the successful reload that installed it; `snapshot[r]`
is the one a request was accepted with. A pool is reduced to what a request can
observe in each phase of its `dispose()` (`open`, `draining`, `settling`,
`closed`); its cap, Lambdas and idle timer are left out, which only adds
behaviours: a wait may end in any way it could. `source`, `material`, `served`
are versions of the source on disk, in a reload's hands and in the server.
`reload[k]` runs when `reload[k-1]` has ended (`ChainFree`). The disposal of a
previous pool is not awaited, so several run at once. The shutdown closes the
listener, waits for the open connections up to its timeout, disposes the pool
of the state served *then*, and exits. Left out: WebSocket servers, the second
signal, routing, authorizers beyond the await they cause.

### `StartMicrovm`

`current[v]` is `LocalMicrovm.current`; `suspending[v]`, `resuming[v]` and
`terminating[v]` say what the three promises of a MicroVM await, and a request
that shares or awaits one of them is `"resuming"` or `"chained"`. `main` is the
command: image build, free ports, `docker run`, boot, front door, the next
MicroVM, then the race between the last termination and an unexpected exit.
`teardown` is the one memoized teardown. Hooks that are not enabled are hooks
that answer; forwarding, headers and ports are left out; `docker rm` succeeds.

### `OrderedDelivery`, `WebSocketServer`

`OrderedDelivery` promises the handlers of a connection that between admission
and `$disconnect` they see its frames one at a time, each at most once, in the
order of sending, and nothing afterwards; `WebSocketServer` implements it.
`phase[c]` is how far `onConnect` is, `buffer[c]` holds `preVerdictFrames`,
`chain[c]` what waits on the connection's dispatch chain, `running[c]` what a
handler is at work on. `Close`, `CloseTimeout`, `Drain`, `DrainTimesOut` and
`Closed` are `close()` with its two bounded waits. A handler is `invokeRoute`;
it may fail or never end. Left out: which route a frame selects, events and
bodies, `POST` and `GET @connections`.

### `LambdaRequest`

One request: `BodyRead`, `Authorizes`, `Called` (an SDK service or an HTTP
upstream), or `Acquires` and the attempts of `fetchWithStartupRetry` with one
timer (`Refused`, `Retries`, `TimesOut`, `Aborted`), then `Text` of a buffered
answer or `Prelude` and `Reads` of a stream, and `ReleaseOnce`. `Leaves` and
`Closes` are the client and the response's `close` event, in between any two of
them. The pool is seen from outside: an acquire gets a container nobody borrows
or fails. `works[c]` is the handler a container runs, which goes on when nobody
listens any more: `unheard` are the requests whose attempt failed on the way
while its handler worked. Left out: headers, events, templates, parameter mappings; what
fails in them fails here at any time.

### `RouteMatcher`, `GlobMatch`

`RouteMatcher` has `matchRoute`'s passes over the tiers (`Pass`) and the second
copy of the path rules that decides on preflights (`Preflight`); beside them
`MostSpecific` and `PreflightOwned` say what they are meant to compute. The only
action adds a route. Left out: case, trailing slashes, captured parameters,
stages. `GlobMatch` is the two two-pointer loops of `glob-match.ts`, one turn a
step; `Means` is the set of texts a glob stands for, defined without pointers.

### `StartApiCommand`

`apiStage` is what the command awaits; `work` is where the pass of
`synthesizeAndBuild` that runs is, and at which Lambda. Passes synthesize,
resolve, download layers and write inline code, each into a directory that is
entered in `tracked` when it is made; the boot pre-warms, probes and binds one
API after another; `Swaps` is a reload's loop over the HTTP servers; `Cleans` is
the signal's cleanup, one await a step. `endpoint[l]` is the WebSocket endpoint
in the spec the first pass made of a Lambda, `warmed` the containers with the
spec they were started from. What a single request meets is `StartApiServer`.

### `EcsServiceRunner`'s neighbours: `CloudMapRegistry`, `ServiceWatch`, `SvcNetworks`

`CloudMapRegistry` takes the steps of the runner at the grain that other
services see: boot, `docker run`, probe, publish, exit, restart, roll, soft
reload, and what each does to `byFqdn`, to the shared alias and to the
`/etc/hosts` entries a container gets when it is created. Docker hands out the
lowest free address, so that an address of a removed container comes back. Left
out: ports, several names per service, `unregisterByOwner` and `lookup`, which
nothing calls.

`ServiceWatch` follows a save from the disk (`Saves`) by its event and the
debounce (`EventArrives`, `Fires`) to a reload that synthesizes, classifies and
rolls or copies. Versions are kept per kind of path: sources, what
`docker build` needs, the construct. `running[r]` is what a replica's container
was created from and copied into it, `descriptor[r]` what its watcher restarts.

`SvcNetworks` has several runs of `start-service` or `start-alb` against one
docker daemon. `ListNetworks` to `ReclaimNetwork` are the sweep, which asks
docker one question at a time; `CreateNetwork` tries one /24 after another;
`Dies` is a `kill -9` between any two steps.

### `Authorizers`

One authorizer of one `kind`: Lambda (token or request), Cognito or JWT of
start-api, the guard of an ALB listener, the inbound check of start-agentcore.
`verdicts` is the `AuthorizerCache`, `keys` the `JwksCache`; between a look into
a map and the write that follows lies the call (`step[r]`). A policy is the set
of routes it allows. A token has an issuer and is genuine or not. Left out: IAM
signatures, the contexts handed to the integration, resolution from the template.

### `FrontDoor`

`Binds`, `ContainerRuns`, `RieReady`, `Boots` are `buildFrontDoor()`;
`Register` and `Unregister` what the replicas' chains do to the endpoint pool
while `Picks` advances its cursor. Each client has one request or upgrade that
the client, the upstream, the authentication check and a timeout may each end.
`Signal`, `CloseListeners`, `ListenersClosed`, `StopLambdas` are the shutdown.
Left out: rules, headers, TLS, weights, the session cookie.

### `StudioServeManager`, `StudioTimeline`

`StudioServeManager` follows one target, since two share nothing: `entry` is the
serve the map holds, and the older serves of the target live on in their
handlers. A proxy startup is a promise that settles by `ProxyBinds` or
`ProxyFails` whatever has happened to its serve meanwhile. Left out: arguments,
the patterns of ready lines, the directory of `--env-vars`.

`StudioTimeline` takes invocations and captured requests over the event bus into
the bounded store (`Emits`, `Kept`) and to a page, by a history request and an
event stream that are answered in any order (`HistoryTaken`, `HistoryLoads`,
`PageReads`) and that may drop and reopen; a target that is served, not invoked,
is refused by one event (`Rejects`). Left out: the request relay, log
search, rendering, the controls of serves.

### `InvokeCommand`, `RunTask`

`InvokeCommand` is `cdkl invoke` and `cdkl invoke-agentcore`, which acquire
directories and a container, hand them over (`known`, `containerId`) and clean up
once, from SIGINT or from the `finally`. The `--watch` session of the latter is
a loop (`Tops` to `Leaves`) beside a reload chain that swaps its container.

`RunTask` has the topological start order, the waits on dependency conditions,
and network, sidecar and volume of one task, each docker command in two steps,
its effect and its answer, because the cleanup of a signal runs beside a command
that nobody stops. Left out: docker arguments, secrets, host ports.

### `WebFunctionServe`, `StartWebFunction`, `StartCloudFront`, `StartAgentCore`

`WebFunctionServe` is the class: the steps of `start()` and of a `teardown()`
that may begin between any two of them. `StartWebFunction` is the command around
one; `StartCloudFront` uses several of them beside the containers of Function
URLs and edge functions, boots them in order, has a signal handler for the boot
and one for serving, and swaps its distribution under a request. Left out:
CloudFront Functions, KeyValueStores, static origins, TLS.

`StartAgentCore` is a warm container behind a server that stays up: the boot,
reloads that replace the container or copy into it, one request, and a teardown
whose second caller does not wait. A port is named after the container it leads
to. Left out: authorization, which `Authorizers` has, signing, frames of `/ws`.

### `ContainerEnv`, `AlbRules`, `ApiRoutes`, `SigV4`

`ContainerEnv` follows one variable of a container's environment through the four
commands that build one. A text is the set of what stands in it (plain text, a
dynamic reference, a secret, what is deployed, what is given by hand), so that
the passes over it are set operations: `Substituted` against the state, other
stacks' outputs, the deployed function's value, `--env-vars`, and the dynamic
references at the end.

`AlbRules` adds listeners and rules one by one; `Servable`, `Kept` and
`ServableGroups` are what the resolver makes of them, `matchAlbPathRule` and
`pickWeightedTarget` what a request meets. `ApiRoutes` does the same for one API
or Function URL: `discoverRoutes`, `Attached` (authorizers), `corsConfig`, and
`Answer`, the order in which an HTTP request meets them. All its routes have one
path, as `RouteMatcher` has the paths. `SigV4` judges requests that share one
load of the developer's credentials and one bounded set of warned keys.

Each of the four has beside the code's definitions a shorter one of what was
declared, and the properties compare the two.

### `Reloads`, `Shared`, `RunningServer`, `Commands`

The compositions. Each declares the variables of its components, instantiates them,
and lets one of them run (`program`). Their invariants are conjunctions of the
components' own. `RunningServer` extends `StartApiServer` and has requests,
WebSockets, routes and globs beside it; `Reloads` extends `EcsServiceRunner` and has
the watch and the registry. `MCReloads`, `MCShared`, `MCStartApiServer` and
`MCCommands` only add the values of constants.

## 4. The runs

Several runs hold a *program* variable: one of a few independent components runs,
the others keep their initial state. That is the union of the components' state
spaces, not their product: each is explored exactly as it would be alone, and a
property of the run is the conjunction of what is asked of each component. The
components share a run because they share a subject, not because they interact.

| Run | Instance | Question |
|-----|----------|----------|
| `pool` | pool: 2 Lambdas; three requests compete for the two containers of one, a fourth uses the other; 4 handles; cap 2; environment: values of up to 3 levels over 9 leaves, 4 commands; rules: up to 2 listeners, 3 listeners and rules in all; routes: every list of up to 2 routes of one API; signatures: 2 requests at a time, a set of 1 warned key | the cap, exclusive leases that last, nothing forgotten, refinement of `LeasePool`; what is served and passed on is what was declared |
| `pool_hang` | 1 Lambda, 3 requests, 2 containers, cap 2, nobody calls `acquire` after `dispose` | *violation* |
| `service_reloads` | runner: 2 replicas, 1 reload of either kind, 1 crash, 4 containers; registry: 2 services (2 replicas and 1) that claim one alias, 1 reload, 1 exit, 4 addresses; watch: 2 replicas, 3 edits, 1 exit | nothing lost, slots served and registered, replicas watched, every edit arrives |
| `service_single` | 1 replica with host ports, 2 reloads, 2 crashes, policy `always` | host ports claimed once, signals and crashes dealt with |
| `service_resurrection` | 1 replica, 1 crash | *violation* |
| `api_reloads` | server: 2 requests, 2 containers, 2 edits; request: 2 requests, 1 container, the first a buffered invocation, the second of any kind; WebSockets: 2 connections, one to an API without `$connect`, 3 frames each, a buffer of 2; routes: every list of up to 3 of 32 routes, 5 paths; globs: every glob of up to 4 and every text of up to 3 over two letters | leases across generations, newest source served, each request's container, order and loss of frames, most specific route, meaning of globs, everything ends |
| `microvm` | 2 MicroVMs, 2 requests, 1 crash; or a pool of one Lambda, 3 requests, cap 2 | state and containers agree, terminations final, nothing left; every acquire ends, `dispose` returns |
| `commands` | one command: invoke or invoke-agentcore with 2 firings; a task of 3 containers with every dependency condition, chains, forks and a cycle, in three modes; start-web-function; start-cloudfront with 2 Function URLs, 1 edge function, 0 or 2 web functions, 1 update; start-agentcore with 3 edits; start-api with 2 HTTP APIs and a WebSocket API that shares a Lambda with one, 2 passes | nothing left behind, things start after what they need, servers agree, commands end |
| `shared` | 3 runs on 3 subnets (2 on one machine, 1 with a task role); 2 requests through one authorizer, TTLs 2, 3 and 1, clock up to 4; a front door with 2 clients, 2 replicas, 2 Lambdas, 3 registrations; a timeline of one invocation and one captured request, a store of one row and one line, 1 drop; one target served up to twice, 2 proxy startups | what is shared is released when its users are gone and not before; nobody passes without a verdict; listed serves can answer; pages do not go back; the shutdown of the front door and what studio starts and stops end |
| `jwt_verdicts` | 1 client of a JWT or Cognito authorizer | *violation* |
| `peers_resolve` | 2 services, the first with 2 replicas, 1 rolling reload | *violation* |
| `stream_lease` | 1 request to a streaming function | *violation* |

What the properties of the shared runs are made of:

* `pool`: `EnvAsDeclared` is `ContainerEnv`'s; `RequestsAsDeclared` joins
  `AlbRules`, `ApiRoutes` and `SigV4`.
* `service_reloads`: `InStep` is `InStep` of `ServiceWatch` with
  `AlwaysRegistered` and `PeersFound` of the registry; the others are
  `EcsServiceRunner`'s own (`Attended` joins `RoutesLead` and `Watched`).
* `api_reloads`: `RequestsServed` is `AuthorizedFirst`, `ReturnedOnce` and
  `LentIdle`; `NothingLost` adds `ByeBeforeClosed`; `Matched` is
  `RoutedAsDeclared` and `DecidesAsMeant`; `EverythingEnds` says that a
  change is served some time (`ChangeServed`), that the shutdowns end, that every container is given back, that glob loops stop.
* `microvm`: `EverythingSettles` is `Settles` of the MicroVMs and of the pool.
* `commands`: `NothingLeftBehind` is the exit condition of each command;
  `CleanupTakesAll` is about a cleanup that runs beside a command still going;
  `Prerequisites` joins start order, current sessions, one container per server
  and one distribution per request; `ServersAgree` is `OneVersion` and
  `PostsHome`.
* `shared`: `Released` is `LiveKept`, `OrphansReclaimed`, `UpstreamReleased`,
  `LambdasHeld`; `Authorized` is `LambdaSaidSo` and `BlindOnlyBriefly`; `Listed`
  adds `ProxiesReleased` and `CleanExit` of the serve manager; `WhatIsShown` is
  `EndsAreFinal`, `ShowsWhatIsKept`, `StopIsFinal`.

*Bounds and why they are enough.* Two requests compete for the last container
and a third waits or finds it warm again: every branch of `acquire`, `release`
and the timer is taken, and one more request only lengthens queues that are
first-in, first-out. Two Lambdas are needed where `dispose` waits for more than
one drain. A handle is reused once it is removed, so that four of them do not
bound the number of starts. In the service, two replicas are needed so that a
roll goes from one to the next while the first is watched; two reloads show a
roll of a shadow and a soft reload after a roll. Two edits give three pools at
once, of which two are being disposed while a third is served; three edits show
an edit that a synthesis sees before its event, one that fails and one that
follows. Two MicroVMs are the least for "one is terminated while the other
boots". Two requests on one container are the least for a lease handed on while
the first handler still runs, three frames and a buffer of two the least for an
overflow with something before and behind it. Routes come in each tier, with and
without placeholders, on two APIs, so that three of them show each tie-break; the
loops over globs keep one place to return to, so that two stars with letters
between and behind them show every restart. Three runs are the least for a sweep
of a network whose owner dies while a second sweep looks at it. A store of one
row makes each row push the other out. Two serves of one target are the least
for a handler of the first that finds the entry of the second. The cursor wraps
at 3 (`Wrap`, for 2^53 - 1), which two replicas do not divide. Clocks and TTLs are
small multiples of one another. The
remaining bounds are the sizes of the sets and `MaxReloads`, `MaxCrashes`,
`MaxExits`, `MaxEdits`, `MaxFirings`, `MaxPasses`, `MaxBoots`, `MaxDrops`,
`MaxServes`, `MaxProxies`, `MaxUpdates`, `Count`, in the guards of what the world
does.

*Deadlock* is not checked: each of these systems ends (a request is answered
once, the process exits), and that it ends where it should is what the liveness
properties say.

*Symmetry* is declared on interchangeable containers and requests, in runs
without liveness only.

## 5. Fairness

Weak fairness of each chain's own steps: a promise continuation runs once what
it awaits has settled; docker commands, hooks and probes answer or fail because
the code gives them a timeout (30 s for a runtime poll, `drainTimeoutMs` for a
drain, 5 s for a start at dispose, the hook timeouts of a MicroVM, the timer of
an invocation, the ready timeout of a serve, the two waits of a WebSocket
`close()`), timers fire, and a handler releases its container in a `finally`. A
`docker run`, `pull` or `build` that hangs forever has no timeout in the code;
that it ends is an assumption about docker, not about `cdkl`. No fairness is
given to what the world does: no request, edit, signal, crash, suspend, ready
line or terminate has to happen. Nothing is assumed of clients, which need not
read, answer or leave, but for one thing: a client of the front door that was
told its connection is over closes it (`HalfClosed`; a rejected upgrade is ended
from this side only, and `server.close()` waits for the other). Nor is anything
assumed of a user's handlers where the code bounds them: in
`StartApiServer` a request may wait forever in a disposed pool (`pool_hang`) and
the shutdown ends nevertheless, because `close()` destroys connections. The
watcher's debounce (`OnChange`) is fair: its timer fires.

Two specifications put one condition on a disjunction, `WF_vars(Certain)`. There
every program takes a bounded number of steps, whatever order they come in, so
that a behaviour in which one of the certain steps stays enabled forever must
stop taking any: the condition is then as strong as separate ones on each step.
Clients of the front door are the exception, since they come back; each has a
condition of its own.

## 6. Where the code and its documentation disagree

Five runs must find a property violated; `PROJECT.json` quotes the sentences.

* `pool_hang`: an acquire queued on the mutex when `dispose()` runs joins the
  wait queue afterwards; nobody rejects it and its handler hangs.
* `service_resurrection`: a watcher that is removing its dead container when the
  shutdown marks the replicas boots a new one, which the cleanup does not await.
* `jwt_verdicts`: a verdict is cached under the token and looked up under the
  whole `Authorization` header; it is never found.
* `peers_resolve`: a container keeps in `/etc/hosts` the address of a peer's
  replica that a rolling reload has removed.
* `stream_lease`: when the client of a stream leaves before its head is there,
  `releaseOnce` is attached to a `close` event that has passed, and the container
  is never returned.

The cases below came up while modelling. The models behave as the code does in
them; where a passing property would be violated, the property or a history
variable names the case.

*Warm pool and API server.* An acquire chained on the mutex may start a container
after `dispose()` has listed the starts in flight; it outlives the pool. A
request accepted before a reload that has not acquired yet is answered 502,
although `http-server.ts:92-94` promises a swap without dropped requests. A
client that leaves in mid-stream lends on a container whose handler is busy.
Chunks for a slow client are buffered. `fetchWithStartupRetry` retries any
failure but an abort, so that a POST may run up to three times, the next attempt
may meet the handler of the last one, and a container is given back whose handler
is still at an attempt that failed. The timer of
`invokeRie` is cleared before `response.text()`, which bounds no body. The
comment at `http-server.ts:1488-1492` ("Authorizer pass: NOT yet wired") is
stale. The WebSocket endpoint is written into spec objects that several APIs may
share: two WebSocket APIs with one Lambda overwrite each other's, HTTP pools of
the first pass see it, those of later ones do not. Debug ports of a draining and
a new pool, or of two groups, may collide. A boot that fails, or a signal before
the handlers are registered, leaves temporary directories, the credentials file
and pre-warmed containers. Pools a reload disposes in the background are not
awaited by the exit, and a directory a running pass makes after the removal
loops is left. `--watch` does not reload WebSocket servers. A glob `*` does not
match a name that begins with `*` (`glob-match.ts:62`); names in the model hold
no star. Rejected upgrades are only half-closed.

*Services.* A signal during the initial boot of several replicas leaves the
container of the next one. A watcher that sleeps in its backoff does not see a
soft reload begin; a `docker wait` armed in the middle of one takes a controlled
stop for a crash; a roll may retire a replica whose watcher is between removal
and reboot. Of several targets, the first end a rolling reload pinned to removed
containers of those rolled after them, and a soft-reloaded container keeps its
pins. A degraded replica's entry stays first in the registry. The prefix that
excludes a replica's own entries excludes neither its predecessor (so that a
shadow is pinned to the container it replaces, `ecs-service-runner.ts:750-751`)
nor only itself (`svc:r1` is a prefix of `svc:r10`). An alias stays bound to the
old name after a rename under `--watch`. A publish whose `docker inspect` answers
after the retirement registers a retired replica. An edit that needs a rebuild
and whose synthesis or roll failed is not applied by a soft reload that follows
(`source-change-classifier.ts:14-22`); a construct edited in an interpreted
language together with a source is lost. A replica restarted after a crash
loses what had been copied into it. A network whose sweep was interrupted waits
for the next one.

*Front door and authorizers.* Listeners accept before the Lambda targets have
booted (502). A signal in the middle of `buildFrontDoor()` leaves the Lambda
container being started. A client that leaves during the authentication check
leaves its upstream open until that ends. The cursor wraps at 2^53 - 1, which a
pool size need not divide: a replica may be picked twice in a row there, so
`RoundRobin` lets a round begin anew. A late answer of an authorizer
overwrites a newer one, and the cache is shared by all generations of a reload
(`local-start-api.ts:1012`). A failing JWKS fetch replaces good keys for the TTL
of a failure. An explicit Deny beside an Allow of the policy is not looked at,
which is documented.

*MicroVMs.* A signal between the boots of two lets `docker run` be called after
the teardown has begun, and its container is left if it returns too late; one
whose second `docker pause` fails is called suspended while it runs, and cannot
be resumed.

*Studio.* The late ready line of a failed and restarted serve, and a startup
that fails after another took its slot, each leave a proxy; the last `stopped` of
a serve may come after its restart; a start during `stopAll` is not stopped;
`stopServe` on a serve that is gone leaves "Stopping…". Crashed serves are
reported `stopped`, where `studio-events.ts:75-76` says `error`. The history is
fetched once when the page loads, before the stream opens (contrary to
`studio-ui.ts:2439`): a page may show a line twice or miss rows after a drop. A
late answer of `/api/running` overwrites a newer event. The failed spawn of an
invocation, and a client that leaves once its request is sent, leave rows
pending; an evicted row that gets its end is inserted as the newest.

*Commands.* A profile credentials file that cannot be written leaves its
directory: the variable a cleanup reads is assigned when it has been written
(`local-profile-credentials-file.ts:105-118`). `cdkl invoke`: a plan for a zip that fails half-way leaves its
directories; the state provider is not disposed when resolving references
throws. `invoke-agentcore --watch`: the loop leaves as if benignly when a reload
has swapped the container while the ping waited (2276); a rebuild that ends after
the loop strands a container; `process.exit` cuts off the bundle of a rebuild.
`run-task`: a signal while a network, volume or container is being made leaves
it; `--keep-running` cannot remove an attached network; `--detach` skips the
cleanup also after an error. `start-agentcore`: a rebuild whose container does
not become ready leaves the server on the removed one's port, and a soft reload
then completes without re-pointing it (690-704); `teardown()` is not awaited by
its second caller; a failing boot leaves the credentials file (271-408);
`server.close()` waits for a request without bound and a second signal is
ignored. `start-cloudfront`: a signal during the boot drains only the web
functions, and without one it is a plain kill; a web function that docker fails
to start stays as a Created container; a response that a function
short-circuits skips the response-headers policy; the directories of a runner
that fails to boot are left. Everywhere a SIGINT before its handler is
registered kills, and `removeContainer` swallows the failure of `docker rm`.

*Environments.* A `Fn::Select` over a list that holds a SecureString marks the
value sensitive, so that a dynamic reference it picks reaches the container
unresolved. `run-task` looks up another stack's output for a variable that
`--env-vars` overrides, and is refused when that fails. The ARN pattern of SSM
parameters asks for a leading slash (`ecs-secrets-resolver.ts:179`).

*Rules, routes and signatures.* The registry of an ALB's Lambda targets is keyed
by the logical id alone (`ecs-service-emulator.ts:2069`, 2132): two stacks with
one id share a container. An authenticate action that is not literal is left out
with a warning. Several query-string conditions of one rule are or-ed. A
distribution in front of a Function URL lends it the CORS of all its behaviors,
whatever their origin (`cors-handler.ts:231-248`). `'UNSIGNED-PAYLOAD'` is
lower-cased and then compared (`sigv4-verify.ts:884`), so that it never matches,
contrary to the comment at 876-879; a `Date` header goes into the string to sign
as it stands; credentials that failed to load once are not asked for again
(114-134); the body is not compared with a declared `x-amz-content-sha256`. The
authorizer cache is keyed by the authorizer's logical id and shared by all
servers (`http-server.ts:1021`, 1061, 1150), while authorizers and Function URLs
are not among the ids that must be unambiguous (`local-start-api.ts:1899-1930`).
`StackName:Id` is looked up by display name first (`stack-matcher.ts:44-47`).

*History variables.* Passing invariants leave such replicas, requests or
containers out by a variable that the action in which the case begins writes and
that no guard reads: `late`, `drainTimedOut`, `startTimedOut`, `grace` in
`ContainerPool`; `unawaited`, `overtaken`, `dark` in `EcsServiceRunner`; `strays`,
`timedOut` in `StartApiServer`; `late`, `stuck`, `abandoned` in `StartMicrovm`;
`overflowed`, `unanswered` in `WebSocketServer`; `late`, `background` in
`StartApiCommand`; `unhurt`, `renewed` in `CloudMapRegistry`; `failed`, `owed`,
`reverted` in `ServiceWatch`; `early` in `FrontDoor`; `caughtUp` in
`StudioTimeline`; `unready` in `StartAgentCore`; `abandoned` in
`StartWebFunction`. Others only remember for a property what happened (`latest`,
`cleared`, `served`, `again`, `granted`, `failedAt`, `consulted`).

## 7. Proofs

Every theorem holds for all values of the constants, from the assumptions the
module itself states about them (what the options and bounds are, nothing more).
Each proof has one inductive invariant, which TLC checked on small instances
before it was proved, and one lemma per action.

| Module | Theorems | Assumption | Inductive invariant |
|--------|----------|------------|---------------------|
| `ContainerPoolProofs` | `PoolTypeCorrect`, `PoolLeasesExclusive`, `PoolKeepsLeases`, `PoolForgetsNothing`, `PoolRespectsCap`, `PoolImplementsLeasePool` | `PoolAssumption` | `MutexOK`, `OnePlace`; `Running`, `Drained`; `Accounted`; `WithinCap` |
| `StartApiServerProofs` | `ServerTypeCorrect`, `ServerHonoursLeases`, `ServerForgetsNothing`, `ServerFresh` | `ServerAssumption` | `ServerInv` |
| `ReloadsProofs` | `RunnerInvariant`, `RunnerTypeCorrect`, `RunnerForgetsNothing`, `RunnerFreesHostPort`, `RunnerAttends`, `RunnerTellsCrashes`, `RunnerStaysServed`, `EveryReplicaInStep` | `RunnerAssumption`, `ReloadsAssumption` | `RunnerInv`, `ServingInv`, `ServicesInv` |
| `StartMicrovmProofs` | `MicrovmInductive` and eight more | `MicrovmAssumption` | `IInv` |
| `WebSocketServerProofs` | `SocketInvariant`, `SocketTypeCorrect`, `SocketLosesNothing`, `SocketClosesCleanly`, `SocketImplementsDelivery` | `WebSocketAssumption` | `SocketInv` |
| `RunningServerProofs` | `RequestsAreServed`, `NoFrameIsLost`, `MatchedAsDeclared`, `DeliveredInOrder` | `RunningAssumption` | `RequestInv`, `SocketInv`, `GlobInv` |
| `SharedProofs` | `SharedIsReleased`, `OnlyTheAuthorizedPass`, `ListedServesAnswer`, `EachReplicaOncePerRound`, `EndsStayShown` | `SharedAssumption` | `SharedInv` |
| `CommandsProofs` | `EndedCommandsLeaveNothing`, `PrerequisitesHold`, `ServersAlwaysAgree`, `CleanupsTakeAll` | `CommandsAssumption` | `CommandsInv` |

An assumption says what the options and a template are, nothing more: a pool of
replicas is finite, the Lambda targets of a front door and the functions of a
distribution come without repeats (a function in two roles has two runners and
counts as two), a route is of one of the three tiers and its pattern a sequence of
segments, a command line names a service once (nothing rejects that it is named
twice; the model leaves this out), `Wrap`, a TTL and a cap are positive, a model
value is not a number.
What a topological sort returns is the set of the orders the code may produce,
so that the proof about start orders is for each of them.

In a composition one component runs and the others keep their initial state.
The invariant of each component is preserved by its own steps and by a stutter,
so that their conjunction is inductive (`EachAlone`, `CommandsStep`): a proof
about a component is the same whether it is composed or not.

### The warm pool

`TypeOK` alone is not inductive. A request that leaves the mutex takes the head
off the sequence of those chained on it, which must be itself; and `dispose()`
fails all waiters of an entry, which must be exactly the requests waiting there.
`MutexOK` says both: whoever starts or waits is the head of its mutex, so at
most one waits per entry, and the queue names it. `LeaseExclusive` then follows
from `OnePlace`: a container is in at most one of the places where the pool
could find it (held by one request, warm in one entry, being collected), which
every action preserves because it only moves a container from one to the next or
takes one that docker does not run.

The second half of the proofs adds `Running` (until `dispose()` begins to remove,
what is borrowed or warm runs and is entered in the pool's books) and `Drained`
(the entry of a request in flight since before `dispose()` keeps its drain until
that request has released), from which `LeaseKept` follows. `NoOrphan` needs
`Accounted`: every running container is in a place the pool looks at, and each
stage of `dispose()` has the rest still before it (`Remaining`). The cap needs
`WithinCap`: containers and the start in flight together stay within it, and the
mutex admits one start or waiter at a time (`AloneInMutex`).

The refinement maps `LeasePool`'s `alive` to the containers docker runs, `lease`
to what a request holds while it uses it, and `open` to "`dispose()` has not yet
begun to remove" (`~Harvested`): until then nothing lent is removed. A hand-over
is one step of `LeasePool`, what happens inside the mutex is a stutter.

### The API server

`ServerInv` relates the generations. `Chained`: reloads run one after another, a
reload that has not ended has installed nothing newer, and what the last one
builds from is at least what the watcher has seen, whence `Fresh`.
`Generations`: only the current pool is open, and a request or a container
belongs to a state that was installed. `Lending` and `Accounted`: what a
`dispose()` has listed is what it will remove, a start it waits for is still in
flight, and what is left of a closed pool are the strays. `LeaseHonoured` and
`NoOrphan` need the last two: neither says by itself that the disposal of an
older state cannot reach a container of a newer one.

### The ECS service runner

`RunnerInv` is three conjunctions, for the chains that work on one replica list.
`Inv1`: what the reload holds at each of its steps (`Stepping`), how generations
relate to the number of reloads (`Counted`), that a slot has one replica but for
the pair of a roll (`Listed`), and that the boot loop boots one after another
(`Looping`). `Inv2`: a replica that was told to stop does not come back unless
its chain was tearing it down or booting it at that moment (`Told`); what is no
longer listed is over (`Departed`); what a shutdown has marked and has left to
remove (`Closing`); containers and replicas correspond (`Paired`); what the reload
has in its hands is the old replica's (`Targeted`). `Inv3`: registrations lead to
the replica's own container, and whoever is about to remove or start one has
dropped them (`Routed`, `Dropped`); a soft reload that found the watcher waiting
keeps it from taking the stop for a crash (`Cycled`); live replicas are watched.

Why so much: `CrashMeansCrash` rests on a generation that was read before
`docker wait`, whose answer may come after the reload that caused it; `Cycled`
says that in every step between, either the generations differ or the container
does not run. `NoOrphan` holds because a container docker has is always some
instance's (`Paired`), and an instance that is not listed has none (`Departed`)
but in the moments a roll or the cleanup has it in hand. `HostPortFree` needs
that a roll of a single replica boots its shadow only after the old container is
gone (`Targeted`) *and* that the old replica's watcher cannot boot another one
in between (`Told`).

`StaysServed` is not a consequence of `RunnerInv`: a reload that has lost a slot
must not have lost another one before. `ServingInv` adds `Bright`: while the
service is up, a replica whose slot saw neither an exit nor a refusal of docker
serves, with its watcher waiting, unless it is the shadow that boots, the old
replica of a roll that has been swapped out, or the one in a soft reload's hands;
and `Unspoilt`, about the replicas a soft reload has overtaken. It is about services of
more than one replica; a service of one has a gap in each reload, as the code
intends.

### The watch of services and their names

`EveryReplicaInStep` states `InStep`, three properties of two components.

*Watch* (`WatchInv`): a synthesis reads all that is on disk, so that of each kind
of path the assembly is current or a reload is ahead that was told of a save
(`Synthesized`); a replica restarts with the image it was created from
(`Described`); the sources reach whoever the reload has treated (`Copied`); and
what needs a rebuild has been rebuilt, is owed, or is among the paths of a reload
to come (`Rebuilt`). The last is why the classifier may not look at the asset
hash alone, nor at the paths alone.

*Registry* (`RegistryInv`): `Chained` and `Rolling` say where the boot or the reload
is and what a roll holds at each step; `Generations`, that a later generation of a
replica boots only in a roll that replaces it; `Retirement` and `BootOrder`, what
is never published and what has not booted. While nothing was hurt, a
replica that is up has an entry unless it is being cycled, and every entry leads
to a live container that holds its address (`Unhurt`); a service of several
replicas has two besides the shadow of a roll (`Present`), so that one is left in
the registry whichever the reload has taken out: `AlwaysRegistered`. `Known` is
`PeersFound` with the replicas of the target the chain is at: who is given
addresses when it boots finds an entry of each earlier service, by `Present`, and
the addresses of earlier services do not change hands while a later one rolls
(`EarlierKept`). Until the reload has come to a later service, what its replicas
were told may lead nowhere: that is what `peers_resolve` shows.

### WebSocket connections

The inductive invariant is per connection. `Orderly`: what is buffered and what
is queued is increasing, everything queued came after what was dispatched last,
and `$disconnect` can only be the last item. `Admission`: handlers and queues
exist for admitted connections only; `$disconnect` is queued exactly when the
socket of a registered connection has closed, and once its handler has begun
nothing is queued. `Accounted`: a frame that arrived is dropped, buffered,
queued or dispatched. For the shutdown, `Shutting` says that whoever still has a
socket or an unfinished `$disconnect` is on the list `close()` waits for or has
been given up. `NothingLost` needs `Orderly` (a later frame's dispatch must not
pass over an earlier one), and so does the refinement: `Deliver` of
`OrderedDelivery` asks that a frame be later than the last one. The mapping
forgets sockets, buffers and the shutdown: `link` is whether a connection is
registered, `busy` the connections with a handler at work.

### MicroVMs

None of the properties is inductive alone: that a `/terminate` hook meets no
paused container needs that a promise in flight belongs to the state it was
started in or to a `terminate()` that still waits for it (`PromisesOK`), and that
`paused` says what docker does (`ContainersOK`); that nothing is left at the end
needs that every container is wrapped, bare, or being started by the one
`docker run` in flight, and that the teardown passes over none of them
(`TeardownOK`), which rests on the order in which the boot loop creates MicroVMs
(`CommandOK`). `MicrovmEndsOnlyWhenDone` needs `EndOK` beside it:
`allTerminated` is true of all MicroVMs, also those yet to boot.

### A request and its container

`RequestInv` has four parts. `Holds`: a request that was dispatched passed its
authorizer, one that invokes or streams has a container, and no two have the
same. `Runs`: a handler runs the event of one request, and unless the
request timed out, its stream was given up or its attempt failed on the way
(`unheard`), that request waits for it with the container. `Hears` is about what has been answered, and no POST ran twice
(`again`). `ReturnedOnce` and `LentIdle` follow from `Runs` and the uniqueness of
leases. The WebSocket half reuses the proof of `WebSocketServer` by instantiation
(`WP`), including the refinement of `OrderedDelivery`.

### Routes and globs

What a fold or a recursive function computes for every list or text is proved
without an induction theorem: of the places where a claim fails take the least
(`Least`), and the claim holds at the place before it.

*Routes.* A pass of `matchRoute` is a fold over the positions of the list. `Best`,
the first of the routes of a tier that take the request and have the most
literals, solves the fold's equation (`PassKeepsBest`, `BestOfMore`), so that the
pass returns it (`PassTakes`); `matchRoute` is the pass of the first tier in
which there is one (`FirstPass`, `MatchTakes`). `PreflightsOwned` relates the second
copy of the path rules, in the preflight, to what `matchRoute` finds among the
routes of that API alone. No property of a list is assumed: the order in which
routes are discovered and the number of literals are arbitrary.

*Globs.* `Walk` gives a solution of the equation of `Means` (`WalksUnfold`,
`FromRules`). `GlobInv`: the glob matches exactly if what is left of it matches
what is left of the text, or the last star takes more (`Elsewhere`). The step
that forgets an earlier star rests on `Later`: had the earlier star to take more,
the tokens since would match further on (`Slides`), where the new star gets to as
well. At the end of the text only stars may be left (`StarsAtEnd`).

### What is shared

`SharedInv` has a conjunct per component.

*Networks* (`NetworkInv`): a sweep judged an owner dead after it listed the
network, so that nothing it is about to remove is of a live run; `OrphansAhead`
says of each orphan docker listed to a sweep that it is gone, or still ahead in
the list, or the sweep has ended. *Authorizers* (`AuthInv`): `VerdictsHold`, an unexpired
verdict rests on an answer of the authorizer for that identity, less than a TTL
old, for each route it permits; `KeysHold`, keys that let everyone pass are no
older than the last failure; `RequestsWait`, an answer that comes is the one to
what was asked. The first two survive the clock, a late answer that overwrites a
newer one, and the deletion of an entry.

*Front door*: `ClientsHeld`, an upstream is that of a handler whose client is still
there; `TargetsHeld`, the Lambda targets that have been booted keep their
containers until every connection has ended. *Round robin* (`PoolInv`): since a
round began, exactly the entries right behind the cursor have been served
(`RoundKept`). The property is an action property about sets of replicas; without the
position of the cursor it is not inductive.

*Timeline* (`TimelineInv`): there are ends of the invocations with which the store,
what is on the wire, the answer with the history and the page agree; the store
has a row per invocation at most; while the page has missed nothing, each row of
the store is shown, on the wire, or in the answer awaited (`NothingMissed`).
*Serves* (`ServeInv`): serves of a target come one after another and the last is
the one tracked (`ServesInOrder`); what is left of an earlier one (`ServesEnd`);
a proxy that binds is in a slot or its slot was lost to a failing startup
(`StartupsKept`); what a shutdown waits for (`ShutdownWaits`).

### Commands

*invoke, invoke-agentcore* (`InvokeInv`): `DirsKnown`, a directory is known to
the cleanup before there is a container, but for a bundle, which its builder
removes, and that of a credentials file that could not be written, which is the
only one then; `OneRuns`, at
most one container runs beside one a reload removes; `CleanedUp`, what has been
done after each step of the cleanup. *run-task* (`TaskInv`): containers before the
one being started exist and those after it do not (`InTurn`), what exists is in the list
the cleanup works on or is being made (`InList`, `MadeKnown`), and each stage of
the cleanup has left nothing (`Swept`). That dependencies are earlier in the start order comes
from depths: the order sorts by depth and by position, and a container is deeper
than what it depends on (`StartedInOrder`), for every graph without a cycle.

*start-web-function, start-cloudfront* share what a serve leaves when it was torn
down (`TornDownBehind`); a request keeps the distribution it was routed by
(`Answering`, `Kept`), although an update replaces it in between.
*start-agentcore* (`AgentInv`): where the server leads while a reload waits.
*start-api* (`ApiInv`): a boot opens the pools one API after another
(`BootsInOrder`), a pass opens and disposes them in the same order or fails
(`PoolsFollow`), warm containers are in pools that are not disposed of
(`WarmIn`), directories and the credentials file are tracked but for the moment
they are made (`FilesKnown`), and what the shutdown has stopped so far (`Stopped`).

`CleanupsTakeAll` is an action property: it follows from the same invariants,
step by step.

### What stays with TLC

The liveness properties (`EverythingEnds`, `EverythingSettles`, `CommandsEnd`,
`Settles` and their like), as the prover handles neither fairness nor ENABLED.
Of the safety properties, `EnvAsDeclared` and `RequestsAsDeclared` (run `pool`):
`ContainerEnv` and `ApiRoutes` walk nested template values with RECURSIVE operators,
for which the prover has no SMT backend, and what such a walk computes for
values of any depth needs an induction over them. The runs that expect a violation have no
theorem, of course.

## 8. Running

    tlc -config Pool.cfg MCTemplates.tla
    tlc -config ServiceReloads.cfg MCReloads.tla
    tlapm ContainerPoolProofs.tla
    tlapm ReloadsProofs.tla
    tlapm CommandsProofs.tla

Each run of `PROJECT.json` names its module and configuration; none takes more
than three minutes on two cores.
