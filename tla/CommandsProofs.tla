--------------------------- MODULE CommandsProofs ---------------------------
(***************************************************************************)
(* Proofs about Commands, for any task, web functions, distribution, APIs  *)
(* and numbers of reloads: what the commands leave behind when they end,   *)
(* what a container, a session and a server may rely on, and that the      *)
(* servers of start-api agree.                                             *)
(***************************************************************************)
EXTENDS Commands, TLAPS

(* invoke and invoke-agentcore: the directories and the containers. *)

(* The steps before the container, and those once it runs.                   *)
Early == {"boot", "write", "synth", "code", "pull", "layers", "build", "image", "env", "run"}
Replacing == {"fetch", "build", "run", "answer"}

InvokeTypes ==
  /\ pc \in Early \cup {"started", "invoke", "top", "ping", "ws", "settle", "drain", "reopen",
                        "left", "finally", "cleaning", "exited", "killed"}
  /\ reload \in {"idle", "soft", "remove"} \cup Replacing
  /\ cleaning \in {"idle", "container", "dirs", "done"}
  /\ handled \in Nat /\ fired \in Nat /\ port \in Nat
  /\ running \subseteq Nat
  /\ {containerId, doomed, session} \subseteq Nat \cup {Nothing}

(* A directory that cleanup() cannot see is the bundle, which its builder    *)
(* removes, or is made before there is a container.                          *)
DirsKnown ==
  /\ dirs \subseteq I!Dirs /\ known \subseteq I!Dirs \ {"bundle", "profile"}
  /\ "creds" \in dirs => "creds" \in known
  /\ "bundle" \in dirs => pc \in {"image", "killed"} \/ reload = "build"
  /\ pc \in {"code", "pull", "layers"} => mode = "zip"
  /\ pc = "image" => mode \in {"agent", "watch"}
  /\ mode # "zip" \/ pc \in {"boot", "write", "synth", "code"} => known \subseteq {"creds"}
  /\ mode # "zip" \/ pc = "synth" => dirs \subseteq {"profile", "creds", "bundle"}
  /\ pc = "boot" => dirs = {} /\ known = {}
  /\ pc = "write" => "profile" \in dirs
  /\ "profile" \in dirs =>
       /\ dirs = {"profile"} /\ known = {}
       /\ ~handler /\ containerId = Nothing /\ fired = 0 /\ reload = "idle"
       /\ pc \in {"write", "finally", "cleaning", "exited", "killed"}
  /\ \/ pc \in {"env", "run", "started"} \/ I!Looping
     \/ handler \/ containerId # Nothing \/ fired > 0
     => dirs \subseteq known \cup {"bundle"}

(* The cleanup runs beside nothing that makes directories but a rebuild.     *)
CleanedUp ==
  /\ pc \in Early \cup {"started"} =>
       /\ cleaning = "idle" /\ ~handler /\ containerId = Nothing
       /\ fired = 0 /\ handled = 0 /\ reload = "idle" /\ port = 1 /\ session = Nothing
  /\ pc \in {"finally", "cleaning", "exited"} => ~handler \/ dirs \subseteq known \cup {"bundle"}
  /\ pc = "cleaning" => cleaning # "idle"
  /\ pc = "exited" => cleaning = "done"
  /\ cleaning = "done" => dirs \cap known = {}

(* One container runs, that of containerId, but for one that docker starts;  *)
(* what is removed or doomed never runs again.                               *)
OneRuns ==
  /\ pc \in Early => running = {}
  /\ pc = "started" => running = {1}
  /\ pc \notin Early \cup {"started", "killed"} /\ reload # "answer" => running \subseteq {containerId}
  /\ reload = "answer" => running \subseteq {handled + 2}
  /\ reload \in Replacing => containerId = Nothing
  /\ handled <= fired /\ (reload # "idle" => handled < fired)
  /\ containerId # Nothing => containerId = port
  /\ port <= handled + 1 /\ (session # Nothing => session <= handled + 1)
  /\ doomed # Nothing => doomed <= handled + 1
  /\ cleaning \in {"dirs", "done"} => doomed \notin running

InvokeInv == InvokeTypes /\ DirsKnown /\ CleanedUp /\ OneRuns /\ I!SessionIsCurrent

LEMMA InvokeStarts == Init => InvokeInv
<1> USE CommandsAssumption DEF I!InvokeAssumption, Early, Replacing, I!Init
<1> SUFFICES ASSUME I!Init PROVE InvokeInv
  BY DEF Init
<1>1. InvokeTypes BY DEF InvokeTypes
<1>2. DirsKnown BY DEF DirsKnown, I!Dirs, I!Looping
<1>3. CleanedUp BY DEF CleanedUp
<1>4. OneRuns BY DEF OneRuns
<1> QED BY <1>1, <1>2, <1>3, <1>4 DEF InvokeInv, I!SessionIsCurrent

LEMMA InvokePrepares ==
  ASSUME InvokeInv, I!Boot \/ I!WriteCredentials \/ I!Synthesize \/ I!MaterializeCode \/
         I!PullRuntime \/ I!MergeLayers
  PROVE  InvokeInv'
<1> USE CommandsAssumption
    DEF I!InvokeAssumption, InvokeInv, Early, Replacing, I!Goes, I!Quiet, I!stepVars,
        I!containerVars, I!cleanVars, I!loopVars, I!reloadVars
<1>1. CASE I!Boot
  <2> USE <1>1 DEF I!Boot
  <2>1. InvokeTypes' BY DEF InvokeTypes
  <2>2. DirsKnown'
    <3>1. dirs = {} /\ known = {}
      BY DEF DirsKnown
    <3>2. ~handler /\ containerId = Nothing /\ fired = 0 /\ reload = "idle"
      BY DEF CleanedUp
    <3>3. UNCHANGED <<mode, known, handler, containerId, fired, reload>>
      OBVIOUS
    <3>4. CASE pc' = "synth" /\ UNCHANGED dirs
      <4> HIDE <1>1 DEF I!Boot
      <4> QED BY <3>1, <3>2, <3>3, <3>4 DEF DirsKnown, I!Dirs, I!Looping
    <3>5. CASE pc' = "write" /\ dirs' = {"profile"}
      <4> HIDE <1>1 DEF I!Boot
      <4> QED BY <3>1, <3>2, <3>3, <3>5 DEF DirsKnown, I!Dirs, I!Looping
    <3> QED BY <3>4, <3>5
  <2>3. CleanedUp' BY DEF InvokeTypes, DirsKnown, CleanedUp, OneRuns, I!Dirs
  <2>4. OneRuns' BY DEF InvokeTypes, CleanedUp, OneRuns
  <2>5. I!SessionIsCurrent' BY DEF InvokeTypes, CleanedUp, OneRuns, I!SessionIsCurrent
  <2> QED BY <2>1, <2>2, <2>3, <2>4, <2>5
<1>2. CASE I!Synthesize
  <2> USE <1>2 DEF I!Synthesize
  <2>1. InvokeTypes' BY DEF InvokeTypes
  <2>2. DirsKnown' BY DEF InvokeTypes, DirsKnown, I!Dirs, I!Looping, OneRuns, CleanedUp
  <2>3. CleanedUp' BY DEF InvokeTypes, DirsKnown, CleanedUp, OneRuns, I!Dirs
  <2>4. OneRuns' BY DEF InvokeTypes, CleanedUp, OneRuns
  <2>5. I!SessionIsCurrent' BY DEF InvokeTypes, CleanedUp, OneRuns, I!SessionIsCurrent
  <2> QED BY <2>1, <2>2, <2>3, <2>4, <2>5
<1>3. CASE I!MaterializeCode
  <2> USE <1>3 DEF I!MaterializeCode
  <2>1. InvokeTypes' BY DEF InvokeTypes
  <2>2. DirsKnown'
    <3>1. pc = "code" /\ pc' = "pull" /\ dirs \subseteq dirs' /\ dirs' \subseteq dirs \cup {"code"}
        /\ UNCHANGED <<mode, known, handler, containerId, fired, reload>>
      OBVIOUS
    <3> HIDE <1>3 DEF I!MaterializeCode
    <3> QED BY <3>1 DEF InvokeTypes, DirsKnown, I!Dirs, I!Looping, CleanedUp
  <2>3. CleanedUp' BY DEF InvokeTypes, DirsKnown, CleanedUp, OneRuns, I!Dirs
  <2>4. OneRuns' BY DEF InvokeTypes, CleanedUp, OneRuns
  <2>5. I!SessionIsCurrent' BY DEF InvokeTypes, CleanedUp, OneRuns, I!SessionIsCurrent
  <2> QED BY <2>1, <2>2, <2>3, <2>4, <2>5
<1>4. CASE I!PullRuntime
  <2> USE <1>4 DEF I!PullRuntime
  <2>1. InvokeTypes' BY DEF InvokeTypes
  <2>2. DirsKnown' BY DEF InvokeTypes, DirsKnown, I!Dirs, I!Looping, OneRuns, CleanedUp
  <2>3. CleanedUp' BY DEF InvokeTypes, DirsKnown, CleanedUp, OneRuns, I!Dirs
  <2>4. OneRuns' BY DEF InvokeTypes, CleanedUp, OneRuns
  <2>5. I!SessionIsCurrent' BY DEF InvokeTypes, CleanedUp, OneRuns, I!SessionIsCurrent
  <2> QED BY <2>1, <2>2, <2>3, <2>4, <2>5
<1>5. CASE I!MergeLayers
  <2> USE <1>5 DEF I!MergeLayers
  <2>1. InvokeTypes' BY DEF InvokeTypes
  <2>2. DirsKnown' BY DEF InvokeTypes, DirsKnown, I!Dirs, I!Looping, OneRuns, CleanedUp
  <2>3. CleanedUp' BY DEF InvokeTypes, DirsKnown, CleanedUp, OneRuns, I!Dirs
  <2>4. OneRuns' BY DEF InvokeTypes, CleanedUp, OneRuns
  <2>5. I!SessionIsCurrent' BY DEF InvokeTypes, CleanedUp, OneRuns, I!SessionIsCurrent
  <2> QED BY <2>1, <2>2, <2>3, <2>4, <2>5
<1>6. CASE I!WriteCredentials
  <2> USE <1>6 DEF I!WriteCredentials
  <2>1. InvokeTypes' BY DEF InvokeTypes
  <2>2. DirsKnown' BY DEF InvokeTypes, DirsKnown, I!Dirs, I!Looping, OneRuns, CleanedUp
  <2>3. CleanedUp' BY DEF InvokeTypes, DirsKnown, CleanedUp, OneRuns, I!Dirs
  <2>4. OneRuns' BY DEF InvokeTypes, CleanedUp, OneRuns
  <2>5. I!SessionIsCurrent' BY DEF InvokeTypes, CleanedUp, OneRuns, I!SessionIsCurrent
  <2> QED BY <2>1, <2>2, <2>3, <2>4, <2>5
<1> QED BY <1>1, <1>2, <1>3, <1>4, <1>5, <1>6

LEMMA InvokeBuilds ==
  ASSUME InvokeInv, I!BuildContainerImage \/ I!FetchBundle \/ I!BuildAgentImage \/ I!ResolveEnv \/
         I!Throws
  PROVE  InvokeInv'
<1> USE CommandsAssumption
    DEF I!InvokeAssumption, InvokeInv, Early, Replacing, I!Goes, I!Quiet, I!Unbundled, I!stepVars,
        I!containerVars, I!cleanVars, I!loopVars, I!reloadVars
<1>1. CASE I!BuildContainerImage
  <2> USE <1>1 DEF I!BuildContainerImage
  <2>1. InvokeTypes' BY DEF InvokeTypes
  <2>2. DirsKnown' BY DEF InvokeTypes, DirsKnown, I!Dirs, I!Looping, OneRuns, CleanedUp
  <2>3. CleanedUp' BY DEF InvokeTypes, DirsKnown, CleanedUp, OneRuns, I!Dirs
  <2>4. OneRuns' BY DEF InvokeTypes, CleanedUp, OneRuns
  <2>5. I!SessionIsCurrent' BY DEF InvokeTypes, CleanedUp, OneRuns, I!SessionIsCurrent
  <2> QED BY <2>1, <2>2, <2>3, <2>4, <2>5
<1>2. CASE I!FetchBundle
  <2> USE <1>2 DEF I!FetchBundle
  <2>1. InvokeTypes' BY DEF InvokeTypes
  <2>2. DirsKnown' BY DEF InvokeTypes, DirsKnown, I!Dirs, I!Looping, OneRuns, CleanedUp
  <2>3. CleanedUp' BY DEF InvokeTypes, DirsKnown, CleanedUp, OneRuns, I!Dirs
  <2>4. OneRuns' BY DEF InvokeTypes, CleanedUp, OneRuns
  <2>5. I!SessionIsCurrent' BY DEF InvokeTypes, CleanedUp, OneRuns, I!SessionIsCurrent
  <2> QED BY <2>1, <2>2, <2>3, <2>4, <2>5
<1>3. CASE I!BuildAgentImage
  <2> USE <1>3 DEF I!BuildAgentImage
  <2>1. InvokeTypes' BY DEF InvokeTypes
  <2>2. DirsKnown' BY DEF InvokeTypes, DirsKnown, I!Dirs, I!Looping, OneRuns, CleanedUp
  <2>3. CleanedUp' BY DEF InvokeTypes, DirsKnown, CleanedUp, OneRuns, I!Dirs
  <2>4. OneRuns' BY DEF InvokeTypes, CleanedUp, OneRuns
  <2>5. I!SessionIsCurrent' BY DEF InvokeTypes, CleanedUp, OneRuns, I!SessionIsCurrent
  <2> QED BY <2>1, <2>2, <2>3, <2>4, <2>5
<1>4. CASE I!ResolveEnv
  <2> USE <1>4 DEF I!ResolveEnv
  <2>1. InvokeTypes' BY DEF InvokeTypes
  <2>2. DirsKnown' BY DEF InvokeTypes, DirsKnown, I!Dirs, I!Looping, OneRuns, CleanedUp
  <2>3. CleanedUp' BY DEF InvokeTypes, DirsKnown, CleanedUp, OneRuns, I!Dirs
  <2>4. OneRuns' BY DEF InvokeTypes, CleanedUp, OneRuns
  <2>5. I!SessionIsCurrent' BY DEF InvokeTypes, CleanedUp, OneRuns, I!SessionIsCurrent
  <2> QED BY <2>1, <2>2, <2>3, <2>4, <2>5
<1>5. CASE I!Throws
  <2> USE <1>5 DEF I!Throws
  <2>1. InvokeTypes' BY DEF InvokeTypes
  <2>2. DirsKnown'
    <3>1. /\ pc' = "finally" /\ pc \in Early
          /\ dirs' \subseteq (dirs \ {"bundle"}) \cup (IF pc = "layers" THEN {"layers"} ELSE {})
          /\ UNCHANGED <<mode, known, handler, containerId, fired, reload>>
      OBVIOUS
    <3>2. ~handler /\ containerId = Nothing /\ fired = 0 /\ reload = "idle"
      BY <3>1 DEF CleanedUp
    <3>3. "profile" \in dirs => dirs = {"profile"} /\ known = {} /\ pc # "layers"
      BY <3>1 DEF DirsKnown
    <3> HIDE <1>5 DEF I!Throws
    <3>4. /\ dirs' \subseteq I!Dirs /\ "bundle" \notin dirs'
          /\ "profile" \in dirs' => dirs' = {"profile"} /\ known' = {}
      BY <3>1, <3>3 DEF DirsKnown, I!Dirs
    <3>5. mode' # "zip" => dirs' \subseteq {"profile", "creds", "bundle"}
      BY <3>1 DEF DirsKnown
    <3> QED BY <3>1, <3>2, <3>4, <3>5 DEF DirsKnown, I!Dirs, I!Looping
  <2>3. CleanedUp' BY DEF InvokeTypes, DirsKnown, CleanedUp, OneRuns, I!Dirs
  <2>4. OneRuns' BY DEF InvokeTypes, CleanedUp, OneRuns
  <2>5. I!SessionIsCurrent' BY DEF InvokeTypes, CleanedUp, OneRuns, I!SessionIsCurrent
  <2> QED BY <2>1, <2>2, <2>3, <2>4, <2>5
<1> QED BY <1>1, <1>2, <1>3, <1>4, <1>5

LEMMA InvokeRuns ==
  ASSUME InvokeInv, I!DockerRuns \/ I!Started \/ I!Invokes
  PROVE  InvokeInv'
<1> USE CommandsAssumption
    DEF I!InvokeAssumption, InvokeInv, Early, Replacing, I!Goes, I!stepVars, I!containerVars,
        I!cleanVars, I!loopVars, I!reloadVars
<1>1. CASE I!DockerRuns
  <2> USE <1>1 DEF I!DockerRuns
  <2>1. InvokeTypes' BY DEF InvokeTypes
  <2>2. DirsKnown' BY DEF InvokeTypes, DirsKnown, I!Dirs, I!Looping, OneRuns, CleanedUp
  <2>3. CleanedUp' BY DEF InvokeTypes, DirsKnown, CleanedUp, OneRuns, I!Dirs
  <2>4. OneRuns' BY DEF InvokeTypes, CleanedUp, OneRuns
  <2>5. I!SessionIsCurrent' BY DEF InvokeTypes, CleanedUp, OneRuns, I!SessionIsCurrent
  <2> QED BY <2>1, <2>2, <2>3, <2>4, <2>5
<1>2. CASE I!Started
  <2> USE <1>2 DEF I!Started
  <2>1. InvokeTypes' BY DEF InvokeTypes
  <2>2. DirsKnown' BY DEF InvokeTypes, DirsKnown, I!Dirs, I!Looping, OneRuns, CleanedUp
  <2>3. CleanedUp' BY DEF InvokeTypes, DirsKnown, CleanedUp, OneRuns, I!Dirs
  <2>4. OneRuns' BY DEF InvokeTypes, CleanedUp, OneRuns
  <2>5. I!SessionIsCurrent' BY DEF InvokeTypes, CleanedUp, OneRuns, I!SessionIsCurrent
  <2> QED BY <2>1, <2>2, <2>3, <2>4, <2>5
<1>3. CASE I!Invokes
  <2> USE <1>3 DEF I!Invokes
  <2>1. InvokeTypes' BY DEF InvokeTypes
  <2>2. DirsKnown' BY DEF InvokeTypes, DirsKnown, I!Dirs, I!Looping, OneRuns, CleanedUp
  <2>3. CleanedUp' BY DEF InvokeTypes, DirsKnown, CleanedUp, OneRuns, I!Dirs
  <2>4. OneRuns' BY DEF InvokeTypes, CleanedUp, OneRuns
  <2>5. I!SessionIsCurrent' BY DEF InvokeTypes, CleanedUp, OneRuns, I!SessionIsCurrent
  <2> QED BY <2>1, <2>2, <2>3, <2>4, <2>5
<1> QED BY <1>1, <1>2, <1>3

LEMMA InvokeLoops ==
  ASSUME InvokeInv, I!Tops \/ I!Ping \/ I!SessionEnds \/ I!Settle \/ I!Drained \/ I!Reopens \/
         I!Leaves
  PROVE  InvokeInv'
<1> USE CommandsAssumption
    DEF I!InvokeAssumption, InvokeInv, Early, Replacing, I!Goes, I!StepsLoop, I!ThrowsFromLoop,
        I!AwaitChain, I!ChainDone, I!stepVars, I!containerVars, I!cleanVars, I!loopVars,
        I!reloadVars
<1>1. CASE I!Tops
  <2> USE <1>1 DEF I!Tops
  <2>1. InvokeTypes' BY DEF InvokeTypes
  <2>2. DirsKnown' BY DEF InvokeTypes, DirsKnown, I!Dirs, I!Looping, OneRuns, CleanedUp
  <2>3. CleanedUp' BY DEF InvokeTypes, DirsKnown, CleanedUp, OneRuns, I!Dirs
  <2>4. OneRuns' BY DEF InvokeTypes, CleanedUp, OneRuns
  <2>5. I!SessionIsCurrent' BY DEF InvokeTypes, CleanedUp, OneRuns, I!SessionIsCurrent
  <2> QED BY <2>1, <2>2, <2>3, <2>4, <2>5
<1>2. CASE I!Ping
  <2> USE <1>2 DEF I!Ping
  <2>1. InvokeTypes' BY DEF InvokeTypes
  <2>2. DirsKnown' BY DEF InvokeTypes, DirsKnown, I!Dirs, I!Looping, OneRuns, CleanedUp
  <2>3. CleanedUp' BY DEF InvokeTypes, DirsKnown, CleanedUp, OneRuns, I!Dirs
  <2>4. OneRuns' BY DEF InvokeTypes, CleanedUp, OneRuns
  <2>5. I!SessionIsCurrent' BY DEF InvokeTypes, CleanedUp, OneRuns, I!SessionIsCurrent
  <2> QED BY <2>1, <2>2, <2>3, <2>4, <2>5
<1>3. CASE I!SessionEnds
  <2> USE <1>3 DEF I!SessionEnds
  <2>1. InvokeTypes' BY DEF InvokeTypes
  <2>2. DirsKnown' BY DEF InvokeTypes, DirsKnown, I!Dirs, I!Looping, OneRuns, CleanedUp
  <2>3. CleanedUp' BY DEF InvokeTypes, DirsKnown, CleanedUp, OneRuns, I!Dirs
  <2>4. OneRuns' BY DEF InvokeTypes, CleanedUp, OneRuns
  <2>5. I!SessionIsCurrent' BY DEF InvokeTypes, CleanedUp, OneRuns, I!SessionIsCurrent
  <2> QED BY <2>1, <2>2, <2>3, <2>4, <2>5
<1>4. CASE I!Settle
  <2> USE <1>4 DEF I!Settle
  <2>1. InvokeTypes' BY DEF InvokeTypes
  <2>2. DirsKnown' BY DEF InvokeTypes, DirsKnown, I!Dirs, I!Looping, OneRuns, CleanedUp
  <2>3. CleanedUp' BY DEF InvokeTypes, DirsKnown, CleanedUp, OneRuns, I!Dirs
  <2>4. OneRuns' BY DEF InvokeTypes, CleanedUp, OneRuns
  <2>5. I!SessionIsCurrent' BY DEF InvokeTypes, CleanedUp, OneRuns, I!SessionIsCurrent
  <2> QED BY <2>1, <2>2, <2>3, <2>4, <2>5
<1>5. CASE I!Drained
  <2> USE <1>5 DEF I!Drained
  <2>1. InvokeTypes' BY DEF InvokeTypes
  <2>2. DirsKnown' BY DEF InvokeTypes, DirsKnown, I!Dirs, I!Looping, OneRuns, CleanedUp
  <2>3. CleanedUp' BY DEF InvokeTypes, DirsKnown, CleanedUp, OneRuns, I!Dirs
  <2>4. OneRuns' BY DEF InvokeTypes, CleanedUp, OneRuns
  <2>5. I!SessionIsCurrent' BY DEF InvokeTypes, CleanedUp, OneRuns, I!SessionIsCurrent
  <2> QED BY <2>1, <2>2, <2>3, <2>4, <2>5
<1>6. CASE I!Reopens
  <2> USE <1>6 DEF I!Reopens
  <2>1. InvokeTypes' BY DEF InvokeTypes
  <2>2. DirsKnown' BY DEF InvokeTypes, DirsKnown, I!Dirs, I!Looping, OneRuns, CleanedUp
  <2>3. CleanedUp' BY DEF InvokeTypes, DirsKnown, CleanedUp, OneRuns, I!Dirs
  <2>4. OneRuns' BY DEF InvokeTypes, CleanedUp, OneRuns
  <2>5. I!SessionIsCurrent' BY DEF InvokeTypes, CleanedUp, OneRuns, I!SessionIsCurrent
  <2> QED BY <2>1, <2>2, <2>3, <2>4, <2>5
<1>7. CASE I!Leaves
  <2> USE <1>7 DEF I!Leaves
  <2>1. InvokeTypes' BY DEF InvokeTypes
  <2>2. DirsKnown' BY DEF InvokeTypes, DirsKnown, I!Dirs, I!Looping, OneRuns, CleanedUp
  <2>3. CleanedUp' BY DEF InvokeTypes, DirsKnown, CleanedUp, OneRuns, I!Dirs
  <2>4. OneRuns' BY DEF InvokeTypes, CleanedUp, OneRuns
  <2>5. I!SessionIsCurrent' BY DEF InvokeTypes, CleanedUp, OneRuns, I!SessionIsCurrent
  <2> QED BY <2>1, <2>2, <2>3, <2>4, <2>5
<1> QED BY <1>1, <1>2, <1>3, <1>4, <1>5, <1>6, <1>7

LEMMA InvokeReloads ==
  ASSUME InvokeInv, I!Fires \/ I!Marks \/ I!SoftReload \/ I!ReloadFails
  PROVE  InvokeInv'
<1> USE CommandsAssumption
    DEF I!InvokeAssumption, InvokeInv, Early, Replacing, I!Alive, I!Ended, I!StepsReload,
        I!Unbundled, I!stepVars, I!containerVars, I!cleanVars, I!loopVars, I!reloadVars
<1>1. CASE I!Fires
  <2> USE <1>1 DEF I!Fires, I!Looping
  <2>1. InvokeTypes' BY DEF InvokeTypes
  <2>2. DirsKnown' BY DEF InvokeTypes, DirsKnown, I!Dirs, I!Looping, OneRuns, CleanedUp
  <2>3. CleanedUp' BY DEF InvokeTypes, DirsKnown, CleanedUp, OneRuns, I!Dirs
  <2>4. OneRuns' BY DEF InvokeTypes, CleanedUp, OneRuns
  <2>5. I!SessionIsCurrent' BY DEF InvokeTypes, CleanedUp, OneRuns, I!SessionIsCurrent
  <2> QED BY <2>1, <2>2, <2>3, <2>4, <2>5
<1>2. CASE I!Marks
  <2> USE <1>2 DEF I!Marks
  <2>1. InvokeTypes' BY DEF InvokeTypes
  <2>2. DirsKnown' BY DEF InvokeTypes, DirsKnown, I!Dirs, I!Looping, OneRuns, CleanedUp
  <2>3. CleanedUp' BY DEF InvokeTypes, DirsKnown, CleanedUp, OneRuns, I!Dirs
  <2>4. OneRuns' BY DEF InvokeTypes, CleanedUp, OneRuns
  <2>5. I!SessionIsCurrent' BY DEF InvokeTypes, CleanedUp, OneRuns, I!SessionIsCurrent
  <2> QED BY <2>1, <2>2, <2>3, <2>4, <2>5
<1>3. CASE I!SoftReload
  <2> USE <1>3 DEF I!SoftReload
  <2>1. InvokeTypes' BY DEF InvokeTypes
  <2>2. DirsKnown' BY DEF InvokeTypes, DirsKnown, I!Dirs, I!Looping, OneRuns, CleanedUp
  <2>3. CleanedUp' BY DEF InvokeTypes, DirsKnown, CleanedUp, OneRuns, I!Dirs
  <2>4. OneRuns' BY DEF InvokeTypes, CleanedUp, OneRuns
  <2>5. I!SessionIsCurrent' BY DEF InvokeTypes, CleanedUp, OneRuns, I!SessionIsCurrent
  <2> QED BY <2>1, <2>2, <2>3, <2>4, <2>5
<1>4. CASE I!ReloadFails
  <2> USE <1>4 DEF I!ReloadFails
  <2>1. InvokeTypes' BY DEF InvokeTypes
  <2>2. DirsKnown' BY DEF InvokeTypes, DirsKnown, I!Dirs, I!Looping, OneRuns, CleanedUp
  <2>3. CleanedUp' BY DEF InvokeTypes, DirsKnown, CleanedUp, OneRuns, I!Dirs
  <2>4. OneRuns' BY DEF InvokeTypes, CleanedUp, OneRuns
  <2>5. I!SessionIsCurrent' BY DEF InvokeTypes, CleanedUp, OneRuns, I!SessionIsCurrent
  <2> QED BY <2>1, <2>2, <2>3, <2>4, <2>5
<1> QED BY <1>1, <1>2, <1>3, <1>4

LEMMA InvokeRebuilds ==
  ASSUME InvokeInv, I!RemoveOld \/ I!RebuildFetches \/ I!RebuildBuilds \/ I!RebuildRuns \/ I!Rebuilt
  PROVE  InvokeInv'
<1> USE CommandsAssumption
    DEF I!InvokeAssumption, InvokeInv, Early, Replacing, I!Alive, I!Ended, I!StepsReload,
        I!Unbundled, I!OldRemoved, I!stepVars, I!containerVars, I!cleanVars, I!loopVars,
        I!reloadVars
<1>1. CASE I!RemoveOld
  <2> USE <1>1 DEF I!RemoveOld
  <2>1. InvokeTypes' BY DEF InvokeTypes
  <2>2. DirsKnown' BY DEF InvokeTypes, DirsKnown, I!Dirs, I!Looping, OneRuns, CleanedUp
  <2>3. CleanedUp' BY DEF InvokeTypes, DirsKnown, CleanedUp, OneRuns, I!Dirs
  <2>4. OneRuns' BY DEF InvokeTypes, CleanedUp, OneRuns
  <2>5. I!SessionIsCurrent' BY DEF InvokeTypes, CleanedUp, OneRuns, I!SessionIsCurrent
  <2> QED BY <2>1, <2>2, <2>3, <2>4, <2>5
<1>2. CASE I!RebuildFetches
  <2> USE <1>2 DEF I!RebuildFetches
  <2>1. InvokeTypes' BY DEF InvokeTypes
  <2>2. DirsKnown' BY DEF InvokeTypes, DirsKnown, I!Dirs, I!Looping, OneRuns, CleanedUp
  <2>3. CleanedUp' BY DEF InvokeTypes, DirsKnown, CleanedUp, OneRuns, I!Dirs
  <2>4. OneRuns' BY DEF InvokeTypes, CleanedUp, OneRuns
  <2>5. I!SessionIsCurrent' BY DEF InvokeTypes, CleanedUp, OneRuns, I!SessionIsCurrent
  <2> QED BY <2>1, <2>2, <2>3, <2>4, <2>5
<1>3. CASE I!RebuildBuilds
  <2> USE <1>3 DEF I!RebuildBuilds
  <2>1. InvokeTypes' BY DEF InvokeTypes
  <2>2. DirsKnown' BY DEF InvokeTypes, DirsKnown, I!Dirs, I!Looping, OneRuns, CleanedUp
  <2>3. CleanedUp' BY DEF InvokeTypes, DirsKnown, CleanedUp, OneRuns, I!Dirs
  <2>4. OneRuns' BY DEF InvokeTypes, CleanedUp, OneRuns
  <2>5. I!SessionIsCurrent' BY DEF InvokeTypes, CleanedUp, OneRuns, I!SessionIsCurrent
  <2> QED BY <2>1, <2>2, <2>3, <2>4, <2>5
<1>4. CASE I!RebuildRuns
  <2> USE <1>4 DEF I!RebuildRuns
  <2>1. InvokeTypes' BY DEF InvokeTypes
  <2>2. DirsKnown' BY DEF InvokeTypes, DirsKnown, I!Dirs, I!Looping, OneRuns, CleanedUp
  <2>3. CleanedUp' BY DEF InvokeTypes, DirsKnown, CleanedUp, OneRuns, I!Dirs
  <2>4. OneRuns' BY DEF InvokeTypes, CleanedUp, OneRuns
  <2>5. I!SessionIsCurrent' BY DEF InvokeTypes, CleanedUp, OneRuns, I!SessionIsCurrent
  <2> QED BY <2>1, <2>2, <2>3, <2>4, <2>5
<1>5. CASE I!Rebuilt
  <2> USE <1>5 DEF I!Rebuilt
  <2>1. InvokeTypes' BY DEF InvokeTypes
  <2>2. DirsKnown' BY DEF InvokeTypes, DirsKnown, I!Dirs, I!Looping, OneRuns, CleanedUp
  <2>3. CleanedUp' BY DEF InvokeTypes, DirsKnown, CleanedUp, OneRuns, I!Dirs
  <2>4. OneRuns' BY DEF InvokeTypes, CleanedUp, OneRuns
  <2>5. I!SessionIsCurrent' BY DEF InvokeTypes, CleanedUp, OneRuns, I!SessionIsCurrent
  <2> QED BY <2>1, <2>2, <2>3, <2>4, <2>5
<1> QED BY <1>1, <1>2, <1>3, <1>4, <1>5

LEMMA InvokeCleans ==
  ASSUME InvokeInv, I!Interrupt \/ I!Unwinds \/ I!RemoveContainer \/ I!RemoveDirs \/ I!Exit \/
         I!Killed
  PROVE  InvokeInv'
<1> USE CommandsAssumption
    DEF I!InvokeAssumption, InvokeInv, Early, Replacing, I!Goes, I!EnterCleanup, I!StepsClean,
        I!Alive, I!Ended, I!stepVars, I!containerVars, I!cleanVars, I!loopVars, I!reloadVars
<1>1. CASE I!Interrupt
  <2> USE <1>1 DEF I!Interrupt
  <2>1. InvokeTypes' BY DEF InvokeTypes
  <2>2. DirsKnown' BY DEF InvokeTypes, DirsKnown, I!Dirs, I!Looping, OneRuns, CleanedUp
  <2>3. CleanedUp' BY DEF InvokeTypes, DirsKnown, CleanedUp, OneRuns, I!Dirs
  <2>4. OneRuns' BY DEF InvokeTypes, CleanedUp, OneRuns
  <2>5. I!SessionIsCurrent' BY DEF InvokeTypes, CleanedUp, OneRuns, I!SessionIsCurrent
  <2> QED BY <2>1, <2>2, <2>3, <2>4, <2>5
<1>2. CASE I!Unwinds
  <2> USE <1>2 DEF I!Unwinds
  <2>1. InvokeTypes' BY DEF InvokeTypes
  <2>2. DirsKnown' BY DEF InvokeTypes, DirsKnown, I!Dirs, I!Looping, OneRuns, CleanedUp
  <2>3. CleanedUp' BY DEF InvokeTypes, DirsKnown, CleanedUp, OneRuns, I!Dirs
  <2>4. OneRuns' BY DEF InvokeTypes, CleanedUp, OneRuns
  <2>5. I!SessionIsCurrent' BY DEF InvokeTypes, CleanedUp, OneRuns, I!SessionIsCurrent
  <2> QED BY <2>1, <2>2, <2>3, <2>4, <2>5
<1>3. CASE I!RemoveContainer
  <2> USE <1>3 DEF I!RemoveContainer
  <2>1. InvokeTypes' BY DEF InvokeTypes
  <2>2. DirsKnown' BY DEF InvokeTypes, DirsKnown, I!Dirs, I!Looping, OneRuns, CleanedUp
  <2>3. CleanedUp' BY DEF InvokeTypes, DirsKnown, CleanedUp, OneRuns, I!Dirs
  <2>4. OneRuns' BY DEF InvokeTypes, CleanedUp, OneRuns
  <2>5. I!SessionIsCurrent' BY DEF InvokeTypes, CleanedUp, OneRuns, I!SessionIsCurrent
  <2> QED BY <2>1, <2>2, <2>3, <2>4, <2>5
<1>4. CASE I!RemoveDirs
  <2> USE <1>4 DEF I!RemoveDirs
  <2>1. InvokeTypes' BY DEF InvokeTypes
  <2>2. DirsKnown' BY DEF InvokeTypes, DirsKnown, I!Dirs, I!Looping, OneRuns, CleanedUp
  <2>3. CleanedUp' BY DEF InvokeTypes, DirsKnown, CleanedUp, OneRuns, I!Dirs
  <2>4. OneRuns' BY DEF InvokeTypes, CleanedUp, OneRuns
  <2>5. I!SessionIsCurrent' BY DEF InvokeTypes, CleanedUp, OneRuns, I!SessionIsCurrent
  <2> QED BY <2>1, <2>2, <2>3, <2>4, <2>5
<1>5. CASE I!Exit
  <2> USE <1>5 DEF I!Exit
  <2>1. InvokeTypes' BY DEF InvokeTypes
  <2>2. DirsKnown' BY DEF InvokeTypes, DirsKnown, I!Dirs, I!Looping, OneRuns, CleanedUp
  <2>3. CleanedUp' BY DEF InvokeTypes, DirsKnown, CleanedUp, OneRuns, I!Dirs
  <2>4. OneRuns' BY DEF InvokeTypes, CleanedUp, OneRuns
  <2>5. I!SessionIsCurrent' BY DEF InvokeTypes, CleanedUp, OneRuns, I!SessionIsCurrent
  <2> QED BY <2>1, <2>2, <2>3, <2>4, <2>5
<1>6. CASE I!Killed
  <2> USE <1>6 DEF I!Killed
  <2>1. InvokeTypes' BY DEF InvokeTypes
  <2>2. DirsKnown' BY DEF InvokeTypes, DirsKnown, I!Dirs, I!Looping, OneRuns, CleanedUp
  <2>3. CleanedUp' BY DEF InvokeTypes, DirsKnown, CleanedUp, OneRuns, I!Dirs
  <2>4. OneRuns' BY DEF InvokeTypes, CleanedUp, OneRuns
  <2>5. I!SessionIsCurrent' BY DEF InvokeTypes, CleanedUp, OneRuns, I!SessionIsCurrent
  <2> QED BY <2>1, <2>2, <2>3, <2>4, <2>5
<1> QED BY <1>1, <1>2, <1>3, <1>4, <1>5, <1>6

LEMMA InvokeStep == ASSUME InvokeInv, I!Next PROVE InvokeInv'
<1> QED BY InvokePrepares, InvokeBuilds, InvokeRuns, InvokeLoops, InvokeReloads, InvokeRebuilds,
          InvokeCleans
      DEF I!Next, I!Step, I!ReloadStep

LEMMA InvokeStays == ASSUME InvokeInv, UNCHANGED invokeVars PROVE InvokeInv'
<1> QED BY DEF invokeVars, InvokeInv, InvokeTypes, DirsKnown, CleanedUp, OneRuns,
      I!SessionIsCurrent, I!Looping

LEMMA InvokeReleases ==
  ASSUME InvokeInv, I!Next
  PROVE  /\ cleaning = "idle" /\ cleaning' # "idle" => running \subseteq {doomed'} \/ reload = "answer"
         /\ pc' = "exited" => doomed \notin running
<1>1. CASE I!Interrupt
  BY <1>1 DEF InvokeInv, CleanedUp, OneRuns, Early, I!Interrupt, I!Alive, I!Ended, I!EnterCleanup,
    I!stepVars
<1>2. CASE I!Unwinds
  BY <1>2 DEF InvokeInv, CleanedUp, OneRuns, Early, I!Unwinds, I!Goes, I!EnterCleanup
<1>3. CASE I!Exit
  BY <1>3 DEF InvokeInv, OneRuns, I!Exit, I!cleanVars
<1>4. CASE (cleaning' = cleaning /\ pc' # "exited") \/ (cleaning # "idle" /\ pc' # "exited")
  BY <1>4
<1>5. \/ I!Interrupt \/ I!Unwinds \/ I!Exit
      \/ (cleaning' = cleaning /\ pc' # "exited") \/ (cleaning # "idle" /\ pc' # "exited")
  <2> USE DEF I!Goes, I!Quiet, I!StepsLoop, I!StepsReload, I!StepsClean, I!ThrowsFromLoop, I!cleanVars,
        I!stepVars, I!Alive, I!Ended, I!Looping
  <2>1. CASE I!Step
    <3>1. CASE I!Boot \/ I!WriteCredentials \/ I!Synthesize \/ I!MaterializeCode \/ I!PullRuntime \/
               I!MergeLayers
               \/ I!BuildContainerImage \/ I!FetchBundle \/ I!BuildAgentImage \/ I!ResolveEnv
      BY <3>1 DEF I!Boot, I!WriteCredentials, I!Synthesize, I!MaterializeCode, I!PullRuntime, I!MergeLayers,
         I!BuildContainerImage, I!FetchBundle, I!BuildAgentImage, I!ResolveEnv
    <3>2. CASE I!Throws \/ I!DockerRuns \/ I!Started \/ I!Invokes
      BY <3>2 DEF I!Throws, I!DockerRuns, I!Started, I!Invokes
    <3>3. CASE I!Tops \/ I!Ping \/ I!SessionEnds \/ I!Settle \/ I!Drained \/ I!Reopens \/ I!Leaves
      BY <3>3 DEF I!Tops, I!Ping, I!SessionEnds, I!Settle, I!Drained, I!Reopens, I!Leaves
    <3>4. CASE I!RemoveContainer \/ I!RemoveDirs
      BY <3>4 DEF I!RemoveContainer, I!RemoveDirs
    <3> QED BY <2>1, <3>1, <3>2, <3>3, <3>4 DEF I!Step
  <2>2. CASE I!ReloadStep \/ I!Fires \/ I!Killed
    BY <2>2 DEF I!ReloadStep, I!Marks, I!SoftReload, I!RemoveOld, I!RebuildFetches, I!RebuildBuilds,
       I!RebuildRuns, I!Rebuilt, I!ReloadFails, I!Fires, I!Killed
  <2> QED BY <2>1, <2>2 DEF I!Next
<1> QED BY <1>1, <1>2, <1>3, <1>4, <1>5

LEMMA InvokeHolds == InvokeInv => I!DirsReleased /\ I!SessionIsCurrent
<1> QED BY DEF InvokeInv, InvokeTypes, DirsKnown, CleanedUp, OneRuns, Replacing, I!DirsReleased,
          I!Dirs

-----------------------------------------------------------------------------
(* run-task: what its containers wait for, and what the cleanup knows. *)

TaskTypes ==
  /\ dependsOn \in Dependencies /\ taskMode \in {"plain", "keep", "detach"}
  /\ box \in [T!Names -> {"none", "up", "healthy", "unhealthy", "ok", "failed", "gone"}]
  /\ next \in 1 .. Len(Template) + 1 /\ waits \in Nat \ {0}
  /\ (taskPc \in {"await", "run", "running"} => next <= Len(Template))
  /\ started \in Seq(T!Names) /\ visited \in 0 .. Len(started)
  /\ \A i \in DOMAIN started : box[started[i]] # "none"
  /\ \A c \in T!Names : box[c] = "healthy" => c \in healthy
  /\ signals \in Nat /\ made \subseteq {"profile", "creds", "network", "sidecar", "volume"}

(* What an edge asks for is there, and stays so.                             *)
Reached(e) ==
  /\ e.condition \in {"COMPLETE", "SUCCESS"} => ~T!Up(e.on)
  /\ e.condition = "SUCCESS" => box[e.on] \in {"ok", "gone"}
  /\ e.condition = "HEALTHY" => e.on \in healthy

(* The containers were started up to the one that is next, whose first edges *)
(* are reached.                                                              *)
InTurn ==
  /\ taskPc \in {"prepare", "creds", "write", "images"} => startOrder = <<>> /\ next = 1 /\ waits = 1
  /\ startOrder = <<>> => \A c \in T!Names : box[c] = "none"
  /\ "profile" \in made =>
       startOrder = <<>> /\ taskPc \in {"write", "finally", "cleaning", "exited", "forced"}
  /\ startOrder # <<>> => startOrder \in T!TopoSort /\ ~T!Cyclic
  /\ taskPc \in {"network", "sidecar", "networkMade", "volume", "volumeMade"} =>
       startOrder # <<>> /\ next = 1 /\ waits = 1 /\ \A c \in T!Names : box[c] = "none"
  /\ taskPc \in {"await", "run", "running"} =>
       /\ startOrder # <<>>
       /\ \A i \in DOMAIN Template :
            /\ i < next \/ (i = next /\ taskPc = "running") => box[startOrder[i]] # "none"
            /\ i > next \/ (i = next /\ taskPc # "running") => box[startOrder[i]] = "none"
  /\ taskPc \in {"await", "run"} =>
       \A i \in DOMAIN dependsOn[T!Starting] :
            i < waits \/ taskPc = "run" => Reached(dependsOn[T!Starting][i])

(* Until the cleanup has removed them, the containers are in its list, but   *)
(* for one that docker is starting.                                          *)
InList ==
  /\ taskCleaning = "idle" => visited = 0
  /\ \/ taskCleaning = "idle" /\ taskPc # "forced"
     \/ taskCleaning = "containers" /\ taskMode # "keep" /\ taskPc # "forced"
     => \A c \in T!Names : T!Exists(c) =>
          \/ \E i \in visited + 1 .. Len(started) : started[i] = c
          \/ taskPc = "running" /\ c = T!Starting

(* What exists is known to the cleanup, but for what docker is making.       *)
MadeKnown ==
  taskPc \notin {"forced", "exited"} =>
    /\ "creds" \in made => "creds" \in taskKnown
    /\ "network" \in made => "network" \in taskKnown \/ taskPc \in {"sidecar", "networkMade"}
    /\ "sidecar" \in made => "network" \in taskKnown \/ taskPc = "networkMade"
    /\ "volume" \in made => "volume" \in taskKnown \/ taskPc = "volumeMade"

(* A cleanup that no signal began works on what does not change.             *)
Swept ==
  signals = 0 =>
    /\ taskCleaning # "idle" => taskPc \in {"cleaning", "exited"}
    /\ taskPc = "exited" /\ taskMode # "detach" => taskCleaning = "done"
    /\ taskMode = "plain" /\ taskCleaning \notin {"idle", "containers"} =>
         \A c \in T!Names : ~T!Exists(c)
    /\ taskCleaning \in {"network", "volume", "creds", "done"} => "sidecar" \notin made
    /\ taskCleaning \in {"volume", "creds", "done"} /\ "network" \in made =>
         \E c \in T!Names : T!Exists(c)
    /\ taskMode = "plain" /\ taskCleaning \in {"creds", "done"} => "volume" \notin made
    /\ taskCleaning = "done" => "creds" \notin made

TaskInv == TaskTypes /\ InTurn /\ T!StartsInOrder /\ InList /\ MadeKnown /\ Swept

(* What the graph says does not change while the task runs.                  *)
LEMMA SameGraph ==
  ASSUME dependsOn' = dependsOn
  PROVE  T!Cyclic' = T!Cyclic /\ T!TopoSort' = T!TopoSort
<1>1. T!Depths' = T!Depths
  BY DEF T!Depths, T!On
<1>2. T!Cyclic' = T!Cyclic
  BY <1>1 DEF T!Cyclic
<1>3. T!TopoSort' = T!TopoSort
  BY <1>1 DEF T!TopoSort, T!Before, T!Position
<1> QED BY <1>2, <1>3

(* The start order lists each container once, after those it depends on.     *)
LEMMA InOrder ==
  ASSUME dependsOn \in Dependencies, ~T!Cyclic, NEW order \in T!TopoSort
  PROVE  /\ order \in [DOMAIN Template -> T!Names]
         /\ \A c \in T!Names : \E i \in DOMAIN Template : order[i] = c
         /\ \A i, j \in DOMAIN Template : order[i] = order[j] => i = j
         /\ \A i \in DOMAIN Template : \A k \in DOMAIN dependsOn[order[i]] :
              \E j \in DOMAIN Template : j < i /\ order[j] = dependsOn[order[i]][k].on
<1> DEFINE depth == CHOOSE d \in T!Depths : TRUE
<1>1. Template \in Seq(T!Names) /\ dependsOn \in [T!Names -> Seq(T!DependsOn)]
  BY CommandsAssumption DEF T!RunTaskAssumption
<1>2. DOMAIN Template = 1 .. Len(Template) /\ Len(Template) \in Nat
  BY <1>1
<1>3. depth \in T!Depths
  BY DEF T!Cyclic
<1>4. /\ order \in [DOMAIN Template -> T!Names]
      /\ \A c \in T!Names : \E i \in DOMAIN Template : order[i] = c
      /\ \A i, j \in DOMAIN Template : i < j => T!Before(order[i], order[j], depth)
  BY DEF T!TopoSort
<1>5. \A c \in T!Names : T!Position(c) \in DOMAIN Template
  BY DEF T!Names, T!Position
<1>6. /\ \A c \in T!Names : depth[c] \in Nat
      /\ \A c \in T!Names : \A b \in T!On(c) : depth[b] < depth[c]
  BY <1>2, <1>3 DEF T!Depths
<1> HIDE DEF depth
<1>7. ASSUME NEW i \in DOMAIN Template, NEW j \in DOMAIN Template, i < j
      PROVE  order[i] # order[j] /\ ~(depth[order[j]] < depth[order[i]])
  <2>1. order[i] \in T!Names /\ order[j] \in T!Names
    BY <1>4
  <2>2. T!Position(order[i]) \in Nat /\ T!Position(order[j]) \in Nat
    BY <1>2, <1>5, <2>1
  <2>3. \/ depth[order[i]] < depth[order[j]]
        \/ depth[order[i]] = depth[order[j]] /\ T!Position(order[i]) < T!Position(order[j])
    BY <1>4, <1>7 DEF T!Before
  <2> QED BY <1>6, <2>1, <2>2, <2>3
<1>8. ASSUME NEW i \in DOMAIN Template, NEW j \in DOMAIN Template, order[i] = order[j]
      PROVE  i = j
  BY <1>2, <1>7, <1>8
<1>9. ASSUME NEW i \in DOMAIN Template, NEW k \in DOMAIN dependsOn[order[i]]
      PROVE  \E j \in DOMAIN Template : j < i /\ order[j] = dependsOn[order[i]][k].on
  <2>1. order[i] \in T!Names /\ dependsOn[order[i]] \in Seq(T!DependsOn)
    BY <1>1, <1>4
  <2>2. dependsOn[order[i]][k] \in T!DependsOn
    BY <2>1
  <2>3. PICK b \in T!Names : b = dependsOn[order[i]][k].on
    BY <2>2 DEF T!DependsOn
  <2>4. b \in T!On(order[i])
    BY <2>3 DEF T!On
  <2>5. PICK j \in DOMAIN Template : order[j] = b
    BY <1>4
  <2>6. depth[b] < depth[order[i]] /\ depth[b] \in Nat /\ depth[order[i]] \in Nat
    BY <1>6, <2>1, <2>4
  <2>7. j # i /\ ~(i < j)
    BY <1>7, <2>5, <2>6
  <2>8. j < i
    BY <1>2, <2>7
  <2> QED BY <2>3, <2>5, <2>8
<1> QED BY <1>4, <1>8, <1>9

LEMMA TaskContainers == Template \in Seq(T!Names) /\ Len(Template) \in Nat \ {0}
  BY CommandsAssumption DEF T!RunTaskAssumption

(* The start order of the task, what is in its lists, and its edges. *)
LEMMA StartedInOrder ==
  ASSUME dependsOn \in Dependencies, ~T!Cyclic, startOrder \in T!TopoSort
  PROVE  /\ DOMAIN Template = 1 .. Len(Template)
         /\ startOrder \in [1 .. Len(Template) -> T!Names]
         /\ \A c \in T!Names : \E i \in 1 .. Len(Template) : startOrder[i] = c
         /\ \A i, j \in 1 .. Len(Template) : startOrder[i] = startOrder[j] => i = j
         /\ \A i \in 1 .. Len(Template) : \A k \in DOMAIN dependsOn[startOrder[i]] :
              \E j \in 1 .. Len(Template) : j < i /\ startOrder[j] = dependsOn[startOrder[i]][k].on
<1>1. DOMAIN Template = 1 .. Len(Template)
  BY TaskContainers
<1> QED BY <1>1, InOrder

LEMMA EdgesOf ==
  ASSUME dependsOn \in Dependencies
  PROVE  \A c \in T!Names :
           /\ DOMAIN dependsOn[c] = 1 .. Len(dependsOn[c]) /\ Len(dependsOn[c]) \in Nat
           /\ \A k \in DOMAIN dependsOn[c] : dependsOn[c][k].on \in T!Names
<1>1. dependsOn \in [T!Names -> Seq(T!DependsOn)]
  BY CommandsAssumption DEF T!RunTaskAssumption
<1> TAKE c \in T!Names
<1>2. dependsOn[c] \in Seq(T!DependsOn)
  BY <1>1
<1>3. /\ DOMAIN dependsOn[c] = 1 .. Len(dependsOn[c]) /\ Len(dependsOn[c]) \in Nat
      /\ \A k \in DOMAIN dependsOn[c] : dependsOn[c][k] \in T!DependsOn
  BY <1>2
<1>4. \A e \in T!DependsOn : e.on \in T!Names
  BY DEF T!DependsOn
<1> QED BY <1>3, <1>4

LEMMA TaskStarts == Init => TaskInv
<1> USE CommandsAssumption DEF T!RunTaskAssumption, T!Init
<1> SUFFICES ASSUME T!Init PROVE TaskInv
  BY DEF Init
<1>1. TaskTypes BY DEF TaskTypes
<1>2. InTurn BY DEF InTurn
<1>3. T!StartsInOrder BY DEF T!StartsInOrder
<1>4. InList BY DEF InList, T!Exists
<1>5. MadeKnown /\ Swept BY DEF MadeKnown, Swept
<1> QED BY <1>1, <1>2, <1>3, <1>4, <1>5 DEF TaskInv

LEMMA TaskPrepares ==
  ASSUME TaskInv, T!Prepare \/ T!MakeProfileDir \/ T!WriteCredentials \/ T!Throws \/ T!Unwinds \/ T!Detaches
  PROVE  TaskInv'
<1> USE TaskContainers, SameGraph
    DEF TaskInv, T!EnterCleanup, T!Goes, T!KeepsRun, T!taskVars, T!runVars, T!dockerVars,
        T!cleanVars
<1>1. CASE T!Prepare
  <2> USE <1>1 DEF T!Prepare
  <2>1. TaskTypes' BY DEF TaskTypes
  <2>2. InTurn' BY DEF TaskTypes, InTurn, Reached, T!Starting, T!Up
  <2>3. T!StartsInOrder' BY DEF TaskTypes, InTurn, T!StartsInOrder, T!Up
  <2>4. InList' BY DEF TaskTypes, InTurn, InList, T!Exists, T!Starting, T!Up
  <2>5. MadeKnown' BY DEF TaskTypes, MadeKnown
  <2>6. Swept' BY DEF TaskTypes, InTurn, InList, MadeKnown, Swept, T!Exists, T!Up
  <2> QED BY <2>1, <2>2, <2>3, <2>4, <2>5, <2>6
<1>2. CASE T!WriteCredentials
  <2> USE <1>2 DEF T!WriteCredentials
  <2>1. TaskTypes' BY DEF TaskTypes
  <2>2. InTurn' BY DEF TaskTypes, InTurn, Reached, T!Starting, T!Up
  <2>3. T!StartsInOrder' BY DEF TaskTypes, InTurn, T!StartsInOrder, T!Up
  <2>4. InList' BY DEF TaskTypes, InTurn, InList, T!Exists, T!Starting, T!Up
  <2>5. MadeKnown' BY DEF TaskTypes, MadeKnown
  <2>6. Swept' BY DEF TaskTypes, InTurn, InList, MadeKnown, Swept, T!Exists, T!Up
  <2> QED BY <2>1, <2>2, <2>3, <2>4, <2>5, <2>6
<1>3. CASE T!Throws
  <2> USE <1>3 DEF T!Throws
  <2>1. TaskTypes' BY DEF TaskTypes
  <2>2. InTurn' BY DEF TaskTypes, InTurn, Reached, T!Starting, T!Up
  <2>3. T!StartsInOrder' BY DEF TaskTypes, InTurn, T!StartsInOrder, T!Up
  <2>4. InList' BY DEF TaskTypes, InTurn, InList, T!Exists, T!Starting, T!Up
  <2>5. MadeKnown' BY DEF TaskTypes, MadeKnown
  <2>6. Swept' BY DEF TaskTypes, InTurn, InList, MadeKnown, Swept, T!Exists, T!Up
  <2> QED BY <2>1, <2>2, <2>3, <2>4, <2>5, <2>6
<1>4. CASE T!Unwinds
  <2> USE <1>4 DEF T!Unwinds
  <2>1. TaskTypes' BY DEF TaskTypes
  <2>2. InTurn' BY DEF TaskTypes, InTurn, Reached, T!Starting, T!Up
  <2>3. T!StartsInOrder' BY DEF TaskTypes, InTurn, T!StartsInOrder, T!Up
  <2>4. InList' BY DEF TaskTypes, InTurn, InList, T!Exists, T!Starting, T!Up
  <2>5. MadeKnown' BY DEF TaskTypes, MadeKnown
  <2>6. Swept' BY DEF TaskTypes, InTurn, InList, MadeKnown, Swept, T!Exists, T!Up
  <2> QED BY <2>1, <2>2, <2>3, <2>4, <2>5, <2>6
<1>5. CASE T!Detaches
  <2> USE <1>5 DEF T!Detaches
  <2>1. TaskTypes' BY DEF TaskTypes
  <2>2. InTurn' BY DEF TaskTypes, InTurn, Reached, T!Starting, T!Up
  <2>3. T!StartsInOrder' BY DEF TaskTypes, InTurn, T!StartsInOrder, T!Up
  <2>4. InList' BY DEF TaskTypes, InTurn, InList, T!Exists, T!Starting, T!Up
  <2>5. MadeKnown' BY DEF TaskTypes, MadeKnown
  <2>6. Swept' BY DEF TaskTypes, InTurn, InList, MadeKnown, Swept, T!Exists, T!Up
  <2> QED BY <2>1, <2>2, <2>3, <2>4, <2>5, <2>6
<1>6. CASE T!MakeProfileDir
  <2> USE <1>6 DEF T!MakeProfileDir
  <2>1. TaskTypes' BY DEF TaskTypes
  <2>2. InTurn' BY DEF TaskTypes, InTurn, Reached, T!Starting, T!Up
  <2>3. T!StartsInOrder' BY DEF TaskTypes, InTurn, T!StartsInOrder, T!Up
  <2>4. InList' BY DEF TaskTypes, InTurn, InList, T!Exists, T!Starting, T!Up
  <2>5. MadeKnown' BY DEF TaskTypes, MadeKnown
  <2>6. Swept' BY DEF TaskTypes, InTurn, InList, MadeKnown, Swept, T!Exists, T!Up
  <2> QED BY <2>1, <2>2, <2>3, <2>4, <2>5, <2>6
<1> QED BY <1>1, <1>2, <1>3, <1>4, <1>5, <1>6

LEMMA TaskNetworks ==
  ASSUME TaskInv, T!CreateNetwork \/ T!StartSidecar \/ T!SidecarFails \/ T!NetworkAnswered \/
         T!CreateVolume \/ T!VolumeAnswered
  PROVE  TaskInv'
<1> USE TaskContainers, SameGraph
    DEF TaskInv, T!Docker, T!Goes, T!KeepsRun, T!taskVars, T!runVars, T!dockerVars, T!cleanVars
<1>1. CASE T!CreateNetwork
  <2> USE <1>1 DEF T!CreateNetwork
  <2>1. TaskTypes' BY DEF TaskTypes
  <2>2. InTurn' BY DEF TaskTypes, InTurn, Reached, T!Starting, T!Up
  <2>3. T!StartsInOrder' BY DEF TaskTypes, InTurn, T!StartsInOrder, T!Up
  <2>4. InList' BY DEF TaskTypes, InTurn, InList, T!Exists, T!Starting, T!Up
  <2>5. MadeKnown' BY DEF TaskTypes, MadeKnown
  <2>6. Swept' BY DEF TaskTypes, InTurn, InList, MadeKnown, Swept, T!Exists, T!Up
  <2> QED BY <2>1, <2>2, <2>3, <2>4, <2>5, <2>6
<1>2. CASE T!StartSidecar
  <2> USE <1>2 DEF T!StartSidecar
  <2>1. TaskTypes' BY DEF TaskTypes
  <2>2. InTurn' BY DEF TaskTypes, InTurn, Reached, T!Starting, T!Up
  <2>3. T!StartsInOrder' BY DEF TaskTypes, InTurn, T!StartsInOrder, T!Up
  <2>4. InList' BY DEF TaskTypes, InTurn, InList, T!Exists, T!Starting, T!Up
  <2>5. MadeKnown' BY DEF TaskTypes, MadeKnown
  <2>6. Swept' BY DEF TaskTypes, InTurn, InList, MadeKnown, Swept, T!Exists, T!Up
  <2> QED BY <2>1, <2>2, <2>3, <2>4, <2>5, <2>6
<1>3. CASE T!SidecarFails
  <2> USE <1>3 DEF T!SidecarFails
  <2>1. TaskTypes' BY DEF TaskTypes
  <2>2. InTurn' BY DEF TaskTypes, InTurn, Reached, T!Starting, T!Up
  <2>3. T!StartsInOrder' BY DEF TaskTypes, InTurn, T!StartsInOrder, T!Up
  <2>4. InList' BY DEF TaskTypes, InTurn, InList, T!Exists, T!Starting, T!Up
  <2>5. MadeKnown' BY DEF TaskTypes, MadeKnown
  <2>6. Swept' BY DEF TaskTypes, InTurn, InList, MadeKnown, Swept, T!Exists, T!Up
  <2> QED BY <2>1, <2>2, <2>3, <2>4, <2>5, <2>6
<1>4. CASE T!NetworkAnswered
  <2> USE <1>4 DEF T!NetworkAnswered
  <2>1. TaskTypes' BY DEF TaskTypes
  <2>2. InTurn' BY DEF TaskTypes, InTurn, Reached, T!Starting, T!Up
  <2>3. T!StartsInOrder' BY DEF TaskTypes, InTurn, T!StartsInOrder, T!Up
  <2>4. InList' BY DEF TaskTypes, InTurn, InList, T!Exists, T!Starting, T!Up
  <2>5. MadeKnown' BY DEF TaskTypes, MadeKnown
  <2>6. Swept' BY DEF TaskTypes, InTurn, InList, MadeKnown, Swept, T!Exists, T!Up
  <2> QED BY <2>1, <2>2, <2>3, <2>4, <2>5, <2>6
<1>5. CASE T!CreateVolume
  <2> USE <1>5 DEF T!CreateVolume
  <2>1. TaskTypes' BY DEF TaskTypes
  <2>2. InTurn' BY DEF TaskTypes, InTurn, Reached, T!Starting, T!Up
  <2>3. T!StartsInOrder' BY DEF TaskTypes, InTurn, T!StartsInOrder, T!Up
  <2>4. InList' BY DEF TaskTypes, InTurn, InList, T!Exists, T!Starting, T!Up
  <2>5. MadeKnown' BY DEF TaskTypes, MadeKnown
  <2>6. Swept' BY DEF TaskTypes, InTurn, InList, MadeKnown, Swept, T!Exists, T!Up
  <2> QED BY <2>1, <2>2, <2>3, <2>4, <2>5, <2>6
<1>6. CASE T!VolumeAnswered
  <2> USE <1>6 DEF T!VolumeAnswered
  <2>1. TaskTypes' BY DEF TaskTypes, InTurn
  <2>2. InTurn'
    <3>1. startOrder # <<>> /\ startOrder \in T!TopoSort /\ ~T!Cyclic /\ next = 1 /\ waits = 1
      BY DEF InTurn
    <3>2. /\ DOMAIN Template = 1 .. Len(Template)
          /\ startOrder \in [1 .. Len(Template) -> T!Names]
          /\ \A i, j \in 1 .. Len(Template) : startOrder[i] = startOrder[j] => i = j
          /\ \A i \in 1 .. Len(Template) : \A k \in DOMAIN dependsOn[startOrder[i]] :
               \E j \in 1 .. Len(Template) : j < i /\ startOrder[j] = dependsOn[startOrder[i]][k].on
      BY <3>1, StartedInOrder DEF TaskTypes
    <3>3. \A i \in 1 .. Len(Template) :
            /\ DOMAIN dependsOn[startOrder[i]] = 1 .. Len(dependsOn[startOrder[i]])
            /\ \A k \in DOMAIN dependsOn[startOrder[i]] : dependsOn[startOrder[i]][k].on \in T!Names
      BY <3>2, EdgesOf DEF TaskTypes
    <3> QED BY <3>1, <3>2, <3>3 DEF TaskTypes, InTurn, T!Starting
  <2>3. T!StartsInOrder' BY DEF TaskTypes, InTurn, T!StartsInOrder, T!Up
  <2>4. InList' BY DEF TaskTypes, InTurn, InList, T!Exists, T!Starting, T!Up
  <2>5. MadeKnown' BY DEF TaskTypes, MadeKnown
  <2>6. Swept' BY DEF TaskTypes, InTurn, InList, MadeKnown, Swept, T!Exists, T!Up
  <2> QED BY <2>1, <2>2, <2>3, <2>4, <2>5, <2>6
<1> QED BY <1>1, <1>2, <1>3, <1>4, <1>5, <1>6

LEMMA TaskAwaits ==
  ASSUME TaskInv, T!DependencyMet \/ T!DependencyRefused \/ T!AllMet \/ T!EssentialExits
  PROVE  TaskInv'
<1> USE TaskContainers, SameGraph
    DEF TaskInv, T!Awaiting, T!Edge, T!Met, T!Refused, T!Exited, T!Goes, T!KeepsRun, T!taskVars,
        T!runVars, T!dockerVars, T!cleanVars
<1>1. CASE T!DependencyMet
  <2> USE <1>1 DEF T!DependencyMet
  <2>1. TaskTypes' BY DEF TaskTypes
  <2>2. InTurn'
    <3>1. startOrder # <<>> /\ startOrder \in T!TopoSort /\ ~T!Cyclic
      BY DEF InTurn
    <3>2. /\ DOMAIN Template = 1 .. Len(Template)
          /\ startOrder \in [1 .. Len(Template) -> T!Names]
          /\ \A i, j \in 1 .. Len(Template) : startOrder[i] = startOrder[j] => i = j
          /\ \A i \in 1 .. Len(Template) : \A k \in DOMAIN dependsOn[startOrder[i]] :
               \E j \in 1 .. Len(Template) : j < i /\ startOrder[j] = dependsOn[startOrder[i]][k].on
      BY <3>1, StartedInOrder DEF TaskTypes
    <3>3. \A i \in 1 .. Len(Template) :
            /\ DOMAIN dependsOn[startOrder[i]] = 1 .. Len(dependsOn[startOrder[i]])
            /\ \A k \in DOMAIN dependsOn[startOrder[i]] : dependsOn[startOrder[i]][k].on \in T!Names
      BY <3>2, EdgesOf DEF TaskTypes
    <3>4. Reached(T!Edge) /\ waits \in Nat
      BY <3>2, <3>3 DEF TaskTypes, Reached, T!Edge, T!Starting, T!Up
    <3>5. \A i \in DOMAIN dependsOn[T!Starting] : i < waits + 1 => Reached(dependsOn[T!Starting][i])
      <4>1. next \in 1 .. Len(Template) /\ taskPc = "await"
        BY DEF TaskTypes, T!Awaiting
      <4>2. \A i \in DOMAIN dependsOn[T!Starting] : i \in Nat
        BY <3>3, <4>1 DEF T!Starting
      <4>3. \A i \in DOMAIN dependsOn[T!Starting] : i < waits => Reached(dependsOn[T!Starting][i])
        BY <4>1 DEF InTurn
      <4> QED BY <3>4, <4>2, <4>3 DEF T!Edge
    <3>6. /\ \A e : Reached(e)' <=> Reached(e)
          /\ T!Starting' = T!Starting
      BY DEF T!Starting, Reached, T!Up
    <3>7. waits' = waits + 1 /\ taskPc' = "await" /\ dependsOn' = dependsOn
          /\ next' = next /\ box' = box /\ startOrder' = startOrder
      BY DEF T!Awaiting
    <3> QED BY <3>1, <3>5, <3>6, <3>7 DEF InTurn
  <2>3. T!StartsInOrder' BY DEF TaskTypes, InTurn, T!StartsInOrder, T!Up
  <2>4. InList' BY DEF TaskTypes, InTurn, InList, T!Exists, T!Starting, T!Up
  <2>5. MadeKnown' BY DEF TaskTypes, MadeKnown
  <2>6. Swept' BY DEF TaskTypes, InTurn, InList, MadeKnown, Swept, T!Exists, T!Up
  <2> QED BY <2>1, <2>2, <2>3, <2>4, <2>5, <2>6
<1>2. CASE T!DependencyRefused
  <2> USE <1>2 DEF T!DependencyRefused
  <2>1. TaskTypes' BY DEF TaskTypes
  <2>2. InTurn' BY DEF TaskTypes, InTurn, Reached, T!Starting, T!Up
  <2>3. T!StartsInOrder' BY DEF TaskTypes, InTurn, T!StartsInOrder, T!Up
  <2>4. InList' BY DEF TaskTypes, InTurn, InList, T!Exists, T!Starting, T!Up
  <2>5. MadeKnown' BY DEF TaskTypes, MadeKnown
  <2>6. Swept' BY DEF TaskTypes, InTurn, InList, MadeKnown, Swept, T!Exists, T!Up
  <2> QED BY <2>1, <2>2, <2>3, <2>4, <2>5, <2>6
<1>3. CASE T!AllMet
  <2> USE <1>3 DEF T!AllMet
  <2>1. TaskTypes' BY DEF TaskTypes
  <2>2. InTurn' BY DEF TaskTypes, InTurn, Reached, T!Starting, T!Up
  <2>3. T!StartsInOrder' BY DEF TaskTypes, InTurn, T!StartsInOrder, T!Up
  <2>4. InList' BY DEF TaskTypes, InTurn, InList, T!Exists, T!Starting, T!Up
  <2>5. MadeKnown' BY DEF TaskTypes, MadeKnown
  <2>6. Swept' BY DEF TaskTypes, InTurn, InList, MadeKnown, Swept, T!Exists, T!Up
  <2> QED BY <2>1, <2>2, <2>3, <2>4, <2>5, <2>6
<1>4. CASE T!EssentialExits
  <2> USE <1>4 DEF T!EssentialExits
  <2>1. TaskTypes' BY DEF TaskTypes
  <2>2. InTurn' BY DEF TaskTypes, InTurn, Reached, T!Starting, T!Up
  <2>3. T!StartsInOrder' BY DEF TaskTypes, InTurn, T!StartsInOrder, T!Up
  <2>4. InList' BY DEF TaskTypes, InTurn, InList, T!Exists, T!Starting, T!Up
  <2>5. MadeKnown' BY DEF TaskTypes, MadeKnown
  <2>6. Swept' BY DEF TaskTypes, InTurn, InList, MadeKnown, Swept, T!Exists, T!Up
  <2> QED BY <2>1, <2>2, <2>3, <2>4, <2>5, <2>6
<1> QED BY <1>1, <1>2, <1>3, <1>4

LEMMA TaskCleans ==
  ASSUME TaskInv, T!StopContainer \/ T!RemoveContainer \/ T!ContainersDone
  PROVE  TaskInv'
<1> USE TaskContainers, SameGraph
    DEF TaskInv, T!Alive, T!KeepsCommand, T!Goes, T!KeepsRun, T!taskVars, T!runVars, T!dockerVars,
        T!cleanVars
<1>1. CASE T!StopContainer
  <2> USE <1>1 DEF T!StopContainer
  <2>1. TaskTypes' BY DEF TaskTypes
  <2>2. InTurn' BY DEF TaskTypes, InTurn, Reached, T!Starting, T!Up
  <2>3. T!StartsInOrder' BY DEF TaskTypes, InTurn, T!StartsInOrder, T!Up
  <2>4. InList' BY DEF TaskTypes, InTurn, InList, T!Exists, T!Starting, T!Up
  <2>5. MadeKnown' BY DEF TaskTypes, MadeKnown
  <2>6. Swept' BY DEF TaskTypes, InTurn, InList, MadeKnown, Swept, T!Exists, T!Up
  <2> QED BY <2>1, <2>2, <2>3, <2>4, <2>5, <2>6
<1>2. CASE T!RemoveContainer
  <2> USE <1>2 DEF T!RemoveContainer
  <2>1. TaskTypes' BY DEF TaskTypes
  <2>2. InTurn' BY DEF TaskTypes, InTurn, Reached, T!Starting, T!Up
  <2>3. T!StartsInOrder' BY DEF TaskTypes, InTurn, T!StartsInOrder, T!Up
  <2>4. InList' BY DEF TaskTypes, InTurn, InList, T!Exists, T!Starting, T!Up
  <2>5. MadeKnown' BY DEF TaskTypes, MadeKnown
  <2>6. Swept' BY DEF TaskTypes, InTurn, InList, MadeKnown, Swept, T!Exists, T!Up
  <2> QED BY <2>1, <2>2, <2>3, <2>4, <2>5, <2>6
<1>3. CASE T!ContainersDone
  <2> USE <1>3 DEF T!ContainersDone
  <2>1. TaskTypes' BY DEF TaskTypes
  <2>2. InTurn' BY DEF TaskTypes, InTurn, Reached, T!Starting, T!Up
  <2>3. T!StartsInOrder' BY DEF TaskTypes, InTurn, T!StartsInOrder, T!Up
  <2>4. InList' BY DEF TaskTypes, InTurn, InList, T!Exists, T!Starting, T!Up
  <2>5. MadeKnown' BY DEF TaskTypes, MadeKnown
  <2>6. Swept' BY DEF TaskTypes, InTurn, InList, MadeKnown, Swept, T!Exists, T!Up
  <2> QED BY <2>1, <2>2, <2>3, <2>4, <2>5, <2>6
<1> QED BY <1>1, <1>2, <1>3

LEMMA TaskRemoves ==
  ASSUME TaskInv, T!RemoveSidecar \/ T!RemoveNetwork \/ T!RemoveVolume \/ T!RemoveCredentials \/
         T!Exit
  PROVE  TaskInv'
<1> USE TaskContainers, SameGraph
    DEF TaskInv, T!Alive, T!KeepsCommand, T!Removes, T!CleanupEnds, T!Goes, T!KeepsRun, T!taskVars,
        T!runVars, T!dockerVars, T!cleanVars
<1>1. CASE T!RemoveSidecar
  <2> USE <1>1 DEF T!RemoveSidecar
  <2>1. TaskTypes' BY DEF TaskTypes
  <2>2. InTurn' BY DEF TaskTypes, InTurn, Reached, T!Starting, T!Up
  <2>3. T!StartsInOrder' BY DEF TaskTypes, InTurn, T!StartsInOrder, T!Up
  <2>4. InList' BY DEF TaskTypes, InTurn, InList, T!Exists, T!Starting, T!Up
  <2>5. MadeKnown' BY DEF TaskTypes, MadeKnown
  <2>6. Swept' BY DEF TaskTypes, InTurn, InList, MadeKnown, Swept, T!Exists, T!Up
  <2> QED BY <2>1, <2>2, <2>3, <2>4, <2>5, <2>6
<1>2. CASE T!RemoveNetwork
  <2> USE <1>2 DEF T!RemoveNetwork
  <2>1. TaskTypes' BY DEF TaskTypes
  <2>2. InTurn' BY DEF TaskTypes, InTurn, Reached, T!Starting, T!Up
  <2>3. T!StartsInOrder' BY DEF TaskTypes, InTurn, T!StartsInOrder, T!Up
  <2>4. InList' BY DEF TaskTypes, InTurn, InList, T!Exists, T!Starting, T!Up
  <2>5. MadeKnown' BY DEF TaskTypes, MadeKnown
  <2>6. Swept' BY DEF TaskTypes, InTurn, InList, MadeKnown, Swept, T!Exists, T!Up
  <2> QED BY <2>1, <2>2, <2>3, <2>4, <2>5, <2>6
<1>3. CASE T!RemoveVolume
  <2> USE <1>3 DEF T!RemoveVolume
  <2>1. TaskTypes' BY DEF TaskTypes
  <2>2. InTurn' BY DEF TaskTypes, InTurn, Reached, T!Starting, T!Up
  <2>3. T!StartsInOrder' BY DEF TaskTypes, InTurn, T!StartsInOrder, T!Up
  <2>4. InList' BY DEF TaskTypes, InTurn, InList, T!Exists, T!Starting, T!Up
  <2>5. MadeKnown' BY DEF TaskTypes, MadeKnown
  <2>6. Swept' BY DEF TaskTypes, InTurn, InList, MadeKnown, Swept, T!Exists, T!Up
  <2> QED BY <2>1, <2>2, <2>3, <2>4, <2>5, <2>6
<1>4. CASE T!RemoveCredentials
  <2> USE <1>4 DEF T!RemoveCredentials
  <2>1. TaskTypes' BY DEF TaskTypes
  <2>2. InTurn' BY DEF TaskTypes, InTurn, Reached, T!Starting, T!Up
  <2>3. T!StartsInOrder' BY DEF TaskTypes, InTurn, T!StartsInOrder, T!Up
  <2>4. InList' BY DEF TaskTypes, InTurn, InList, T!Exists, T!Starting, T!Up
  <2>5. MadeKnown' BY DEF TaskTypes, MadeKnown
  <2>6. Swept' BY DEF TaskTypes, InTurn, InList, MadeKnown, Swept, T!Exists, T!Up
  <2> QED BY <2>1, <2>2, <2>3, <2>4, <2>5, <2>6
<1>5. CASE T!Exit
  <2> USE <1>5 DEF T!Exit
  <2>1. TaskTypes' BY DEF TaskTypes
  <2>2. InTurn' BY DEF TaskTypes, InTurn, Reached, T!Starting, T!Up
  <2>3. T!StartsInOrder' BY DEF TaskTypes, InTurn, T!StartsInOrder, T!Up
  <2>4. InList' BY DEF TaskTypes, InTurn, InList, T!Exists, T!Starting, T!Up
  <2>5. MadeKnown' BY DEF TaskTypes, MadeKnown
  <2>6. Swept' BY DEF TaskTypes, InTurn, InList, MadeKnown, Swept, T!Exists, T!Up
  <2> QED BY <2>1, <2>2, <2>3, <2>4, <2>5, <2>6
<1> QED BY <1>1, <1>2, <1>3, <1>4, <1>5

LEMMA TaskLaunches ==
  ASSUME TaskInv, T!PrepareImages \/ T!DockerRuns \/ T!RunAnswered \/ T!Signal
  PROVE  TaskInv'
<1> USE TaskContainers, SameGraph
    DEF TaskInv, T!Alive, T!EnterCleanup, T!Goes, T!KeepsRun, T!taskVars, T!runVars, T!dockerVars,
        T!cleanVars
<1>1. CASE T!PrepareImages
  <2> USE <1>1 DEF T!PrepareImages
  <2>1. TaskTypes' BY DEF TaskTypes
  <2>2. InTurn'
    <3>1. ASSUME ~T!Cyclic, startOrder' \in T!TopoSort
          PROVE  startOrder' # <<>>
      <4>1. DOMAIN startOrder' = DOMAIN Template
        BY <3>1 DEF T!TopoSort
      <4> QED BY <4>1
    <3> QED BY <3>1 DEF TaskTypes, InTurn
  <2>3. T!StartsInOrder' BY DEF TaskTypes, InTurn, T!StartsInOrder, T!Up
  <2>4. InList' BY DEF TaskTypes, InTurn, InList, T!Exists, T!Starting, T!Up
  <2>5. MadeKnown' BY DEF TaskTypes, MadeKnown
  <2>6. Swept' BY DEF TaskTypes, InTurn, InList, MadeKnown, Swept, T!Exists, T!Up
  <2> QED BY <2>1, <2>2, <2>3, <2>4, <2>5, <2>6
<1>2. CASE T!DockerRuns
  <2> USE <1>2 DEF T!DockerRuns
  <2>1. TaskTypes'
    <3>1. startOrder # <<>> /\ startOrder \in T!TopoSort /\ ~T!Cyclic
      BY DEF InTurn
    <3>2. /\ DOMAIN Template = 1 .. Len(Template)
          /\ startOrder \in [1 .. Len(Template) -> T!Names]
          /\ \A i, j \in 1 .. Len(Template) : startOrder[i] = startOrder[j] => i = j
          /\ \A i \in 1 .. Len(Template) : \A k \in DOMAIN dependsOn[startOrder[i]] :
               \E j \in 1 .. Len(Template) : j < i /\ startOrder[j] = dependsOn[startOrder[i]][k].on
      BY <3>1, StartedInOrder DEF TaskTypes
    <3>3. \A i \in 1 .. Len(Template) :
            /\ DOMAIN dependsOn[startOrder[i]] = 1 .. Len(dependsOn[startOrder[i]])
            /\ \A k \in DOMAIN dependsOn[startOrder[i]] : dependsOn[startOrder[i]][k].on \in T!Names
      BY <3>2, EdgesOf DEF TaskTypes
    <3> QED BY <3>2 DEF TaskTypes, T!Starting
  <2>2. InTurn'
    <3>1. startOrder # <<>> /\ startOrder \in T!TopoSort /\ ~T!Cyclic
      BY DEF InTurn
    <3>2. /\ DOMAIN Template = 1 .. Len(Template)
          /\ startOrder \in [1 .. Len(Template) -> T!Names]
          /\ \A i, j \in 1 .. Len(Template) : startOrder[i] = startOrder[j] => i = j
          /\ \A i \in 1 .. Len(Template) : \A k \in DOMAIN dependsOn[startOrder[i]] :
               \E j \in 1 .. Len(Template) : j < i /\ startOrder[j] = dependsOn[startOrder[i]][k].on
      BY <3>1, StartedInOrder DEF TaskTypes
    <3>3. \A i \in 1 .. Len(Template) :
            /\ DOMAIN dependsOn[startOrder[i]] = 1 .. Len(dependsOn[startOrder[i]])
            /\ \A k \in DOMAIN dependsOn[startOrder[i]] : dependsOn[startOrder[i]][k].on \in T!Names
      BY <3>2, EdgesOf DEF TaskTypes
    <3> QED BY <3>1, <3>2 DEF TaskTypes, InTurn, T!Starting
  <2>3. T!StartsInOrder'
    <3>1. startOrder # <<>> /\ startOrder \in T!TopoSort /\ ~T!Cyclic
      BY DEF InTurn
    <3>2. /\ DOMAIN Template = 1 .. Len(Template)
          /\ startOrder \in [1 .. Len(Template) -> T!Names]
          /\ \A i, j \in 1 .. Len(Template) : startOrder[i] = startOrder[j] => i = j
          /\ \A i \in 1 .. Len(Template) : \A k \in DOMAIN dependsOn[startOrder[i]] :
               \E j \in 1 .. Len(Template) : j < i /\ startOrder[j] = dependsOn[startOrder[i]][k].on
      BY <3>1, StartedInOrder DEF TaskTypes
    <3>3. \A i \in 1 .. Len(Template) :
            /\ DOMAIN dependsOn[startOrder[i]] = 1 .. Len(dependsOn[startOrder[i]])
            /\ \A k \in DOMAIN dependsOn[startOrder[i]] : dependsOn[startOrder[i]][k].on \in T!Names
      BY <3>2, EdgesOf DEF TaskTypes
    <3>4. /\ T!Starting \in T!Names /\ box[T!Starting] = "none"
          /\ \A k \in DOMAIN dependsOn[T!Starting] :
               /\ Reached(dependsOn[T!Starting][k])
               /\ box[dependsOn[T!Starting][k].on] # "none"
               /\ dependsOn[T!Starting][k].on \in T!Names
      <4>1. next \in 1 .. Len(Template) /\ taskPc = "run"
        BY DEF TaskTypes
      <4>2. T!Starting \in T!Names /\ box[T!Starting] = "none"
        BY <3>2, <4>1 DEF InTurn, T!Starting
      <4>3. \A k \in DOMAIN dependsOn[T!Starting] : Reached(dependsOn[T!Starting][k])
        BY <4>1 DEF InTurn
      <4>4. \A k \in DOMAIN dependsOn[T!Starting] : dependsOn[T!Starting][k].on \in T!Names
        BY <3>3, <4>1 DEF T!Starting
      <4>5. \A k \in DOMAIN dependsOn[T!Starting] : box[dependsOn[T!Starting][k].on] # "none"
        <5>1. \A j \in 1 .. Len(Template) : j < next => box[startOrder[j]] # "none"
          BY <3>2, <4>1 DEF InTurn
        <5> QED BY <3>2, <4>1, <5>1 DEF T!Starting
      <4> QED BY <4>2, <4>3, <4>4, <4>5
    <3>5. \A c \in T!Names : \A k \in DOMAIN dependsOn[c] : dependsOn[c][k].on \in T!Names
      BY EdgesOf DEF TaskTypes
    <3> QED BY <3>1, <3>4, <3>5 DEF TaskTypes, T!StartsInOrder, T!Up, Reached
  <2>4. InList' BY DEF TaskTypes, InTurn, InList, T!Exists, T!Starting, T!Up
  <2>5. MadeKnown' BY DEF TaskTypes, MadeKnown
  <2>6. Swept' BY DEF TaskTypes, InTurn, InList, MadeKnown, Swept, T!Exists, T!Up
  <2> QED BY <2>1, <2>2, <2>3, <2>4, <2>5, <2>6
<1>3. CASE T!RunAnswered
  <2> USE <1>3 DEF T!RunAnswered
  <2>1. TaskTypes'
    <3>1. startOrder # <<>> /\ startOrder \in T!TopoSort /\ ~T!Cyclic
      BY DEF InTurn
    <3>2. /\ DOMAIN Template = 1 .. Len(Template)
          /\ startOrder \in [1 .. Len(Template) -> T!Names]
          /\ \A i, j \in 1 .. Len(Template) : startOrder[i] = startOrder[j] => i = j
          /\ \A i \in 1 .. Len(Template) : \A k \in DOMAIN dependsOn[startOrder[i]] :
               \E j \in 1 .. Len(Template) : j < i /\ startOrder[j] = dependsOn[startOrder[i]][k].on
      BY <3>1, StartedInOrder DEF TaskTypes
    <3>3. \A i \in 1 .. Len(Template) :
            /\ DOMAIN dependsOn[startOrder[i]] = 1 .. Len(dependsOn[startOrder[i]])
            /\ \A k \in DOMAIN dependsOn[startOrder[i]] : dependsOn[startOrder[i]][k].on \in T!Names
      BY <3>2, EdgesOf DEF TaskTypes
    <3>4. T!Starting \in T!Names /\ box[T!Starting] # "none"
      BY <3>2 DEF TaskTypes, InTurn, T!Starting
    <3> QED BY <3>4 DEF TaskTypes
  <2>2. InTurn'
    <3>1. startOrder # <<>> /\ startOrder \in T!TopoSort /\ ~T!Cyclic
      BY DEF InTurn
    <3>2. /\ DOMAIN Template = 1 .. Len(Template)
          /\ startOrder \in [1 .. Len(Template) -> T!Names]
          /\ \A i, j \in 1 .. Len(Template) : startOrder[i] = startOrder[j] => i = j
          /\ \A i \in 1 .. Len(Template) : \A k \in DOMAIN dependsOn[startOrder[i]] :
               \E j \in 1 .. Len(Template) : j < i /\ startOrder[j] = dependsOn[startOrder[i]][k].on
      BY <3>1, StartedInOrder DEF TaskTypes
    <3>3. \A i \in 1 .. Len(Template) :
            /\ DOMAIN dependsOn[startOrder[i]] = 1 .. Len(dependsOn[startOrder[i]])
            /\ \A k \in DOMAIN dependsOn[startOrder[i]] : dependsOn[startOrder[i]][k].on \in T!Names
      BY <3>2, EdgesOf DEF TaskTypes
    <3> QED BY <3>1, <3>2, <3>3 DEF TaskTypes, InTurn, T!Starting
  <2>3. T!StartsInOrder' BY DEF TaskTypes, InTurn, T!StartsInOrder, T!Up
  <2>4. InList' BY DEF TaskTypes, InTurn, InList, T!Exists, T!Starting, T!Up
  <2>5. MadeKnown' BY DEF TaskTypes, MadeKnown
  <2>6. Swept' BY DEF TaskTypes, InTurn, InList, MadeKnown, Swept, T!Exists, T!Up
  <2> QED BY <2>1, <2>2, <2>3, <2>4, <2>5, <2>6
<1>4. CASE T!Signal
  <2> USE <1>4 DEF T!Signal
  <2>1. TaskTypes' BY DEF TaskTypes
  <2>2. InTurn' BY DEF TaskTypes, InTurn, Reached, T!Starting, T!Up
  <2>3. T!StartsInOrder' BY DEF TaskTypes, InTurn, T!StartsInOrder, T!Up
  <2>4. InList' BY DEF TaskTypes, InTurn, InList, T!Exists, T!Starting, T!Up
  <2>5. MadeKnown' BY DEF TaskTypes, MadeKnown
  <2>6. Swept' BY DEF TaskTypes, InTurn, InList, MadeKnown, Swept, T!Exists, T!Up
  <2> QED BY <2>1, <2>2, <2>3, <2>4, <2>5, <2>6
<1> QED BY <1>1, <1>2, <1>3, <1>4

LEMMA TaskChanges ==
  ASSUME TaskInv, NEW c \in T!Names, T!ContainerExits(c) \/ T!HealthChecked(c)
  PROVE  TaskInv'
<1>1. PICK to \in {"ok", "failed", "healthy", "unhealthy"} :
        /\ T!Changes(c, to) /\ T!Up(c)
        /\ to \in {"healthy", "unhealthy"} => box[c] = "up"
  BY DEF T!ContainerExits, T!HealthChecked, T!Up
<1>2. /\ box' = [box EXCEPT ![c] = to]
      /\ healthy' = IF to = "healthy" THEN healthy \cup {c} ELSE healthy
      /\ UNCHANGED <<dependsOn, taskMode, taskPc, startOrder, next, waits, made, taskKnown, started,
                     signals, taskCleaning, visited>>
  BY <1>1 DEF T!Changes, T!taskVars, T!runVars, T!cleanVars
<1>3. TaskInv
  OBVIOUS
<1>4. /\ T!Cyclic' = T!Cyclic /\ T!TopoSort' = T!TopoSort
      /\ T!Starting' = T!Starting
  BY <1>2, SameGraph DEF T!Starting
<1>5. /\ box \in [T!Names -> {"none", "up", "healthy", "unhealthy", "ok", "failed", "gone"}]
      /\ \A d \in T!Names : (box'[d] = "none" <=> box[d] = "none")
      /\ \A d \in T!Names : (T!Exists(d)' <=> T!Exists(d))
      /\ \A d : d # c => box'[d] = box[d]
      /\ box'[c] = to /\ box[c] \in {"up", "healthy", "unhealthy"}
  BY <1>1, <1>2, <1>3 DEF TaskInv, TaskTypes, T!Exists, T!Up
<1>6. \A e : Reached(e) => Reached(e)'
  BY <1>1, <1>2, <1>5 DEF Reached, T!Up
<1>7. TaskTypes'
  BY <1>2, <1>3, <1>5 DEF TaskInv, TaskTypes
<1>8. InTurn'
  <2>1. /\ \A d : (box'[d] = "none" <=> box[d] = "none")
    BY <1>5
  <2>2. InTurn
    BY <1>3 DEF TaskInv
  <2> HIDE DEF T!Starting
  <2> QED BY <1>2, <1>4, <1>6, <2>1, <2>2 DEF InTurn
<1>9. T!StartsInOrder'
  BY <1>1, <1>2, <1>3, <1>4, <1>5 DEF TaskInv, T!StartsInOrder, T!Up
<1>10. InList' /\ MadeKnown'
  BY <1>2, <1>3, <1>4, <1>5 DEF TaskInv, InList, MadeKnown
<1>11. Swept'
  BY <1>2, <1>3, <1>5 DEF TaskInv, Swept
<1> QED BY <1>7, <1>8, <1>9, <1>10, <1>11 DEF TaskInv

LEMMA TaskStep == ASSUME TaskInv, T!Next PROVE TaskInv'
<1> QED BY TaskPrepares, TaskNetworks, TaskAwaits, TaskCleans, TaskRemoves, TaskLaunches,
          TaskChanges
      DEF T!Next, T!Command, T!Cleanup

LEMMA TaskStays == ASSUME TaskInv, UNCHANGED taskVars PROVE TaskInv'
<1>1. T!Cyclic' = T!Cyclic /\ T!TopoSort' = T!TopoSort
  BY SameGraph DEF taskVars
<1> QED BY <1>1 DEF taskVars, TaskInv, TaskTypes, InTurn, T!StartsInOrder, InList, MadeKnown, Swept,
      Reached, T!Up, T!Exists, T!Starting

LEMMA TaskSweeps ==
  ASSUME TaskInv, T!Next
  PROVE  /\ taskCleaning = "containers" /\ taskCleaning' # taskCleaning /\ taskMode # "keep" =>
              \A c \in T!Names : T!Exists(c) => taskPc = "running" /\ c = T!Starting
         /\ taskCleaning = "sidecar" /\ taskCleaning' # taskCleaning =>
              "sidecar" \notin made' \/ taskPc = "networkMade"
<1>1. CASE T!ContainersDone \/ T!RemoveSidecar
  <2>1. CASE T!ContainersDone
    BY <2>1 DEF TaskInv, TaskTypes, InList, T!ContainersDone, T!Alive
  <2>2. CASE T!RemoveSidecar
    BY <2>2 DEF TaskInv, MadeKnown, T!RemoveSidecar, T!Removes, T!Alive
  <2> QED BY <1>1, <2>1, <2>2
<1>2. CASE taskCleaning \in {"containers", "sidecar"} => taskCleaning' = taskCleaning
  BY <1>2
<1>3. \/ T!ContainersDone \/ T!RemoveSidecar
      \/ taskCleaning \in {"containers", "sidecar"} => taskCleaning' = taskCleaning
  <2>1. CASE T!Command \/ T!Signal
    BY <2>1 DEF T!Command, T!Prepare, T!MakeProfileDir, T!WriteCredentials, T!PrepareImages, T!CreateNetwork,
      T!StartSidecar, T!SidecarFails, T!NetworkAnswered, T!CreateVolume, T!VolumeAnswered, T!Throws,
      T!DependencyMet, T!DependencyRefused, T!AllMet, T!DockerRuns, T!RunAnswered, T!EssentialExits,
      T!Detaches, T!Unwinds, T!Signal, T!EnterCleanup, T!Docker, T!KeepsRun, T!cleanVars
  <2>2. CASE T!Cleanup
    BY <2>2 DEF T!Cleanup, T!StopContainer, T!RemoveContainer, T!RemoveNetwork, T!RemoveVolume,
      T!RemoveCredentials, T!Removes, T!Exit, T!KeepsRun, T!cleanVars
  <2>3. CASE \E c \in T!Names : T!ContainerExits(c) \/ T!HealthChecked(c)
    BY <2>3 DEF T!ContainerExits, T!HealthChecked, T!Changes, T!cleanVars
  <2> QED BY <2>1, <2>2, <2>3 DEF T!Next
<1> QED BY <1>1, <1>2, <1>3

LEMMA TaskHolds == TaskInv => T!NothingLeft /\ T!StartsInOrder
<1> SUFFICES ASSUME TaskInv PROVE T!NothingLeft
  BY DEF TaskInv
<1> SUFFICES ASSUME taskPc = "exited", taskMode # "detach", signals = 0
             PROVE  /\ taskMode = "plain" => made \subseteq {"profile"} /\ \A c \in T!Names : ~T!Exists(c)
                    /\ "profile" \in made => startOrder = <<>>
                    /\ made \cap {"creds", "sidecar"} = {}
                    /\ "network" \in made => \E c \in T!Names : T!Exists(c)
  BY DEF T!NothingLeft
<1>1. /\ "profile" \in made => startOrder = <<>>
      /\ made \subseteq {"profile", "creds", "network", "sidecar", "volume"}
  BY DEF TaskInv, TaskTypes, InTurn
<1>2. /\ "sidecar" \notin made /\ "creds" \notin made
      /\ "network" \in made => \E c \in T!Names : T!Exists(c)
      /\ taskMode = "plain" => "volume" \notin made /\ \A c \in T!Names : ~T!Exists(c)
  BY DEF TaskInv, Swept
<1> QED BY <1>1, <1>2

-----------------------------------------------------------------------------
(* Web functions, alone or behind a distribution. *)

ServeTypes ==
  /\ start \in [Serves -> {"new", "artifact", "env", "pull", "port", "run", "ready", "up",
                           "stopped", "thrown"}]
  /\ bundle \in [Serves -> BOOLEAN] /\ id \in [Serves -> BOOLEAN]
  /\ container \in [Serves -> {"none", "created", "running", "exited"}]
  /\ teardown \in [Serves -> {"none", "artifact", "run", "remove", "done"}]

(* A teardown that has looked at the bundle, or at docker, is not overtaken. *)
TornDownBehind(s) ==
  /\ teardown[s] # "none" => start[s] # "new"
  /\ teardown[s] \in {"run", "remove", "done"} => start[s] # "artifact"
  /\ teardown[s] \in {"remove", "done"} => start[s] # "run"
  /\ teardown[s] = "remove" => (id[s] <=> container[s] \in {"running", "exited"})
  /\ teardown[s] = "done" => W!Gone(s)

ServeInv == ServeTypes /\ \A s \in Serves : TornDownBehind(s)

WebInv == ServeInv /\ W!WebLeavesNothing /\ (web \notin {"starting", "exited"} => start[served] # "new")

LEMMA ServesStart == Init => ServeInv
<1> SUFFICES ASSUME W!ServesInit PROVE ServeInv
  BY DEF Init
<1> QED BY DEF W!ServesInit, ServeInv, ServeTypes, TornDownBehind

LEMMA ServesStay == ASSUME ServeInv, UNCHANGED serveVars PROVE ServeInv'
<1> QED BY DEF serveVars, ServeInv, ServeTypes, TornDownBehind, W!Gone

(* A step of one web function: what has begun stays so, a teardown that has  *)
(* not begun does not begin, and one that is over leaves nothing to be done. *)
LEMMA ServeSteps ==
  ASSUME ServeInv, NEW s \in Serves, W!ServeStep(s) \/ W!ServerExits(s)
  PROVE  /\ ServeInv'
         /\ \A t \in Serves : start[t] # "new" => start'[t] # "new"
         /\ \A t \in Serves : teardown[t] = "none" <=> teardown'[t] = "none"
<1> USE DEF ServeInv, ServeTypes, TornDownBehind, W!Gone, W!TornDown, W!Onward
<1>1. CASE W!Extracted(s)
  BY <1>1 DEF W!Extracted
<1>2. CASE W!EnvResolved(s)
  BY <1>2 DEF W!EnvResolved
<1>3. CASE W!Pulled(s)
  BY <1>3 DEF W!Pulled
<1>4. CASE W!Runs(s)
  BY <1>4 DEF W!Runs, W!PortChecked
<1>5. CASE W!Creates(s)
  BY <1>5 DEF W!Creates
<1>6. CASE W!Answers(s)
  BY <1>6 DEF W!Answers
<1>7. CASE W!Ready(s)
  BY <1>7 DEF W!Ready
<1>8. CASE W!Throws(s)
  BY <1>8 DEF W!Throws
<1>9. CASE W!ArtifactSettled(s)
  BY <1>9 DEF W!ArtifactSettled
<1>10. CASE W!RunSettled(s)
  <2> DEFINE ran == container[s] \in {"running", "exited"}
  <2>1. /\ teardown[s] = "run" /\ start[s] # "run"
        /\ teardown' = [teardown EXCEPT ![s] = "remove"]
        /\ id' = [id EXCEPT ![s] = ran] /\ ran \in BOOLEAN
        /\ UNCHANGED <<start, bundle, container>>
    BY <1>10 DEF W!RunSettled
  <2>2. ran <=> container[s] \in {"running", "exited"}
    OBVIOUS
  <2> HIDE DEF ran
  <2>3. id' \in [Serves -> BOOLEAN] /\ id'[s] = ran /\ \A t \in Serves \ {s} : id'[t] = id[t]
    BY <2>1
  <2>4. (id'[s] <=> container[s] \in {"running", "exited"})
    BY <2>2, <2>3
  <2> QED BY <2>1, <2>3, <2>4
<1>11. CASE W!Removed(s)
  BY <1>11 DEF W!Removed
<1>12. CASE W!ServerExits(s)
  BY <1>12 DEF W!ServerExits
<1> QED BY <1>1, <1>2, <1>3, <1>4, <1>5, <1>6, <1>7, <1>8, <1>9, <1>10, <1>11, <1>12 DEF W!ServeStep

LEMMA ServeBegins ==
  ASSUME ServeInv, NEW s \in Serves, W!Begins(s), UNCHANGED <<bundle, container, id, teardown>>
  PROVE  ServeInv' /\ \A t \in Serves : start'[t] = IF t = s THEN "artifact" ELSE start[t]
<1> QED BY DEF ServeInv, ServeTypes, TornDownBehind, W!Gone, W!Begins

LEMMA ServesTearDown ==
  ASSUME ServeInv, NEW all \in SUBSET Serves, \A s \in all : start[s] # "new",
         W!TearsDown(all), UNCHANGED <<start, bundle, container, id>>
  PROVE  ServeInv' /\ \A t \in Serves \ all : teardown'[t] = teardown[t]
<1> QED BY DEF ServeInv, ServeTypes, TornDownBehind, W!Gone, W!TornDown, W!TearsDown

LEMMA WebStarts == Init => WebInv
<1> SUFFICES ASSUME Init PROVE WebInv
  OBVIOUS
<1> QED BY ServesStart DEF Init, W!WebInit, WebInv, W!WebLeavesNothing

LEMMA WebStays == ASSUME WebInv, UNCHANGED <<serveVars, webVars>> PROVE WebInv'
<1> QED BY ServesStay DEF serveVars, webVars, WebInv, W!WebLeavesNothing, W!Gone

LEMMA WebStep == ASSUME WebInv, W!WebNext PROVE WebInv'
<1>1. served \in Serves
  BY CommandsAssumption
<1> USE <1>1 DEF WebInv, W!WebAlive, W!webVars, W!serveVars, W!WebLeavesNothing
<1>2. CASE W!Starts
  BY <1>2, ServeBegins DEF W!Starts
<1>3. CASE W!Serving
  BY <1>3, ServesStay DEF W!Serving, ServeInv, ServeTypes, serveVars
<1>4. CASE W!Yields
  BY <1>4, ServesStay DEF W!Yields, ServeInv, ServeTypes, serveVars
<1>5. CASE W!StartFails
  BY <1>5, ServesTearDown DEF W!StartFails
<1>6. CASE W!ExitSeen
  BY <1>6, ServesStay DEF W!ExitSeen, serveVars
<1>7. CASE W!Dies
  BY <1>7, ServesTearDown DEF W!Dies
<1>8. CASE W!WebExit
  BY <1>8, ServesStay DEF W!WebExit, serveVars, ServeInv, TornDownBehind, W!Down, W!Gone
<1>9. CASE W!FirstSignal
  BY <1>9, ServesTearDown DEF W!FirstSignal
<1>10. CASE W!SecondSignal
  BY <1>10 DEF W!SecondSignal, ServeInv, ServeTypes, TornDownBehind, W!Gone, W!Abandons,
    W!WaitingOnRun
<1>11. CASE W!WebAlive /\ (W!ServeStep(served) \/ W!ServerExits(served)) /\ UNCHANGED W!webVars
  BY <1>11, ServeSteps
<1> QED BY <1>2, <1>3, <1>4, <1>5, <1>6, <1>7, <1>8, <1>9, <1>10, <1>11 DEF W!WebNext, W!WebStep

-----------------------------------------------------------------------------
(* A distribution: its containers, and the requests. *)

FrontTypes ==
  /\ at \in Nat /\ origins \in Seq(Serves) /\ version \in Nat
  /\ cf \in {"urls", "edges", "web", "bind", "unbooting", "unwinding", "forever", "serving",
             "closing", "stopping", "exited", "killed"}
  /\ cf = "urls" => at <= Len(Urls)
  /\ cf = "edges" => at <= Len(Edges)
  /\ cf = "web" => at <= Len(origins)
  /\ sink \subseteq Serves

(* The containers that run answer, but for the one that boots; those that    *)
(* answered are of functions that had their turn.                            *)
Answering ==
  /\ cf \notin {"urls", "edges", "exited", "killed"} => lambdas \subseteq runners
  /\ cf = "urls" =>
       /\ lambdas \subseteq runners \cup {Urls[i] : i \in {at + 1} \cap DOMAIN Urls}
       /\ runners \subseteq {Urls[i] : i \in 1 .. at}
  /\ cf = "edges" =>
       /\ lambdas \subseteq runners \cup {Edges[i] : i \in {at + 1} \cap DOMAIN Edges}
       /\ runners \subseteq {Urls[i] : i \in DOMAIN Urls} \cup {Edges[i] : i \in 1 .. at}
  /\ cf \in {"urls", "edges", "web", "bind", "serving", "closing"} => runners \subseteq lambdas

(* What a command that serves keeps, and one that ended has given up.        *)
Kept ==
  /\ \A s \in sink : start[s] # "new"
  /\ \A s \in Serves \ sink : teardown[s] = "none"
  /\ cf \in {"serving", "closing"} => ~bootAborted
  /\ cf \in {"urls", "edges", "web", "bind", "serving", "closing"} /\ ~bootAborted =>
       \A s \in sink : teardown[s] = "none"
  /\ inflight \in {"request", "origin", "response"} => cf \in {"serving", "closing"}
  /\ inflight \in {"none", "request", "origin", "response", "done"}
  /\ consulted \subseteq {snapshot}

FrontInv == ServeInv /\ FrontTypes /\ Answering /\ Kept /\ C!FrontLeavesNothing

LEMMA SameServes ==
  /\ \A s : C!ServeStep(s) = W!ServeStep(s) /\ C!ServerExits(s) = W!ServerExits(s)
  /\ \A s : C!Begins(s) = W!Begins(s) /\ C!Down(s) = W!Down(s) /\ C!Gone(s) = W!Gone(s)
  /\ \A all : C!TearsDown(all) = W!TearsDown(all)
<1>1. \A s : C!ServeStep(s) = W!ServeStep(s)
  BY DEF C!ServeStep, C!Extracted, C!EnvResolved, C!Pulled, C!Runs, C!Creates, C!Answers, C!Ready,
    C!Throws, C!ArtifactSettled, C!RunSettled, C!Removed, C!Onward, C!TornDown, C!PortChecked,
    W!ServeStep, W!Extracted, W!EnvResolved, W!Pulled, W!Runs, W!Creates, W!Answers, W!Ready,
    W!Throws, W!ArtifactSettled, W!RunSettled, W!Removed, W!Onward, W!TornDown, W!PortChecked
<1>2. \A s : C!ServerExits(s) = W!ServerExits(s)
  BY DEF C!ServerExits, W!ServerExits
<1>3. \A s : C!Begins(s) = W!Begins(s) /\ C!Down(s) = W!Down(s) /\ C!Gone(s) = W!Gone(s)
  BY DEF C!Begins, W!Begins, C!Down, W!Down, C!Gone, W!Gone
<1>4. \A all : C!TearsDown(all) = W!TearsDown(all)
  BY DEF C!TearsDown, W!TearsDown, C!TornDown, W!TornDown
<1> QED BY <1>1, <1>2, <1>3, <1>4

LEMMA Runners ==
  /\ DOMAIN Urls = 1 .. Len(Urls) /\ Len(Urls) \in Nat
  /\ DOMAIN Edges = 1 .. Len(Edges) /\ Len(Edges) \in Nat
  /\ \A i, j \in DOMAIN Edges : Edges[i] = Edges[j] => i = j
  /\ \A i \in DOMAIN Urls, j \in DOMAIN Edges : Urls[i] # Edges[j]
<1>1. Urls \in Seq(C!Functions) /\ Edges \in Seq(C!Functions)
  BY CommandsAssumption DEF C!FrontAssumption
<1>2. /\ \A i, j \in DOMAIN Edges : Edges[i] = Edges[j] => i = j
      /\ \A i \in DOMAIN Urls, j \in DOMAIN Edges : Urls[i] # Edges[j]
  BY CommandsAssumption DEF C!FrontAssumption
<1> QED BY <1>1, <1>2

LEMMA FrontStarts == Init => FrontInv
<1> SUFFICES ASSUME Init PROVE FrontInv
  OBVIOUS
<1>1. origins \in Seq(Serves)
  BY CommandsAssumption DEF Init
<1>2. FrontTypes
  <2>1. C!FrontInit
    BY DEF Init
  <2>2. 0 <= Len(Urls)
    BY Runners
  <2> QED BY <1>1, <2>1, <2>2 DEF C!FrontInit, FrontTypes
<1>3. Answering /\ Kept /\ C!FrontLeavesNothing
  BY DEF Init, C!FrontInit, W!ServesInit, Answering, Kept, C!FrontLeavesNothing
<1> QED BY <1>2, <1>3, ServesStart DEF FrontInv

LEMMA FrontStays == ASSUME FrontInv, UNCHANGED <<serveVars, frontVars>> PROVE FrontInv'
<1>1. ServeInv'
  BY ServesStay DEF FrontInv
<1>2. FrontTypes' /\ Answering' /\ Kept' /\ C!FrontLeavesNothing'
  BY DEF serveVars, frontVars, FrontInv, FrontTypes, Answering, Kept, C!FrontLeavesNothing, C!Gone
<1> QED BY <1>1, <1>2 DEF FrontInv

LEMMA FrontBoots ==
  ASSUME FrontInv, C!FrontAlive, C!ContainerRuns \/ C!RieAnswers \/ C!UrlFails \/ C!EdgeFails \/
         C!Booted
  PROVE  FrontInv'
<1> USE SameServes, Runners
    DEF FrontInv, C!FrontAlive, C!BootQuiet, C!RequestQuiet, C!frontVars, C!bootVars, C!requestVars,
        C!serveVars
<1>1. CASE C!ContainerRuns
  <2> USE <1>1 DEF C!ContainerRuns, C!Pending, C!Queue, C!Current
  <2>1. ServeInv' BY ServesStay DEF serveVars
  <2>2. FrontTypes' BY DEF FrontTypes
  <2>3. Answering' BY DEF FrontTypes, Answering
  <2>4. Kept' BY DEF FrontTypes, Kept
  <2>5. C!FrontLeavesNothing' BY DEF FrontTypes, Answering, Kept, C!FrontLeavesNothing, ServeInv,
                                TornDownBehind, C!Down, C!Gone, W!Gone
  <2> QED BY <2>1, <2>2, <2>3, <2>4, <2>5
<1>2. CASE C!RieAnswers
  <2> USE <1>2 DEF C!RieAnswers, C!Pending, C!Queue, C!Current
  <2>1. ServeInv' BY ServesStay DEF serveVars
  <2>2. FrontTypes' BY DEF FrontTypes
  <2>3. Answering' BY DEF FrontTypes, Answering
  <2>4. Kept' BY DEF FrontTypes, Kept
  <2>5. C!FrontLeavesNothing' BY DEF FrontTypes, Answering, Kept, C!FrontLeavesNothing, ServeInv,
                                TornDownBehind, C!Down, C!Gone, W!Gone
  <2> QED BY <2>1, <2>2, <2>3, <2>4, <2>5
<1>3. CASE C!UrlFails
  <2> USE <1>3 DEF C!UrlFails, C!Pending, C!Queue, C!Current, C!EarlierStopped
  <2>1. ServeInv' BY ServesStay DEF serveVars
  <2>2. FrontTypes' BY DEF FrontTypes
  <2>3. Answering' BY DEF FrontTypes, Answering
  <2>4. Kept' BY DEF FrontTypes, Kept
  <2>5. C!FrontLeavesNothing' BY DEF FrontTypes, Answering, Kept, C!FrontLeavesNothing, ServeInv,
                                TornDownBehind, C!Down, C!Gone, W!Gone
  <2> QED BY <2>1, <2>2, <2>3, <2>4, <2>5
<1>4. CASE C!EdgeFails
  <2> USE <1>4 DEF C!EdgeFails, C!Pending, C!Queue, C!Current
  <2>1. ServeInv' BY ServesStay DEF serveVars
  <2>2. FrontTypes' BY DEF FrontTypes
  <2>3. Answering' BY DEF FrontTypes, Answering
  <2>4. Kept' BY DEF FrontTypes, Kept
  <2>5. C!FrontLeavesNothing' BY DEF FrontTypes, Answering, Kept, C!FrontLeavesNothing, ServeInv,
                                TornDownBehind, C!Down, C!Gone, W!Gone
  <2> QED BY <2>1, <2>2, <2>3, <2>4, <2>5
<1>5. CASE C!Booted
  <2> USE <1>5 DEF C!Booted, C!Queue
  <2>1. ServeInv' BY ServesStay DEF serveVars
  <2>2. FrontTypes' BY DEF FrontTypes
  <2>3. Answering' BY DEF FrontTypes, Answering
  <2>4. Kept' BY DEF FrontTypes, Kept
  <2>5. C!FrontLeavesNothing' BY DEF FrontTypes, Answering, Kept, C!FrontLeavesNothing, ServeInv,
                                TornDownBehind, C!Down, C!Gone, W!Gone
  <2> QED BY <2>1, <2>2, <2>3, <2>4, <2>5
<1> QED BY <1>1, <1>2, <1>3, <1>4, <1>5

LEMMA FrontBootsServes ==
  ASSUME FrontInv, C!FrontAlive, C!ServeBegins \/ C!ServeUp \/ C!ServeFails \/ C!Unboots \/
         C!BindFails \/ C!Bound
  PROVE  FrontInv'
<1> USE SameServes, Runners
    DEF FrontInv, C!FrontAlive, C!BootQuiet, C!RequestQuiet, C!frontVars, C!bootVars, C!requestVars,
        C!serveVars
<1>1. CASE C!ServeBegins
  <2> USE <1>1 DEF C!ServeBegins, C!Pending, C!Queue, C!Current
  <2>1. ServeInv' BY ServeBegins DEF FrontTypes
  <2>2. FrontTypes' BY DEF FrontTypes
  <2>3. Answering' BY DEF FrontTypes, Answering
  <2>4. Kept' BY ServeBegins DEF FrontTypes, Kept
  <2>5. C!FrontLeavesNothing' BY DEF FrontTypes, Answering, Kept, C!FrontLeavesNothing, ServeInv,
                                TornDownBehind, C!Down, C!Gone, W!Gone
  <2> QED BY <2>1, <2>2, <2>3, <2>4, <2>5
<1>2. CASE C!ServeUp
  <2> USE <1>2 DEF C!ServeUp, C!Pending, C!Queue, C!Current
  <2>1. ServeInv' BY ServesStay DEF serveVars
  <2>2. FrontTypes' BY DEF FrontTypes
  <2>3. Answering' BY DEF FrontTypes, Answering
  <2>4. Kept' BY DEF FrontTypes, Kept
  <2>5. C!FrontLeavesNothing' BY DEF FrontTypes, Answering, Kept, C!FrontLeavesNothing, ServeInv,
                                TornDownBehind, C!Down, C!Gone, W!Gone
  <2> QED BY <2>1, <2>2, <2>3, <2>4, <2>5
<1>3. CASE C!ServeFails
  <2> USE <1>3 DEF C!ServeFails, C!Pending, C!Queue, C!Current
  <2>1. ServeInv' BY ServesTearDown DEF FrontTypes, Kept
  <2>2. FrontTypes' BY DEF FrontTypes
  <2>3. Answering' BY DEF FrontTypes, Answering
  <2>4. Kept' BY ServesTearDown DEF FrontTypes, Kept
  <2>5. C!FrontLeavesNothing' BY DEF FrontTypes, Answering, Kept, C!FrontLeavesNothing, ServeInv,
                                TornDownBehind, C!Down, C!Gone, W!Gone
  <2> QED BY <2>1, <2>2, <2>3, <2>4, <2>5
<1>4. CASE C!Unboots
  <2> USE <1>4 DEF C!Unboots, C!SinkDown
  <2>1. ServeInv' BY ServesStay DEF serveVars
  <2>2. FrontTypes' BY DEF FrontTypes
  <2>3. Answering' BY DEF FrontTypes, Answering
  <2>4. Kept' BY DEF FrontTypes, Kept
  <2>5. C!FrontLeavesNothing' BY DEF FrontTypes, Answering, Kept, C!FrontLeavesNothing, ServeInv,
                                TornDownBehind, C!Down, C!Gone, W!Gone
  <2> QED BY <2>1, <2>2, <2>3, <2>4, <2>5
<1>5. CASE C!BindFails
  <2> USE <1>5 DEF C!BindFails
  <2>1. ServeInv' BY ServesTearDown DEF FrontTypes, Kept
  <2>2. FrontTypes' BY DEF FrontTypes
  <2>3. Answering' BY DEF FrontTypes, Answering
  <2>4. Kept' BY ServesTearDown DEF FrontTypes, Kept
  <2>5. C!FrontLeavesNothing' BY DEF FrontTypes, Answering, Kept, C!FrontLeavesNothing, ServeInv,
                                TornDownBehind, C!Down, C!Gone, W!Gone
  <2> QED BY <2>1, <2>2, <2>3, <2>4, <2>5
<1>6. CASE C!Bound
  <2> USE <1>6 DEF C!Bound
  <2>1. ServeInv' BY ServesStay DEF serveVars
  <2>2. FrontTypes' BY DEF FrontTypes
  <2>3. Answering' BY DEF FrontTypes, Answering
  <2>4. Kept' BY DEF FrontTypes, Kept
  <2>5. C!FrontLeavesNothing' BY DEF FrontTypes, Answering, Kept, C!FrontLeavesNothing, ServeInv,
                                TornDownBehind, C!Down, C!Gone, W!Gone
  <2> QED BY <2>1, <2>2, <2>3, <2>4, <2>5
<1> QED BY <1>1, <1>2, <1>3, <1>4, <1>5, <1>6

LEMMA FrontUnwinds ==
  ASSUME FrontInv, C!FrontAlive, C!Unwound \/ C!UnarmedSignal \/ C!BootSignal \/ C!NextBatch \/
         C!Drained
  PROVE  FrontInv'
<1> USE SameServes, Runners
    DEF FrontInv, C!FrontAlive, C!BootQuiet, C!RequestQuiet, C!frontVars, C!bootVars, C!requestVars,
        C!serveVars
<1>1. CASE C!Unwound
  <2> USE <1>1 DEF C!Unwound, C!SinkDown
  <2>1. ServeInv' BY ServesStay DEF serveVars
  <2>2. FrontTypes' BY DEF FrontTypes
  <2>3. Answering' BY DEF FrontTypes, Answering
  <2>4. Kept' BY DEF FrontTypes, Kept
  <2>5. C!FrontLeavesNothing' BY DEF FrontTypes, Answering, Kept, C!FrontLeavesNothing, ServeInv,
                                TornDownBehind, C!Down, C!Gone, W!Gone
  <2> QED BY <2>1, <2>2, <2>3, <2>4, <2>5
<1>2. CASE C!UnarmedSignal
  <2> USE <1>2 DEF C!UnarmedSignal, C!Booting
  <2>1. ServeInv' BY ServesStay DEF serveVars
  <2>2. FrontTypes' BY DEF FrontTypes
  <2>3. Answering' BY DEF FrontTypes, Answering
  <2>4. Kept' BY DEF FrontTypes, Kept
  <2>5. C!FrontLeavesNothing' BY DEF FrontTypes, Answering, Kept, C!FrontLeavesNothing, ServeInv,
                                TornDownBehind, C!Down, C!Gone, W!Gone
  <2> QED BY <2>1, <2>2, <2>3, <2>4, <2>5
<1>3. CASE C!BootSignal
  <2> USE <1>3 DEF C!BootSignal, C!Booting
  <2>1. ServeInv' BY ServesTearDown DEF FrontTypes, Kept
  <2>2. FrontTypes' BY DEF FrontTypes
  <2>3. Answering' BY DEF FrontTypes, Answering
  <2>4. Kept' BY ServesTearDown DEF FrontTypes, Kept
  <2>5. C!FrontLeavesNothing' BY DEF FrontTypes, Answering, Kept, C!FrontLeavesNothing, ServeInv,
                                TornDownBehind, C!Down, C!Gone, W!Gone
  <2> QED BY <2>1, <2>2, <2>3, <2>4, <2>5
<1>4. CASE C!NextBatch
  <2> USE <1>4 DEF C!NextBatch, C!SinkDown
  <2>1. ServeInv' BY ServesTearDown DEF FrontTypes, Kept
  <2>2. FrontTypes' BY DEF FrontTypes
  <2>3. Answering' BY DEF FrontTypes, Answering
  <2>4. Kept' BY ServesTearDown DEF FrontTypes, Kept
  <2>5. C!FrontLeavesNothing' BY DEF FrontTypes, Answering, Kept, C!FrontLeavesNothing, ServeInv,
                                TornDownBehind, C!Down, C!Gone, W!Gone
  <2> QED BY <2>1, <2>2, <2>3, <2>4, <2>5
<1>5. CASE C!Drained
  <2> USE <1>5 DEF C!Drained, C!SinkDown
  <2>1. ServeInv' BY ServesStay DEF serveVars
  <2>2. FrontTypes' BY DEF FrontTypes
  <2>3. Answering' BY DEF FrontTypes, Answering
  <2>4. Kept' BY DEF FrontTypes, Kept
  <2>5. C!FrontLeavesNothing' BY DEF FrontTypes, Answering, Kept, C!FrontLeavesNothing, ServeInv,
                                TornDownBehind, C!Down, C!Gone, W!Gone
  <2> QED BY <2>1, <2>2, <2>3, <2>4, <2>5
<1> QED BY <1>1, <1>2, <1>3, <1>4, <1>5

LEMMA FrontRequests ==
  ASSUME FrontInv, C!FrontAlive, C!Accept \/ C!Requested \/ C!OriginAnswers \/ C!Responded \/
         C!Update \/ C!ServingSignal \/ C!Closes \/ C!Stopped
  PROVE  FrontInv'
<1> USE SameServes, Runners
    DEF FrontInv, C!FrontAlive, C!BootQuiet, C!RequestQuiet, C!frontVars, C!bootVars, C!requestVars,
        C!serveVars
<1>1. CASE C!Accept
  <2> USE <1>1 DEF C!Accept
  <2>1. ServeInv' BY ServesStay DEF serveVars
  <2>2. FrontTypes' BY DEF FrontTypes
  <2>3. Answering' BY DEF FrontTypes, Answering
  <2>4. Kept' BY DEF FrontTypes, Kept
  <2>5. C!FrontLeavesNothing' BY DEF FrontTypes, Answering, Kept, C!FrontLeavesNothing, ServeInv,
                                TornDownBehind, C!Down, C!Gone, W!Gone
  <2> QED BY <2>1, <2>2, <2>3, <2>4, <2>5
<1>2. CASE C!Requested
  <2> USE <1>2 DEF C!Requested
  <2>1. ServeInv' BY ServesStay DEF serveVars
  <2>2. FrontTypes' BY DEF FrontTypes
  <2>3. Answering' BY DEF FrontTypes, Answering
  <2>4. Kept' BY DEF FrontTypes, Kept
  <2>5. C!FrontLeavesNothing' BY DEF FrontTypes, Answering, Kept, C!FrontLeavesNothing, ServeInv,
                                TornDownBehind, C!Down, C!Gone, W!Gone
  <2> QED BY <2>1, <2>2, <2>3, <2>4, <2>5
<1>3. CASE C!OriginAnswers
  <2> USE <1>3 DEF C!OriginAnswers, C!OriginOf
  <2>1. ServeInv' BY ServesStay DEF serveVars
  <2>2. FrontTypes' BY DEF FrontTypes
  <2>3. Answering' BY DEF FrontTypes, Answering
  <2>4. Kept' BY DEF FrontTypes, Kept
  <2>5. C!FrontLeavesNothing' BY DEF FrontTypes, Answering, Kept, C!FrontLeavesNothing, ServeInv,
                                TornDownBehind, C!Down, C!Gone, W!Gone
  <2> QED BY <2>1, <2>2, <2>3, <2>4, <2>5
<1>4. CASE C!Responded
  <2> USE <1>4 DEF C!Responded
  <2>1. ServeInv' BY ServesStay DEF serveVars
  <2>2. FrontTypes' BY DEF FrontTypes
  <2>3. Answering' BY DEF FrontTypes, Answering
  <2>4. Kept' BY DEF FrontTypes, Kept
  <2>5. C!FrontLeavesNothing' BY DEF FrontTypes, Answering, Kept, C!FrontLeavesNothing, ServeInv,
                                TornDownBehind, C!Down, C!Gone, W!Gone
  <2> QED BY <2>1, <2>2, <2>3, <2>4, <2>5
<1>5. CASE C!Update
  <2> USE <1>5 DEF C!Update
  <2>1. ServeInv' BY ServesStay DEF serveVars
  <2>2. FrontTypes' BY DEF FrontTypes
  <2>3. Answering' BY DEF FrontTypes, Answering
  <2>4. Kept' BY DEF FrontTypes, Kept
  <2>5. C!FrontLeavesNothing' BY DEF FrontTypes, Answering, Kept, C!FrontLeavesNothing, ServeInv,
                                TornDownBehind, C!Down, C!Gone, W!Gone
  <2> QED BY <2>1, <2>2, <2>3, <2>4, <2>5
<1>6. CASE C!ServingSignal
  <2> USE <1>6 DEF C!ServingSignal
  <2>1. ServeInv' BY ServesStay DEF serveVars
  <2>2. FrontTypes' BY DEF FrontTypes
  <2>3. Answering' BY DEF FrontTypes, Answering
  <2>4. Kept' BY DEF FrontTypes, Kept
  <2>5. C!FrontLeavesNothing' BY DEF FrontTypes, Answering, Kept, C!FrontLeavesNothing, ServeInv,
                                TornDownBehind, C!Down, C!Gone, W!Gone
  <2> QED BY <2>1, <2>2, <2>3, <2>4, <2>5
<1>7. CASE C!Closes
  <2> USE <1>7 DEF C!Closes, C!ServerClosed
  <2>1. ServeInv' BY ServesTearDown DEF FrontTypes, Kept
  <2>2. FrontTypes' BY DEF FrontTypes
  <2>3. Answering' BY DEF FrontTypes, Answering
  <2>4. Kept' BY ServesTearDown DEF FrontTypes, Kept
  <2>5. C!FrontLeavesNothing' BY DEF FrontTypes, Answering, Kept, C!FrontLeavesNothing, ServeInv,
                                TornDownBehind, C!Down, C!Gone, W!Gone
  <2> QED BY <2>1, <2>2, <2>3, <2>4, <2>5
<1>8. CASE C!Stopped
  <2> USE <1>8 DEF C!Stopped, C!SinkDown
  <2>1. ServeInv' BY ServesStay DEF serveVars
  <2>2. FrontTypes' BY DEF FrontTypes
  <2>3. Answering' BY DEF FrontTypes, Answering
  <2>4. Kept' BY DEF FrontTypes, Kept
  <2>5. C!FrontLeavesNothing' BY DEF FrontTypes, Answering, Kept, C!FrontLeavesNothing, ServeInv,
                                TornDownBehind, C!Down, C!Gone, W!Gone
  <2> QED BY <2>1, <2>2, <2>3, <2>4, <2>5
<1> QED BY <1>1, <1>2, <1>3, <1>4, <1>5, <1>6, <1>7, <1>8

LEMMA FrontStops ==
  ASSUME FrontInv, C!FrontAlive, \E f \in C!Functions : C!StopsRunner(f)
  PROVE  FrontInv'
<1>1. PICK f \in C!Functions : C!StopsRunner(f)
  OBVIOUS
<1>2. /\ cf \in {"unwinding", "stopping"}
      /\ lambdas' = lambdas \ {f} /\ f \in runners
      /\ UNCHANGED <<cf, at, runners, origins, sink, bootAborted, version, inflight, snapshot,
                     consulted>>
      /\ UNCHANGED serveVars
  BY <1>1 DEF C!StopsRunner, C!BootQuiet, C!requestVars, C!serveVars, serveVars
<1>3. ServeInv'
  BY <1>2, ServesStay DEF FrontInv
<1>4. FrontTypes' /\ Answering'
  BY <1>2 DEF FrontInv, FrontTypes, Answering
<1>5. Kept' /\ C!FrontLeavesNothing'
  BY <1>2 DEF FrontInv, Kept, C!FrontLeavesNothing, serveVars
<1> QED BY <1>3, <1>4, <1>5 DEF FrontInv

LEMMA FrontServes ==
  ASSUME FrontInv, C!FrontAlive, NEW s \in Serves, C!ServeStep(s) \/ C!ServerExits(s),
         UNCHANGED C!frontVars
  PROVE  FrontInv'
<1>1. W!ServeStep(s) \/ W!ServerExits(s)
  BY SameServes
<1>2. /\ ServeInv'
      /\ \A t \in Serves : start[t] # "new" => start'[t] # "new"
      /\ \A t \in Serves : teardown[t] = "none" <=> teardown'[t] = "none"
  BY <1>1, ServeSteps DEF FrontInv
<1>3. UNCHANGED <<cf, origins, at, lambdas, runners, sink, bootAborted, version, inflight, snapshot,
                  consulted>>
  BY DEF C!frontVars, C!bootVars, C!requestVars
<1>4. FrontTypes' /\ Answering'
  BY <1>3 DEF FrontInv, FrontTypes, Answering
<1>5. Kept'
  BY <1>2, <1>3 DEF FrontInv, FrontTypes, Kept
<1>6. C!FrontLeavesNothing'
  BY <1>3 DEF C!FrontAlive, C!FrontLeavesNothing
<1> QED BY <1>2, <1>4, <1>5, <1>6 DEF FrontInv

LEMMA FrontStep == ASSUME FrontInv, C!FrontNext PROVE FrontInv'
<1> QED BY FrontBoots, FrontServes, FrontUnwinds, FrontRequests, FrontStops, FrontBootsServes
      DEF C!FrontNext, C!FrontStep, C!Handling

LEMMA FrontHolds == FrontInv => C!FrontLeavesNothing /\ C!OneDistribution /\ C!ServedToTheEnd
<1> SUFFICES ASSUME FrontInv PROVE C!OneDistribution /\ C!ServedToTheEnd
  BY DEF FrontInv
<1>1. C!OneDistribution
  BY DEF FrontInv, Kept, C!OneDistribution
<1>2. C!ServedToTheEnd
  BY DEF FrontInv, FrontTypes, Answering, Kept, C!ServedToTheEnd, C!TornDown
<1> QED BY <1>1, <1>2

-----------------------------------------------------------------------------
(* start-agentcore: its container, and what the teardown has done. *)

AgentTypes ==
  /\ live \subseteq Nat /\ agentId \in Nat \cup {Nothing}
  /\ reloaded \in Nat /\ queued \in Nat
  /\ reloading \in {"idle", "synth", "soft", "rebuild", "image", "answer", "wait"}
  /\ main \in {"boot", "run", "ready", "serving", "unwinding", "exited", "killed"}
  /\ halt \in {"idle", "chain", "server", "container", "files", "done"}

AgentInv ==
  /\ AgentTypes
  /\ main = "boot" => live = {}
  /\ main = "run" => live \subseteq {1}
  /\ main \in {"boot", "run"} => halt = "idle" /\ agentId = Nothing
  /\ main \in {"boot", "run", "ready"} => queued = 0 /\ hostPort = 1
  /\ main \in {"boot", "run"} => ~listening
  /\ main = "ready" => agentId = 1
  /\ main \in {"boot", "run", "ready", "serving"} => ~thrown
  /\ halt # "idle" => shutting \/ thrown
  /\ main \notin {"run", "killed"} /\ reloading # "answer" => live \subseteq {agentId}
  /\ reloading = "answer" => live \subseteq {reloaded + 2}
  /\ reloading \in {"image", "answer"} => agentId = Nothing
  /\ reloaded <= queued /\ (reloading # "idle" => reloaded < queued)
  /\ halt \in {"server", "container", "files", "done"} => reloaded = queued
  /\ halt \in {"files", "done"} => live = {}
  /\ halt = "done" => ~creds
  /\ main = "exited" => halt = "done" \/ (shutting /\ thrown)
  /\ reloading = "wait" => hostPort = agentId
  /\ listening /\ agentId # Nothing /\ reloading # "wait" => serverPort = agentId \/ unready

LEMMA AgentStarts == Init => AgentInv
<1> SUFFICES ASSUME A!AgentInit PROVE AgentInv
  BY DEF Init
<1> QED BY CommandsAssumption DEF A!AgentAssumption, A!AgentInit, AgentInv, AgentTypes

LEMMA AgentStays == ASSUME AgentInv, UNCHANGED agentVars PROVE AgentInv'
<1> QED BY DEF agentVars, AgentInv, AgentTypes

LEMMA AgentBoots ==
  ASSUME AgentInv, A!AgentAlive, A!Prepared \/ A!ContainerStarts \/ A!HandlersArmed \/ A!Listens \/
         A!BootFails \/ A!Unhandled
  PROVE  AgentInv'
<1> USE CommandsAssumption
    DEF A!AgentAssumption, AgentInv, AgentTypes, A!AgentAlive, A!ReloadQuiet, A!HaltQuiet,
        A!containerVars, A!chainVars, A!endVars
<1>1. CASE A!Prepared
  BY <1>1 DEF A!Prepared
<1>2. CASE A!ContainerStarts
  BY <1>2 DEF A!ContainerStarts
<1>3. CASE A!HandlersArmed
  BY <1>3 DEF A!HandlersArmed
<1>4. CASE A!Listens
  BY <1>4 DEF A!Listens
<1>5. CASE A!BootFails
  BY <1>5 DEF A!BootFails, A!TornDown, A!BeginsTeardown
<1>6. CASE A!Unhandled
  BY <1>6 DEF A!Unhandled
<1> QED BY <1>1, <1>2, <1>3, <1>4, <1>5, <1>6

LEMMA AgentRuns ==
  ASSUME AgentInv, A!AgentAlive, A!AgentExits \/ A!Proxied \/ A!StreamEnds \/ A!Edit \/
         A!AgentSignal
  PROVE  AgentInv'
<1> USE CommandsAssumption
    DEF A!AgentAssumption, AgentInv, AgentTypes, A!AgentAlive, A!ReloadQuiet, A!HaltQuiet,
        A!containerVars, A!chainVars, A!endVars
<1>1. CASE A!AgentExits
  BY <1>1 DEF A!AgentExits
<1>2. CASE A!Proxied
  BY <1>2 DEF A!Proxied
<1>3. CASE A!StreamEnds
  BY <1>3 DEF A!StreamEnds
<1>4. CASE A!Edit
  BY <1>4 DEF A!Edit, A!TornDown
<1>5. CASE A!AgentSignal
  BY <1>5 DEF A!AgentSignal, A!TornDown, A!BeginsTeardown
<1> QED BY <1>1, <1>2, <1>3, <1>4, <1>5

LEMMA AgentReloads ==
  ASSUME AgentInv, A!AgentAlive, A!ReloadBegins \/ A!Classified \/ A!SoftReloaded \/ A!OldRemoved \/
         A!NewStarts \/ A!NewAnswers \/ A!NewReady \/ A!ReloadFails
  PROVE  AgentInv'
<1> USE CommandsAssumption
    DEF A!AgentAssumption, AgentInv, AgentTypes, A!AgentAlive, A!ReloadQuiet, A!HaltQuiet,
        A!containerVars, A!chainVars, A!endVars
<1>1. CASE A!ReloadBegins
  BY <1>1 DEF A!ReloadBegins, A!Bails, A!TornDown, A!Ends
<1>2. CASE A!Classified
  BY <1>2 DEF A!Classified, A!Bails, A!TornDown, A!Ends
<1>3. CASE A!SoftReloaded
  BY <1>3 DEF A!SoftReloaded, A!Ends
<1>4. CASE A!OldRemoved
  BY <1>4 DEF A!OldRemoved
<1>5. CASE A!NewStarts
  BY <1>5 DEF A!NewStarts
<1>6. CASE A!NewAnswers
  BY <1>6 DEF A!NewAnswers
<1>7. CASE A!NewReady
  BY <1>7 DEF A!NewReady, A!Ends, A!Repointed
<1>8. CASE A!ReloadFails
  <2>1. /\ reloading' = "idle" /\ reloaded' = reloaded + 1
        /\ reloading = "wait" \/ unready => unready'
        /\ reloading \in {"synth", "soft", "rebuild", "image", "wait"}
        /\ UNCHANGED <<main, live, agentId, hostPort, serverPort, listening, creds, queued, halt,
                       shutting, thrown>>
    BY <1>8 DEF A!ReloadFails, A!Ends

  <2> QED BY <2>1
<1> QED BY <1>1, <1>2, <1>3, <1>4, <1>5, <1>6, <1>7, <1>8

LEMMA AgentHalts ==
  ASSUME AgentInv, A!AgentAlive, A!ChainAwaited \/ A!ServerClosed \/ A!AgentRemoved \/
         A!FilesRemoved \/ A!AgentExit
  PROVE  AgentInv'
<1> USE CommandsAssumption
    DEF A!AgentAssumption, AgentInv, AgentTypes, A!AgentAlive, A!ReloadQuiet, A!HaltQuiet,
        A!containerVars, A!chainVars, A!endVars
<1>1. CASE A!ChainAwaited
  BY <1>1 DEF A!ChainAwaited, A!ChainDrained
<1>2. CASE A!ServerClosed
  BY <1>2 DEF A!ServerClosed
<1>3. CASE A!AgentRemoved
  BY <1>3 DEF A!AgentRemoved
<1>4. CASE A!FilesRemoved
  BY <1>4 DEF A!FilesRemoved
<1>5. CASE A!AgentExit
  BY <1>5 DEF A!AgentExit
<1> QED BY <1>1, <1>2, <1>3, <1>4, <1>5

LEMMA AgentStep == ASSUME AgentInv, A!AgentNext PROVE AgentInv'
<1> QED BY AgentBoots, AgentRuns, AgentReloads, AgentHalts
      DEF A!AgentNext, A!BootStep, A!ReloadStep, A!HaltStep

LEMMA AgentHolds == AgentInv => A!AgentLeavesNothing /\ A!OneContainer /\ A!LeadsToContainer
<1> QED BY DEF AgentInv, AgentTypes, A!AgentLeavesNothing, A!OneContainer, A!LeadsToContainer,
          A!AgentAlive

-----------------------------------------------------------------------------
(* start-api: its files, the order of its boot, its pools. *)

Booted(a) == a \in accepting \/ apiStage \in P!Cleaning \cup {"serving", "exited", "forced"}

ApiTypes ==
  /\ apiStage \in P!Cleaning \cup P!Booting \cup {"serving", "exited", "forced", "failed", "killed"}
  /\ apiProfile \in BOOLEAN /\ apiWarm \in BOOLEAN /\ credsFile \in {"none", "disk", "known"}
  /\ work \in [at : {"idle", "synth", "profile", "writing", "layers", "unzip", "env", "images"},
               lambda : Nat]
  /\ passes \in P!Passes /\ changes \in Nat /\ passes + changes <= MaxPasses
  /\ accepting \subseteq P!Apis /\ present \subseteq P!Http
  /\ apiVersion \in [P!Apis -> Nat]
  /\ pools \in [P!Apis -> [P!Passes -> {"none", "open", "unused", "disposing", "gone"}]]
  /\ endpoint \in [P!Lambdas -> P!Apis \cup {Nothing}]
  /\ warmed \subseteq [api : P!Apis, pass : P!Passes, lambda : P!Lambdas, posts : P!Apis \cup {Nothing}]

(* Directories are entered in a set before the turn ends, but for a layer    *)
(* that is being unzipped, and the credentials file with its pass.           *)
FilesKnown ==
  /\ apiStage \notin {"creds", "exited", "failed", "killed", "forced"} =>
       \A d \in tmpDirs : d \in tracked \/ (work.at = "unzip" /\ d = P!Dir("layer"))
  /\ apiStage \in {"creds", "exited"} => tmpDirs \subseteq late
  /\ work.at \in {"profile", "writing"} => apiProfile
  /\ ~apiProfile => credsFile = "none"
  /\ work.at = "writing" => credsFile = "disk" /\ apiStage \in {"build", "killed"}
  /\ credsFile = "disk" => work.at = "writing" \/ apiStage \in {"failed", "killed"}
  /\ \/ work.at \in {"layers", "unzip", "env", "images"} /\ apiStage # "exited"
     \/ apiStage \in P!Cleaning \cup {"warm", "probe", "bind", "serving"}
     => (apiProfile => credsFile = "known")
  /\ apiStage = "exited" => credsFile = "none"

(* The boot has come to the n-th API.                                        *)
BootedTo(n) ==
  /\ accepting = {P!BootOrder[k] : k \in 1 .. n - 1}
  /\ \A k \in DOMAIN P!BootOrder : pools[P!BootOrder[k]] =
       [p \in P!Passes |-> IF p = 1 /\ (k < n \/ (k = n /\ apiStage # "probe")) THEN "open" ELSE "none"]
  /\ \A k \in DOMAIN P!BootOrder :
       k < n \/ (k = n /\ apiStage # "probe") => apiVersion[P!BootOrder[k]] = 1

BootsInOrder ==
  /\ apiStage = "build" => accepting = {} /\ warmed = {} /\ good = 0
       /\ (\A a \in P!Apis, p \in P!Passes : pools[a][p] = "none")
       /\ (\A l \in P!Lambdas : endpoint[l] = Nothing)
  /\ apiStage \in {"build", "warm", "probe", "bind"} => passes = 1 /\ changes = 0 /\ background = {}
  /\ apiStage \in {"warm", "probe", "bind"} =>
       /\ work = P!Idle /\ good = 1 /\ present = P!Http
       /\ \E n \in DOMAIN P!BootOrder : BootedTo(n) /\ (apiStage = "warm" => n <= Len(Groups))
             /\ (apiStage = "probe" => n = Len(Groups) + 1)

Serving == P!Cleaning \cup {"serving"}

(* What is served is of a pass that ended, of the first for a WebSocket API; *)
(* of the pools of an API that of the pass it serves is the last.            *)
PoolsFollow ==
  apiStage \in Serving =>
    /\ \A a \in P!Apis : apiVersion[a] \in 1 .. passes
    /\ good \in 1 .. passes
    /\ work.at # "idle" => \A a \in P!Apis : apiVersion[a] < passes
    /\ \A s \in P!ToSet(Sockets) : apiVersion[s] = 1
    /\ \A a \in P!Apis, p \in P!Passes :
         /\ p > apiVersion[a] => pools[a][p] = "none"
         /\ pools[a][p] = "open" => p = apiVersion[a]

WarmIn == \A c \in warmed : pools[c.api][c.pass] \in {"open", "disposing"}

(* What the cleanup has stopped stays so.                                    *)
Stopped ==
  /\ apiStage = "serving" => accepting = P!Apis
  /\ apiStage \in {"hosts", "pools", "socket pools", "creds"} => accepting = {}
  /\ apiStage = "servers" => accepting \cap P!Http = {}
  /\ apiStage \in {"pools", "socket pools", "creds"} =>
       \A a \in P!Http, p \in P!Passes : pools[a][p] # "open"
  /\ apiStage \in {"socket pools", "creds"} =>
       \A a \in P!ToSet(Sockets), p \in P!Passes : pools[a][p] # "open"
  /\ apiStage = "creds" => ~P!Awaited
  /\ apiStage = "exited" => \A c \in warmed : <<c.api, c.pass>> \in background

(* A Lambda of a WebSocket API that listens, or did, posts to one it is behind. *)
Posts ==
  \A l \in P!Lambdas :
    /\ endpoint[l] # Nothing => endpoint[l] \in P!ToSet(Sockets) /\ l \in Backing[endpoint[l]]
    /\ \A s \in P!ToSet(Sockets) : Booted(s) /\ l \in Backing[s] => endpoint[l] # Nothing

ApiInv ==
  /\ ApiTypes /\ FilesKnown /\ BootsInOrder /\ PoolsFollow /\ WarmIn /\ Stopped /\ Posts
  /\ P!OneVersion /\ P!PostsHome

(* The servers in the order of the boot: HTTP APIs, then those of WebSockets. *)
LEMMA ApiOrder ==
  /\ Len(Groups) \in Nat /\ Len(Sockets) \in Nat /\ Len(P!BootOrder) = Len(Groups) + Len(Sockets)
  /\ DOMAIN P!BootOrder = 1 .. Len(P!BootOrder)
  /\ P!BootOrder \in [1 .. Len(P!BootOrder) -> P!Apis]
  /\ \A n \in 1 .. Len(P!BootOrder) : P!BootOrder[n] \in P!Http <=> n <= Len(Groups)
  /\ \A n \in 1 .. Len(P!BootOrder) : P!BootOrder[n] \in P!ToSet(Sockets) <=> n > Len(Groups)
  /\ \A a \in P!Apis : \E n \in 1 .. Len(P!BootOrder) : P!BootOrder[n] = a
  /\ \A i, j \in 1 .. Len(P!BootOrder) : P!BootOrder[i] = P!BootOrder[j] => i = j
  /\ P!Http \cap P!ToSet(Sockets) = {} /\ P!Apis = P!Http \cup P!ToSet(Sockets)
<1>1. /\ Groups \in Seq(P!Http) /\ Sockets \in Seq(P!ToSet(Sockets))
      /\ \A i, j \in DOMAIN P!BootOrder : P!BootOrder[i] = P!BootOrder[j] => i = j
  BY CommandsAssumption DEF P!ApiCommandAssumption
<1>2. /\ Len(Groups) \in Nat /\ Len(Sockets) \in Nat
      /\ DOMAIN Groups = 1 .. Len(Groups) /\ DOMAIN Sockets = 1 .. Len(Sockets)
  BY <1>1
<1>3. /\ Len(P!BootOrder) = Len(Groups) + Len(Sockets)
      /\ DOMAIN P!BootOrder = 1 .. Len(Groups) + Len(Sockets)
      /\ \A n \in 1 .. Len(Groups) : P!BootOrder[n] = Groups[n]
      /\ \A n \in 1 .. Len(Sockets) : P!BootOrder[Len(Groups) + n] = Sockets[n]
      /\ P!BootOrder \in Seq(P!Apis)
  <2>1. Groups \in Seq(P!Apis) /\ Sockets \in Seq(P!Apis)
    BY <1>1 DEF P!Apis
  <2> QED BY <1>2, <2>1 DEF P!BootOrder
<1>4. \A n \in 1 .. Len(P!BootOrder) : n > Len(Groups) =>
        \E m \in 1 .. Len(Sockets) : n = Len(Groups) + m /\ P!BootOrder[n] = Sockets[m]
  <2> SUFFICES ASSUME NEW n \in 1 .. Len(P!BootOrder), n > Len(Groups)
               PROVE  \E m \in 1 .. Len(Sockets) : n = Len(Groups) + m /\ P!BootOrder[n] = Sockets[m]
    OBVIOUS
  <2>1. n - Len(Groups) \in 1 .. Len(Sockets) /\ n = Len(Groups) + (n - Len(Groups))
    BY <1>2, <1>3
  <2> QED BY <1>3, <2>1
<1>5. /\ \A n \in 1 .. Len(P!BootOrder) : n <= Len(Groups) => P!BootOrder[n] \in P!Http
      /\ \A n \in 1 .. Len(P!BootOrder) : n > Len(Groups) => P!BootOrder[n] \in P!ToSet(Sockets)
  <2>1. \A n \in 1 .. Len(Groups) : Groups[n] \in P!Http
    BY <1>2 DEF P!Http, P!ToSet
  <2>2. \A m \in 1 .. Len(Sockets) : Sockets[m] \in P!ToSet(Sockets)
    BY <1>2 DEF P!ToSet
  <2>3. ASSUME NEW n \in 1 .. Len(P!BootOrder), n <= Len(Groups) PROVE P!BootOrder[n] \in P!Http
    <3>1. n \in 1 .. Len(Groups)
      BY <1>2, <1>3, <2>3
    <3> QED BY <1>3, <2>1, <3>1
  <2> QED BY <1>4, <2>2, <2>3
<1>6. /\ \A a \in P!Http : \E n \in 1 .. Len(P!BootOrder) : P!BootOrder[n] = a /\ n <= Len(Groups)
      /\ \A a \in P!ToSet(Sockets) : \E n \in 1 .. Len(P!BootOrder) : P!BootOrder[n] = a /\ n > Len(Groups)
  <2>1. ASSUME NEW a \in P!Http PROVE \E n \in 1 .. Len(P!BootOrder) : P!BootOrder[n] = a /\ n <= Len(Groups)
    <3>1. PICK n \in 1 .. Len(Groups) : Groups[n] = a
      BY <1>2 DEF P!Http, P!ToSet
    <3> QED BY <1>2, <1>3, <3>1
  <2>2. ASSUME NEW a \in P!ToSet(Sockets)
        PROVE  \E n \in 1 .. Len(P!BootOrder) : P!BootOrder[n] = a /\ n > Len(Groups)
    <3>1. PICK m \in 1 .. Len(Sockets) : Sockets[m] = a
      BY <1>2 DEF P!ToSet
    <3>2. Len(Groups) + m \in 1 .. Len(P!BootOrder) /\ Len(Groups) + m > Len(Groups)
      BY <1>2, <1>3
    <3> QED BY <1>3, <3>1, <3>2
  <2> QED BY <2>1, <2>2
<1>7. P!Apis = P!Http \cup P!ToSet(Sockets)
  BY DEF P!Apis
<1>8. P!Http \cap P!ToSet(Sockets) = {}
  <2> SUFFICES ASSUME NEW a \in P!Http, a \in P!ToSet(Sockets) PROVE FALSE
    OBVIOUS
  <2>1. PICK i \in 1 .. Len(P!BootOrder) : P!BootOrder[i] = a /\ i <= Len(Groups)
    BY <1>6
  <2>2. PICK j \in 1 .. Len(P!BootOrder) : P!BootOrder[j] = a /\ j > Len(Groups)
    BY <1>6
  <2>3. i = j
    BY <1>1, <1>3, <2>1, <2>2
  <2> QED BY <1>2, <2>1, <2>2, <2>3
<1>9. P!BootOrder \in [1 .. Len(P!BootOrder) -> P!Apis] /\ DOMAIN P!BootOrder = 1 .. Len(P!BootOrder)
  BY <1>3
<1>10. \A n \in 1 .. Len(P!BootOrder) : n \in Nat
  BY <1>2, <1>3
<1>11. /\ \A n \in 1 .. Len(P!BootOrder) : P!BootOrder[n] \in P!Http <=> n <= Len(Groups)
       /\ \A n \in 1 .. Len(P!BootOrder) : P!BootOrder[n] \in P!ToSet(Sockets) <=> n > Len(Groups)
  BY <1>2, <1>5, <1>8, <1>10
<1> QED BY <1>1, <1>2, <1>3, <1>6, <1>7, <1>8, <1>9, <1>11

LEMMA ApiConstants ==
  /\ MaxPasses \in Nat \ {0} /\ 1 \in P!Passes /\ Len(Resolved) \in Nat
  /\ Nothing \notin P!Apis /\ Backing \in [P!Apis -> SUBSET P!Lambdas]
<1>1. /\ MaxPasses \in Nat \ {0} /\ Resolved \in Seq(P!Lambdas)
      /\ Nothing \notin P!Apis /\ Backing \in [P!Apis -> SUBSET P!Lambdas]
  BY CommandsAssumption DEF P!ApiCommandAssumption
<1> QED BY <1>1 DEF P!Passes

LEMMA ApiStarts == Init => ApiInv
<1> SUFFICES ASSUME P!ApiInit PROVE ApiInv
  BY DEF Init
<1> USE ApiConstants DEF P!ApiInit, P!Idle
<1>1. ApiTypes
  BY DEF ApiTypes, P!Booting, P!Http, P!Passes
<1>2. FilesKnown
  BY DEF FilesKnown, P!Cleaning
<1>3. BootsInOrder
  BY DEF BootsInOrder
<1>4. PoolsFollow /\ WarmIn /\ Stopped
  BY DEF PoolsFollow, WarmIn, Stopped, Serving, P!Cleaning
<1>5. Posts
  BY DEF Posts, Booted, P!Cleaning
<1>6. P!OneVersion /\ P!PostsHome
  BY DEF P!OneVersion, P!PostsHome, P!Cleaning
<1> QED BY <1>1, <1>2, <1>3, <1>4, <1>5, <1>6 DEF ApiInv

LEMMA ApiStays == ASSUME ApiInv, UNCHANGED apiVars PROVE ApiInv'
<1> USE DEF apiVars, ApiInv
<1>1. ApiTypes' BY DEF ApiTypes
<1>2. FilesKnown' BY DEF FilesKnown, P!Dir
<1>3. BootsInOrder' BY DEF BootsInOrder, BootedTo
<1>4. PoolsFollow' BY DEF PoolsFollow
<1>7. WarmIn' BY DEF WarmIn
<1>8. Stopped' BY DEF Stopped, P!Awaited
<1>5. Posts' BY DEF Posts, Booted
<1>6. P!OneVersion' /\ P!PostsHome' BY DEF P!OneVersion, P!PostsHome
<1> QED BY <1>1, <1>2, <1>3, <1>4, <1>5, <1>6, <1>7, <1>8

(* What a pass does until its images are built leaves the servers alone.     *)
LEMMA ApiServersStay ==
  ASSUME ApiInv, work.at # "idle",
         apiStage' = apiStage \/ (apiStage = "build" /\ apiStage' = "failed"),
         UNCHANGED <<passes, changes, accepting, good, present, apiVersion, pools, endpoint, warmed,
                     background>>
  PROVE  BootsInOrder' /\ PoolsFollow' /\ WarmIn' /\ Stopped' /\ Posts' /\ P!OneVersion' /\ P!PostsHome'
<1> USE DEF ApiInv
<1>1. apiStage \notin {"warm", "probe", "bind"}
  BY DEF BootsInOrder, P!Idle
<1>2. BootsInOrder' BY <1>1 DEF BootsInOrder
<1>3. PoolsFollow' BY DEF PoolsFollow, Serving, P!Cleaning
<1>6. WarmIn' BY DEF WarmIn
<1>7. Stopped' BY DEF Stopped, P!Awaited
<1>4. Posts' BY DEF Posts, Booted, P!Cleaning
<1>5. P!OneVersion' /\ P!PostsHome' BY DEF P!OneVersion, P!PostsHome, P!Cleaning
<1> QED BY <1>2, <1>3, <1>4, <1>5, <1>6, <1>7

(* The files of a pass. *)
PassTypes ==
  /\ apiStage \in P!Cleaning \cup P!Booting \cup {"serving", "exited", "forced", "failed", "killed"}
  /\ credsFile \in {"none", "disk", "known"}
  /\ work \in [at : {"idle", "synth", "profile", "writing", "layers", "unzip", "env", "images"},
               lambda : Nat]

LEMMA ApiEnters ==
  ASSUME PassTypes, NEW i \in Nat, P!Enters(i)
  PROVE  /\ apiStage' = apiStage \/ (apiStage = "build" /\ apiStage' = "failed")
         /\ work' \in [at : {"idle", "layers", "images"}, lambda : Nat]
         /\ \E new : /\ tmpDirs' = tmpDirs \cup new /\ tracked' = tracked \cup new
                     /\ late' = IF apiStage = "creds" THEN late \cup new ELSE late
<1>1. CASE i > Len(Resolved)
  <2>1. UNCHANGED <<tmpDirs, tracked, late, apiStage>> /\ work' = [at |-> "images", lambda |-> i]
    BY <1>1 DEF P!Enters, P!GoesOn, P!dirVars
  <2>2. tmpDirs' = tmpDirs \cup {} /\ tracked' = tracked \cup {} /\ late' =
            IF apiStage = "creds" THEN late \cup {} ELSE late
    BY <2>1
  <2> QED BY <2>1, <2>2
<1>2. CASE ~(i > Len(Resolved))
  <2> DEFINE d == [pass |-> passes, lambda |-> i, what |-> "code"]
  <2>1. /\ tmpDirs' = tmpDirs \cup {d} /\ tracked' = tracked \cup {d}
        /\ late' = IF apiStage = "creds" THEN late \cup {d} ELSE late
        /\ P!GoesOn("layers", i) \/ P!Throws
    BY <1>2 DEF P!Enters
  <2> HIDE DEF d
  <2>2. /\ apiStage' = apiStage \/ (apiStage = "build" /\ apiStage' = "failed")
        /\ work' \in [at : {"idle", "layers", "images"}, lambda : Nat]
    BY <2>1 DEF P!GoesOn, P!Throws, P!Idle
  <2> QED BY <2>1, <2>2
<1> QED BY <1>1, <1>2

LEMMA ApiBuilds ==
  ASSUME ApiInv, P!ApiAlive, UNCHANGED <<apiWarm, apiProfile, changes>>, P!Builds
  PROVE  ApiInv'
<1>1. PassTypes /\ ApiInv
  BY DEF ApiInv, ApiTypes, PassTypes
<1>2. UNCHANGED <<passes, accepting, good, present, apiVersion, pools, endpoint, warmed,
                  background>>
  BY DEF P!Builds, P!serverVars
<1>3. work.at # "idle" /\ work.lambda \in Nat /\ work.lambda + 1 \in Nat
  BY <1>1 DEF P!Builds, P!Synthesizes, P!ResolvesProfile, P!WritesProfile, P!MaterializesLayers,
    P!ResolvesEnv, PassTypes
<1> DEFINE Same == apiStage' = apiStage \/ (apiStage = "build" /\ apiStage' = "failed")
           Types == Same /\ PassTypes' /\ FilesKnown'
<1>4. ASSUME P!Synthesizes PROVE Types
  <2>1. CASE P!Throws /\ UNCHANGED P!dirVars
    BY <1>1, <1>2, <1>3, <1>4, <2>1 DEF P!Synthesizes, P!Throws, P!dirVars, ApiInv, PassTypes,
      FilesKnown, P!Idle, P!ApiAlive, P!Cleaning, P!Booting, P!Dir
  <2>2. CASE apiProfile /\ P!GoesOn("profile", 1) /\ UNCHANGED P!dirVars
    BY <1>1, <1>2, <1>3, <1>4, <2>2 DEF P!Synthesizes, P!GoesOn, P!dirVars, ApiInv, PassTypes,
      FilesKnown, P!ApiAlive, P!Cleaning, P!Booting, P!Dir
  <2>3. CASE ~apiProfile /\ P!Enters(1)
    BY <1>1, <1>2, <1>3, <1>4, <2>3, ApiEnters DEF P!Synthesizes, ApiInv, PassTypes, FilesKnown,
      P!ApiAlive, P!Cleaning, P!Booting, P!Dir
  <2> QED BY <1>4, <2>1, <2>2, <2>3 DEF P!Synthesizes
<1>5. ASSUME P!ResolvesProfile PROVE Types
  <2>1. CASE P!Throws /\ UNCHANGED <<credsFile, P!dirVars>>
    BY <1>1, <1>2, <1>3, <1>5, <2>1 DEF P!ResolvesProfile, P!Throws, P!dirVars, ApiInv, PassTypes,
      FilesKnown, P!Idle, P!ApiAlive, P!Cleaning, P!Booting, P!Dir
  <2>2. CASE credsFile = "none" /\ P!GoesOn("writing", 1) /\ credsFile' = "disk" /\ UNCHANGED P!dirVars
    <3>1. apiStage = "build"
      BY <1>1, <1>5, <2>2 DEF P!ResolvesProfile, ApiInv, BootsInOrder, PassTypes, FilesKnown,
        P!ApiAlive, P!Cleaning, P!Booting, P!Idle
    <3> QED BY <1>1, <1>2, <1>3, <1>5, <2>2, <3>1 DEF P!ResolvesProfile, P!GoesOn, P!dirVars,
              ApiInv, PassTypes, FilesKnown, P!ApiAlive, P!Cleaning, P!Booting, P!Dir
  <2>3. CASE credsFile # "none" /\ P!Enters(1) /\ UNCHANGED credsFile
    BY <1>1, <1>2, <1>3, <1>5, <2>3, ApiEnters DEF P!ResolvesProfile, ApiInv, PassTypes, FilesKnown,
      P!ApiAlive, P!Cleaning, P!Booting, P!Dir
  <2> QED BY <1>5, <2>1, <2>2, <2>3 DEF P!ResolvesProfile
<1>6. ASSUME P!WritesProfile PROVE Types
  <2>1. CASE P!Throws /\ UNCHANGED <<credsFile, P!dirVars>>
    BY <1>1, <1>2, <1>3, <1>6, <2>1 DEF P!WritesProfile, P!Throws, P!dirVars, ApiInv, PassTypes,
      FilesKnown, P!Idle, P!ApiAlive, P!Cleaning, P!Booting, P!Dir
  <2>2. CASE credsFile' = "known" /\ P!Enters(1)
    BY <1>1, <1>2, <1>3, <1>6, <2>2, ApiEnters DEF P!WritesProfile, ApiInv, PassTypes, FilesKnown,
      P!ApiAlive, P!Cleaning, P!Booting, P!Dir
  <2> QED BY <1>6, <2>1, <2>2 DEF P!WritesProfile
<1>7. ASSUME P!MaterializesLayers PROVE Types
  <2>1. UNCHANGED credsFile /\ work.at \in {"layers", "unzip"}
    BY <1>7 DEF P!MaterializesLayers
  <2>2. CASE work.at = "layers" /\ UNCHANGED P!dirVars /\ P!GoesOn("env", work.lambda)
    BY <1>1, <1>2, <1>3, <2>1, <2>2 DEF P!GoesOn, P!dirVars, ApiInv, PassTypes, FilesKnown,
      P!ApiAlive, P!Cleaning, P!Booting, P!Dir
  <2>3. CASE work.at = "layers" /\ UNCHANGED P!dirVars /\ P!Throws
    BY <1>1, <1>2, <1>3, <2>1, <2>3 DEF P!Throws, P!dirVars, ApiInv, PassTypes, FilesKnown, P!Idle,
      P!ApiAlive, P!Cleaning, P!Booting, P!Dir
  <2>4. CASE /\ work.at = "layers" /\ UNCHANGED tracked
             /\ tmpDirs' = tmpDirs \cup {P!Dir("layer")}
             /\ late' = IF apiStage = "creds" THEN late \cup {P!Dir("layer")} ELSE late
             /\ P!GoesOn("unzip", work.lambda)
    BY <1>1, <1>2, <1>3, <2>1, <2>4 DEF P!GoesOn, ApiInv, PassTypes, FilesKnown, P!ApiAlive,
      P!Cleaning, P!Booting, P!Dir
  <2>5. CASE /\ work.at = "unzip" /\ UNCHANGED late
             /\ P!Throws /\ tmpDirs' = tmpDirs \ {P!Dir("layer")} /\ UNCHANGED tracked
    BY <1>1, <1>2, <1>3, <2>1, <2>5 DEF P!Throws, ApiInv, PassTypes, FilesKnown, P!Idle, P!ApiAlive,
      P!Cleaning, P!Booting
  <2>6. CASE /\ work.at = "unzip" /\ UNCHANGED late
             /\ tracked' = tracked \cup {P!Dir("layer")} /\ P!GoesOn("env", work.lambda) /\ UNCHANGED tmpDirs
    BY <1>1, <1>2, <1>3, <2>1, <2>6 DEF P!GoesOn, ApiInv, PassTypes, FilesKnown, P!ApiAlive,
      P!Cleaning, P!Booting
  <2> QED BY <1>7, <2>2, <2>3, <2>4, <2>5, <2>6 DEF P!MaterializesLayers, P!dirVars
<1>8. ASSUME P!ResolvesEnv PROVE Types
  <2>1. CASE P!Throws /\ UNCHANGED P!dirVars
    BY <1>1, <1>2, <1>3, <1>8, <2>1 DEF P!ResolvesEnv, P!Throws, P!dirVars, ApiInv, PassTypes,
      FilesKnown, P!Idle, P!ApiAlive, P!Cleaning, P!Booting, P!Dir
  <2>2. CASE P!Enters(work.lambda + 1)
    BY <1>1, <1>2, <1>3, <1>8, <2>2, ApiEnters DEF P!ResolvesEnv, ApiInv, PassTypes, FilesKnown,
      P!ApiAlive, P!Cleaning, P!Booting, P!Dir
  <2> QED BY <1>8, <2>1, <2>2 DEF P!ResolvesEnv
<1>9. Types
  BY <1>4, <1>5, <1>6, <1>7, <1>8 DEF P!Builds
<1>10. ApiTypes'
  BY <1>1, <1>2, <1>9 DEF ApiInv, ApiTypes, PassTypes
<1> QED BY <1>1, <1>2, <1>3, <1>9, <1>10, ApiServersStay DEF ApiInv

(* The boot goes on to API n. *)
LEMMA ApiBoots ==
  ASSUME ApiTypes, NEW n \in 1 .. Len(P!BootOrder) + 1, NEW probed, P!Boots(n, probed),
         accepting' = {P!BootOrder[k] : k \in 1 .. n - 1},
         \A k \in DOMAIN P!BootOrder :
            pools[P!BootOrder[k]] = [p \in P!Passes |-> IF p = 1 /\ k < n THEN "open" ELSE "none"],
         \A k \in DOMAIN P!BootOrder : k < n => apiVersion[P!BootOrder[k]] = 1,
         work' = P!Idle, good' = 1, present' = P!Http, passes' = 1, changes' = 0, background' = {}
  PROVE  /\ apiStage' \in {"serving", "probe", "warm", "bind"}
         /\ apiVersion' \in [P!Apis -> Nat]
         /\ pools' \in [P!Apis -> [P!Passes -> {"none", "open", "unused", "disposing", "gone"}]]
         /\ \A a \in P!Apis, p \in P!Passes :
              pools'[a][p] = pools[a][p] \/ (pools[a][p] = "none" /\ pools'[a][p] = "open")
         /\ apiStage' = "serving" => accepting' = P!Apis
         /\ BootsInOrder' /\ PoolsFollow' /\ P!OneVersion'
<1> USE ApiConstants
<1>1. /\ Len(P!BootOrder) \in Nat /\ Len(Groups) \in Nat
      /\ DOMAIN P!BootOrder = 1 .. Len(P!BootOrder)
      /\ \A k \in 1 .. Len(P!BootOrder) : P!BootOrder[k] \in P!Apis
      /\ \A a \in P!Apis : \E k \in 1 .. Len(P!BootOrder) : P!BootOrder[k] = a
      /\ \A i, j \in 1 .. Len(P!BootOrder) : P!BootOrder[i] = P!BootOrder[j] => i = j
  BY ApiOrder
<1>2. /\ apiVersion \in [P!Apis -> Nat]
      /\ pools \in [P!Apis -> [P!Passes -> {"none", "open", "unused", "disposing", "gone"}]]
  BY DEF ApiTypes
<1>3. CASE n > Len(P!BootOrder)
  <2>1. apiStage' = "serving" /\ apiVersion' = apiVersion /\ pools' = pools
    BY <1>3 DEF P!Boots
  <2>2. n = Len(P!BootOrder) + 1
    BY <1>1, <1>3
  <2>3. accepting' = P!Apis
    BY <1>1, <2>2
  <2>4. /\ \A a \in P!Apis : apiVersion[a] = 1
        /\ \A a \in P!Apis, p \in P!Passes : pools[a][p] = IF p = 1 THEN "open" ELSE "none"
    <3> SUFFICES ASSUME NEW a \in P!Apis
                 PROVE  /\ apiVersion[a] = 1
                        /\ \A p \in P!Passes : pools[a][p] = IF p = 1 THEN "open" ELSE "none"
      OBVIOUS
    <3>1. PICK k \in 1 .. Len(P!BootOrder) : P!BootOrder[k] = a
      BY <1>1
    <3>2. k < n
      BY <1>1, <2>2
    <3>3. pools[a] = [p \in P!Passes |-> IF p = 1 /\ k < n THEN "open" ELSE "none"]
      BY <1>1, <3>1
    <3> QED BY <1>1, <3>1, <3>2, <3>3
  <2>5. PoolsFollow'
    BY <1>1, <2>1, <2>4, ApiOrder DEF PoolsFollow, P!Passes, P!Idle
  <2>6. BootsInOrder' /\ P!OneVersion'
    BY <2>1, <2>4, ApiOrder DEF BootsInOrder, P!OneVersion
  <2> QED BY <1>2, <2>1, <2>3, <2>5, <2>6
<1>4. CASE ~(n > Len(P!BootOrder)) /\ n = Len(Groups) + 1 /\ ~probed
  <2>1. apiStage' = "probe" /\ apiVersion' = apiVersion /\ pools' = pools
    BY <1>4 DEF P!Boots
  <2>2. BootedTo(n)'
    BY <1>1, <2>1 DEF BootedTo
  <2>3. BootsInOrder'
    BY <1>1, <1>4, <2>1, <2>2 DEF BootsInOrder
  <2>4. PoolsFollow' /\ P!OneVersion'
    BY <2>1 DEF PoolsFollow, P!OneVersion, Serving, P!Cleaning
  <2> QED BY <1>2, <2>1, <2>3, <2>4
<1>5. CASE ~(n > Len(P!BootOrder)) /\ ~(n = Len(Groups) + 1 /\ ~probed)
  <2>1. /\ apiVersion' = [apiVersion EXCEPT ![P!BootOrder[n]] = 1]
        /\ pools' = [pools EXCEPT ![P!BootOrder[n]][1] = "open"]
        /\ apiStage' \in {"warm", "bind"} /\ (apiStage' = "warm" => n <= Len(Groups))
    BY <1>5 DEF P!Boots
  <2>2. n \in 1 .. Len(P!BootOrder)
    BY <1>1, <1>5
  <2>3. P!BootOrder[n] \in P!Apis /\ 1 \in P!Passes
    BY <1>1, <2>2
  <2>4. /\ apiVersion' \in [P!Apis -> Nat]
        /\ pools' \in [P!Apis -> [P!Passes -> {"none", "open", "unused", "disposing", "gone"}]]
        /\ \A a \in P!Apis \ {P!BootOrder[n]} : apiVersion'[a] = apiVersion[a] /\ pools'[a] = pools[a]
        /\ apiVersion'[P!BootOrder[n]] = 1
        /\ pools'[P!BootOrder[n]] = [pools[P!BootOrder[n]] EXCEPT ![1] = "open"]
    BY <1>2, <2>1, <2>3
  <2>5. /\ pools[P!BootOrder[n]] = [p \in P!Passes |-> "none"]
        /\ pools'[P!BootOrder[n]] = [p \in P!Passes |-> IF p = 1 THEN "open" ELSE "none"]
    <3>1. pools[P!BootOrder[n]] = [p \in P!Passes |-> "none"]
      BY <1>1, <2>2
    <3> QED BY <2>4, <3>1
  <2>6. \A k \in DOMAIN P!BootOrder :
          pools'[P!BootOrder[k]] = [p \in P!Passes |-> IF p = 1 /\ (k < n \/ k = n) THEN "open" ELSE "none"]
    <3> SUFFICES ASSUME NEW k \in 1 .. Len(P!BootOrder)
                 PROVE  pools'[P!BootOrder[k]] =
                          [p \in P!Passes |-> IF p = 1 /\ (k < n \/ k = n) THEN "open" ELSE "none"]
      BY <1>1
    <3>1. CASE k = n
      BY <2>5, <3>1
    <3>2. CASE k # n
      <4>1. P!BootOrder[k] \in P!Apis \ {P!BootOrder[n]}
        BY <1>1, <2>2, <3>2
      <4>2. pools'[P!BootOrder[k]] = [p \in P!Passes |-> IF p = 1 /\ k < n THEN "open" ELSE "none"]
        BY <1>1, <2>4, <4>1
      <4> QED BY <3>2, <4>2
    <3> QED BY <3>1, <3>2
  <2>7. \A k \in DOMAIN P!BootOrder : k < n \/ k = n => apiVersion'[P!BootOrder[k]] = 1
    BY <1>1, <2>2, <2>4
  <2>8. BootedTo(n)'
    BY <2>1, <2>6, <2>7 DEF BootedTo
  <2>9. BootsInOrder'
    BY <1>1, <2>1, <2>2, <2>8 DEF BootsInOrder
  <2>10. PoolsFollow' /\ P!OneVersion'
    BY <2>1 DEF PoolsFollow, P!OneVersion, Serving, P!Cleaning
  <2>11. \A a \in P!Apis, p \in P!Passes :
           pools'[a][p] = pools[a][p] \/ (pools[a][p] = "none" /\ pools'[a][p] = "open")
    <3> SUFFICES ASSUME NEW a \in P!Apis, NEW p \in P!Passes
                 PROVE  pools'[a][p] = pools[a][p] \/ (pools[a][p] = "none" /\ pools'[a][p] = "open")
      OBVIOUS
    <3>1. CASE a = P!BootOrder[n]
      BY <2>5, <3>1
    <3>2. CASE a # P!BootOrder[n]
      BY <2>4, <3>2
    <3> QED BY <3>1, <3>2
  <2> QED BY <2>1, <2>4, <2>9, <2>10, <2>11
<1> QED BY <1>3, <1>4, <1>5

LEMMA ApiNext1 ==
  ASSUME NEW n \in DOMAIN P!BootOrder, BootedTo(n)
  PROVE  P!Next1 = P!BootOrder[n] /\ P!Number(P!Next1) = n
<1>1. /\ Len(P!BootOrder) \in Nat /\ DOMAIN P!BootOrder = 1 .. Len(P!BootOrder)
      /\ \A i, j \in 1 .. Len(P!BootOrder) : P!BootOrder[i] = P!BootOrder[j] => i = j
      /\ accepting = {P!BootOrder[k] : k \in 1 .. n - 1}
  BY ApiOrder DEF BootedTo
<1> DEFINE Fits(m) == P!BootOrder[m] \notin accepting /\ \A k \in 1 .. m - 1 : P!BootOrder[k] \in accepting
<1>2. Fits(n)
  BY <1>1
<1>3. \A m \in 1 .. Len(P!BootOrder) : Fits(m) => m = n
  <2> SUFFICES ASSUME NEW m \in 1 .. Len(P!BootOrder), Fits(m) PROVE m = n
    OBVIOUS
  <2>1. ~(m < n)
    BY <1>1
  <2>2. ~(n < m)
    BY <1>1, <1>2
  <2> QED BY <1>1, <2>1, <2>2
<1> HIDE DEF Fits
<1>4. (CHOOSE m \in 1 .. Len(P!BootOrder) : Fits(m)) = n
  BY <1>1, <1>2, <1>3
<1>5. P!Next1 = P!BootOrder[n]
  BY <1>4 DEF P!Next1, Fits
<1> QED BY <1>1, <1>5 DEF P!Number

LEMMA ApiBuildsFirst ==
  ASSUME ApiInv, P!ApiAlive, UNCHANGED <<apiWarm, apiProfile, changes>>, P!BuildsFirst
  PROVE  ApiInv'
<1> USE DEF ApiInv
<1>1. /\ work.at = "images" /\ apiStage = "build"
      /\ UNCHANGED <<credsFile, tmpDirs, tracked, late, passes, changes, apiProfile, accepting,
                     endpoint, warmed, background>>
  BY DEF P!BuildsFirst, P!dirVars
<1>2. CASE P!Throws /\ UNCHANGED <<good, present, apiVersion, pools>>
  <2>1. work' = P!Idle /\ apiStage' = "failed"
    BY <1>1, <1>2 DEF P!Throws
  <2>2. ApiTypes' /\ FilesKnown'
    BY <1>1, <1>2, <2>1 DEF ApiTypes, FilesKnown, P!Idle, P!Cleaning, P!Booting
  <2> QED BY <1>1, <1>2, <2>1, <2>2, ApiServersStay
<1>3. CASE work' = P!Idle /\ good' = 1 /\ present' = P!Http /\ P!Boots(1, FALSE)
  <2>1. /\ accepting = {} /\ warmed = {} /\ passes = 1 /\ changes = 0 /\ background = {}
        /\ \A a \in P!Apis, p \in P!Passes : pools[a][p] = "none"
        /\ \A l \in P!Lambdas : endpoint[l] = Nothing
    BY <1>1 DEF BootsInOrder
  <2>2. \A a \in P!Apis : pools[a] = [p \in P!Passes |-> "none"]
    BY <2>1 DEF ApiTypes
  <2>3. /\ Len(P!BootOrder) \in Nat /\ DOMAIN P!BootOrder = 1 .. Len(P!BootOrder)
        /\ \A k \in DOMAIN P!BootOrder : P!BootOrder[k] \in P!Apis
        /\ P!Apis = P!Http \cup P!ToSet(Sockets)
    BY ApiOrder
  <2>4. /\ 1 \in 1 .. Len(P!BootOrder) + 1
        /\ accepting' = {P!BootOrder[k] : k \in 1 .. 1 - 1}
        /\ \A k \in DOMAIN P!BootOrder :
             pools[P!BootOrder[k]] = [p \in P!Passes |-> IF p = 1 /\ k < 1 THEN "open" ELSE "none"]
        /\ \A k \in DOMAIN P!BootOrder : k < 1 => apiVersion[P!BootOrder[k]] = 1
    BY <1>1, <2>1, <2>2, <2>3
  <2>5. /\ apiStage' \in {"serving", "probe", "warm", "bind"}
        /\ apiVersion' \in [P!Apis -> Nat]
        /\ pools' \in [P!Apis -> [P!Passes -> {"none", "open", "unused", "disposing", "gone"}]]
        /\ apiStage' = "serving" => accepting' = P!Apis
        /\ BootsInOrder' /\ PoolsFollow' /\ P!OneVersion'
    BY <1>1, <1>3, <2>1, <2>4, ApiBoots
  <2>6. ApiTypes'
    BY <1>1, <1>3, <2>5 DEF ApiTypes, P!Idle, P!Booting
  <2>7. FilesKnown'
    <3>1. /\ \A d \in tmpDirs : d \in tracked
          /\ (apiProfile => credsFile = "known") /\ (~apiProfile => credsFile = "none")
          /\ credsFile # "disk"
      BY <1>1 DEF FilesKnown
    <3>2. work'.at = "idle" /\ apiStage' \notin {"creds", "exited"} /\ tmpDirs' = tmpDirs /\ tracked' = tracked
          /\ credsFile' = credsFile /\ apiProfile' = apiProfile
      BY <1>1, <1>3, <2>5 DEF P!Idle
    <3> HIDE DEF ApiInv
    <3> QED BY <3>1, <3>2 DEF FilesKnown
  <2>8. WarmIn' /\ Stopped' /\ P!PostsHome'
    BY <1>1, <2>1, <2>5 DEF WarmIn, Stopped, P!PostsHome
  <2>9. Posts'
    BY <1>1, <2>1, <2>3, <2>5 DEF Posts, Booted, P!Cleaning
  <2> QED BY <2>5, <2>6, <2>7, <2>8, <2>9
<1> QED BY <1>2, <1>3 DEF P!BuildsFirst

(* While it boots. *)
LEMMA ApiBooting ==
  ASSUME ApiInv, apiStage \in {"warm", "probe", "bind"}
  PROVE  /\ passes = 1 /\ changes = 0 /\ background = {} /\ work = P!Idle /\ good = 1 /\ present = P!Http
         /\ \E n \in DOMAIN P!BootOrder : BootedTo(n) /\ (apiStage = "warm" => n <= Len(Groups))
              /\ (apiStage = "probe" => n = Len(Groups) + 1)
<1> QED BY DEF ApiInv, BootsInOrder

LEMMA ApiProbes ==
  ASSUME ApiInv, P!ApiAlive, UNCHANGED <<apiWarm, apiProfile, changes>>, P!Probes
  PROVE  ApiInv'
<1> USE DEF ApiInv
<1>1. /\ apiStage = "probe"
      /\ UNCHANGED <<credsFile, work, passes, changes, tmpDirs, tracked, late, apiProfile,
                     accepting, good, present,
                     endpoint, warmed, background>>
  BY DEF P!Probes, P!passVars, P!dirVars
<1>2. CASE apiStage' = "failed" /\ UNCHANGED <<apiVersion, pools>>
  <2>1. ApiTypes' /\ FilesKnown'
    BY <1>1, <1>2 DEF ApiTypes, FilesKnown, P!Dir, P!Cleaning
  <2>2. BootsInOrder' /\ PoolsFollow' /\ WarmIn' /\ Stopped' /\ P!OneVersion' /\ P!PostsHome'
    BY <1>1, <1>2 DEF BootsInOrder, PoolsFollow, WarmIn, Stopped, P!OneVersion, P!PostsHome,
      Serving, P!Cleaning
  <2>3. Posts'
    BY <1>1, <1>2 DEF Posts, Booted, P!Cleaning
  <2> QED BY <2>1, <2>2, <2>3
<1>3. CASE P!Boots(Len(Groups) + 1, TRUE)
  <2>1. PICK n \in DOMAIN P!BootOrder : BootedTo(n) /\ n = Len(Groups) + 1
    BY <1>1, ApiBooting
  <2>2. passes = 1 /\ changes = 0 /\ background = {} /\ work = P!Idle /\ good = 1 /\ present = P!Http
    BY <1>1, ApiBooting
  <2>3. /\ Len(P!BootOrder) \in Nat /\ DOMAIN P!BootOrder = 1 .. Len(P!BootOrder)
        /\ P!Apis = P!Http \cup P!ToSet(Sockets)
    BY ApiOrder
  <2>4. /\ n \in 1 .. Len(P!BootOrder) + 1
        /\ accepting' = {P!BootOrder[k] : k \in 1 .. n - 1}
        /\ \A k \in DOMAIN P!BootOrder :
             pools[P!BootOrder[k]] = [p \in P!Passes |-> IF p = 1 /\ k < n THEN "open" ELSE "none"]
        /\ \A k \in DOMAIN P!BootOrder : k < n => apiVersion[P!BootOrder[k]] = 1
    BY <1>1, <2>1, <2>3 DEF BootedTo
  <2>5. /\ apiStage' \in {"serving", "probe", "warm", "bind"}
        /\ apiVersion' \in [P!Apis -> Nat]
        /\ pools' \in [P!Apis -> [P!Passes -> {"none", "open", "unused", "disposing", "gone"}]]
        /\ \A a \in P!Apis, p \in P!Passes :
             pools'[a][p] = pools[a][p] \/ (pools[a][p] = "none" /\ pools'[a][p] = "open")
        /\ apiStage' = "serving" => accepting' = P!Apis
        /\ BootsInOrder' /\ PoolsFollow' /\ P!OneVersion'
    BY <1>1, <1>3, <2>1, <2>2, <2>4, ApiBoots
  <2>6. ApiTypes'
    BY <1>1, <2>5 DEF ApiTypes, P!Booting
  <2>7. FilesKnown'
    <3>1. /\ \A d \in tmpDirs : d \in tracked
          /\ (apiProfile => credsFile = "known") /\ (~apiProfile => credsFile = "none")
          /\ credsFile # "disk"
      BY <1>1, <2>2 DEF FilesKnown, P!Idle
    <3>2. work'.at = "idle" /\ apiStage' \notin {"creds", "exited"} /\ tmpDirs' = tmpDirs /\ tracked' = tracked
          /\ credsFile' = credsFile /\ apiProfile' = apiProfile
      BY <1>1, <2>2, <2>5 DEF P!Idle
    <3> HIDE DEF ApiInv
    <3> QED BY <3>1, <3>2 DEF FilesKnown
  <2>8. WarmIn' /\ Stopped' /\ P!PostsHome'
    <3>1. \A c \in warmed : c.api \in P!Apis /\ c.pass \in P!Passes
      BY DEF ApiTypes
    <3>2. WarmIn'
      BY <1>1, <2>5, <3>1 DEF WarmIn
    <3> QED BY <1>1, <2>5, <3>2 DEF Stopped, P!PostsHome
  <2>9. Posts'
    BY <1>1, <2>3, <2>5 DEF Posts, Booted, P!Cleaning
  <2> QED BY <2>5, <2>6, <2>7, <2>8, <2>9
<1> QED BY <1>2, <1>3 DEF P!Probes

(* A container of a server that listens, or did. *)
LEMMA ApiContainer ==
  ASSUME ApiInv, NEW a \in P!Apis, NEW l \in Backing[a], apiVersion[a] \in P!Passes,
         a \in P!ToSet(Sockets) => Booted(a) /\ apiVersion[a] = 1
  PROVE  /\ P!Container(a, l) \in
              [api : P!Apis, pass : P!Passes, lambda : P!Lambdas, posts : P!Apis \cup {Nothing}]
         /\ P!Container(a, l).api = a /\ P!Container(a, l).pass = apiVersion[a]
         /\ LET homes == {s \in P!ToSet(Sockets) : P!Container(a, l).lambda \in Backing[s]}
            IN /\ homes = {P!Container(a, l).api} => P!Container(a, l).posts = P!Container(a, l).api
               /\ homes = {} => P!Container(a, l).posts = Nothing
<1>1. l \in P!Lambdas
  BY ApiConstants
<1>2. endpoint[l] \in P!Apis \cup {Nothing}
  BY <1>1 DEF ApiInv, ApiTypes
<1>3. P!Container(a, l) = [api |-> a, pass |-> apiVersion[a], lambda |-> l,
                           posts |-> IF apiVersion[a] = 1 THEN endpoint[l] ELSE Nothing]
  BY DEF P!Container
<1>4. /\ endpoint[l] # Nothing => endpoint[l] \in {s \in P!ToSet(Sockets) : l \in Backing[s]}
      /\ a \in P!ToSet(Sockets) => endpoint[l] # Nothing
  BY <1>1 DEF ApiInv, Posts
<1> QED BY <1>1, <1>2, <1>3, <1>4

LEMMA ApiWarms ==
  ASSUME ApiInv, P!ApiAlive, UNCHANGED <<apiWarm, apiProfile, changes>>, P!Warms
  PROVE  ApiInv'
<1>1. /\ apiStage = "warm" /\ apiStage' = "bind"
      /\ UNCHANGED <<credsFile, work, passes, changes, tmpDirs, tracked, late, apiProfile,
                     accepting, good, present,
                     apiVersion, pools, endpoint, background>>
  BY DEF P!Warms, P!passVars, P!dirVars
<1>2. PICK n \in DOMAIN P!BootOrder : BootedTo(n) /\ n <= Len(Groups)
  BY <1>1, ApiBooting
<1>3. /\ n \in 1 .. Len(P!BootOrder)
      /\ P!BootOrder[n] \in P!Http /\ P!BootOrder[n] \in P!Apis
      /\ P!BootOrder[n] \notin P!ToSet(Sockets) /\ P!Next1 = P!BootOrder[n]
  <2>1. n \in 1 .. Len(P!BootOrder)
    BY ApiOrder
  <2>2. P!BootOrder[n] \in P!Http
    BY <1>2, <2>1, ApiOrder
  <2> QED BY <1>2, <2>1, <2>2, ApiOrder, ApiNext1
<1>4. apiVersion[P!BootOrder[n]] = 1 /\ pools[P!BootOrder[n]][1] = "open"
  BY <1>1, <1>2, ApiConstants DEF BootedTo
<1>5. PICK begun \in SUBSET Backing[P!BootOrder[n]] :
        warmed' = warmed \cup {P!Container(P!BootOrder[n], l) : l \in begun}
  BY <1>3 DEF P!Warms
<1>6. \A l \in begun :
        /\ P!Container(P!BootOrder[n], l) \in
             [api : P!Apis, pass : P!Passes, lambda : P!Lambdas, posts : P!Apis \cup {Nothing}]
        /\ P!Container(P!BootOrder[n], l).api = P!BootOrder[n] /\ P!Container(P!BootOrder[n], l).pass = 1
        /\ LET homes == {s \in P!ToSet(Sockets) : P!Container(P!BootOrder[n], l).lambda \in Backing[s]}
           IN /\ homes = {P!Container(P!BootOrder[n], l).api} =>
                      P!Container(P!BootOrder[n], l).posts = P!Container(P!BootOrder[n], l).api
              /\ homes = {} => P!Container(P!BootOrder[n], l).posts = Nothing
  BY <1>3, <1>4, <1>5, ApiContainer, ApiConstants
<1> HIDE DEF P!Warms
<1>7. ApiTypes'
  BY <1>1, <1>5, <1>6 DEF ApiInv, ApiTypes, P!Booting
<1>8. FilesKnown'
  BY <1>1 DEF ApiInv, FilesKnown, P!Dir, P!Cleaning
<1>9. BootsInOrder'
  <2>1. BootedTo(n)'
    BY <1>1, <1>2 DEF BootedTo
  <2> QED BY <1>1, <2>1, ApiBooting DEF BootsInOrder
<1>10. PoolsFollow' /\ Stopped' /\ P!OneVersion'
  BY <1>1 DEF ApiInv, PoolsFollow, Stopped, P!OneVersion, Serving, P!Cleaning
<1>11. WarmIn'
  BY <1>1, <1>4, <1>5, <1>6 DEF ApiInv, WarmIn
<1>12. Posts'
  BY <1>1 DEF ApiInv, Posts, Booted, P!Cleaning
<1>13. P!PostsHome'
  BY <1>5, <1>6 DEF ApiInv, P!PostsHome
<1> QED BY <1>7, <1>8, <1>9, <1>10, <1>11, <1>12, <1>13 DEF ApiInv

LEMMA ApiBinds ==
  ASSUME ApiInv, P!ApiAlive, UNCHANGED <<apiWarm, apiProfile, changes>>, P!Binds
  PROVE  ApiInv'
<1> USE DEF ApiInv
<1>1. /\ apiStage = "bind"
      /\ UNCHANGED <<credsFile, work, passes, changes, tmpDirs, tracked, late, apiProfile, good,
                     present,
                     warmed, background>>
  BY DEF P!Binds, P!passVars, P!dirVars
<1>2. CASE apiStage' = "failed" /\ UNCHANGED <<accepting, endpoint, apiVersion, pools>>
  <2>1. ApiTypes' /\ FilesKnown'
    BY <1>1, <1>2 DEF ApiTypes, FilesKnown, P!Dir, P!Cleaning
  <2>2. BootsInOrder' /\ PoolsFollow' /\ WarmIn' /\ Stopped' /\ P!OneVersion' /\ P!PostsHome'
    BY <1>1, <1>2 DEF BootsInOrder, PoolsFollow, WarmIn, Stopped, P!OneVersion, P!PostsHome,
      Serving, P!Cleaning
  <2>3. Posts'
    BY <1>1, <1>2 DEF Posts, Booted, P!Cleaning
  <2> QED BY <2>1, <2>2, <2>3
<1>3. CASE /\ accepting' = accepting \cup {P!Next1}
           /\ endpoint' = [l \in P!Lambdas |->
                IF P!Next1 \notin P!Http /\ l \in Backing[P!Next1] THEN P!Next1 ELSE endpoint[l]]
           /\ P!Boots(P!Number(P!Next1) + 1, P!Next1 \notin P!Http)
  <2>1. PICK n \in DOMAIN P!BootOrder : BootedTo(n)
    BY <1>1, ApiBooting
  <2>2. passes = 1 /\ changes = 0 /\ background = {} /\ work = P!Idle /\ good = 1 /\ present = P!Http
    BY <1>1, ApiBooting
  <2>3. /\ Len(P!BootOrder) \in Nat /\ DOMAIN P!BootOrder = 1 .. Len(P!BootOrder)
        /\ P!Apis = P!Http \cup P!ToSet(Sockets)
        /\ \A k \in 1 .. Len(P!BootOrder) : P!BootOrder[k] \in P!Apis
    BY ApiOrder
  <2>4. P!Next1 = P!BootOrder[n] /\ P!Number(P!Next1) = n /\ n \in 1 .. Len(P!BootOrder)
    BY <2>1, <2>3, ApiNext1
  <2>5. P!Next1 \in P!Apis /\ P!Next1 # Nothing
    BY <2>3, <2>4, ApiConstants
  <2>6. /\ n + 1 \in 1 .. Len(P!BootOrder) + 1
        /\ accepting' = {P!BootOrder[k] : k \in 1 .. (n + 1) - 1}
        /\ \A k \in DOMAIN P!BootOrder :
             pools[P!BootOrder[k]] = [p \in P!Passes |-> IF p = 1 /\ k < n + 1 THEN "open" ELSE "none"]
        /\ \A k \in DOMAIN P!BootOrder : k < n + 1 => apiVersion[P!BootOrder[k]] = 1
    <3>1. accepting' = {P!BootOrder[k] : k \in 1 .. n}
      BY <1>3, <2>1, <2>4 DEF BootedTo
    <3>2. \A k \in DOMAIN P!BootOrder : k < n + 1 <=> (k < n \/ k = n)
      BY <2>3, <2>4
    <3>3. \A k \in DOMAIN P!BootOrder :
            pools[P!BootOrder[k]] = [p \in P!Passes |-> IF p = 1 /\ (k < n \/ k = n) THEN "open" ELSE "none"]
      BY <1>1, <2>1 DEF BootedTo
    <3>4. \A k \in DOMAIN P!BootOrder : k < n \/ k = n => apiVersion[P!BootOrder[k]] = 1
      BY <1>1, <2>1 DEF BootedTo
    <3> QED BY <2>3, <2>4, <3>1, <3>2, <3>3, <3>4
  <2>7. /\ apiStage' \in {"serving", "probe", "warm", "bind"}
        /\ apiVersion' \in [P!Apis -> Nat]
        /\ pools' \in [P!Apis -> [P!Passes -> {"none", "open", "unused", "disposing", "gone"}]]
        /\ \A a \in P!Apis, p \in P!Passes :
             pools'[a][p] = pools[a][p] \/ (pools[a][p] = "none" /\ pools'[a][p] = "open")
        /\ apiStage' = "serving" => accepting' = P!Apis
        /\ BootsInOrder' /\ PoolsFollow' /\ P!OneVersion'
    <3>1. P!Boots(n + 1, P!Next1 \notin P!Http)
      BY <1>3, <2>4
    <3>2. \E probed : P!Boots(n + 1, probed)
      BY <3>1
    <3> QED BY <1>1, <2>2, <2>6, <3>2, ApiBoots
  <2>8. ApiTypes'
    <3>1. endpoint' \in [P!Lambdas -> P!Apis \cup {Nothing}]
      BY <1>3, <2>5 DEF ApiTypes
    <3>2. accepting' \subseteq P!Apis
      BY <1>3, <2>5 DEF ApiTypes
    <3> QED BY <1>1, <2>7, <3>1, <3>2 DEF ApiTypes, P!Booting
  <2>9. FilesKnown'
    <3>1. /\ \A d \in tmpDirs : d \in tracked
          /\ (apiProfile => credsFile = "known") /\ (~apiProfile => credsFile = "none")
          /\ credsFile # "disk"
      BY <1>1, <2>2 DEF FilesKnown, P!Idle
    <3>2. work'.at = "idle" /\ apiStage' \notin {"creds", "exited"} /\ tmpDirs' = tmpDirs /\ tracked' = tracked
          /\ credsFile' = credsFile /\ apiProfile' = apiProfile
      BY <1>1, <2>2, <2>7 DEF P!Idle
    <3> HIDE DEF ApiInv
    <3> QED BY <3>1, <3>2 DEF FilesKnown
  <2>10. WarmIn' /\ Stopped' /\ P!PostsHome'
    <3>1. \A c \in warmed : c.api \in P!Apis /\ c.pass \in P!Passes
      BY DEF ApiTypes
    <3>2. WarmIn'
      BY <1>1, <2>7, <3>1 DEF WarmIn
    <3> QED BY <1>1, <2>7, <3>2 DEF Stopped, P!PostsHome
  <2>11. Posts'
    <3> SUFFICES ASSUME NEW l \in P!Lambdas
                 PROVE  /\ endpoint'[l] # Nothing =>
                            endpoint'[l] \in P!ToSet(Sockets) /\ l \in Backing[endpoint'[l]]
                        /\ \A s \in P!ToSet(Sockets) : Booted(s)' /\ l \in Backing[s] => endpoint'[l] # Nothing
      BY DEF Posts
    <3>1. endpoint'[l] = IF P!Next1 \notin P!Http /\ l \in Backing[P!Next1] THEN P!Next1 ELSE endpoint[l]
      BY <1>3
    <3>2. endpoint'[l] # Nothing => endpoint'[l] \in P!ToSet(Sockets) /\ l \in Backing[endpoint'[l]]
      BY <2>3, <2>5, <3>1 DEF Posts
    <3>3. ASSUME NEW s \in P!ToSet(Sockets), Booted(s)', l \in Backing[s] PROVE endpoint'[l] # Nothing
      <4>1. s \in accepting'
        BY <2>3, <2>7, <3>3 DEF Booted, P!Cleaning
      <4>2. s \in accepting \/ s = P!Next1
        BY <1>3, <4>1
      <4>3. CASE s \in accepting
        BY <2>5, <3>1, <3>3, <4>3 DEF Posts, Booted
      <4>4. CASE s = P!Next1
        <5>1. s \notin P!Http
          BY ApiOrder
        <5> QED BY <2>5, <3>1, <3>3, <4>4, <5>1
      <4> QED BY <4>2, <4>3, <4>4
    <3> QED BY <3>2, <3>3
  <2> QED BY <2>7, <2>8, <2>9, <2>10, <2>11
<1> QED BY <1>2, <1>3 DEF P!Binds

(* A version that is served, or was: of a server that listens or is stopped. *)
LEMMA ApiServed ==
  ASSUME ApiInv, P!ApiAlive, NEW a \in P!Apis, a \in accepting \/ apiStage \in P!Cleaning
  PROVE  /\ apiVersion[a] \in P!Passes /\ Booted(a)
         /\ a \in P!ToSet(Sockets) => apiVersion[a] = 1
<1>1. CASE apiStage \in Serving
  <2>1. apiVersion[a] \in 1 .. passes /\ passes \in P!Passes
    BY <1>1 DEF ApiInv, ApiTypes, PoolsFollow
  <2>2. apiVersion[a] \in P!Passes
    BY <2>1, ApiConstants DEF P!Passes
  <2> QED BY <1>1, <2>2 DEF ApiInv, PoolsFollow, Booted, Serving
<1>2. CASE apiStage \in {"warm", "probe", "bind"}
  <2>1. PICK n \in DOMAIN P!BootOrder : BootedTo(n)
    BY <1>2, ApiBooting
  <2>2. PICK k \in 1 .. n - 1 : a = P!BootOrder[k]
    BY <1>2, <2>1 DEF BootedTo, P!Cleaning
  <2>3. k \in DOMAIN P!BootOrder /\ k < n
    BY <2>1, <2>2, ApiOrder
  <2>4. apiVersion[a] = 1
    BY <2>1, <2>2, <2>3 DEF BootedTo
  <2> QED BY <1>2, <2>4, ApiConstants DEF Booted, P!Cleaning
<1>3. CASE apiStage = "build"
  BY <1>3 DEF ApiInv, BootsInOrder, P!Cleaning
<1> QED BY <1>1, <1>2, <1>3 DEF ApiInv, ApiTypes, P!ApiAlive, Serving, P!Booting

LEMMA ApiColdStarts ==
  ASSUME ApiInv, P!ApiAlive, UNCHANGED <<apiWarm, apiProfile, changes>>,
         NEW a \in P!Apis, NEW l \in Backing[a], P!ColdStart(a, l)
  PROVE  ApiInv'
<1>1. /\ a \in accepting \/ apiStage \in P!Cleaning
      /\ pools[a][apiVersion[a]] = "open"
      /\ warmed' = warmed \cup {P!Container(a, l)}
      /\ UNCHANGED <<apiStage, credsFile, work, passes, changes, tmpDirs, tracked, late, apiProfile,
                     accepting, good,
                     present, apiVersion, pools, endpoint, background>>
  BY DEF P!ColdStart, P!passVars, P!dirVars
<1>2. /\ apiVersion[a] \in P!Passes /\ Booted(a)
      /\ a \in P!ToSet(Sockets) => apiVersion[a] = 1
  BY <1>1, ApiServed
<1>3. /\ P!Container(a, l) \in
              [api : P!Apis, pass : P!Passes, lambda : P!Lambdas, posts : P!Apis \cup {Nothing}]
      /\ P!Container(a, l).api = a /\ P!Container(a, l).pass = apiVersion[a]
      /\ LET homes == {s \in P!ToSet(Sockets) : P!Container(a, l).lambda \in Backing[s]}
         IN /\ homes = {P!Container(a, l).api} => P!Container(a, l).posts = P!Container(a, l).api
            /\ homes = {} => P!Container(a, l).posts = Nothing
  BY <1>2, ApiContainer
<1> HIDE DEF P!ColdStart
<1>4. ApiTypes' /\ FilesKnown'
  BY <1>1, <1>3 DEF ApiInv, ApiTypes, FilesKnown, P!Dir
<1>5. BootsInOrder'
  <2>1. apiStage # "build"
    BY <1>1 DEF ApiInv, BootsInOrder, P!Cleaning
  <2>2. CASE apiStage \in {"warm", "probe", "bind"}
    <3>1. PICK n \in DOMAIN P!BootOrder : BootedTo(n) /\ (apiStage = "warm" => n <= Len(Groups))
                                         /\ (apiStage = "probe" => n = Len(Groups) + 1)
      BY <2>2, ApiBooting
    <3>2. BootedTo(n)'
      BY <1>1, <3>1 DEF BootedTo
    <3> QED BY <1>1, <2>2, <3>1, <3>2, ApiBooting DEF BootsInOrder
  <2>3. CASE apiStage \notin {"warm", "probe", "bind"}
    BY <1>1, <2>1, <2>3 DEF BootsInOrder
  <2> QED BY <2>2, <2>3
<1>6. PoolsFollow' /\ P!OneVersion' /\ Posts'
  BY <1>1 DEF ApiInv, PoolsFollow, P!OneVersion, Posts, Booted
<1>7. WarmIn'
  BY <1>1, <1>3 DEF ApiInv, WarmIn
<1>8. Stopped'
  BY <1>1 DEF ApiInv, Stopped, P!Awaited, P!ApiAlive
<1>9. P!PostsHome'
  BY <1>1, <1>3 DEF ApiInv, P!PostsHome
<1> QED BY <1>4, <1>5, <1>6, <1>7, <1>8, <1>9 DEF ApiInv

LEMMA ApiCollects ==
  ASSUME ApiInv, P!ApiAlive, UNCHANGED <<apiWarm, apiProfile, changes>>, NEW c \in warmed,
                                         P!Collects(c)
  PROVE  ApiInv'
<1>1. /\ warmed' = warmed \ {c}
      /\ UNCHANGED <<apiStage, credsFile, work, passes, changes, tmpDirs, tracked, late, apiProfile,
                     accepting, good,
                     present, apiVersion, pools, endpoint, background>>
  BY DEF P!Collects, P!passVars, P!dirVars
<1> HIDE DEF P!Collects
<1>2. ApiTypes' /\ FilesKnown'
  BY <1>1 DEF ApiInv, ApiTypes, FilesKnown, P!Dir
<1>3. BootsInOrder' /\ PoolsFollow' /\ P!OneVersion' /\ Posts'
  BY <1>1 DEF ApiInv, BootsInOrder, BootedTo, PoolsFollow, P!OneVersion, Posts, Booted
<1>4. WarmIn' /\ Stopped' /\ P!PostsHome'
  BY <1>1 DEF ApiInv, WarmIn, Stopped, P!Awaited, P!PostsHome
<1> QED BY <1>2, <1>3, <1>4 DEF ApiInv

LEMMA ApiQueues ==
  ASSUME ApiInv, P!ApiAlive, UNCHANGED <<apiWarm, apiProfile>>, P!Changes \/ P!Reloads
  PROVE  ApiInv'
<1>1. CASE P!Changes
  <2>1. /\ apiStage = "serving" /\ passes + changes < MaxPasses /\ changes' = changes + 1
        /\ UNCHANGED <<apiStage, credsFile, work, passes, tmpDirs, tracked, late, apiProfile,
                       accepting, good,
                       present, apiVersion, pools, endpoint, warmed, background>>
    BY <1>1 DEF P!Changes, P!passVars, P!dirVars, P!serverVars
  <2>2. ApiTypes'
    BY <2>1, ApiConstants DEF ApiInv, ApiTypes, P!Passes
  <2>3. FilesKnown' /\ BootsInOrder'
    BY <2>1 DEF ApiInv, FilesKnown, P!Dir, BootsInOrder
  <2>4. PoolsFollow' /\ WarmIn' /\ Stopped' /\ Posts' /\ P!OneVersion' /\ P!PostsHome'
    BY <2>1 DEF ApiInv, PoolsFollow, WarmIn, Stopped, Posts, Booted, P!OneVersion, P!PostsHome
  <2> QED BY <2>2, <2>3, <2>4 DEF ApiInv
<1>2. CASE P!Reloads
  <2>1. /\ changes > 0 /\ work = P!Idle /\ changes' = changes - 1 /\ passes' = passes + 1
        /\ work' = [P!Idle EXCEPT !.at = "synth"]
        /\ UNCHANGED <<apiStage, credsFile, tmpDirs, tracked, late, apiProfile, accepting, good,
                       present, apiVersion, pools, endpoint, warmed, background>>
    BY <1>2 DEF P!Reloads, P!dirVars, P!serverVars
  <2>2. work.at = "idle" /\ work'.at = "synth" /\ work' = [at |-> "synth", lambda |-> 1]
    BY <2>1 DEF P!Idle
  <2>3. apiStage \in Serving
    BY <2>1 DEF ApiInv, ApiTypes, BootsInOrder, P!ApiAlive, P!Booting, Serving
  <2>4. ApiTypes'
    <3>1. passes' \in P!Passes /\ changes' \in Nat /\ passes' + changes' <= MaxPasses
      <4>1. passes \in Nat /\ passes >= 1 /\ changes \in Nat /\ passes + changes <= MaxPasses
        BY ApiConstants DEF ApiInv, ApiTypes, P!Passes
      <4> QED BY <2>1, <4>1, ApiConstants DEF P!Passes
    <3>2. work' \in [at : {"idle", "synth", "profile", "writing", "layers", "unzip", "env", "images"},
                    lambda : Nat]
      BY <2>2
    <3> QED BY <2>1, <3>1, <3>2 DEF ApiInv, ApiTypes
  <2>5. FilesKnown'
    BY <2>1, <2>2 DEF ApiInv, FilesKnown
  <2>6. BootsInOrder'
    BY <2>1, <2>3 DEF BootsInOrder, Serving, P!Cleaning
  <2>7. PoolsFollow'
    <3>1. passes \in Nat /\ passes' = passes + 1
      BY <2>1, ApiConstants DEF ApiInv, ApiTypes, P!Passes
    <3> QED BY <2>1, <2>3, <3>1 DEF ApiInv, PoolsFollow
  <2>8. WarmIn' /\ Stopped' /\ Posts' /\ P!OneVersion' /\ P!PostsHome'
    BY <2>1 DEF ApiInv, WarmIn, Stopped, P!Awaited, Posts, Booted, P!OneVersion, P!PostsHome
  <2> QED BY <2>4, <2>5, <2>6, <2>7, <2>8 DEF ApiInv
<1> QED BY <1>1, <1>2

LEMMA ApiDisposes ==
  ASSUME ApiInv, P!ApiAlive, UNCHANGED <<apiWarm, apiProfile, changes>>,
         NEW a \in P!Apis, NEW p \in P!Passes, P!Disposed(a, p)
  PROVE  ApiInv'
<1>1. /\ pools[a][p] = "disposing" /\ pools' = [pools EXCEPT ![a][p] = "gone"]
      /\ warmed' = {c \in warmed : c.api # a \/ c.pass # p}
      /\ UNCHANGED <<apiStage, credsFile, work, passes, changes, tmpDirs, tracked, late, apiProfile,
                     accepting, good,
                     present, apiVersion, endpoint, background>>
  BY DEF P!Disposed, P!passVars, P!dirVars
<1> HIDE DEF P!Disposed
<1>2. /\ pools \in [P!Apis -> [P!Passes -> {"none", "open", "unused", "disposing", "gone"}]]
      /\ pools' \in [P!Apis -> [P!Passes -> {"none", "open", "unused", "disposing", "gone"}]]
      /\ \A b \in P!Apis, q \in P!Passes : pools'[b][q] = IF b = a /\ q = p THEN "gone" ELSE pools[b][q]
  BY <1>1 DEF ApiInv, ApiTypes
<1>3. apiStage \in Serving
  <2>1. apiStage # "build"
    BY <1>1 DEF ApiInv, BootsInOrder
  <2>2. apiStage \notin {"warm", "probe", "bind"}
    <3> SUFFICES ASSUME apiStage \in {"warm", "probe", "bind"} PROVE FALSE
      OBVIOUS
    <3>1. PICK n \in DOMAIN P!BootOrder : BootedTo(n)
      BY ApiBooting
    <3>2. PICK k \in DOMAIN P!BootOrder : P!BootOrder[k] = a
      BY ApiOrder
    <3>3. pools[a][p] \in {"open", "none"}
      <4>1. pools[a] = [q \in P!Passes |->
              IF q = 1 /\ (k < n \/ (k = n /\ apiStage # "probe")) THEN "open" ELSE "none"]
        BY <3>1, <3>2 DEF BootedTo
      <4> QED BY <4>1
    <3> QED BY <1>1, <3>3
  <2> QED BY <2>1, <2>2 DEF ApiInv, ApiTypes, P!ApiAlive, P!Booting, Serving
<1>4. ApiTypes' /\ FilesKnown'
  BY <1>1, <1>2 DEF ApiInv, ApiTypes, FilesKnown, P!Dir
<1>5. BootsInOrder' /\ Posts'
  BY <1>1, <1>3 DEF ApiInv, BootsInOrder, Posts, Booted, Serving, P!Cleaning
<1>6. PoolsFollow'
  BY <1>1, <1>2 DEF ApiInv, PoolsFollow
<1>7. WarmIn'
  BY <1>1, <1>2 DEF ApiInv, ApiTypes, WarmIn
<1>8. Stopped'
  <2>1. apiStage = "creds" => ~P!Awaited'
    BY <1>1, <1>2 DEF ApiInv, Stopped, P!Awaited
  <2>2. apiStage # "exited"
    BY DEF P!ApiAlive
  <2>3. /\ \A b \in P!Apis, q \in P!Passes : pools'[b][q] = "open" => pools[b][q] = "open"
        /\ P!Http \subseteq P!Apis /\ P!ToSet(Sockets) \subseteq P!Apis
    BY <1>2 DEF P!Apis
  <2>4. Stopped
    BY DEF ApiInv
  <2>5. /\ apiStage \in {"pools", "socket pools", "creds"} =>
             \A b \in P!Http, q \in P!Passes : pools'[b][q] # "open"
        /\ apiStage \in {"socket pools", "creds"} =>
             \A b \in P!ToSet(Sockets), q \in P!Passes : pools'[b][q] # "open"
    BY <2>3, <2>4 DEF Stopped
  <2> QED BY <1>1, <2>1, <2>2, <2>4, <2>5 DEF Stopped
<1>9. P!OneVersion'
  <2>1. \A b \in accepting : b \in P!Apis /\ apiVersion[b] \in P!Passes
    <3>1. /\ \A b \in accepting : b \in P!Apis /\ apiVersion[b] \in 1 .. passes
          /\ passes \in P!Passes
      BY <1>3 DEF ApiInv, ApiTypes, PoolsFollow
    <3> QED BY <3>1, ApiConstants DEF P!Passes
  <2> QED BY <1>1, <1>2, <2>1 DEF ApiInv, P!OneVersion
<1>10. P!PostsHome'
  BY <1>1 DEF ApiInv, P!PostsHome
<1> QED BY <1>4, <1>5, <1>6, <1>7, <1>8, <1>9, <1>10 DEF ApiInv

(* Between the steps of a pass the credentials file stays known.             *)
LEMMA FilesStay ==
  ASSUME FilesKnown, UNCHANGED <<credsFile, apiProfile>>, apiStage # "exited",
         work' = work \/ (work.at = "images" /\ work'.at = "idle"),
         \/ apiStage' = "killed" /\ apiStage \in P!Booting
         \/ apiStage \in Serving /\ apiStage' \in Serving \cup {"forced"}
         \/ apiStage \in Serving /\ apiStage' = "exited" /\ credsFile = "none",
         apiStage' \notin {"creds", "exited", "failed", "killed", "forced"} =>
           \A d \in tmpDirs' : d \in tracked' \/ (work'.at = "unzip" /\ d = P!Dir("layer")'),
         apiStage' \in {"creds", "exited"} => tmpDirs' \subseteq late'
  PROVE  FilesKnown'
<1>1. /\ work.at \in {"profile", "writing"} => apiProfile
      /\ ~apiProfile => credsFile = "none"
      /\ work.at \in {"layers", "unzip", "env", "images"} => (apiProfile => credsFile = "known")
      /\ apiStage \in Serving => (apiProfile => credsFile = "known")
  BY DEF FilesKnown, Serving, P!Cleaning
<1>2. /\ work'.at \in {"profile", "writing"} => apiProfile'
      /\ ~apiProfile' => credsFile' = "none"
      /\ work'.at \in {"layers", "unzip", "env", "images"} => (apiProfile' => credsFile' = "known")
  BY <1>1
<1>3. apiStage' \in Serving => (apiProfile' => credsFile' = "known")
  <2>1. apiStage' \in Serving => apiStage \in Serving
    BY DEF Serving, P!Cleaning
  <2> QED BY <1>1, <2>1
<1>4. /\ work.at = "writing" => credsFile = "disk" /\ apiStage \in {"build", "killed"}
      /\ credsFile = "disk" => work.at = "writing" \/ apiStage \in {"failed", "killed"}
  BY DEF FilesKnown
<1>5. /\ work'.at = "writing" => credsFile' = "disk" /\ apiStage' \in {"build", "killed"}
      /\ credsFile' = "disk" => work'.at = "writing" \/ apiStage' \in {"failed", "killed"}
  BY <1>4 DEF Serving, P!Cleaning, P!Booting
<1>6. apiStage' = "exited" => credsFile' = "none"
  BY DEF Serving, P!Cleaning
<1>7. apiStage' \notin {"warm", "probe", "bind"}
  BY DEF Serving, P!Cleaning
<1>8. apiStage' \in P!Cleaning \cup {"warm", "probe", "bind", "serving"} => apiStage' \in Serving
  BY <1>7 DEF Serving
<1>9. (\/ work'.at \in {"layers", "unzip", "env", "images"} /\ apiStage' # "exited"
       \/ apiStage' \in P!Cleaning \cup {"warm", "probe", "bind", "serving"})
      => (apiProfile' => credsFile' = "known")
  BY <1>2, <1>3, <1>8
<1> QED BY <1>2, <1>5, <1>6, <1>9 DEF FilesKnown, P!Cleaning

LEMMA ApiSignal ==
  ASSUME ApiInv, P!ApiAlive, UNCHANGED <<apiWarm, apiProfile, changes>>, P!Signal
  PROVE  ApiInv'
<1>1. /\ \/ apiStage \in P!Booting /\ apiStage' = "killed"
         \/ apiStage = "serving" /\ apiStage' = "watcher"
         \/ apiStage \in P!Cleaning /\ apiStage' = "forced"
      /\ UNCHANGED <<credsFile, work, passes, changes, tmpDirs, tracked, late, apiProfile,
                     accepting, good,
                     present, apiVersion, pools, endpoint, warmed, background>>
  BY DEF ApiInv, ApiTypes, P!ApiAlive, P!Signal, P!passVars, P!dirVars, P!serverVars, P!Booting,
    P!Cleaning
<1> HIDE DEF P!Signal
<1>2. ApiTypes'
  BY <1>1 DEF ApiInv, ApiTypes, P!Cleaning
<1>3. FilesKnown'
  <2>1. /\ FilesKnown /\ apiStage # "exited" /\ P!Dir("layer")' = P!Dir("layer")
        /\ UNCHANGED <<tmpDirs, tracked, late, work, credsFile, apiProfile>>
    BY <1>1 DEF ApiInv, P!ApiAlive, P!Dir
  <2>2. \/ apiStage' = "killed" /\ apiStage \in P!Booting
        \/ apiStage \in Serving /\ apiStage' \in Serving \cup {"forced"}
    BY <1>1 DEF P!Cleaning, Serving
  <2>3. /\ apiStage' \notin {"creds", "exited", "failed", "killed", "forced"} =>
             \A d \in tmpDirs' : d \in tracked' \/ (work'.at = "unzip" /\ d = P!Dir("layer")')
        /\ apiStage' \in {"creds", "exited"} => tmpDirs' \subseteq late'
    BY <1>1, <2>1 DEF FilesKnown, P!Cleaning
  <2> QED BY <2>1, <2>2, <2>3, FilesStay
<1>4. BootsInOrder' /\ Posts'
  BY <1>1 DEF ApiInv, BootsInOrder, Posts, Booted, P!Cleaning, P!Booting
<1>5. PoolsFollow' /\ P!OneVersion'
  <2>1. CASE apiStage = "serving" /\ apiStage' = "watcher"
    BY <1>1, <2>1 DEF ApiInv, PoolsFollow, P!OneVersion, Serving, P!Cleaning
  <2>2. CASE apiStage' \in {"killed", "forced"}
    BY <2>2 DEF PoolsFollow, P!OneVersion, Serving, P!Cleaning
  <2> QED BY <1>1, <2>1, <2>2
<1>6. WarmIn' /\ Stopped' /\ P!PostsHome'
  BY <1>1 DEF ApiInv, WarmIn, Stopped, P!PostsHome
<1> QED BY <1>2, <1>3, <1>4, <1>5, <1>6 DEF ApiInv

LEMMA ApiSwaps ==
  ASSUME ApiInv, P!ApiAlive, UNCHANGED <<apiWarm, apiProfile, changes>>, P!Swaps
  PROVE  ApiInv'
<1>1. /\ work.at = "images" /\ apiStage # "build" /\ work' = P!Idle
      /\ UNCHANGED <<apiStage, credsFile, passes, changes, tmpDirs, tracked, late, apiProfile,
                     accepting, endpoint, warmed>>
  BY DEF P!Swaps, P!dirVars
<1>2. apiStage \in Serving
  BY <1>1 DEF ApiInv, ApiTypes, BootsInOrder, P!Idle, P!ApiAlive, P!Booting, Serving
<1>3. work' \in [at : {"idle"}, lambda : Nat] /\ work'.at = "idle"
  BY <1>1 DEF P!Idle
<1>4. FilesKnown'
  <2>1. /\ FilesKnown /\ apiStage # "exited" /\ work.at = "images" /\ work'.at = "idle"
        /\ UNCHANGED <<tmpDirs, tracked, late, apiStage, credsFile, apiProfile>>
    BY <1>1, <1>3 DEF ApiInv, P!ApiAlive
  <2>2. /\ apiStage' \notin {"creds", "exited", "failed", "killed", "forced"} =>
             \A d \in tmpDirs' : d \in tracked' \/ (work'.at = "unzip" /\ d = P!Dir("layer")')
        /\ apiStage' \in {"creds", "exited"} => tmpDirs' \subseteq late'
    BY <2>1 DEF FilesKnown
  <2> QED BY <1>2, <2>1, <2>2, FilesStay
<1>5. BootsInOrder' /\ Posts' /\ P!PostsHome'
  BY <1>1, <1>2 DEF ApiInv, BootsInOrder, Posts, Booted, P!PostsHome, Serving, P!Cleaning
<1>6. CASE UNCHANGED <<good, present, apiVersion, pools, background>>
  <2>1. ApiTypes'
    BY <1>1, <1>3, <1>6 DEF ApiInv, ApiTypes
  <2>2. PoolsFollow'
    BY <1>1, <1>3, <1>6 DEF ApiInv, PoolsFollow
  <2>3. WarmIn' /\ P!OneVersion'
    BY <1>1, <1>6 DEF ApiInv, WarmIn, P!OneVersion
  <2>4. Stopped'
    BY <1>1, <1>6 DEF ApiInv, Stopped, P!Awaited
  <2> QED BY <1>4, <1>5, <2>1, <2>2, <2>3, <2>4 DEF ApiInv
<1>7. ASSUME NEW found \in SUBSET P!Http,
             good' = passes, present' = found,
             apiVersion' = [a \in P!Apis |-> IF a \in P!Swapped(found) THEN passes ELSE apiVersion[a]],
             pools' = [a \in P!Apis |-> IF a \notin P!Swapped(found) THEN pools[a]
                 ELSE [pools[a] EXCEPT
                        ![apiVersion[a]] = IF @ = "open" THEN "disposing" ELSE @,
                        ![passes] = IF a \in accepting THEN "open" ELSE "unused"]],
             background' = background \cup
                 {<<a, apiVersion[a]>> : a \in {x \in P!Swapped(found) : pools[x][apiVersion[x]] = "open"}}
      PROVE  ApiInv'
  <2>1. /\ P!Swapped(found) = found /\ found \subseteq P!Apis
        /\ \A s \in P!ToSet(Sockets) : s \notin found /\ s \in P!Apis
    <3>1. P!Http \cap P!ToSet(Sockets) = {} /\ P!Apis = P!Http \cup P!ToSet(Sockets)
      BY ApiOrder
    <3> QED BY <3>1 DEF P!Swapped
  <2>2. /\ passes \in Nat /\ passes >= 1 /\ passes \in P!Passes /\ P!Passes \subseteq Nat
        /\ \A a \in P!Apis : apiVersion[a] \in P!Passes /\ apiVersion[a] < passes
        /\ \A p \in P!Passes : p \in Nat /\ p >= 1
    <3>1. /\ passes \in P!Passes
          /\ \A a \in P!Apis : apiVersion[a] \in 1 .. passes /\ apiVersion[a] < passes
      BY <1>1, <1>2 DEF ApiInv, ApiTypes, PoolsFollow
    <3> QED BY <3>1, ApiConstants DEF P!Passes
  <2>3. /\ pools \in [P!Apis -> [P!Passes -> {"none", "open", "unused", "disposing", "gone"}]]
        /\ apiVersion \in [P!Apis -> Nat]
    BY DEF ApiInv, ApiTypes
  <2>4. ASSUME NEW a \in found
        PROVE  /\ pools'[a] \in [P!Passes -> {"none", "open", "unused", "disposing", "gone"}]
               /\ pools'[a][passes] = IF a \in accepting THEN "open" ELSE "unused"
               /\ pools'[a][apiVersion[a]] =
                         IF pools[a][apiVersion[a]] = "open" THEN "disposing" ELSE pools[a][apiVersion[a]]
               /\ \A p \in P!Passes : p # passes /\ p # apiVersion[a] => pools'[a][p] = pools[a][p]
    <3>1. a \in P!Apis
      BY <2>1
    <3>2. pools'[a] = [pools[a] EXCEPT
             ![apiVersion[a]] = IF @ = "open" THEN "disposing" ELSE @,
             ![passes] = IF a \in accepting THEN "open" ELSE "unused"]
      BY <1>7, <2>1, <3>1
    <3>3. apiVersion[a] # passes /\ pools[a] \in [P!Passes -> {"none", "open", "unused", "disposing", "gone"}]
      BY <2>2, <2>3, <3>1
    <3> QED BY <2>2, <3>1, <3>2, <3>3
  <2>5. \A a \in P!Apis \ found : pools'[a] = pools[a] /\ apiVersion'[a] = apiVersion[a]
    BY <1>7, <2>1
  <2>6. \A a \in found : apiVersion'[a] = passes
    BY <1>7, <2>1
  <2>7. apiVersion' \in [P!Apis -> Nat]
    BY <1>7, <2>2, <2>3
  <2>8. pools' \in [P!Apis -> [P!Passes -> {"none", "open", "unused", "disposing", "gone"}]]
    <3>1. \A a \in P!Apis : pools'[a] \in [P!Passes -> {"none", "open", "unused", "disposing", "gone"}]
      BY <2>3, <2>4, <2>5
    <3>2. DOMAIN pools' = P!Apis /\ pools' = [a \in P!Apis |-> pools'[a]]
      BY <1>7
    <3> QED BY <3>1, <3>2
  <2>9. ApiTypes'
    BY <1>1, <1>3, <1>7, <2>7, <2>8 DEF ApiInv, ApiTypes
  <2>10. PoolsFollow'
    <3>1. \A a \in P!Apis : apiVersion'[a] \in 1 .. passes
      BY <2>2, <2>5, <2>6
    <3>2. \A s \in P!ToSet(Sockets) : apiVersion'[s] = 1
      BY <1>2, <2>1, <2>5 DEF ApiInv, PoolsFollow
    <3>3. ASSUME NEW a \in P!Apis, NEW p \in P!Passes
          PROVE  /\ p > apiVersion'[a] => pools'[a][p] = "none"
                 /\ pools'[a][p] = "open" => p = apiVersion'[a]
      <4>1. /\ p > apiVersion[a] => pools[a][p] = "none"
            /\ pools[a][p] = "open" => p = apiVersion[a]
        BY <1>2 DEF ApiInv, PoolsFollow
      <4>2. CASE a \in found
        <5>1. /\ apiVersion'[a] = passes /\ passes \in Nat /\ p \in Nat
              /\ apiVersion[a] \in Nat /\ apiVersion[a] < passes
              /\ pools'[a][apiVersion[a]] = "open" => FALSE
              /\ p # passes /\ p # apiVersion[a] => pools'[a][p] = pools[a][p]
          BY <2>2, <2>4, <2>6, <4>2
        <5>2. CASE p = passes
          BY <5>1, <5>2
        <5>3. CASE p = apiVersion[a]
          BY <5>1, <5>3
        <5>4. CASE p # passes /\ p # apiVersion[a]
          BY <4>1, <5>1, <5>4
        <5> QED BY <5>2, <5>3, <5>4
      <4>3. CASE a \notin found
        BY <2>5, <4>1, <4>3
      <4> QED BY <4>2, <4>3
    <3>4. good' \in 1 .. passes
      BY <1>7, <2>2
    <3> QED BY <1>1, <1>3, <3>1, <3>2, <3>3, <3>4 DEF PoolsFollow
  <2>11. WarmIn'
    <3> SUFFICES ASSUME NEW c \in warmed PROVE pools'[c.api][c.pass] \in {"open", "disposing"}
      BY <1>1 DEF WarmIn
    <3>1. /\ c.api \in P!Apis /\ c.pass \in P!Passes
          /\ pools[c.api][c.pass] \in {"open", "disposing"}
      BY DEF ApiInv, ApiTypes, WarmIn
    <3>2. c.pass # passes
      BY <1>2, <2>2, <3>1 DEF ApiInv, PoolsFollow
    <3> QED BY <2>4, <2>5, <3>1, <3>2
  <2>12. Stopped'
    <3>1. ASSUME accepting = {}, NEW a \in P!Apis, NEW p \in P!Passes, pools'[a][p] = "open"
          PROVE  pools[a][p] = "open"
      BY <2>4, <2>5, <3>1
    <3>2. /\ P!Http \subseteq P!Apis /\ P!ToSet(Sockets) \subseteq P!Apis
          /\ P!Apis = P!Http \cup P!ToSet(Sockets)
      BY DEF P!Apis
    <3>3. ASSUME apiStage = "creds" PROVE ~P!Awaited'
      <4>1. /\ \A a \in P!Apis, p \in P!Passes : pools[a][p] # "open"
            /\ ~P!Awaited
        BY <3>2, <3>3 DEF ApiInv, Stopped
      <4>2. ASSUME NEW a \in P!Apis, NEW p \in P!Passes, pools'[a][p] = "disposing"
            PROVE  pools[a][p] = "disposing"
        BY <2>4, <2>5, <4>1, <4>2
      <4>3. background \subseteq background'
        BY <1>7
      <4> QED BY <4>1, <4>2, <4>3 DEF P!Awaited
    <3>4. apiStage # "exited"
      BY DEF P!ApiAlive
    <3>5. Stopped
      BY DEF ApiInv
    <3>6. /\ apiStage \in {"pools", "socket pools", "creds"} =>
               \A b \in P!Http, q \in P!Passes : pools'[b][q] # "open"
          /\ apiStage \in {"socket pools", "creds"} =>
               \A b \in P!ToSet(Sockets), q \in P!Passes : pools'[b][q] # "open"
      BY <3>1, <3>2, <3>5 DEF Stopped
    <3> QED BY <1>1, <3>3, <3>4, <3>5, <3>6 DEF Stopped
  <2>13. P!OneVersion'
    <3>1. \A a \in accepting : a \in P!Apis /\ pools[a][apiVersion[a]] = "open"
      BY <1>2 DEF ApiInv, ApiTypes, P!OneVersion, Serving
    <3>2. \A a \in accepting : pools'[a][apiVersion'[a]] = "open"
      BY <2>4, <2>5, <2>6, <3>1
    <3> QED BY <1>1, <1>7, <2>6, <3>2 DEF P!OneVersion
  <2> QED BY <1>4, <1>5, <2>9, <2>10, <2>11, <2>12, <2>13 DEF ApiInv
<1> QED BY <1>6, <1>7 DEF P!Swaps

(* The disposal of the pools that are served. *)
LEMMA ApiDisposing ==
  ASSUME ApiInv, apiStage \in Serving, NEW apis \in SUBSET P!Apis, P!Disposing(apis)
  PROVE  /\ pools' \in [P!Apis -> [P!Passes -> {"none", "open", "unused", "disposing", "gone"}]]
         /\ \A a \in P!Apis, p \in P!Passes :
              pools'[a][p] = pools[a][p] \/ (pools[a][p] \in {"open", "unused"} /\ pools'[a][p] = "disposing")
         /\ \A a \in apis, p \in P!Passes : pools'[a][p] # "open"
<1>1. /\ pools \in [P!Apis -> [P!Passes -> {"none", "open", "unused", "disposing", "gone"}]]
      /\ \A a \in P!Apis : apiVersion[a] \in P!Passes
      /\ \A a \in P!Apis, p \in P!Passes : pools[a][p] = "open" => p = apiVersion[a]
  <2>1. \A a \in P!Apis : apiVersion[a] \in 1 .. passes /\ passes \in P!Passes
    BY DEF ApiInv, ApiTypes, PoolsFollow
  <2> QED BY <2>1, ApiConstants DEF ApiInv, ApiTypes, PoolsFollow, P!Passes
<1>2. \A a \in P!Apis \ apis : pools'[a] = pools[a]
  BY DEF P!Disposing
<1>3. \A a \in apis : pools'[a] = [pools[a] EXCEPT
         ![apiVersion[a]] = IF @ \in {"open", "unused"} THEN "disposing" ELSE @]
  BY DEF P!Disposing
<1>4. pools' = [a \in P!Apis |-> pools'[a]]
  BY DEF P!Disposing
<1>5. \A a \in apis :
        /\ pools'[a] \in [P!Passes -> {"none", "open", "unused", "disposing", "gone"}]
        /\ \A p \in P!Passes :
             /\ pools'[a][p] = pools[a][p] \/ (pools[a][p] \in {"open", "unused"} /\ pools'[a][p] = "disposing")
             /\ pools'[a][p] # "open"
  <2> SUFFICES ASSUME NEW a \in apis
               PROVE  /\ pools'[a] \in [P!Passes -> {"none", "open", "unused", "disposing", "gone"}]
                      /\ \A p \in P!Passes :
                           /\ \/ pools'[a][p] = pools[a][p]
                              \/ pools[a][p] \in {"open", "unused"} /\ pools'[a][p] = "disposing"
                           /\ pools'[a][p] # "open"
    OBVIOUS
  <2>1. /\ pools[a] \in [P!Passes -> {"none", "open", "unused", "disposing", "gone"}]
        /\ apiVersion[a] \in P!Passes
        /\ \A p \in P!Passes : pools[a][p] = "open" => p = apiVersion[a]
    BY <1>1
  <2>2. pools'[a] = [pools[a] EXCEPT
           ![apiVersion[a]] = IF @ \in {"open", "unused"} THEN "disposing" ELSE @]
    BY <1>3
  <2> QED BY <2>1, <2>2
<1>6. \A a \in P!Apis : pools'[a] \in [P!Passes -> {"none", "open", "unused", "disposing", "gone"}]
  BY <1>1, <1>2, <1>5
<1> QED BY <1>2, <1>4, <1>5, <1>6

LEMMA ApiCleans ==
  ASSUME ApiInv, P!ApiAlive, UNCHANGED <<apiWarm, apiProfile, changes>>, P!Cleans
  PROVE  ApiInv'
<1>1. /\ UNCHANGED <<work, passes, changes, apiProfile, good, present, apiVersion, endpoint, warmed,
                     background>>
      /\ apiStage \in P!Cleaning
  BY DEF P!Cleans, P!Cleaning
<1>2. apiStage \in Serving
  BY <1>1 DEF Serving
<1> DEFINE Later == accepting' \subseteq accepting /\ apiStage' \in P!Cleaning \cup {"exited"}
<1>3. ASSUME Later PROVE BootsInOrder' /\ Posts' /\ P!PostsHome'
  BY <1>1, <1>3 DEF ApiInv, BootsInOrder, Posts, Booted, P!PostsHome, P!Cleaning
<1>4. ASSUME Later, UNCHANGED pools PROVE PoolsFollow' /\ WarmIn' /\ P!OneVersion'
  BY <1>1, <1>2, <1>4 DEF ApiInv, PoolsFollow, WarmIn, P!OneVersion, Serving
<1>5. ASSUME apiStage' \in P!Cleaning, UNCHANGED <<tmpDirs, tracked, late, credsFile>>,
                                                   apiStage # "creds", apiStage' # "creds"
      PROVE  FilesKnown'
  <2>1. /\ FilesKnown /\ apiStage # "exited" /\ P!Dir("layer")' = P!Dir("layer")
        /\ apiStage \in Serving /\ apiStage' \in Serving
        /\ UNCHANGED <<tmpDirs, tracked, late, work, credsFile, apiProfile>>
    BY <1>1, <1>2, <1>5 DEF ApiInv, P!ApiAlive, P!Dir, Serving
  <2>2. /\ apiStage' \notin {"creds", "exited", "failed", "killed", "forced"} =>
             \A d \in tmpDirs' : d \in tracked' \/ (work'.at = "unzip" /\ d = P!Dir("layer")')
        /\ apiStage' \in {"creds", "exited"} => tmpDirs' \subseteq late'
    BY <1>1, <1>5, <2>1 DEF FilesKnown, P!Cleaning
  <2> QED BY <2>1, <2>2, FilesStay
<1>6. CASE apiStage = "watcher" /\ apiStage' = "sockets" /\ UNCHANGED <<accepting, pools, P!dirVars,
                                                                        credsFile>>
  <2>1. Later /\ UNCHANGED <<tmpDirs, tracked, late, credsFile>>
    BY <1>6 DEF P!Cleaning, P!dirVars
  <2>2. ApiTypes' /\ Stopped'
    BY <1>1, <1>6 DEF ApiInv, ApiTypes, Stopped, P!Cleaning
  <2> QED BY <1>3, <1>4, <1>5, <1>6, <2>1, <2>2 DEF ApiInv, P!Cleaning
<1>7. CASE apiStage = "sockets" /\ apiStage' = "servers" /\ accepting' = accepting \ P!Http
           /\ UNCHANGED <<pools, P!dirVars, credsFile>>
  <2>1. Later /\ UNCHANGED <<tmpDirs, tracked, late, credsFile>>
    BY <1>7 DEF P!Cleaning, P!dirVars
  <2>2. ApiTypes' /\ Stopped'
    BY <1>1, <1>7 DEF ApiInv, ApiTypes, Stopped, P!Cleaning
  <2> QED BY <1>3, <1>4, <1>5, <1>7, <2>1, <2>2 DEF ApiInv, P!Cleaning
<1>8. CASE apiStage = "servers" /\ apiStage' = "hosts" /\ accepting' = {}
           /\ UNCHANGED <<pools, P!dirVars, credsFile>>
  <2>1. Later /\ UNCHANGED <<tmpDirs, tracked, late, credsFile>>
    BY <1>8 DEF P!Cleaning, P!dirVars
  <2>2. ApiTypes' /\ Stopped'
    BY <1>1, <1>8 DEF ApiInv, ApiTypes, Stopped, P!Cleaning
  <2> QED BY <1>3, <1>4, <1>5, <1>8, <2>1, <2>2 DEF ApiInv, P!Cleaning
<1>9. ASSUME NEW apis \in SUBSET P!Apis, P!Disposing(apis), UNCHANGED <<accepting, P!dirVars,
                                                                        credsFile>>,
             apiStage \in {"hosts", "pools"}, apiStage' \in {"pools", "socket pools"},
             \A a \in P!Http : a \in apis \/ \A p \in P!Passes : pools[a][p] # "open",
             apiStage' = "socket pools" => \A a \in P!ToSet(Sockets) : a \in apis
      PROVE  ApiInv'
  <2>1. Later /\ UNCHANGED <<tmpDirs, tracked, late, credsFile>> /\ accepting = {}
    BY <1>9 DEF ApiInv, Stopped, P!Cleaning, P!dirVars
  <2>2. /\ pools' \in [P!Apis -> [P!Passes -> {"none", "open", "unused", "disposing", "gone"}]]
        /\ \A a \in P!Apis, p \in P!Passes :
             pools'[a][p] = pools[a][p] \/ (pools[a][p] \in {"open", "unused"} /\ pools'[a][p] = "disposing")
        /\ \A a \in apis, p \in P!Passes : pools'[a][p] # "open"
    BY <1>2, <1>9, ApiDisposing
  <2>3. P!Http \subseteq P!Apis /\ P!ToSet(Sockets) \subseteq P!Apis
    BY DEF P!Apis
  <2>4. ApiTypes'
    BY <1>1, <1>9, <2>1, <2>2 DEF ApiInv, ApiTypes, P!Cleaning
  <2>5. FilesKnown'
    BY <1>5, <1>9, <2>1 DEF P!Cleaning
  <2>6. PoolsFollow'
    BY <1>1, <1>2, <2>2 DEF ApiInv, PoolsFollow
  <2>7. WarmIn'
    BY <1>1, <2>2 DEF ApiInv, ApiTypes, WarmIn
  <2>8. Stopped'
    <3>1. ASSUME NEW a \in P!Http, NEW p \in P!Passes PROVE pools'[a][p] # "open"
      <4>1. CASE a \in apis
        BY <2>2, <4>1
      <4>2. CASE a \notin apis
        <5>1. pools[a][p] # "open" /\ a \in P!Apis
          BY <1>9, <2>3, <4>2
        <5> QED BY <2>2, <5>1
      <4> QED BY <4>1, <4>2
    <3>2. apiStage' = "socket pools" => \A a \in P!ToSet(Sockets), p \in P!Passes : pools'[a][p] # "open"
      BY <1>9, <2>2
    <3> QED BY <1>9, <2>1, <3>1, <3>2 DEF Stopped
  <2>9. P!OneVersion'
    BY <1>1, <1>2, <2>1 DEF ApiInv, P!OneVersion, Serving
  <2> QED BY <1>3, <2>1, <2>4, <2>5, <2>6, <2>7, <2>8, <2>9 DEF ApiInv
<1>10. CASE apiStage = "hosts" /\ apiStage' = "pools" /\ P!Disposing(P!Http)
            /\ UNCHANGED <<accepting, P!dirVars, credsFile>>
  <2>1. P!Http \in SUBSET P!Apis
    BY DEF P!Apis
  <2> QED BY <1>9, <1>10, <2>1
<1>11. CASE apiStage = "pools" /\ apiStage' = "socket pools" /\ P!Disposing(P!ToSet(Sockets))
            /\ UNCHANGED <<accepting, P!dirVars, credsFile>>
  <2>1. P!ToSet(Sockets) \in SUBSET P!Apis /\ \A a \in P!Http, p \in P!Passes : pools[a][p] # "open"
    BY <1>11 DEF P!Apis, ApiInv, Stopped
  <2> QED BY <1>9, <1>11, <2>1
<1>12. CASE /\ apiStage = "socket pools" /\ ~P!Awaited
            /\ tmpDirs' = tmpDirs \ tracked /\ UNCHANGED tracked
            /\ late' = IF work.at = "unzip" THEN {P!Dir("layer")} ELSE {}
            /\ apiStage' = IF credsFile = "known" THEN "creds" ELSE "exited"
            /\ UNCHANGED <<accepting, pools, credsFile>>
  <2>1. Later
    BY <1>12 DEF P!Cleaning
  <2>2. tmpDirs' \subseteq late'
    BY <1>12 DEF ApiInv, FilesKnown
  <2>3. FilesKnown'
    <3>1. /\ FilesKnown /\ apiStage = "socket pools" /\ UNCHANGED <<work, credsFile, apiProfile>>
          /\ apiStage' = IF credsFile = "known" THEN "creds" ELSE "exited"
      BY <1>1, <1>12 DEF ApiInv
    <3>2. credsFile \in {"none", "known"}
      BY <1>1, <3>1 DEF ApiInv, ApiTypes, FilesKnown
    <3>3. \/ apiStage' = "creds"
          \/ apiStage' = "exited" /\ credsFile = "none"
      BY <3>1, <3>2
    <3> QED BY <2>2, <3>1, <3>3, FilesStay DEF Serving, P!Cleaning
  <2>4. ApiTypes'
    BY <1>1, <1>12 DEF ApiInv, ApiTypes, P!Cleaning
  <2>5. Stopped'
    <3>1. /\ accepting = {}
          /\ \A a \in P!Apis, p \in P!Passes : pools[a][p] # "open"
      BY <1>12 DEF ApiInv, Stopped, P!Apis
    <3>2. \A c \in warmed : <<c.api, c.pass>> \in background
      BY <1>12, <3>1 DEF ApiInv, ApiTypes, WarmIn, P!Awaited
    <3>3. ~P!Awaited'
      BY <1>1, <1>12 DEF P!Awaited
    <3> QED BY <1>1, <1>12, <3>1, <3>2, <3>3 DEF ApiInv, Stopped
  <2> QED BY <1>3, <1>4, <1>12, <2>1, <2>3, <2>4, <2>5 DEF ApiInv
<1>13. CASE /\ apiStage = "creds" /\ apiStage' = "exited"
            /\ credsFile' = "none" /\ UNCHANGED <<accepting, pools, P!dirVars>>
  <2>1. Later /\ UNCHANGED <<tmpDirs, tracked, late>>
    BY <1>13 DEF P!Cleaning, P!dirVars
  <2>2. FilesKnown'
    BY <1>1, <1>13, <2>1 DEF ApiInv, FilesKnown, P!Cleaning
  <2>3. ApiTypes'
    BY <1>1, <1>13, <2>1 DEF ApiInv, ApiTypes, P!Cleaning
  <2>4. Stopped'
    <3>1. \A a \in P!Apis, p \in P!Passes : pools[a][p] # "open"
      BY <1>13 DEF ApiInv, Stopped, P!Apis
    <3>2. \A c \in warmed : <<c.api, c.pass>> \in background
      BY <1>13, <3>1 DEF ApiInv, ApiTypes, WarmIn, Stopped, P!Awaited
    <3> QED BY <1>1, <1>13, <3>2 DEF Stopped
  <2> QED BY <1>3, <1>4, <1>13, <2>1, <2>2, <2>3, <2>4 DEF ApiInv
<1> QED BY <1>6, <1>7, <1>8, <1>10, <1>11, <1>12, <1>13 DEF P!Cleans

LEMMA ApiStep == ASSUME ApiInv, P!ApiNext PROVE ApiInv'
<1>1. P!ApiAlive /\ UNCHANGED <<apiWarm, apiProfile>>
  BY DEF P!ApiNext
<1>2. \/ /\ P!Builds \/ P!BuildsFirst \/ P!Warms \/ P!Probes \/ P!Binds \/ P!Swaps \/ P!Cleans \/
            P!Signal
         /\ UNCHANGED changes
      \/ \E a \in P!Apis, p \in P!Passes : P!Disposed(a, p) /\ UNCHANGED changes
      \/ \E a \in P!Apis : \E l \in Backing[a] : P!ColdStart(a, l) /\ UNCHANGED changes
      \/ \E c \in warmed : P!Collects(c) /\ UNCHANGED changes
      \/ P!Changes \/ P!Reloads
  BY DEF P!ApiNext, P!ApiStep
<1> QED BY <1>1, <1>2, ApiBuilds, ApiBuildsFirst, ApiWarms, ApiProbes, ApiBinds, ApiSwaps,
          ApiCleans, ApiSignal,
      ApiDisposes, ApiColdStarts, ApiCollects, ApiQueues

LEMMA ApiHolds == ApiInv => P!ApiLeavesNothing /\ P!OneVersion /\ P!PostsHome
<1> QED BY DEF ApiInv, FilesKnown, Stopped, P!ApiLeavesNothing

-----------------------------------------------------------------------------
(* One of the commands runs; the others stay as they begin. *)

CommandsInv ==
  /\ InvokeInv /\ TaskInv /\ AgentInv /\ ApiInv
  /\ IF program = "web function" THEN WebInv ELSE web = "starting"
  /\ IF program = "cloudfront" THEN FrontInv ELSE cf = "urls" /\ consulted = {} /\ inflight = "none"

LEMMA CommandsStart == Init => CommandsInv
<1> SUFFICES ASSUME Init PROVE CommandsInv
  OBVIOUS
<1>1. web = "starting" /\ cf = "urls" /\ consulted = {} /\ inflight = "none"
  BY DEF Init, W!WebInit, C!FrontInit
<1> QED BY <1>1, InvokeStarts, TaskStarts, AgentStarts, ApiStarts, WebStarts,
          FrontStarts DEF CommandsInv

LEMMA CommandsStep == ASSUME CommandsInv, [Next]_vars PROVE CommandsInv'
<1> USE DEF CommandsInv
<1>1. ASSUME UNCHANGED webVars, UNCHANGED serveVars \/ program # "web function", UNCHANGED program
      PROVE  IF program' = "web function" THEN WebInv' ELSE web' = "starting"
  BY <1>1, WebStays DEF webVars
<1>2. ASSUME UNCHANGED frontVars, UNCHANGED serveVars \/ program # "cloudfront", UNCHANGED program
      PROVE  IF program' = "cloudfront" THEN FrontInv'
             ELSE cf' = "urls" /\ consulted' = {} /\ inflight' = "none"
  BY <1>2, FrontStays DEF frontVars
<1>3. CASE Invokes(I!Next)
  BY <1>1, <1>2, <1>3, InvokeStep, TaskStays, AgentStays, ApiStays DEF Invokes
<1>4. CASE RunsTask(T!Next)
  BY <1>1, <1>2, <1>4, TaskStep, InvokeStays, AgentStays, ApiStays DEF RunsTask
<1>5. CASE ServesWeb(W!WebNext)
  BY <1>2, <1>5, WebStep, InvokeStays, TaskStays, AgentStays, ApiStays DEF ServesWeb
<1>6. CASE Distributes(C!FrontNext)
  BY <1>1, <1>6, FrontStep, InvokeStays, TaskStays, AgentStays, ApiStays DEF Distributes
<1>7. CASE ServesAgent(A!AgentNext)
  BY <1>1, <1>2, <1>7, AgentStep, InvokeStays, TaskStays, ApiStays DEF ServesAgent
<1>8. CASE ServesApis(P!ApiNext)
  BY <1>1, <1>2, <1>8, ApiStep, InvokeStays, TaskStays, AgentStays DEF ServesApis
<1>9. CASE UNCHANGED vars
  BY <1>1, <1>2, <1>9, InvokeStays, TaskStays, AgentStays, ApiStays DEF vars
<1> QED BY <1>3, <1>4, <1>5, <1>6, <1>7, <1>8, <1>9 DEF Next

LEMMA CommandsAlways == Spec => []CommandsInv
<1> QED BY CommandsStart, CommandsStep, PTL DEF Spec

LEMMA CommandsHold == CommandsInv => NothingLeftBehind /\ Prerequisites /\ ServersAgree
<1> SUFFICES ASSUME CommandsInv PROVE NothingLeftBehind /\ Prerequisites /\ ServersAgree
  OBVIOUS
<1> USE DEF CommandsInv
<1>1. I!DirsReleased /\ I!SessionIsCurrent
  BY InvokeHolds
<1>2. T!NothingLeft /\ T!StartsInOrder
  BY TaskHolds
<1>3. A!AgentLeavesNothing /\ A!OneContainer /\ A!LeadsToContainer
  BY AgentHolds
<1>4. P!ApiLeavesNothing /\ P!OneVersion /\ P!PostsHome
  BY ApiHolds
<1>5. W!WebLeavesNothing
  BY DEF WebInv, W!WebLeavesNothing
<1>6. C!FrontLeavesNothing /\ C!OneDistribution /\ C!ServedToTheEnd
  <2>1. CASE program = "cloudfront"
    BY <2>1, FrontHolds
  <2>2. CASE program # "cloudfront"
    BY <2>2 DEF C!FrontLeavesNothing, C!OneDistribution, C!ServedToTheEnd
  <2> QED BY <2>1, <2>2
<1> QED BY <1>1, <1>2, <1>3, <1>4, <1>5, <1>6 DEF NothingLeftBehind, Prerequisites, ServersAgree

(* Whichever command runs, and wherever a step of it fails or a signal ends  *)
(* it: when it has ended by itself or by its cleanup, it leaves no           *)
(* directory, credentials, container, network or volume behind, but for the  *)
(* exceptions the code has, which each component names.                      *)
THEOREM EndedCommandsLeaveNothing == Spec => []NothingLeftBehind
<1> QED BY CommandsAlways, CommandsHold, PTL

(* A container of a task runs only after what it depends on has come to the  *)
(* condition, for any acyclic template; a watch session or the server of an  *)
(* agent never stays with a container that was replaced; and a request keeps *)
(* the distribution, the runners and the web functions it began with.        *)
THEOREM PrerequisitesHold == Spec => []Prerequisites
<1> QED BY CommandsAlways, CommandsHold, PTL

(* Every server of start-api whose API is still there serves the last pass   *)
(* that ended well, from a pool that is open; containers post back to the    *)
(* WebSocket API they are behind.                                            *)
THEOREM ServersAlwaysAgree == Spec => []ServersAgree
<1> QED BY CommandsAlways, CommandsHold, PTL

(* What a cleanup finds is all there is, but for what docker makes at that   *)
(* moment: that of an invocation takes the one container that runs, and that *)
(* of a task empties its list only when the others are gone.                 *)
THEOREM CleanupsTakeAll == Spec => CleanupTakesAll
<1> DEFINE Releases ==
             /\ cleaning = "idle" /\ cleaning' # "idle" => running \subseteq {doomed'} \/ reload = "answer"
             /\ pc' = "exited" => doomed \notin running
           Sweeps ==
             /\ taskCleaning = "containers" /\ taskCleaning' # taskCleaning /\ taskMode # "keep" =>
                   \A c \in T!Names : T!Exists(c) => taskPc = "running" /\ c = T!Starting
             /\ taskCleaning = "sidecar" /\ taskCleaning' # taskCleaning =>
                   "sidecar" \notin made' \/ taskPc = "networkMade"
<1>1. ASSUME UNCHANGED invokeVars PROVE [Releases]_(I!vars)
  BY <1>1 DEF invokeVars, I!vars, I!stepVars, I!containerVars, I!cleanVars, I!loopVars, I!reloadVars
<1>2. ASSUME UNCHANGED taskVars PROVE [Sweeps]_(T!vars)
  BY <1>2 DEF taskVars, T!vars, T!taskVars, T!runVars, T!dockerVars, T!cleanVars
<1>3. ASSUME CommandsInv, [Next]_vars PROVE [Releases]_(I!vars) /\ [Sweeps]_(T!vars)
  <2>1. CASE Invokes(I!Next)
    <3>1. Releases
      BY <1>3, <2>1, InvokeReleases DEF CommandsInv, Invokes
    <3> QED BY <1>2, <2>1, <3>1 DEF Invokes
  <2>2. CASE RunsTask(T!Next)
    <3>1. Sweeps
      BY <1>3, <2>2, TaskSweeps DEF CommandsInv, RunsTask
    <3> QED BY <1>1, <2>2, <3>1 DEF RunsTask
  <2>3. ASSUME UNCHANGED <<invokeVars, taskVars>> PROVE [Releases]_(I!vars) /\ [Sweeps]_(T!vars)
    <3>1. UNCHANGED invokeVars /\ UNCHANGED taskVars
      BY <2>3
    <3> QED BY <1>1, <1>2, <3>1
  <2>4. CASE ServesWeb(W!WebNext) \/ Distributes(C!FrontNext) \/ ServesAgent(A!AgentNext) \/
             ServesApis(P!ApiNext)
    BY <2>3, <2>4 DEF ServesWeb, Distributes, ServesAgent, ServesApis
  <2>5. CASE UNCHANGED vars
    BY <2>3, <2>5 DEF vars
  <2> QED BY <1>3, <2>1, <2>2, <2>4, <2>5 DEF Next
<1>4. Spec => [][Releases]_(I!vars) /\ [][Sweeps]_(T!vars)
  BY <1>3, CommandsAlways, PTL DEF Spec
<1> QED BY <1>4, PTL DEF CleanupTakesAll, I!ContainersReleased, T!LeavesOnlyInFlight
=============================================================================
