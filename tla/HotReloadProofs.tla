--------------------------- MODULE HotReloadProofs ---------------------------
(***************************************************************************)
(* Proofs about CustomToolManager for any number of files, names, writes   *)
(* and overlapping reloads: the type invariant, that close is final, that the registry      *)
(* follows the files when no two of them define the same tool, and that    *)
(* names Python cannot use are rejected cleanly.                           *)
(***************************************************************************)
EXTENDS HotReload, TLAPS

\* Removing tools keeps every type.
LEMMA RemoveTypes ==
  ASSUME ReloadAssumption, TypeOK, NEW f \in Files, NEW S, Remove(f, S)
  PROVE  /\ customTools' \in SUBSET Names /\ activeTools' \in SUBSET Names
         /\ fileToTool' \in [Files -> Names \cup {"none"}]
         /\ life' \in {"new", "starting", "running", "reopened", "closed", "crashed"}
  BY DEF Remove, TypeOK

\* So does removing a file's tool, whether the file had given one or not.
LEMMA RemoveFileTypes ==
  ASSUME ReloadAssumption, TypeOK, NEW f \in Files, removeFileTool(f)
  PROVE  /\ customTools' \in SUBSET Names /\ activeTools' \in SUBSET Names
         /\ fileToTool' \in [Files -> Names \cup {"none"}]
         /\ life' \in {"new", "starting", "running", "reopened", "closed", "crashed"}
<1>1. CASE fileToTool[f] = "none"
  BY <1>1 DEF removeFileTool, TypeOK, toolVars
<1>2. CASE fileToTool[f] # "none"
  BY <1>2, RemoveTypes DEF removeFileTool
<1>3. QED
  BY <1>1, <1>2

\* Registering a file's tool keeps every type.
LEMMA RegisterTypes ==
  ASSUME ReloadAssumption, TypeOK, NEW f \in Files, NEW n \in Names,
         registerLoadedTool(f, n)
  PROVE  /\ customTools' \in SUBSET Names /\ activeTools' \in SUBSET Names
         /\ fileToTool' \in [Files -> Names \cup {"none"}]
  BY DEF registerLoadedTool, Activated, TypeOK

\* A signature is 0 or a version.
LEMMA StatType ==
  ASSUME TypeOK, NEW f \in Files PROVE Stat(f) \in Nat
  BY DEF Stat, TypeOK

\* A reload is of one of the files.
LEMMA ReloadFile ==
  ASSUME NEW r \in Reloads PROVE FileOf(r) \in Files
<1>1. PICK f \in Files : \E k \in 1..MaxReloads[f] : r = <<f, k>>
  BY DEF Reloads
<1>2. QED
  BY <1>1 DEF FileOf

\* A new reload of f is one that was not under way.
LEMMA NewReloadFree ==
  ASSUME NEW f, Slots(f) # {}
  PROVE  NewReload(f) \in Reloads /\ stage[NewReload(f)] = "idle"
<1>1. NewReload(f) \in Slots(f)
  BY DEF NewReload
<1>2. QED
  BY <1>1 DEF Slots

\* Starting the reloads of some files keeps the type of the stages.
LEMMA StartsTypes ==
  ASSUME TypeOK, NEW files, StartReloads(files)
  PROVE  stage' \in [Reloads -> {"idle", "check", "import", "loaded", "stat"}]
  BY DEF StartReloads, TypeOK

\* What is noted of the version given to the registry has its type.
LEMMA GivenTypes ==
  ASSUME TypeOK, NEW f \in Files, NEW v \in Nat, Given(f, v)
  PROVE  newest' \in [Files -> Nat] /\ overtaken' \in SUBSET Files
<1>1. newest[f] \in Nat
  BY DEF TypeOK
<1>2. (IF v < newest[f] THEN newest[f] ELSE v) \in Nat
  BY <1>1
<1>3. newest' = [newest EXCEPT ![f] = IF v < newest[f] THEN newest[f] ELSE v]
  BY DEF Given
<1>4. newest' \in [Files -> Nat]
  BY <1>2, <1>3 DEF TypeOK
<1>5. overtaken' \in SUBSET Files
  BY DEF Given, TypeOK
<1>6. QED
  BY <1>4, <1>5

\* A new manager's state is typed.
LEMMA TypeInit == ReloadAssumption /\ Init => TypeOK
<1> SUFFICES ASSUME ReloadAssumption, Init PROVE TypeOK
  OBVIOUS
<1>1. /\ disk \in [Files -> {"absent", "invalid"} \cup Names]
      /\ version \in [Files -> Nat] /\ writes \in 0..MaxWrites
      /\ notice \in [Files -> BOOLEAN] /\ debounce \in [Files -> BOOLEAN]
  BY DEF Init, ReloadAssumption
<1>2. /\ stage \in [Reloads -> {"idle", "check", "import", "loaded", "stat"}]
      /\ found \in [Reloads -> {"absent", "invalid"} \cup Names]
      /\ seen \in [Reloads -> Nat]
  BY DEF Init
<1>3. /\ signature \in [Files -> Nat] /\ newest \in [Files -> Nat]
      /\ fileToTool \in [Files -> Names \cup {"none"}]
  BY DEF Init
<1>4. booting \in BOOLEAN /\ lossy \in BOOLEAN
  BY DEF Init
<1>5. QED
  BY <1>1, <1>2, <1>3, <1>4 DEF Init, TypeOK

\* Every step of the manager, of the disk's writers and of Node's loop keeps the types.
LEMMA TypeStep == ReloadAssumption /\ TypeOK /\ [Next]_vars => TypeOK'
<1> SUFFICES ASSUME ReloadAssumption, TypeOK, [Next]_vars PROVE TypeOK'
  OBVIOUS
<1> DEFINE Stages == {"idle", "check", "import", "loaded", "stat"}
           Lives  == {"new", "starting", "running", "reopened", "closed",
                      "crashed"}
           Tools  == /\ customTools' \in SUBSET Names
                     /\ activeTools' \in SUBSET Names
                     /\ fileToTool' \in [Files -> Names \cup {"none"}]
<1>1. ASSUME NEW f \in Files, NEW c \in Contents(f), Write(f, c) PROVE TypeOK'
  <2>1. c \in {"absent", "invalid"} \cup Names
    BY DEF Contents, ReloadAssumption
  <2>2. writes' \in 0..MaxWrites
    BY <1>1 DEF Write, TypeOK, ReloadAssumption
  <2>3. disk' \in [Files -> {"absent", "invalid"} \cup Names]
    BY <1>1, <2>1 DEF Write, TypeOK
  <2>4. version' \in [Files -> Nat] /\ notice' \in [Files -> BOOLEAN]
    BY <1>1 DEF Write, TypeOK, Watching
  <2>5. QED
    BY <1>1, <2>2, <2>3, <2>4 DEF Write, TypeOK, loadVars, startVars, toolVars,
                                  history, orderVars
<1>2. ASSUME NEW f \in Files, WatchEvent(f) \/ MissedEvent(f) PROVE TypeOK'
  BY <1>2 DEF WatchEvent, MissedEvent, TypeOK, diskVars, loadVars, startVars,
              toolVars, history, orderVars
<1>3. ASSUME NEW f \in Files, FireDebounce(f) PROVE TypeOK'
  <2>1. stage' \in [Reloads -> Stages]
    BY <1>3, NewReloadFree DEF FireDebounce, TypeOK
  <2>2. debounce' \in [Files -> BOOLEAN]
    BY <1>3 DEF FireDebounce, TypeOK
  <2>3. QED
    BY <1>3, <2>1, <2>2 DEF FireDebounce, TypeOK, diskVars, loadVars, startVars,
                            toolVars, history, orderVars
<1>4. CASE Start
  BY <1>4 DEF Start, TypeOK, diskVars, loadVars, toolVars, history, orderVars
<1>5. CASE StartWatching
  BY <1>5 DEF StartWatching, TypeOK, diskVars, loadVars, toolVars, history,
              orderVars
<1>6. CASE Close
  BY <1>6 DEF Close, TypeOK, diskVars, loadVars, startVars, toolVars, history,
              orderVars
<1>7. CASE scanForMissedChanges
  <2>1. signature' \in [Files -> Nat]
    BY <1>7, StatType DEF scanForMissedChanges
  <2>2. stage' \in [Reloads -> Stages]
    BY <1>7, StartsTypes DEF scanForMissedChanges
  <2>3. QED
    BY <1>7, <2>1, <2>2 DEF scanForMissedChanges, TypeOK, diskVars, loadVars,
                            startVars, toolVars, history, orderVars
<1>8. ASSUME NEW f \in Files, StartLoad(f) PROVE TypeOK'
  <2>1. Slots(f) # {}
    <3>1. PICK k \in 1..MaxReloads[f] : TRUE
      BY DEF ReloadAssumption
    <3>2. <<f, k>> \in Slots(f)
      BY <1>8, <3>1 DEF StartLoad, Quiet, Reloads, Slots, FileOf
    <3>3. QED
      BY <3>2
  <2>2. stage' \in [Reloads -> Stages]
    BY <1>8, <2>1, NewReloadFree DEF StartLoad, TypeOK
  <2>3. todo' \in SUBSET Files
    BY <1>8 DEF StartLoad, TypeOK
  <2>4. QED
    BY <1>8, <2>2, <2>3 DEF StartLoad, TypeOK, diskVars, loadVars, toolVars,
                            history, orderVars
<1>9. ASSUME NEW r \in Reloads, ReconcileCheck(r) PROVE TypeOK'
  <2>1. FileOf(r) \in Files /\ version[FileOf(r)] \in Nat
    BY ReloadFile DEF TypeOK
  <2>2. Tools /\ life' \in Lives
    BY <1>9, <2>1, RemoveFileTypes DEF ReconcileCheck, TypeOK, toolVars
  <2>3. newest' \in [Files -> Nat] /\ overtaken' \in SUBSET Files
    BY <1>9, <2>1, GivenTypes DEF ReconcileCheck, TypeOK, orderVars
  <2>4. stage' \in [Reloads -> Stages] /\ seen' \in [Reloads -> Nat]
    BY <1>9, <2>1 DEF ReconcileCheck, TypeOK
  <2>5. QED
    BY <1>9, <2>2, <2>3, <2>4 DEF ReconcileCheck, TypeOK, diskVars, startVars
<1>10. ASSUME NEW r \in Reloads, ReadFile(r) PROVE TypeOK'
  <2>1. /\ disk[FileOf(r)] \in {"absent", "invalid"} \cup Names
        /\ version[FileOf(r)] \in Nat
    BY ReloadFile DEF TypeOK
  <2>2. /\ stage' \in [Reloads -> Stages] /\ seen' \in [Reloads -> Nat]
        /\ found' \in [Reloads -> {"absent", "invalid"} \cup Names]
    BY <1>10, <2>1 DEF ReadFile, TypeOK
  <2>3. QED
    BY <1>10, <2>2 DEF ReadFile, TypeOK, diskVars, startVars, toolVars, history,
                       orderVars
<1>11. ASSUME NEW r \in Reloads, StartRegister(r) PROVE TypeOK'
  <2>1. FileOf(r) \in Files /\ seen[r] \in Nat
    BY ReloadFile DEF TypeOK
  <2>2. Tools
    BY <1>11, <2>1, RegisterTypes DEF StartRegister, TypeOK, toolVars
  <2>3. newest' \in [Files -> Nat] /\ overtaken' \in SUBSET Files
    BY <1>11, <2>1, GivenTypes DEF StartRegister
  <2>4. kept' \in SUBSET Names
    BY <1>11 DEF StartRegister, TypeOK, ReloadAssumption
  <2>5. stage' \in [Reloads -> Stages]
    BY <1>11 DEF StartRegister, TypeOK
  <2>6. QED
    BY <1>11, <2>2, <2>3, <2>4, <2>5 DEF StartRegister, TypeOK, diskVars, loadVars,
                                        startVars
<1>12. ASSUME NEW r \in Reloads, ReconcileRegister(r) PROVE TypeOK'
  <2>1. FileOf(r) \in Files /\ seen[r] \in Nat
    BY ReloadFile DEF TypeOK
  <2>2. Tools /\ life' \in Lives
    <3>1. CASE found[r] \notin Names
      BY <1>12, <2>1, <3>1, RemoveFileTypes DEF ReconcileRegister
    <3>2. CASE found[r] \in Names /\ Throws(With(FileOf(r), found[r]))
      BY <1>12, <2>1, <3>2, RemoveTypes DEF ReconcileRegister
    <3>3. CASE found[r] \in Names /\ ~Throws(With(FileOf(r), found[r]))
      <4>1. registerLoadedTool(FileOf(r), found[r]) /\ UNCHANGED life
        BY <1>12, <3>3 DEF ReconcileRegister
      <4>2. QED
        BY <2>1, <3>3, <4>1, RegisterTypes DEF TypeOK
    <3>4. QED
      BY <3>1, <3>2, <3>3
  <2>3. newest' \in [Files -> Nat] /\ overtaken' \in SUBSET Files
    BY <1>12, <2>1, GivenTypes DEF ReconcileRegister
  <2>4. stage' \in [Reloads -> Stages]
    BY <1>12 DEF ReconcileRegister, TypeOK
  <2>5. QED
    BY <1>12, <2>2, <2>3, <2>4 DEF ReconcileRegister, TypeOK, diskVars, loadVars,
                                   startVars
<1>13. ASSUME NEW r \in Reloads, RefreshSignature(r) PROVE TypeOK'
  <2>1. FileOf(r) \in Files /\ Stat(FileOf(r)) \in Nat
    BY ReloadFile, StatType
  <2>2. stage' \in [Reloads -> Stages] /\ seen' \in [Reloads -> Nat]
    BY <1>13 DEF RefreshSignature, TypeOK
  <2>3. found' \in [Reloads -> {"absent", "invalid"} \cup Names]
    BY <1>13 DEF RefreshSignature, TypeOK
  <2>4. signature' \in [Files -> Nat] /\ swallowed' \in SUBSET Files
    BY <1>13, <2>1 DEF RefreshSignature, TypeOK
  <2>5. QED
    BY <1>13, <2>2, <2>3, <2>4 DEF RefreshSignature, TypeOK, diskVars, startVars,
                                   toolVars, orderVars
<1>14. CASE UNCHANGED vars
  BY <1>14 DEF vars, diskVars, loadVars, startVars, toolVars, history, orderVars,
               TypeOK
<1>15. QED
  BY <1>1, <1>2, <1>3, <1>4, <1>5, <1>6, <1>7, <1>8, <1>9, <1>10, <1>11, <1>12,
     <1>13, <1>14 DEF Next, ReloadStep

\* Every reachable state of CustomToolManager is well typed (the type
\* declarations of its Maps and timers).
THEOREM ReloadTypeCorrect == Spec => []TypeOK
  BY ReloadAssumption, TypeInit, TypeStep, PTL DEF Spec

-----------------------------------------------------------------------------
(* close is final *)

\* Once close has run no timer is armed and no reload is about to look at a file.
ClosedInv ==
  life = "closed" /\ ~booting =>
    (\A f \in Files : ~debounce[f]) /\ (\A r \in Reloads : stage[r] # "check")

\* A closed manager begins no reload; what is left of one only goes forward, and
\* changes a tool at its registration or not at all.
LEMMA ClosedStep ==
  ASSUME TypeOK, ClosedInv, life = "closed", ~booting, [Next]_vars
  PROVE  /\ UNCHANGED debounce
         /\ \A r \in Reloads : /\ stage[r] = "idle" => stage'[r] = "idle"
                               /\ stage'[r] # "check"
         /\ \/ UNCHANGED toolVars
            \/ \E r \in Reloads : stage[r] = "loaded" /\ stage'[r] = "stat"
<1>1. \A r \in Reloads : stage[r] # "check"
  BY DEF ClosedInv
<1>2. CASE UNCHANGED <<debounce, stage, toolVars>>
  BY <1>1, <1>2
<1>3. ASSUME NEW f \in Files, NEW c, Write(f, c)
      PROVE  UNCHANGED <<debounce, stage, toolVars>>
  BY <1>3 DEF Write
<1>4. ASSUME NEW f \in Files, MissedEvent(f)
      PROVE  UNCHANGED <<debounce, stage, toolVars>>
  BY <1>4 DEF MissedEvent
<1>5. ASSUME NEW f \in Files, WatchEvent(f) \/ FireDebounce(f) \/ StartLoad(f)
      PROVE  FALSE
  BY <1>5 DEF ClosedInv, WatchEvent, Watching, FireDebounce, StartLoad
<1>6. ~(Start \/ StartWatching \/ Close \/ scanForMissedChanges)
  BY DEF Start, StartWatching, Close, scanForMissedChanges, Watching
<1>7. ASSUME NEW r \in Reloads, ReadFile(r) \/ RefreshSignature(r)
      PROVE  /\ stage[r] # "idle" /\ UNCHANGED <<debounce, toolVars>>
             /\ \/ stage' = [stage EXCEPT ![r] = "loaded"]
                \/ stage' = [stage EXCEPT ![r] = "idle"]
  BY <1>7 DEF ReadFile, RefreshSignature
<1>8. ASSUME NEW r \in Reloads, ReconcileRegister(r)
      PROVE  /\ stage[r] = "loaded" /\ UNCHANGED debounce
             /\ stage' = [stage EXCEPT ![r] = "stat"]
  BY <1>8 DEF ReconcileRegister
<1>9. ASSUME NEW r \in Reloads, ReconcileCheck(r) \/ StartRegister(r) PROVE FALSE
  BY <1>1, <1>9 DEF ReconcileCheck, StartRegister
<1>10. CASE \E r \in Reloads : ReadFile(r) \/ RefreshSignature(r)
  BY <1>1, <1>7, <1>10 DEF TypeOK
<1>11. CASE \E r \in Reloads : ReconcileRegister(r)
  BY <1>1, <1>8, <1>11 DEF TypeOK
<1>12. QED
  BY <1>2, <1>3, <1>4, <1>5, <1>6, <1>9, <1>10, <1>11 DEF Next, ReloadStep, vars

\* A closed manager stays closed, unless a removal crashes; only close closes.
LEMMA ClosedLife ==
  ASSUME [Next]_vars, life' = "closed", ~booting'
  PROVE  \/ life = "closed" /\ ~booting
         \/ Close /\ ~booting
<1>1. ASSUME NEW f, removeFileTool(f) PROVE life' = life
  BY <1>1 DEF removeFileTool, Remove
<1>2. ASSUME NEW r \in Reloads, ReloadStep(r) PROVE UNCHANGED <<life, booting>>
  <2>1. CASE ReconcileCheck(r)
    BY <1>1, <2>1 DEF ReconcileCheck, startVars
  <2>2. CASE ReconcileRegister(r)
    BY <1>1, <2>2 DEF ReconcileRegister, Remove, startVars
  <2>3. CASE ReadFile(r) \/ StartRegister(r) \/ RefreshSignature(r)
    BY <2>3 DEF ReadFile, StartRegister, RefreshSignature, startVars
  <2>4. QED
    BY <1>2, <2>1, <2>2, <2>3 DEF ReloadStep
<1>3. ASSUME NEW f \in Files, NEW c, Write(f, c) PROVE UNCHANGED <<life, booting>>
  BY <1>3 DEF Write, startVars
<1>4. ASSUME NEW f \in Files, \/ WatchEvent(f) \/ MissedEvent(f)
                              \/ FireDebounce(f) \/ StartLoad(f)
      PROVE  UNCHANGED <<life, booting>>
  BY <1>4 DEF WatchEvent, MissedEvent, FireDebounce, StartLoad, startVars
<1>5. ~(Start \/ StartWatching)
  BY DEF Start, StartWatching
<1>6. CASE scanForMissedChanges \/ UNCHANGED vars
  BY <1>6 DEF scanForMissedChanges, vars, startVars
<1>7. CASE Close
  BY <1>7 DEF Close, startVars
<1>8. QED
  BY <1>2, <1>3, <1>4, <1>5, <1>6, <1>7 DEF Next

\* Every step keeps what is left after close as it was.
LEMMA ClosedInvStep == TypeOK /\ ClosedInv /\ [Next]_vars => ClosedInv'
<1> SUFFICES ASSUME TypeOK, ClosedInv, [Next]_vars, life' = "closed", ~booting'
             PROVE  /\ \A f \in Files : ~debounce'[f]
                    /\ \A r \in Reloads : stage'[r] # "check"
  BY DEF ClosedInv
<1>1. CASE life = "closed" /\ ~booting
  BY <1>1, ClosedStep DEF ClosedInv
<1>2. CASE Close /\ ~booting
  BY <1>2 DEF Close, Busy
<1>3. QED
  BY <1>1, <1>2, ClosedLife

\* After close no timer, watcher or poll begins a reload, and a tool changes only
\* where an import that was under way at close ends, however many there were
\* (CustomToolManager.close).
THEOREM ClosedForGood == Spec => CloseIsFinal
<1> DEFINE After == /\ \A r \in Reloads : stage[r] = "idle" => stage'[r] = "idle"
                    /\ \/ UNCHANGED toolVars
                       \/ \E r \in Reloads : stage[r] = "loaded"
                                             /\ stage'[r] = "stat"
<1>1. Init => ClosedInv
  BY DEF Init, ClosedInv
<1>2. TypeOK /\ ClosedInv /\ [Next]_vars
        => [life = "closed" /\ ~booting => After]_vars
  BY ClosedStep
<1>3. QED
  BY <1>1, <1>2, ClosedInvStep, ReloadTypeCorrect, PTL DEF Spec, CloseIsFinal

-----------------------------------------------------------------------------
(* The registry follows the files *)

\* No tool name is used in two files: the case ToolsFollowFiles is about.
OwnNames == \A f, g \in Files : f # g => MayDefine[f] \cap MayDefine[g] = {}

\* A file holds, and has given the registry, only what its author writes.
OwnedInv ==
  /\ \A f \in Files : /\ disk[f] \in Contents(f)
                      /\ fileToTool[f] \in MayDefine[f] \cup {"none"}
  /\ \A r \in Reloads : found[r] \in Contents(FileOf(r))

FollowInv == TypeOK /\ OwnedInv /\ ToolsFollowFiles

\* An import that loads has found a tool the author of its file uses.
LEMMA OwnedTool ==
  ASSUME ReloadAssumption, FollowInv, NEW r \in Reloads, found[r] \in Names
  PROVE  FileOf(r) \in Files /\ found[r] \in MayDefine[FileOf(r)]
  BY ReloadFile DEF ReloadAssumption, FollowInv, OwnedInv, Contents

\* What f has given is given by no other file.
LEMMA NotShared ==
  ASSUME ReloadAssumption, OwnNames, FollowInv,
         NEW f \in Files, NEW g \in Files, f # g, NEW n \in MayDefine[f]
  PROVE  fileToTool[g] # n
  BY DEF ReloadAssumption, OwnNames, FollowInv, OwnedInv

\* Registering the tool of f keeps registry, active tools and files together.
LEMMA RegisterFollows ==
  ASSUME ReloadAssumption, OwnNames, FollowInv,
         NEW f \in Files, NEW n \in MayDefine[f], registerLoadedTool(f, n)
  PROVE  /\ \A g \in Files : fileToTool'[g] \in MayDefine[g] \cup {"none"}
         /\ ToolsFollowFiles'
<1>1. /\ n \in Names /\ n # "none"
      /\ fileToTool'[f] = n
      /\ \A g \in Files \ {f} : fileToTool'[g] = fileToTool[g]
  BY DEF registerLoadedTool, ReloadAssumption, FollowInv, TypeOK
<1>2. customTools = {fileToTool[g] : g \in Files} \ {"none"}
  BY DEF FollowInv, ToolsFollowFiles
<1>3. customTools' = (customTools \ ({fileToTool[f]} \ {n})) \cup {n}
  BY DEF registerLoadedTool
<1>4. \A g \in Files \ {f} : fileToTool[g] # fileToTool[f] \/ fileToTool[g] = "none"
  BY NotShared DEF FollowInv, OwnedInv
<1>5. customTools' = {fileToTool'[g] : g \in Files} \ {"none"}
  <2>1. ASSUME NEW x \in customTools'
        PROVE  x \in {fileToTool'[g] : g \in Files} \ {"none"}
    <3>1. CASE x = n
      BY <3>1, <1>1
    <3>2. CASE x # n
      <4>1. PICK g \in Files : x = fileToTool[g] /\ x # "none"
        BY <3>2, <2>1, <1>2, <1>3
      <4>2. g # f
        BY <4>1, <3>2, <2>1, <1>3
      <4>3. QED
        BY <4>1, <4>2, <1>1
    <3>3. QED
      BY <3>1, <3>2
  <2>2. ASSUME NEW g \in Files, fileToTool'[g] # "none"
        PROVE  fileToTool'[g] \in customTools'
    <3>1. CASE g = f
      BY <3>1, <1>1, <1>3
    <3>2. CASE g # f
      BY <3>2, <2>2, <1>1, <1>2, <1>3, <1>4
    <3>3. QED
      BY <3>1, <3>2
  <2>3. QED
    BY <2>1, <2>2
<1>6. activeTools' = customTools' \cap DirectNames
  <2>1. activeTools = customTools \cap DirectNames
    BY DEF FollowInv, ToolsFollowFiles
  <2>2. QED
    BY <2>1, <1>3 DEF registerLoadedTool, Activated
<1>7. QED
  BY <1>1, <1>5, <1>6 DEF FollowInv, OwnedInv, ToolsFollowFiles

\* Removing what f has given, or was about to give, does so too.
LEMMA RemoveFollows ==
  ASSUME ReloadAssumption, OwnNames, FollowInv, NEW f \in Files,
         NEW S \in SUBSET (MayDefine[f] \cup {"none"}), fileToTool[f] \in S,
         Remove(f, S)
  PROVE  /\ \A g \in Files : fileToTool'[g] \in MayDefine[g] \cup {"none"}
         /\ ToolsFollowFiles'
<1>1. /\ fileToTool'[f] = "none"
      /\ \A g \in Files \ {f} : fileToTool'[g] = fileToTool[g]
  BY DEF Remove, FollowInv, TypeOK
<1>2. customTools = {fileToTool[g] : g \in Files} \ {"none"}
  BY DEF FollowInv, ToolsFollowFiles
<1>3. customTools' = customTools \ S
  BY DEF Remove
<1>4. \A g \in Files \ {f} : fileToTool[g] \notin S \/ fileToTool[g] = "none"
  BY NotShared
<1>5. customTools' = {fileToTool'[g] : g \in Files} \ {"none"}
  <2>1. ASSUME NEW x \in customTools'
        PROVE  x \in {fileToTool'[g] : g \in Files} \ {"none"}
    <3>1. PICK g \in Files : x = fileToTool[g] /\ x # "none" /\ x \notin S
      BY <2>1, <1>2, <1>3
    <3>2. QED
      BY <3>1, <1>1
  <2>2. ASSUME NEW g \in Files, fileToTool'[g] # "none"
        PROVE  fileToTool'[g] \in customTools'
    BY <2>2, <1>1, <1>2, <1>3, <1>4
  <2>3. QED
    BY <2>1, <2>2
<1>6. activeTools' = customTools' \cap DirectNames
  BY <1>3 DEF Remove, FollowInv, ToolsFollowFiles
<1>7. QED
  BY <1>1, <1>5, <1>6 DEF FollowInv, OwnedInv, ToolsFollowFiles

\* After a file's removal the registry follows the files that are left.
LEMMA RemoveFileFollows ==
  ASSUME ReloadAssumption, OwnNames, FollowInv, NEW f \in Files, removeFileTool(f)
  PROVE  /\ \A g \in Files : fileToTool'[g] \in MayDefine[g] \cup {"none"}
         /\ ToolsFollowFiles'
<1>1. CASE fileToTool[f] = "none"
  BY <1>1 DEF removeFileTool, toolVars, FollowInv, OwnedInv, ToolsFollowFiles
<1>2. CASE fileToTool[f] # "none"
  BY <1>2, RemoveFollows DEF removeFileTool, FollowInv, OwnedInv
<1>3. QED
  BY <1>1, <1>2

\* Every step leaves the registry following the files, if no two files share a name.
LEMMA FollowStep ==
  ASSUME ReloadAssumption, OwnNames, FollowInv, [Next]_vars
  PROVE  FollowInv'
<1>1. TypeOK /\ TypeOK'
  BY TypeStep DEF FollowInv
<1>2. UNCHANGED <<toolVars, disk, found>> => FollowInv'
  BY <1>1 DEF FollowInv, OwnedInv, ToolsFollowFiles, toolVars, Contents
<1>3. (/\ \A g \in Files : fileToTool'[g] \in MayDefine[g] \cup {"none"}
       /\ ToolsFollowFiles' /\ UNCHANGED <<disk, found>>) => FollowInv'
  BY <1>1 DEF FollowInv, OwnedInv, Contents
<1>4. ASSUME NEW f \in Files, NEW c \in Contents(f), Write(f, c) PROVE FollowInv'
  <2>1. \A g \in Files : disk'[g] \in Contents(g)
    BY <1>1, <1>4 DEF Write, TypeOK, FollowInv, OwnedInv
  <2>2. UNCHANGED <<toolVars, found>>
    BY <1>4 DEF Write, loadVars
  <2>3. QED
    BY <1>1, <2>1, <2>2 DEF FollowInv, OwnedInv, ToolsFollowFiles, toolVars, Contents
<1>5. ASSUME NEW r \in Reloads, ReadFile(r) PROVE FollowInv'
  <2>1. \A q \in Reloads : found'[q] \in Contents(FileOf(q))
    BY <1>1, <1>5, ReloadFile DEF ReadFile, TypeOK, FollowInv, OwnedInv
  <2>2. UNCHANGED <<toolVars, disk>>
    BY <1>5 DEF ReadFile, diskVars
  <2>3. QED
    BY <1>1, <2>1, <2>2 DEF FollowInv, OwnedInv, ToolsFollowFiles, toolVars, Contents
<1>6. ASSUME NEW r \in Reloads, RefreshSignature(r) PROVE FollowInv'
  <2>1. "absent" \in Contents(FileOf(r))
    BY DEF Contents
  <2>2. \A q \in Reloads : found'[q] \in Contents(FileOf(q))
    BY <1>1, <1>6, <2>1 DEF RefreshSignature, TypeOK, FollowInv, OwnedInv
  <2>3. UNCHANGED <<toolVars, disk>>
    BY <1>6 DEF RefreshSignature, diskVars
  <2>4. QED
    BY <1>1, <2>2, <2>3 DEF FollowInv, OwnedInv, ToolsFollowFiles, toolVars, Contents
<1>7. ASSUME NEW r \in Reloads, StartRegister(r) PROVE FollowInv'
  <2>1. UNCHANGED <<disk, found>>
    BY <1>7 DEF StartRegister, diskVars, loadVars
  <2>2. CASE found[r] \in Names
    BY <1>7, <1>3, <2>1, <2>2, OwnedTool, RegisterFollows DEF StartRegister
  <2>3. CASE found[r] \notin Names
    BY <1>7, <1>2, <2>1, <2>3 DEF StartRegister
  <2>4. QED
    BY <2>2, <2>3
<1>8. ASSUME NEW r \in Reloads, ReconcileCheck(r) PROVE FollowInv'
  <2>1. UNCHANGED <<disk, found>> /\ FileOf(r) \in Files
    BY <1>8, ReloadFile DEF ReconcileCheck, diskVars
  <2>2. CASE Present(FileOf(r))
    BY <1>8, <1>2, <2>1, <2>2 DEF ReconcileCheck
  <2>3. CASE ~Present(FileOf(r))
    BY <1>8, <1>3, <2>1, <2>3, RemoveFileFollows DEF ReconcileCheck
  <2>4. QED
    BY <2>2, <2>3
<1>9. ASSUME NEW r \in Reloads, ReconcileRegister(r) PROVE FollowInv'
  <2>1. UNCHANGED <<disk, found>> /\ FileOf(r) \in Files
    BY <1>9, ReloadFile DEF ReconcileRegister, diskVars, loadVars
  <2>2. CASE found[r] \notin Names
    BY <1>9, <1>3, <2>1, <2>2, RemoveFileFollows DEF ReconcileRegister
  <2>3. CASE found[r] \in Names /\ Throws(With(FileOf(r), found[r]))
    <3>1. Remove(FileOf(r), {fileToTool[FileOf(r)], found[r]})
      BY <1>9, <2>3 DEF ReconcileRegister
    <3>2. {fileToTool[FileOf(r)], found[r]}
            \in SUBSET (MayDefine[FileOf(r)] \cup {"none"})
      BY <2>1, <2>3, OwnedTool DEF FollowInv, OwnedInv
    <3>3. QED
      BY <1>3, <2>1, <3>1, <3>2, RemoveFollows
  <2>4. CASE found[r] \in Names /\ ~Throws(With(FileOf(r), found[r]))
    <3>1. registerLoadedTool(FileOf(r), found[r])
      BY <1>9, <2>4 DEF ReconcileRegister
    <3>2. QED
      BY <1>3, <2>1, <2>4, <3>1, OwnedTool, RegisterFollows
  <2>5. QED
    BY <2>2, <2>3, <2>4
<1>10. ASSUME NEW f \in Files,
              \/ WatchEvent(f) \/ MissedEvent(f) \/ FireDebounce(f)
              \/ StartLoad(f)
       PROVE  FollowInv'
  BY <1>10, <1>2 DEF WatchEvent, MissedEvent, FireDebounce, StartLoad, diskVars,
                     loadVars
<1>11. CASE Start \/ StartWatching \/ Close \/ scanForMissedChanges
  BY <1>11, <1>2 DEF Start, StartWatching, Close, scanForMissedChanges, diskVars,
                     loadVars
<1>12. CASE UNCHANGED vars
  BY <1>12, <1>2 DEF vars, diskVars, loadVars
<1>13. QED
  BY <1>4, <1>5, <1>6, <1>7, <1>8, <1>9, <1>10, <1>11, <1>12 DEF Next, ReloadStep

\* When no two files define the same tool, the registry holds exactly the tools
\* the files gave and the active ones are those the agent may call directly, for
\* any files, names and interleaving of writes with reloads (registerLoadedTool,
\* removeFileTool, reconcileFile).
THEOREM RegistryFollowsFiles == OwnNames => (Spec => []ToolsFollowFiles)
<1> SUFFICES ASSUME OwnNames PROVE Spec => []ToolsFollowFiles
  OBVIOUS
<1>1. Init => FollowInv
  <2> SUFFICES ASSUME Init PROVE FollowInv
    OBVIOUS
  <2>1. TypeOK
    BY TypeInit, ReloadAssumption
  <2>2. OwnedInv
    BY DEF Init, OwnedInv, Contents
  <2>3. {fileToTool[f] : f \in Files} \ {"none"} = {}
    BY DEF Init
  <2>4. QED
    BY <2>1, <2>2, <2>3 DEF Init, FollowInv, ToolsFollowFiles
<1>2. FollowInv /\ [Next]_vars => FollowInv'
  BY FollowStep, ReloadAssumption
<1>3. FollowInv => ToolsFollowFiles
  BY DEF FollowInv
<1>4. QED
  BY <1>1, <1>2, <1>3, PTL DEF Spec

-----------------------------------------------------------------------------
(* Rejected names *)

\* Removing tools from a registry without clashes leaves none and throws nothing.
LEMMA RemoveUnclashed ==
  ASSUME NEW f, NEW S, customTools \cap Clashing = {}, life # "crashed",
         Remove(f, S) \/ UNCHANGED <<toolVars, life>>
  PROVE  customTools' \cap Clashing = {} /\ life' # "crashed"
<1>1. CASE Remove(f, S)
  <2>1. customTools' = customTools \ S
    BY <1>1 DEF Remove
  <2>2. ~Throws(customTools \ S)
    BY DEF Throws
  <2>3. QED
    BY <1>1, <2>1, <2>2 DEF Remove
<1>2. CASE UNCHANGED <<toolVars, life>>
  BY <1>2 DEF toolVars
<1>3. QED
  BY <1>1, <1>2

\* No step crashes or lets a clashing name stay, unless start has kept one.
LEMMA ClashStep == TypeOK /\ ClashIsRejected /\ [Next]_vars => ClashIsRejected'
<1> SUFFICES ASSUME TypeOK, ClashIsRejected, [Next]_vars, kept' = {}
             PROVE  life' # "crashed" /\ customTools' \cap Clashing = {}
  BY DEF ClashIsRejected
<1>2. ASSUME NEW r \in Reloads, StartRegister(r)
      PROVE  life' # "crashed" /\ customTools' \cap Clashing = {}
  <2>1. kept = {} /\ found[r] \notin Clashing /\ UNCHANGED life
    BY <1>2 DEF StartRegister
  <2>2. customTools' \subseteq customTools \cup {found[r]}
    BY <1>2 DEF StartRegister, registerLoadedTool, toolVars
  <2>3. QED
    BY <2>1, <2>2 DEF ClashIsRejected
<1>3. ASSUME NEW r \in Reloads, ReconcileCheck(r) \/ ReconcileRegister(r)
      PROVE  life' # "crashed" /\ customTools' \cap Clashing = {}
  <2> DEFINE f == FileOf(r)
  <2>1. life # "crashed" /\ customTools \cap Clashing = {}
    BY <1>3 DEF ClashIsRejected, ReconcileCheck, ReconcileRegister
  <2>2. CASE removeFileTool(f) \/ UNCHANGED <<toolVars, life>>
    BY <2>1, <2>2, RemoveUnclashed DEF removeFileTool
  <2>3. CASE Remove(f, {fileToTool[f], found[r]})
    BY <2>1, <2>3, RemoveUnclashed
  <2>4. CASE ~Throws(With(f, found[r])) /\ registerLoadedTool(f, found[r])
             /\ UNCHANGED life
    BY <2>1, <2>4 DEF Throws, With, registerLoadedTool
  <2>5. QED
    BY <1>3, <2>2, <2>3, <2>4 DEF ReconcileCheck, ReconcileRegister
<1>4. ASSUME NEW f \in Files, NEW c, Write(f, c)
      PROVE  UNCHANGED <<customTools, kept, life>>
  BY <1>4 DEF Write, toolVars, history
<1>5. ASSUME NEW f \in Files,
             \/ WatchEvent(f) \/ MissedEvent(f) \/ FireDebounce(f)
             \/ StartLoad(f)
      PROVE  UNCHANGED <<customTools, kept, life>>
  BY <1>5 DEF WatchEvent, MissedEvent, FireDebounce, StartLoad, toolVars, history
<1>6. ASSUME NEW r \in Reloads, ReadFile(r) \/ RefreshSignature(r)
      PROVE  UNCHANGED <<customTools, kept, life>>
  BY <1>6 DEF ReadFile, RefreshSignature, toolVars, history
<1>7. CASE Start \/ StartWatching \/ Close \/ scanForMissedChanges
  BY <1>7 DEF Start, StartWatching, Close, scanForMissedChanges, toolVars,
              history, ClashIsRejected
<1>8. CASE UNCHANGED vars
  BY <1>8 DEF vars, toolVars, history, ClashIsRejected
<1>9. QED
  BY <1>2, <1>3, <1>4, <1>5, <1>6, <1>7, <1>8 DEF Next, ReloadStep, ClashIsRejected

\* Unless start has let one in, no reload keeps a tool whose name Python cannot
\* use, and rejecting one throws nothing nobody catches (reconcileFile).
THEOREM ClashesRejected == Spec => []ClashIsRejected
<1>1. Init => ClashIsRejected
  BY DEF Init, ClashIsRejected
<1>2. QED
  BY <1>1, ClashStep, ReloadTypeCorrect, PTL DEF Spec
=============================================================================
