------------------------------ MODULE HotReload ------------------------------
(***************************************************************************)
(* CustomToolManager (custom-tool-manager.ts): tool files on disk, written *)
(* by other processes at any moment, and the tools registered from them.   *)
(*                                                                         *)
(* A reload looks at its file, imports it, registers what it found and     *)
(* takes the file's signature.  Writers of the disk interleave with all of *)
(* that.  Node's own tasks (timers, events, start, close) come between a   *)
(* reload's import and its end, because an import is asynchronous and may  *)
(* take as long as the top level of the file does; the parts before and    *)
(* after the import are one task each.                                     *)
(***************************************************************************)
EXTENDS Naturals, FiniteSets

CONSTANTS Files,        \* names of files in tools/
          Names,        \* names tools may have
          DirectNames,  \* tools whose callers include "direct"
          Clashing,     \* callable tools whose name validatePythonHelperNames rejects
          MayDefine,    \* MayDefine[f]: the names the author of f uses
          MaxWrites,    \* bound on the writes to the disk
          MaxReloads    \* MaxReloads[f]: bound on the reloads of f under way

ASSUME ReloadAssumption ==
  /\ DirectNames \subseteq Names /\ Clashing \subseteq Names
  /\ MayDefine \in [Files -> SUBSET Names]
  /\ MaxWrites \in Nat /\ MaxReloads \in [Files -> Nat \ {0}]
  /\ {"none", "absent", "invalid"} \cap Names = {}

VARIABLES
  disk,         \* "absent" | "invalid" | the name of the tool f exports
  version,      \* mtime and size: changed by every write
  writes,       \* writes so far, bounded by MaxWrites
  lossy,        \* does fs.watch miss events (it depends on the file system)
  notice,       \* the kernel has an event for the watcher
  debounce,     \* debounceTimers has f
  stage,        \* "idle" | "check" | "import" | "loaded" | "stat"
  found,        \* what the import of a reload has read,
  seen,         \* and in which version of its file
  booting,      \* start has not returned
  todo,         \* start: files it has listed and not loaded yet
  life,         \* "new" | "starting" | "running" | "closed" | "crashed", or
                \* "reopened": closed while it started, and running all the same
  signature,    \* fileSignatures, 0 for no entry
  fileToTool,   \* "none" for no entry
  customTools,  \* names in ToolRegistry.customTools
  activeTools,  \* those of Names in pi.getActiveTools()
  \* history, for the properties
  swallowed,    \* files whose stat has recorded a write nobody has read
  newest,       \* the newest version of f the registry has been given
  overtaken,    \* files of which it was given an older one after that
  kept          \* clashing tools start has left registered

diskVars   == <<disk, version, writes, lossy>>
loadVars   == <<found, seen>>
startVars  == <<booting, todo>>
toolVars   == <<fileToTool, customTools, activeTools>>
orderVars  == <<newest, overtaken>>
history    == <<swallowed, orderVars, kept>>
vars == <<diskVars, notice, debounce, stage, loadVars, startVars, life,
          signature, toolVars, history>>

Reloads == UNION {{<<f, k>> : k \in 1..MaxReloads[f]} : f \in Files}
FileOf(r) == r[1]
Slots(f) == {r \in Reloads : FileOf(r) = f /\ stage[r] = "idle"}
NewReload(f) == CHOOSE r \in Slots(f) : TRUE

Contents(f) == {"absent", "invalid"} \cup MayDefine[f]
Present(f) == disk[f] # "absent"
Watching == life \in {"running", "reopened"}

Quiet == \A r \in Reloads : stage[r] = "idle"

\* Between existsSync and the import, and between the registration and the
\* stat, a reload shares Node's thread with nobody; nor does start between two
\* imports.
Busy == \/ \E r \in Reloads : stage[r] \in {"check", "stat"}
        \/ booting /\ Quiet

\* refreshFileSignature's entry for f.
Stat(f) == IF Present(f) THEN version[f] ELSE 0

Init ==
  /\ disk \in {d \in [Files -> {"absent", "invalid"} \cup Names] :
                 \A f \in Files : d[f] \in Contents(f)}
  /\ version = [f \in Files |-> 1] /\ writes = 0 /\ lossy \in BOOLEAN
  /\ notice = [f \in Files |-> FALSE] /\ debounce = [f \in Files |-> FALSE]
  /\ stage = [r \in Reloads |-> "idle"]
  /\ found = [r \in Reloads |-> "absent"] /\ seen = [r \in Reloads |-> 0]
  /\ booting = FALSE /\ todo = {} /\ life = "new"
  /\ signature = [f \in Files |-> 0]
  /\ fileToTool = [f \in Files |-> "none"]
  /\ customTools = {} /\ activeTools = {}
  /\ swallowed = {} /\ newest = [f \in Files |-> 0]
  /\ overtaken = {} /\ kept = {}

-----------------------------------------------------------------------------
(* The disk and the watcher *)

\* Another process writes, replaces or deletes f, at any moment.
Write(f, c) ==
  /\ writes < MaxWrites /\ (c = "absent" => Present(f))
  /\ disk' = [disk EXCEPT ![f] = c]
  /\ version' = [version EXCEPT ![f] = @ + 1]
  /\ writes' = writes + 1
  /\ notice' = [notice EXCEPT ![f] = Watching]
  /\ UNCHANGED <<lossy, debounce, stage, loadVars, startVars, life, signature,
                 toolVars, history>>

\* startWatching's listener: (re)arms the 300 ms timer of f.
WatchEvent(f) ==
  /\ notice[f] /\ Watching /\ ~Busy
  /\ notice' = [notice EXCEPT ![f] = FALSE]
  /\ debounce' = [debounce EXCEPT ![f] = TRUE]
  /\ UNCHANGED <<diskVars, stage, loadVars, startVars, life, signature,
                 toolVars, history>>

MissedEvent(f) ==
  /\ lossy /\ notice[f]
  /\ notice' = [notice EXCEPT ![f] = FALSE]
  /\ UNCHANGED <<diskVars, debounce, stage, loadVars, startVars, life,
                 signature, toolVars, history>>

-----------------------------------------------------------------------------
(* Registration *)

\* onToolSetChanged rebuilds code_execution and throws on a clashing name.
Throws(tools) == tools \cap Clashing # {}

Activated(S, n) == IF n \in DirectNames THEN S \cup {n} ELSE S

\* Faulty variant: the tool f used to define stays when f defines another.
RegisterLoadedToolKeepsOld(f, n) ==
  /\ customTools' = customTools \cup {n}
  /\ activeTools' = Activated(activeTools, n)
  /\ fileToTool' = [fileToTool EXCEPT ![f] = n]

\* registerLoadedTool up to its callback.
registerLoadedTool(f, n) ==
  LET old == {fileToTool[f]} \ {n}
  IN /\ customTools' = (customTools \ old) \cup {n}
     /\ activeTools' = Activated(activeTools \ old, n)
     /\ fileToTool' = [fileToTool EXCEPT ![f] = n]

\* Taking tools out is followed by the callback; if it throws, nobody catches.
Remove(f, names) ==
  /\ customTools' = customTools \ names
  /\ activeTools' = activeTools \ names
  /\ fileToTool' = [fileToTool EXCEPT ![f] = "none"]
  /\ life' = IF Throws(customTools \ names) THEN "crashed" ELSE life

\* removeFileTool returns early when f has no entry.
removeFileTool(f) == IF fileToTool[f] = "none" THEN UNCHANGED <<toolVars, life>>
                                               ELSE Remove(f, {fileToTool[f]})

\* The tools that are left if f comes to define n.
With(f, n) == (customTools \ ({fileToTool[f]} \ {n})) \cup {n}

-----------------------------------------------------------------------------
(* start and close *)

\* start lists the directory...
Start ==
  /\ life = "new"
  /\ life' = "starting" /\ booting' = TRUE
  /\ todo' = {f \in Files : Present(f)}
  /\ UNCHANGED <<diskVars, notice, debounce, stage, loadVars, signature,
                 toolVars, history>>

\* ...loads one file after the other, whether or not it has been closed...
StartLoad(f) ==
  /\ booting /\ Quiet /\ f \in todo
  /\ todo' = todo \ {f}
  /\ stage' = [stage EXCEPT ![NewReload(f)] = "import"]
  /\ UNCHANGED <<diskVars, notice, debounce, loadVars, booting, life, signature,
                 toolVars, history>>

\* ...and then watches and polls.
StartWatching ==
  /\ booting /\ Quiet /\ todo = {}
  /\ life' = IF life = "closed" THEN "reopened" ELSE "running"
  /\ booting' = FALSE
  /\ UNCHANGED <<diskVars, notice, debounce, stage, loadVars, todo, signature,
                 toolVars, history>>

\* Faulty variant: close forgets the debounce timers.
CloseKeepsTimers ==
  /\ life \in {"starting", "running", "reopened"} /\ ~Busy
  /\ life' = "closed"
  /\ notice' = [f \in Files |-> FALSE]
  /\ signature' = [f \in Files |-> 0]
  /\ UNCHANGED <<diskVars, debounce, stage, loadVars, startVars, toolVars,
                 history>>

\* close stops watcher, poll and timers, and no import that is under way.
Close ==
  /\ life \in {"starting", "running", "reopened"} /\ ~Busy
  /\ life' = "closed"
  /\ notice' = [f \in Files |-> FALSE]
  /\ debounce' = [f \in Files |-> FALSE]
  /\ signature' = [f \in Files |-> 0]
  /\ UNCHANGED <<diskVars, stage, loadVars, startVars, toolVars, history>>

-----------------------------------------------------------------------------
(* Timers and the reload of one file *)

\* The debounce timer of f calls reconcileFile.
FireDebounce(f) ==
  /\ debounce[f] /\ ~Busy /\ Slots(f) # {}
  /\ debounce' = [debounce EXCEPT ![f] = FALSE]
  /\ stage' = [stage EXCEPT ![NewReload(f)] = "check"]
  /\ UNCHANGED <<diskVars, notice, loadVars, startVars, life, signature,
                 toolVars, history>>

\* Each of the files starts a reload.
StartReloads(files) ==
  /\ \A f \in files : Slots(f) # {}
  /\ stage' = [r \in Reloads |->
                 IF \E f \in files : r = NewReload(f) THEN "check" ELSE stage[r]]

\* Faulty variant: the scan looks only at the files it finds.
ScanPresentOnly ==
  /\ Watching /\ ~Busy
  /\ StartReloads({f \in Files : Present(f) /\ signature[f] # Stat(f)})
  /\ signature' = [f \in Files |-> IF Present(f) THEN Stat(f) ELSE signature[f]]
  /\ UNCHANGED <<diskVars, notice, debounce, loadVars, startVars, life, toolVars,
                 history>>

\* Every 250 ms: files whose signature changed, appeared or went away.
scanForMissedChanges ==
  /\ Watching /\ ~Busy
  /\ StartReloads({f \in Files : signature[f] # Stat(f)})
  /\ signature' = [f \in Files |-> Stat(f)]
  /\ UNCHANGED <<diskVars, notice, debounce, loadVars, startVars, life, toolVars,
                 history>>

\* The registry is given f as it was in version v.
Given(f, v) ==
  /\ newest' = [newest EXCEPT ![f] = IF v < @ THEN @ ELSE v]
  /\ overtaken' = IF v < newest[f] THEN overtaken \cup {f} ELSE overtaken \ {f}

\* reconcileFile's existsSync.
ReconcileCheck(r) ==
  LET f == FileOf(r)
  IN /\ stage[r] = "check"
     /\ IF Present(f)
        THEN /\ stage' = [stage EXCEPT ![r] = "import"]
             /\ UNCHANGED <<seen, toolVars, life, orderVars>>
        ELSE /\ stage' = [stage EXCEPT ![r] = "stat"]
             /\ seen' = [seen EXCEPT ![r] = version[f]]
             /\ removeFileTool(f) /\ Given(f, version[f])
     /\ UNCHANGED <<diskVars, notice, debounce, found, startVars, signature,
                    swallowed, kept>>

\* import() reads the file; a file that is gone does not load.
ReadFile(r) ==
  /\ stage[r] = "import"
  /\ stage' = [stage EXCEPT ![r] = "loaded"]
  /\ found' = [found EXCEPT ![r] = disk[FileOf(r)]]
  /\ seen' = [seen EXCEPT ![r] = version[FileOf(r)]]
  /\ UNCHANGED <<diskVars, notice, debounce, startVars, life, signature,
                 toolVars, history>>

\* start registers what it has loaded; what fails is only warned about, so a
\* tool whose name clashes stays registered.
StartRegister(r) ==
  LET f == FileOf(r)
  IN /\ booting /\ stage[r] = "loaded"
     /\ stage' = [stage EXCEPT ![r] = "stat"]
     /\ IF found[r] \in Names THEN registerLoadedTool(f, found[r])
                              ELSE UNCHANGED toolVars
     /\ Given(f, seen[r])
     /\ kept' = kept \cup ({found[r]} \cap Clashing)
     /\ UNCHANGED <<diskVars, notice, debounce, loadVars, startVars, life,
                    signature, swallowed>>

\* Faulty variant: the catch block only warns, as start does.
ReconcileRegisterWarns(r) ==
  LET f == FileOf(r)
  IN /\ ~booting /\ stage[r] = "loaded" /\ ~Busy
     /\ stage' = [stage EXCEPT ![r] = "stat"]
     /\ IF found[r] \in Names THEN registerLoadedTool(f, found[r]) /\ UNCHANGED life
                              ELSE removeFileTool(f)
     /\ Given(f, seen[r])
     /\ UNCHANGED <<diskVars, notice, debounce, loadVars, startVars, signature,
                    swallowed, kept>>

\* Faulty variant: what the file exports is not validated.
ReconcileRegisterUnchecked(r) ==
  /\ ~booting /\ stage[r] = "loaded" /\ ~Busy
  /\ stage' = [stage EXCEPT ![r] = "stat"]
  /\ registerLoadedTool(FileOf(r), found[r])
  /\ Given(FileOf(r), seen[r])
  /\ UNCHANGED <<diskVars, notice, debounce, loadVars, startVars, life, signature,
                 swallowed, kept>>

\* reconcileFile after its import, also after close.  A file that does not load
\* loses its tool, and so does one whose registration throws, with the tool just
\* registered.
ReconcileRegister(r) ==
  LET f == FileOf(r)
  IN /\ ~booting /\ stage[r] = "loaded" /\ ~Busy
     /\ stage' = [stage EXCEPT ![r] = "stat"]
     /\ IF found[r] \notin Names THEN removeFileTool(f)
        ELSE IF Throws(With(f, found[r])) THEN Remove(f, {fileToTool[f], found[r]})
        ELSE registerLoadedTool(f, found[r]) /\ UNCHANGED life
     /\ Given(f, seen[r])
     /\ UNCHANGED <<diskVars, notice, debounce, loadVars, startVars, signature,
                    swallowed, kept>>

\* The finally block of start and reconcileFile.
RefreshSignature(r) ==
  LET f == FileOf(r)
  IN /\ stage[r] = "stat"
     /\ stage' = [stage EXCEPT ![r] = "idle"]
     /\ found' = [found EXCEPT ![r] = "absent"]
     /\ seen' = [seen EXCEPT ![r] = 0]
     /\ signature' = [signature EXCEPT ![f] = Stat(f)]
     /\ swallowed' = IF seen[r] = version[f] THEN swallowed \ {f}
                     ELSE IF lossy \/ ~Watching THEN swallowed \cup {f}
                     ELSE swallowed
     /\ UNCHANGED <<diskVars, notice, debounce, startVars, life, toolVars,
                    orderVars, kept>>

ReloadStep(r) == \/ ReconcileCheck(r) \/ ReadFile(r)
                 \/ StartRegister(r) \/ ReconcileRegister(r)
                 \/ RefreshSignature(r)

Next ==
  \/ \E f \in Files : \E c \in Contents(f) : Write(f, c)
  \/ \E f \in Files : WatchEvent(f) \/ MissedEvent(f) \/ FireDebounce(f)
  \/ Start \/ StartWatching \/ Close \/ scanForMissedChanges
  \/ \E f \in Files : StartLoad(f)
  \/ \E r \in Reloads : ReloadStep(r)

Spec == Init /\ [][Next]_vars

\* Node runs queued microtasks and due timers, the kernel delivers the events it
\* does not lose, and the top level of a tool file ends.  Nobody has to write,
\* to start or to close.
FairSpec ==
  /\ Spec
  /\ WF_vars(StartWatching) /\ WF_vars(scanForMissedChanges)
  /\ \A f \in Files : /\ WF_vars(StartLoad(f))
                      /\ WF_vars(WatchEvent(f)) /\ WF_vars(FireDebounce(f))
  /\ \A r \in Reloads : WF_vars(ReloadStep(r))

-----------------------------------------------------------------------------
(* Properties *)

\* Every variable has its type (the Maps and timers of CustomToolManager).
TypeOK ==
  /\ disk \in [Files -> {"absent", "invalid"} \cup Names]
  /\ version \in [Files -> Nat] /\ writes \in 0..MaxWrites /\ lossy \in BOOLEAN
  /\ notice \in [Files -> BOOLEAN] /\ debounce \in [Files -> BOOLEAN]
  /\ stage \in [Reloads -> {"idle", "check", "import", "loaded", "stat"}]
  /\ found \in [Reloads -> {"absent", "invalid"} \cup Names]
  /\ seen \in [Reloads -> Nat]
  /\ booting \in BOOLEAN /\ todo \in SUBSET Files
  /\ life \in {"new", "starting", "running", "reopened", "closed", "crashed"}
  /\ signature \in [Files -> Nat]
  /\ fileToTool \in [Files -> Names \cup {"none"}]
  /\ customTools \in SUBSET Names /\ activeTools \in SUBSET Names
  /\ swallowed \in SUBSET Files /\ overtaken \in SUBSET Files
  /\ newest \in [Files -> Nat] /\ kept \in SUBSET Names

\* If no two files define the same tool, the registry holds exactly the tools
\* the files gave, the active ones are those the agent may call directly, and
\* no tool survives its file, a rename or an invalid edit.
ToolsFollowFiles ==
  /\ customTools = {fileToTool[f] : f \in Files} \ {"none"}
  /\ activeTools = customTools \cap DirectNames

\* A tool whose name cannot be used in Python is not kept by a reload, and
\* rejecting it takes no other tool along and throws nothing unhandled - unless
\* start has let such a tool in.
ClashIsRejected ==
  kept = {} => life # "crashed" /\ customTools \cap Clashing = {}

\* Once the files stop changing, the tools are those on disk, whether or not
\* fs.watch misses events (test/custom-tool-manager.test.ts, "reload still
\* converges when fs.watch misses change events").  Three gaps of the code are
\* named: a write that only the watcher could have seen, an older import that
\* ends after a newer one, and a clashing tool that start has let in.  A manager
\* closed while it starts runs without the signatures close has cleared.
ProvidedTools == {disk[f] : f \in {g \in Files : disk[g] \in Names \ Clashing}}
NoGap == swallowed = {} /\ overtaken = {} /\ kept = {}
Converges ==
  <>[](life = "running" /\ NoGap => customTools = ProvidedTools)

\* A custom tool that start warns about and says it skips is not registered
\* (custom-tool-manager.ts, "Skipping invalid custom tool").
SkippedToolsAreOut == kept = {}

\* After close no timer, watcher or poll changes a tool any more: no reload
\* begins, and what still changes a tool is a reload that close has found under
\* way with its import (close cancels none: custom-tool-manager.ts:150 and 260).
\* A start that is still loading is excepted, it goes on and watches again.
CloseIsFinal ==
  [][life = "closed" /\ ~booting =>
       /\ \A r \in Reloads : stage[r] = "idle" => stage'[r] = "idle"
       /\ \/ UNCHANGED toolVars
          \/ \E r \in Reloads : stage[r] = "loaded" /\ stage'[r] = "stat"]_vars

=============================================================================
