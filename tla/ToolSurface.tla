----------------------------- MODULE ToolSurface -----------------------------
(***************************************************************************)
(* The tools an agent and its Python programs see, while everybody who     *)
(* changes them is at work: hot reload (custom-tool-manager.ts), automatic *)
(* routing (index.ts), hashline's event, other extensions and the user.    *)
(*                                                                         *)
(* HotReload says when files are reloaded, RequestSession what else a      *)
(* request remembers; here a reload, and each host event, is one step.     *)
(*                                                                         *)
(* External: pi lists a tool from registerTool on, never forgets it, and   *)
(* keeps code_execution active once it is registered.                      *)
(***************************************************************************)
EXTENDS ToolRegistry

CONSTANTS Files,          \* names of files in tools/
          FileTools,      \* FileTools[f]: what f may define, <<name, ptc>>
          Emitted,        \* what hashline may emit, <<name, ptc>>
          OtherTools,     \* tools of other extensions, as Pi may list them
          Selectable,     \* tools the user switches on and off
          SettingsChoices

ASSUME SurfaceAssumption ==
  /\ FileTools \in [Files -> SUBSET (Names \X Maybe(Options))]
  /\ Emitted \subseteq Names \X Maybe(Options)
  /\ OtherTools \subseteq Names \X Maybe(Options)
  /\ \A a, b \in OtherTools : a[1] = b[1] => a = b
  /\ Selectable \subseteq Names /\ "none" \notin Names

VARIABLES
  host,           \* what pi.getAllTools() tells: metadata, functions
  fileToTool,     \* CustomToolManager's map, "none" for no entry
  phase,          \* "starting" | "running" | "crashed"
  todo,           \* start: files not loaded yet
  failing,        \* the file whose registration has thrown, until it is caught
  registered,     \* Pi knows code_execution
  request,        \* a user request is open
  savedTools,     \* activeToolsBeforeRouting, {S} for the list S
  \* history, for the properties
  hidden,         \* tools routing has hidden and nobody has changed since
  reloads,        \* a file has been reloaded while routing lasted
  emitted         \* hashline has emitted a tool during the request

managerVars == <<fileToTool, phase, todo, failing>>
sessionVars == <<request, savedTools>>
history == <<hidden, reloads, emitted>>
vars == <<settings, registryVars, piTools, activeTools, host, managerVars,
          registered, sessionVars, history>>

Nothing == [n \in Names |-> {}]
Quiet == phase = "running" /\ failing = {}

\* What Pi lists of a tool that was registered with it.
PiEntry(ptc, executor) ==
  [ptc |-> IF host.listsPtc THEN ptc ELSE {}, executor |-> executor,
   hasExecute |-> host.listsExecute]

Init ==
  /\ settings \in SettingsChoices
  /\ host \in [listsPtc : BOOLEAN, listsExecute : BOOLEAN]
  /\ piTools = [n \in Names |->
       {PiEntry(o[2], "pi") : o \in {x \in OtherTools : x[1] = n}}]
  /\ activeTools = Builtins \cup {o[1] : o \in OtherTools}
  /\ customTools = Nothing /\ owned = {} /\ extensionExecutors = Nothing
  /\ fileToTool = [f \in Files |-> "none"]
  /\ phase = "starting" /\ todo = Files /\ failing = {}
  /\ registered = FALSE /\ request = FALSE /\ savedTools = {}
  /\ hidden = {} /\ reloads = FALSE /\ emitted = FALSE

-----------------------------------------------------------------------------
(* Registration of a file's tool, up to its callback *)

\* setToolActive looks at the list of callers as it is given.
Activated(S, name, ptc) ==
  IF \E o \in ptc : \E c \in o.callers : "direct" \notin c THEN S
  ELSE S \cup {name}

OldTools(f, name) == {fileToTool[f]} \ {name, "none"}

registerLoadedTool(f, name, ptc) ==
  /\ customTools' = [n \in Names |->
       IF n = name THEN {toolInfo(name, ptc, "file")}
       ELSE IF n \in OldTools(f, name) THEN {} ELSE customTools[n]]
  /\ owned' = owned \cup {name} \cup OldTools(f, name)
  /\ piTools' = [piTools EXCEPT ![name] = {PiEntry(ptc, "file")}]
  /\ activeTools' = Activated(activeTools \ OldTools(f, name), name, ptc)
  /\ fileToTool' = [fileToTool EXCEPT ![f] = name]
  /\ hidden' = hidden \ (OldTools(f, name) \cup {name})
  /\ reloads' = (reloads \/ savedTools # {})
  /\ UNCHANGED <<settings, host, extensionExecutors, sessionVars, emitted>>

\* Faulty variant: the tool is only taken out of the registry.
RemoveFileToolKeepsActive(f) ==
  LET old == {fileToTool[f]} \ {"none"}
  IN /\ customTools' = [n \in Names |-> IF n \in old THEN {} ELSE customTools[n]]
     /\ owned' = owned \cup old
     /\ fileToTool' = [fileToTool EXCEPT ![f] = "none"]
     /\ hidden' = hidden \ old
     /\ reloads' = (reloads \/ savedTools # {})
     /\ UNCHANGED <<settings, activeTools, host, extensionExecutors, piTools,
                    sessionVars, emitted>>

\* removeFileTool and deactivateTool, up to the callback.
removeFileTool(f) ==
  LET old == {fileToTool[f]} \ {"none"}
  IN /\ customTools' = [n \in Names |-> IF n \in old THEN {} ELSE customTools[n]]
     /\ owned' = owned \cup old
     /\ activeTools' = activeTools \ old
     /\ fileToTool' = [fileToTool EXCEPT ![f] = "none"]
     /\ hidden' = hidden \ old
     /\ reloads' = (reloads \/ savedTools # {})
     /\ UNCHANGED <<settings, host, extensionExecutors, piTools, sessionVars,
                    emitted>>

-----------------------------------------------------------------------------
(* CustomToolManager *)

\* start loads the files one by one.  What it catches it only warns about: the
\* tool stays, and code_execution is registered only by a rebuild that succeeds.
LoadAtStart(f, name, ptc) ==
  /\ phase = "starting" /\ f \in todo
  /\ todo' = todo \ {f}
  /\ registerLoadedTool(f, name, ptc)
  /\ registered' = (registered \/ ~Throws')
  /\ UNCHANGED <<phase, failing>>

SkipAtStart(f) ==
  /\ phase = "starting" /\ f \in todo
  /\ todo' = todo \ {f}
  /\ UNCHANGED <<settings, registryVars, piTools, activeTools, host, fileToTool,
                 phase, failing, registered, sessionVars, history>>

\* reconcileFile: a file is new or has changed.
ReloadFile(f, name, ptc) ==
  /\ Quiet
  /\ registerLoadedTool(f, name, ptc)
  /\ registered' = (registered \/ ~Throws')
  /\ failing' = IF Throws' THEN {f} ELSE {}
  /\ UNCHANGED <<phase, todo>>

\* Its catch block; if the rebuild throws again, nobody catches it.
RejectFile(f) ==
  /\ phase = "running" /\ f \in failing
  /\ removeFileTool(f)
  /\ registered' = (registered \/ ~Throws')
  /\ phase' = IF Throws' THEN "crashed" ELSE phase
  /\ failing' = {}
  /\ UNCHANGED todo

\* The file was deleted or does not load any more.
RemoveFile(f) ==
  /\ Quiet /\ fileToTool[f] # "none"
  /\ removeFileTool(f)
  /\ registered' = (registered \/ ~Throws')
  /\ phase' = IF Throws' THEN "crashed" ELSE phase
  /\ UNCHANGED <<todo, failing>>

-----------------------------------------------------------------------------
(* Host events *)

\* handleSessionStart, after customToolManager.start or without it.
SessionStart ==
  /\ \/ phase = "starting" /\ todo = {}
     \/ Quiet /\ ~request
  /\ phase' = "running"
  /\ registered' = (registered \/ ~Throws)
  /\ UNCHANGED <<settings, registryVars, piTools, activeTools, host, fileToTool,
                 todo, failing, sessionVars, history>>

\* handleBeforeAgentStart; fits is the prompt's and the settings' part of
\* applyAutoRouting's guard.
BeforeAgentStart(fits) ==
  LET hides == fits /\ registered /\ ~Throws
      tools == IF hides THEN activeTools \cap getAutoRoutableToolNames ELSE {}
  IN /\ Quiet /\ ~request
     /\ request' = TRUE
     /\ activeTools' = activeTools \ tools
     /\ savedTools' = IF tools = {} THEN savedTools ELSE {activeTools}
     /\ hidden' = tools /\ emitted' = FALSE
     /\ UNCHANGED <<settings, registryVars, piTools, host, managerVars, registered,
                    reloads>>

\* handleAgentEnd: restoreActiveToolsAfterRouting.
AgentEnd ==
  /\ Quiet /\ request
  /\ request' = FALSE
  /\ activeTools' = IF savedTools = {} THEN activeTools ELSE UNION savedTools
  /\ savedTools' = {} /\ hidden' = {} /\ emitted' = FALSE
  /\ UNCHANGED <<settings, registryVars, piTools, host, managerVars, registered,
                 reloads>>

\* ingestExtensionExecutors, for one tool of the event's data or of what was
\* emitted before the registry was made.
HashlineEmits(name, ptc) ==
  /\ phase # "crashed" /\ failing = {}
  /\ extensionExecutors' =
       [extensionExecutors EXCEPT ![name] = {toolInfo(name, ptc, "hashline")}]
  /\ hidden' = hidden \ {name} /\ emitted' = request
  /\ UNCHANGED <<settings, customTools, owned, piTools, activeTools, host,
                 managerVars, registered, sessionVars, reloads>>

\* The user's own selection, of tools that were never a file's.
UserSelects(name) ==
  /\ Quiet /\ ~request /\ name \notin owned
  /\ activeTools' = IF name \in activeTools THEN activeTools \ {name}
                                            ELSE activeTools \cup {name}
  /\ UNCHANGED <<settings, registryVars, piTools, host, managerVars, registered,
                 sessionVars, history>>

Next ==
  \/ \E f \in Files : \E t \in FileTools[f] :
       LoadAtStart(f, t[1], t[2]) \/ ReloadFile(f, t[1], t[2])
  \/ \E f \in Files : SkipAtStart(f) \/ RejectFile(f) \/ RemoveFile(f)
  \/ SessionStart
  \/ \E fits \in BOOLEAN : BeforeAgentStart(fits)
  \/ AgentEnd
  \/ \E t \in Emitted : HashlineEmits(t[1], t[2])
  \/ \E name \in Selectable : UserSelects(name)

Spec == Init /\ [][Next]_vars

-----------------------------------------------------------------------------
(* Properties *)

ToolInfos ==
  [source : {"builtin", "alias", "extension"}, ptc : Maybe(Options),
   isReadOnly : BOOLEAN, claim : Maybe(Policies),
   executor : {"builtin", "hashline", "file", "pi", "unavailable"}]
PiEntries == [ptc : Maybe(Options), executor : {"file", "pi"}, hasExecute : BOOLEAN]

\* Every variable has its type (the Maps and Sets of ToolRegistry, Pi's lists,
\* CustomToolManager and PtcSessionState).
AtMostOneOf(S, x) == x \subseteq S /\ \A y, z \in x : y = z
TypeOK ==
  /\ settings \in SettingsChoices
  /\ host \in [listsPtc : BOOLEAN, listsExecute : BOOLEAN]
  /\ DOMAIN customTools = Names /\ DOMAIN extensionExecutors = Names
  /\ DOMAIN piTools = Names
  /\ \A n \in Names : /\ AtMostOneOf(ToolInfos, customTools[n])
                      /\ AtMostOneOf(ToolInfos, extensionExecutors[n])
                      /\ AtMostOneOf(PiEntries, piTools[n])
                      /\ AtMostOneOf(ToolInfos, buildToolMap(n))
  /\ owned \subseteq Names /\ activeTools \subseteq Names
  /\ fileToTool \in [Files -> Names \cup {"none"}]
  /\ phase \in {"starting", "running", "crashed"}
  /\ todo \subseteq Files /\ failing \subseteq Files
  /\ registered \in BOOLEAN /\ request \in BOOLEAN
  /\ AtMostOneOf(SUBSET Names, savedTools)
  /\ hidden \subseteq Names /\ reloads \in BOOLEAN /\ emitted \in BOOLEAN

\* Once its file is gone, a tool is neither run nor judged by what Pi still
\* lists of it: its function is nowhere, and what the name stands for is what
\* the built-in tools and hashline make of it, if anything, without a word of
\* Pi's (buildToolMap knows by owned which names were a file's).
RemovedToolsAreGone ==
  \A n \in Names : customTools[n] = {} =>
    /\ \A t \in buildToolMap(n) : t.executor # "file"
    /\ (\E pi \in piTools[n] : pi.executor = "file") => buildToolMap(n) = Overlaid(n)

\* With mutations switched off a program can call no function whose provider
\* calls it mutating, whichever sources were merged (README, "ptc.policy
\* declares the safety class the registry enforces").  Two gaps of the code are
\* named: metadata that contradicts itself, and an entry of Pi's whose metadata
\* is merged into another tool and whose function is not used, because Pi does
\* not list it or because the tool is not active.
Contradicts(ptc) == \E o \in ptc : "mutating" \in o.policy /\ TRUE \in o.readOnly
FunctionWithheld(name) ==
  /\ customTools[name] = {}
  /\ \E pi \in piTools[name] : pi.ptc # {} /\
       IF name \in activeTools THEN ~pi.hasExecute ELSE createBuiltinTools(name) = {}
MutatorsStayOut ==
  ~settings.allowMutations =>
    \A n \in Eligible : \A t \in buildToolMap(n) :
      "mutating" \in t.claim => Contradicts(t.ptc) \/ FunctionWithheld(n)

\* The rules are written twice, in getCallableTools and in reportAllowlistGaps:
\* a listed tool passes the filter exactly if there is no reason to report (the
\* report precedes the check of the Python names).  They part
\* where a tool's metadata denies its own policy: it counts as mutating, and as
\* read-only once it is trusted, so it is callable (and no gap is reported).
Disowns(ptc) == \E o \in ptc : "read-only" \in o.policy /\ FALSE \in o.readOnly
RefusalsAreExplained ==
  LET callable == Eligible
  IN \A n \in {m \in Names : Listed(m)} : \A t \in buildToolMap(n) :
       n \in callable <=>
         \/ GapReason(n, t) = "unexplained"
         \/ GapReason(n, t) = "mutating" /\ Disowns(t.ptc) /\ Trusted(n, t)

\* What routing hides from the agent its programs can still call, and there is
\* a function behind it (README, on auto-routing).  Two gaps are named.  An
\* override only Pi knows is dropped together with the active tool, so programs
\* get the built-in function and its class, or none.  And nothing is callable
\* while two Python names clash: routing begins without a clash, but hashline's
\* event may bring one, so may the tool an override has covered, and so does a
\* reload until it is rejected (or for good, where nobody catches the error).
KnownToPiOnly(name) ==
  customTools[name] = {} /\ \E pi \in piTools[name] : pi.hasExecute \/ pi.ptc # {}
ClashFromOutside == emitted \/ ~Quiet \/ \E m \in hidden : KnownToPiOnly(m)
HiddenToolsStayCallable ==
  LET usable == {n \in CallableNames :
                   \A t \in buildToolMap(n) : t.executor # "unavailable"}
  IN \A n \in hidden :
       n \notin usable => KnownToPiOnly(n) \/ (Throws /\ ClashFromOutside)

\* Between requests the active tools are those of the files: every tool a file
\* has now is in the registry, and is active if an agent may call it directly,
\* and no tool is active whose file is gone.  That is, if no file was reloaded
\* in a routed request: agent_end brings back the list saved when routing began,
\* with the tools that were removed since and without those that came (the gap
\* reloads names).
Direct(name, ptc) == name \in Activated({}, name, ptc)
ActiveToolsFollowFiles ==
  Quiet /\ ~request /\ ~reloads =>
    \A n \in Names :
      IF \E f \in Files : fileToTool[f] = n
      THEN /\ customTools[n] # {}
           /\ \A t \in customTools[n] : Direct(n, t.ptc) => n \in activeTools
      ELSE n \in owned => n \notin activeTools

\* README, "callers: ["code_execution"] - Python-only tool": a tool of a file
\* that is for Python alone is not among those the agent may call.
PythonOnlyToolsStayOut ==
  Quiet => \A n \in activeTools : \A t \in customTools[n] : Direct(n, t.ptc)

=============================================================================
