---------------------------- MODULE ToolRegistry ----------------------------
(***************************************************************************)
(* ToolRegistry (tool-registry.ts) with the rules it applies               *)
(* (contracts/tool-types.ts, tools/python-tool-contract.ts): which tool a  *)
(* name stands for when up to five sources offer one, and which tools a    *)
(* Python program may call.  ToolSurface changes these variables.          *)
(*                                                                         *)
(* An optional value is a set of at most one element, {} for undefined.    *)
(***************************************************************************)
CONSTANTS Names,          \* names of tools, code_execution apart
          Builtins,       \* those createBuiltinTools makes
          Aliases,        \* glob
          Bash,
          CodeExecution,
          ReadOnlyNames,  \* read-only in BUILTIN_TOOL_CONTRACTS
          Reserved        \* RESERVED_PYTHON_HELPER_NAMES

ASSUME RegistryAssumption ==
  /\ Builtins \subseteq Names /\ Aliases \subseteq (Names \ Builtins) \cap ReadOnlyNames
  /\ CodeExecution \notin Names

VARIABLES
  settings,           \* PtcSettings: allowMutations, allowBash, callableTools,
                      \* blockedTools, trustedReadOnlyTools
  customTools,        \* per name, the tool of a file, if there is one
  owned,              \* extensionOwnedToolNames
  extensionExecutors, \* per name, the executor hashline has emitted
  piTools,            \* per name, what pi.getAllTools() lists
  activeTools         \* pi.getActiveTools(), code_execution apart

registryVars == <<customTools, owned, extensionExecutors>>

a ?? b == IF a = {} THEN b ELSE a

Maybe(S) == {{}} \cup {{x} : x \in S}
Policies == {"read-only", "mutating"}
Callers == {"direct", "code_execution"}

-----------------------------------------------------------------------------
(* Metadata *)

\* PtcToolOptions; an empty list of callers is one that is given.
Options == [enabled : Maybe(BOOLEAN), callable : Maybe(BOOLEAN),
            readOnly : Maybe(BOOLEAN), policy : Maybe(Policies),
            pythonName : Maybe(Names \cup Reserved),
            defaultExposure : Maybe({"safe-by-default", "opt-in"}),
            callers : Maybe(SUBSET Callers)]

NoOptions == [enabled |-> {}, callable |-> {}, readOnly |-> {}, policy |-> {},
              pythonName |-> {}, defaultExposure |-> {}, callers |-> {}]

executionPolicy(o) ==
  o.policy ?? (IF TRUE \in o.readOnly THEN {"read-only"} ELSE {"mutating"})

\* normalizePtcToolOptions, of metadata that is there.
IsCallable(o) == TRUE \in (o.callable ?? o.enabled)
IsReadOnly(o) == "read-only" \in executionPolicy(o)

\* What is stored keeps an explicit readOnly, even one that denies the policy.
normalizeStoredPtc(ptc) ==
  {[o EXCEPT !.enabled = @ ?? {IsCallable(o)}, !.callable = {IsCallable(o)},
             !.readOnly = @ ?? {IsReadOnly(o)}, !.policy = executionPolicy(o)]
     : o \in ptc}

\* classifyTool's verdict: by the metadata, or else by the name.
ReadOnlyTool(name, ptc) ==
  IF ptc = {} THEN name \in ReadOnlyNames
              ELSE \E o \in normalizeStoredPtc(ptc) : TRUE \in o.readOnly

\* ToolInfo.  executor is who provides the function that runs, claim what that
\* provider has said of the function's policy; claim is for the properties.
Claim(ptc) == UNION {executionPolicy(o) : o \in ptc}

toolInfo(name, ptc, executor) ==
  [source |-> "extension", ptc |-> normalizeStoredPtc(ptc),
   isReadOnly |-> ReadOnlyTool(name, ptc),
   executor |-> executor, claim |-> Claim(ptc)]

-----------------------------------------------------------------------------
(* buildToolMap *)

\* glob is a copy of find, made before anything replaces find.
createBuiltinTools(name) ==
  LET class == IF name \in ReadOnlyNames THEN "read-only" ELSE "mutating"
      tool == [source |-> "builtin", ptc |-> {},
               isReadOnly |-> ReadOnlyTool(name, {}),
               executor |-> "builtin", claim |-> {class}]
  IN IF name \in Builtins THEN {tool}
     ELSE IF name \in Aliases
          THEN {[tool EXCEPT !.source = "alias", !.isReadOnly = TRUE]}
          ELSE {}

\* Faulty variant: hashline's function runs on the built-in tool's verdict.
OverlaidOnly(name) ==
  LET tools == extensionExecutors[name]
  IN IF createBuiltinTools(name) = {} THEN tools
     ELSE {[b EXCEPT !.executor = e.executor, !.claim = e.claim] :
             b \in createBuiltinTools(name), e \in tools}
          ?? createBuiltinTools(name)

\* Faulty variant: hashline's tool stands beside the built-in one.
OverlaidBeside(name) == createBuiltinTools(name) \cup extensionExecutors[name]

\* hashline's executor takes over a built-in tool, or adds one.
TakenOver(tool, e) ==
  [tool EXCEPT !.executor = e.executor, !.claim = e.claim,
               !.ptc = e.ptc ?? @, !.isReadOnly = e.isReadOnly]

Overlaid(name) ==
  LET tools == extensionExecutors[name]
  IN IF createBuiltinTools(name) = {} THEN tools
     ELSE {TakenOver(b, e) : b \in createBuiltinTools(name), e \in tools}
          ?? createBuiltinTools(name)

\* Pi never forgets a tool; of a name that was a file's tool and is none now,
\* what Pi still lists is stale.
Stale(name) == name \in owned /\ customTools[name] = {}

IsBuiltin(tool) == tool.source \in {"builtin", "alias"}

\* An entry of Pi's list in place of, or merged with, what is there already.
PiExecutor(name, pi, otherwise) ==
  IF name \in activeTools /\ pi.hasExecute
  THEN [by |-> pi.executor, claim |-> Claim(pi.ptc)] ELSE otherwise

Merged(name, tool, pi) ==
  LET ptc == normalizeStoredPtc(pi.ptc ?? tool.ptc)
      ex == PiExecutor(name, pi, [by |-> tool.executor, claim |-> tool.claim])
  IN [tool EXCEPT !.ptc = normalizeStoredPtc(ptc),
                  !.isReadOnly = ReadOnlyTool(name, ptc),
                  !.executor = ex.by, !.claim = ex.claim]

FromPi(name, pi) ==
  LET ex == PiExecutor(name, pi, [by |-> "unavailable", claim |-> {}])
  IN [toolInfo(name, pi.ptc, ex.by) EXCEPT !.claim = ex.claim]

\* Faulty variant: a removed tool is looked up in Pi's list again.
buildToolMapStale(name) ==
  LET existing == customTools[name] ?? Overlaid(name)
      overrides == IF \E t \in existing : IsBuiltin(t) /\ name \notin activeTools
                   THEN {} ELSE piTools[name]
  IN IF existing = {} THEN {FromPi(name, pi) : pi \in overrides}
     ELSE {Merged(name, t, pi) : t \in existing, pi \in overrides} ?? existing

\* The tool a name stands for, if any.  A built-in tool yields to Pi's entry of
\* its name only while that entry is active.
buildToolMap(name) ==
  LET existing == customTools[name] ?? Overlaid(name)
      overrides == IF \/ Stale(name)
                      \/ \E t \in existing : IsBuiltin(t) /\ name \notin activeTools
                   THEN {} ELSE piTools[name]
  IN IF existing = {} THEN {FromPi(name, pi) : pi \in overrides}
     ELSE {Merged(name, t, pi) : t \in existing, pi \in overrides} ?? existing

-----------------------------------------------------------------------------
(* Who may call *)

getConfiguredCallers(tool) ==
  LET configured == UNION UNION {o.callers : o \in tool.ptc}
  IN IF configured # {} THEN configured
     ELSE IF IsBuiltin(tool) \/ \E o \in tool.ptc : TRUE \in o.enabled
          THEN Callers ELSE {"direct"}

AllowsDirect(tool) == "direct" \in getConfiguredCallers(tool)
AllowsPython(tool) == "code_execution" \in getConfiguredCallers(tool)
DeclaredCallable(tool) == \E o \in tool.ptc : IsCallable(o)

Trusted(name, tool) ==
  /\ ~IsBuiltin(tool) /\ DeclaredCallable(tool)
  /\ \E o \in tool.ptc : IsReadOnly(o)
  /\ name \in settings.trustedReadOnlyTools

Listed(name) == name \in UNION settings.callableTools
OptIn(tool) == \E o \in tool.ptc : "opt-in" \in o.defaultExposure

\* Faulty variant: a tool to opt in to stays out although it is listed.
PassesFilterOptOut(name, tool) ==
  /\ name \notin settings.blockedTools
  /\ settings.callableTools = {} \/ Listed(name)
  /\ name = Bash => settings.allowBash
  /\ ~OptIn(tool)
  /\ settings.allowMutations \/ IsBuiltin(tool) \/ Trusted(name, tool)
  /\ settings.allowMutations \/ tool.isReadOnly \/ Trusted(name, tool)
  /\ AllowsPython(tool) /\ (IsBuiltin(tool) \/ DeclaredCallable(tool))

\* getCallableTools' filter.
PassesFilter(name, tool) ==
  /\ name \notin settings.blockedTools
  /\ settings.callableTools = {} \/ Listed(name)
  /\ name = Bash => settings.allowBash
  /\ OptIn(tool) => Listed(name)
  /\ settings.allowMutations \/ IsBuiltin(tool) \/ Trusted(name, tool)
  /\ settings.allowMutations \/ tool.isReadOnly \/ Trusted(name, tool)
  /\ AllowsPython(tool) /\ (IsBuiltin(tool) \/ DeclaredCallable(tool))

Eligible == {n \in Names : \E t \in buildToolMap(n) : PassesFilter(n, t)}

\* validatePythonHelperNames throws on two tools of one helper name and on a
\* reserved name that is not the tool's own.
getPythonHelperName(name, tool) ==
  (UNION {o.pythonName : o \in tool.ptc}) ?? {name}

HelperNames(name) ==
  UNION {getPythonHelperName(name, t) : t \in buildToolMap(name)}

Helpers(names) == UNION {{<<n, h>> : h \in HelperNames(n)} : n \in names}

\* (A quantifier binds the set so that TLC computes it once.)
NamesClash(names) ==
  \E helpers \in {Helpers(names)} : \E p \in helpers :
    \/ p[2] \in Reserved \ {p[1]}
    \/ \E q \in helpers : q # p /\ q[2] = p[2]

\* getCallableTools throws after it has filtered, and so does all that calls it:
\* the rebuild of code_execution, automatic routing, the start of a run.
Throws == NamesClash(Eligible)

\* What getCallableTools returns, if it returns.
CallableNames == IF Throws THEN {} ELSE Eligible

\* Faulty variant: whatever Python could call if the settings let it.
AutoRoutableWithoutPolicy ==
  {n \in Names : \E t \in buildToolMap(n) : AllowsDirect(t) /\ AllowsPython(t)}

getAutoRoutableToolNames ==
  {n \in CallableNames : \E t \in buildToolMap(n) : AllowsDirect(t)}

\* reportAllowlistGaps goes through the rules again, to say why a listed tool
\* is not callable.
GapReason(name, tool) ==
  IF name \in settings.blockedTools THEN "blocked"
  ELSE IF name = Bash /\ ~settings.allowBash THEN "bash disabled"
  ELSE IF ~IsBuiltin(tool) /\ ~DeclaredCallable(tool) THEN "not declared callable"
  ELSE IF ~AllowsPython(tool) THEN "callers"
  ELSE IF ~settings.allowMutations /\ ~tool.isReadOnly THEN "mutating"
  ELSE IF ~settings.allowMutations /\ ~IsBuiltin(tool) /\ ~Trusted(name, tool)
       THEN "not trusted"
  ELSE "unexplained"

=============================================================================
