-------------------------- MODULE ToolSurfaceProofs --------------------------
(***************************************************************************)
(* Theorems about ToolSurface for every set of names, files, offers,       *)
(* settings and lists of Pi's.                                             *)
(***************************************************************************)
EXTENDS ToolSurface, TLAPS

-----------------------------------------------------------------------------
(* What the registry's maps hold *)

\* Where each entry comes from: what a file has registered is what Pi lists of
\* it, and a function of a file's that Pi lists is of an owned name.
FileTool(n) ==
  \/ customTools[n] = {}
  \/ n \in owned /\ \E ptc \in Maybe(Options) :
       customTools[n] = {toolInfo(n, ptc, "file")} /\ piTools[n] = {PiEntry(ptc, "file")}
HashlineTool(n) ==
  \/ extensionExecutors[n] = {}
  \/ \E ptc \in Maybe(Options) : extensionExecutors[n] = {toolInfo(n, ptc, "hashline")}
PiTool(n) ==
  \/ piTools[n] = {}
  \/ \E ptc \in Maybe(Options), by \in {"file", "pi"} :
       piTools[n] = {PiEntry(ptc, by)} /\ (by = "file" => n \in owned)
Provenance == \A n \in Names : FileTool(n) /\ HashlineTool(n) /\ PiTool(n)

\* The types of what is not in those maps.
Control ==
  /\ phase \in {"starting", "running", "crashed"}
  /\ todo \subseteq Files /\ failing \subseteq Files
  /\ registered \in BOOLEAN
Surface ==
  /\ settings \in SettingsChoices
  /\ host \in [listsPtc : BOOLEAN, listsExecute : BOOLEAN]
  /\ DOMAIN customTools = Names /\ DOMAIN extensionExecutors = Names
  /\ DOMAIN piTools = Names
  /\ owned \subseteq Names /\ activeTools \subseteq Names
  /\ fileToTool \in [Files -> Names \cup {"none"}]
  /\ request \in BOOLEAN /\ Control
  /\ savedTools \in Maybe(SUBSET Names)
  /\ hidden \subseteq Names /\ reloads \in BOOLEAN /\ emitted \in BOOLEAN

\* Between requests nothing is saved or hidden.
Unrouted == ~request => savedTools = {} /\ hidden = {}

\* The list the agent will have when the request is over follows the files.
Later == IF savedTools = {} THEN activeTools ELSE UNION savedTools
Follows(n, S) ==
  /\ \A t \in customTools[n] : Direct(n, t.ptc) => n \in S
  /\ Stale(n) => n \notin S
FilesFollowed == ~reloads => \A n \in Names : Follows(n, Later)

\* No two files define a tool of one name (see the run hot_reload_moved); then the tools
\* in the registry are those of fileToTool.
OwnTools ==
  \A f \in Files, g \in Files : f # g =>
    \A a \in FileTools[f], b \in FileTools[g] : a[1] # b[1]
HasFile(n) == \E f \in Files : fileToTool[f] = n
FilesKnown ==
  OwnTools =>
    /\ \A f \in Files : fileToTool[f] # "none" => \E a \in FileTools[f] : a[1] = fileToTool[f]
    /\ \A n \in Names : customTools[n] # {} <=> HasFile(n)

\* A clash of Python names while tools are hidden has come from outside, and no
\* request is open before the start is over.
ClashNoted ==
  /\ phase = "starting" => ~request
  /\ hidden # {} /\ Throws => ClashFromOutside

\* What was hidden is not active, and still passes the filter.
Usable(n) ==
  n \in Eligible /\ \A t \in buildToolMap(n) : t.executor # "unavailable"
HiddenUsable ==
  \A n \in hidden : n \notin activeTools /\ (Usable(n) \/ KnownToPiOnly(n))

SurfaceInv == Surface /\ Provenance /\ Unrouted /\ FilesFollowed /\ HiddenUsable

-----------------------------------------------------------------------------
(* Metadata *)

Normal(o) ==
  [o EXCEPT !.enabled = @ ?? {IsCallable(o)}, !.callable = {IsCallable(o)},
            !.readOnly = @ ?? {IsReadOnly(o)}, !.policy = executionPolicy(o)]

\* An optional value is there or is not.
LEMMA MaybeCases == \A S : \A x : x \in Maybe(S) <=> x = {} \/ \E y \in S : x = {y}
  BY Zenon DEF Maybe

\* A value that is there is one of the values it may be.
LEMMA MaybeThere ==
  ASSUME NEW S, NEW x \in Maybe(S), x # {}
  PROVE  \E y \in S : x = {y}
  BY MaybeCases, Zenon

\* Booleans as values.
LEMMA Verdict == \A b \in BOOLEAN : TRUE \in {b} <=> b
  BY Zenon

\* Booleans that follow from each other are equal.
LEMMA SameVerdict == \A b \in BOOLEAN, c \in BOOLEAN : (b <=> c) => b = c
  BY Zenon

\* Whether a tool is callable or read-only is yes or no.
LEMMA Booleans == \A o : IsCallable(o) \in BOOLEAN /\ IsReadOnly(o) \in BOOLEAN
  BY SMT DEF IsCallable, IsReadOnly

\* So is whether a tool counts as read-only.
LEMMA ClassIsBoolean == ASSUME NEW n, NEW ptc PROVE ReadOnlyTool(n, ptc) \in BOOLEAN
<1>1. CASE ptc = {}
  BY <1>1, SMT DEF ReadOnlyTool
<1>2. CASE ptc # {}
  BY <1>2, Zenon DEF ReadOnlyTool
<1>3. QED
  BY <1>1, <1>2

\* The fields of metadata.
LEMMA OptionFields ==
  ASSUME NEW o \in Options
  PROVE  /\ o.enabled \in Maybe(BOOLEAN) /\ o.callable \in Maybe(BOOLEAN)
         /\ o.readOnly \in Maybe(BOOLEAN) /\ o.policy \in Maybe(Policies)
         /\ o.pythonName \in Maybe(Names \cup Reserved)
         /\ o.defaultExposure \in Maybe({"safe-by-default", "opt-in"})
         /\ o.callers \in Maybe(SUBSET Callers)
  BY DEF Options

\* The policy of metadata is there, and is one.
LEMMA PolicyIsOne == ASSUME NEW o \in Options PROVE \E p \in Policies : executionPolicy(o) = {p}
<1>1. o.policy = {} \/ \E p \in Policies : o.policy = {p}
  BY OptionFields, MaybeCases, Zenon
<1>2. CASE o.policy = {}
  <2>1. "read-only" \in Policies /\ "mutating" \in Policies
    BY DEF Policies
  <2>2. QED
    BY <1>2, <2>1 DEF executionPolicy, ??
<1>3. CASE \E p \in Policies : o.policy = {p}
  BY <1>3 DEF executionPolicy, ??
<1>4. QED
  BY <1>1, <1>2, <1>3

\* What normalizeStoredPtc makes of metadata: the class and the callers stay, and
\* doing it again changes nothing.
LEMMA NormalFields ==
  ASSUME NEW o \in Options
  PROVE  /\ Normal(o) \in Options
         /\ Normal(o).enabled = o.enabled ?? {IsCallable(o)} /\ Normal(o).enabled # {}
         /\ Normal(o).callable = {IsCallable(o)}
         /\ Normal(o).readOnly = o.readOnly ?? {IsReadOnly(o)}
         /\ Normal(o).policy = executionPolicy(o)
         /\ Normal(o).callers = o.callers /\ Normal(o).defaultExposure = o.defaultExposure
         /\ Normal(o).pythonName = o.pythonName
<1> DEFINE en == o.enabled ?? {IsCallable(o)}
           ca == {IsCallable(o)}
           ro == o.readOnly ?? {IsReadOnly(o)}
           po == executionPolicy(o)
<1>1. IsCallable(o) \in BOOLEAN /\ IsReadOnly(o) \in BOOLEAN
  BY Booleans
<1>2. en \in Maybe(BOOLEAN) /\ en # {} /\ ca \in Maybe(BOOLEAN) /\ ro \in Maybe(BOOLEAN)
  BY <1>1, OptionFields, MaybeCases, Zenon DEF ??
<1>3. po \in Maybe(Policies)
  BY PolicyIsOne, MaybeCases, Zenon
<1> HIDE DEF en, ca, ro, po
<1>4. Normal(o) = [o EXCEPT !.enabled = en, !.callable = ca, !.readOnly = ro, !.policy = po]
  BY DEF Normal, en, ca, ro, po
<1>5. /\ Normal(o) \in Options
      /\ Normal(o).enabled = en /\ Normal(o).callable = ca /\ Normal(o).readOnly = ro
      /\ Normal(o).policy = po /\ Normal(o).callers = o.callers
      /\ Normal(o).defaultExposure = o.defaultExposure /\ Normal(o).pythonName = o.pythonName
  BY <1>2, <1>3, <1>4 DEF Options
<1>6. QED
  BY <1>2, <1>5, Zenon DEF en, ca, ro, po

\* A record of metadata is its fields.
LEMMA SameFields ==
  ASSUME NEW o \in Options, NEW q \in Options,
         o.enabled = q.enabled, o.callable = q.callable, o.readOnly = q.readOnly,
         o.policy = q.policy, o.pythonName = q.pythonName,
         o.defaultExposure = q.defaultExposure, o.callers = q.callers
  PROVE  o = q
  BY DEF Options

\* Normalised metadata classifies a tool as the metadata did.
LEMMA SameClass ==
  ASSUME NEW o \in Options
  PROVE  /\ IsCallable(Normal(o)) = IsCallable(o)
         /\ executionPolicy(Normal(o)) = executionPolicy(o)
         /\ IsReadOnly(Normal(o)) = IsReadOnly(o)
<1> DEFINE q == Normal(o)
<1>1. q.callable = {IsCallable(o)} /\ q.policy = executionPolicy(o)
  BY NormalFields
<1>2. q.policy # {}
  BY <1>1, PolicyIsOne
<1> HIDE DEF q
<1>3. IsCallable(q) <=> IsCallable(o)
  <2>1. IsCallable(q) <=> TRUE \in q.callable
    BY <1>1 DEF IsCallable, ??
  <2>2. TRUE \in {IsCallable(o)} <=> IsCallable(o)
    BY Booleans, Verdict, Zenon
  <2>3. QED
    BY <1>1, <2>1, <2>2
<1>4. IsCallable(q) = IsCallable(o)
  BY <1>3, Booleans, SameVerdict, Zenon
<1>5. executionPolicy(q) = executionPolicy(o)
  BY <1>1, <1>2, Zenon DEF executionPolicy, ??
<1>6. IsReadOnly(q) = IsReadOnly(o)
  BY <1>5, SMT DEF IsReadOnly
<1>7. QED
  BY <1>4, <1>5, <1>6, Zenon DEF q

\* Normalising again changes nothing.
LEMMA NormalTwice == ASSUME NEW o \in Options PROVE Normal(Normal(o)) = Normal(o)
<1> DEFINE q == Normal(o)
<1>1. q \in Options
  BY NormalFields
<1>2. q.enabled # {} /\ q.callable = {IsCallable(o)} /\ q.policy = executionPolicy(o)
      /\ q.readOnly = o.readOnly ?? {IsReadOnly(o)}
  BY NormalFields
<1>3. IsCallable(q) = IsCallable(o) /\ executionPolicy(q) = executionPolicy(o)
  BY SameClass
<1>4. q.readOnly # {}
  BY <1>2, Zenon DEF ??
<1> HIDE DEF q
<1>5. /\ Normal(q) \in Options
      /\ Normal(q).enabled = q.enabled ?? {IsCallable(q)}
      /\ Normal(q).callable = {IsCallable(q)}
      /\ Normal(q).readOnly = q.readOnly ?? {IsReadOnly(q)}
      /\ Normal(q).policy = executionPolicy(q)
      /\ Normal(q).callers = q.callers /\ Normal(q).defaultExposure = q.defaultExposure
      /\ Normal(q).pythonName = q.pythonName
  BY <1>1, NormalFields
<1>6. Normal(q).enabled = q.enabled /\ Normal(q).readOnly = q.readOnly
  BY <1>2, <1>4, <1>5, Zenon DEF ??
<1>7. Normal(q).callable = q.callable /\ Normal(q).policy = q.policy
  BY <1>2, <1>3, <1>5, Zenon
<1>8. Normal(q) = q
  BY <1>1, <1>5, <1>6, <1>7, SameFields, Zenon
<1>9. QED
  BY <1>8 DEF q

\* normalizeStoredPtc, of what is there and of what is not.
LEMMA Stored ==
  ASSUME NEW ptc \in Maybe(Options)
  PROVE  /\ normalizeStoredPtc(ptc) \in Maybe(Options)
         /\ normalizeStoredPtc(normalizeStoredPtc(ptc)) = normalizeStoredPtc(ptc)
         /\ ptc = {} <=> normalizeStoredPtc(ptc) = {}
         /\ \A o \in Options : ptc = {o} => normalizeStoredPtc(ptc) = {Normal(o)}
<1>1. \A x : normalizeStoredPtc(x) = {Normal(o) : o \in x}
  BY Zenon DEF normalizeStoredPtc, Normal
<1>2. CASE ptc = {}
  <2>1. normalizeStoredPtc({}) = {}
    BY <1>1
  <2>2. {} \in Maybe(Options)
    BY MaybeCases, Zenon
  <2>3. \A o : {} # {o}
    OBVIOUS
  <2>4. QED
    BY <1>2, <2>1, <2>2, <2>3, Zenon
<1>3. CASE ptc # {}
  <2>1. PICK o \in Options : ptc = {o}
    BY <1>3, MaybeThere, SMT
  <2>2. \A x : normalizeStoredPtc({x}) = {Normal(x)}
    BY <1>1, Zenon
  <2>3. normalizeStoredPtc(ptc) = {Normal(o)}
    BY <2>1, <2>2, Zenon
  <2>4. normalizeStoredPtc({Normal(o)}) = {Normal(o)}
    BY <2>2, NormalTwice, Zenon
  <2>5. Normal(o) \in Options
    BY NormalFields
  <2>6. \A x \in Options : ptc = {x} => normalizeStoredPtc(ptc) = {Normal(x)}
    BY <2>2, Zenon
  <2>7. QED
    BY <1>3, <2>3, <2>4, <2>5, <2>6, MaybeCases, Zenon
<1>4. QED
  BY <1>2, <1>3

\* A tool's metadata as it is stored: normalised, and the tool's class is what it
\* says.
IsStored(ptc) == ptc \in Maybe(Options) /\ normalizeStoredPtc(ptc) = ptc

\* What stored metadata says, it says twice.
LEMMA StoredFields ==
  ASSUME NEW ptc, IsStored(ptc), NEW o \in ptc
  PROVE  /\ o \in Options /\ ptc = {o} /\ o = Normal(o)
         /\ o.policy = executionPolicy(o) /\ o.callable = {IsCallable(o)} /\ o.enabled # {}
         /\ o.readOnly \in {{TRUE}, {FALSE}}
         /\ o.policy \in {{"read-only"}, {"mutating"}}
<1>1. o \in Options /\ ptc = {o}
  <2>1. ptc \in Maybe(Options) /\ ptc # {}
    BY DEF IsStored
  <2>2. PICK y \in Options : ptc = {y}
    BY <2>1, MaybeThere, SMT
  <2>3. QED
    BY <2>2
<1>2. {Normal(o)} = {o}
  BY <1>1, Stored, Zenon DEF IsStored
<1>3. o = Normal(o)
  BY <1>2, Zenon
<1>4. o.readOnly # {} /\ o.readOnly \in Maybe(BOOLEAN)
  <2>1. o.readOnly = o.readOnly ?? {IsReadOnly(o)}
    BY <1>1, <1>3, NormalFields, Zenon
  <2>2. QED
    BY <1>1, <2>1, OptionFields, Zenon DEF ??
<1>6. o.policy = executionPolicy(o) /\ o.callable = {IsCallable(o)} /\ o.enabled # {}
  BY <1>1, <1>3, NormalFields, Zenon
<1>7. o.policy \in {{"read-only"}, {"mutating"}}
  BY <1>1, <1>6, PolicyIsOne DEF Policies
<1>8. o.readOnly \in {{TRUE}, {FALSE}}
  <2>1. ASSUME NEW x \in Maybe(BOOLEAN), x # {} PROVE x = {TRUE} \/ x = {FALSE}
    <3>1. PICK y : y \in BOOLEAN /\ x = {y}
      BY <2>1, Zenon DEF Maybe
    <3>2. y = TRUE \/ y = FALSE
      BY <3>1, Zenon
    <3>3. QED
      BY <3>1, <3>2, Zenon
  <2>2. QED
    BY <1>4, <2>1, Zenon
<1>9. QED
  BY <1>1, <1>3, <1>6, <1>7, <1>8

\* The class that normalised metadata gives a tool is the one it had, and a tool
\* that is called mutating passes as read-only only by contradicting itself.
LEMMA ClassOfStored ==
  ASSUME NEW n, NEW ptc \in Maybe(Options)
  PROVE  /\ IsStored(normalizeStoredPtc(ptc))
         /\ ReadOnlyTool(n, ptc) \in BOOLEAN
         /\ ReadOnlyTool(n, normalizeStoredPtc(ptc)) = ReadOnlyTool(n, ptc)
         /\ Claim(ptc) \in Maybe(Policies)
         /\ /\ "mutating" \in Claim(ptc)
            /\ ReadOnlyTool(n, ptc) \/ \E o \in normalizeStoredPtc(ptc) : IsReadOnly(o)
            => Contradicts(normalizeStoredPtc(ptc))
<1> DEFINE q == normalizeStoredPtc(ptc)
<1>1. IsStored(q) /\ q \in Maybe(Options) /\ normalizeStoredPtc(q) = q
  BY Stored, Zenon DEF IsStored
<1>2. ReadOnlyTool(n, ptc) \in BOOLEAN /\ ReadOnlyTool(n, q) \in BOOLEAN
  BY ClassIsBoolean
<1>3. CASE ptc = {}
  <2>1. q = {} /\ Claim(ptc) = {}
    BY <1>3, Stored DEF Claim
  <2>2. Claim(ptc) \in Maybe(Policies)
    BY <2>1, MaybeCases, Zenon
  <2>3. q = ptc
    BY <1>3, <2>1
  <2>4. "mutating" \notin Claim(ptc)
    BY <2>1
  <2>5. QED
    BY <1>1, <1>2, <2>2, <2>3, <2>4, Zenon
<1>4. CASE ptc # {}
  <2>1. PICK o \in Options : ptc = {o}
    BY <1>4, MaybeThere, SMT
  <2>2. q = {Normal(o)} /\ q # {}
    BY <2>1, Stored, Zenon
  <2>3. ReadOnlyTool(n, q) <=> \E x \in q : TRUE \in x.readOnly
    BY <1>1, <2>2, Zenon DEF ReadOnlyTool
  <2>4. ReadOnlyTool(n, ptc) <=> \E x \in q : TRUE \in x.readOnly
    BY <1>4, Zenon DEF ReadOnlyTool
  <2>5. ReadOnlyTool(n, q) = ReadOnlyTool(n, ptc)
    BY <1>2, <2>3, <2>4, SameVerdict, Zenon
  <2>6. Claim(ptc) = executionPolicy(o)
    BY <2>1 DEF Claim
  <2>7. Claim(ptc) \in Maybe(Policies)
    BY <2>6, PolicyIsOne, MaybeCases, Zenon
  <2>8. ASSUME "mutating" \in Claim(ptc),
               ReadOnlyTool(n, ptc) \/ \E x \in q : IsReadOnly(x)
        PROVE  Contradicts(q)
    <3>1. executionPolicy(o) = {"mutating"}
      BY <2>6, <2>8, PolicyIsOne
    <3>2. \A x \in q : x.policy = {"mutating"} /\ executionPolicy(x) = {"mutating"}
      BY <2>2, <3>1, NormalFields, SameClass
    <3>3. \A x \in q : ~IsReadOnly(x)
      BY <3>2 DEF IsReadOnly
    <3>4. \E x \in q : TRUE \in x.readOnly
      BY <2>4, <2>8, <3>3
    <3>5. QED
      BY <3>2, <3>4 DEF Contradicts
  <2>9. QED
    BY <1>1, <1>2, <2>5, <2>7, <2>8
<1>5. QED
  BY <1>3, <1>4

-----------------------------------------------------------------------------
(* Where a tool comes from *)

\* A tool's class is what its metadata says, or else its name.
Sound(n, t) ==
  t \in ToolInfos /\ IsStored(t.ptc) /\ t.isReadOnly = ReadOnlyTool(n, t.ptc)

\* Whose function is called mutating does not pass as read-only.
Passes(t) == t.isReadOnly \/ \E o \in t.ptc : IsReadOnly(o)
Honest(t) == "mutating" \in t.claim /\ Passes(t) => Contradicts(t.ptc)

\* What is registered with metadata is sound and honest.
LEMMA Registered ==
  ASSUME NEW n, NEW ptc \in Maybe(Options),
         NEW by \in {"hashline", "file", "pi", "unavailable"}
  PROVE  LET t == toolInfo(n, ptc, by)
         IN /\ Sound(n, t) /\ Honest(t) /\ t.source = "extension"
            /\ t.executor = by /\ t.ptc = normalizeStoredPtc(ptc) /\ t.claim = Claim(ptc)
            /\ t.isReadOnly = ReadOnlyTool(n, ptc)
<1> DEFINE t == toolInfo(n, ptc, by)
           q == normalizeStoredPtc(ptc)
           r == ReadOnlyTool(n, ptc)
           c == Claim(ptc)
<1>1. /\ IsStored(q) /\ q \in Maybe(Options) /\ r \in BOOLEAN /\ ReadOnlyTool(n, q) = r
      /\ c \in Maybe(Policies)
  BY ClassOfStored, Zenon DEF IsStored
<1>2. "mutating" \in c /\ (r \/ \E o \in q : IsReadOnly(o)) => Contradicts(q)
  BY ClassOfStored, Zenon
<1>3. t = [source |-> "extension", ptc |-> q, isReadOnly |-> r, executor |-> by, claim |-> c]
  BY DEF toolInfo
<1> HIDE DEF t, q, r, c
<1>4. /\ t.source = "extension" /\ t.ptc = q /\ t.isReadOnly = r /\ t.executor = by
      /\ t.claim = c /\ t \in ToolInfos
  BY <1>1, <1>3 DEF ToolInfos
<1>5. Sound(n, t) /\ Honest(t)
  BY <1>1, <1>2, <1>4, Zenon DEF Sound, Honest, Passes
<1>6. QED
  BY <1>4, <1>5, Zenon DEF t, q, r, c

\* The built-in tools have no metadata and are what their names say.
LEMMA BuiltinTool ==
  ASSUME NEW n \in Names
  PROVE  \/ createBuiltinTools(n) = {}
         \/ \E b \in ToolInfos :
              /\ createBuiltinTools(n) = {b} /\ b.ptc = {} /\ b.executor = "builtin"
              /\ Sound(n, b) /\ Honest(b) /\ IsBuiltin(b)
<1> DEFINE r == n \in ReadOnlyNames
           class == IF r THEN "read-only" ELSE "mutating"
           tool(s) == [source |-> s, ptc |-> {}, isReadOnly |-> r,
                       executor |-> "builtin", claim |-> {class}]
<1>1. \A x : ReadOnlyTool(x, {}) <=> x \in ReadOnlyNames
  BY Zenon DEF ReadOnlyTool
<1>2. r \in BOOLEAN /\ ReadOnlyTool(n, {}) \in BOOLEAN
  BY ClassIsBoolean, SMT
<1>3. ReadOnlyTool(n, {}) = r
  BY <1>1, <1>2, SameVerdict, Zenon
<1>4. \/ createBuiltinTools(n) = {tool("builtin")}
      \/ createBuiltinTools(n) = {tool("alias")}
      \/ createBuiltinTools(n) = {}
  <2>1. n \in Aliases => r = TRUE
    BY <1>2, RegistryAssumption, Zenon
  <2>2. createBuiltinTools(n) =
          IF n \in Builtins THEN {tool("builtin")}
          ELSE IF n \in Aliases
               THEN {[tool("builtin") EXCEPT !.source = "alias", !.isReadOnly = TRUE]}
               ELSE {}
    BY <1>3, Zenon DEF createBuiltinTools
  <2>3. n \in Aliases =>
          [tool("builtin") EXCEPT !.source = "alias", !.isReadOnly = TRUE] = tool("alias")
    <3> DEFINE b == tool("builtin")
               a == tool("alias")
    <3> HIDE DEF r, class
    <3>1. /\ b \in [source : {"builtin", "alias"}, ptc : {{}}, isReadOnly : {r},
                    executor : {"builtin"}, claim : {{class}}]
          /\ a \in [source : {"alias"}, ptc : {{}}, isReadOnly : {r},
                    executor : {"builtin"}, claim : {{class}}]
      OBVIOUS
    <3> HIDE DEF a, b
    <3>2. r = TRUE => [b EXCEPT !.source = "alias", !.isReadOnly = TRUE] = a
      <4>1. ASSUME r = TRUE
            PROVE  \A k \in {"source", "ptc", "isReadOnly", "executor", "claim"} :
                     [b EXCEPT !.source = "alias", !.isReadOnly = TRUE][k] = a[k]
        BY <3>1, <4>1
      <4>2. QED
        BY <3>1, <4>1
    <3>3. QED
      BY <2>1, <3>2, Zenon DEF a, b
  <2>4. QED
    BY <2>2, <2>3, Zenon
<1>5. {} \in Maybe(Options) /\ {class} \in Maybe(Policies) /\ IsStored({})
  <2>1. class \in Policies
    BY DEF Policies
  <2>2. {} \in Maybe(Options)
    BY MaybeCases, Zenon
  <2>3. QED
    BY <2>1, <2>2, MaybeCases, Stored, Zenon DEF IsStored
<1>6. ~r \/ class = "read-only"
  OBVIOUS
<1>7. ASSUME NEW s \in {"builtin", "alias"}
      PROVE  LET b == tool(s) IN /\ b \in ToolInfos /\ b.ptc = {} /\ b.executor = "builtin"
                                 /\ Sound(n, b) /\ Honest(b) /\ IsBuiltin(b)
  <2> DEFINE b == tool(s)
  <2> HIDE DEF r, class
  <2>1. /\ b.source = s /\ b.ptc = {} /\ b.isReadOnly = r /\ b.executor = "builtin"
        /\ b.claim = {class}
    OBVIOUS
  <2>2. b \in ToolInfos
    BY <1>2, <1>5 DEF ToolInfos
  <2> HIDE DEF b
  <2>3. Sound(n, b)
    BY <1>3, <1>5, <2>1, <2>2, Zenon DEF Sound
  <2>4. Honest(b)
    BY <1>6, <2>1 DEF Honest, Passes
  <2>5. IsBuiltin(b)
    BY <2>1 DEF IsBuiltin
  <2>6. QED
    BY <2>1, <2>2, <2>3, <2>4, <2>5, Zenon DEF b
<1> HIDE DEF tool
<1>8. QED
  BY <1>4, <1>7, Zenon

\* hashline's function takes the built-in tool's place with its own verdict.
LEMMA OverlaidTool ==
  ASSUME NEW n \in Names, HashlineTool(n)
  PROVE  \/ Overlaid(n) = {}
         \/ \E e \in ToolInfos :
              /\ Overlaid(n) = {e} /\ Sound(n, e) /\ Honest(e)
              /\ e.executor \in {"builtin", "hashline"}
              /\ IsBuiltin(e) <=> createBuiltinTools(n) # {}
<1> DEFINE good(e) == /\ e \in ToolInfos /\ Sound(n, e) /\ Honest(e)
                      /\ e.executor \in {"builtin", "hashline"}
<1>1. \/ extensionExecutors[n] = {}
      \/ \E x : extensionExecutors[n] = {x} /\ good(x) /\ x.source = "extension"
  <2>1. ASSUME NEW ptc \in Maybe(Options)
        PROVE  LET x == toolInfo(n, ptc, "hashline") IN good(x) /\ x.source = "extension"
    BY Registered DEF Sound
  <2> HIDE DEF good
  <2>2. QED
    BY <2>1, Zenon DEF HashlineTool
<1>2. \/ createBuiltinTools(n) = {}
      \/ \E b : /\ createBuiltinTools(n) = {b} /\ good(b) /\ IsBuiltin(b) /\ b.ptc = {}
  BY BuiltinTool
<1>3. CASE createBuiltinTools(n) = {}
  <2>1. Overlaid(n) = extensionExecutors[n]
    BY <1>3, SMT DEF Overlaid
  <2>2. \A x : x.source = "extension" => ~IsBuiltin(x)
    BY DEF IsBuiltin
  <2>3. QED
    BY <1>1, <1>3, <2>1, <2>2, Zenon
<1>4. ASSUME NEW b, createBuiltinTools(n) = {b}, good(b), IsBuiltin(b), b.ptc = {},
             extensionExecutors[n] = {}
      PROVE  Overlaid(n) = {b}
  <2>1. {TakenOver(c, e) : c \in createBuiltinTools(n), e \in extensionExecutors[n]} = {}
    BY <1>4, SMT
  <2>2. QED
    BY <1>4, <2>1, SMT DEF Overlaid, ??
<1>5. ASSUME NEW b, createBuiltinTools(n) = {b}, good(b), IsBuiltin(b), b.ptc = {},
             NEW x, extensionExecutors[n] = {x}, good(x)
      PROVE  \E e : Overlaid(n) = {e} /\ good(e) /\ IsBuiltin(e)
  <2> DEFINE m == TakenOver(b, x)
  <2>1. {TakenOver(c, e) : c \in createBuiltinTools(n), e \in extensionExecutors[n]} = {m}
    BY <1>5, SMT
  <2>2. Overlaid(n) = {m}
    <3> HIDE DEF m
    <3>1. {m} # {} /\ createBuiltinTools(n) # {}
      BY <1>5
    <3>2. QED
      BY <2>1, <3>1, SMT DEF Overlaid, ??
  <2>3. x.ptc ?? b.ptc = x.ptc
    BY <1>5, Zenon DEF ??
  <2>4. /\ m.executor = x.executor /\ m.claim = x.claim /\ m.ptc = x.ptc
        /\ m.isReadOnly = x.isReadOnly /\ m.source = b.source /\ m \in ToolInfos
    BY <1>5, <2>3 DEF ToolInfos, TakenOver
  <2> HIDE DEF m
  <2>5. Sound(n, m) /\ Honest(m)
    BY <1>5, <2>4, Zenon DEF Sound, Honest, Passes
  <2>6. IsBuiltin(m)
    BY <1>5, <2>4, Zenon DEF IsBuiltin
  <2>7. QED
    BY <1>5, <2>2, <2>4, <2>5, <2>6, Zenon
<1>6. createBuiltinTools(n) # {} =>
        \E e : Overlaid(n) = {e} /\ good(e) /\ IsBuiltin(e)
  <2> HIDE DEF good
  <2>1. QED
    BY <1>1, <1>2, <1>4, <1>5, Zenon
<1>7. QED
  BY <1>3, <1>6, Zenon

\* What buildToolMap has before it comes to Pi's list.
Existing(n) == customTools[n] ?? Overlaid(n)

\* A file's tool comes before all others.
LEMMA ExistingTool ==
  ASSUME NEW n \in Names, HashlineTool(n), FileTool(n)
  PROVE  \/ Existing(n) = {} /\ customTools[n] = {}
         \/ \E e \in ToolInfos :
              /\ Existing(n) = {e} /\ Sound(n, e) /\ Honest(e)
              /\ e.executor \in {"builtin", "hashline", "file"}
              /\ e.executor = "file" <=> customTools[n] # {}
              /\ IsBuiltin(e) <=> customTools[n] = {} /\ createBuiltinTools(n) # {}
<1>1. CASE customTools[n] = {}
  <2>1. Existing(n) = Overlaid(n)
    BY <1>1, Zenon DEF Existing, ??
  <2>2. CASE Overlaid(n) = {}
    BY <1>1, <2>1, <2>2
  <2>3. CASE Overlaid(n) # {}
    <3>1. PICK e \in ToolInfos : /\ Overlaid(n) = {e} /\ Sound(n, e) /\ Honest(e)
                                 /\ e.executor \in {"builtin", "hashline"}
                                 /\ IsBuiltin(e) <=> createBuiltinTools(n) # {}
      BY <2>3, OverlaidTool, Zenon
    <3>2. e.executor \in {"builtin", "hashline", "file"} /\ e.executor # "file"
      BY <3>1
    <3>3. QED
      BY <1>1, <2>1, <3>1, <3>2, Zenon
  <2>4. QED
    BY <2>2, <2>3
<1>2. CASE customTools[n] # {}
  <2>1. PICK ptc \in Maybe(Options) : customTools[n] = {toolInfo(n, ptc, "file")}
    BY <1>2, Zenon DEF FileTool
  <2> DEFINE e == toolInfo(n, ptc, "file")
  <2>2. Existing(n) = {e}
    BY <1>2, <2>1, Zenon DEF Existing, ??
  <2>3. e \in ToolInfos /\ Sound(n, e) /\ Honest(e) /\ e.executor = "file" /\ e.source = "extension"
    BY Registered DEF Sound
  <2> HIDE DEF e
  <2>4. ~IsBuiltin(e) /\ e.executor \in {"builtin", "hashline", "file"}
    BY <2>3 DEF IsBuiltin
  <2>5. QED
    BY <1>2, <2>2, <2>3, <2>4, Zenon
<1>3. QED
  BY <1>1, <1>2, Zenon

\* What Pi lists of a name.
LEMMA PiCases ==
  ASSUME Surface, NEW n \in Names, PiTool(n)
  PROVE  \/ piTools[n] = {}
         \/ \E pi \in PiEntries : piTools[n] = {pi} /\ (pi.executor = "file" => n \in owned)
<1>1. host \in [listsPtc : BOOLEAN, listsExecute : BOOLEAN]
  BY DEF Surface
<1>2. ASSUME NEW ptc \in Maybe(Options), NEW by \in {"file", "pi"}
      PROVE  PiEntry(ptc, by) \in PiEntries /\ PiEntry(ptc, by).executor = by
  <2> DEFINE p == IF host.listsPtc THEN ptc ELSE {}
  <2>1. p \in Maybe(Options)
    BY MaybeCases, Zenon
  <2>2. host.listsExecute \in BOOLEAN
    BY <1>1
  <2>3. PiEntry(ptc, by) = [ptc |-> p, executor |-> by, hasExecute |-> host.listsExecute]
    BY DEF PiEntry
  <2> HIDE DEF p
  <2>4. QED
    BY <2>1, <2>2, <2>3 DEF PiEntries
<1>3. QED
  BY <1>2, Zenon DEF PiTool

\* Pi's entry merged into a tool: its metadata counts if it lists any, its function
\* if the tool is active and Pi lists one.
LEMMA MergedTool ==
  ASSUME NEW n, NEW e \in ToolInfos, Sound(n, e), NEW pi \in PiEntries
  PROVE  LET t == Merged(n, e, pi)
             used == n \in activeTools /\ pi.hasExecute
         IN /\ t \in ToolInfos /\ Sound(n, t) /\ t.source = e.source
            /\ t.ptc = normalizeStoredPtc(pi.ptc ?? e.ptc)
            /\ t.isReadOnly = ReadOnlyTool(n, t.ptc)
            /\ used => t.executor = pi.executor /\ t.claim = Claim(pi.ptc)
            /\ ~used => t.executor = e.executor /\ t.claim = e.claim
            /\ pi.ptc = {} => t.ptc = e.ptc /\ t.isReadOnly = e.isReadOnly
<1> DEFINE t == Merged(n, e, pi)
           used == n \in activeTools /\ pi.hasExecute
           q == normalizeStoredPtc(pi.ptc ?? e.ptc)
           ex == PiExecutor(n, pi, [by |-> e.executor, claim |-> e.claim])
           r == ReadOnlyTool(n, q)
<1>1. pi.ptc \in Maybe(Options) /\ e.ptc \in Maybe(Options)
  BY DEF PiEntries, ToolInfos
<1>2. (pi.ptc ?? e.ptc) \in Maybe(Options)
  BY <1>1, Zenon DEF ??
<1>3. IsStored(q) /\ q \in Maybe(Options) /\ normalizeStoredPtc(q) = q
  BY <1>2, ClassOfStored, Zenon DEF IsStored
<1>4. r \in BOOLEAN
  BY ClassIsBoolean
<1>5. /\ used => ex.by = pi.executor /\ ex.claim = Claim(pi.ptc)
      /\ ~used => ex.by = e.executor /\ ex.claim = e.claim
  BY DEF PiExecutor
<1>6. /\ ex.by \in {"builtin", "hashline", "file", "pi", "unavailable"}
      /\ ex.claim \in Maybe(Policies)
  <2>1. Claim(pi.ptc) \in Maybe(Policies)
    BY <1>1, ClassOfStored, Zenon
  <2>2. /\ pi.executor \in {"file", "pi"} /\ e.claim \in Maybe(Policies)
        /\ e.executor \in {"builtin", "hashline", "file", "pi", "unavailable"}
    BY DEF PiEntries, ToolInfos
  <2> HIDE DEF used, ex
  <2>3. QED
    BY <1>5, <2>1, <2>2
<1>7. t = [e EXCEPT !.ptc = q, !.isReadOnly = r, !.executor = ex.by, !.claim = ex.claim]
  BY <1>3, Zenon DEF Merged
<1> HIDE DEF t, q, r, ex, used
<1>8. /\ t \in ToolInfos /\ t.source = e.source /\ t.ptc = q /\ t.isReadOnly = r
      /\ t.executor = ex.by /\ t.claim = ex.claim
  BY <1>3, <1>4, <1>6, <1>7 DEF ToolInfos
<1>9. Sound(n, t)
  BY <1>3, <1>8, Zenon DEF Sound, r
<1>10. pi.ptc = {} => t.ptc = e.ptc /\ t.isReadOnly = e.isReadOnly
  <2>1. pi.ptc = {} => q = e.ptc
    BY Zenon DEF q, ??, Sound, IsStored
  <2>2. QED
    BY <1>8, <2>1, Zenon DEF Sound, r
<1>11. QED
  BY <1>5, <1>8, <1>9, <1>10, Zenon DEF t, q, used, Sound

\* Pi's entry of a name that nobody else offers.
LEMMA FromPiTool ==
  ASSUME NEW n, NEW pi \in PiEntries
  PROVE  LET t == FromPi(n, pi)
         IN /\ t \in ToolInfos /\ Sound(n, t) /\ Honest(t) /\ t.source = "extension"
            /\ t.ptc = normalizeStoredPtc(pi.ptc)
            /\ t.executor = "file" => pi.executor = "file"
<1> DEFINE t == FromPi(n, pi)
           ex == PiExecutor(n, pi, [by |-> "unavailable", claim |-> {}])
           u == toolInfo(n, pi.ptc, ex.by)
<1>1. pi.ptc \in Maybe(Options) /\ pi.executor \in {"file", "pi"}
  BY DEF PiEntries
<1>2. \/ ex.by = pi.executor /\ ex.claim = Claim(pi.ptc)
      \/ ex.by = "unavailable" /\ ex.claim = {}
  BY DEF PiExecutor
<1>3. Claim(pi.ptc) \in Maybe(Policies) /\ {} \in Maybe(Policies)
  BY <1>1, ClassOfStored, MaybeCases, Zenon
<1>4. t = [u EXCEPT !.claim = ex.claim]
  BY Zenon DEF FromPi
<1> HIDE DEF t, ex
<1>5. ex.by \in {"hashline", "file", "pi", "unavailable"}
  BY <1>1, <1>2
<1>6. /\ Sound(n, u) /\ Honest(u) /\ u.source = "extension" /\ u.executor = ex.by
      /\ u.ptc = normalizeStoredPtc(pi.ptc) /\ u.claim = Claim(pi.ptc)
  <2> DEFINE by == ex.by
             ptc == pi.ptc
  <2>1. by \in {"hashline", "file", "pi", "unavailable"} /\ ptc \in Maybe(Options)
    BY <1>1, <1>5
  <2> HIDE DEF by, ptc
  <2>2. LET t0 == toolInfo(n, ptc, by)
        IN /\ Sound(n, t0) /\ Honest(t0) /\ t0.source = "extension" /\ t0.executor = by
           /\ t0.ptc = normalizeStoredPtc(ptc) /\ t0.claim = Claim(ptc)
    BY <2>1, Registered, ZenonT(60)
  <2>3. QED
    BY <2>2, Zenon DEF by, ptc
<1> HIDE DEF u
<1>7. /\ t \in ToolInfos /\ t.source = "extension" /\ t.executor = ex.by /\ t.ptc = u.ptc
      /\ t.isReadOnly = u.isReadOnly /\ t.claim = ex.claim
  BY <1>2, <1>3, <1>4, <1>6 DEF Sound, ToolInfos
<1>8. Sound(n, t)
  BY <1>6, <1>7, Zenon DEF Sound
<1>9. Honest(t)
  BY <1>2, <1>6, <1>7, Zenon DEF Honest, Passes
<1>10. t.executor = "file" => pi.executor = "file"
  BY <1>2, <1>7
<1>11. QED
  BY <1>6, <1>7, <1>8, <1>9, <1>10, Zenon DEF t

\* The entry of Pi's list that buildToolMap looks at.
Overrides(n) ==
  IF Stale(n) \/ \E t \in Existing(n) : IsBuiltin(t) /\ n \notin activeTools
  THEN {} ELSE piTools[n]

\* A name stands for at most one tool: one of the registry's own, with Pi's entry
\* merged into it or not, or Pi's alone.
LEMMA MapCases ==
  ASSUME NEW n
  PROVE  /\ Existing(n) = {} /\ Overrides(n) = {} => buildToolMap(n) = {}
         /\ \A pi : Existing(n) = {} /\ Overrides(n) = {pi} => buildToolMap(n) = {FromPi(n, pi)}
         /\ Existing(n) # {} /\ Overrides(n) = {} => buildToolMap(n) = Existing(n)
         /\ \A e, pi : Existing(n) = {e} /\ Overrides(n) = {pi} =>
              buildToolMap(n) = {Merged(n, e, pi)}
<1> DEFINE E == Existing(n)
           O == Overrides(n)
<1>1. buildToolMap(n) = IF E = {} THEN {FromPi(n, pi) : pi \in O}
                        ELSE {Merged(n, t, pi) : t \in E, pi \in O} ?? E
  BY SMT DEF buildToolMap, Existing, Overrides
<1> HIDE DEF E, O
<1>2. QED
  BY <1>1, SMT DEF ??, E, O

\* What Pi lists of a file's tool is what the file says.
LEMMA FileMerged ==
  ASSUME NEW n \in Names, FileTool(n), customTools[n] # {},
         NEW e, Existing(n) = {e}, NEW pi \in piTools[n]
  PROVE  normalizeStoredPtc(pi.ptc ?? e.ptc) = e.ptc
<1>1. PICK ptc \in Maybe(Options) :
        customTools[n] = {toolInfo(n, ptc, "file")} /\ piTools[n] = {PiEntry(ptc, "file")}
  BY Zenon DEF FileTool
<1>2. Existing(n) = customTools[n]
  BY Zenon DEF Existing, ??
<1>3. e = toolInfo(n, ptc, "file") /\ pi = PiEntry(ptc, "file")
  BY <1>1, <1>2, SMT
<1>4. e.ptc = normalizeStoredPtc(ptc)
  BY <1>3, Registered
<1>5. pi.ptc = {} \/ pi.ptc = ptc
  BY <1>3 DEF PiEntry
<1>6. CASE pi.ptc = {}
  <2>1. (pi.ptc ?? e.ptc) = e.ptc
    BY <1>6, Zenon DEF ??
  <2>2. normalizeStoredPtc(normalizeStoredPtc(ptc)) = normalizeStoredPtc(ptc)
    BY Stored, Zenon
  <2>3. QED
    BY <1>4, <2>1, <2>2, Zenon
<1>7. CASE pi.ptc # {}
  <2>1. (pi.ptc ?? e.ptc) = ptc
    BY <1>5, <1>7, Zenon DEF ??
  <2>2. QED
    BY <1>4, <2>1, Zenon
<1>8. QED
  BY <1>6, <1>7

\* Whose function a name stands for, and what it passes as.
Allowed(n, t) ==
  "mutating" \in t.claim /\ Passes(t) => Contradicts(t.ptc) \/ FunctionWithheld(n)

\* A name stands for at most one tool, which is of the class its metadata or its
\* name says; a function that is called mutating passes as read-only only in the
\* ways that are named; a file's function is there only while the file's tool is.
LEMMA MapTool ==
  ASSUME Surface, Provenance, NEW n \in Names
  PROVE  \/ buildToolMap(n) = {}
         \/ \E t \in ToolInfos :
              /\ buildToolMap(n) = {t} /\ Sound(n, t) /\ Allowed(n, t)
              /\ t.executor = "file" => customTools[n] # {}
<1> DEFINE good(t) == /\ t \in ToolInfos /\ Sound(n, t) /\ Allowed(n, t)
                      /\ t.executor = "file" => customTools[n] # {}
<1>a. FileTool(n) /\ HashlineTool(n) /\ PiTool(n)
  BY DEF Provenance
<1>b. Overrides(n) = {} \/ Overrides(n) = piTools[n]
  BY Zenon DEF Overrides
<1>c. Overrides(n) = {}
      \/ \E pi \in PiEntries : /\ Overrides(n) = {pi} /\ pi \in piTools[n]
                               /\ pi.executor = "file" => n \in owned
  <2>1. CASE piTools[n] = {}
    BY <1>b, <2>1
  <2>2. CASE \E pi \in PiEntries : piTools[n] = {pi} /\ (pi.executor = "file" => n \in owned)
    BY <1>b, <2>2
  <2>3. QED
    BY <1>a, <2>1, <2>2, PiCases, Zenon
<1>d. Overrides(n) # {} => ~Stale(n) /\ \A t \in Existing(n) : IsBuiltin(t) => n \in activeTools
  BY Zenon DEF Overrides
<1>1. CASE Existing(n) = {} /\ Overrides(n) = {}
  BY <1>1, MapCases, Zenon
<1>2. ASSUME Existing(n) = {}, NEW pi \in PiEntries, Overrides(n) = {pi}, pi \in piTools[n],
             pi.executor = "file" => n \in owned
      PROVE  buildToolMap(n) = {FromPi(n, pi)} /\ good(FromPi(n, pi))
  <2> DEFINE t == FromPi(n, pi)
  <2>1. /\ t \in ToolInfos /\ Sound(n, t) /\ Honest(t)
        /\ t.executor = "file" => pi.executor = "file"
    BY FromPiTool, Zenon
  <2>2. buildToolMap(n) = {t}
    BY <1>2, MapCases, Zenon
  <2>3. customTools[n] = {}
    BY <1>2, <1>a, ExistingTool
  <2>4. ~Stale(n)
    BY <1>2, <1>d
  <2> HIDE DEF t
  <2>5. t.executor # "file"
    BY <1>2, <2>1, <2>3, <2>4 DEF Stale
  <2>6. Allowed(n, t)
    BY <2>1, Zenon DEF Honest, Allowed
  <2>7. QED
    BY <2>1, <2>2, <2>5, <2>6, Zenon DEF t
<1>3. ASSUME NEW e \in ToolInfos, Existing(n) = {e}, Overrides(n) = {},
             Sound(n, e), Honest(e), e.executor = "file" <=> customTools[n] # {}
      PROVE  buildToolMap(n) = {e} /\ good(e)
  <2>1. Existing(n) # {}
    BY <1>3
  <2>2. buildToolMap(n) = {e}
    BY <1>3, <2>1, MapCases, Zenon
  <2>3. QED
    BY <1>3, <2>2, Zenon DEF Honest, Allowed
<1>4. ASSUME NEW e \in ToolInfos, Existing(n) = {e}, Sound(n, e), Honest(e),
             e.executor = "file" <=> customTools[n] # {},
             IsBuiltin(e) <=> customTools[n] = {} /\ createBuiltinTools(n) # {},
             NEW pi \in PiEntries, Overrides(n) = {pi}, pi \in piTools[n],
             pi.executor = "file" => n \in owned
      PROVE  buildToolMap(n) = {Merged(n, e, pi)} /\ good(Merged(n, e, pi))
  <2> DEFINE t == Merged(n, e, pi)
             used == n \in activeTools /\ pi.hasExecute
  <2>1. /\ t \in ToolInfos /\ Sound(n, t)
        /\ t.ptc = normalizeStoredPtc(pi.ptc ?? e.ptc) /\ t.isReadOnly = ReadOnlyTool(n, t.ptc)
        /\ used => t.executor = pi.executor /\ t.claim = Claim(pi.ptc)
        /\ ~used => t.executor = e.executor /\ t.claim = e.claim
        /\ pi.ptc = {} => t.ptc = e.ptc /\ t.isReadOnly = e.isReadOnly
    <3> HIDE DEF good
    <3>1. e \in ToolInfos /\ Sound(n, e) /\ pi \in PiEntries
      BY <1>4
    <3>2. QED
      BY <3>1, MergedTool, SMT
  <2>2. buildToolMap(n) = {t}
    BY <1>4, MapCases, Zenon
  <2> HIDE DEF t
  <2>3. ~Stale(n) /\ (IsBuiltin(e) => n \in activeTools)
    BY <1>4, <1>d
  <2>4. ASSUME t.executor = "file" PROVE customTools[n] # {}
    <3>1. CASE used
      BY <1>4, <2>1, <2>3, <2>4, <3>1 DEF Stale
    <3>2. CASE ~used
      BY <1>4, <2>1, <2>4, <3>2
    <3>3. QED
      BY <3>1, <3>2
  <2>5. ASSUME "mutating" \in t.claim, Passes(t)
        PROVE  Contradicts(t.ptc) \/ FunctionWithheld(n)
    <3>1. CASE t.claim = e.claim /\ t.ptc = e.ptc /\ t.isReadOnly = e.isReadOnly
      BY <1>4, <2>5, <3>1, Zenon DEF Honest, Passes
    <3>2. CASE used /\ pi.ptc # {}
      <4>1. (pi.ptc ?? e.ptc) = pi.ptc
        BY <3>2, Zenon DEF ??
      <4>2. t.ptc = normalizeStoredPtc(pi.ptc) /\ t.claim = Claim(pi.ptc)
        BY <2>1, <3>2, <4>1, Zenon
      <4>3. pi.ptc \in Maybe(Options)
        BY DEF PiEntries
      <4>4. t.isReadOnly = ReadOnlyTool(n, pi.ptc)
        BY <2>1, <4>2, <4>3, ClassOfStored, Zenon
      <4>5. QED
        BY <2>5, <4>2, <4>3, <4>4, ClassOfStored, Zenon DEF Passes
    <3>3. CASE used /\ pi.ptc = {}
      <4>1. t.claim = {}
        BY <2>1, <3>3 DEF Claim
      <4>2. QED
        BY <2>5, <4>1
    <3>4. CASE ~used /\ pi.ptc # {} /\ customTools[n] # {}
      <4>1. t.ptc = e.ptc
        BY <1>4, <1>a, <2>1, <3>4, FileMerged, Zenon
      <4>2. t.isReadOnly = e.isReadOnly /\ t.claim = e.claim
        BY <1>4, <2>1, <3>4, <4>1, Zenon DEF Sound
      <4>3. QED
        BY <3>1, <4>1, <4>2
    <3>5. CASE ~used /\ pi.ptc # {} /\ customTools[n] = {}
      <4>1. n \in activeTools => ~pi.hasExecute
        BY <3>5
      <4>2. n \notin activeTools => createBuiltinTools(n) = {}
        BY <1>4, <2>3, <3>5, Zenon
      <4>3. FunctionWithheld(n)
        BY <1>4, <3>5, <4>1, <4>2, Zenon DEF FunctionWithheld
      <4>4. QED
        BY <4>3
    <3>6. CASE ~used /\ pi.ptc = {}
      BY <2>1, <3>1, <3>6
    <3>7. QED
      BY <3>2, <3>3, <3>4, <3>5, <3>6, Zenon
  <2>6. QED
    BY <2>1, <2>2, <2>4, <2>5, Zenon DEF Allowed, t
<1> HIDE DEF good
<1>5. CASE Existing(n) = {}
  BY <1>1, <1>2, <1>5, <1>c, Zenon DEF good
<1>6. CASE Existing(n) # {}
  <2>1. PICK e \in ToolInfos :
          /\ Existing(n) = {e} /\ Sound(n, e) /\ Honest(e)
          /\ e.executor = "file" <=> customTools[n] # {}
          /\ IsBuiltin(e) <=> customTools[n] = {} /\ createBuiltinTools(n) # {}
    BY <1>6, <1>a, ExistingTool, Zenon
  <2>2. CASE Overrides(n) = {}
    BY <1>3, <2>1, <2>2, Zenon DEF good
  <2>3. CASE Overrides(n) # {}
    <3>1. PICK pi \in PiEntries : /\ Overrides(n) = {pi} /\ pi \in piTools[n]
                                  /\ pi.executor = "file" => n \in owned
      BY <1>c, <2>3, Zenon
    <3>2. buildToolMap(n) = {Merged(n, e, pi)} /\ good(Merged(n, e, pi))
      BY <1>4, <2>1, <3>1, Zenon
    <3>3. QED
      BY <3>2, Zenon DEF good
  <2>4. QED
    BY <2>2, <2>3
<1>7. QED
  BY <1>5, <1>6, Zenon

-----------------------------------------------------------------------------
(* What the invariant says of a state *)

\* A set that is empty or has one element of S is at most one of S.
LEMMA AtMostOne ==
  ASSUME NEW S, NEW x, x = {} \/ \E y \in S : x = {y}
  PROVE  AtMostOneOf(S, x)
  BY DEF AtMostOneOf

\* The invariant implies every type.
LEMMA InvTypes == SurfaceInv => TypeOK
<1> SUFFICES ASSUME SurfaceInv PROVE TypeOK
  OBVIOUS
<1>a. Surface /\ Provenance
  BY DEF SurfaceInv
<1>1. ASSUME NEW n \in Names
      PROVE  /\ AtMostOneOf(ToolInfos, customTools[n])
             /\ AtMostOneOf(ToolInfos, extensionExecutors[n])
             /\ AtMostOneOf(PiEntries, piTools[n])
             /\ AtMostOneOf(ToolInfos, buildToolMap(n))
  <2>1. FileTool(n) /\ HashlineTool(n) /\ PiTool(n)
    BY <1>a DEF Provenance
  <2>2. ASSUME NEW ptc \in Maybe(Options), NEW by \in {"hashline", "file"}
        PROVE  toolInfo(n, ptc, by) \in ToolInfos
    BY Registered DEF Sound
  <2>3. customTools[n] = {} \/ \E t \in ToolInfos : customTools[n] = {t}
    BY <2>1, <2>2, Zenon DEF FileTool
  <2>4. extensionExecutors[n] = {} \/ \E t \in ToolInfos : extensionExecutors[n] = {t}
    BY <2>1, <2>2, Zenon DEF HashlineTool
  <2>5. piTools[n] = {} \/ \E pi \in PiEntries : piTools[n] = {pi}
    BY <1>a, <2>1, PiCases, Zenon
  <2>6. buildToolMap(n) = {} \/ \E t \in ToolInfos : buildToolMap(n) = {t}
    BY <1>a, MapTool, Zenon
  <2>7. QED
    BY <2>3, <2>4, <2>5, <2>6, AtMostOne, Zenon
<1>2. AtMostOneOf(SUBSET Names, savedTools)
  <2>1. savedTools = {} \/ \E S \in SUBSET Names : savedTools = {S}
    BY <1>a, SMT DEF Surface, Maybe
  <2>2. QED
    BY <2>1, AtMostOne, Zenon
<1>3. QED
  BY <1>1, <1>2, <1>a, Zenon DEF TypeOK, Surface, Control

\* The invariant implies that removed tools are gone: what Pi lists of a file's tool is
\* of an owned name, and so stale.
LEMMA InvRemoved == SurfaceInv => RemovedToolsAreGone
<1> SUFFICES ASSUME SurfaceInv, NEW n \in Names, customTools[n] = {}
             PROVE  /\ \A t \in buildToolMap(n) : t.executor # "file"
                    /\ (\E pi \in piTools[n] : pi.executor = "file")
                         => buildToolMap(n) = Overlaid(n)
  BY Zenon DEF RemovedToolsAreGone
<1>a. Surface /\ Provenance /\ PiTool(n)
  BY DEF SurfaceInv, Provenance
<1>1. \A t \in buildToolMap(n) : t.executor # "file"
  BY <1>a, MapTool, Zenon
<1>2. ASSUME NEW pi \in piTools[n], pi.executor = "file"
      PROVE  buildToolMap(n) = Overlaid(n)
  <2>1. n \in owned
    <3>1. piTools[n] # {}
      BY <1>2
    <3>2. PICK x \in PiEntries : piTools[n] = {x} /\ (x.executor = "file" => n \in owned)
      BY <1>a, <3>1, PiCases, Zenon
    <3>3. QED
      BY <1>2, <3>2
  <2>2. Overrides(n) = {}
    BY <2>1, Zenon DEF Overrides, Stale
  <2>3. Existing(n) = Overlaid(n)
    BY Zenon DEF Existing, ??
  <2>4. CASE Overlaid(n) = {}
    BY <2>2, <2>3, <2>4, MapCases, Zenon
  <2>5. CASE Overlaid(n) # {}
    BY <2>2, <2>3, <2>5, MapCases, Zenon
  <2>6. QED
    BY <2>4, <2>5
<1>3. QED
  BY <1>1, <1>2, Zenon

\* Whoever the filter lets through while mutations are off passes as read-only.
LEMMA InvMutators == SurfaceInv => MutatorsStayOut
<1> SUFFICES ASSUME SurfaceInv, ~settings.allowMutations, NEW n \in Eligible,
                    NEW t \in buildToolMap(n), "mutating" \in t.claim
             PROVE  Contradicts(t.ptc) \/ FunctionWithheld(n)
  BY Zenon DEF MutatorsStayOut
<1>1. n \in Names /\ \E u \in buildToolMap(n) : PassesFilter(n, u)
  BY DEF Eligible
<1>2. PICK u \in ToolInfos : buildToolMap(n) = {u} /\ Allowed(n, u)
  BY <1>1, MapTool, Zenon DEF SurfaceInv
<1>3. PassesFilter(n, t) /\ Allowed(n, t)
  BY <1>1, <1>2, Zenon
<1>4. Passes(t)
  BY <1>3, Zenon DEF PassesFilter, Trusted, Passes
<1>5. QED
  BY <1>3, <1>4, Zenon DEF Allowed

\* The two statements of the rules agree but for a tool that denies its policy.
LEMMA InvExplained == SurfaceInv => RefusalsAreExplained
<1> SUFFICES ASSUME SurfaceInv, NEW n \in Names, Listed(n), NEW t \in buildToolMap(n)
             PROVE  n \in Eligible <=>
                      \/ GapReason(n, t) = "unexplained"
                      \/ GapReason(n, t) = "mutating" /\ Disowns(t.ptc) /\ Trusted(n, t)
  BY Zenon DEF RefusalsAreExplained
<1>1. PICK u \in ToolInfos : buildToolMap(n) = {u} /\ Sound(n, u)
  BY MapTool, Zenon DEF SurfaceInv
<1>2. buildToolMap(n) = {t} /\ Sound(n, t)
  BY <1>1, Zenon
<1>3. n \in Eligible <=> PassesFilter(n, t)
  BY <1>2, Zenon DEF Eligible
<1>4. Trusted(n, t) /\ ~t.isReadOnly => Disowns(t.ptc)
  <2> SUFFICES ASSUME Trusted(n, t), ~t.isReadOnly PROVE Disowns(t.ptc)
    OBVIOUS
  <2>1. PICK o \in t.ptc : IsReadOnly(o)
    BY Zenon DEF Trusted
  <2>2. IsStored(t.ptc) /\ t.isReadOnly = ReadOnlyTool(n, t.ptc)
    BY <1>2 DEF Sound
  <2>3. /\ o.policy = executionPolicy(o) /\ o.readOnly \in {{TRUE}, {FALSE}}
        /\ o.policy \in {{"read-only"}, {"mutating"}}
    BY <2>1, <2>2, StoredFields, Zenon
  <2>4. ~\E x \in t.ptc : TRUE \in x.readOnly
    <3>1. normalizeStoredPtc(t.ptc) = t.ptc
      BY <2>2 DEF IsStored
    <3>2. ~ReadOnlyTool(n, t.ptc)
      BY <2>2
    <3>3. QED
      BY <2>1, <3>1, <3>2, Zenon DEF ReadOnlyTool
  <2>5. "read-only" \in o.policy
    BY <2>1, <2>3 DEF IsReadOnly
  <2>6. o.readOnly = {FALSE}
    BY <2>1, <2>3, <2>4, Zenon
  <2>7. FALSE \in o.readOnly
    BY <2>6, Zenon
  <2>8. QED
    BY <2>1, <2>5, <2>7, Zenon DEF Disowns
<1>5. Trusted(n, t) => ~IsBuiltin(t) /\ DeclaredCallable(t)
  BY Zenon DEF Trusted
<1>6. PassesFilter(n, t) <=>
        /\ n \notin settings.blockedTools
        /\ n = Bash => settings.allowBash
        /\ settings.allowMutations \/ IsBuiltin(t) \/ Trusted(n, t)
        /\ settings.allowMutations \/ t.isReadOnly \/ Trusted(n, t)
        /\ AllowsPython(t) /\ (IsBuiltin(t) \/ DeclaredCallable(t))
  BY Zenon DEF PassesFilter
<1>7. GapReason(n, t) = "unexplained" <=>
        /\ n \notin settings.blockedTools
        /\ n = Bash => settings.allowBash
        /\ IsBuiltin(t) \/ DeclaredCallable(t)
        /\ AllowsPython(t)
        /\ settings.allowMutations \/ t.isReadOnly
        /\ settings.allowMutations \/ IsBuiltin(t) \/ Trusted(n, t)
  BY SMT DEF GapReason
<1>8. GapReason(n, t) = "mutating" <=>
        /\ n \notin settings.blockedTools
        /\ n = Bash => settings.allowBash
        /\ IsBuiltin(t) \/ DeclaredCallable(t)
        /\ AllowsPython(t)
        /\ ~settings.allowMutations /\ ~t.isReadOnly
  BY SMT DEF GapReason
<1>9. QED
  BY <1>3, <1>4, <1>5, <1>6, <1>7, <1>8, Zenon

\* What is hidden is callable, or known to Pi alone, or Python names clash.
LEMMA InvHidden == SurfaceInv /\ ClashNoted => HiddenToolsStayCallable
<1> SUFFICES ASSUME SurfaceInv, ClashNoted, NEW n \in hidden,
                    n \notin {m \in CallableNames :
                                \A t \in buildToolMap(m) : t.executor # "unavailable"}
             PROVE  KnownToPiOnly(n) \/ (Throws /\ ClashFromOutside)
  BY Zenon DEF HiddenToolsStayCallable
<1>1. Usable(n) \/ KnownToPiOnly(n)
  BY DEF SurfaceInv, HiddenUsable
<1>2. CASE Throws
  BY <1>2, SMT DEF ClashNoted
<1>3. CASE ~Throws
  <2>1. CallableNames = Eligible
    BY <1>3, Zenon DEF CallableNames
  <2>2. ~Usable(n)
    BY <2>1, Zenon DEF Usable
  <2>3. QED
    BY <1>1, <2>2
<1>4. QED
  BY <1>2, <1>3

\* Between requests the list that is active is the one that follows the files.
LEMMA InvFollows == OwnTools /\ SurfaceInv /\ FilesKnown => ActiveToolsFollowFiles
<1> SUFFICES ASSUME OwnTools, SurfaceInv, FilesKnown, Quiet, ~request, ~reloads,
                    NEW n \in Names
             PROVE  IF HasFile(n)
                    THEN /\ customTools[n] # {}
                         /\ \A t \in customTools[n] : Direct(n, t.ptc) => n \in activeTools
                    ELSE n \in owned => n \notin activeTools
  BY Zenon DEF ActiveToolsFollowFiles, HasFile
<1>1. savedTools = {} /\ Follows(n, Later)
  BY Zenon DEF SurfaceInv, Unrouted, FilesFollowed
<1>2. Follows(n, activeTools)
  BY <1>1, Zenon DEF Later
<1>3. customTools[n] # {} <=> HasFile(n)
  BY Zenon DEF FilesKnown
<1>4. QED
  BY <1>2, <1>3, Zenon DEF Follows, Stale

-----------------------------------------------------------------------------
(* What routing hides *)

\* The filter asks of a tool no more than its source, metadata and class, and of
\* the state no more than the settings.
LEMMA SamePasses ==
  ASSUME NEW n, NEW t, NEW u,
         t.source = u.source, t.ptc = u.ptc, t.isReadOnly = u.isReadOnly
  PROVE  PassesFilter(n, t) <=> PassesFilter(n, u)
<1>1. /\ IsBuiltin(t) <=> IsBuiltin(u)
      /\ DeclaredCallable(t) <=> DeclaredCallable(u)
      /\ OptIn(t) <=> OptIn(u)
      /\ (\E o \in t.ptc : IsReadOnly(o)) <=> (\E o \in u.ptc : IsReadOnly(o))
  BY Zenon DEF IsBuiltin, DeclaredCallable, OptIn
<1>2. Trusted(n, t) <=> Trusted(n, u)
  BY <1>1, Zenon DEF Trusted
<1>3. getConfiguredCallers(t) = getConfiguredCallers(u)
  BY SMT DEF getConfiguredCallers, IsBuiltin
<1>4. AllowsPython(t) <=> AllowsPython(u)
  BY <1>3, Zenon DEF AllowsPython
<1>5. QED
  BY <1>1, <1>2, <1>4, Zenon DEF PassesFilter

\* While the settings stay, the filter's verdict on a tool stays.
LEMMA SameFilter ==
  ASSUME NEW n, NEW t, settings' = settings
  PROVE  PassesFilter(n, t)' <=> PassesFilter(n, t)
  BY Zenon DEF PassesFilter, Trusted, Listed, AllowsPython, getConfiguredCallers, OptIn,
       DeclaredCallable, IsBuiltin

\* A name whose sources nobody has touched stands for the tool it stood for.
LEMMA SameMap ==
  ASSUME NEW n, customTools'[n] = customTools[n],
         extensionExecutors'[n] = extensionExecutors[n], piTools'[n] = piTools[n],
         n \in owned' <=> n \in owned, n \in activeTools' <=> n \in activeTools
  PROVE  buildToolMap(n)' = buildToolMap(n)
<1>1. /\ Existing(n)' = Existing(n)
      /\ Overrides(n)' = Overrides(n)
  <2>1. Existing(n)' = Existing(n)
    BY SMT DEF Existing, Overlaid
  <2>2. Stale(n)' <=> Stale(n)
    BY SMT DEF Stale
  <2>3. QED
    BY <2>1, <2>2, SMT DEF Overrides
<1>2. \A pi, x : PiExecutor(n, pi, x)' = PiExecutor(n, pi, x)
  BY SMT DEF PiExecutor
<1>3. \A e, pi : Merged(n, e, pi)' = Merged(n, e, pi)
  BY <1>2, Zenon DEF Merged
<1>4. \A pi : FromPi(n, pi)' = FromPi(n, pi)
  BY <1>2, Zenon DEF FromPi
<1> DEFINE E == Existing(n)
           O == Overrides(n)
           ours == {FromPi(n, pi) : pi \in O}
           both == {Merged(n, t, pi) : t \in E, pi \in O}
<1>5. buildToolMap(n) = IF E = {} THEN ours ELSE both ?? E
  BY SMT DEF buildToolMap, Existing, Overrides
<1>6. buildToolMap(n)' = IF E' = {} THEN ours' ELSE both' ?? E'
  BY SMT DEF buildToolMap, Existing, Overrides
<1>7. E' = E /\ O' = O
  BY <1>1
<1> HIDE DEF E, O
<1>8. ours' = ours
  BY <1>4, <1>7, SMT
<1>9. both' = both
  BY <1>3, <1>7, SMT
<1> HIDE DEF ours, both
<1>10. QED
  BY <1>5, <1>6, <1>7, <1>8, <1>9, Zenon

\* So it is as usable as it was.
LEMMA SameUse ==
  ASSUME NEW n, settings' = settings, customTools'[n] = customTools[n],
         extensionExecutors'[n] = extensionExecutors[n], piTools'[n] = piTools[n],
         n \in owned' <=> n \in owned, n \in activeTools' <=> n \in activeTools,
         Usable(n) \/ KnownToPiOnly(n)
  PROVE  Usable(n)' \/ KnownToPiOnly(n)'
<1>1. buildToolMap(n)' = buildToolMap(n)
  BY SameMap
<1>2. n \in Eligible => n \in Eligible'
  BY <1>1, SameFilter, Zenon DEF Eligible
<1>3. QED
  BY <1>1, <1>2, Zenon DEF Usable, KnownToPiOnly

\* Where Pi's list adds nothing to the registry's own tool, a name stands for that
\* tool, and for its function at least while it is not active.
AddsNothing(n) ==
  customTools[n] # {} \/ \A pi \in piTools[n] : ~pi.hasExecute /\ pi.ptc = {}
Alike(n, t, e) ==
  /\ t.source = e.source /\ t.ptc = e.ptc /\ t.isReadOnly = e.isReadOnly
  /\ n \notin activeTools => t.executor = e.executor

\* Without anything new from Pi, a name stands for the registry's own tool.
LEMMA NearlyExisting ==
  Surface /\ Provenance =>
    \A n \in Names : \A e : Existing(n) = {e} /\ AddsNothing(n) =>
      \E t : buildToolMap(n) = {t} /\ Alike(n, t, e)
<1> SUFFICES ASSUME Surface, Provenance, NEW n \in Names, NEW e, Existing(n) = {e},
                    AddsNothing(n)
             PROVE  \E t : buildToolMap(n) = {t} /\ Alike(n, t, e)
  BY Zenon
<1>a. FileTool(n) /\ HashlineTool(n) /\ PiTool(n)
  BY DEF Provenance
<1>b. e \in ToolInfos /\ Sound(n, e) /\ Existing(n) # {}
  BY <1>a, ExistingTool, SMT
<1>1. CASE Overrides(n) = {}
  BY <1>b, <1>1, MapCases, Zenon DEF Alike
<1>2. CASE Overrides(n) # {}
  <2>1. Overrides(n) = piTools[n]
    BY <1>2, Zenon DEF Overrides
  <2>2. PICK pi \in PiEntries : piTools[n] = {pi}
    BY <1>2, <1>a, <2>1, PiCases, Zenon
  <2> DEFINE t == Merged(n, e, pi)
  <2>3. buildToolMap(n) = {t}
    <3>1. Overrides(n) = {pi}
      BY <2>1, <2>2, Zenon
    <3>2. QED
      BY <3>1, MapCases, Zenon
  <2>4. /\ Sound(n, t) /\ t.source = e.source
        /\ t.ptc = normalizeStoredPtc(pi.ptc ?? e.ptc)
        /\ ~(n \in activeTools /\ pi.hasExecute) => t.executor = e.executor
        /\ pi.ptc = {} => t.ptc = e.ptc
    BY <1>b, MergedTool, SMT
  <2> HIDE DEF t
  <2>5. t.ptc = e.ptc
    <3>1. CASE customTools[n] # {}
      <4>1. pi \in piTools[n]
        BY <2>2
      <4>2. QED
        BY <1>a, <2>4, <3>1, <4>1, FileMerged, Zenon
    <3>2. CASE customTools[n] = {}
      BY <2>2, <2>4, <3>2 DEF AddsNothing
    <3>3. QED
      BY <3>1, <3>2
  <2>6. t.isReadOnly = e.isReadOnly
    BY <1>b, <2>4, <2>5, Zenon DEF Sound
  <2>7. QED
    BY <2>3, <2>4, <2>5, <2>6, Zenon DEF Alike
<1>3. QED
  BY <1>1, <1>2

\* The same of the state after a step.
LEMMA NearlyExistingNext ==
  (Surface /\ Provenance =>
    \A n \in Names : \A e : Existing(n) = {e} /\ AddsNothing(n) =>
      \E t : buildToolMap(n) = {t} /\ Alike(n, t, e))'
  BY NearlyExisting, PTL

\* What passes the filter is more than a bare entry of Pi's list.
LEMMA HiddenExists ==
  ASSUME Surface, Provenance, NEW n \in Names, n \in Eligible, AddsNothing(n)
  PROVE  \E e \in ToolInfos : Existing(n) = {e} /\ e.executor \in {"builtin", "hashline", "file"}
<1>a. FileTool(n) /\ HashlineTool(n) /\ PiTool(n)
  BY DEF Provenance
<1>b. PICK t \in ToolInfos : buildToolMap(n) = {t} /\ PassesFilter(n, t)
  <2>1. PICK u \in buildToolMap(n) : PassesFilter(n, u)
    BY DEF Eligible
  <2>2. PICK t \in ToolInfos : buildToolMap(n) = {t}
    BY <2>1, MapTool, Zenon
  <2>3. QED
    BY <2>1, <2>2, Zenon
<1>1. CASE Existing(n) = {}
  <2>1. customTools[n] = {}
    BY <1>a, <1>1, ExistingTool, Zenon
  <2>2. PICK pi \in PiEntries : piTools[n] = {pi} /\ buildToolMap(n) = {FromPi(n, pi)}
    <3>1. Overrides(n) # {}
      BY <1>b, <1>1, MapCases, Zenon
    <3>2. Overrides(n) = piTools[n]
      BY <3>1, Zenon DEF Overrides
    <3>3. PICK pi \in PiEntries : piTools[n] = {pi}
      BY <1>a, <3>1, <3>2, PiCases, Zenon
    <3>4. buildToolMap(n) = {FromPi(n, pi)}
      BY <1>1, <3>2, <3>3, MapCases, Zenon
    <3>5. QED
      BY <3>3, <3>4
  <2>3. pi.ptc = {}
    BY <2>1, <2>2 DEF AddsNothing
  <2>4. /\ FromPi(n, pi).source = "extension"
        /\ FromPi(n, pi).ptc = normalizeStoredPtc(pi.ptc)
    BY FromPiTool, Zenon
  <2>5. t.source = "extension" /\ t.ptc = {}
    <3>1. t = FromPi(n, pi)
      BY <1>b, <2>2, Zenon
    <3>2. normalizeStoredPtc({}) = {}
      BY SMT DEF normalizeStoredPtc
    <3>3. QED
      BY <2>3, <2>4, <3>1, <3>2, Zenon
  <2>6. ~IsBuiltin(t) /\ ~DeclaredCallable(t)
    BY <2>5 DEF IsBuiltin, DeclaredCallable
  <2>7. QED
    BY <1>b, <2>6, Zenon DEF PassesFilter
<1>2. CASE Existing(n) # {}
  BY <1>a, <1>2, ExistingTool, Zenon
<1>3. QED
  BY <1>1, <1>2

\* A callable tool that stops being active, and nothing else, stays usable, or Pi
\* alone knew more of it.
LEMMA HideKeeps ==
  ASSUME Surface, Provenance, Surface', Provenance', NEW n \in Names,
         n \in Eligible, n \notin activeTools',
         settings' = settings, customTools' = customTools, piTools' = piTools,
         extensionExecutors' = extensionExecutors
  PROVE  Usable(n)' \/ KnownToPiOnly(n)'
<1>b. PICK t \in ToolInfos : buildToolMap(n) = {t} /\ PassesFilter(n, t)
  <2>1. PICK u \in buildToolMap(n) : PassesFilter(n, u)
    BY DEF Eligible
  <2>2. PICK t \in ToolInfos : buildToolMap(n) = {t}
    BY <2>1, MapTool, Zenon
  <2>3. QED
    BY <2>1, <2>2, Zenon
<1>1. CASE ~AddsNothing(n)
  <2>1. KnownToPiOnly(n)
    BY <1>1, Zenon DEF AddsNothing, KnownToPiOnly
  <2>2. QED
    BY <2>1, Zenon DEF KnownToPiOnly
<1>2. CASE AddsNothing(n)
  <2>1. PICK e \in ToolInfos :
          Existing(n) = {e} /\ e.executor \in {"builtin", "hashline", "file"}
    BY <1>2, HiddenExists, Zenon
  <2>2. PassesFilter(n, e)
    <3>1. PICK v : buildToolMap(n) = {v} /\ Alike(n, v, e)
      BY <1>2, <2>1, NearlyExisting, Zenon
    <3>2. v = t
      BY <1>b, <3>1, Zenon
    <3>3. t.source = e.source /\ t.ptc = e.ptc /\ t.isReadOnly = e.isReadOnly
      BY <3>1, <3>2, Zenon DEF Alike
    <3>4. QED
      BY <1>b, <3>3, SamePasses, Zenon
  <2>3. Existing(n)' = {e} /\ AddsNothing(n)'
    <3>1. Existing(n)' = Existing(n)
      BY SMT DEF Existing, Overlaid
    <3>2. AddsNothing(n)'
      BY <1>2, SMT DEF AddsNothing
    <3>3. QED
      BY <2>1, <3>1, <3>2, Zenon
  <2>4. PICK u : buildToolMap(n)' = {u} /\ Alike(n, u, e)'
    BY <2>3, NearlyExistingNext, Zenon
  <2>5. /\ u.source = e.source /\ u.ptc = e.ptc /\ u.isReadOnly = e.isReadOnly
        /\ u.executor = e.executor
    BY <2>4, Zenon DEF Alike
  <2>6. PassesFilter(n, u)'
    BY <2>2, <2>5, SamePasses, SameFilter, Zenon
  <2>7. n \in Eligible'
    BY <2>4, <2>6, Zenon DEF Eligible
  <2>8. u.executor # "unavailable"
    BY <2>1, <2>5
  <2>9. QED
    BY <2>4, <2>7, <2>8, Zenon DEF Usable
<1>3. QED
  BY <1>1, <1>2

-----------------------------------------------------------------------------
(* What the steps leave alone *)

\* What nobody has touched comes from where it came from.
LEMMA SameOrigin ==
  ASSUME NEW n, host' = host, owned \subseteq owned'
  PROVE  /\ FileTool(n) /\ customTools'[n] = customTools[n] /\ piTools'[n] = piTools[n]
            => FileTool(n)'
         /\ HashlineTool(n) /\ extensionExecutors'[n] = extensionExecutors[n]
            => HashlineTool(n)'
         /\ PiTool(n) /\ piTools'[n] = piTools[n] => PiTool(n)'
<1>1. \A ptc, by : PiEntry(ptc, by)' = PiEntry(ptc, by)
  BY Zenon DEF PiEntry
<1>2. n \in owned => n \in owned'
  OBVIOUS
<1>3. FileTool(n) /\ customTools'[n] = customTools[n] /\ piTools'[n] = piTools[n]
      => FileTool(n)'
  BY <1>1, <1>2, Zenon DEF FileTool
<1>4. HashlineTool(n) /\ extensionExecutors'[n] = extensionExecutors[n] => HashlineTool(n)'
  BY Zenon DEF HashlineTool
<1>5. PiTool(n) /\ piTools'[n] = piTools[n] => PiTool(n)'
  BY <1>1, <1>2, Zenon DEF PiTool
<1>6. QED
  BY <1>3, <1>4, <1>5

\* What was hidden, and is untouched, is as usable as it was.
LEMMA StillHidden ==
  ASSUME HiddenUsable, settings' = settings, hidden' \subseteq hidden,
         \A n \in hidden' : /\ customTools'[n] = customTools[n]
                            /\ extensionExecutors'[n] = extensionExecutors[n]
                            /\ piTools'[n] = piTools[n]
                            /\ n \in owned' <=> n \in owned
                            /\ n \notin activeTools'
  PROVE  HiddenUsable'
<1> SUFFICES ASSUME NEW n \in hidden'
             PROVE  n \notin activeTools' /\ (Usable(n)' \/ KnownToPiOnly(n)')
  BY Zenon DEF HiddenUsable
<1>1. n \in hidden /\ n \notin activeTools /\ (Usable(n) \/ KnownToPiOnly(n))
  BY DEF HiddenUsable
<1>2. /\ customTools'[n] = customTools[n] /\ piTools'[n] = piTools[n]
      /\ extensionExecutors'[n] = extensionExecutors[n]
      /\ n \in owned' <=> n \in owned
      /\ n \notin activeTools'
  OBVIOUS
<1>3. QED
  BY <1>1, <1>2, SameUse, Zenon

\* Whether an agent may call a tool directly, stored metadata says as given metadata
\* does.
LEMMA DirectStored ==
  ASSUME NEW n, NEW ptc \in Maybe(Options), NEW S
  PROVE  /\ Direct(n, normalizeStoredPtc(ptc)) => n \in Activated(S, n, ptc)
         /\ \A m : m # n => (m \in Activated(S, n, ptc) <=> m \in S)
<1>1. \A p : Direct(n, p) <=> ~\E o \in p : \E c \in o.callers : "direct" \notin c
  BY SMT DEF Direct, Activated
<1>2. (\E o \in ptc : \E c \in o.callers : "direct" \notin c) =>
        \E o \in normalizeStoredPtc(ptc) : \E c \in o.callers : "direct" \notin c
  <2> SUFFICES ASSUME NEW o \in ptc, NEW c \in o.callers, "direct" \notin c
               PROVE  \E x \in normalizeStoredPtc(ptc) : \E d \in x.callers : "direct" \notin d
    BY Zenon
  <2>1. PICK y \in Options : ptc = {y}
    BY MaybeCases, Zenon
  <2>2. o = y /\ normalizeStoredPtc(ptc) = {Normal(y)}
    BY <2>1, Stored, Zenon
  <2>3. Normal(y).callers = y.callers
    BY NormalFields
  <2>4. QED
    BY <2>2, <2>3, Zenon
<1>3. Activated(S, n, ptc) =
        IF \E o \in ptc : \E c \in o.callers : "direct" \notin c THEN S ELSE S \cup {n}
  BY Zenon DEF Activated
<1>4. QED
  BY <1>1, <1>2, <1>3, SMT

\* A step that touches no tool keeps the invariant.
LEMMA OtherSteps ==
  ASSUME SurfaceInv, Control',
         UNCHANGED <<settings, registryVars, piTools, activeTools, host, fileToTool,
                     sessionVars, history>>
  PROVE  SurfaceInv'
<1>a. Surface /\ Provenance /\ Unrouted /\ FilesFollowed /\ HiddenUsable
  BY DEF SurfaceInv
<1>b. /\ settings' = settings /\ customTools' = customTools /\ owned' = owned
      /\ extensionExecutors' = extensionExecutors /\ piTools' = piTools
      /\ activeTools' = activeTools /\ host' = host /\ fileToTool' = fileToTool
      /\ request' = request /\ savedTools' = savedTools /\ hidden' = hidden
      /\ reloads' = reloads /\ emitted' = emitted
  BY DEF registryVars, sessionVars, history
<1>1. Surface'
  BY <1>a, <1>b, Zenon DEF Surface
<1>2. Provenance'
  BY <1>a, <1>b, SameOrigin, Zenon DEF Provenance
<1>3. Unrouted'
  BY <1>a, <1>b, Zenon DEF Unrouted
<1>4. FilesFollowed'
  BY <1>a, <1>b, Zenon DEF FilesFollowed, Follows, Later, Stale
<1>5. HiddenUsable'
  BY <1>a, <1>b, StillHidden, Zenon DEF HiddenUsable
<1>6. QED
  BY <1>1, <1>2, <1>3, <1>4, <1>5 DEF SurfaceInv

-----------------------------------------------------------------------------
(* Each step keeps the invariant *)

\* At the start other extensions' tools are listed, and nothing else is.
LEMMA InitInv == Init => SurfaceInv
<1> SUFFICES ASSUME Init PROVE SurfaceInv
  OBVIOUS
<1>a. /\ customTools = Nothing /\ extensionExecutors = Nothing /\ owned = {}
      /\ savedTools = {} /\ hidden = {}
      /\ piTools = [n \in Names |->
           {PiEntry(o[2], "pi") : o \in {x \in OtherTools : x[1] = n}}]
  BY DEF Init
<1>1. Surface
  <2>1. activeTools \subseteq Names
    <3>1. \A o \in OtherTools : o[1] \in Names
      BY SurfaceAssumption
    <3>2. activeTools = Builtins \cup {o[1] : o \in OtherTools}
      BY DEF Init
    <3>3. QED
      BY <3>1, <3>2, RegistryAssumption, SMT
  <2>2. savedTools \in Maybe(SUBSET Names)
    BY <1>a, MaybeCases, Zenon
  <2>3. Control
    BY DEF Init, Control
  <2>4. fileToTool \in [Files -> Names \cup {"none"}]
    BY DEF Init
  <2>5. QED
    BY <1>a, <2>1, <2>2, <2>3, <2>4 DEF Init, Surface, Nothing
<1>2. ASSUME NEW n \in Names PROVE FileTool(n) /\ HashlineTool(n) /\ PiTool(n)
  <2>1. customTools[n] = {} /\ extensionExecutors[n] = {}
    BY <1>a DEF Nothing
  <2>2. PiTool(n)
    <3> DEFINE ofName == {x \in OtherTools : x[1] = n}
    <3>1. piTools[n] = {PiEntry(o[2], "pi") : o \in ofName}
      BY <1>a
    <3>2. ofName = {} \/ \E o \in OtherTools : ofName = {o}
      BY SurfaceAssumption
    <3> HIDE DEF ofName
    <3>3. CASE ofName = {}
      BY <3>1, <3>3 DEF PiTool
    <3>4. ASSUME NEW o \in OtherTools, ofName = {o} PROVE PiTool(n)
      <4>1. o[2] \in Maybe(Options)
        BY SurfaceAssumption
      <4>2. piTools[n] = {PiEntry(o[2], "pi")}
        BY <3>1, <3>4, SMT
      <4>3. "pi" \in {"file", "pi"} /\ "pi" # "file"
        OBVIOUS
      <4>4. QED
        BY <4>1, <4>2, <4>3, Zenon DEF PiTool
    <3>5. QED
      BY <3>2, <3>3, <3>4
  <2>3. QED
    BY <2>1, <2>2 DEF FileTool, HashlineTool
<1>3. FilesFollowed
  BY <1>a DEF FilesFollowed, Follows, Stale, Nothing
<1>4. Unrouted /\ HiddenUsable
  BY <1>a DEF Unrouted, HiddenUsable
<1>5. QED
  BY <1>1, <1>2, <1>3, <1>4 DEF SurfaceInv, Provenance

\* Registering a file's tool touches that tool and the file's former one.
LEMMA RegisterKeeps ==
  ASSUME SurfaceInv, Control', NEW f \in Files, NEW name \in Names,
         NEW ptc \in Maybe(Options), registerLoadedTool(f, name, ptc)
  PROVE  SurfaceInv'
<1> DEFINE old == OldTools(f, name)
<1>a. Surface /\ Provenance /\ Unrouted /\ FilesFollowed /\ HiddenUsable
  BY DEF SurfaceInv
<1>b. /\ settings' = settings /\ extensionExecutors' = extensionExecutors
      /\ host' = host /\ request' = request /\ savedTools' = savedTools
      /\ owned' = owned \cup {name} \cup old
      /\ piTools' = [piTools EXCEPT ![name] = {PiEntry(ptc, "file")}]
      /\ activeTools' = Activated(activeTools \ old, name, ptc)
      /\ fileToTool' = [fileToTool EXCEPT ![f] = name]
      /\ hidden' = hidden \ (old \cup {name})
      /\ reloads' = (reloads \/ savedTools # {}) /\ emitted' = emitted
      /\ customTools' = [n \in Names |->
           IF n = name THEN {toolInfo(name, ptc, "file")}
           ELSE IF n \in old THEN {} ELSE customTools[n]]
  BY DEF registerLoadedTool, sessionVars
<1>c. old \subseteq Names /\ name \notin old
  BY <1>a DEF Surface, OldTools
<1> HIDE DEF old
<1>1. Surface'
  <2>1. activeTools' \subseteq Names
    BY <1>a, <1>b DEF Surface, Activated
  <2>2. reloads' \in BOOLEAN
    BY <1>a, <1>b DEF Surface
  <2>3. fileToTool' \in [Files -> Names \cup {"none"}]
    BY <1>a, <1>b DEF Surface
  <2>4. DOMAIN piTools' = Names /\ DOMAIN customTools' = Names
    BY <1>a, <1>b DEF Surface
  <2>5. owned' \subseteq Names /\ hidden' \subseteq Names
    BY <1>a, <1>b, <1>c DEF Surface
  <2>6. QED
    BY <1>a, <1>b, <2>1, <2>2, <2>3, <2>4, <2>5, Zenon DEF Surface
<1>2. ASSUME NEW n \in Names PROVE FileTool(n)' /\ HashlineTool(n)' /\ PiTool(n)'
  <2>1. FileTool(n) /\ HashlineTool(n) /\ PiTool(n) /\ owned \subseteq owned'
    BY <1>a, <1>b DEF Provenance
  <2>2. CASE n = name
    <3>1. /\ customTools'[n] = {toolInfo(n, ptc, "file")}
          /\ piTools'[n] = {PiEntry(ptc, "file")} /\ n \in owned'
      BY <1>a, <1>b, <2>2 DEF Surface
    <3>2. PiEntry(ptc, "file")' = PiEntry(ptc, "file")
      BY <1>b, Zenon DEF PiEntry
    <3>3. FileTool(n)' /\ PiTool(n)'
      BY <3>1, <3>2, Zenon DEF FileTool, PiTool
    <3>4. QED
      BY <1>b, <2>1, <3>3, SameOrigin, Zenon
  <2>3. CASE n # name /\ n \in old
    <3>1. customTools'[n] = {} /\ piTools'[n] = piTools[n]
      BY <1>a, <1>b, <2>3 DEF Surface
    <3>2. QED
      BY <1>b, <2>1, <3>1, SameOrigin, Zenon DEF FileTool
  <2>4. CASE n # name /\ n \notin old
    <3>1. customTools'[n] = customTools[n] /\ piTools'[n] = piTools[n]
      BY <1>a, <1>b, <2>4 DEF Surface
    <3>2. QED
      BY <1>b, <2>1, <3>1, SameOrigin, Zenon
  <2>5. QED
    BY <2>2, <2>3, <2>4
<1>3. Unrouted'
  BY <1>a, <1>b DEF Unrouted
<1>4. FilesFollowed'
  <2> SUFFICES ASSUME ~reloads', NEW n \in Names PROVE Follows(n, Later)'
    BY Zenon DEF FilesFollowed
  <2>1. ~reloads /\ savedTools = {}
    BY <1>b
  <2>2. Later = activeTools /\ Later' = activeTools' /\ Follows(n, activeTools)
    BY <1>a, <1>b, <2>1, Zenon DEF FilesFollowed, Later
  <2>3. /\ Direct(name, normalizeStoredPtc(ptc)) => name \in activeTools'
        /\ \A m : m # name => (m \in activeTools' <=> m \in activeTools \ old)
    BY <1>b, DirectStored, Zenon
  <2>4. CASE n = name
    <3>1. customTools'[n] = {toolInfo(n, ptc, "file")}
      BY <1>b, <2>4
    <3>2. toolInfo(n, ptc, "file").ptc = normalizeStoredPtc(ptc)
      BY Registered
    <3>3. ~Stale(n)'
      BY <3>1 DEF Stale
    <3>4. \A t \in customTools'[n] : Direct(n, t.ptc) => n \in activeTools'
      BY <2>3, <2>4, <3>1, <3>2, Zenon
    <3>5. QED
      BY <2>2, <3>3, <3>4, Zenon DEF Follows
  <2>5. CASE n # name /\ n \in old
    <3>1. customTools'[n] = {} /\ n \notin activeTools'
      BY <1>b, <2>3, <2>5
    <3>2. QED
      BY <2>2, <3>1 DEF Follows
  <2>6. CASE n # name /\ n \notin old
    <3>1. /\ customTools'[n] = customTools[n]
          /\ n \in owned' <=> n \in owned
          /\ n \in activeTools' <=> n \in activeTools
      BY <1>b, <2>3, <2>6
    <3>2. QED
      BY <2>2, <3>1, Zenon DEF Follows, Stale
  <2>7. QED
    BY <2>4, <2>5, <2>6
<1>5. HiddenUsable'
  <2>1. ASSUME NEW n \in hidden'
        PROVE  /\ customTools'[n] = customTools[n]
               /\ extensionExecutors'[n] = extensionExecutors[n]
               /\ piTools'[n] = piTools[n]
               /\ n \in owned' <=> n \in owned
               /\ n \notin activeTools'
    <3>1. n \in hidden /\ n # name /\ n \notin old /\ n \in Names /\ n \notin activeTools
      BY <1>a, <1>b DEF Surface, HiddenUsable
    <3>2. n \in activeTools' <=> n \in activeTools \ old
      BY <1>b, <3>1, DirectStored, Zenon
    <3>3. n \notin activeTools'
      BY <3>1, <3>2
    <3>4. QED
      BY <1>a, <1>b, <3>1, <3>3 DEF Surface
  <2>2. hidden' \subseteq hidden
    BY <1>b
  <2>3. QED
    BY <1>a, <1>b, <2>1, <2>2, StillHidden, Zenon
<1>6. QED
  BY <1>1, <1>2, <1>3, <1>4, <1>5 DEF SurfaceInv, Provenance

\* Removing a file's tool touches that tool.
LEMMA RemoveKeeps ==
  ASSUME SurfaceInv, Control', NEW f \in Files, removeFileTool(f)
  PROVE  SurfaceInv'
<1> DEFINE old == {fileToTool[f]} \ {"none"}
<1>a. Surface /\ Provenance /\ Unrouted /\ FilesFollowed /\ HiddenUsable
  BY DEF SurfaceInv
<1>b. /\ settings' = settings /\ extensionExecutors' = extensionExecutors
      /\ host' = host /\ request' = request /\ savedTools' = savedTools
      /\ owned' = owned \cup old /\ piTools' = piTools
      /\ activeTools' = activeTools \ old
      /\ fileToTool' = [fileToTool EXCEPT ![f] = "none"]
      /\ hidden' = hidden \ old
      /\ reloads' = (reloads \/ savedTools # {}) /\ emitted' = emitted
      /\ customTools' = [n \in Names |-> IF n \in old THEN {} ELSE customTools[n]]
  BY DEF removeFileTool, sessionVars
<1>c. old \subseteq Names
  BY <1>a DEF Surface
<1> HIDE DEF old
<1>1. Surface'
  <2>1. reloads' \in BOOLEAN
    BY <1>a, <1>b DEF Surface
  <2>2. fileToTool' \in [Files -> Names \cup {"none"}]
    BY <1>a, <1>b DEF Surface
  <2>3. DOMAIN customTools' = Names /\ activeTools' \subseteq Names
        /\ owned' \subseteq Names /\ hidden' \subseteq Names
    BY <1>a, <1>b, <1>c DEF Surface
  <2>4. QED
    BY <1>a, <1>b, <2>1, <2>2, <2>3, Zenon DEF Surface
<1>2. ASSUME NEW n \in Names PROVE FileTool(n)' /\ HashlineTool(n)' /\ PiTool(n)'
  <2>1. FileTool(n) /\ HashlineTool(n) /\ PiTool(n) /\ owned \subseteq owned'
    BY <1>a, <1>b DEF Provenance
  <2>2. customTools'[n] = {} \/ customTools'[n] = customTools[n]
    BY <1>b
  <2>3. QED
    BY <1>b, <2>1, <2>2, SameOrigin, Zenon DEF FileTool
<1>3. Unrouted'
  BY <1>a, <1>b DEF Unrouted
<1>4. FilesFollowed'
  <2> SUFFICES ASSUME ~reloads', NEW n \in Names PROVE Follows(n, Later)'
    BY Zenon DEF FilesFollowed
  <2>1. ~reloads /\ savedTools = {}
    BY <1>b
  <2>2. Later' = activeTools' /\ Follows(n, activeTools)
    BY <1>a, <1>b, <2>1, Zenon DEF FilesFollowed, Later
  <2>3. CASE n \in old
    <3>1. customTools'[n] = {} /\ n \notin activeTools'
      BY <1>b, <2>3
    <3>2. QED
      BY <2>2, <3>1 DEF Follows
  <2>4. CASE n \notin old
    <3>1. /\ customTools'[n] = customTools[n]
          /\ n \in owned' <=> n \in owned
          /\ n \in activeTools' <=> n \in activeTools
      BY <1>b, <2>4
    <3>2. QED
      BY <2>2, <3>1, Zenon DEF Follows, Stale
  <2>5. QED
    BY <2>3, <2>4
<1>5. HiddenUsable'
  <2>1. ASSUME NEW n \in hidden'
        PROVE  /\ customTools'[n] = customTools[n]
               /\ n \in owned' <=> n \in owned
               /\ n \notin activeTools'
    <3>1. n \in hidden /\ n \notin old /\ n \in Names /\ n \notin activeTools
      BY <1>a, <1>b DEF Surface, HiddenUsable
    <3>2. QED
      BY <1>b, <3>1
  <2>2. hidden' \subseteq hidden
    BY <1>b
  <2>3. QED
    BY <1>a, <1>b, <2>1, <2>2, StillHidden, Zenon
<1>6. QED
  BY <1>1, <1>2, <1>3, <1>4, <1>5 DEF SurfaceInv, Provenance

\* Routing takes away what stays usable, and remembers the rest.
LEMMA BeforeAgentStartKeeps ==
  ASSUME SurfaceInv, NEW fits \in BOOLEAN, BeforeAgentStart(fits)
  PROVE  SurfaceInv'
<1> DEFINE tools == IF fits /\ registered /\ ~Throws
                    THEN activeTools \cap getAutoRoutableToolNames ELSE {}
<1>a. Surface /\ Provenance /\ Unrouted /\ FilesFollowed
  BY DEF SurfaceInv
<1>b. /\ settings' = settings /\ customTools' = customTools /\ owned' = owned
      /\ extensionExecutors' = extensionExecutors /\ piTools' = piTools
      /\ host' = host /\ fileToTool' = fileToTool /\ reloads' = reloads
      /\ phase' = phase /\ todo' = todo /\ failing' = failing /\ registered' = registered
      /\ ~request /\ request' = TRUE
      /\ activeTools' = activeTools \ tools
      /\ savedTools' = IF tools = {} THEN savedTools ELSE {activeTools}
      /\ hidden' = tools /\ emitted' = FALSE
  BY DEF BeforeAgentStart, registryVars, managerVars
<1>c. tools \subseteq activeTools /\ tools \subseteq Eligible
  BY SMT DEF getAutoRoutableToolNames, CallableNames
<1> HIDE DEF tools
<1>d. savedTools = {}
  BY <1>a, <1>b DEF Unrouted
<1>1. Surface'
  <2>1. activeTools' \subseteq Names /\ hidden' \subseteq Names
    BY <1>a, <1>b, <1>c DEF Surface
  <2>2. savedTools' \in Maybe(SUBSET Names)
    BY <1>a, <1>b, SMT DEF Surface, Maybe
  <2>3. Control' /\ request' \in BOOLEAN
    BY <1>a, <1>b DEF Surface, Control
  <2>4. QED
    BY <1>a, <1>b, <2>1, <2>2, <2>3, Zenon DEF Surface
<1>2. Provenance'
  BY <1>a, <1>b, SameOrigin, Zenon DEF Provenance
<1>3. Unrouted'
  BY <1>b DEF Unrouted
<1>4. FilesFollowed'
  <2>1. Later = activeTools
    BY <1>d DEF Later
  <2>2. CASE tools = {}
    <3>1. savedTools' = {} /\ activeTools' = activeTools
      BY <1>b, <1>d, <2>2
    <3>2. QED
      BY <1>a, <1>b, <2>1, <3>1, Zenon DEF FilesFollowed, Follows, Later, Stale
  <2>3. CASE tools # {}
    <3>1. Later' = activeTools
      BY <1>b, <2>3, SMT DEF Later
    <3>2. QED
      BY <1>a, <1>b, <2>1, <3>1, Zenon DEF FilesFollowed, Follows, Stale
  <2>4. QED
    BY <2>2, <2>3
<1>5. HiddenUsable'
  <2>1. ASSUME NEW n \in hidden'
        PROVE  n \notin activeTools' /\ (Usable(n)' \/ KnownToPiOnly(n)')
    <3>1. n \in Names /\ n \in Eligible /\ n \notin activeTools'
      BY <1>a, <1>b, <1>c, <2>1 DEF Surface
    <3>2. QED
      BY <1>a, <1>b, <1>1, <1>2, <3>1, HideKeeps, Zenon
  <2>2. QED
    BY <2>1, Zenon DEF HiddenUsable
<1>6. QED
  BY <1>1, <1>2, <1>3, <1>4, <1>5 DEF SurfaceInv

\* The end of a request brings back the list that was saved.
LEMMA AgentEndKeeps == SurfaceInv /\ AgentEnd => SurfaceInv'
<1> SUFFICES ASSUME SurfaceInv, AgentEnd PROVE SurfaceInv'
  OBVIOUS
<1>a. Surface /\ Provenance /\ Unrouted /\ FilesFollowed
  BY DEF SurfaceInv
<1>b. /\ settings' = settings /\ customTools' = customTools /\ owned' = owned
      /\ extensionExecutors' = extensionExecutors /\ piTools' = piTools
      /\ host' = host /\ fileToTool' = fileToTool /\ reloads' = reloads
      /\ phase' = phase /\ todo' = todo /\ failing' = failing /\ registered' = registered
      /\ request' = FALSE /\ activeTools' = Later /\ savedTools' = {} /\ hidden' = {}
      /\ emitted' = FALSE
  BY DEF AgentEnd, registryVars, managerVars, Later
<1>1. Surface'
  <2>1. Later \subseteq Names
    BY <1>a, SMT DEF Later, Surface, Maybe
  <2>2. savedTools' \in Maybe(SUBSET Names)
    BY <1>b, MaybeCases, Zenon
  <2>3. Control' /\ request' \in BOOLEAN
    BY <1>a, <1>b DEF Surface, Control
  <2>4. activeTools' \subseteq Names /\ hidden' \subseteq Names
    BY <1>b, <2>1
  <2>5. QED
    BY <1>a, <1>b, <2>2, <2>3, <2>4, Zenon DEF Surface
<1>2. Provenance'
  BY <1>a, <1>b, SameOrigin, Zenon DEF Provenance
<1>3. Unrouted' /\ HiddenUsable'
  BY <1>b DEF Unrouted, HiddenUsable
<1>4. FilesFollowed'
  <2>1. Later' = Later
    BY <1>b DEF Later
  <2>2. QED
    BY <1>a, <1>b, <2>1, Zenon DEF FilesFollowed, Follows, Stale
<1>5. QED
  BY <1>1, <1>2, <1>3, <1>4 DEF SurfaceInv

\* hashline's event touches the names it brings.
LEMMA HashlineKeeps ==
  ASSUME SurfaceInv, NEW name \in Names, NEW ptc \in Maybe(Options),
         HashlineEmits(name, ptc)
  PROVE  SurfaceInv'
<1>a. Surface /\ Provenance /\ Unrouted /\ FilesFollowed /\ HiddenUsable
  BY DEF SurfaceInv
<1>b. /\ settings' = settings /\ customTools' = customTools /\ owned' = owned
      /\ piTools' = piTools /\ activeTools' = activeTools
      /\ host' = host /\ fileToTool' = fileToTool /\ reloads' = reloads
      /\ phase' = phase /\ todo' = todo /\ failing' = failing /\ registered' = registered
      /\ request' = request /\ savedTools' = savedTools
      /\ hidden' = hidden \ {name} /\ emitted' = request
      /\ extensionExecutors' =
           [extensionExecutors EXCEPT ![name] = {toolInfo(name, ptc, "hashline")}]
  BY DEF HashlineEmits, managerVars, sessionVars
<1>1. Surface'
  <2>1. Control' /\ DOMAIN extensionExecutors' = Names /\ hidden' \subseteq Names
    BY <1>a, <1>b DEF Surface, Control
  <2>2. QED
    BY <1>a, <1>b, <2>1, Zenon DEF Surface
<1>2. ASSUME NEW n \in Names PROVE FileTool(n)' /\ HashlineTool(n)' /\ PiTool(n)'
  <2>1. FileTool(n) /\ HashlineTool(n) /\ PiTool(n) /\ owned \subseteq owned'
    BY <1>a, <1>b DEF Provenance
  <2>2. HashlineTool(n)'
    <3>1. CASE n = name
      <4>1. extensionExecutors'[n] = {toolInfo(n, ptc, "hashline")}
        BY <1>a, <1>b, <3>1 DEF Surface
      <4>2. QED
        BY <4>1, Zenon DEF HashlineTool
    <3>2. CASE n # name
      <4>1. extensionExecutors'[n] = extensionExecutors[n]
        BY <1>a, <1>b, <3>2 DEF Surface
      <4>2. QED
        BY <1>b, <2>1, <4>1, SameOrigin, Zenon
    <3>3. QED
      BY <3>1, <3>2
  <2>3. QED
    BY <1>b, <2>1, <2>2, SameOrigin, Zenon
<1>3. Unrouted'
  BY <1>a, <1>b DEF Unrouted
<1>4. FilesFollowed'
  BY <1>a, <1>b, Zenon DEF FilesFollowed, Follows, Later, Stale
<1>5. HiddenUsable'
  <2>1. ASSUME NEW n \in hidden'
        PROVE  extensionExecutors'[n] = extensionExecutors[n] /\ n \notin activeTools'
    BY <1>a, <1>b DEF Surface, HiddenUsable
  <2>2. hidden' \subseteq hidden
    BY <1>b
  <2>3. QED
    BY <1>a, <1>b, <2>1, <2>2, StillHidden, Zenon
<1>6. QED
  BY <1>1, <1>2, <1>3, <1>4, <1>5 DEF SurfaceInv, Provenance

\* What the user switches was never a file's, and nothing is hidden then.
LEMMA UserKeeps ==
  ASSUME SurfaceInv, NEW name \in Names, UserSelects(name)
  PROVE  SurfaceInv'
<1>a. Surface /\ Provenance /\ Unrouted /\ FilesFollowed
  BY DEF SurfaceInv
<1>b. /\ settings' = settings /\ customTools' = customTools /\ owned' = owned
      /\ extensionExecutors' = extensionExecutors /\ piTools' = piTools
      /\ host' = host /\ fileToTool' = fileToTool /\ reloads' = reloads
      /\ phase' = phase /\ todo' = todo /\ failing' = failing /\ registered' = registered
      /\ request' = request /\ savedTools' = savedTools /\ hidden' = hidden
      /\ emitted' = emitted /\ ~request /\ name \notin owned
      /\ activeTools' = IF name \in activeTools THEN activeTools \ {name}
                                                ELSE activeTools \cup {name}
  BY DEF UserSelects, registryVars, managerVars, sessionVars, history
<1>c. savedTools = {} /\ hidden = {}
  BY <1>a, <1>b DEF Unrouted
<1>1. Surface'
  <2>1. Control' /\ activeTools' \subseteq Names
    BY <1>a, <1>b DEF Surface, Control
  <2>2. QED
    BY <1>a, <1>b, <2>1, Zenon DEF Surface
<1>2. Provenance'
  BY <1>a, <1>b, SameOrigin, Zenon DEF Provenance
<1>3. Unrouted' /\ HiddenUsable'
  BY <1>b, <1>c DEF Unrouted, HiddenUsable
<1>4. FilesFollowed'
  <2> SUFFICES ASSUME ~reloads', NEW n \in Names PROVE Follows(n, Later)'
    BY Zenon DEF FilesFollowed
  <2>1. Later' = activeTools' /\ Follows(n, activeTools)
    BY <1>a, <1>b, <1>c, Zenon DEF FilesFollowed, Later
  <2>2. CASE n = name
    <3>1. n \notin owned /\ customTools[n] = {}
      BY <1>a, <1>b, <2>2 DEF Provenance, FileTool
    <3>2. QED
      BY <1>b, <3>1 DEF Follows, Stale
  <2>3. CASE n # name
    <3>1. n \in activeTools' <=> n \in activeTools
      BY <1>b, <2>3
    <3>2. QED
      BY <1>b, <2>1, <3>1, Zenon DEF Follows, Stale
  <2>4. QED
    BY <2>2, <2>3
<1>5. QED
  BY <1>1, <1>2, <1>3, <1>4 DEF SurfaceInv

\* Every step keeps the invariant.
LEMMA StepInv == SurfaceInv /\ [Next]_vars => SurfaceInv'
<1> SUFFICES ASSUME SurfaceInv, [Next]_vars PROVE SurfaceInv'
  OBVIOUS
<1>a. Control
  BY DEF SurfaceInv, Surface
<1>b. \A f \in Files : \A t \in FileTools[f] : t[1] \in Names /\ t[2] \in Maybe(Options)
  BY SurfaceAssumption
<1>c. \A t \in Emitted : t[1] \in Names /\ t[2] \in Maybe(Options)
  BY SurfaceAssumption
<1>1. ASSUME NEW f \in Files, NEW t \in FileTools[f], LoadAtStart(f, t[1], t[2])
      PROVE  SurfaceInv'
  <2>1. Control'
    BY <1>a, <1>1 DEF LoadAtStart, Control
  <2>2. registerLoadedTool(f, t[1], t[2])
    BY <1>1 DEF LoadAtStart
  <2>3. QED
    BY <1>b, <2>1, <2>2, RegisterKeeps, Zenon
<1>2. ASSUME NEW f \in Files, NEW t \in FileTools[f], ReloadFile(f, t[1], t[2])
      PROVE  SurfaceInv'
  <2>1. Control'
    BY <1>a, <1>2 DEF ReloadFile, Control
  <2>2. registerLoadedTool(f, t[1], t[2])
    BY <1>2 DEF ReloadFile
  <2>3. QED
    BY <1>b, <2>1, <2>2, RegisterKeeps, Zenon
<1>3. ASSUME NEW f \in Files, SkipAtStart(f) PROVE SurfaceInv'
  <2>1. Control'
    BY <1>a, <1>3 DEF SkipAtStart, Control
  <2>2. QED
    BY <1>3, <2>1, OtherSteps, Zenon DEF SkipAtStart
<1>4. ASSUME NEW f \in Files, RejectFile(f) PROVE SurfaceInv'
  <2>1. Control'
    BY <1>a, <1>4 DEF RejectFile, Control
  <2>2. QED
    BY <1>4, <2>1, RemoveKeeps, Zenon DEF RejectFile
<1>5. ASSUME NEW f \in Files, RemoveFile(f) PROVE SurfaceInv'
  <2>1. Control'
    BY <1>a, <1>5 DEF RemoveFile, Control
  <2>2. QED
    BY <1>5, <2>1, RemoveKeeps, Zenon DEF RemoveFile
<1>6. CASE SessionStart
  <2>1. Control'
    BY <1>a, <1>6 DEF SessionStart, Control
  <2>2. QED
    BY <1>6, <2>1, OtherSteps, Zenon DEF SessionStart
<1>7. ASSUME NEW fits \in BOOLEAN, BeforeAgentStart(fits) PROVE SurfaceInv'
  BY <1>7, BeforeAgentStartKeeps
<1>8. CASE AgentEnd
  BY <1>8, AgentEndKeeps
<1>9. ASSUME NEW t \in Emitted, HashlineEmits(t[1], t[2]) PROVE SurfaceInv'
  BY <1>9, <1>c, HashlineKeeps, Zenon
<1>10. ASSUME NEW name \in Selectable, UserSelects(name) PROVE SurfaceInv'
  BY <1>10, SurfaceAssumption, UserKeeps, Zenon
<1>11. CASE UNCHANGED vars
  <2>1. Control'
    BY <1>a, <1>11 DEF vars, managerVars, Control
  <2>2. UNCHANGED <<settings, registryVars, piTools, activeTools, host, fileToTool,
                    sessionVars, history>>
    BY <1>11 DEF vars, managerVars
  <2>3. QED
    BY <2>1, <2>2, OtherSteps, Zenon
<1>12. QED
  BY <1>1, <1>2, <1>3, <1>4, <1>5, <1>6, <1>7, <1>8, <1>9, <1>10, <1>11 DEF Next

-----------------------------------------------------------------------------
(* The files behind the registry *)

\* A file's tool, if no other file has one of its name, comes and goes with the file.
LEMMA RegisterKnown ==
  ASSUME Surface, FilesKnown, OwnTools, NEW f \in Files, NEW t \in FileTools[f],
         registerLoadedTool(f, t[1], t[2])
  PROVE  FilesKnown'
<1> DEFINE name == t[1]
           old == OldTools(f, name)
<1>a. /\ fileToTool \in [Files -> Names \cup {"none"}] /\ fileToTool' = [fileToTool EXCEPT ![f] = name]
      /\ old = {fileToTool[f]} \ {name, "none"} /\ name \in Names /\ "none" \notin Names
      /\ customTools' = [n \in Names |->
           IF n = name THEN {toolInfo(name, t[2], "file")}
           ELSE IF n \in old THEN {} ELSE customTools[n]]
  <2>1. t[1] \in Names /\ "none" \notin Names
    BY SurfaceAssumption
  <2>2. fileToTool \in [Files -> Names \cup {"none"}]
    BY DEF Surface
  <2>3. QED
    BY <2>1, <2>2, Zenon DEF registerLoadedTool, OldTools
<1>b. /\ \A g \in Files : fileToTool[g] # "none" => \E a \in FileTools[g] : a[1] = fileToTool[g]
      /\ \A n \in Names : customTools[n] # {} <=> HasFile(n)
  BY Zenon DEF FilesKnown
<1>c. \A g \in Files : g # f /\ fileToTool[g] # "none" =>
        fileToTool[g] # name /\ fileToTool[g] # fileToTool[f]
  <2> SUFFICES ASSUME NEW g \in Files, g # f, fileToTool[g] # "none"
               PROVE  fileToTool[g] # name /\ fileToTool[g] # fileToTool[f]
    BY Zenon
  <2>1. PICK a \in FileTools[g] : a[1] = fileToTool[g]
    BY <1>b, Zenon
  <2>2. \A b \in FileTools[f] : a[1] # b[1]
    BY Zenon DEF OwnTools
  <2>3. fileToTool[g] # name
    BY <2>1, <2>2, Zenon
  <2>4. fileToTool[g] # fileToTool[f]
    BY <1>b, <2>1, <2>2, Zenon
  <2>5. QED
    BY <2>3, <2>4
<1>d. name = t[1]
  OBVIOUS
<1> HIDE DEF name, old
<1>1. ASSUME NEW g \in Files, fileToTool'[g] # "none"
      PROVE  \E a \in FileTools[g] : a[1] = fileToTool'[g]
  <2>1. CASE g = f
    BY <1>a, <1>d, <2>1
  <2>2. CASE g # f
    BY <1>a, <1>b, <1>1, <2>2
  <2>3. QED
    BY <2>1, <2>2
<1>2. ASSUME NEW n \in Names PROVE customTools'[n] # {} <=> HasFile(n)'
  <2>1. CASE n = name
    BY <1>a, <2>1 DEF HasFile
  <2>2. CASE n # name /\ n \in old
    BY <1>a, <1>c, <2>2 DEF HasFile
  <2>3. CASE n # name /\ n \notin old
    <3>1. customTools'[n] = customTools[n]
      BY <1>a, <2>3
    <3>2. \A g \in Files : fileToTool'[g] = n <=> fileToTool[g] = n
      BY <1>a, <2>3
    <3>3. QED
      BY <1>b, <3>1, <3>2, Zenon DEF HasFile
  <2>4. QED
    BY <2>1, <2>2, <2>3
<1>3. QED
  BY <1>1, <1>2, Zenon DEF FilesKnown

\* Likewise when the file goes.
LEMMA RemoveKnown ==
  ASSUME Surface, FilesKnown, OwnTools, NEW f \in Files, removeFileTool(f)
  PROVE  FilesKnown'
<1> DEFINE old == {fileToTool[f]} \ {"none"}
<1>a. /\ fileToTool \in [Files -> Names \cup {"none"}] /\ fileToTool' = [fileToTool EXCEPT ![f] = "none"]
      /\ old = {fileToTool[f]} \ {"none"} /\ "none" \notin Names
      /\ customTools' = [n \in Names |-> IF n \in old THEN {} ELSE customTools[n]]
  BY SurfaceAssumption, SMT DEF removeFileTool, Surface
<1>b. /\ \A g \in Files : fileToTool[g] # "none" => \E a \in FileTools[g] : a[1] = fileToTool[g]
      /\ \A n \in Names : customTools[n] # {} <=> HasFile(n)
  BY Zenon DEF FilesKnown
<1>c. \A g \in Files : g # f /\ fileToTool[g] # "none" => fileToTool[g] # fileToTool[f]
  <2> SUFFICES ASSUME NEW g \in Files, g # f, fileToTool[g] # "none"
               PROVE  fileToTool[g] # fileToTool[f]
    BY Zenon
  <2>1. PICK a \in FileTools[g] : a[1] = fileToTool[g]
    BY <1>b, Zenon
  <2>2. \A b \in FileTools[f] : a[1] # b[1]
    BY Zenon DEF OwnTools
  <2>3. QED
    BY <1>b, <2>1, <2>2, Zenon
<1> HIDE DEF old
<1>1. ASSUME NEW g \in Files, fileToTool'[g] # "none"
      PROVE  \E a \in FileTools[g] : a[1] = fileToTool'[g]
  BY <1>a, <1>b, <1>1
<1>2. ASSUME NEW n \in Names PROVE customTools'[n] # {} <=> HasFile(n)'
  <2>1. CASE n \in old
    BY <1>a, <1>c, <2>1 DEF HasFile
  <2>2. CASE n \notin old
    <3>1. customTools'[n] = customTools[n]
      BY <1>a, <2>2
    <3>2. \A g \in Files : fileToTool'[g] = n <=> fileToTool[g] = n
      BY <1>a, <2>2
    <3>3. QED
      BY <1>b, <3>1, <3>2, Zenon DEF HasFile
  <2>3. QED
    BY <2>1, <2>2
<1>3. QED
  BY <1>1, <1>2, Zenon DEF FilesKnown

\* No other step touches the files or the registry's tools of files.
LEMMA FilesStep == SurfaceInv /\ FilesKnown /\ [Next]_vars => FilesKnown'
<1> SUFFICES ASSUME SurfaceInv, FilesKnown, [Next]_vars, OwnTools PROVE FilesKnown'
  BY Zenon DEF FilesKnown
<1>a. Surface
  BY DEF SurfaceInv
<1>1. ASSUME NEW f \in Files, NEW t \in FileTools[f], registerLoadedTool(f, t[1], t[2])
      PROVE  FilesKnown'
  BY <1>1, <1>a, RegisterKnown, Zenon
<1>2. ASSUME NEW f \in Files, removeFileTool(f) PROVE FilesKnown'
  BY <1>2, <1>a, RemoveKnown, Zenon
<1>3. ASSUME UNCHANGED <<customTools, fileToTool>> PROVE FilesKnown'
  BY <1>3, Zenon DEF FilesKnown, HasFile
<1>4. ASSUME NEW f \in Files, NEW t \in FileTools[f],
             LoadAtStart(f, t[1], t[2]) \/ ReloadFile(f, t[1], t[2])
      PROVE  FilesKnown'
  BY <1>1, <1>4, Zenon DEF LoadAtStart, ReloadFile
<1>5. ASSUME NEW f \in Files, RejectFile(f) \/ RemoveFile(f) PROVE FilesKnown'
  BY <1>2, <1>5, Zenon DEF RejectFile, RemoveFile
<1>6. ASSUME NEW f \in Files, SkipAtStart(f) PROVE FilesKnown'
  BY <1>3, <1>6, Zenon DEF SkipAtStart, registryVars
<1>7. CASE SessionStart
  BY <1>3, <1>7, Zenon DEF SessionStart, registryVars
<1>8. ASSUME NEW fits \in BOOLEAN, BeforeAgentStart(fits) PROVE FilesKnown'
  BY <1>3, <1>8, Zenon DEF BeforeAgentStart, registryVars, managerVars
<1>9. CASE AgentEnd
  BY <1>3, <1>9, Zenon DEF AgentEnd, registryVars, managerVars
<1>10. ASSUME NEW t \in Emitted, HashlineEmits(t[1], t[2]) PROVE FilesKnown'
  BY <1>3, <1>10, Zenon DEF HashlineEmits, managerVars
<1>11. ASSUME NEW name \in Selectable, UserSelects(name) PROVE FilesKnown'
  BY <1>3, <1>11, Zenon DEF UserSelects, registryVars, managerVars
<1>12. CASE UNCHANGED vars
  BY <1>3, <1>12, Zenon DEF vars, registryVars, managerVars
<1>13. QED
  BY <1>4, <1>5, <1>6, <1>7, <1>8, <1>9, <1>10, <1>11, <1>12, Zenon DEF Next

-----------------------------------------------------------------------------
(* Clashes of Python names while tools are hidden *)

\* Names that stand for tools of one helper name keep it, so fewer of them that are
\* eligible do not clash either.
LEMMA NoNewClash ==
  ASSUME Eligible' \subseteq Eligible,
         \A n \in Eligible' : HelperNames(n)' = HelperNames(n), Throws'
  PROVE  Throws
<1>1. Helpers(Eligible)' \subseteq Helpers(Eligible)
  <2> SUFFICES ASSUME NEW n \in Eligible', NEW h \in HelperNames(n)'
               PROVE  <<n, h>> \in Helpers(Eligible)
    BY SMT DEF Helpers
  <2>1. n \in Eligible /\ h \in HelperNames(n)
    OBVIOUS
  <2>2. QED
    BY <2>1, SMT DEF Helpers
<1>2. QED
  BY <1>1, Zenon DEF Throws, NamesClash

\* Tools of the same metadata have the same helper names.
LEMMA SameHelper ==
  ASSUME NEW n, NEW t, NEW u, buildToolMap(n) = {t}, buildToolMap(n)' = {u}, u.ptc = t.ptc
  PROVE  HelperNames(n)' = HelperNames(n)
<1>1. getPythonHelperName(n, u) = getPythonHelperName(n, t)
  BY Zenon DEF getPythonHelperName
<1>2. HelperNames(n) = getPythonHelperName(n, t)
  BY SMT DEF HelperNames
<1>3. HelperNames(n)' = getPythonHelperName(n, u)
  BY SMT DEF HelperNames
<1>4. QED
  BY <1>1, <1>2, <1>3

\* Routing causes no clash unless it hides what only Pi knows.
LEMMA RoutingClash ==
  ASSUME SurfaceInv, SurfaceInv', NEW fits \in BOOLEAN, BeforeAgentStart(fits),
         hidden' # {}, \A n \in hidden' : ~KnownToPiOnly(n)'
  PROVE  ~Throws'
<1>a. Surface /\ Provenance /\ Surface' /\ Provenance'
  BY DEF SurfaceInv
<1>b. /\ settings' = settings /\ customTools' = customTools /\ owned' = owned
      /\ extensionExecutors' = extensionExecutors /\ piTools' = piTools
      /\ activeTools' = activeTools \ hidden'
  BY DEF BeforeAgentStart, registryVars
<1>c. ~Throws /\ hidden' \subseteq Eligible
  BY SMT DEF BeforeAgentStart, getAutoRoutableToolNames, CallableNames
<1>1. ASSUME NEW n \in Names, n \in hidden'
      PROVE  HelperNames(n)' = HelperNames(n)
  <2>1. n \in Eligible /\ n \notin activeTools'
    BY <1>b, <1>c, <1>1
  <2>2. AddsNothing(n)
    <3>1. ~KnownToPiOnly(n)'
      BY <1>1
    <3>2. QED
      BY <1>b, <3>1, Zenon DEF AddsNothing, KnownToPiOnly
  <2>3. PICK e \in ToolInfos : Existing(n) = {e}
    BY <1>a, <2>1, <2>2, HiddenExists, Zenon
  <2>4. PICK t : buildToolMap(n) = {t} /\ Alike(n, t, e)
    BY <1>a, <2>2, <2>3, NearlyExisting, Zenon
  <2>5. Existing(n)' = {e} /\ AddsNothing(n)'
    <3>1. Existing(n)' = Existing(n)
      BY <1>b, SMT DEF Existing, Overlaid
    <3>2. AddsNothing(n)'
      BY <1>b, <2>2, SMT DEF AddsNothing
    <3>3. QED
      BY <2>3, <3>1, <3>2, Zenon
  <2>6. PICK u : buildToolMap(n)' = {u} /\ Alike(n, u, e)'
    BY <1>a, <2>5, NearlyExistingNext, Zenon
  <2>7. u.ptc = t.ptc
    BY <2>4, <2>6, Zenon DEF Alike
  <2>8. QED
    BY <2>4, <2>6, <2>7, SameHelper, Zenon
<1>2. ASSUME NEW n \in Names, n \notin hidden'
      PROVE  /\ HelperNames(n)' = HelperNames(n)
             /\ n \in Eligible' => n \in Eligible
  <2>1. n \in activeTools' <=> n \in activeTools
    BY <1>b, <1>2
  <2>2. buildToolMap(n)' = buildToolMap(n)
    <3>1. /\ customTools'[n] = customTools[n] /\ piTools'[n] = piTools[n]
          /\ extensionExecutors'[n] = extensionExecutors[n]
          /\ n \in owned' <=> n \in owned
      BY <1>b
    <3>2. QED
      BY <2>1, <3>1, SameMap, Zenon
  <2>3. HelperNames(n)' = HelperNames(n)
    BY <2>2, Zenon DEF HelperNames
  <2>4. n \in Eligible' => n \in Eligible
    BY <1>b, <2>2, SameFilter, Zenon DEF Eligible
  <2>5. QED
    BY <2>3, <2>4
<1>3. Eligible' \subseteq Names
  BY Zenon DEF Eligible
<1>4. /\ Eligible' \subseteq Eligible
      /\ \A n \in Eligible' : HelperNames(n)' = HelperNames(n)
  BY <1>1, <1>2, <1>3, <1>c, Zenon
<1>5. QED
  BY <1>4, <1>c, NoNewClash, Zenon

\* A clash stays what it is while nothing changes.
LEMMA SameClash == ClashNoted /\ UNCHANGED vars => ClashNoted'
<1> SUFFICES ASSUME ClashNoted, UNCHANGED vars PROVE ClashNoted'
  OBVIOUS
<1>a. /\ settings' = settings /\ customTools' = customTools /\ owned' = owned
      /\ extensionExecutors' = extensionExecutors /\ piTools' = piTools
      /\ activeTools' = activeTools /\ phase' = phase /\ failing' = failing
      /\ request' = request /\ hidden' = hidden /\ emitted' = emitted
  BY DEF vars, registryVars, managerVars, sessionVars, history
<1>1. \A n : buildToolMap(n)' = buildToolMap(n)
  BY <1>a, SameMap, Zenon
<1>2. Eligible' = Eligible
  BY <1>1, <1>a, SameFilter, SMT DEF Eligible
<1>3. \A n : HelperNames(n)' = HelperNames(n)
  BY <1>1, Zenon DEF HelperNames
<1>4. Throws' => Throws
  BY <1>2, <1>3, NoNewClash, Zenon
<1>5. ClashFromOutside => ClashFromOutside'
  BY <1>a, Zenon DEF ClashFromOutside, Quiet, KnownToPiOnly
<1>6. QED
  BY <1>a, <1>4, <1>5, Zenon DEF ClashNoted

\* A clash while tools are hidden comes from hashline, from a reload that is still to
\* be rejected or nobody catches, or from what an override has covered.
LEMMA ClashStep == SurfaceInv /\ SurfaceInv' /\ ClashNoted /\ [Next]_vars => ClashNoted'
<1> SUFFICES ASSUME SurfaceInv, SurfaceInv', ClashNoted, [Next]_vars PROVE ClashNoted'
  OBVIOUS
<1>a. (~request => hidden = {}) /\ (phase = "starting" => ~request)
  BY DEF SurfaceInv, Unrouted, ClashNoted
<1>1. ASSUME NEW f \in Files, NEW t \in FileTools[f], LoadAtStart(f, t[1], t[2])
      PROVE  ClashNoted'
  <2>1. phase' = "starting" /\ request' = request /\ phase = "starting"
    BY <1>1 DEF LoadAtStart, registerLoadedTool, sessionVars
  <2>2. QED
    BY <1>a, <2>1 DEF ClashNoted, ClashFromOutside, Quiet
<1>2. ASSUME NEW f \in Files, NEW t \in FileTools[f], ReloadFile(f, t[1], t[2])
      PROVE  ClashNoted'
  <2>1. phase' = "running" /\ failing' = IF Throws' THEN {f} ELSE {}
    BY <1>2 DEF ReloadFile, Quiet
  <2>2. Throws' => ~Quiet'
    BY <2>1, SMT DEF Quiet
  <2>3. QED
    BY <2>1, <2>2, SMT DEF ClashNoted, ClashFromOutside
<1>3. ASSUME NEW f \in Files, SkipAtStart(f) PROVE ClashNoted'
  <2>1. phase' = "starting" /\ request' = request /\ phase = "starting"
    BY <1>3 DEF SkipAtStart, sessionVars
  <2>2. QED
    BY <1>a, <2>1 DEF ClashNoted, ClashFromOutside, Quiet
<1>4. ASSUME NEW f \in Files, RejectFile(f) \/ RemoveFile(f) PROVE ClashNoted'
  <2>1. phase = "running" /\ phase' = IF Throws' THEN "crashed" ELSE phase
    BY <1>4 DEF RejectFile, RemoveFile, Quiet
  <2>2. Throws' => ~Quiet'
    BY <2>1, SMT DEF Quiet
  <2>3. phase' # "starting"
    BY <2>1, SMT
  <2>4. QED
    BY <2>2, <2>3, SMT DEF ClashNoted, ClashFromOutside
<1>5. CASE SessionStart
  <2>1. ~request /\ phase' = "running" /\ hidden' = hidden
    BY <1>a, <1>5 DEF SessionStart, history
  <2>2. QED
    BY <1>a, <2>1 DEF ClashNoted
<1>6. ASSUME NEW fits \in BOOLEAN, BeforeAgentStart(fits) PROVE ClashNoted'
  <2>1. phase' = "running"
    BY <1>6 DEF BeforeAgentStart, Quiet, managerVars
  <2>2. CASE \E n \in hidden' : KnownToPiOnly(n)'
    BY <2>1, <2>2, Zenon DEF ClashNoted, ClashFromOutside
  <2>3. CASE hidden' = {}
    BY <2>1, <2>3 DEF ClashNoted
  <2>4. CASE hidden' # {} /\ \A n \in hidden' : ~KnownToPiOnly(n)'
    <3>1. ~Throws'
      BY <1>6, <2>4, RoutingClash, Zenon
    <3>2. QED
      BY <2>1, <3>1, SMT DEF ClashNoted
  <2>5. QED
    BY <2>2, <2>3, <2>4, Zenon
<1>7. CASE AgentEnd
  <2>1. hidden' = {} /\ request' = FALSE
    BY <1>7 DEF AgentEnd
  <2>2. QED
    BY <2>1 DEF ClashNoted
<1>8. ASSUME NEW t \in Emitted, HashlineEmits(t[1], t[2]) PROVE ClashNoted'
  <2>1. /\ hidden' = hidden \ {t[1]} /\ emitted' = request /\ phase' = phase
        /\ request' = request
    BY <1>8 DEF HashlineEmits, managerVars, sessionVars
  <2>2. hidden' # {} => emitted'
    BY <1>a, <2>1
  <2>3. QED
    BY <1>a, <2>1, <2>2, Zenon DEF ClashNoted, ClashFromOutside
<1>9. ASSUME NEW name \in Selectable, UserSelects(name) PROVE ClashNoted'
  <2>1. hidden' = hidden /\ ~request /\ request' = request
    BY <1>9 DEF UserSelects, history, sessionVars
  <2>2. QED
    BY <1>a, <2>1 DEF ClashNoted
<1>10. CASE UNCHANGED vars
  BY <1>10, SameClash
<1>11. QED
  BY <1>1, <1>2, <1>3, <1>4, <1>5, <1>6, <1>7, <1>8, <1>9, <1>10, Zenon DEF Next

-----------------------------------------------------------------------------
(* Theorems *)

\* The invariant holds throughout.
LEMMA SurfaceAlways == Spec => []SurfaceInv
  BY InitInv, StepInv, PTL DEF Spec

\* At the start no file is loaded and nothing is hidden.
LEMMA InitMore == Init => FilesKnown /\ ClashNoted
<1> SUFFICES ASSUME Init PROVE FilesKnown /\ ClashNoted
  OBVIOUS
<1>1. /\ customTools = Nothing /\ fileToTool = [f \in Files |-> "none"]
      /\ hidden = {} /\ request = FALSE
  BY DEF Init
<1>2. FilesKnown
  BY <1>1, SurfaceAssumption DEF FilesKnown, HasFile, Nothing
<1>3. QED
  BY <1>1, <1>2 DEF ClashNoted

\* So do the files' tools in the registry and the origin of a clash.
LEMMA MoreAlways == Spec => []FilesKnown /\ []ClashNoted
<1>1. Init => SurfaceInv /\ FilesKnown /\ ClashNoted
  BY InitInv, InitMore
<1>2. SurfaceInv /\ FilesKnown /\ ClashNoted /\ [Next]_vars
        => SurfaceInv' /\ FilesKnown' /\ ClashNoted'
  BY StepInv, FilesStep, ClashStep
<1>3. QED
  BY <1>1, <1>2, PTL DEF Spec

\* Every variable of the registry, of the manager and of the session keeps its type,
\* and a name never stands for two tools, whatever is registered, removed and emitted.
THEOREM SurfaceTypes == Spec => []TypeOK
  BY SurfaceAlways, InvTypes, PTL

\* After its file is gone no name runs the file's function, and the name stands for what
\* the built-in tools and hashline make of it, however stale Pi's list is.
THEOREM RemovedAreGone == Spec => []RemovedToolsAreGone
  BY SurfaceAlways, InvRemoved, PTL

\* With mutations switched off no Python program can call a function whose provider
\* calls it mutating, but for the two named gaps of the merge.
THEOREM MutatorsAreOut == Spec => []MutatorsStayOut
  BY SurfaceAlways, InvMutators, PTL

\* getCallableTools and reportAllowlistGaps agree on every listed tool, but for trusted
\* metadata that denies its own policy.
THEOREM RefusalsExplained == Spec => []RefusalsAreExplained
  BY SurfaceAlways, InvExplained, PTL

\* Whatever automatic routing hides from the agent a Python program can still call and
\* run, but for overrides that only Pi knows, and for clashes of Python names that
\* hashline, an unfinished reload or a covered tool have brought since.
THEOREM HiddenStayCallable == Spec => []HiddenToolsStayCallable
  BY SurfaceAlways, MoreAlways, InvHidden, PTL

\* Between requests the agent's active tools follow the files, unless one was reloaded
\* while routing lasted, for any files of which no two define a tool of one name.
THEOREM ActiveFollowFiles == OwnTools => (Spec => []ActiveToolsFollowFiles)
<1> SUFFICES ASSUME OwnTools PROVE Spec => []ActiveToolsFollowFiles
  OBVIOUS
<1>1. SurfaceInv /\ FilesKnown => ActiveToolsFollowFiles
  BY InvFollows
<1>2. QED
  BY <1>1, SurfaceAlways, MoreAlways, PTL

=============================================================================
