---------------------------- MODULE MCToolSurface ----------------------------
(* TLC instances of ToolSurface: metadata, settings and who offers what. *)
EXTENDS ToolSurface

None == {}
Given(o) == {o}

\* Metadata as authors write it.
ReadOnly == [NoOptions EXCEPT !.callable = {TRUE}, !.policy = {"read-only"}]
Mutating == [NoOptions EXCEPT !.callable = {TRUE}, !.policy = {"mutating"}]
\* The new field denies the old one.
Contrary == [Mutating EXCEPT !.readOnly = {TRUE}]
\* The old field denies the new one.
Disowned == [ReadOnly EXCEPT !.readOnly = {FALSE}]
PythonOnly == [ReadOnly EXCEPT !.callers = {{"code_execution"}},
                               !.defaultExposure = {"opt-in"}]
NamedFind == [ReadOnly EXCEPT !.pythonName = {"find"}]
NamedSg == [ReadOnly EXCEPT !.pythonName = {"sg"}]

Offers == [f \in Files |->
  IF f = "query.js"
  THEN {<<"query", Given(Contrary)>>, <<"find", Given(Mutating)>>}
  ELSE {<<"stats", Given(o)>> : o \in {PythonOnly, NamedFind}}]

\* A tool whose author takes it away from the agent.
Narrowed == [f \in Files |-> {<<"stats", Given(ReadOnly)>>, <<"stats", Given(PythonOnly)>>}]

Executors == {<<"find", Given(Mutating)>>, <<"find", Given(NamedSg)>>,
              <<"sg", Given(Mutating)>>}
Others == {<<"find", Given(Contrary)>>, <<"sg", Given(Disowned)>>}

Setting(mutations, bash, callable, blocked, trusted) ==
  [allowMutations |-> mutations, allowBash |-> bash, callableTools |-> callable,
   blockedTools |-> blocked, trustedReadOnlyTools |-> trusted]

Everything == {"find", "bash", "glob", "query", "stats", "sg"}
Environments ==
  {Setting(FALSE, FALSE, {}, {}, {}),
   Setting(FALSE, TRUE, {Everything}, {"glob"}, {"query", "stats", "sg", "find"}),
   Setting(TRUE, FALSE, {Everything}, {"bash"}, {})}
=============================================================================
