--------------------------- MODULE MCToolSurface ---------------------------
(***************************************************************************)
(* Small tool surfaces for ToolSurface.                                    *)
(***************************************************************************)
EXTENDS ToolSurface, TLC

Tool(raw, params, required, defaults, json, spoils) ==
    [raw |-> raw, params |-> params, required |-> required, defaults |-> defaults,
     json |-> json, spoils |-> spoils]
Plain(name) == Tool(<<name>>, {}, {}, {}, FALSE, FALSE)
Spoiling(name) == Tool(<<name>>, {}, {}, {}, FALSE, TRUE)

\* "slack.send" is the raw name of a tool, and looks like the path of another.
DottedName == Tool(<<"slack", "send">>, {}, {}, {}, FALSE, FALSE)

\* Required, required with a default, optional; declared by `parameters` or by a schema.
Send(json) == Tool(<<"send">>, {"to", "from", "text"}, {"to", "from"}, {"from"}, json, FALSE)
Report(json) ==
    Tool(<<"report">>, {"text", "artifact_name"}, {"artifact_name"}, {}, json, FALSE)
TwoNames == Tool(<<"post">>, {"to", "to-"}, {}, {}, TRUE, FALSE)

RawAttribute ==
    (<<"send">> :> "send") @@ (<<"Send">> :> "send") @@ (<<"post">> :> "post")
    @@ (<<"slack">> :> "slack") @@ (<<"slack", "send">> :> "slack_send")
    @@ (<<"report">> :> "report") @@ (<<"load_artifact">> :> "load_artifact")
BuiltinTools == {<<"load_artifact">>}
RawParameter ==
    [p \in {"to", "to-", "from", "text"} \cup Extra |->
        CASE p = "to-" -> "to" [] p = "from" -> "from_" [] OTHER -> p]

SomeIdentifiers ==
    {"send", "post", "slack", "slack_send", "report", "load_artifact", "mail"}

Given(tool) == [toolset |-> Bare, space |-> Bare, answers |-> {<<tool>>}]
Toolset(name, space, answers) ==
    [toolset |-> name, space |-> space, answers |-> answers]

\* Toolsets whose tools come and go, next to a function of the same name, a tool with
\* the name of a path, and each other; and a description that is no docstring.
Names ==
    [saves : {FALSE},
     inputs : {<<Given(Plain("Send")),
                 Toolset("s1", "slack", {<<Plain("send")>>, <<DottedName, Plain("send")>>})>>,
               <<Given(Plain("slack")),
                 Toolset("s1", "slack", {<<>>, <<Plain("send")>>})>>,
               <<Toolset("s1", "slack", {<<Plain("post")>>, <<Plain("send"), Plain("Send")>>}),
                 Toolset("s2", "slack", {<<>>, <<Plain("send")>>})>>,
               <<Toolset("s1", "slack", {<<Spoiling("post"), Plain("send")>>}),
                 Toolset("s2", "mail", {<<Plain("send")>>})>>}]

\* Parameters of all kinds, whose results are saved or not.
Arguments ==
    [saves : BOOLEAN,
     inputs : {<<Toolset("s1", "slack", {<<Send(json), Report(json)>>})>> :
                   json \in BOOLEAN}
              \cup {<<Toolset("s1", "slack", {<<TwoNames>>, <<Plain("load_artifact")>>})>>}]

SomeTools ==
    {Plain("send"), Plain("Send"), Plain("slack"), Plain("post"), DottedName,
     Spoiling("post"), Plain("load_artifact"), TwoNames}
    \cup {Send(json) : json \in BOOLEAN} \cup {Report(json) : json \in BOOLEAN}

Surfaces == Names \cup Arguments

Symmetry == Permutations(Contexts) \cup Permutations(Invocations) \cup Permutations(Requests)
=============================================================================
