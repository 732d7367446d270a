---------------------------- MODULE ToolSurface -----------------------------
(***************************************************************************)
(* The functions that code in the sandbox can import: how the configured   *)
(* tools are resolved, named and cached, what the generated stubs do, and  *)
(* which surface the catalog and the turn of an InvocationContext get.     *)
(* process_llm_request renders the catalog; run_async starts a turn.       *)
(*                                                                         *)
(* Names are abstract: a raw tool name and a dotted path are sequences of  *)
(* what stands between their dots.  A surface is a sequence of             *)
(* NamespacedTools: records with a tool, the toolset it comes from (Bare   *)
(* if none), the namespace of that and the identifier of the function.     *)
(***************************************************************************)
EXTENDS Naturals, Sequences, FiniteSets

CONSTANTS
    Contexts,       \* InvocationContexts
    Invocations,    \* invocation ids; branches of one invocation share its id
    Requests,       \* tasks that call process_llm_request or run_async
    Tools,          \* BaseTools: raw name, parameters and how they are declared
    Toolsets,       \* BaseToolsets
    Identifiers,    \* Python names of functions and namespaces
    Configs,        \* what the ExecuteCodeTool may have been given
    Attribute,      \* _sanitise_identifier, of raw tool names
    Parameter,      \* _sanitise_param, of raw parameter names
    ArtifactTools   \* the raw names of ARTIFACT_TOOLS

Bare == "bare"          \* no toolset, and its namespace
None == "none"
Renewed == "renewed"    \* a context that is no more
Extra == {"artifact_name", "artifact_description"}

NamespacedTools ==
    [tool : Tools, toolset : Toolsets \cup {Bare}, space : Identifiers \cup {Bare},
     attr : Identifiers]

\* An input of the constructor, and the lists of tools it may resolve to.
Inputs ==
    {n \in [toolset : Toolsets \cup {Bare}, space : Identifiers \cup {Bare},
            answers : SUBSET Seq(Tools)] : n.toolset = Bare <=> n.space = Bare}

ASSUME NamesAssumption ==
    /\ {Bare, None, Renewed} \cap (Toolsets \cup Identifiers \cup Contexts \cup Invocations) = {}
    /\ Configs \subseteq [saves : BOOLEAN, inputs : Seq(Inputs)]
    /\ \A t \in Tools : Attribute[t.raw] \in Identifiers

VARIABLES
    config,     \* the inputs, and save_tool_results_as_artifacts; never changes
    inv,        \* the invocation_id of each context
    cache,      \* _resolved_tools: an entry lives as long as its context
    req,        \* each request: where it is, its context, and what it holds
    turns,      \* _turns: the prepared surface, and the context it was resolved for
    used        \* history: surfaces a context was shown or its turn was made of

vars == <<config, inv, cache, req, turns, used>>
-----------------------------------------------------------------------------
(* namespacing: paths, collisions and lookups.                             *)

Path(t) == IF t.toolset = Bare THEN <<t.attr>> ELSE <<t.space, t.attr>>

\* Two tools that build does not accept together: one raw name or one identifier in a
\* namespace, two toolsets that share it, or a top-level function named like it.
Clash(t, u) ==
    \/ /\ t.space = u.space
       /\ t.toolset # u.toolset \/ t.tool.raw = u.tool.raw \/ t.attr = u.attr
    \/ t.toolset = Bare /\ u.toolset # Bare /\ t.attr = u.space

Accepted(list) ==
    \A i, j \in DOMAIN list : i # j => ~Clash(list[i], list[j])

\* Of a dict that maps the paths of list to their tools: the last one wins.
AtPath(list, path) ==
    LET same == {i \in DOMAIN list : Path(list[i]) = path}
    IN  CHOOSE i \in same : \A j \in same : j <= i

Paths(list) == {Path(list[i]) : i \in DOMAIN list}
Named(list, name) == {i \in DOMAIN list : list[i].tool.raw = name}

\* Mutant of ResolveCall: raw names come first.
ResolveCallByName(list, name) ==
    IF Cardinality(Named(list, name)) = 1 THEN CHOOSE i \in Named(list, name) : TRUE
    ELSE IF name \in Paths(list) THEN AtPath(list, name)
    ELSE 0

\* Registry.resolve_call: the position of the tool, 0 if it raises KeyError.
ResolveCall(list, name) ==
    IF name \in Paths(list) THEN AtPath(list, name)
    ELSE IF Cardinality(Named(list, name)) = 1 THEN CHOOSE i \in Named(list, name) : TRUE
    ELSE 0
-----------------------------------------------------------------------------
(* ToolResultArtifactTool and the stubs: parameters and arguments.         *)

Wrapped(t) == config.saves /\ t.raw \notin ArtifactTools

\* The parameters the wrapper adds and takes away again.  Only those a tool declares by
\* `parameters` are looked at, not those of its parameters_json_schema.
Injected(t) ==
    IF Wrapped(t) THEN Extra \ (IF t.json THEN {} ELSE t.params) ELSE {}

\* The raw parameter names render_tool sees: the JSON schema hides what was added.
Signature(t) == IF t.json THEN t.params ELSE t.params \cup Injected(t)

\* Its parameters have Python names of their own.
Distinct(t) == \A p, q \in Signature(t) : p # q => Parameter[p] # Parameter[q]

\* render_tool does not raise for any tool.
Renders(list) == \A i \in DOMAIN list : Distinct(list[i].tool)

\* The keyword arguments that a caller of the stub may give.
Keywords(t) ==
    {k \in SUBSET {Parameter[p] : p \in Signature(t)} :
        \A p \in t.required \ t.defaults : Parameter[p] \in k}

\* The arguments in the ToolCallFrame: all that are required, by their default in the
\* schema if need be, and of the others those that were given.
Sent(t, k) == {p \in Signature(t) : p \in t.required \/ Parameter[p] \in k}

\* The arguments the tool itself gets.
Delivered(t, k) == Sent(t, k) \ Injected(t)
-----------------------------------------------------------------------------
(* The generated package.                                                  *)

Spaces(list) == {list[i].space : i \in DOMAIN list} \ {Bare}

\* The position of the stub in the file that is imported for a path; 0 if a directory
\* of the same name hides it.
StubAt(list, path) ==
    IF Len(path) = 1 /\ path[1] \in Spaces(list) THEN 0 ELSE AtPath(list, path)

\* The stubs that are run when t is imported: the __init__.py of the root and of the
\* namespace import all of theirs.
Loaded(list, t) == {i \in DOMAIN list : list[i].space \in {Bare, t.space}}

\* A description goes into the docstring as it is: quotes or a bad escape in it spoil the
\* file of the stub, and with it every import that loads it.  So does a default in a JSON
\* schema whose repr is no expression; `spoils' stands for either.
Imports(list, t) ==
    \A i \in Loaded(list, t) : ~list[i].tool.spoils /\ Distinct(list[i].tool)

\* Importing t by its path and calling it reaches t, whose arguments arrive.
Reaches(list, i) ==
    LET t == list[i].tool
    IN  /\ Imports(list, list[i])
        /\ StubAt(list, Path(list[i])) = i
        /\ ResolveCall(list, Path(list[i])) = i
        /\ \A k \in Keywords(t) :
             Delivered(t, k) = {p \in t.params : p \in t.required \/ Parameter[p] \in k}
-----------------------------------------------------------------------------
(* The requests.                                                           *)

Idle == [at |-> "idle", ctx |-> None, kind |-> None, list |-> <<>>, done |-> 0, by |-> None]
Entry(i, s) == [inv |-> i, surface |-> s]
NoTurn == [surface |-> <<>>, by |-> None]

Init ==
    /\ config \in Configs
    /\ inv \in [Contexts -> Invocations]
    /\ cache = [c \in Contexts |-> Entry(None, <<>>)]
    /\ req = [r \in Requests |-> Idle]
    /\ turns = [i \in Invocations |-> NoTurn]
    /\ used = [c \in Contexts |-> {}]

\* The surface cached for a context under its present invocation.
Cached(c) == cache[c].inv = inv[c]

Use(c, s) == used' = [used EXCEPT ![c] = @ \cup {s}]
End(r) == req' = [req EXCEPT ![r] = Idle]

\* Mutant of Got: the stubs are not rendered before a turn is started.
GotUnrendered(r, c, kind, s) ==
    IF kind = "catalog" THEN End(r) /\ (IF Renders(s) THEN Use(c, s) ELSE UNCHANGED used)
    ELSE /\ req' = [req EXCEPT ![r] = [at |-> "starting", ctx |-> c, kind |-> kind,
                                       list |-> s, done |-> 0, by |-> c]]
         /\ UNCHANGED used

\* A request has the surface of its context, which is cached.  Rendering may raise; else
\* the catalog is shown, or a turn is started.
Got(r, c, kind, s) ==
    IF ~Renders(s) THEN End(r) /\ UNCHANGED used
    ELSE IF kind = "catalog" THEN End(r) /\ Use(c, s)
    ELSE /\ req' = [req EXCEPT ![r] = [at |-> "starting", ctx |-> c, kind |-> kind,
                                       list |-> s, done |-> 0, by |-> c]]
         /\ UNCHANGED used

\* A request comes in; run_async takes the context's execution lock.  Without a turn, it
\* needs the surface as the catalog does, and looks into the cache.
Begin(r, c, kind) ==
    /\ req[r].at = "idle"
    /\ kind = "run" => \A q \in Requests : req[q].ctx # c \/ req[q].kind # "run"
    /\ kind = "catalog" \/ turns[inv[c]].by = None
    /\ IF Cached(c) THEN Got(r, c, kind, cache[c].surface)
       ELSE /\ req' = [req EXCEPT ![r] = [at |-> "resolving", ctx |-> c, kind |-> kind,
                                          list |-> <<>>, done |-> 0, by |-> c]]
            /\ UNCHANGED used
    /\ UNCHANGED <<config, inv, cache, turns>>

\* run_async finds a turn of its invocation and runs a block on it.
ReuseTurn(r, c) ==
    /\ req[r].at = "idle"
    /\ \A q \in Requests : req[q].ctx # c \/ req[q].kind # "run"
    /\ turns[inv[c]].by # None
    /\ LET turn == turns[inv[c]] IN
         /\ req' = [req EXCEPT ![r] = [at |-> "running", ctx |-> c, kind |-> "run",
                                       list |-> turn.surface, done |-> 0, by |-> turn.by]]
         /\ IF turn.by = c THEN Use(c, turn.surface) ELSE UNCHANGED used
    /\ UNCHANGED <<config, inv, cache, turns>>

\* normaliser.resolve gets the tools of the next input.  A toolset is awaited and may
\* answer anything, whatever it answered before.
ResolveInput(r) ==
    /\ req[r].at = "resolving"
    /\ req[r].done < Len(config.inputs)
    /\ LET input == config.inputs[req[r].done + 1] IN
         \E tools \in input.answers :
            req' = [req EXCEPT ![r].done = @ + 1,
                               ![r].list = @ \o [i \in DOMAIN tools |->
                                   [tool |-> tools[i], toolset |-> input.toolset,
                                    space |-> input.space,
                                    attr |-> Attribute[tools[i].raw]]]]
    /\ UNCHANGED <<config, inv, cache, turns, used>>

\* The toolset raises or the task is cancelled: nothing is cached.
ResolveFails(r) ==
    /\ req[r].at = "resolving"
    /\ End(r)
    /\ UNCHANGED <<config, inv, cache, turns, used>>

Resolved(r) == req[r].at = "resolving" /\ req[r].done = Len(config.inputs)

\* build raises; nothing is cached.
Reject(r) ==
    /\ Resolved(r)
    /\ ~Accepted(req[r].list)
    /\ End(r)
    /\ UNCHANGED <<config, inv, cache, turns, used>>

\* Mutant of CacheSurface: the cache is not looked at again.
CacheLatest(r) ==
    /\ Resolved(r)
    /\ Accepted(req[r].list)
    /\ LET c == req[r].ctx IN
         /\ Got(r, c, req[r].kind, req[r].list)
         /\ cache' = [cache EXCEPT ![c] = Entry(inv[c], req[r].list)]
    /\ UNCHANGED <<config, inv, turns>>

\* build accepts.  If another request of the context has been faster, its surface is
\* taken; else this one is cached.
CacheSurface(r) ==
    /\ Resolved(r)
    /\ Accepted(req[r].list)
    /\ LET c == req[r].ctx
           s == IF Cached(c) THEN cache[c].surface ELSE req[r].list
       IN  /\ Got(r, c, req[r].kind, s)
           /\ cache' = [cache EXCEPT ![c] = Entry(inv[c], s)]
    /\ UNCHANGED <<config, inv, turns>>

\* _create_turn has started a session with the stubs, and registers it.
Started(r) ==
    /\ req[r].at = "starting"
    /\ LET c == req[r].ctx IN
         /\ turns' = [turns EXCEPT ![inv[c]] = [surface |-> req[r].list, by |-> req[r].by]]
         /\ IF req[r].by = c THEN Use(c, req[r].list) ELSE UNCHANGED used
    /\ req' = [req EXCEPT ![r].at = "running"]
    /\ UNCHANGED <<config, inv, cache>>

\* It fails, or the call is cancelled.
StartFails(r) ==
    /\ req[r].at = "starting"
    /\ End(r)
    /\ UNCHANGED <<config, inv, cache, turns, used>>

\* The block never reached the sandbox: a new turn, with the surface of the old one.
Reconnect(r) ==
    /\ req[r].at = "running"
    /\ req' = [req EXCEPT ![r].at = "starting"]
    /\ LET i == inv[req[r].ctx] IN
         turns' = IF turns[i] = [surface |-> req[r].list, by |-> req[r].by]
                  THEN [turns EXCEPT ![i] = NoTurn] ELSE turns
    /\ UNCHANGED <<config, inv, cache, used>>

BlockEnds(r) ==
    /\ req[r].at = "running"
    /\ End(r)
    /\ UNCHANGED <<config, inv, cache, turns, used>>

\* release_invocation, the reaper or _discard_turn.
DropTurn(i) ==
    /\ turns[i].by # None
    /\ turns' = [turns EXCEPT ![i] = NoTurn]
    /\ UNCHANGED <<config, inv, cache, req, used>>

\* Between its requests a context gets another invocation_id, or it is collected, with
\* its entry in the cache, and another one takes its place.
Renew(c, i, collected) ==
    /\ \A r \in Requests : req[r].ctx # c
    /\ collected \/ i # inv[c]
    /\ inv' = [inv EXCEPT ![c] = i]
    /\ cache' = IF collected THEN [cache EXCEPT ![c] = Entry(None, <<>>)] ELSE cache
    /\ turns' = [j \in Invocations |->
                   IF turns[j].by = c THEN [turns[j] EXCEPT !.by = Renewed] ELSE turns[j]]
    /\ req' = [r \in Requests |->
                 IF req[r].by = c THEN [req[r] EXCEPT !.by = Renewed] ELSE req[r]]
    /\ used' = [used EXCEPT ![c] = {}]
    /\ UNCHANGED config

Next ==
    \/ \E r \in Requests, c \in Contexts :
         ReuseTurn(r, c) \/ \E kind \in {"catalog", "run"} : Begin(r, c, kind)
    \/ \E r \in Requests :
         \/ ResolveInput(r) \/ ResolveFails(r) \/ Reject(r) \/ CacheSurface(r)
         \/ Started(r) \/ StartFails(r) \/ Reconnect(r) \/ BlockEnds(r)
    \/ \E i \in Invocations : DropTurn(i)
    \/ \E c \in Contexts, i \in Invocations, b \in BOOLEAN : Renew(c, i, b)

Spec == Init /\ [][Next]_vars
-----------------------------------------------------------------------------
(* Properties.                                                             *)

Surface(s) == s \in Seq(NamespacedTools) /\ Accepted(s)

RequestOK(q) ==
    \/ q = Idle
    \/ /\ q.ctx \in Contexts /\ q.kind \in {"catalog", "run"}
       /\ \/ /\ q.at = "resolving" /\ q.done \in 0 .. Len(config.inputs)
             /\ q.list \in Seq(NamespacedTools) /\ q.by = q.ctx
          \/ /\ q.at \in {"starting", "running"} /\ q.kind = "run"
             /\ Surface(q.list) /\ Renders(q.list)
             /\ q.by \in Contexts \cup {Renewed}

\* Requests hold what their place calls for; nothing that build rejects is cached, and
\* nothing that cannot be rendered is put to use.
TypeOK ==
    /\ config \in Configs
    /\ inv \in [Contexts -> Invocations]
    /\ cache \in [Contexts -> [inv : Invocations \cup {None}, surface : Seq(NamespacedTools)]]
    /\ \A c \in Contexts : Accepted(cache[c].surface)
    /\ req = [r \in Requests |-> req[r]] /\ \A r \in Requests : RequestOK(req[r])
    /\ turns \in [Invocations ->
                    [surface : Seq(NamespacedTools), by : Contexts \cup {None, Renewed}]]
    /\ \A i \in Invocations : Accepted(turns[i].surface) /\ Renders(turns[i].surface)
    /\ used = [c \in Contexts |-> used[c]]
    /\ \A c \in Contexts : \A s \in used[c] : Surface(s) /\ Renders(s)

\* "A toolset is only resolved once per invocation regardless of which runs first": all
\* that a context is shown in catalogs, and all the turns made for it, are one surface,
\* however its requests overlap and whatever the toolsets answer; the functions a model
\* has read about are those its code can import.  A turn that another context of the
\* invocation started is left out: the surface of that one may be another.
OneSurfacePerContext == \A c \in Contexts : Cardinality(used[c]) <= 1

\* Every function of a surface that is put to use can be imported by its path, stands for
\* the tool it was made from and no other, and hands on the arguments it is given.  But
\* a description that is no docstring spoils its toolset, or all if it is that of a
\* top-level function, and the wrapper takes a parameter it overlooks for its own.
StubCallsArrive ==
    \A s \in UNION {used[c] : c \in Contexts} :
        \A i \in DOMAIN s :
            \/ \E t \in {s[j] : j \in DOMAIN s} :
                  t.tool.spoils /\ t.toolset \in {Bare, s[i].toolset}
            \/ Wrapped(s[i].tool) /\ s[i].tool.json /\ s[i].tool.params \cap Extra # {}
            \/ Reaches(s, i)
=============================================================================
