-------------------------- MODULE ToolSurface_proofs --------------------------
(***************************************************************************)
(* Theorems about ToolSurface, for any tools, toolsets, contexts and       *)
(* requests: surfaces that build accepts are reached by their paths, and   *)
(* each context has one.                                                   *)
(***************************************************************************)
EXTENDS ToolSurface, FiniteSetTheorems, TLAPS

(* Paths.                                                                  *)

\* Two tools that do not clash have different paths.
LEMMA PathsDiffer ==
    ASSUME NEW t \in NamespacedTools, NEW u \in NamespacedTools,
           t.toolset = Bare <=> t.space = Bare, u.toolset = Bare <=> u.space = Bare,
           ~Clash(t, u)
    PROVE  Path(t) # Path(u)
<1>1. CASE t.toolset = Bare /\ u.toolset = Bare
  BY <1>1 DEF Path, Clash
<1>2. CASE t.toolset # Bare /\ u.toolset # Bare
  BY <1>2 DEF Path, Clash
<1>3. CASE (t.toolset = Bare) # (u.toolset = Bare)
  <2>1. Len(Path(t)) # Len(Path(u))
    BY <1>3 DEF Path
  <2> QED  BY <2>1
<1> QED  BY <1>1, <1>2, <1>3

\* A list whose tools have a namespace if and only if they come from a toolset.
Placed(s) ==
    /\ s \in Seq(NamespacedTools)
    /\ \A i \in DOMAIN s : s[i].toolset = Bare <=> s[i].space = Bare

\* What a path of an accepted surface is looked up to.
LEMMA AtPathIs ==
    ASSUME NEW s, Placed(s), Accepted(s), NEW i \in DOMAIN s
    PROVE  AtPath(s, Path(s[i])) = i
<1> DEFINE same == {j \in DOMAIN s : Path(s[j]) = Path(s[i])}
<1>1. \A j \in DOMAIN s : s[j] \in NamespacedTools /\ j \in Nat
  BY DEF Placed
<1>2. \A j \in DOMAIN s : j # i => Path(s[j]) # Path(s[i])
  BY <1>1, PathsDiffer DEF Placed, Accepted
<1>3. same = {i}
  BY <1>2
<1>4. i <= i
  BY <1>1
<1> QED  BY <1>3, <1>4 DEF AtPath

\* An accepted surface reaches every tool, if no description spoils it and the wrapper
\* knows the parameters of the tool: StubCallsArrive for one function.
LEMMA AcceptedReaches ==
    ASSUME NEW s, Placed(s), Accepted(s), Renders(s), NEW i \in DOMAIN s,
           ~ \E t \in {s[j] : j \in DOMAIN s} :
               t.tool.spoils /\ t.toolset \in {Bare, s[i].toolset},
           ~ (Wrapped(s[i].tool) /\ s[i].tool.json /\ s[i].tool.params \cap Extra # {})
    PROVE  Reaches(s, i)
<1> DEFINE t == s[i].tool  path == Path(s[i])
<1>1. Imports(s, s[i])
  <2> SUFFICES ASSUME NEW j \in Loaded(s, s[i])
               PROVE  ~s[j].tool.spoils /\ Distinct(s[j].tool)
    BY DEF Imports
  <2>1. j \in DOMAIN s /\ s[j].space \in {Bare, s[i].space}
    BY DEF Loaded
  <2>2. s[j].toolset \in {Bare, s[i].toolset}
    BY <2>1 DEF Placed, Accepted, Clash
  <2> QED  BY <2>1, <2>2 DEF Renders
<1>2. AtPath(s, path) = i
  BY AtPathIs
<1>3. StubAt(s, path) = i
  <2>1. ASSUME Len(path) = 1, path[1] \in Spaces(s) PROVE FALSE
    <3>1. s[i].toolset = Bare /\ path = <<s[i].attr>>
      BY <2>1 DEF Path
    <3>2. PICK j \in DOMAIN s : s[j].space = s[i].attr /\ s[j].space # Bare
      BY <2>1, <3>1 DEF Spaces
    <3>3. s[j].toolset # Bare /\ j # i
      BY <3>1, <3>2 DEF Placed
    <3> QED  BY <3>1, <3>2, <3>3 DEF Accepted, Clash
  <2> QED  BY <2>1, <1>2 DEF StubAt
<1>4. ResolveCall(s, path) = i
  BY <1>2 DEF ResolveCall, Paths
<1>5. ASSUME NEW k \in Keywords(t)
      PROVE  Delivered(t, k) = {p \in t.params : p \in t.required \/ Parameter[p] \in k}
  BY DEF Delivered, Sent, Signature, Injected
<1> QED  BY <1>1, <1>3, <1>4, <1>5 DEF Reaches
-----------------------------------------------------------------------------
(* The invariant.                                                          *)

\* All lists come from inputs, in which toolsets have namespaces.
AllPlaced ==
    /\ \A r \in Requests : Placed(req[r].list)
    /\ \A c \in Contexts : Placed(cache[c].surface)
    /\ \A i \in Invocations : Placed(turns[i].surface)

\* What belongs to a context is what the cache has for it.
OneSource ==
    /\ \A c \in Contexts : used[c] # {} => Cached(c) /\ used[c] = {cache[c].surface}
    /\ \A r \in Requests, c \in Contexts :
         req[r].at \in {"starting", "running"} /\ req[r].by = c
         => Cached(c) /\ req[r].list = cache[c].surface
    /\ \A i \in Invocations, c \in Contexts :
         turns[i].by = c => Cached(c) /\ turns[i].surface = cache[c].surface

IInv == TypeOK /\ AllPlaced /\ OneSource

LEMMA EmptyPlaced == Placed(<<>>) /\ Accepted(<<>>) /\ Renders(<<>>)
BY DEF Placed, Accepted, Renders

LEMMA InitOK == Init => IInv
<1> SUFFICES ASSUME Init PROVE IInv
  OBVIOUS
<1>1. TypeOK
  BY EmptyPlaced DEF Init, TypeOK, Entry, NoTurn, Idle, RequestOK, Surface
<1>2. AllPlaced
  BY EmptyPlaced DEF Init, AllPlaced, Entry, NoTurn, Idle
<1>3. OneSource
  BY NamesAssumption DEF Init, OneSource, NoTurn, Idle
<1> QED  BY <1>1, <1>2, <1>3 DEF IInv

\* Got: the surface is the one cached for the context, if it was before.
LEMMA GotKeeps ==
    ASSUME IInv, NEW r \in Requests, NEW c \in Contexts, NEW kind \in {"catalog", "run"},
           NEW s, Placed(s), Accepted(s), Cached(c) => s = cache[c].surface,
           Got(r, c, kind, s), cache' = [cache EXCEPT ![c] = Entry(inv[c], s)],
           UNCHANGED <<config, inv, turns>>
    PROVE  IInv'
<1>1. s \in Seq(NamespacedTools) /\ inv[c] \in Invocations
  BY DEF Placed, IInv, TypeOK
<1>2. cache'[c] = Entry(inv[c], s) /\ \A d \in Contexts \ {c} : cache'[d] = cache[d]
  BY DEF IInv, TypeOK
<1>3. \A d \in Contexts : Cached(d) => Cached(d)' /\ cache'[d].surface = cache[d].surface
  BY <1>2 DEF Cached, Entry
<1>4. Cached(c)' /\ cache'[c].surface = s
  BY <1>2 DEF Cached, Entry
<1>5. cache' \in [Contexts -> [inv : Invocations \cup {None}, surface : Seq(NamespacedTools)]]
  BY <1>1 DEF IInv, TypeOK, Entry
<1>6. \A d \in Contexts : Accepted(cache'[d].surface) /\ Placed(cache'[d].surface)
  BY <1>2, <1>4 DEF IInv, TypeOK, AllPlaced
<1>7. /\ \A x : Renders(x)' <=> Renders(x)
      /\ \A x : RequestOK(x)' <=> RequestOK(x)
  BY DEF Renders, RequestOK, Distinct, Signature, Injected, Wrapped
<1>8. CASE ~Renders(s) \/ kind = "catalog"
  <2>1. End(r) /\ (UNCHANGED used \/ (Use(c, s) /\ Renders(s)))
    BY <1>8 DEF Got
  <2>2. used' \in {used, [used EXCEPT ![c] = @ \cup {s}]} /\ (used' # used => Renders(s))
    BY <2>1 DEF Use
  <2>3. req' = [req EXCEPT ![r] = Idle]
    BY <2>1 DEF End
  <2>4. TypeOK'
    <3>1. req' = [p \in Requests |-> req'[p]] /\ \A q \in Requests : RequestOK(req'[q])
      BY <2>3 DEF IInv, TypeOK, RequestOK
    <3>2. /\ used' = [d \in Contexts |-> used'[d]]
          /\ \A d \in Contexts : \A x \in used'[d] : Surface(x) /\ Renders(x)
      <4>1. used' = [d \in Contexts |-> used'[d]] /\ \A d \in Contexts : used'[d] \subseteq used[d] \cup {s}
        BY <2>2 DEF IInv, TypeOK
      <4>2. used' # used => Surface(s) /\ Renders(s)
        BY <1>1, <2>2 DEF Surface
      <4> QED  BY <4>1, <4>2 DEF IInv, TypeOK
    <3> QED  BY <1>5, <1>6, <1>7, <3>1, <3>2 DEF IInv, TypeOK, Surface
  <2>5. AllPlaced'
    BY <1>6, <2>3, EmptyPlaced DEF IInv, TypeOK, AllPlaced, Idle
  <2>6. OneSource'
    <3>1. \A d \in Contexts : used'[d] # {} => Cached(d)' /\ used'[d] = {cache'[d].surface}
      BY <1>3, <1>4, <2>2 DEF IInv, TypeOK, OneSource
    <3>2. \A p \in Requests : req'[p] = req[p] \/ req'[p].at = "idle"
      BY <2>3 DEF IInv, TypeOK, Idle
    <3> QED  BY <1>3, <3>1, <3>2 DEF IInv, OneSource
  <2> QED  BY <2>4, <2>5, <2>6 DEF IInv
<1>9. CASE Renders(s) /\ kind = "run"
  <2> DEFINE q == [at |-> "starting", ctx |-> c, kind |-> kind, list |-> s, done |-> 0,
                   by |-> c]
  <2>1. req' = [req EXCEPT ![r] = q] /\ used' = used
    BY <1>9 DEF Got
  <2>2. RequestOK(q)
    BY <1>1, <1>9 DEF RequestOK, Surface
  <2>3. TypeOK'
    BY <1>1, <1>5, <1>6, <1>7, <2>1, <2>2 DEF IInv, TypeOK, Surface
  <2>4. AllPlaced'
    BY <1>6, <2>1 DEF IInv, TypeOK, AllPlaced
  <2>5. OneSource'
    BY <1>3, <1>4, <2>1 DEF IInv, TypeOK, OneSource
  <2> QED  BY <2>3, <2>4, <2>5 DEF IInv
<1> QED  BY <1>8, <1>9

\* Any other step: a request goes on, a turn comes or goes, and what a context used grows
\* by the surface it has; or they stay as they are.
Goes(r, q) ==
    \/ req' = req
    \/ /\ r \in Requests /\ req' = [req EXCEPT ![r] = q]
       /\ RequestOK(q) /\ Placed(q.list)
       /\ \A c \in Contexts : q.at \in {"starting", "running"} /\ q.by = c
                               => Cached(c) /\ q.list = cache[c].surface

Holds(i, turn) ==
    \/ turns' = turns
    \/ /\ i \in Invocations /\ turns' = [turns EXCEPT ![i] = turn]
       /\ turn \in [surface : Seq(NamespacedTools), by : Contexts \cup {None, Renewed}]
       /\ Accepted(turn.surface) /\ Renders(turn.surface) /\ Placed(turn.surface)
       /\ \A c \in Contexts : turn.by = c => Cached(c) /\ turn.surface = cache[c].surface

Uses(c, s) ==
    \/ used' = used
    \/ /\ c \in Contexts /\ Use(c, s)
       /\ Cached(c) /\ s = cache[c].surface /\ Renders(s)

LEMMA StepKeeps ==
    ASSUME IInv, NEW r, NEW q, NEW i, NEW turn, NEW c, NEW s,
           Goes(r, q), Holds(i, turn), Uses(c, s), UNCHANGED <<config, inv, cache>>
    PROVE  IInv'
<1>1. /\ \A x : Renders(x)' <=> Renders(x)
      /\ \A x : RequestOK(x)' <=> RequestOK(x)
      /\ \A d \in Contexts : Cached(d)' <=> Cached(d)
  BY DEF Renders, RequestOK, Distinct, Signature, Injected, Wrapped, Cached
<1>2. /\ req' = [p \in Requests |-> req'[p]]
      /\ \A p \in Requests :
           req'[p] = req[p] \/ (req'[p] = q /\ RequestOK(q) /\ Placed(q.list)
             /\ \A d \in Contexts : q.at \in {"starting", "running"} /\ q.by = d
                                      => Cached(d) /\ q.list = cache[d].surface)
  BY DEF Goes, IInv, TypeOK
<1>3. \A p \in Requests : RequestOK(req'[p])
  BY <1>2 DEF Goes, IInv, TypeOK
<1>4. /\ turns' \in [Invocations ->
                    [surface : Seq(NamespacedTools), by : Contexts \cup {None, Renewed}]]
      /\ \A j \in Invocations :
           turns'[j] = turns[j] \/ (turns'[j] = turn /\ Accepted(turn.surface)
             /\ Renders(turn.surface) /\ Placed(turn.surface)
             /\ \A d \in Contexts : turn.by = d
                                      => Cached(d) /\ turn.surface = cache[d].surface)
  <2>1. CASE turns' = turns
    BY <2>1 DEF IInv, TypeOK
  <2>2. CASE turns' # turns
    <3>1. /\ i \in Invocations /\ turns' = [turns EXCEPT ![i] = turn]
          /\ turn \in [surface : Seq(NamespacedTools), by : Contexts \cup {None, Renewed}]
          /\ turns \in [Invocations ->
                [surface : Seq(NamespacedTools), by : Contexts \cup {None, Renewed}]]
      BY <2>2 DEF Holds, IInv, TypeOK
    <3>2. \A j \in Invocations : turns'[j] = IF j = i THEN turn ELSE turns[j]
      BY <3>1
    <3>3. turns' \in [Invocations ->
                [surface : Seq(NamespacedTools), by : Contexts \cup {None, Renewed}]]
      BY <3>1
    <3> QED  BY <2>2, <3>2, <3>3 DEF Holds
  <2> QED  BY <2>1, <2>2
<1>5. \A j \in Invocations : Accepted(turns'[j].surface) /\ Renders(turns'[j].surface)
  BY <1>4 DEF Holds, IInv, TypeOK
<1>6. /\ used' = [d \in Contexts |-> used'[d]]
      /\ \A d \in Contexts : used'[d] \subseteq used[d] \cup {s}
      /\ \A d \in Contexts : d # c => used'[d] = used[d]
      /\ used' # used => c \in Contexts /\ Cached(c) /\ s = cache[c].surface
                          /\ Renders(s) /\ used'[c] = used[c] \cup {s}
  BY DEF Uses, Use, IInv, TypeOK
<1>7. \A d \in Contexts : \A x \in used'[d] : Surface(x) /\ Renders(x)
  <2>1. used' # used => Surface(s) /\ Renders(s)
    BY <1>6 DEF Surface, IInv, TypeOK
  <2> QED  BY <1>6, <2>1 DEF IInv, TypeOK
<1>8. TypeOK'
  <2>1. \A d \in Contexts : \A x \in used'[d] : Surface(x)' /\ Renders(x)'
    BY <1>1, <1>7 DEF Surface
  <2> QED  BY <1>1, <1>2, <1>3, <1>4, <1>5, <1>6, <2>1 DEF IInv, TypeOK
<1>9. AllPlaced'
  BY <1>2, <1>4 DEF Goes, Holds, IInv, AllPlaced
<1>10. OneSource'
  <2>1. \A d \in Contexts :
          used'[d] # {} => Cached(d) /\ used'[d] = {cache[d].surface}
    BY <1>6 DEF IInv, OneSource
  <2>2. \A p \in Requests, d \in Contexts :
          req'[p].at \in {"starting", "running"} /\ req'[p].by = d
          => Cached(d) /\ req'[p].list = cache[d].surface
    BY <1>2 DEF Goes, IInv, OneSource
  <2>3. \A j \in Invocations, d \in Contexts :
          turns'[j].by = d => Cached(d) /\ turns'[j].surface = cache[d].surface
    BY <1>4 DEF Holds, IInv, OneSource
  <2> QED  BY <1>1, <2>1, <2>2, <2>3 DEF OneSource
<1> QED  BY <1>8, <1>9, <1>10 DEF IInv

\* Ending a request or a turn.
LEMMA EndGoes ==
    /\ \A r \in Requests : End(r) => Goes(r, Idle)
    /\ \A i \in Invocations : turns' = [turns EXCEPT ![i] = NoTurn] => Holds(i, NoTurn)
<1>1. RequestOK(Idle) /\ Placed(Idle.list) /\ Idle.at = "idle"
  BY EmptyPlaced DEF RequestOK, Idle
<1>2. \A r \in Requests : End(r) => Goes(r, Idle)
  BY <1>1 DEF Goes, End
<1>3. \A i \in Invocations : turns' = [turns EXCEPT ![i] = NoTurn] => Holds(i, NoTurn)
  BY EmptyPlaced, NamesAssumption DEF Holds, NoTurn
<1> QED  BY <1>2, <1>3
-----------------------------------------------------------------------------
(* The steps.                                                              *)

LEMMA BeginKeeps ==
    ASSUME IInv, NEW r \in Requests, NEW c \in Contexts, NEW kind \in {"catalog", "run"},
           Begin(r, c, kind)
    PROVE  IInv'
<1>1. CASE Cached(c)
  <2> DEFINE s == cache[c].surface
  <2>1. Placed(s) /\ Accepted(s)
    BY DEF IInv, TypeOK, AllPlaced
  <2>2. Got(r, c, kind, s) /\ UNCHANGED <<config, inv, cache, turns>>
    BY <1>1 DEF Begin
  <2>3. cache[c] = Entry(inv[c], s)
    BY <1>1 DEF Cached, Entry, IInv, TypeOK
  <2>4. cache' = [cache EXCEPT ![c] = Entry(inv[c], s)]
    BY <2>2, <2>3 DEF IInv, TypeOK
  <2> QED  BY <2>1, <2>2, <2>4, GotKeeps
<1>2. CASE ~Cached(c)
  <2> DEFINE q == [at |-> "resolving", ctx |-> c, kind |-> kind, list |-> <<>>, done |-> 0,
                   by |-> c]
  <2>1. req' = [req EXCEPT ![r] = q] /\ UNCHANGED <<config, inv, cache, turns, used>>
    BY <1>2 DEF Begin
  <2>2. Len(config.inputs) \in Nat /\ inv[c] \in Invocations
    BY NamesAssumption DEF IInv, TypeOK
  <2>3. RequestOK(q) /\ Placed(q.list) /\ q.at = "resolving"
    BY <2>2, EmptyPlaced DEF RequestOK
  <2>4. Goes(r, q) /\ Holds(c, None) /\ Uses(c, {})
    BY <2>1, <2>3 DEF Goes, Holds, Uses
  <2> QED  BY <2>1, <2>4, StepKeeps
<1> QED  BY <1>1, <1>2

LEMMA ReuseTurnKeeps ==
    ASSUME IInv, NEW r \in Requests, NEW c \in Contexts, ReuseTurn(r, c)
    PROVE  IInv'
<1> DEFINE i == inv[c]
           turn == turns[i]
           q == [at |-> "running", ctx |-> c, kind |-> "run", list |-> turn.surface,
                 done |-> 0, by |-> turn.by]
<1>1. req' = [req EXCEPT ![r] = q] /\ UNCHANGED <<config, inv, cache, turns>>
  BY DEF ReuseTurn
<1>2. i \in Invocations /\ turn.by \in Contexts \cup {Renewed}
  BY DEF IInv, TypeOK, ReuseTurn
<1>3. used' = used \/ (turn.by = c /\ Use(c, turn.surface))
  BY DEF ReuseTurn
<1>4. /\ Accepted(turn.surface) /\ Renders(turn.surface) /\ Placed(turn.surface)
      /\ turn.surface \in Seq(NamespacedTools)
      /\ \A d \in Contexts : turn.by = d => Cached(d) /\ turn.surface = cache[d].surface
  BY <1>2 DEF IInv, TypeOK, AllPlaced, OneSource
<1>5. RequestOK(q)
  BY <1>2, <1>4 DEF RequestOK, Surface
<1>6. Goes(r, q)
  BY <1>1, <1>4, <1>5 DEF Goes
<1>7. Uses(c, turn.surface) /\ Holds(i, turn)
  BY <1>1, <1>3, <1>4 DEF Uses, Holds
<1> QED  BY <1>1, <1>2, <1>6, <1>7, StepKeeps

LEMMA ResolveInputKeeps ==
    ASSUME IInv, NEW r \in Requests, ResolveInput(r)
    PROVE  IInv'
<1> DEFINE input == config.inputs[req[r].done + 1]
<1>1. /\ RequestOK(req[r]) /\ req[r].at = "resolving" /\ req[r] # Idle
      /\ req[r].done < Len(config.inputs)
  <2>1. RequestOK(req[r])
    BY DEF IInv, TypeOK
  <2> QED  BY <2>1 DEF ResolveInput, Idle
<1>2. /\ req[r].ctx \in Contexts /\ req[r].kind \in {"catalog", "run"}
      /\ req[r].done \in 0 .. Len(config.inputs)
      /\ req[r].list \in Seq(NamespacedTools) /\ req[r].by = req[r].ctx
  BY <1>1 DEF RequestOK
<1>3. config.inputs \in Seq(Inputs) /\ input \in Inputs
  BY <1>1, <1>2, NamesAssumption DEF IInv, TypeOK
<1>4. PICK tools \in input.answers :
        req' = [req EXCEPT ![r].done = @ + 1,
                           ![r].list = @ \o [i \in DOMAIN tools |->
                               [tool |-> tools[i], toolset |-> input.toolset,
                                space |-> input.space,
                                attr |-> Attribute[tools[i].raw]]]]
  BY DEF ResolveInput
<1> DEFINE more == [i \in DOMAIN tools |->
                      [tool |-> tools[i], toolset |-> input.toolset, space |-> input.space,
                       attr |-> Attribute[tools[i].raw]]]
           q == [req[r] EXCEPT !.done = @ + 1, !.list = @ \o more]
<1>5. tools \in Seq(Tools) /\ (input.toolset = Bare <=> input.space = Bare)
  BY <1>3 DEF Inputs
<1>6. /\ \A i \in DOMAIN tools : more[i] \in NamespacedTools
      /\ \A i \in DOMAIN tools : more[i].toolset = Bare <=> more[i].space = Bare
  BY <1>3, <1>5, NamesAssumption DEF Inputs, NamespacedTools
<1>7. more \in Seq(NamespacedTools) /\ Placed(more)
  BY <1>5, <1>6 DEF Placed
<1>8. Placed(req[r].list)
  BY DEF IInv, AllPlaced
<1>9. Placed(req[r].list \o more)
  <2> DEFINE a == req[r].list  both == a \o more
  <2>1. /\ a \in Seq(NamespacedTools) /\ more \in Seq(NamespacedTools)
        /\ both \in Seq(NamespacedTools)
    BY <1>7, <1>8 DEF Placed
  <2>2. \A i \in DOMAIN both :
          \/ i \in DOMAIN a /\ both[i] = a[i]
          \/ i - Len(a) \in DOMAIN more /\ both[i] = more[i - Len(a)]
    <3> HIDE DEF more
    <3> QED  BY <2>1
  <2>3. \A i \in DOMAIN both : both[i].toolset = Bare <=> both[i].space = Bare
    <3> SUFFICES ASSUME NEW i \in DOMAIN both
                 PROVE  both[i].toolset = Bare <=> both[i].space = Bare
      OBVIOUS
    <3>1. \A j \in DOMAIN a : a[j].toolset = Bare <=> a[j].space = Bare
      BY <1>8 DEF Placed
    <3>2. \A j \in DOMAIN more : more[j].toolset = Bare <=> more[j].space = Bare
      BY <1>7 DEF Placed
    <3> HIDE DEF more, a, both
    <3> QED  BY <2>2, <3>1, <3>2
  <2> QED  BY <2>1, <2>3 DEF Placed
<1>10. /\ q.at = "resolving" /\ q.ctx = req[r].ctx /\ q.kind = req[r].kind
       /\ q.by = req[r].by /\ q.done = req[r].done + 1 /\ q.list = req[r].list \o more
       /\ q.done \in 0 .. Len(config.inputs)
  BY <1>1, <1>2, <1>3 DEF RequestOK
<1>11. RequestOK(q)
  BY <1>2, <1>9, <1>10 DEF RequestOK, Placed
<1>12. req' = [req EXCEPT ![r] = q]
  BY <1>4
<1>13. Goes(r, q) /\ Holds(r, None) /\ Uses(r, {})
  BY <1>9, <1>10, <1>11, <1>12 DEF Goes, Holds, Uses, ResolveInput
<1> QED  BY <1>13, StepKeeps DEF ResolveInput

LEMMA CacheSurfaceKeeps ==
    ASSUME IInv, NEW r \in Requests, CacheSurface(r)
    PROVE  IInv'
<1> DEFINE c == req[r].ctx
           s == IF Cached(c) THEN cache[c].surface ELSE req[r].list
<1>1. c \in Contexts /\ req[r].kind \in {"catalog", "run"}
  BY DEF CacheSurface, Resolved, IInv, TypeOK, RequestOK, Idle
<1>2. Placed(s) /\ Accepted(s)
  BY <1>1 DEF CacheSurface, IInv, TypeOK, AllPlaced
<1>3. /\ Got(r, c, req[r].kind, s) /\ cache' = [cache EXCEPT ![c] = Entry(inv[c], s)]
      /\ UNCHANGED <<config, inv, turns>>
  BY DEF CacheSurface
<1> QED  BY <1>1, <1>2, <1>3, GotKeeps

LEMMA StartedKeeps ==
    ASSUME IInv, NEW r \in Requests, Started(r)
    PROVE  IInv'
<1> DEFINE c == req[r].ctx
           turn == [surface |-> req[r].list, by |-> req[r].by]
           q == [req[r] EXCEPT !.at = "running"]
<1>1. /\ c \in Contexts /\ req[r].kind = "run"
      /\ Surface(req[r].list) /\ Renders(req[r].list) /\ Placed(req[r].list)
      /\ req[r].by \in Contexts \cup {Renewed}
  <2>1. RequestOK(req[r]) /\ Placed(req[r].list)
    BY DEF IInv, TypeOK, AllPlaced
  <2> QED  BY <2>1 DEF Started, RequestOK, Idle
<1>2. \A d \in Contexts : req[r].by = d => Cached(d) /\ req[r].list = cache[d].surface
  BY DEF Started, IInv, OneSource
<1>3. /\ q.at = "running" /\ q.ctx = c /\ q.kind = "run" /\ q.list = req[r].list
      /\ q.by = req[r].by
  <2>1. RequestOK(req[r])
    BY DEF IInv, TypeOK
  <2> QED  BY <1>1, <2>1 DEF Started, RequestOK, Idle
<1>4. RequestOK(q)
  BY <1>1, <1>3 DEF RequestOK
<1>5. req' = [req EXCEPT ![r] = q]
  BY DEF Started
<1>6. Goes(r, q)
  BY <1>1, <1>2, <1>3, <1>4, <1>5 DEF Goes
<1>7. Holds(inv[c], turn)
  BY <1>1, <1>2 DEF Holds, Surface, Started, IInv, TypeOK
<1>8. Uses(c, req[r].list)
  BY <1>1, <1>2 DEF Uses, Started
<1> QED  BY <1>6, <1>7, <1>8, StepKeeps DEF Started

LEMMA ReconnectKeeps ==
    ASSUME IInv, NEW r \in Requests, Reconnect(r)
    PROVE  IInv'
<1> DEFINE q == [req[r] EXCEPT !.at = "starting"]
           i == inv[req[r].ctx]
<1>1. RequestOK(req[r]) /\ Placed(req[r].list) /\ req[r].at = "running"
  BY DEF Reconnect, IInv, TypeOK, AllPlaced
<1>2. /\ req[r].ctx \in Contexts /\ req[r].kind = "run"
      /\ Surface(req[r].list) /\ Renders(req[r].list)
      /\ req[r].by \in Contexts \cup {Renewed}
  BY <1>1 DEF RequestOK, Idle
<1>3. /\ q.at = "starting" /\ q.ctx = req[r].ctx /\ q.kind = "run"
      /\ q.list = req[r].list /\ q.by = req[r].by
  BY <1>1, <1>2 DEF RequestOK, Idle
<1>4. RequestOK(q)
  BY <1>2, <1>3 DEF RequestOK
<1>5. \A d \in Contexts : req[r].by = d => Cached(d) /\ req[r].list = cache[d].surface
  BY <1>1 DEF IInv, OneSource
<1>6. Goes(r, q)
  BY <1>1, <1>3, <1>4, <1>5 DEF Goes, Reconnect
<1>7. i \in Invocations
  BY <1>2 DEF IInv, TypeOK
<1>8. Holds(i, NoTurn)
  BY <1>7, EndGoes DEF Holds, Reconnect
<1>9. Uses(r, {})
  BY DEF Uses, Reconnect
<1> QED  BY <1>6, <1>8, <1>9, StepKeeps DEF Reconnect

LEMMA RenewKeeps ==
    ASSUME IInv, NEW c \in Contexts, NEW i \in Invocations, NEW collected \in BOOLEAN,
           Renew(c, i, collected)
    PROVE  IInv'
<1>1. /\ inv' \in [Contexts -> Invocations]
      /\ \A d \in Contexts \ {c} : inv'[d] = inv[d] /\ cache'[d] = cache[d]
      /\ cache'[c] \in {cache[c], Entry(None, <<>>)}
      /\ cache' \in [Contexts -> [inv : Invocations \cup {None},
                                 surface : Seq(NamespacedTools)]]
  BY EmptyPlaced DEF Renew, Entry, IInv, TypeOK
<1>2. \A x : (Renders(x)' <=> Renders(x)) /\ (RequestOK(x)' <=> RequestOK(x))
  BY DEF Renew, Renders, RequestOK, Distinct, Signature, Injected, Wrapped
<1>3. /\ req' = [r \in Requests |-> req'[r]]
      /\ \A r \in Requests :
           \/ req'[r] = req[r] /\ req[r].by # c
           \/ req'[r] = [req[r] EXCEPT !.by = Renewed] /\ req[r].by = c
  BY DEF Renew
<1>4. \A r \in Requests : RequestOK(req'[r]) /\ req'[r].list = req[r].list
                          /\ req'[r].at = req[r].at /\ req'[r].by # c
                          /\ (req'[r].by = req[r].by \/ req'[r].by = Renewed)
  <2> TAKE r \in Requests
  <2>1. RequestOK(req[r]) /\ req[r].ctx # c
    BY DEF Renew, IInv, TypeOK
  <2>2. CASE req[r].by # c
    BY <1>3, <2>1, <2>2
  <2>3. CASE req[r].by = c
    <3>1. req'[r] = [req[r] EXCEPT !.by = Renewed] /\ Renewed # c
      BY <1>3, <2>3, NamesAssumption
    <3>2. req[r] # Idle /\ req[r].at \in {"starting", "running"}
      BY <2>1, <2>3, NamesAssumption DEF RequestOK, Idle
    <3> QED  BY <2>1, <3>1, <3>2 DEF RequestOK, Idle
  <2> QED  BY <2>2, <2>3
<1>5. /\ turns' \in [Invocations ->
                    [surface : Seq(NamespacedTools), by : Contexts \cup {None, Renewed}]]
      /\ \A j \in Invocations :
           /\ turns'[j].surface = turns[j].surface
           /\ turns'[j].by # c
           /\ turns'[j].by = turns[j].by \/ turns'[j].by = Renewed
  <2>1. turns' = [j \in Invocations |->
                   IF turns[j].by = c THEN [turns[j] EXCEPT !.by = Renewed] ELSE turns[j]]
    BY DEF Renew
  <2>2. \A j \in Invocations :
          turns[j] \in [surface : Seq(NamespacedTools), by : Contexts \cup {None, Renewed}]
    BY DEF IInv, TypeOK
  <2>3. c # Renewed
    BY NamesAssumption
  <2>4. \A j \in Invocations :
          /\ turns'[j] \in [surface : Seq(NamespacedTools),
                            by : Contexts \cup {None, Renewed}]
          /\ turns'[j].surface = turns[j].surface
          /\ turns'[j].by # c
          /\ turns'[j].by = turns[j].by \/ turns'[j].by = Renewed
    <3> TAKE j \in Invocations
    <3>1. CASE turns[j].by = c
      BY <2>1, <2>2, <2>3, <3>1
    <3>2. CASE turns[j].by # c
      BY <2>1, <2>2, <3>2
    <3> QED  BY <3>1, <3>2
  <2> QED  BY <2>1, <2>4
<1>6. /\ used' = [d \in Contexts |-> used'[d]] /\ used'[c] = {}
      /\ \A d \in Contexts \ {c} : used'[d] = used[d]
  BY DEF Renew, IInv, TypeOK
<1>7. TypeOK'
  <2>1. \A d \in Contexts : Accepted(cache'[d].surface)
    <3>1. cache'[c].surface \in {cache[c].surface, <<>>}
      BY <1>1 DEF Entry
    <3> QED  BY <1>1, <3>1, EmptyPlaced DEF IInv, TypeOK
  <2>2. \A d \in Contexts : \A x \in used'[d] : Surface(x) /\ Renders(x)
    BY <1>6 DEF IInv, TypeOK
  <2>3. config' \in Configs
    BY DEF Renew, IInv, TypeOK
  <2>4. \A j \in Invocations : Accepted(turns'[j].surface) /\ Renders(turns'[j].surface)
    BY <1>5 DEF IInv, TypeOK
  <2> QED  BY <1>1, <1>2, <1>3, <1>4, <1>5, <1>6, <2>1, <2>2, <2>3, <2>4 DEF TypeOK, Surface
<1>8. AllPlaced'
  <2>1. cache'[c].surface \in {cache[c].surface, <<>>}
    BY <1>1 DEF Entry
  <2>2. \A d \in Contexts : Placed(cache'[d].surface)
    BY <1>1, <2>1, EmptyPlaced DEF IInv, AllPlaced
  <2>3. \A r \in Requests : Placed(req'[r].list)
    BY <1>4 DEF IInv, AllPlaced
  <2>4. \A j \in Invocations : Placed(turns'[j].surface)
    BY <1>5 DEF IInv, AllPlaced
  <2> QED  BY <2>2, <2>3, <2>4 DEF AllPlaced
<1>9. OneSource'
  <2>1. \A d \in Contexts \ {c} : Cached(d)' <=> Cached(d)
    BY <1>1 DEF Cached
  <2>2. \A d \in Contexts : d # Renewed
    BY NamesAssumption
  <2>3. \A d \in Contexts : used'[d] # {} => Cached(d)' /\ used'[d] = {cache'[d].surface}
    BY <1>1, <1>6, <2>1 DEF IInv, OneSource
  <2>4. \A r \in Requests, d \in Contexts :
          req'[r].at \in {"starting", "running"} /\ req'[r].by = d
          => Cached(d)' /\ req'[r].list = cache'[d].surface
    <3> SUFFICES ASSUME NEW r \in Requests, NEW d \in Contexts,
                        req'[r].at \in {"starting", "running"}, req'[r].by = d
                 PROVE  Cached(d)' /\ req'[r].list = cache'[d].surface
      OBVIOUS
    <3>1. d # c /\ req[r].by = d /\ req[r].at = req'[r].at /\ req[r].list = req'[r].list
      BY <1>4, <2>2
    <3>2. Cached(d) /\ req[r].list = cache[d].surface
      BY <3>1 DEF IInv, OneSource
    <3> QED  BY <1>1, <2>1, <3>1, <3>2
  <2>5. \A j \in Invocations, d \in Contexts :
          turns'[j].by = d => Cached(d)' /\ turns'[j].surface = cache'[d].surface
    <3> SUFFICES ASSUME NEW j \in Invocations, NEW d \in Contexts, turns'[j].by = d
                 PROVE  Cached(d)' /\ turns'[j].surface = cache'[d].surface
      OBVIOUS
    <3>1. d # c /\ turns[j].by = d /\ turns[j].surface = turns'[j].surface
      BY <1>5, <2>2
    <3>2. Cached(d) /\ turns[j].surface = cache[d].surface
      BY <3>1 DEF IInv, OneSource
    <3> QED  BY <1>1, <2>1, <3>1, <3>2
  <2> QED  BY <2>3, <2>4, <2>5 DEF OneSource
<1> QED  BY <1>7, <1>8, <1>9 DEF IInv
-----------------------------------------------------------------------------
(* The theorems.                                                           *)

LEMMA NextKeeps == IInv /\ [Next]_vars => IInv'
<1> SUFFICES ASSUME IInv, [Next]_vars PROVE IInv'
  OBVIOUS
<1>1. ASSUME NEW r \in Requests, NEW c \in Contexts, ReuseTurn(r, c) PROVE IInv'
  BY <1>1, ReuseTurnKeeps
<1>2. ASSUME NEW r \in Requests, NEW c \in Contexts, NEW kind \in {"catalog", "run"},
             Begin(r, c, kind)
      PROVE  IInv'
  BY <1>2, BeginKeeps
<1>3. ASSUME NEW r \in Requests,
             ResolveFails(r) \/ Reject(r) \/ StartFails(r) \/ BlockEnds(r)
      PROVE  IInv'
  <2>1. End(r) /\ UNCHANGED <<config, inv, cache, turns, used>>
    BY <1>3 DEF ResolveFails, Reject, StartFails, BlockEnds
  <2>2. Goes(r, Idle) /\ Holds(r, None) /\ Uses(r, {})
    BY <2>1, EndGoes DEF Holds, Uses
  <2> QED  BY <2>1, <2>2, StepKeeps
<1>4. ASSUME NEW r \in Requests, ResolveInput(r) PROVE IInv'
  BY <1>4, ResolveInputKeeps
<1>5. ASSUME NEW r \in Requests, CacheSurface(r) PROVE IInv'
  BY <1>5, CacheSurfaceKeeps
<1>6. ASSUME NEW r \in Requests, Started(r) PROVE IInv'
  BY <1>6, StartedKeeps
<1>7. ASSUME NEW r \in Requests, Reconnect(r) PROVE IInv'
  BY <1>7, ReconnectKeeps
<1>8. ASSUME NEW i \in Invocations, DropTurn(i) PROVE IInv'
  <2>1. Holds(i, NoTurn) /\ Goes(i, None) /\ Uses(i, {})
    BY <1>8, EndGoes DEF DropTurn, Goes, Uses
  <2> QED  BY <1>8, <2>1, StepKeeps DEF DropTurn
<1>9. ASSUME NEW c \in Contexts, NEW i \in Invocations, NEW b \in BOOLEAN, Renew(c, i, b)
      PROVE  IInv'
  BY <1>9, RenewKeeps
<1>10. CASE UNCHANGED vars
  BY <1>10 DEF vars, IInv, TypeOK, AllPlaced, OneSource, Cached, Surface, RequestOK, Renders,
              Distinct, Signature, Injected, Wrapped
<1> QED  BY <1>1, <1>2, <1>3, <1>4, <1>5, <1>6, <1>7, <1>8, <1>9, <1>10 DEF Next

LEMMA Invariance == Spec => []IInv
BY InitOK, NextKeeps, PTL DEF Spec

\* Every variable keeps its type; nothing that build or render_tool rejects is used.
THEOREM TypeCorrect == Spec => []TypeOK
BY Invariance, PTL DEF IInv

\* A context is never shown two surfaces, nor runs code against another than it was
\* shown, as long as the turn was started for it: of the two looks into the cache the
\* second makes overlapping requests agree.
THEOREM OneSurface == Spec => []OneSurfacePerContext
<1>1. IInv => OneSurfacePerContext
  <2> SUFFICES ASSUME IInv, NEW c \in Contexts PROVE Cardinality(used[c]) <= 1
    BY DEF OneSurfacePerContext
  <2>1. used[c] = {} \/ used[c] = {cache[c].surface}
    BY DEF IInv, OneSource
  <2>2. Cardinality({}) = 0 /\ Cardinality({cache[c].surface}) = 1
    BY FS_EmptySet, FS_Singleton
  <2> QED  BY <2>1, <2>2
<1> QED  BY <1>1, Invariance, PTL

\* Every function of a surface in use is reached by its path with its arguments, whatever
\* the names of tools and toolsets, but for what the property names.
THEOREM CallsArrive == Spec => []StubCallsArrive
<1>1. IInv => StubCallsArrive
  <2> SUFFICES ASSUME IInv, NEW c \in Contexts, NEW s \in used[c], NEW i \in DOMAIN s,
                      ~ \E t \in {s[j] : j \in DOMAIN s} :
                          t.tool.spoils /\ t.toolset \in {Bare, s[i].toolset},
                      ~ (Wrapped(s[i].tool) /\ s[i].tool.json
                          /\ s[i].tool.params \cap Extra # {})
               PROVE  Reaches(s, i)
    BY DEF StubCallsArrive
  <2>1. Placed(s) /\ Accepted(s) /\ Renders(s)
    <3>1. s = cache[c].surface
      BY DEF IInv, OneSource
    <3>2. Placed(s) /\ Accepted(s)
      BY <3>1 DEF IInv, TypeOK, AllPlaced
    <3>3. Renders(s)
      BY DEF IInv, TypeOK
    <3> QED  BY <3>2, <3>3
  <2> QED  BY <2>1, AcceptedReaches
<1> QED  BY <1>1, Invariance, PTL
=============================================================================
