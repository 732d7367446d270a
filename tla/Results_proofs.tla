---------------------------- MODULE Results_proofs ----------------------------
(***************************************************************************)
(* For any number of execute_code calls, tool calls, files and callbacks:  *)
(* what is merged is what the sandbox was told, the callbacks decide when  *)
(* a tool runs, and changed files are saved and reported.                  *)
(***************************************************************************)
EXTENDS Results, TLAPS

AgentHooks == {"before_agent", "error_agent", "after_agent"}

\* A call has its answer, and its writes are merged, only at the end, and its reply
\* follows from the answer.
Pending ==
    \A c \in Calls :
        /\ at[c] # "answered" => answer[c] = "none" /\ reply[c] = "none"
        /\ c \in merged <=> answer[c] = "ok"
        /\ reply[c] = "value" => answer[c] = "ok"
        /\ reply[c] = "error" => answer[c] # "ok"

Kept == TypeOK /\ Pending /\ EffectsMatchAnswers

Stands(c) == veto[c] \in {"plugin", "true", "empty"}

\* How far the hooks asked so far have brought a call.
OnTheWay ==
    \A c \in Calls :
        /\ Running(c) => "before" \in asked[c]
        /\ at[c] \in {"after", "after_agent"} =>
              "after" \in asked[c] /\ ("tool" \in asked[c] \/ Stands(c))
        /\ at[c] \in {"idle", "before"} => veto[c] = "none"
        /\ at[c] = "before_agent" => veto[c] \in {"none", "empty", "overruled"}
        /\ at[c] \in {"idle", "before", "before_agent"} => "tool" \notin asked[c]
        /\ at[c] \in {"tool", "error", "error_agent"} => "tool" \in asked[c]

Guarded == OnTheWay /\ CallbacksGuard

IInv == Kept /\ Guarded
-----------------------------------------------------------------------------
(* The ways an action moves a call, and that each keeps Kept.              *)

LEMMA EnterKeeps ==
    ASSUME Kept, NEW c \in Calls, NEW h \in Hooks, NEW v \in Values,
           at[c] # "answered", HasCallbacks \/ h \notin AgentHooks, Enter(c, h, v),
           veto' \in [Calls -> Vetoes]
    PROVE  Kept'
<1> USE DispatcherAssumption
<1>1. TypeOK'
  <2>1. nth' \in [Calls -> 0 .. NCallbacks]
    BY DEF Kept, TypeOK, Enter, AgentHooks, HasCallbacks
  <2>2. at' \in [Calls -> Hooks \cup {"idle", "answered"}] /\ response' \in [Calls -> Values]
    BY DEF Kept, TypeOK, Enter
  <2>3. asked' \in [Calls -> SUBSET Noted]
    BY DEF Kept, TypeOK, Enter, Noted
  <2> QED BY <2>1, <2>2, <2>3 DEF Kept, TypeOK, Enter
<1>2. Pending' /\ EffectsMatchAnswers'
  BY DEF Kept, TypeOK, Enter, Pending, EffectsMatchAnswers, Hooks
<1> QED BY <1>1, <1>2 DEF Kept

LEMMA NextKeeps ==
    ASSUME Kept, NEW c \in Calls, NextCallback(c), veto' \in [Calls -> Vetoes]
    PROVE  Kept'
<1> USE DispatcherAssumption
<1>1. TypeOK'
  <2>1. nth' \in [Calls -> 0 .. NCallbacks]
    BY DEF Kept, TypeOK, NextCallback
  <2> QED BY <2>1 DEF Kept, TypeOK, NextCallback
<1>2. Pending' /\ EffectsMatchAnswers'
  BY DEF Kept, NextCallback, Pending, EffectsMatchAnswers
<1> QED BY <1>1, <1>2 DEF Kept

LEMMA FailKeeps ==
    ASSUME Kept, NEW c \in Calls, NEW a \in {"error", "cancelled"},
           at[c] # "answered", Fail(c, a)
    PROVE  Kept'
<1> USE DispatcherAssumption
<1>1. TypeOK'
  BY DEF Kept, TypeOK, Fail, Answer, Values
<1>2. Pending' /\ EffectsMatchAnswers'
  BY DEF Kept, TypeOK, Fail, Answer, Pending, EffectsMatchAnswers
<1> QED BY <1>1, <1>2 DEF Kept

\* A reply, or the news that there will be none.
LEMMA ReplyKeeps ==
    ASSUME Kept, NEW c \in Calls, Reply(c) \/ ReplyFallback(c) \/ ReplyLost(c)
    PROVE  Kept'
<1>1. PICK r \in {"value", "error", "fallback", "lost"} :
          /\ EndWith(c, r) /\ (r = "value" => answer[c] = "ok")
          /\ (r = "error" => answer[c] # "ok")
  BY DEF Reply, ReplyFallback, ReplyLost
<1>2. TypeOK' BY <1>1 DEF EndWith, Kept, TypeOK
<1>3. Pending' BY <1>1 DEF EndWith, Replying, Kept, TypeOK, Pending
<1>4. EffectsMatchAnswers'
  BY <1>1 DEF EndWith, Replying, Kept, TypeOK, Pending, EffectsMatchAnswers
<1> QED BY <1>2, <1>3, <1>4 DEF Kept

LEMMA DropKeeps ==
    ASSUME Kept, NEW c \in Calls, Drop(c)
    PROVE  Kept'
<1> USE DEF Drop, Answer, Kept, TypeOK
<1>1. TypeOK' BY DispatcherAssumption DEF Values
<1>2. Pending' /\ EffectsMatchAnswers'
  BY DEF Pending, EffectsMatchAnswers, Running, Hooks
<1> QED BY <1>1, <1>2

LEMMA ConcludeKeeps ==
    ASSUME Kept, NEW c \in Calls, NEW v \in Values, at[c] # "answered", Conclude(c, v)
    PROVE  Kept'
<1> USE DispatcherAssumption
<1>1. CASE Fail(c, "error")
  BY <1>1, FailKeeps
<1>2. CASE Answer(c, "ok") /\ Merge(c) /\ UNCHANGED reply
  <2>1. TypeOK' BY <1>2 DEF Kept, TypeOK, Answer, Merge, Values
  <2>2. Pending' BY <1>2 DEF Kept, TypeOK, Answer, Merge, Pending
  <2>3. EffectsMatchAnswers'
    <3>1. \A d \in Calls : (/\ reply[d] = "value" => d \in merged
                            /\ reply[d] = "error" => d \notin merged)'
      BY <1>2 DEF Kept, TypeOK, Pending, Answer, Merge, EffectsMatchAnswers
    <3>2. ASSUME NEW f \in Files, delta'[f] # 0
          PROVE  \E d \in merged' : saved'[d][f] = delta'[f]
      <4>1. CASE saved[c][f] # 0
        BY <1>2, <4>1 DEF Answer, Merge
      <4>2. CASE saved[c][f] = 0
        <5>1. delta'[f] = delta[f] BY <1>2, <4>2 DEF Merge
        <5> QED BY <1>2, <3>2, <5>1 DEF Kept, Answer, Merge, EffectsMatchAnswers
      <4> QED BY <4>1, <4>2
    <3>3. ASSUME NEW f \in Files, NEW d \in merged', saved'[d][f] # 0
          PROVE  delta'[f] # 0
      BY <1>2, <3>3 DEF Kept, Answer, Merge, EffectsMatchAnswers
    <3> QED BY <3>1, <3>2, <3>3 DEF EffectsMatchAnswers
  <2> QED BY <2>1, <2>2, <2>3 DEF Kept
<1> QED BY <1>1, <1>2 DEF Conclude

LEMMA SaveKeeps ==
    ASSUME Kept, NEW c \in Calls, NEW f \in Files, Save(c, f)
    PROVE  Kept'
<1> USE DispatcherAssumption
<1>1. TypeOK'
  <2>1. newest' \in [Files -> 0 .. MaxVersion]
    BY DEF Kept, TypeOK, Save
  <2>2. saved' \in [Calls -> [Files -> 0 .. MaxVersion]]
    BY DEF Kept, TypeOK, Save
  <2> QED BY <2>1, <2>2 DEF Kept, TypeOK, Save
<1>2. Pending' BY DEF Kept, Save, Pending
<1>3. c \notin merged
  BY DEF Kept, Save, Pending, EffectsMatchAnswers
<1>4. \A d \in merged : saved'[d] = saved[d]
  BY <1>3 DEF Kept, TypeOK, Save
<1>5. EffectsMatchAnswers'
  BY <1>4 DEF Kept, TypeOK, Save, EffectsMatchAnswers
<1> QED BY <1>1, <1>2, <1>5 DEF Kept
-----------------------------------------------------------------------------
(* Every action is one of those ways, and keeps Guarded.                   *)

\* A before callback sends c on: to "after" exactly if its answer stands.
LEMMA HookKeeps ==
    ASSUME OnTheWay, CallbacksGuard, NEW c \in Calls,
           NEW h \in {"after", "before_agent", "tool"},
           \A d \in Calls \ {c} : UNCHANGED <<at[d], answer[d], asked[d], veto[d]>>,
           at'[c] = h, answer'[c] = "none",
           "before" \in asked'[c], "tool" \in asked'[c] <=> h = "tool",
           h = "after" => "after" \in asked'[c],
           veto'[c] \in {"plugin", "true", "empty"} <=> h = "after",
           h = "before_agent" => veto'[c] = "none"
    PROVE  Guarded'
<1>1. OnTheWay'
  <2> SUFFICES ASSUME NEW d \in Calls
               PROVE  (/\ Running(d) => "before" \in asked[d]
                       /\ at[d] \in {"after", "after_agent"}
                            => "after" \in asked[d] /\ ("tool" \in asked[d] \/ Stands(d))
                       /\ at[d] \in {"idle", "before"} => veto[d] = "none"
                       /\ at[d] = "before_agent" => veto[d] \in {"none", "empty", "overruled"}
                       /\ at[d] \in {"idle", "before", "before_agent"} => "tool" \notin asked[d]
                       /\ at[d] \in {"tool", "error", "error_agent"} => "tool" \in asked[d])'
    BY DEF OnTheWay
  <2>1. CASE d = c
    BY <2>1 DEF Running, Stands, Hooks
  <2>2. CASE d # c
    BY <2>2 DEF OnTheWay, Running, Stands
  <2> QED BY <2>1, <2>2
<1>2. CallbacksGuard'
  <2> SUFFICES ASSUME NEW d \in Calls
               PROVE  (/\ answer[d] = "ok" => {"before", "after"} \subseteq asked[d]
                       /\ "tool" \in asked[d] => ~Stands(d)
                       /\ answer[d] = "ok" /\ ~Stands(d) => "tool" \in asked[d])'
    BY DEF CallbacksGuard, Stands
  <2>1. CASE d = c
    BY <2>1 DEF Stands
  <2>2. CASE d # c
    BY <2>2 DEF CallbacksGuard, Stands
  <2> QED BY <2>1, <2>2
<1> QED BY <1>1, <1>2 DEF Guarded

LEMMA StepKeeps ==
    ASSUME IInv, NEW c \in Calls, Step(c)
    PROVE  IInv'
<1> USE DispatcherAssumption
<1>0. Kept /\ OnTheWay /\ CallbacksGuard
  BY DEF IInv, Guarded
<1>1. CASE Dispatch(c)
  <2>1. CASE Enter(c, "before", "None") /\ UNCHANGED veto
    <3>1. Kept'
      BY <1>0, <1>1, <2>1, EnterKeeps
      DEF Dispatch, Hooks, AgentHooks, Values, Kept, TypeOK
    <3>2. Guarded' BY <1>0, <1>1, <2>1 DEF Dispatch, Enter, Kept, TypeOK, Pending,
             Guarded, OnTheWay, CallbacksGuard, Stands, Running, Hooks, Noted
    <3> QED BY <3>1, <3>2 DEF IInv
  <2>2. CASE Fail(c, "error")
    <3>1. Kept' BY <1>0, <1>1, <2>2, FailKeeps DEF Dispatch
    <3>2. Guarded' BY <1>0, <1>1, <2>2 DEF Dispatch, Fail, Answer, Kept, TypeOK,
             Guarded, OnTheWay, CallbacksGuard, Stands, Running, Hooks
    <3> QED BY <3>1, <3>2 DEF IInv
  <2> QED BY <1>1, <2>1, <2>2 DEF Dispatch
<1>2. ASSUME Running(c), NEW a \in {"error", "cancelled"}, Fail(c, a)
      PROVE  IInv'
  <2>1. Kept' BY <1>0, <1>2, FailKeeps DEF Running, Hooks
  <2>2. Guarded' BY <1>0, <1>2 DEF Fail, Answer, Kept, TypeOK,
           Guarded, OnTheWay, CallbacksGuard, Stands, Running, Hooks
  <2> QED BY <2>1, <2>2 DEF IInv
<1>3. ASSUME at[c] \in {"after", "after_agent"},
             NEW v \in Values, Conclude(c, v)
      PROVE  IInv'
  <2>1. Kept' BY <1>0, <1>3, ConcludeKeeps
  <2>2. /\ at' = [at EXCEPT ![c] = "answered"]
        /\ \E a \in {"ok", "error"} : answer' = [answer EXCEPT ![c] = a]
        /\ asked' = asked /\ veto' = veto
    BY <1>3 DEF Conclude, Fail, Answer
  <2>3. Guarded' BY <1>0, <1>3, <2>2 DEF Kept, TypeOK,
           Guarded, OnTheWay, CallbacksGuard, Stands, Running, Hooks
  <2> QED BY <2>1, <2>3 DEF IInv
<1>4. ASSUME at[c] \in {"tool", "error", "error_agent", "after"}, UNCHANGED veto,
             NEW h \in {"error", "error_agent", "after", "after_agent"},
             NEW v \in Values, HasCallbacks \/ h \notin AgentHooks,
             h = "after_agent" => at[c] = "after",
             h \in {"error", "error_agent"} => at[c] # "after", Enter(c, h, v)
      PROVE  IInv'
  <2>1. veto' \in [Calls -> Vetoes]
    BY <1>0, <1>4 DEF Kept, TypeOK
  <2>2. Kept' BY <1>0, <1>4, <2>1, EnterKeeps DEF Hooks
  <2>3. Guarded' BY <1>0, <1>4 DEF Enter, Kept, TypeOK, Pending,
           Guarded, OnTheWay, CallbacksGuard, Stands, Running, Hooks, Noted
  <2> QED BY <2>2, <2>3 DEF IInv
<1>5. ASSUME at[c] \in {"error_agent", "after_agent"}, UNCHANGED veto, NextCallback(c)
      PROVE  IInv'
  <2>1. veto' \in [Calls -> Vetoes]
    BY <1>0, <1>5 DEF Kept, TypeOK
  <2>2. Kept' BY <1>0, <1>5, <2>1, NextKeeps
  <2>3. Guarded' BY <1>0, <1>5 DEF NextCallback,
           Guarded, OnTheWay, CallbacksGuard, Stands, Running
  <2> QED BY <2>2, <2>3 DEF IInv
<1>6. ASSUME NEW f \in Files, Save(c, f)
      PROVE  IInv'
  <2>1. Kept' BY <1>0, <1>6, SaveKeeps
  <2>2. Guarded' BY <1>0, <1>6 DEF Save, Guarded, OnTheWay, CallbacksGuard, Stands, Running
  <2> QED BY <2>1, <2>2 DEF IInv
<1>7. ASSUME NEW v \in Values, BeforePlugin(c, v)
      PROVE  IInv'
  <2>1. veto' \in [Calls -> Vetoes]
    BY <1>0, <1>7 DEF BeforePlugin, Kept, TypeOK, Vetoes
  <2>2. PICK h \in {"after", "before_agent", "tool"} :
           /\ Enter(c, h, v) /\ (v # "None" <=> h = "after")
           /\ (h = "before_agent" => HasCallbacks)
    BY <1>7 DEF BeforePlugin
  <2>3. Kept' BY <1>0, <1>7, <2>1, <2>2, EnterKeeps DEF BeforePlugin, Hooks, AgentHooks
  <2>4. Guarded'
    <3>1. /\ at' = [at EXCEPT ![c] = h] /\ answer' = answer
          /\ asked' = [asked EXCEPT ![c] = @ \cup ({h} \cap Noted)]
          /\ veto' = [veto EXCEPT ![c] = IF v = "None" THEN @ ELSE "plugin"]
          /\ at[c] = "before" /\ answer[c] = "none"
          /\ veto[c] = "none" /\ "tool" \notin asked[c] /\ "before" \in asked[c]
      BY <1>0, <1>7, <2>2 DEF BeforePlugin, Enter, Kept, Pending, OnTheWay, Running, Hooks
    <3>3. \A d \in Calls \ {c} : UNCHANGED <<at[d], answer[d], asked[d], veto[d]>>
      BY <1>0, <3>1 DEF Kept, TypeOK
    <3>4. /\ at'[c] = h /\ answer'[c] = "none"
          /\ asked'[c] = asked[c] \cup ({h} \cap Noted)
          /\ veto'[c] = IF v = "None" THEN "none" ELSE "plugin"
      BY <1>0, <3>1 DEF Kept, TypeOK
    <3>5. /\ "before" \in asked'[c]
          /\ "tool" \in asked'[c] <=> h = "tool"
          /\ h = "after" => "after" \in asked'[c]
      BY <3>1, <3>4 DEF Noted
    <3>6. /\ veto'[c] \in {"plugin", "true", "empty"} <=> h = "after"
          /\ h = "before_agent" => veto'[c] = "none"
      BY <2>2, <3>4
    <3> QED BY <1>0, <3>3, <3>4, <3>5, <3>6, HookKeeps
  <2> QED BY <2>3, <2>4 DEF IInv
<1>8. ASSUME NEW v \in Values, BeforeAgent(c, v)
      PROVE  IInv'
  <2>1. veto' \in [Calls -> Vetoes]
    BY <1>0, <1>8 DEF BeforeAgent, NoteAgent, Kept, TypeOK, Vetoes, Values
  <2>2. CASE v # "value" /\ NextCallback(c)
    <3>1. Kept' BY <1>0, <2>1, <2>2, NextKeeps
    <3>2. Guarded' BY <1>0, <1>8, <2>2 DEF BeforeAgent, NoteAgent, NextCallback,
             Kept, TypeOK, Guarded, OnTheWay, CallbacksGuard, Stands, Running, Values, Pending
    <3> QED BY <3>1, <3>2 DEF IInv
  <2>3. CASE Enter(c, IF v = "None" THEN "tool" ELSE "after", v)
    <3>1. PICK h \in {"after", "tool"} : Enter(c, h, v) /\ (v = "None" <=> h = "tool")
      BY <2>3
    <3>2. Kept' BY <1>0, <1>8, <2>1, <3>1, EnterKeeps DEF BeforeAgent, Hooks, AgentHooks
    <3>3. Guarded'
      <4>1. /\ at' = [at EXCEPT ![c] = h] /\ answer' = answer
            /\ asked' = [asked EXCEPT ![c] = @ \cup ({h} \cap Noted)]
            /\ veto' = [veto EXCEPT ![c] = CASE v = "value" -> "true"
                                            [] v = "empty" -> "empty"
                                            [] v = "None"  -> IF @ = "empty" THEN "overruled" ELSE @]
            /\ at[c] = "before_agent" /\ answer[c] = "none"
            /\ veto[c] \in {"none", "empty", "overruled"}
            /\ "tool" \notin asked[c] /\ "before" \in asked[c]
        BY <1>0, <1>8, <3>1 DEF BeforeAgent, NoteAgent, Enter, Kept, Pending, OnTheWay,
           Running, Hooks
      <4>2. \A d \in Calls \ {c} : UNCHANGED <<at[d], answer[d], asked[d], veto[d]>>
        BY <1>0, <4>1 DEF Kept, TypeOK
      <4>3. /\ at'[c] = h /\ answer'[c] = "none"
            /\ asked'[c] = asked[c] \cup ({h} \cap Noted)
            /\ v = "None" => veto'[c] \in {"none", "overruled"}
            /\ v # "None" => veto'[c] \in {"true", "empty"}
        BY <1>0, <4>1 DEF Kept, TypeOK, Values
      <4>4. /\ "before" \in asked'[c]
            /\ "tool" \in asked'[c] <=> h = "tool"
            /\ h = "after" => "after" \in asked'[c]
        BY <3>1, <4>1, <4>3 DEF Noted
      <4>5. /\ veto'[c] \in {"plugin", "true", "empty"} <=> h = "after"
            /\ h = "before_agent" => veto'[c] = "none"
        BY <3>1, <4>3
      <4> QED BY <1>0, <4>2, <4>3, <4>4, <4>5, HookKeeps
    <3> QED BY <3>2, <3>3 DEF IInv
  <2> QED BY <1>8, <2>2, <2>3 DEF BeforeAgent
<1>9. response[c] \in Values
  BY <1>0 DEF Kept, TypeOK
<1>10. CASE ToolRaises(c)
  BY <1>4, <1>9, <1>10 DEF ToolRaises, Hooks, AgentHooks
<1>11. ASSUME NEW v \in Values, ToolReturns(c, v)
       PROVE  IInv'
  BY <1>4, <1>11 DEF ToolReturns, Hooks, AgentHooks
<1>12. CASE HookRaises(c) \/ TimeOut(c) \/ Stop(c)
  BY <1>2, <1>12 DEF HookRaises, TimeOut, Stop
<1>17. CASE Reply(c) \/ ReplyFallback(c) \/ ReplyLost(c)
  <2>1. Kept' BY <1>0, <1>17, ReplyKeeps
  <2>2. UNCHANGED <<at, answer, asked, veto>>
    BY <1>17 DEF Reply, ReplyFallback, ReplyLost, EndWith
  <2>3. Guarded' BY <1>0, <2>2 DEF Guarded, OnTheWay, CallbacksGuard, Stands, Running
  <2> QED BY <2>1, <2>3 DEF IInv
<1>18. CASE Drop(c)
  <2>1. Kept' BY <1>0, <1>18, DropKeeps
  <2>2. Guarded' BY <1>0, <1>18 DEF Drop, Answer, Kept, TypeOK,
           Guarded, OnTheWay, CallbacksGuard, Stands, Running, Hooks
  <2> QED BY <2>1, <2>2 DEF IInv
<1>13. ASSUME NEW v \in Values, ErrorPlugin(c, v)
       PROVE  IInv'
  <2>1. CASE Enter(c, "after", v) /\ UNCHANGED veto
    BY <1>4, <1>13, <2>1 DEF ErrorPlugin, Hooks, AgentHooks
  <2>2. CASE HasCallbacks /\ Enter(c, "error_agent", response[c]) /\ UNCHANGED veto
    BY <1>4, <1>9, <1>13, <2>2 DEF ErrorPlugin, Hooks, AgentHooks
  <2>3. CASE Fail(c, "error")
    BY <1>2, <1>13, <2>3 DEF ErrorPlugin, Running, Hooks
  <2> QED BY <1>13, <2>1, <2>2, <2>3 DEF ErrorPlugin
<1>14. ASSUME NEW v \in Values, ErrorAgent(c, v)
       PROVE  IInv'
  <2>1. CASE Enter(c, "after", v) /\ UNCHANGED veto
    BY <1>4, <1>14, <2>1 DEF ErrorAgent, Hooks, AgentHooks
  <2>2. CASE NextCallback(c) /\ UNCHANGED veto
    BY <1>5, <1>14, <2>2 DEF ErrorAgent
  <2>3. CASE Fail(c, "error")
    BY <1>2, <1>14, <2>3 DEF ErrorAgent, Running, Hooks
  <2> QED BY <1>14, <2>1, <2>2, <2>3 DEF ErrorAgent
<1>15. ASSUME NEW v \in Values, AfterPlugin(c, v)
       PROVE  IInv'
  <2>1. CASE HasCallbacks /\ Enter(c, "after_agent", response[c]) /\ UNCHANGED veto
    BY <1>4, <1>9, <1>15, <2>1 DEF AfterPlugin, Hooks, AgentHooks
  <2>2. ASSUME NEW w \in Values, Conclude(c, w)
        PROVE  IInv'
    BY <1>3, <1>15, <2>2 DEF AfterPlugin
  <2> QED BY <1>9, <1>15, <2>1, <2>2 DEF AfterPlugin
<1>16. ASSUME NEW v \in Values, AfterAgent(c, v)
       PROVE  IInv'
  <2>1. CASE NextCallback(c) /\ UNCHANGED veto
    BY <1>5, <1>16, <2>1 DEF AfterAgent
  <2>2. ASSUME NEW w \in Values, Conclude(c, w)
        PROVE  IInv'
    BY <1>3, <1>16, <2>2 DEF AfterAgent
  <2> QED BY <1>9, <1>16, <2>1, <2>2 DEF AfterAgent
<1> QED
  BY <1>1, <1>6, <1>7, <1>8, <1>10, <1>11, <1>12, <1>13, <1>14, <1>15, <1>16, <1>17, <1>18
  DEF Step

LEMMA InitOK == Init => IInv
<1> USE DispatcherAssumption
<1> SUFFICES ASSUME Init PROVE IInv
  OBVIOUS
<1>1. Kept BY DEF Init, Kept, TypeOK, Pending, EffectsMatchAnswers, Values, Vetoes, Hooks
<1>2. Guarded BY DEF Init, Guarded, OnTheWay, CallbacksGuard, Stands, Running, Hooks
<1> QED BY <1>1, <1>2 DEF IInv

\* What is said of a block's calls does not depend on versions saved by others.
LEMMA OthersKeep ==
    ASSUME IInv, newest' \in [Files -> 0 .. MaxVersion],
           UNCHANGED <<at, nth, response, answer, reply, saved, delta, merged, asked, veto>>
    PROVE  IInv'
BY DEF IInv, Kept, TypeOK, Pending, EffectsMatchAnswers,
   Guarded, OnTheWay, CallbacksGuard, Stands, Running

\* The calls of one block.
THEOREM BlockCorrect == Spec => [](TypeOK /\ EffectsMatchAnswers /\ CallbacksGuard)
<1>1. IInv /\ [Next]_vars => IInv'
  <2> SUFFICES ASSUME IInv, [Next]_vars PROVE IInv'
    OBVIOUS
  <2>1. CASE \E c \in Calls : Step(c)
    BY <2>1, StepKeeps
  <2>2. CASE UNCHANGED vars
    BY <2>2, OthersKeep DEF vars, IInv, Kept, TypeOK
  <2> QED BY <2>1, <2>2 DEF Next, Done
<1>2. IInv => TypeOK /\ EffectsMatchAnswers /\ CallbacksGuard
  BY DEF IInv, Kept, Guarded
<1> QED BY <1>1, <1>2, InitOK, PTL DEF Spec
-----------------------------------------------------------------------------
(* The invariant of a session.                                             *)

OwnTypes ==
    /\ phase \in {"closed", "idle", "running"} \cup Collecting \cup Finishing
    /\ block \in 0 .. NBlocks /\ released \in BOOLEAN
    /\ outcome \in {"none", "result", "gone", "cancelled", "unread", "raised"}
    /\ disk \in [Files -> Contents \cup {Absent}]
    /\ baseline \in [Files -> Contents \cup {Absent}]
    /\ current \in [Files -> Contents \cup {Absent}]
    /\ todo \in [Files -> Contents \cup {Absent}]
    /\ left \subseteq Files
    /\ hook \in [Files -> 0 .. MaxVersion]
    /\ kept \in [Files -> Contents \cup {Absent, "tool"}]
    /\ touched \subseteq Files /\ fresh \subseteq Files /\ excused \subseteq Files

\* A call has no outcome before its end, and no news before they are fired.
HookInPhase ==
    /\ phase \notin {"closed", "idle"} => outcome = "none"
    /\ phase \in {"running", "firing"} \cup Collecting => hook = NoDelta
    /\ HookSeesDelta

\* f was found changed; its content has been read, or is about to be.
Found(f) == todo[f] # Absent \/ Unread(f)

\* The files are gone through one by one.
OneByOne ==
    /\ phase \in Collecting => \A f \in left : current[f] = Absent /\ todo[f] = Absent
    /\ \A f, g \in Files : Unread(f) /\ Unread(g) => f = g

\* What the baseline holds the session holds, or is excused from holding, or will.
Accounted ==
    \A f \in Files :
        /\ \/ baseline[f] \in {Absent, kept[f]} \/ f \in excused
           \/ phase \in Finishing /\ todo[f] # Absent
        /\ phase \in Collecting =>
              /\ current[f] \in {Absent, baseline[f]} \/ Found(f)
              /\ todo[f] \in {Absent, current[f]} \/ f \in excused
        /\ phase \in Finishing =>
              baseline[f] = current[f] /\ (todo[f] \in {Absent, current[f]} \/ f \in excused)
        /\ phase \notin Collecting \cup Finishing => todo[f] = Absent

\* A file that nobody has written is as the baseline has it; one not written since it
\* was hashed, as it was hashed.
Traced ==
    \A f \in Files :
        /\ f \notin touched => disk[f] = baseline[f]
        /\ phase \in Collecting /\ f \notin left /\ f \notin fresh => disk[f] = current[f]
        /\ phase \in Collecting /\ Found(f) => f \in touched

SInv == IInv /\ OwnTypes /\ HookInPhase /\ OneByOne /\ Accounted /\ Traced

LEMMA Initially == ResultsInit => SInv
<1> USE ResultsAssumption, DispatcherAssumption
<1> SUFFICES ASSUME ResultsInit PROVE SInv
  OBVIOUS
<1>1. IInv BY InitOK DEF ResultsInit
<1>2. OwnTypes
  <2>1. released \in BOOLEAN BY Zenon DEF ResultsInit
  <2> QED BY <2>1 DEF ResultsInit, OwnTypes, Nothing, NoDelta
<1>3. HookInPhase
  BY DEF ResultsInit, Init, HookInPhase, HookSeesDelta, NoDelta, Collecting
<1>4. OneByOne BY DEF ResultsInit, OneByOne, Collecting, Unread
<1>5. Accounted /\ Traced
  BY DEF ResultsInit, Accounted, Traced, Nothing, Collecting, Finishing
<1> QED BY <1>1, <1>2, <1>3, <1>4, <1>5 DEF SInv

\* Of the actions, three touch what a Dispatcher keeps.
LEMMA DispatcherKept ==
    ASSUME SInv, ResultsNext
    PROVE  IInv'
<1> USE DispatcherAssumption
<1>0. IInv /\ OwnTypes BY DEF SInv
<1>1. CASE BeginCall
  <2> USE <1>1 DEF BeginCall, FreshDispatcher
  <2>1. Kept'
    BY <1>0 DEF IInv, Kept, TypeOK, Pending, EffectsMatchAnswers, Values, Vetoes, Hooks, NoDelta
  <2>2. Guarded' BY DEF Guarded, OnTheWay, CallbacksGuard, Stands, Running, Hooks
  <2> QED BY <2>1, <2>2 DEF IInv
<1>2. ASSUME NEW c \in Calls, ToolStep(c) PROVE IInv'
  BY <1>0, <1>2, StepKeeps DEF ToolStep
<1>3. ASSUME NEW f \in Files, SaveOutput(f) PROVE IInv'
  <2>1. newest' \in [Files -> 0 .. MaxVersion]
    BY <1>0, <1>3 DEF SaveOutput, IInv, Kept, TypeOK
  <2> QED BY <1>0, <1>3, <2>1, OthersKeep DEF SaveOutput
<1>4. CASE UNCHANGED vars
  BY <1>0, <1>4, OthersKeep DEF vars, IInv, Kept, TypeOK
<1> QED
  BY <1>1, <1>2, <1>3, <1>4 DEF ResultsNext, BlockGone, Reconnect, DropTurn, DropUnderCall, NoWorkspace,
     CancelCall, BlockReturns, Advance, FireArtifactsSaved, Truncate, SaveFails, Return, AllOver, allVars, Look, Read, ReadFails, Write

LEMMA TypesKept ==
    ASSUME SInv, ResultsNext
    PROVE  OwnTypes'
<1> USE ResultsAssumption, DispatcherAssumption DEF OwnTypes, Collecting, Finishing
<1>0. OwnTypes /\ TypeOK BY DEF SInv, IInv, Kept
<1>1. CASE BeginCall
  <2>1. released' \in BOOLEAN BY <1>1, Zenon DEF BeginCall
  <2> QED BY <1>0, <1>1, <2>1 DEF BeginCall, NoDelta, ghosts
<1>2. ASSUME NEW c \in Calls, ToolStep(c) PROVE OwnTypes'
  BY <1>0, <1>2 DEF ToolStep, work
<1>3. ASSUME NEW f \in Files, NEW v \in Contents \cup {Absent}, Write(f, v) PROVE OwnTypes'
  BY <1>0, <1>3 DEF Write
<1>4. CASE BlockGone \/ Reconnect \/ DropTurn \/ DropUnderCall
  BY <1>0, <1>4 DEF BlockGone, Reconnect, DropTurn, DropUnderCall, NoWorkspace, Nothing
<1>5. ASSUME NEW o \in {"cancelled", "unread", "raised", "result"}, EndCall(o), kept' = kept
      PROVE  OwnTypes'
  BY <1>0, <1>5 DEF EndCall, Nothing
<1>6. CASE BlockReturns
  BY <1>0, <1>6 DEF BlockReturns, Nothing, ghosts
<1>7. ASSUME NEW f \in Files, Look(f) PROVE OwnTypes'
  BY <1>0, <1>7 DEF Look
<1>8. ASSUME NEW f \in Files, Read(f) PROVE OwnTypes'
  BY <1>0, <1>8 DEF Read
<1>9. CASE Advance
  BY <1>0, <1>9 DEF Advance
<1>10. CASE FireArtifactsSaved
  BY <1>0, <1>10 DEF FireArtifactsSaved, TypeOK, ghosts
<1>11. ASSUME NEW f \in Files, SaveOutput(f) PROVE OwnTypes'
  BY <1>0, <1>11 DEF SaveOutput
<1>12. CASE Truncate \/ CancelCall \/ SaveFails \/ Return
  BY <1>0, <1>5, <1>12 DEF Truncate, CancelCall, SaveFails, Return, ghosts
<1>13. ASSUME NEW f \in Files, ReadFails(f) PROVE OwnTypes'
  BY <1>5, <1>13 DEF ReadFails
<1>14. CASE AllOver
  BY <1>0, <1>14 DEF AllOver, allVars, work, ghosts
<1> QED
  BY <1>1, <1>2, <1>3, <1>4, <1>6, <1>7, <1>8, <1>9, <1>10, <1>11, <1>12, <1>13, <1>14
  DEF ResultsNext

LEMMA HookKept ==
    ASSUME SInv, ResultsNext
    PROVE  HookInPhase'
<1> USE DEF HookInPhase, HookSeesDelta, Collecting, Finishing
<1>0. HookInPhase BY DEF SInv
<1>1. CASE BeginCall
  BY <1>0, <1>1 DEF BeginCall, FreshDispatcher
<1>2. ASSUME NEW c \in Calls, ToolStep(c) PROVE HookInPhase'
  BY <1>0, <1>2 DEF ToolStep, work
<1>3. CASE BlockGone \/ Reconnect \/ DropTurn \/ DropUnderCall \/ BlockReturns
  BY <1>0, <1>3 DEF BlockGone, Reconnect, DropTurn, DropUnderCall, NoWorkspace, BlockReturns, Settled, vars
<1>4. ASSUME NEW f \in Files, Look(f) \/ Read(f) PROVE HookInPhase'
  BY <1>0, <1>4 DEF Look, Read, Unread, vars
<1>5. CASE Advance \/ FireArtifactsSaved
  BY <1>0, <1>5 DEF Advance, FireArtifactsSaved, vars
<1>6. ASSUME NEW o \in {"cancelled", "unread"}, EndCall(o), UNCHANGED delta
      PROVE  HookInPhase'
  BY <1>0, <1>6 DEF EndCall
<1>7. CASE CancelCall
  BY <1>6, <1>7 DEF CancelCall, vars
<1>8. ASSUME NEW f \in Files, ReadFails(f) PROVE HookInPhase'
  BY <1>6, <1>8 DEF ReadFails, vars
<1>9. CASE Truncate \/ SaveFails \/ Return
  BY <1>0, <1>9 DEF Truncate, SaveFails, Return, EndCall, vars
<1>10. ASSUME NEW f \in Files, SaveOutput(f) PROVE HookInPhase'
  BY <1>0, <1>10 DEF SaveOutput
<1>11. ASSUME NEW f \in Files, NEW v \in Contents \cup {Absent}, Write(f, v)
       PROVE  HookInPhase'
  BY <1>0, <1>11 DEF Write, vars
<1>12. CASE AllOver
  BY <1>0, <1>12 DEF AllOver, allVars, work, vars
<1> QED
  BY <1>1, <1>2, <1>3, <1>4, <1>5, <1>7, <1>8, <1>9, <1>10, <1>11, <1>12 DEF ResultsNext

LEMMA AccountKept ==
    ASSUME SInv, ResultsNext
    PROVE  OneByOne' /\ Accounted'
<1> USE DEF OneByOne, Accounted, Found, Unread, Collecting, Finishing
<1>0. OneByOne /\ Accounted /\ OwnTypes /\ TypeOK BY DEF SInv, IInv, Kept
<1>1. CASE BeginCall
  BY <1>0, <1>1 DEF BeginCall, ghosts
<1>2. ASSUME NEW c \in Calls, ToolStep(c) PROVE OneByOne' /\ Accounted'
  BY <1>0, <1>2 DEF ToolStep, work
<1>3. ASSUME NEW f \in Files, NEW v \in Contents \cup {Absent}, Write(f, v)
      PROVE  OneByOne' /\ Accounted'
  BY <1>0, <1>3 DEF Write
<1>4. CASE BlockGone \/ Reconnect \/ DropTurn \/ DropUnderCall
  BY <1>0, <1>4 DEF BlockGone, Settled, Reconnect, DropTurn, DropUnderCall, NoWorkspace, Nothing
<1>5. ASSUME NEW o \in {"cancelled", "unread", "raised", "result"}, EndCall(o), kept' = kept
      PROVE  OneByOne' /\ Accounted'
  BY <1>0, <1>5 DEF EndCall, Nothing
<1>6. CASE BlockReturns
  BY <1>0, <1>6 DEF BlockReturns, Settled, Nothing, ghosts
<1>7. ASSUME NEW f \in Files, Look(f) PROVE OneByOne' /\ Accounted'
  <2>1. /\ phase = "looking" /\ f \in left /\ left' = left \ {f}
        /\ current' = [current EXCEPT ![f] = disk[f]]
        /\ phase' = IF disk[f] \in {Absent, baseline[f]} THEN "looking" ELSE "reading"
        /\ todo' = todo /\ baseline' = baseline /\ kept' = kept /\ excused' = excused
    BY <1>7 DEF Look
  <2>2. OneByOne'
    BY <1>0, <2>1 DEF OwnTypes
  <2>3. Accounted'
    BY <1>0, <2>1 DEF OwnTypes
  <2> QED BY <2>2, <2>3
<1>8. ASSUME NEW f \in Files, Read(f) PROVE OneByOne' /\ Accounted'
  BY <1>0, <1>8 DEF Read, OwnTypes
<1>9. CASE Advance
  BY <1>0, <1>9 DEF Advance
<1>10. CASE FireArtifactsSaved
  BY <1>0, <1>10 DEF FireArtifactsSaved, ghosts
<1>11. ASSUME NEW f \in Files, SaveOutput(f) PROVE OneByOne' /\ Accounted'
  BY <1>0, <1>11 DEF SaveOutput, OwnTypes
<1>12. CASE Truncate \/ CancelCall \/ SaveFails \/ Return
  BY <1>0, <1>5, <1>12 DEF Truncate, CancelCall, SaveFails, Return, ghosts
<1>13. ASSUME NEW f \in Files, ReadFails(f) PROVE OneByOne' /\ Accounted'
  BY <1>5, <1>13 DEF ReadFails
<1>14. CASE AllOver
  BY <1>0, <1>14 DEF AllOver, allVars, work, ghosts
<1> QED
  BY <1>1, <1>2, <1>3, <1>4, <1>6, <1>7, <1>8, <1>9, <1>10, <1>11, <1>12, <1>13, <1>14
  DEF ResultsNext

LEMMA TraceKept ==
    ASSUME SInv, ResultsNext
    PROVE  Traced'
<1> USE DEF Traced, Found, Unread, Collecting
<1>0. Traced /\ OneByOne /\ Accounted /\ OwnTypes BY DEF SInv
<1>1. CASE BeginCall
  BY <1>0, <1>1 DEF BeginCall, ghosts
<1>2. ASSUME NEW c \in Calls, ToolStep(c) PROVE Traced'
  BY <1>0, <1>2 DEF ToolStep, work
<1>3. ASSUME NEW f \in Files, NEW v \in Contents \cup {Absent}, Write(f, v) PROVE Traced'
  BY <1>0, <1>3 DEF Write, OwnTypes
<1>4. CASE BlockGone \/ Reconnect \/ DropTurn \/ DropUnderCall
  BY <1>0, <1>4 DEF BlockGone, Reconnect, DropTurn, DropUnderCall, NoWorkspace, Nothing
<1>5. ASSUME NEW o \in {"cancelled", "unread", "raised", "result"}, EndCall(o)
      PROVE  Traced'
  BY <1>0, <1>5 DEF EndCall
<1>6. CASE BlockReturns
  BY <1>0, <1>6 DEF BlockReturns, Settled, Nothing, ghosts, Accounted, Finishing
<1>7. ASSUME NEW f \in Files, Look(f) PROVE Traced'
  BY <1>0, <1>7 DEF Look, OwnTypes, Accounted
<1>8. ASSUME NEW f \in Files, Read(f) PROVE Traced'
  BY <1>0, <1>8 DEF Read, OwnTypes
<1>9. CASE Advance
  BY <1>0, <1>9 DEF Advance
<1>10. CASE FireArtifactsSaved
  BY <1>0, <1>10 DEF FireArtifactsSaved, ghosts
<1>11. ASSUME NEW f \in Files, SaveOutput(f) PROVE Traced'
  BY <1>0, <1>11 DEF SaveOutput
<1>12. CASE Truncate \/ CancelCall \/ SaveFails \/ Return
  BY <1>0, <1>5, <1>12 DEF Truncate, CancelCall, SaveFails, Return, ghosts
<1>13. ASSUME NEW f \in Files, ReadFails(f) PROVE Traced'
  BY <1>5, <1>13 DEF ReadFails
<1>14. CASE AllOver
  BY <1>0, <1>14 DEF AllOver, allVars, work, ghosts
<1> QED
  BY <1>1, <1>2, <1>3, <1>4, <1>6, <1>7, <1>8, <1>9, <1>10, <1>11, <1>12, <1>13, <1>14
  DEF ResultsNext

LEMMA SessionInductive == ResultsSpec => []SInv
<1>1. SInv /\ [ResultsNext]_allVars => SInv'
  <2> SUFFICES ASSUME SInv, [ResultsNext]_allVars PROVE SInv'
    OBVIOUS
  <2>1. CASE ResultsNext
    BY <2>1, DispatcherKept, TypesKept, HookKept, AccountKept, TraceKept DEF SInv
  <2>2. CASE UNCHANGED allVars
    <3>1. IInv'
      BY <2>2, OthersKeep DEF allVars, vars, SInv, IInv, Kept, TypeOK
    <3>2. OwnTypes' /\ HookInPhase'
      BY <2>2 DEF allVars, work, ghosts, vars, SInv, OwnTypes, HookInPhase, HookSeesDelta
    <3>3. OneByOne' /\ Accounted' /\ Traced'
      BY <2>2 DEF allVars, work, ghosts, SInv, OneByOne, Accounted, Traced, Found, Unread
    <3> QED BY <3>1, <3>2, <3>3 DEF SInv
  <2> QED BY <2>1, <2>2
<1> QED BY <1>1, Initially, PTL DEF ResultsSpec
-----------------------------------------------------------------------------
\* Every variable keeps its type; in particular no list of callbacks is overrun.
THEOREM TypeCorrect == ResultsSpec => []ResultsTypeOK
<1>1. SInv => ResultsTypeOK BY DEF SInv, IInv, Kept, OwnTypes, ResultsTypeOK
<1> QED BY <1>1, SessionInductive, PTL

\* What is merged of a block's calls is what the sandbox was told, in whatever order they
\* run, fail, time out and are cancelled; only a reply that failed may hide a merge.
THEOREM EffectsMatch == ResultsSpec => []EffectsMatchAnswers
<1>1. SInv => EffectsMatchAnswers BY DEF SInv, IInv, Kept
<1> QED BY <1>1, SessionInductive, PTL

\* No value gets past the plugins' hooks, and a tool is skipped exactly if an answer of the
\* callbacks before it stands.
THEOREM GuardsHold == ResultsSpec => []CallbacksGuard
<1>1. SInv => CallbacksGuard BY DEF SInv, IInv, Guarded
<1> QED BY <1>1, SessionInductive, PTL

\* No changed file is lost to the next collect_outputs without a known reason, however
\* the sandbox writes on while its files are hashed, read and saved.
THEOREM NoChangeLost == ResultsSpec => []ChangesSaved
<1>1. SInv => ChangesSaved BY DEF SInv, Accounted, ChangesSaved
<1> QED BY <1>1, SessionInductive, PTL

\* A call reports only files written since the baseline last took them in.
THEOREM OnlyOwnChanges == ResultsSpec => []ReportsOwnChanges
<1>1. SInv => ReportsOwnChanges BY DEF SInv, Traced, Found, ReportsOwnChanges
<1> QED BY <1>1, SessionInductive, PTL

\* The hook hears of a block's saved versions before anything after them can fail.
THEOREM HookHears == ResultsSpec => []HookSeesDelta
<1>1. SInv => HookSeesDelta BY DEF SInv, HookInPhase
<1> QED BY <1>1, SessionInductive, PTL

=============================================================================
