----------------------------- MODULE Dispatcher -----------------------------
(***************************************************************************)
(* Tool calls of one block on the host: Dispatcher.dispatch takes each     *)
(* through plugin and agent callbacks, the tool, and, if it succeeds, the  *)
(* merge of what it wrote; _handle_tool_call then replies to the sandbox.  *)
(* Calls run concurrently; each suspends at every callback, in the tool    *)
(* and in the reply, and may time out, be stopped or be dropped there.     *)
(*                                                                         *)
(* Only what is merged and reported is modelled.  What a tool writes to    *)
(* session.state is in the live state at once, and an artifact it saves is *)
(* in the service at once, whether or not the call succeeds.               *)
(***************************************************************************)
EXTENDS Naturals

CONSTANTS
    Calls,          \* ToolCallFrames of the block
    Files,          \* artifact file names
    MaxVersion,     \* versions of one artifact (bound)
    NCallbacks,     \* callbacks in each of the agent's three lists
    LongRunning     \* calls of tools with is_long_running

ASSUME DispatcherAssumption ==
    /\ MaxVersion \in Nat
    /\ NCallbacks \in Nat
    /\ LongRunning \subseteq Calls

\* What a callback or a tool returns: None, a false value such as {}, a true one.
Values == {"None", "empty", "value"}

VARIABLES
    at,         \* what each call is suspended in
    nth,        \* the agent's callback it is in, 0 outside those lists
    response,   \* the local variable of _run_with_callbacks, "None" outside it
    answer,     \* the DispatchResult: none yet, "ok", "error", or "cancelled"
    reply,      \* the frame the sandbox gets: none yet, the "value", the "error",
                \* a "fallback" error in place of either, or "lost": no frame
    saved,      \* saved[c][f]: the version in tool_context.actions.artifact_delta, or 0
    newest,     \* newest[f]: the latest version in the artifact service
    delta,      \* _artifact_delta, 0 for a file that is not in it
    merged,     \* calls whose deltas have been merged
    asked,      \* history: guards and tool each call has been through
    veto        \* history: what the before callbacks have answered so far (see Vetoes)

vars == <<at, nth, response, answer, reply, saved, newest, delta, merged, asked, veto>>

\* What the property about callbacks tells apart.
Noted == {"before", "tool", "after"}
\* An answer that was not None, of a plugin or of the agent's; "overruled": a false one
\* of the agent's that was followed by None.
Vetoes == {"none", "plugin", "true", "empty", "overruled"}

Hooks == {"before", "before_agent", "tool", "error", "error_agent", "after", "after_agent"}
Running(c) == at[c] \in Hooks

TypeOK ==
    /\ at \in [Calls -> Hooks \cup {"idle", "answered"}]
    /\ nth \in [Calls -> 0 .. NCallbacks]
    /\ response \in [Calls -> Values]
    /\ answer \in [Calls -> {"none", "ok", "error", "cancelled"}]
    /\ reply \in [Calls -> {"none", "value", "error", "fallback", "lost"}]
    /\ saved \in [Calls -> [Files -> 0 .. MaxVersion]]
    /\ newest \in [Files -> 0 .. MaxVersion]
    /\ delta \in [Files -> 0 .. MaxVersion]
    /\ merged \subseteq Calls
    /\ asked \in [Calls -> SUBSET Noted]
    /\ veto \in [Calls -> Vetoes]

Init ==
    /\ at = [c \in Calls |-> "idle"]
    /\ nth = [c \in Calls |-> 0]
    /\ response = [c \in Calls |-> "None"]
    /\ answer = [c \in Calls |-> "none"]
    /\ reply = [c \in Calls |-> "none"]
    /\ saved = [c \in Calls |-> [f \in Files |-> 0]]
    /\ newest = [f \in Files |-> 0]
    /\ delta = [f \in Files |-> 0]
    /\ merged = {}
    /\ asked = [c \in Calls |-> {}]
    /\ veto = [c \in Calls |-> "none"]
-----------------------------------------------------------------------------
(* Moving a call from hook to hook.                                        *)

\* Call c goes on to hook h, with v as its response.
Enter(c, h, v) ==
    /\ at' = [at EXCEPT ![c] = h]
    /\ nth' = [nth EXCEPT ![c] = IF h \in {"before_agent", "error_agent", "after_agent"}
                                 THEN 1 ELSE 0]
    /\ response' = [response EXCEPT ![c] = v]
    /\ asked' = [asked EXCEPT ![c] = @ \cup ({h} \cap Noted)]
    /\ UNCHANGED <<answer, reply, saved, newest, delta, merged>>

\* Mutant of NextCallback: the list is taken to be one longer.
NextCallbackPast(c) ==
    /\ nth[c] <= NCallbacks
    /\ nth' = [nth EXCEPT ![c] = @ + 1]
    /\ UNCHANGED <<at, response, answer, reply, saved, newest, delta, merged, asked>>

\* The next callback of the list c is in.
NextCallback(c) ==
    /\ nth[c] < NCallbacks
    /\ nth' = [nth EXCEPT ![c] = @ + 1]
    /\ UNCHANGED <<at, response, answer, reply, saved, newest, delta, merged, asked>>

\* dispatch returns, or is cancelled; the reply comes after it.
Answer(c, a) ==
    /\ at' = [at EXCEPT ![c] = "answered"]
    /\ nth' = [nth EXCEPT ![c] = 0]
    /\ response' = [response EXCEPT ![c] = "None"]
    /\ answer' = [answer EXCEPT ![c] = a]
    /\ UNCHANGED <<saved, newest, asked, veto>>

\* Deltas are merged under _merge_lock, which nobody holds across an await.
Merge(c) ==
    /\ merged' = merged \cup {c}
    /\ delta' = [f \in Files |-> IF saved[c][f] # 0 THEN saved[c][f] ELSE delta[f]]

Fail(c, a) == Answer(c, a) /\ UNCHANGED <<reply, delta, merged>>

\* Mutant of Conclude: deltas are merged before the checks.
ConcludeMergesFirst(c, v) ==
    /\ Merge(c)
    /\ UNCHANGED reply
    /\ \/ Answer(c, "error")
       \/ Answer(c, "ok") /\ (c \in LongRunning => v = "value")

\* The response v is final.  An ADK action that code mode cannot surface, or a
\* long-running tool without an immediate response, is an error; else merge.
Conclude(c, v) ==
    \/ Fail(c, "error")
    \/ /\ c \in LongRunning => v = "value"
       /\ Answer(c, "ok") /\ Merge(c) /\ UNCHANGED reply

\* There is an agent, and it has callbacks.
HasCallbacks == NCallbacks > 0
-----------------------------------------------------------------------------
(* The hooks.                                                              *)

\* resolve_call finds the tool, or there is none of that name.
Dispatch(c) ==
    /\ at[c] = "idle"
    /\ \/ Enter(c, "before", "None") /\ UNCHANGED veto
       \/ Fail(c, "error")

NoteAgent(c, v) ==
    veto' = [veto EXCEPT ![c] = CASE v = "value" -> "true"
                                  [] v = "empty" -> "empty"
                                  [] v = "None"  -> IF @ = "empty" THEN "overruled" ELSE @]

\* Any answer of the plugins but None takes the tool's place, a false one too.
BeforePlugin(c, v) ==
    /\ at[c] = "before"
    /\ veto' = [veto EXCEPT ![c] = IF v = "None" THEN @ ELSE "plugin"]
    /\ Enter(c, IF v # "None" THEN "after" ELSE IF HasCallbacks THEN "before_agent" ELSE "tool", v)

\* Mutant of BeforeAgent: any answer but a true one lets the tool run.
BeforeAgentTruth(c, v) ==
    /\ at[c] = "before_agent"
    /\ NoteAgent(c, v)
    /\ \/ v # "value" /\ NextCallback(c)
       \/ (v = "value" \/ nth[c] = NCallbacks)
          /\ Enter(c, IF v # "value" THEN "tool" ELSE "after", v)

\* The loop ends at the first callback whose answer is true.  What counts is the answer
\* of the callback that ran last: if that is None, the tool runs, whatever false answer
\* came before it.
BeforeAgent(c, v) ==
    /\ at[c] = "before_agent"
    /\ NoteAgent(c, v)
    /\ \/ v # "value" /\ NextCallback(c)
       \/ (v = "value" \/ nth[c] = NCallbacks)
          /\ Enter(c, IF v = "None" THEN "tool" ELSE "after", v)

\* The tool, or its ToolResultArtifactTool wrapper, saves an artifact.
Save(c, f) ==
    /\ at[c] = "tool"
    /\ newest[f] < MaxVersion
    /\ newest' = [newest EXCEPT ![f] = @ + 1]
    /\ saved' = [saved EXCEPT ![c][f] = newest[f] + 1]
    /\ UNCHANGED <<at, nth, response, answer, reply, delta, merged, asked, veto>>

ToolReturns(c, v) ==
    /\ at[c] = "tool"
    /\ Enter(c, "after", v)
    /\ UNCHANGED veto

\* The tool raises, or raise_for_failed_result does, also after the wrapper has saved.
ToolRaises(c) ==
    /\ at[c] = "tool"
    /\ Enter(c, "error", response[c])
    /\ UNCHANGED veto

\* A replacement for the error is a response; without any, the error is raised again.
ErrorPlugin(c, v) ==
    /\ at[c] = "error"
    /\ \/ v # "None" /\ Enter(c, "after", v) /\ UNCHANGED veto
       \/ v = "None" /\ HasCallbacks /\ Enter(c, "error_agent", response[c]) /\ UNCHANGED veto
       \/ v = "None" /\ ~HasCallbacks /\ Fail(c, "error")

ErrorAgent(c, v) ==
    /\ at[c] = "error_agent"
    /\ \/ v # "None" /\ Enter(c, "after", v) /\ UNCHANGED veto
       \/ v = "None" /\ NextCallback(c) /\ UNCHANGED veto
       \/ v = "None" /\ nth[c] = NCallbacks /\ Fail(c, "error")

AfterPlugin(c, v) ==
    /\ at[c] = "after"
    /\ \/ v # "None" /\ Conclude(c, v)
       \/ v = "None" /\ HasCallbacks /\ Enter(c, "after_agent", response[c]) /\ UNCHANGED veto
       \/ v = "None" /\ ~HasCallbacks /\ Conclude(c, response[c])

\* As before the tool: an empty answer does not end the loop, and counts if it is the last.
AfterAgent(c, v) ==
    /\ at[c] = "after_agent"
    /\ \/ v # "value" /\ NextCallback(c) /\ UNCHANGED veto
       \/ (v = "value" \/ nth[c] = NCallbacks)
          /\ Conclude(c, IF v = "None" THEN response[c] ELSE v)

\* A callback raises: dispatch turns it into an error.
HookRaises(c) == Running(c) /\ at[c] # "tool" /\ Fail(c, "error")

\* wait_for's timeout.  CancelledError is no Exception, so no error callback sees it.
TimeOut(c) == Running(c) /\ Fail(c, "error")
-----------------------------------------------------------------------------
(* The reply, and calls that are cut short.                                *)

\* The block is stopped: _handle_tool_call cancels the call, and goes on to reply.
Stop(c) == Running(c) /\ Fail(c, "cancelled")

Replying(c) == at[c] = "answered" /\ reply[c] = "none"

EndWith(c, r) ==
    /\ Replying(c)
    /\ reply' = [reply EXCEPT ![c] = r]
    /\ UNCHANGED <<at, nth, response, answer, saved, newest, delta, merged, asked, veto>>

Reply(c) == EndWith(c, IF answer[c] = "ok" THEN "value" ELSE "error")

\* The value (or the error's body) cannot be encoded, or is too large to be sent.
ReplyFallback(c) == EndWith(c, "fallback")

\* The connection is gone, for the fallback too; or the block has ended, and _host_loop
\* cancels _handle_tool_call before its frame is out.
ReplyLost(c) == EndWith(c, "lost")

\* ... or while the call still runs, which it cancels with it.
Drop(c) ==
    /\ Running(c)
    /\ Answer(c, "cancelled")
    /\ reply' = [reply EXCEPT ![c] = "lost"]
    /\ UNCHANGED <<delta, merged>>

Over(c) == at[c] = "answered" /\ ~Replying(c)
Done == (\A c \in Calls : Over(c)) /\ UNCHANGED vars

Step(c) ==
    \/ Dispatch(c) \/ ToolRaises(c) \/ HookRaises(c) \/ TimeOut(c)
    \/ Stop(c) \/ Reply(c) \/ ReplyFallback(c) \/ ReplyLost(c) \/ Drop(c)
    \/ \E f \in Files : Save(c, f)
    \/ \E v \in Values :
           \/ BeforePlugin(c, v) \/ BeforeAgent(c, v) \/ ToolReturns(c, v)
           \/ ErrorPlugin(c, v) \/ ErrorAgent(c, v) \/ AfterPlugin(c, v) \/ AfterAgent(c, v)

Next == (\E c \in Calls : Step(c)) \/ Done

Spec == Init /\ [][Next]_vars
-----------------------------------------------------------------------------
(* Properties.                                                             *)

\* What the sandbox is told is what is merged: a call it has a value from has had its
\* deltas merged, and of one that failed, timed out or was stopped, and that it has an
\* error from, nothing is merged and no version is reported in its name.  Only a
\* fallback and a lost reply leave that open: they may hide a merge.  The block reports
\* a file exactly if a merged call saved it, and a version of theirs.  (It says nothing
\* of what a failed call has left in the live state and in the artifact service.)
EffectsMatchAnswers ==
    /\ \A c \in Calls : /\ reply[c] = "value" => c \in merged
                        /\ reply[c] = "error" => c \notin merged
    /\ \A f \in Files : delta[f] # 0 => \E c \in merged : saved[c][f] = delta[f]
    /\ \A f \in Files, c \in merged : saved[c][f] # 0 => delta[f] # 0

\* What the callbacks before and after a tool can rely on.  No value reaches the sandbox
\* that the plugins' before and after hooks have not been asked about, also when a failed
\* tool's error was replaced.  The tool is skipped exactly if a before callback has given
\* an answer other than None that stands: any of a plugin, a true one of the agent's, or
\* a false one of the agent's unless a later callback answers None.  So the header's
\* "first non-None wins" (dispatcher.py:14) holds of true answers only: after {} and then
\* None the tool runs.
CallbacksGuard ==
    \A c \in Calls :
        LET stands == veto[c] \in {"plugin", "true", "empty"} IN
        /\ answer[c] = "ok" => {"before", "after"} \subseteq asked[c]
        /\ "tool" \in asked[c] => ~stands
        /\ answer[c] = "ok" /\ ~stands => "tool" \in asked[c]
=============================================================================
