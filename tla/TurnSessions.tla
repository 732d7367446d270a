---------------------------- MODULE TurnSessions ----------------------------
(***************************************************************************)
(* The host side of a turn: ExecuteCodeTool keeps one sandbox session per  *)
(* invocation ("turn") in _turns, shares it between the execute_code calls *)
(* of the turn, replaces it once when a block never reached the sandbox,   *)
(* and gives it back through release_invocation, through a failed block,   *)
(* or through the idle reaper.                                             *)
(*                                                                         *)
(* Everything runs on one asyncio loop, so an action is the code between   *)
(* two awaits.  A block is one step here (BlockProtocol.tla opens it  *)
(* up); its outcomes are the ones _run_block_reconnecting tells   *)
(* apart.                                                                  *)
(***************************************************************************)
EXTENDS Naturals, FiniteSets

CONSTANTS
    Calls,          \* execute_code calls
    Contexts,       \* InvocationContext objects; the execution lock is per context
    Invocations,    \* invocation ids; _turns is keyed by them
    Sessions,       \* pool of sandbox sessions the backend can start (bound)
    CtxOf,          \* the context a call runs in
    InvOf,          \* the invocation a context belongs to
    Faults,         \* which of "escape" and "cancel" may happen
    NoCall, NoTurn

ASSUME TurnAssumption ==
    /\ CtxOf \in [Calls -> Contexts]
    /\ InvOf \in [Contexts -> Invocations]
    /\ Faults \subseteq {"escape", "cancel"}
    /\ NoCall \notin Calls
    /\ NoTurn \notin Sessions

VARIABLES
    pc,         \* where each call is (see PCs)
    lock,       \* holder of each context's asyncio.Lock
    turn,       \* `turn' of _run_async_locked: the one its finally marks idle
    att,        \* `turn' of _run_block_reconnecting: the one the block runs on
    turns,      \* self._turns
    sess,       \* state of each session
    owner,      \* the invocation each session was started for
    inUse,      \* _TurnSession.in_use
    aged,       \* last_used is longer ago than session_idle_timeout_seconds
    dirs,       \* sessions whose workspace directory is on disk
    stale,      \* reaper: dropped from _turns, not yet closed
    reaping,    \* reaper: the one whose aclose is awaited
    releasing,  \* release_invocation: sessions whose aclose is awaited
    cut         \* history: sessions whose aclose was cancelled before cleanup()
callVars == <<pc, lock, turn, att>>
sessVars == <<turns, sess, owner, inUse, aged, dirs>>
closeVars == <<stale, reaping, releasing, cut>>
vars == <<pc, lock, turn, att, turns, sess, owner, inUse, aged, dirs,
          stale, reaping, releasing, cut>>

PCs == {"new", "waiting", "resolving", "starting", "running", "finishing",
        "givingUp", "retrying", "restarting", "done"}

Inv(c) == InvOf[CtxOf[c]]

\* The call is past the lookup of its turn and has not left the finally yet.
Working(c) == pc[c] \in {"running", "finishing"}

TypeOK ==
    /\ pc \in [Calls -> PCs]
    /\ lock \in [Contexts -> Calls \cup {NoCall}]
    /\ turn \in [Calls -> Sessions \cup {NoTurn}]
    /\ att \in [Calls -> Sessions \cup {NoTurn}]
    /\ turns \in [Invocations -> Sessions \cup {NoTurn}]
    /\ sess \in [Sessions -> {"unused", "opening", "open", "closed"}]
    /\ owner \in [Sessions -> Invocations \cup {NoTurn}]
    /\ inUse \in [Sessions -> BOOLEAN]
    /\ aged \in [Sessions -> BOOLEAN]
    /\ dirs \subseteq Sessions
    /\ stale \subseteq Sessions
    /\ reaping \in Sessions \cup {NoTurn}
    /\ releasing \subseteq Sessions
    /\ cut \subseteq Sessions \cup {NoTurn}
Init ==
    /\ pc = [c \in Calls |-> "new"]
    /\ lock = [x \in Contexts |-> NoCall]
    /\ turn = [c \in Calls |-> NoTurn]
    /\ att = [c \in Calls |-> NoTurn]
    /\ turns = [i \in Invocations |-> NoTurn]
    /\ sess = [s \in Sessions |-> "unused"]
    /\ owner = [s \in Sessions |-> NoTurn]
    /\ inUse = [s \in Sessions |-> FALSE]
    /\ aged = [s \in Sessions |-> FALSE]
    /\ dirs = {}
    /\ stale = {}
    /\ reaping = NoTurn
    /\ releasing = {}
    /\ cut = {}
-----------------------------------------------------------------------------
(* Steps several handlers share.                                           *)

Goto(c, label) == pc' = [pc EXCEPT ![c] = label]

\* The call leaves `async with lock', by a return or by an exception.
Leave(c) ==
    /\ Goto(c, "done")
    /\ lock' = [lock EXCEPT ![CtxOf[c]] = NoCall]

MarkInUse(s) ==
    /\ inUse' = [inUse EXCEPT ![s] = TRUE]
    /\ aged' = [aged EXCEPT ![s] = FALSE]

\* Mutant of MarkIdle: only the time of last use is updated.
MarkIdleTouches(s) ==
    /\ aged' = [aged EXCEPT ![s] = FALSE]
    /\ UNCHANGED inUse

MarkIdle(s) ==
    /\ inUse' = [inUse EXCEPT ![s] = FALSE]
    /\ aged' = [aged EXCEPT ![s] = FALSE]

\* First half of _TurnSession.aclose: session.close() has been called.
BeginClose(s) == sess' = [sess EXCEPT ![s] = "closed"]

\* _create_turn up to its await: the workspace directory, then backend.start.
BeginStart(c, s) ==
    /\ sess[s] = "unused"
    /\ sess' = [sess EXCEPT ![s] = "opening"]
    /\ owner' = [owner EXCEPT ![s] = Inv(c)]
    /\ att' = [att EXCEPT ![c] = s]

\* Mutant of Register: the session is opened but not entered in _turns.
RegisterForgets(c, s) ==
    /\ sess' = [sess EXCEPT ![s] = "open"]
    /\ UNCHANGED turns
    /\ MarkInUse(s)

\* _create_turn after its await, and the caller's mark_in_use that follows it.
Register(c, s) ==
    /\ sess' = [sess EXCEPT ![s] = "open"]
    /\ turns' = [turns EXCEPT ![Inv(c)] = s]
    /\ MarkInUse(s)

\* Mutants of Discard: closed but still registered; forgotten but not closed.
DiscardKeeps(c) ==
    /\ UNCHANGED turns
    /\ BeginClose(att[c])

DiscardLeaks(c) ==
    /\ turns' = [turns EXCEPT ![Inv(c)] = NoTurn]
    /\ UNCHANGED sess

\* _discard_turn up to its await: forget the turn if it is the one registered.
Discard(c) ==
    /\ turns' = [turns EXCEPT ![Inv(c)] = IF @ = att[c] THEN NoTurn ELSE @]
    /\ BeginClose(att[c])
-----------------------------------------------------------------------------
(* A call of execute_code.                                                 *)

\* run_async: the reaper exists from here on; wait for the context's lock.
CallTool(c) ==
    /\ pc[c] = "new"
    /\ Goto(c, "waiting")
    /\ UNCHANGED <<lock, turn, att, sessVars, closeVars>>

\* The code is longer than max_code_chars: an error result, no turn touched.
RejectLongCode(c) ==
    /\ pc[c] = "waiting"
    /\ lock[CtxOf[c]] = NoCall
    /\ Goto(c, "done")
    /\ UNCHANGED <<lock, turn, att, sessVars, closeVars>>

\* The invocation has a turn: take it and mark it in use, with no await between.
ReuseTurn(c) ==
    LET s == turns[Inv(c)] IN
    /\ pc[c] = "waiting"
    /\ lock[CtxOf[c]] = NoCall
    /\ s # NoTurn
    /\ lock' = [lock EXCEPT ![CtxOf[c]] = c]
    /\ turn' = [turn EXCEPT ![c] = s]
    /\ att' = [att EXCEPT ![c] = s]
    /\ MarkInUse(s)
    /\ Goto(c, "running")
    /\ UNCHANGED <<turns, sess, owner, dirs, closeVars>>

\* No turn yet: resolve the tools first, which awaits.
ResolveTools(c) ==
    /\ pc[c] = "waiting"
    /\ lock[CtxOf[c]] = NoCall
    /\ turns[Inv(c)] = NoTurn
    /\ lock' = [lock EXCEPT ![CtxOf[c]] = c]
    /\ Goto(c, "resolving")
    /\ UNCHANGED <<turn, att, sessVars, closeVars>>

\* The surface is ready: _create_turn starts a session and awaits it.
StartTurn(c, s) ==
    /\ pc[c] = "resolving"
    /\ BeginStart(c, s)
    /\ dirs' = dirs \cup {s}
    /\ Goto(c, "starting")
    /\ UNCHANGED <<lock, turn, turns, inUse, aged, closeVars>>

\* Resolving raised (or no workspace could be made): the call fails.
ResolveFails(c) ==
    /\ pc[c] = "resolving"
    /\ Leave(c)
    /\ UNCHANGED <<turn, att, sessVars, closeVars>>

TurnStarted(c) ==
    /\ pc[c] = "starting"
    /\ Register(c, att[c])
    /\ turn' = [turn EXCEPT ![c] = att[c]]
    /\ Goto(c, "running")
    /\ UNCHANGED <<lock, att, owner, dirs, closeVars>>

\* backend.start raised, or the call was cancelled in it: the workspace goes.
StartFails(c) ==
    /\ pc[c] = "starting"
    /\ BeginClose(att[c])
    /\ dirs' = dirs \ {att[c]}
    /\ Leave(c)
    /\ UNCHANGED <<turn, att, turns, owner, inUse, aged, closeVars>>

\* The block returned a result; only now is the outer `turn' rebound.
BlockReturns(c) ==
    /\ pc[c] = "running"
    /\ turn' = [turn EXCEPT ![c] = att[c]]
    /\ Goto(c, "finishing")
    /\ UNCHANGED <<lock, att, sessVars, closeVars>>

\* Outputs collected, saved and returned (or that raised): the finally runs.
ReturnResult(c) ==
    /\ pc[c] = "finishing"
    /\ MarkIdle(turn[c])
    /\ Leave(c)
    /\ UNCHANGED <<turn, att, turns, sess, owner, dirs, closeVars>>

\* Timeout, RuntimeError, or a drop after which the code may have run: discard.
BlockFails(c) ==
    /\ pc[c] = "running"
    /\ Discard(c)
    /\ Goto(c, "givingUp")
    /\ UNCHANGED <<lock, turn, att, owner, inUse, aged, dirs, closeVars>>

\* A drop before the code ran, on the first attempt: discard, then reconnect.
BlockNotRun(c) ==
    /\ pc[c] = "running"
    /\ att[c] = turn[c]
    /\ Discard(c)
    /\ Goto(c, "retrying")
    /\ UNCHANGED <<lock, turn, att, owner, inUse, aged, dirs, closeVars>>

\* aclose returned: the directory goes and the call reports the failure.
GaveUp(c) ==
    /\ pc[c] = "givingUp"
    /\ dirs' = dirs \ {att[c]}
    /\ MarkIdle(turn[c])
    /\ Leave(c)
    /\ UNCHANGED <<turn, att, turns, sess, owner, closeVars>>

\* aclose returned: the directory goes and a fresh session is started.
Reconnect(c, s) ==
    /\ pc[c] = "retrying"
    /\ BeginStart(c, s)
    /\ dirs' = (dirs \ {att[c]}) \cup {s}
    /\ Goto(c, "restarting")
    /\ UNCHANGED <<lock, turn, turns, inUse, aged, closeVars>>

\* The retry could not even make a workspace: report the code as not run.
CannotReconnect(c) ==
    /\ pc[c] = "retrying"
    /\ dirs' = dirs \ {att[c]}
    /\ MarkIdle(turn[c])
    /\ Leave(c)
    /\ UNCHANGED <<turn, att, turns, sess, owner, closeVars>>

Reconnected(c) ==
    /\ pc[c] = "restarting"
    /\ Register(c, att[c])
    /\ Goto(c, "running")
    /\ UNCHANGED <<lock, turn, att, owner, dirs, closeVars>>

\* backend.start raised, or the call was cancelled in it.
ReconnectFails(c) ==
    /\ pc[c] = "restarting"
    /\ BeginClose(att[c])
    /\ dirs' = dirs \ {att[c]}
    /\ MarkIdle(turn[c])
    /\ Leave(c)
    /\ UNCHANGED <<turn, att, turns, owner, closeVars>>

\* The attempt raised something _run_block_reconnecting does not catch (the
\* ValueError of a size limit, a ProtocolError): the turn stays registered and
\* the finally marks the outer `turn' idle.
BlockEscapes(c) ==
    /\ "escape" \in Faults
    /\ pc[c] = "running"
    /\ MarkIdle(turn[c])
    /\ Leave(c)
    /\ UNCHANGED <<turn, att, turns, sess, owner, dirs, closeVars>>

\* The call is cancelled at an await past the finally's `try'.
CancelInUse(c) ==
    /\ "cancel" \in Faults
    /\ pc[c] \in {"running", "finishing"}
    /\ MarkIdle(turn[c])
    /\ Leave(c)
    /\ UNCHANGED <<turn, att, turns, sess, owner, dirs, closeVars>>

\* ... or while it awaits the aclose of the turn it discards: the CancelledError
\* is no Exception, so workspace.cleanup() is never reached.
CancelDiscard(c) ==
    /\ "cancel" \in Faults
    /\ pc[c] \in {"givingUp", "retrying"}
    /\ cut' = cut \cup {att[c]}
    /\ MarkIdle(turn[c])
    /\ Leave(c)
    /\ UNCHANGED <<turn, att, turns, sess, owner, dirs, stale, reaping, releasing>>

\* Cancelled before it had a turn: waiting for the lock, or resolving.
CancelEarly(c) ==
    /\ "cancel" \in Faults
    /\ \/ pc[c] = "waiting" /\ Goto(c, "done") /\ UNCHANGED lock
       \/ pc[c] = "resolving" /\ Leave(c)
    /\ UNCHANGED <<turn, att, sessVars, closeVars>>
-----------------------------------------------------------------------------
(* release_invocation and the idle reaper.                                 *)

\* release_invocation up to its await (a no-op when there is no turn).
Release(i) ==
    /\ turns[i] # NoTurn
    /\ turns' = [turns EXCEPT ![i] = NoTurn]
    /\ BeginClose(turns[i])
    /\ releasing' = releasing \cup {turns[i]}
    /\ UNCHANGED <<callVars, owner, inUse, aged, dirs, stale, reaping, cut>>

\* Mutant of Released: the container is closed and the directory is left.
ReleasedKeepsDir(s) ==
    /\ s \in releasing
    /\ releasing' = releasing \ {s}
    /\ UNCHANGED <<callVars, sessVars, stale, reaping, cut>>

Released(s) ==
    /\ s \in releasing
    /\ releasing' = releasing \ {s}
    /\ dirs' = dirs \ {s}
    /\ UNCHANGED <<callVars, turns, sess, owner, inUse, aged, stale, reaping, cut>>

\* Whoever awaits release_invocation (an after_agent_callback) is cancelled.
CancelRelease(s) ==
    /\ "cancel" \in Faults
    /\ s \in releasing
    /\ releasing' = releasing \ {s}
    /\ cut' = cut \cup {s}
    /\ UNCHANGED <<callVars, sessVars, stale, reaping>>

\* Time passes for a session nobody touched.
Age(s) ==
    /\ sess[s] = "open"
    /\ ~aged[s]
    /\ aged' = [aged EXCEPT ![s] = TRUE]
    /\ UNCHANGED <<callVars, turns, sess, owner, inUse, dirs, closeVars>>

\* Mutants of Idle: an entry may be empty; in_use is not looked at.
IdleOrEmpty == {i \in Invocations : turns[i] = NoTurn \/ (~inUse[turns[i]] /\ aged[turns[i]])}

IdleByAge == {i \in Invocations : turns[i] # NoTurn /\ aged[turns[i]]}

Idle == {i \in Invocations : turns[i] # NoTurn /\ ~inUse[turns[i]] /\ aged[turns[i]]}

\* _reap_once up to its first await: drop every idle turn from _turns.
ReapScan ==
    /\ stale = {} /\ reaping = NoTurn
    /\ Idle # {}
    /\ stale' = {turns[i] : i \in Idle}
    /\ turns' = [i \in Invocations |-> IF i \in Idle THEN NoTurn ELSE turns[i]]
    /\ UNCHANGED <<callVars, sess, owner, inUse, aged, dirs, reaping, releasing, cut>>

\* ... and close them one after the other.
ReapClose(s) ==
    /\ reaping = NoTurn
    /\ s \in stale
    /\ stale' = stale \ {s}
    /\ reaping' = s
    /\ BeginClose(s)
    /\ UNCHANGED <<callVars, turns, owner, inUse, aged, dirs, releasing, cut>>

ReapClosed ==
    /\ reaping # NoTurn
    /\ dirs' = dirs \ {reaping}
    /\ reaping' = NoTurn
    /\ UNCHANGED <<callVars, turns, sess, owner, inUse, aged, stale, releasing, cut>>
-----------------------------------------------------------------------------
\* What the scheduler and the timeouts bring to an end once it has begun.
Progress(c) ==
    \/ ReuseTurn(c) \/ ResolveTools(c) \/ ResolveFails(c)
    \/ \E s \in Sessions : StartTurn(c, s) \/ Reconnect(c, s)
    \/ TurnStarted(c) \/ StartFails(c) \/ BlockReturns(c) \/ ReturnResult(c)
    \/ BlockFails(c) \/ BlockNotRun(c) \/ GaveUp(c) \/ CannotReconnect(c)
    \/ Reconnected(c) \/ ReconnectFails(c)

Call(c) ==
    CallTool(c) \/ RejectLongCode(c) \/ Progress(c)
    \/ BlockEscapes(c) \/ CancelInUse(c) \/ CancelDiscard(c) \/ CancelEarly(c)

Reap == ReapScan \/ (\E s \in Sessions : ReapClose(s)) \/ ReapClosed

AllDone ==
    /\ \A c \in Calls : pc[c] = "done"
    /\ stale = {} /\ reaping = NoTurn /\ releasing = {}
    /\ UNCHANGED vars

Next ==
    \/ \E c \in Calls : Call(c)
    \/ \E i \in Invocations : Release(i)
    \/ \E s \in Sessions : Released(s) \/ CancelRelease(s) \/ Age(s)
    \/ Reap
    \/ AllDone

Fairness ==
    /\ \A c \in Calls : WF_vars(Progress(c))
    /\ \A s \in Sessions : WF_vars(Released(s)) /\ WF_vars(Age(s))
    /\ WF_vars(Reap)

Spec == Init /\ [][Next]_vars
FairSpec == Spec /\ Fairness
-----------------------------------------------------------------------------
(* Properties.                                                             *)

\* Each context serves one invocation and each invocation one context: what
\* the per-context execution lock silently relies on.
OneContextPerInvocation ==
    \A c, d \in Calls : Inv(c) = Inv(d) => CtxOf[c] = CtxOf[d]

\* A lookup in _turns never hands out a session whose close() has begun, one of
\* another invocation, or one whose workspace is gone: every path that closes a
\* session (discard, release, reaper) forgets it before its first await.
RegisteredIsOpen ==
    \A i \in Invocations : turns[i] # NoTurn =>
        sess[turns[i]] = "open" /\ owner[turns[i]] = i /\ turns[i] \in dirs

\* No container is orphaned: an open session is either registered, so that
\* release_invocation and the reaper can find it, or the reaper is about to
\* close it (_create_turn overwrites _turns[invocation_id] unconditionally).
NoOrphan ==
    \A s \in Sessions : sess[s] = "open" =>
        s \in stale \/ \E i \in Invocations : turns[i] = s

\* The reaper never closes the session a block is running on or whose results
\* are being collected, although it decides from flags read at another time.
ReaperSparesUsed ==
    \A c \in Calls : Working(c) => att[c] \notin stale \cup {reaping}

\* "One container per turn": an invocation has at most one session starting or
\* open, not counting those the reaper has already given up.
OneContainerPerTurn ==
    \A s, t \in Sessions :
        /\ {s, t} \cap stale = {}
        /\ {sess[s], sess[t]} \subseteq {"opening", "open"}
        /\ owner[s] = owner[t]
        => s = t

\* The session of a reconnect that never returned a result: it was marked in use
\* and the outer `turn', still the discarded one, is what the finally marked idle.
StrandedByReconnect(s) ==
    \E c \in Calls : pc[c] = "done" /\ att[c] = s /\ turn[c] # s

Abandoned(s) == sess[s] = "open" /\ inUse[s] /\ ~\E c \in Calls : Working(c) /\ att[c] = s

\* in_use tells the reaper the truth, with one exception: a session stays marked
\* although nobody uses it only when a reconnected attempt escaped or was cancelled.
OnlyReconnectsStrand ==
    \A s \in Sessions : Abandoned(s) => StrandedByReconnect(s)

\* A step may never give a call that is already running a different session unless
\* the old one has been discarded: no block is moved off a live session.
SwitchOnlyFromClosed ==
    [][\A c \in Calls : att[c] # NoTurn /\ att'[c] # att[c] => sess[att[c]] = "closed"]_vars

\* The idle reaper is a backstop: whether or not release_invocation is ever called,
\* every workspace directory, and with it the session it was mounted in, is given
\* back.  The exceptions: a session that stays open and marked in use for good since
\* its reconnected attempt raised, and one whose aclose was itself cancelled.
Reclaimed ==
    \A s \in Sessions : s \in dirs ~>
        \/ s \notin dirs /\ sess[s] = "closed"
        \/ s \in cut
        \/ [](sess[s] = "open" /\ inUse[s] /\ StrandedByReconnect(s))

\* The backstop as the documentation states it, without the exceptions.
AlwaysReclaimed == \A s \in Sessions : sess[s] = "open" ~> sess[s] = "closed"
=============================================================================
