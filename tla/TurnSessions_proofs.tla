------------------------ MODULE TurnSessions_proofs ------------------------
(***************************************************************************)
(* What TurnSessions guarantees for any number of calls, contexts,         *)
(* invocations and sessions, with every fault allowed.                     *)
(***************************************************************************)
EXTENDS TurnSessions, TLAPS

\* Where a call holds a turn: `turn' is the one its finally will mark idle.
HasTurn(c) == pc[c] \in {"running", "finishing", "givingUp", "retrying", "restarting"}
\* Where _create_turn awaits backend.start.
Opening(c) == pc[c] \in {"starting", "restarting"}
\* Inside `async with lock'.
Busy(c) == HasTurn(c) \/ pc[c] \in {"resolving", "starting"}

\* What each call knows of the sessions it holds.
CallInv ==
    \A c \in Calls :
        /\ pc[c] \in {"new", "waiting", "resolving"} => att[c] = NoTurn
        /\ Opening(c) => /\ att[c] \in dirs
                         /\ sess[att[c]] = "opening"
                         /\ owner[att[c]] = Inv(c)
        /\ HasTurn(c) => /\ turn[c] \in Sessions
                         /\ sess[turn[c]] \in {"open", "closed"}
                         /\ owner[turn[c]] = Inv(c)
        /\ Working(c) => /\ att[c] \in Sessions
                         /\ sess[att[c]] \in {"open", "closed"}
                         /\ owner[att[c]] = Inv(c)
        /\ pc[c] \in {"givingUp", "retrying"} =>
               att[c] \in Sessions /\ sess[att[c]] = "closed"
        /\ pc[c] = "finishing" => turn[c] = att[c]
        /\ \A d \in Calls : Opening(c) /\ Opening(d) /\ c # d => att[c] # att[d]

\* What the closers know of the sessions they hold.
CloserInv ==
    /\ \A s \in releasing : sess[s] = "closed"
    /\ reaping # NoTurn => sess[reaping] = "closed"
    /\ \A s \in stale : /\ sess[s] \in {"open", "closed"}
                        /\ \A i \in Invocations : turns[i] # s
    /\ \A s \in Sessions : sess[s] = "open" => s \in dirs

\* The inductive invariant behind RegisteredIsOpen.
HostInv == TypeOK /\ CallInv /\ CloserInv /\ RegisteredIsOpen

\* The lock makes the calls of an invocation take turns, if they share a context.
SerialInv ==
    /\ \A c \in Calls : Busy(c) => lock[CtxOf[c]] = c
    /\ \A c \in Calls : Busy(c) /\ ~Working(c) => turns[Inv(c)] = NoTurn
    /\ \A c \in Calls : Working(c) => turns[Inv(c)] \in {NoTurn, att[c]}
    /\ \A c \in Calls : Working(c) /\ turns[Inv(c)] = att[c] => inUse[att[c]]
    /\ \A s \in Sessions : sess[s] = "opening" => \E c \in Calls : Opening(c) /\ att[c] = s
    /\ NoOrphan
    /\ ReaperSparesUsed
-----------------------------------------------------------------------------
\* The types are inductive: every handler keeps each variable in its range.
THEOREM TypeCorrect == Spec => []TypeOK
<1> USE TurnAssumption
<1>1. Init => TypeOK
  BY DEF Init, TypeOK, PCs
<1>2. TypeOK /\ [Next]_vars => TypeOK'
  <2> SUFFICES ASSUME TypeOK, [Next]_vars PROVE TypeOK'
    OBVIOUS
  <2> USE DEF TypeOK, PCs, Inv, callVars, sessVars, closeVars
  <2>1. ASSUME NEW c \in Calls, CallTool(c) PROVE TypeOK'
    BY <2>1 DEF CallTool, Goto
  <2>2. ASSUME NEW c \in Calls, RejectLongCode(c) PROVE TypeOK'
    BY <2>2 DEF RejectLongCode, Goto
  <2>3. ASSUME NEW c \in Calls, ReuseTurn(c) PROVE TypeOK'
    BY <2>3 DEF ReuseTurn, MarkInUse, Goto
  <2>4. ASSUME NEW c \in Calls, ResolveTools(c) PROVE TypeOK'
    BY <2>4 DEF ResolveTools, Goto
  <2>5. ASSUME NEW c \in Calls, NEW s \in Sessions, StartTurn(c, s) PROVE TypeOK'
    BY <2>5 DEF StartTurn, BeginStart, Goto
  <2>6. ASSUME NEW c \in Calls, ResolveFails(c) PROVE TypeOK'
    BY <2>6 DEF ResolveFails, Leave, Goto
  <2>7. ASSUME NEW c \in Calls, TurnStarted(c) PROVE TypeOK'
    BY <2>7 DEF TurnStarted, Register, MarkInUse, Goto
  <2>8. ASSUME NEW c \in Calls, StartFails(c) PROVE TypeOK'
    BY <2>8 DEF StartFails, BeginClose, Leave, Goto
  <2>9. ASSUME NEW c \in Calls, BlockReturns(c) PROVE TypeOK'
    BY <2>9 DEF BlockReturns, Goto
  <2>10. ASSUME NEW c \in Calls, ReturnResult(c) PROVE TypeOK'
    BY <2>10 DEF ReturnResult, MarkIdle, Leave, Goto
  <2>11. ASSUME NEW c \in Calls, BlockFails(c) PROVE TypeOK'
    BY <2>11 DEF BlockFails, Discard, BeginClose, Goto
  <2>12. ASSUME NEW c \in Calls, BlockNotRun(c) PROVE TypeOK'
    BY <2>12 DEF BlockNotRun, Discard, BeginClose, Goto
  <2>13. ASSUME NEW c \in Calls, GaveUp(c) PROVE TypeOK'
    BY <2>13 DEF GaveUp, MarkIdle, Leave, Goto
  <2>14. ASSUME NEW c \in Calls, CannotReconnect(c) PROVE TypeOK'
    BY <2>14 DEF CannotReconnect, MarkIdle, Leave, Goto
  <2>15. ASSUME NEW c \in Calls, NEW s \in Sessions, Reconnect(c, s) PROVE TypeOK'
    BY <2>15 DEF Reconnect, BeginStart, Goto
  <2>16. ASSUME NEW c \in Calls, Reconnected(c) PROVE TypeOK'
    BY <2>16 DEF Reconnected, Register, MarkInUse, Goto
  <2>17. ASSUME NEW c \in Calls, ReconnectFails(c) PROVE TypeOK'
    BY <2>17 DEF ReconnectFails, BeginClose, MarkIdle, Leave, Goto
  <2>18. ASSUME NEW c \in Calls, BlockEscapes(c) PROVE TypeOK'
    BY <2>18 DEF BlockEscapes, MarkIdle, Leave, Goto
  <2>19. ASSUME NEW c \in Calls, CancelInUse(c) PROVE TypeOK'
    BY <2>19 DEF CancelInUse, MarkIdle, Leave, Goto
  <2>20. ASSUME NEW c \in Calls, CancelEarly(c) PROVE TypeOK'
    BY <2>20 DEF CancelEarly, Leave, Goto
  <2>21. ASSUME NEW i \in Invocations, Release(i) PROVE TypeOK'
    BY <2>21 DEF Release, BeginClose
  <2>22. ASSUME NEW s \in Sessions, Released(s) PROVE TypeOK'
    BY <2>22 DEF Released
  <2>23. ASSUME NEW s \in Sessions, Age(s) PROVE TypeOK'
    BY <2>23 DEF Age
  <2>24. ASSUME ReapScan PROVE TypeOK'
    BY <2>24 DEF ReapScan, Idle
  <2>25. ASSUME NEW s \in Sessions, ReapClose(s) PROVE TypeOK'
    BY <2>25 DEF ReapClose, BeginClose
  <2>26. ASSUME ReapClosed PROVE TypeOK'
    BY <2>26 DEF ReapClosed
  <2>28. ASSUME NEW c \in Calls, CancelDiscard(c) PROVE TypeOK'
    BY <2>28 DEF CancelDiscard, MarkIdle, Leave, Goto
  <2>29. ASSUME NEW s \in Sessions, CancelRelease(s) PROVE TypeOK'
    BY <2>29 DEF CancelRelease
  <2>27. CASE UNCHANGED vars
    BY <2>27 DEF vars
  <2> QED
    BY <2>1, <2>2, <2>3, <2>4, <2>5, <2>6, <2>7, <2>8, <2>9, <2>10, <2>11, <2>12, <2>13, <2>14,
       <2>15, <2>16, <2>17, <2>18, <2>19, <2>20, <2>21, <2>22, <2>23, <2>24, <2>25, <2>26, <2>27,
       <2>28, <2>29
    DEF Next, Call, Progress, Reap, AllDone
<1> QED
  BY <1>1, <1>2, PTL DEF Spec
\* A call and its closers agree on the state of the sessions they hold.
LEMMA HostInvariant == Spec => []HostInv
<1> USE TurnAssumption
<1>1. Init => HostInv
  BY DEF Init, HostInv, TypeOK, PCs, CallInv, CloserInv, RegisteredIsOpen, HasTurn,
         Opening, Working
<1>2. HostInv /\ TypeOK' /\ [Next]_vars => HostInv'
  <2> SUFFICES ASSUME HostInv, TypeOK', [Next]_vars
               PROVE (CallInv /\ CloserInv /\ RegisteredIsOpen)'
    BY DEF HostInv
  <2> USE DEF HostInv, TypeOK, PCs, CallInv, CloserInv, RegisteredIsOpen, HasTurn,
              Opening, Working, Inv, callVars, sessVars, closeVars
  <2>1. ASSUME NEW c \in Calls, CallTool(c) PROVE (CallInv /\ CloserInv /\ RegisteredIsOpen)'
    BY <2>1 DEF CallTool, Goto
  <2>2. ASSUME NEW c \in Calls, RejectLongCode(c) PROVE (CallInv /\ CloserInv /\ RegisteredIsOpen)'
    BY <2>2 DEF RejectLongCode, Goto
  <2>3. ASSUME NEW c \in Calls, ReuseTurn(c) PROVE (CallInv /\ CloserInv /\ RegisteredIsOpen)'
    BY <2>3 DEF ReuseTurn, MarkInUse, Goto
  <2>4. ASSUME NEW c \in Calls, ResolveTools(c) PROVE (CallInv /\ CloserInv /\ RegisteredIsOpen)'
    BY <2>4 DEF ResolveTools, Goto
  <2>5. ASSUME NEW c \in Calls, NEW s \in Sessions, StartTurn(c, s) PROVE (CallInv /\ CloserInv /\ RegisteredIsOpen)'
    BY <2>5 DEF StartTurn, BeginStart, Goto
  <2>6. ASSUME NEW c \in Calls, ResolveFails(c) PROVE (CallInv /\ CloserInv /\ RegisteredIsOpen)'
    BY <2>6 DEF ResolveFails, Leave, Goto
  <2>7. ASSUME NEW c \in Calls, TurnStarted(c) PROVE (CallInv /\ CloserInv /\ RegisteredIsOpen)'
    BY <2>7 DEF TurnStarted, Register, MarkInUse, Goto
  <2>8. ASSUME NEW c \in Calls, StartFails(c) PROVE (CallInv /\ CloserInv /\ RegisteredIsOpen)'
    BY <2>8 DEF StartFails, BeginClose, Leave, Goto
  <2>9. ASSUME NEW c \in Calls, BlockReturns(c) PROVE (CallInv /\ CloserInv /\ RegisteredIsOpen)'
    BY <2>9 DEF BlockReturns, Goto
  <2>10. ASSUME NEW c \in Calls, ReturnResult(c) PROVE (CallInv /\ CloserInv /\ RegisteredIsOpen)'
    BY <2>10 DEF ReturnResult, MarkIdle, Leave, Goto
  <2>11. ASSUME NEW c \in Calls, BlockFails(c) PROVE (CallInv /\ CloserInv /\ RegisteredIsOpen)'
    BY <2>11 DEF BlockFails, Discard, BeginClose, Goto
  <2>12. ASSUME NEW c \in Calls, BlockNotRun(c) PROVE (CallInv /\ CloserInv /\ RegisteredIsOpen)'
    BY <2>12 DEF BlockNotRun, Discard, BeginClose, Goto
  <2>13. ASSUME NEW c \in Calls, GaveUp(c) PROVE (CallInv /\ CloserInv /\ RegisteredIsOpen)'
    BY <2>13 DEF GaveUp, MarkIdle, Leave, Goto
  <2>14. ASSUME NEW c \in Calls, CannotReconnect(c) PROVE (CallInv /\ CloserInv /\ RegisteredIsOpen)'
    BY <2>14 DEF CannotReconnect, MarkIdle, Leave, Goto
  <2>15. ASSUME NEW c \in Calls, NEW s \in Sessions, Reconnect(c, s) PROVE (CallInv /\ CloserInv /\ RegisteredIsOpen)'
    BY <2>15 DEF Reconnect, BeginStart, Goto
  <2>16. ASSUME NEW c \in Calls, Reconnected(c) PROVE (CallInv /\ CloserInv /\ RegisteredIsOpen)'
    BY <2>16 DEF Reconnected, Register, MarkInUse, Goto
  <2>17. ASSUME NEW c \in Calls, ReconnectFails(c) PROVE (CallInv /\ CloserInv /\ RegisteredIsOpen)'
    BY <2>17 DEF ReconnectFails, BeginClose, MarkIdle, Leave, Goto
  <2>18. ASSUME NEW c \in Calls, BlockEscapes(c) PROVE (CallInv /\ CloserInv /\ RegisteredIsOpen)'
    BY <2>18 DEF BlockEscapes, MarkIdle, Leave, Goto
  <2>19. ASSUME NEW c \in Calls, CancelInUse(c) PROVE (CallInv /\ CloserInv /\ RegisteredIsOpen)'
    BY <2>19 DEF CancelInUse, MarkIdle, Leave, Goto
  <2>20. ASSUME NEW c \in Calls, CancelEarly(c) PROVE (CallInv /\ CloserInv /\ RegisteredIsOpen)'
    BY <2>20 DEF CancelEarly, Leave, Goto
  <2>21. ASSUME NEW i \in Invocations, Release(i) PROVE (CallInv /\ CloserInv /\ RegisteredIsOpen)'
    BY <2>21 DEF Release, BeginClose
  <2>22. ASSUME NEW s \in Sessions, Released(s) PROVE (CallInv /\ CloserInv /\ RegisteredIsOpen)'
    BY <2>22 DEF Released
  <2>23. ASSUME NEW s \in Sessions, Age(s) PROVE (CallInv /\ CloserInv /\ RegisteredIsOpen)'
    BY <2>23 DEF Age
  <2>24. ASSUME ReapScan PROVE (CallInv /\ CloserInv /\ RegisteredIsOpen)'
    BY <2>24 DEF ReapScan, Idle
  <2>25. ASSUME NEW s \in Sessions, ReapClose(s) PROVE (CallInv /\ CloserInv /\ RegisteredIsOpen)'
    BY <2>25 DEF ReapClose, BeginClose
  <2>26. ASSUME ReapClosed PROVE (CallInv /\ CloserInv /\ RegisteredIsOpen)'
    BY <2>26 DEF ReapClosed
  <2>28. ASSUME NEW c \in Calls, CancelDiscard(c) PROVE (CallInv /\ CloserInv /\ RegisteredIsOpen)'
    BY <2>28 DEF CancelDiscard, MarkIdle, Leave, Goto
  <2>29. ASSUME NEW s \in Sessions, CancelRelease(s) PROVE (CallInv /\ CloserInv /\ RegisteredIsOpen)'
    BY <2>29 DEF CancelRelease
  <2>27. CASE UNCHANGED vars
    BY <2>27 DEF vars
  <2> QED
    BY <2>1, <2>2, <2>3, <2>4, <2>5, <2>6, <2>7, <2>8, <2>9, <2>10, <2>11, <2>12, <2>13, <2>14,
       <2>15, <2>16, <2>17, <2>18, <2>19, <2>20, <2>21, <2>22, <2>23, <2>24, <2>25, <2>26, <2>27,
       <2>28, <2>29
    DEF Next, Call, Progress, Reap, AllDone
<1> QED
  BY <1>1, <1>2, TypeCorrect, PTL DEF Spec
\* A lookup in _turns never hands out a session that is being closed, belongs to
\* another invocation or has lost its workspace (tool.py:400 and every closer).
THEOREM LookupIsSafe == Spec => []RegisteredIsOpen
<1>1. HostInv => RegisteredIsOpen
  BY DEF HostInv
<1> QED
  BY <1>1, HostInvariant, PTL

\* A call is moved to another session only when its old one has been closed: the
\* reconnect of _run_block_reconnecting, and nothing else, replaces a session.
THEOREM SwitchIsSafe == Spec => SwitchOnlyFromClosed
<1> DEFINE Switch == \A c \in Calls :
                        att[c] # NoTurn /\ att'[c] # att[c] => sess[att[c]] = "closed"
<1>1. HostInv /\ [Next]_vars => [Switch]_vars
  <2> SUFFICES ASSUME HostInv, Next, NEW d \in Calls, att[d] # NoTurn, att'[d] # att[d]
               PROVE  sess[att[d]] = "closed"
    BY DEF vars
  <2> USE DEF HostInv, TypeOK, CallInv, callVars
  <2>1. PICK c \in Calls : att'[c] # att[c] /\ Call(c)
    BY DEF Next, Release, Released, CancelRelease, Age, Reap, ReapScan, ReapClose, ReapClosed, AllDone,
           vars, Call, Progress, CallTool, RejectLongCode, ReuseTurn, ResolveTools,
           ResolveFails, StartTurn, Reconnect, BeginStart, TurnStarted, StartFails,
           BlockReturns, ReturnResult, BlockFails, BlockNotRun, GaveUp, CannotReconnect,
           Reconnected, ReconnectFails, BlockEscapes, CancelInUse, CancelDiscard, CancelEarly
  <2>2. ReuseTurn(c) \/ \E s \in Sessions : StartTurn(c, s) \/ Reconnect(c, s)
    BY <2>1 DEF Call, Progress, CallTool, RejectLongCode, ResolveTools, ResolveFails,
           TurnStarted, StartFails, BlockReturns, ReturnResult, BlockFails, BlockNotRun,
           GaveUp, CannotReconnect, Reconnected, ReconnectFails, BlockEscapes,
           CancelInUse, CancelDiscard, CancelEarly
  <2>3. d = c
    BY <2>2 DEF ReuseTurn, StartTurn, Reconnect, BeginStart
  <2>4. CASE ReuseTurn(c)
    BY <2>3, <2>4 DEF ReuseTurn
  <2>5. CASE \E s \in Sessions : StartTurn(c, s)
    BY <2>3, <2>5 DEF StartTurn
  <2>6. CASE \E s \in Sessions : Reconnect(c, s)
    BY <2>3, <2>6 DEF Reconnect
  <2> QED
    BY <2>2, <2>4, <2>5, <2>6
<1> QED
  BY <1>1, HostInvariant, PTL DEF Spec, SwitchOnlyFromClosed

\* in_use misleads the reaper only after a reconnected attempt escaped or was
\* cancelled: in every other case a session marked in use has a call working on it.
THEOREM OnlyReconnectsMislead == Spec => []OnlyReconnectsStrand
<1> USE TurnAssumption
<1>1. Init => OnlyReconnectsStrand
  BY DEF Init, OnlyReconnectsStrand, Abandoned
<1>2. HostInv /\ OnlyReconnectsStrand /\ [Next]_vars => OnlyReconnectsStrand'
  <2> SUFFICES ASSUME HostInv, OnlyReconnectsStrand, [Next]_vars
               PROVE OnlyReconnectsStrand'
    OBVIOUS
  <2> USE DEF HostInv, TypeOK, PCs, CallInv, CloserInv, RegisteredIsOpen, HasTurn,
              Opening, Working, Inv, callVars, sessVars, closeVars
  <2> USE DEF OnlyReconnectsStrand, Abandoned, StrandedByReconnect
  <2>1. ASSUME NEW c \in Calls, CallTool(c) PROVE OnlyReconnectsStrand'
    BY <2>1 DEF CallTool, Goto
  <2>2. ASSUME NEW c \in Calls, RejectLongCode(c) PROVE OnlyReconnectsStrand'
    BY <2>2 DEF RejectLongCode, Goto
  <2>3. ASSUME NEW c \in Calls, ReuseTurn(c) PROVE OnlyReconnectsStrand'
    BY <2>3 DEF ReuseTurn, MarkInUse, Goto
  <2>4. ASSUME NEW c \in Calls, ResolveTools(c) PROVE OnlyReconnectsStrand'
    BY <2>4 DEF ResolveTools, Goto
  <2>5. ASSUME NEW c \in Calls, NEW s \in Sessions, StartTurn(c, s) PROVE OnlyReconnectsStrand'
    BY <2>5 DEF StartTurn, BeginStart, Goto
  <2>6. ASSUME NEW c \in Calls, ResolveFails(c) PROVE OnlyReconnectsStrand'
    BY <2>6 DEF ResolveFails, Leave, Goto
  <2>7. ASSUME NEW c \in Calls, TurnStarted(c) PROVE OnlyReconnectsStrand'
    BY <2>7 DEF TurnStarted, Register, MarkInUse, Goto
  <2>8. ASSUME NEW c \in Calls, StartFails(c) PROVE OnlyReconnectsStrand'
    BY <2>8 DEF StartFails, BeginClose, Leave, Goto
  <2>9. ASSUME NEW c \in Calls, BlockReturns(c) PROVE OnlyReconnectsStrand'
    BY <2>9 DEF BlockReturns, Goto
  <2>10. ASSUME NEW c \in Calls, ReturnResult(c) PROVE OnlyReconnectsStrand'
    BY <2>10 DEF ReturnResult, MarkIdle, Leave, Goto
  <2>11. ASSUME NEW c \in Calls, BlockFails(c) PROVE OnlyReconnectsStrand'
    BY <2>11 DEF BlockFails, Discard, BeginClose, Goto
  <2>12. ASSUME NEW c \in Calls, BlockNotRun(c) PROVE OnlyReconnectsStrand'
    BY <2>12 DEF BlockNotRun, Discard, BeginClose, Goto
  <2>13. ASSUME NEW c \in Calls, GaveUp(c) PROVE OnlyReconnectsStrand'
    BY <2>13 DEF GaveUp, MarkIdle, Leave, Goto
  <2>14. ASSUME NEW c \in Calls, CannotReconnect(c) PROVE OnlyReconnectsStrand'
    BY <2>14 DEF CannotReconnect, MarkIdle, Leave, Goto
  <2>15. ASSUME NEW c \in Calls, NEW s \in Sessions, Reconnect(c, s) PROVE OnlyReconnectsStrand'
    BY <2>15 DEF Reconnect, BeginStart, Goto
  <2>16. ASSUME NEW c \in Calls, Reconnected(c) PROVE OnlyReconnectsStrand'
    BY <2>16 DEF Reconnected, Register, MarkInUse, Goto
  <2>17. ASSUME NEW c \in Calls, ReconnectFails(c) PROVE OnlyReconnectsStrand'
    BY <2>17 DEF ReconnectFails, BeginClose, MarkIdle, Leave, Goto
  <2>18. ASSUME NEW c \in Calls, BlockEscapes(c) PROVE OnlyReconnectsStrand'
    BY <2>18 DEF BlockEscapes, MarkIdle, Leave, Goto
  <2>19. ASSUME NEW c \in Calls, CancelInUse(c) PROVE OnlyReconnectsStrand'
    BY <2>19 DEF CancelInUse, MarkIdle, Leave, Goto
  <2>20. ASSUME NEW c \in Calls, CancelEarly(c) PROVE OnlyReconnectsStrand'
    BY <2>20 DEF CancelEarly, Leave, Goto
  <2>21. ASSUME NEW i \in Invocations, Release(i) PROVE OnlyReconnectsStrand'
    BY <2>21 DEF Release, BeginClose
  <2>22. ASSUME NEW s \in Sessions, Released(s) PROVE OnlyReconnectsStrand'
    BY <2>22 DEF Released
  <2>23. ASSUME NEW s \in Sessions, Age(s) PROVE OnlyReconnectsStrand'
    BY <2>23 DEF Age
  <2>24. ASSUME ReapScan PROVE OnlyReconnectsStrand'
    BY <2>24 DEF ReapScan, Idle
  <2>25. ASSUME NEW s \in Sessions, ReapClose(s) PROVE OnlyReconnectsStrand'
    BY <2>25 DEF ReapClose, BeginClose
  <2>26. ASSUME ReapClosed PROVE OnlyReconnectsStrand'
    BY <2>26 DEF ReapClosed
  <2>28. ASSUME NEW c \in Calls, CancelDiscard(c) PROVE OnlyReconnectsStrand'
    BY <2>28 DEF CancelDiscard, MarkIdle, Leave, Goto
  <2>29. ASSUME NEW s \in Sessions, CancelRelease(s) PROVE OnlyReconnectsStrand'
    BY <2>29 DEF CancelRelease
  <2>27. CASE UNCHANGED vars
    BY <2>27 DEF vars
  <2> QED
    BY <2>1, <2>2, <2>3, <2>4, <2>5, <2>6, <2>7, <2>8, <2>9, <2>10, <2>11, <2>12, <2>13, <2>14,
       <2>15, <2>16, <2>17, <2>18, <2>19, <2>20, <2>21, <2>22, <2>23, <2>24, <2>25, <2>26, <2>27,
       <2>28, <2>29
    DEF Next, Call, Progress, Reap, AllDone
<1> QED
  BY <1>1, <1>2, HostInvariant, PTL DEF Spec
-----------------------------------------------------------------------------
\* Under OneContextPerInvocation two calls inside the lock serve two invocations.
LEMMA LockSeparates ==
  ASSUME OneContextPerInvocation, SerialInv,
         NEW c \in Calls, NEW d \in Calls, Busy(c), Busy(d), c # d
  PROVE  Inv(c) # Inv(d)
BY DEF OneContextPerInvocation, SerialInv

\* The execution lock serialises the calls of an invocation, which is what keeps
\* the registry, the in_use flags and the reaper consistent with each other.
LEMMA SerialInvariant == ASSUME OneContextPerInvocation PROVE Spec => []SerialInv
<1> USE TurnAssumption
<1>1. Init => SerialInv
  BY DEF Init, SerialInv, HasTurn, Opening, Working, Busy, NoOrphan, ReaperSparesUsed
<1>2. HostInv /\ HostInv' /\ SerialInv /\ [Next]_vars => SerialInv'
  <2> SUFFICES ASSUME HostInv, HostInv', SerialInv, [Next]_vars
               PROVE SerialInv'
    OBVIOUS
  <2>0. \A c, d \in Calls : Busy(c) /\ Busy(d) /\ c # d => Inv(c) # Inv(d)
    BY LockSeparates
  <2> USE DEF HostInv, TypeOK, PCs, CallInv, CloserInv, RegisteredIsOpen, HasTurn,
              Opening, Working, Inv, callVars, sessVars, closeVars
  <2> USE <2>0 DEF SerialInv, Busy, NoOrphan, ReaperSparesUsed, OneContextPerInvocation
  <2>1. ASSUME NEW c \in Calls, CallTool(c) PROVE SerialInv'
    BY <2>1 DEF CallTool, Goto
  <2>2. ASSUME NEW c \in Calls, RejectLongCode(c) PROVE SerialInv'
    BY <2>2 DEF RejectLongCode, Goto
  <2>3. ASSUME NEW c \in Calls, ReuseTurn(c) PROVE SerialInv'
    BY <2>3 DEF ReuseTurn, MarkInUse, Goto
  <2>4. ASSUME NEW c \in Calls, ResolveTools(c) PROVE SerialInv'
    BY <2>4 DEF ResolveTools, Goto
  <2>5. ASSUME NEW c \in Calls, NEW s \in Sessions, StartTurn(c, s) PROVE SerialInv'
    BY <2>5 DEF StartTurn, BeginStart, Goto
  <2>6. ASSUME NEW c \in Calls, ResolveFails(c) PROVE SerialInv'
    BY <2>6 DEF ResolveFails, Leave, Goto
  <2>7. ASSUME NEW c \in Calls, TurnStarted(c) PROVE SerialInv'
    BY <2>7 DEF TurnStarted, Register, MarkInUse, Goto
  <2>8. ASSUME NEW c \in Calls, StartFails(c) PROVE SerialInv'
    BY <2>8 DEF StartFails, BeginClose, Leave, Goto
  <2>9. ASSUME NEW c \in Calls, BlockReturns(c) PROVE SerialInv'
    BY <2>9 DEF BlockReturns, Goto
  <2>10. ASSUME NEW c \in Calls, ReturnResult(c) PROVE SerialInv'
    BY <2>10 DEF ReturnResult, MarkIdle, Leave, Goto
  <2>11. ASSUME NEW c \in Calls, BlockFails(c) PROVE SerialInv'
    BY <2>11 DEF BlockFails, Discard, BeginClose, Goto
  <2>12. ASSUME NEW c \in Calls, BlockNotRun(c) PROVE SerialInv'
    BY <2>12 DEF BlockNotRun, Discard, BeginClose, Goto
  <2>13. ASSUME NEW c \in Calls, GaveUp(c) PROVE SerialInv'
    BY <2>13 DEF GaveUp, MarkIdle, Leave, Goto
  <2>14. ASSUME NEW c \in Calls, CannotReconnect(c) PROVE SerialInv'
    BY <2>14 DEF CannotReconnect, MarkIdle, Leave, Goto
  <2>15. ASSUME NEW c \in Calls, NEW s \in Sessions, Reconnect(c, s) PROVE SerialInv'
    BY <2>15 DEF Reconnect, BeginStart, Goto
  <2>16. ASSUME NEW c \in Calls, Reconnected(c) PROVE SerialInv'
    BY <2>16 DEF Reconnected, Register, MarkInUse, Goto
  <2>17. ASSUME NEW c \in Calls, ReconnectFails(c) PROVE SerialInv'
    BY <2>17 DEF ReconnectFails, BeginClose, MarkIdle, Leave, Goto
  <2>18. ASSUME NEW c \in Calls, BlockEscapes(c) PROVE SerialInv'
    BY <2>18 DEF BlockEscapes, MarkIdle, Leave, Goto
  <2>19. ASSUME NEW c \in Calls, CancelInUse(c) PROVE SerialInv'
    BY <2>19 DEF CancelInUse, MarkIdle, Leave, Goto
  <2>20. ASSUME NEW c \in Calls, CancelEarly(c) PROVE SerialInv'
    BY <2>20 DEF CancelEarly, Leave, Goto
  <2>21. ASSUME NEW i \in Invocations, Release(i) PROVE SerialInv'
    BY <2>21 DEF Release, BeginClose
  <2>22. ASSUME NEW s \in Sessions, Released(s) PROVE SerialInv'
    BY <2>22 DEF Released
  <2>23. ASSUME NEW s \in Sessions, Age(s) PROVE SerialInv'
    BY <2>23 DEF Age
  <2>24. ASSUME ReapScan PROVE SerialInv'
    <3> USE <2>24 DEF ReapScan
    <3>1. \A i \in Idle : i \in Invocations /\ turns[i] \in stale' /\ ~inUse[turns[i]]
      BY DEF Idle
    <3>2. \A c \in Calls : Working(c) => Inv(c) \notin Idle \/ att[c] # turns[Inv(c)]
      BY <3>1
    <3>3. ReaperSparesUsed'
      BY <3>2 DEF Idle
    <3>4. NoOrphan'
      BY <3>1
    <3>5. \A c \in Calls : turns'[Inv(c)] \in {NoTurn, turns[Inv(c)]}
      BY DEF Idle
    <3> QED
      BY <3>3, <3>4, <3>5
  <2>25. ASSUME NEW s \in Sessions, ReapClose(s) PROVE SerialInv'
    BY <2>25 DEF ReapClose, BeginClose
  <2>26. ASSUME ReapClosed PROVE SerialInv'
    BY <2>26 DEF ReapClosed
  <2>28. ASSUME NEW c \in Calls, CancelDiscard(c) PROVE SerialInv'
    BY <2>28 DEF CancelDiscard, MarkIdle, Leave, Goto
  <2>29. ASSUME NEW s \in Sessions, CancelRelease(s) PROVE SerialInv'
    BY <2>29 DEF CancelRelease
  <2>27. CASE UNCHANGED vars
    BY <2>27 DEF vars
  <2> QED
    BY <2>1, <2>2, <2>3, <2>4, <2>5, <2>6, <2>7, <2>8, <2>9, <2>10, <2>11, <2>12, <2>13, <2>14,
       <2>15, <2>16, <2>17, <2>18, <2>19, <2>20, <2>21, <2>22, <2>23, <2>24, <2>25, <2>26, <2>27,
       <2>28, <2>29
    DEF Next, Call, Progress, Reap, AllDone
<1> QED
  BY <1>1, <1>2, HostInvariant, PTL DEF Spec

\* With one context per invocation, no container is orphaned: an open session is in
\* _turns or in the reaper's hands, so somebody will close it.
THEOREM NothingOrphaned ==
  ASSUME OneContextPerInvocation PROVE Spec => []NoOrphan
<1>1. SerialInv => NoOrphan
  BY DEF SerialInv
<1> QED
  BY <1>1, SerialInvariant, PTL

\* With one context per invocation, the reaper never closes a session whose block
\* is running or whose results are being collected.
THEOREM ReaperIsSafe ==
  ASSUME OneContextPerInvocation PROVE Spec => []ReaperSparesUsed
<1>1. SerialInv => ReaperSparesUsed
  BY DEF SerialInv
<1> QED
  BY <1>1, SerialInvariant, PTL

\* With one context per invocation, a turn has one container at a time: a second
\* one is started only after the first was discarded, released or reaped.
THEOREM TurnHasOneContainer ==
  ASSUME OneContextPerInvocation PROVE Spec => []OneContainerPerTurn
<1>1. HostInv /\ SerialInv => OneContainerPerTurn
  <2> SUFFICES ASSUME HostInv, SerialInv, NEW s \in Sessions, NEW t \in Sessions,
                      s \notin stale, t \notin stale,
                      sess[s] \in {"opening", "open"}, sess[t] \in {"opening", "open"},
                      owner[s] = owner[t]
               PROVE  s = t
    BY DEF OneContainerPerTurn
  <2> USE DEF HostInv, SerialInv
  <2>1. \A u \in {s, t} : sess[u] = "open" => owner[u] \in Invocations /\ turns[owner[u]] = u
    <3>1. \A u \in {s, t} : sess[u] = "open" => \E i \in Invocations : turns[i] = u
      BY DEF NoOrphan
    <3> QED
      BY <3>1, TurnAssumption DEF RegisteredIsOpen
  <2>2. \A u \in {s, t} : sess[u] = "opening" =>
            \E c \in Calls : Opening(c) /\ att[c] = u /\ owner[u] = Inv(c)
                             /\ turns[Inv(c)] = NoTurn
    BY DEF CallInv, Opening, Busy, HasTurn, Working
  <2>3. CASE sess[s] = "open" /\ sess[t] = "open"
    BY <2>1, <2>3
  <2>4. CASE sess[s] = "opening" /\ sess[t] = "opening"
    <3>1. PICK c \in Calls : Opening(c) /\ att[c] = s /\ owner[s] = Inv(c)
      BY <2>2, <2>4
    <3>2. PICK d \in Calls : Opening(d) /\ att[d] = t /\ owner[t] = Inv(d)
      BY <2>2, <2>4
    <3>3. Busy(c) /\ Busy(d) /\ Inv(c) = Inv(d)
      BY <3>1, <3>2 DEF Opening, Busy, HasTurn
    <3>4. SerialInv
      OBVIOUS
    <3>5. c = d
      BY ONLY <3>3, <3>4, LockSeparates, OneContextPerInvocation
    <3> QED
      BY <3>1, <3>2, <3>5
  <2>5. CASE sess[s] # sess[t]
    BY <2>1, <2>2, <2>5, TurnAssumption
  <2> QED
    BY <2>3, <2>4, <2>5
<1> QED
  BY <1>1, HostInvariant, SerialInvariant, PTL
=============================================================================
