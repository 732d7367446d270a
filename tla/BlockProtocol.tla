--------------------------- MODULE BlockProtocol ---------------------------
(***************************************************************************)
(* The execute_code calls of one turn over the WebSocket transport: the    *)
(* host drives each block (_run_block_reconnecting, _run_attempt,          *)
(* _run_block, _host_loop, _handle_tool_call, _RemoteSandboxSession), the  *)
(* sandbox serves it (_run_one_block, _pump_ws_to_reader, run_block).      *)
(* Blocks are numbered in the order of the calls; the calls of a turn come *)
(* one at a time (see TurnSessions).                                       *)
(***************************************************************************)
EXTENDS Naturals, Sequences

CONSTANTS
    NBlocks,    \* blocks of the turn (bound)
    NSessions,  \* sandboxes that can be started (bound; two per block suffice)
    Scenarios   \* what may happen in a run, one of these

\* A scenario names the faults that may happen, and bounds the tool calls per block.
ASSUME BlockAssumption ==
    /\ NBlocks \in Nat /\ NSessions \in Nat
    /\ NSessions >= 2 * NBlocks
    /\ Scenarios \subseteq [faults : SUBSET {"drop", "timeout", "cancel", "background"},
                            calls : Nat]

Blocks == 1 .. NBlocks
Sess == 1 .. NSessions

VARIABLES
    scene,      \* the scenario of this run, which never changes
    host,       \* where the host is in the current block
    blk,        \* the current block, or the last one
    cur,        \* the session of the turn, 0 when it has none
    used,       \* sessions started so far
    attempt,    \* attempt of _run_block_reconnecting
    timer,      \* _run_attempt: "armed", "interrupting", "grace" (stop is set)
    res,        \* how the task running _run_block ended
    bgDone,     \* background_work of the DoneFrame received
    pending,    \* tool calls being dispatched for the current block
    outcome,    \* what each block's caller was told
    got, tarOf, \* whose OutputFrame / workspace tar was taken for each block
    link,       \* state of each connection
    up, down,   \* frames in flight to / from each sandbox
    box,        \* where _run_one_block is in each sandbox
    code,       \* the thread running user code
    now,        \* the block it runs
    stop,       \* the asynchronous CodeTimeout of that block
    woke,       \* why the code last woke from a tool call
    ncalls,     \* tool calls the block has made
    bg,         \* a thread that user code left behind, "over" once it has called a tool
    exec,       \* whether each block's code ran
    stopWaits   \* history: calls that were waiting when their block was told to stop

hostVars == <<host, blk, cur, used, attempt, timer, res, bgDone, pending,
              outcome, got, tarOf, stopWaits>>
codeVars == <<code, now, stop, woke, ncalls, bg, exec>>
vars == <<scene, hostVars, link, up, down, box, codeVars>>

HostPCs == {"idle", "staging", "sendingRun", "looping", "waiting", "waitingTar",
            "ended", "reconnecting"}
Outcomes == {"ok", "stopped", "ran", "notRun", "unknown", "notStopped", "error",
             "cancelled"}
UpKinds == {"tar", "run", "interrupt", "value", "stop"}
DownKinds == {"ready", "call", "done", "doneBg", "output", "tar"}

Msg(kind, b, n) == [kind |-> kind, blk |-> b, n |-> n]

TypeOK ==
    /\ scene \in Scenarios
    /\ host \in HostPCs
    /\ blk \in 0 .. NBlocks /\ cur \in 0 .. NSessions /\ used \in 0 .. NSessions
    /\ attempt \in 1 .. 2
    /\ timer \in {"off", "armed", "interrupting", "grace"}
    /\ res \in {"none", "result", "ran", "unknown", "notRun", "error"}
    /\ bgDone \in BOOLEAN
    /\ pending \subseteq (0 .. NBlocks) \X (0 .. scene.calls)
    /\ outcome \in [Blocks -> Outcomes \cup {"none"}]
    /\ got \in [Blocks -> 0 .. NBlocks] /\ tarOf \in [Blocks -> 0 .. NBlocks]
    /\ link \in [Sess -> {"none", "up", "down"}]
    /\ \A s \in Sess : \A i \in DOMAIN up[s] : up[s][i].kind \in UpKinds
    /\ \A s \in Sess : \A i \in DOMAIN down[s] : down[s][i].kind \in DownKinds
    /\ box \in [Sess -> {"none", "boot", "await", "awaitRun", "run", "output",
                         "tar", "exited"}]
    /\ code \in [Sess -> {"none", "entering", "running", "blocked", "ended"}]
    /\ now \in [Sess -> 0 .. NBlocks]
    /\ stop \in [Sess -> {"none", "pending", "raised", "missed"}]
    /\ woke \in [Sess -> {"none", "value", "stop"}]
    /\ ncalls \in [Sess -> 0 .. scene.calls]
    /\ bg \in [Sess -> {"none", "alive", "over"}]
    /\ exec \in [Blocks -> {"no", "started", "finished", "again"}]
    /\ stopWaits \subseteq (0 .. NBlocks) \X (0 .. scene.calls)

Init ==
    /\ scene \in Scenarios
    /\ host = "idle" /\ blk = 0 /\ cur = 0 /\ used = 0 /\ attempt = 1
    /\ timer = "off" /\ res = "none" /\ bgDone = FALSE /\ pending = {}
    /\ outcome = [b \in Blocks |-> "none"]
    /\ got = [b \in Blocks |-> 0] /\ tarOf = [b \in Blocks |-> 0]
    /\ link = [s \in Sess |-> "none"]
    /\ up = [s \in Sess |-> <<>>] /\ down = [s \in Sess |-> <<>>]
    /\ box = [s \in Sess |-> "none"] /\ code = [s \in Sess |-> "none"]
    /\ now = [s \in Sess |-> 0] /\ stop = [s \in Sess |-> "none"]
    /\ woke = [s \in Sess |-> "none"] /\ ncalls = [s \in Sess |-> 0]
    /\ bg = [s \in Sess |-> "none"]
    /\ exec = [b \in Blocks |-> "no"]
    /\ stopWaits = {}
-----------------------------------------------------------------------------
(* The host.  A frame sent on a dead connection is lost until the host has *)
(* noticed; from then on sending raises SandboxConnectionError.            *)

HostSend(m) ==
    up' = [up EXCEPT ![cur] = IF link[cur] = "up" THEN Append(@, m) ELSE @]

HostRecv(m) ==
    /\ down[cur] # <<>>
    /\ m = Head(down[cur])
    /\ down' = [down EXCEPT ![cur] = Tail(@)]

\* recv() raises ConnectionClosed once what had arrived is consumed.
HostEOF == link[cur] = "down" /\ down[cur] = <<>>

\* Mutant of BeginAttempt: attempts are counted from 0 and still compared with 1 and 2.
BeginAttemptFromZero(n) ==
    /\ attempt' = n - 1
    /\ timer' = "armed"
    /\ host' = "staging"
    /\ res' = "none"
    /\ bgDone' = FALSE

\* The attempt of a block begins: its timeout runs from here.
BeginAttempt(n) ==
    /\ attempt' = n
    /\ timer' = "armed"
    /\ host' = "staging"
    /\ res' = "none"
    /\ bgDone' = FALSE

\* backend.start of _create_turn: a fresh sandbox, its tools uploaded.
StartSession ==
    /\ used < NSessions
    /\ used' = used + 1
    /\ cur' = used + 1
    /\ link' = [link EXCEPT ![used + 1] = "up"]
    /\ box' = [box EXCEPT ![used + 1] = "boot"]

\* _discard_turn: forget the session and close its connection.
Discard ==
    /\ cur' = 0
    /\ link' = [link EXCEPT ![cur] = "down"]
    /\ down' = [down EXCEPT ![cur] = <<>>]

\* run_async for the next block of the turn, on the turn's session if it has one.
NextBlock ==
    /\ host = "idle"
    /\ blk < NBlocks
    /\ blk' = blk + 1
    /\ BeginAttempt(1)
    /\ \/ cur # 0 /\ UNCHANGED <<cur, used, link, box>>
       \/ cur = 0 /\ StartSession
    /\ UNCHANGED <<stopWaits, pending, outcome, got, tarOf, up, down, codeVars>>

\* begin_block: the workspace tar.
StageInputs ==
    /\ host = "staging"
    /\ HostSend(Msg("tar", blk, 0))
    /\ host' = "sendingRun"
    /\ UNCHANGED <<stopWaits, blk, cur, used, attempt, timer, res, bgDone, pending, outcome,
                   got, tarOf, link, down, box, codeVars>>

\* The RunFrame; code_sent is true from here on.
SendRun ==
    /\ host = "sendingRun"
    /\ HostSend(Msg("run", blk, 0))
    /\ host' = "looping"
    /\ UNCHANGED <<stopWaits, blk, cur, used, attempt, timer, res, bgDone, pending, outcome,
                   got, tarOf, link, down, box, codeVars>>

\* _run_block ends; the calls still pending are cancelled without a reply.
EndBlock(r) ==
    /\ host' = "ended"
    /\ res' = r
    /\ pending' = {}
    /\ UNCHANGED <<stopWaits, blk, cur, used, attempt, timer, outcome, link, up, box, codeVars>>

\* Mutant of ConnectionLost: code_sent is not tracked.
ConnectionLostForgets ==
    /\ \/ host \in {"staging", "sendingRun"} /\ link[cur] = "down" /\ EndBlock("notRun")
       \/ host = "looping" /\ HostEOF /\ EndBlock("notRun")
       \/ host \in {"waiting", "waitingTar"} /\ HostEOF /\ EndBlock("ran")
    /\ UNCHANGED <<bgDone, got, tarOf, down>>

\* The connection is lost while _run_block sends or receives: how much is known
\* depends on whether the RunFrame was sent and a DoneFrame received.
ConnectionLost ==
    /\ \/ host \in {"staging", "sendingRun"} /\ link[cur] = "down" /\ EndBlock("notRun")
       \/ host = "looping" /\ HostEOF /\ EndBlock("unknown")
       \/ host \in {"waiting", "waitingTar"} /\ HostEOF /\ EndBlock("ran")
    /\ UNCHANGED <<bgDone, got, tarOf, down>>

\* _host_loop takes a frame.
LoopFrame(m) ==
    /\ host = "looping"
    /\ HostRecv(m)
    /\ \/ /\ m.kind = "call"
          /\ pending' = pending \cup {<<m.blk, m.n>>}
          /\ UNCHANGED <<host, bgDone>>
       \/ /\ m.kind \in {"done", "doneBg"}
          /\ host' = "waiting"
          /\ bgDone' = (m.kind = "doneBg")
          /\ pending' = {}
       \/ /\ m.kind \in {"ready", "output", "tar"}
          /\ UNCHANGED <<host, bgDone, pending>>
    /\ UNCHANGED <<stopWaits, blk, cur, used, attempt, timer, res, outcome, got, tarOf, link,
                   up, box, codeVars>>

\* Mutant of WaitOutput: wait() returns without reading the workspace tar.
WaitOutputOnly(m) ==
    /\ host = "waiting"
    /\ HostRecv(m)
    /\ m.kind = "output"
    /\ got' = [got EXCEPT ![blk] = m.blk]
    /\ EndBlock("result")
    /\ UNCHANGED <<bgDone, tarOf>>

\* wait(): the OutputFrame, or a RuntimeError for any other frame.
WaitOutput(m) ==
    /\ host = "waiting"
    /\ HostRecv(m)
    /\ \/ /\ m.kind = "output"
          /\ got' = [got EXCEPT ![blk] = m.blk]
          /\ host' = "waitingTar"
          /\ UNCHANGED <<stopWaits, blk, cur, used, attempt, timer, res, pending, outcome, link,
                         up, box, codeVars>>
       \/ /\ m.kind # "output"
          /\ EndBlock("error")
          /\ UNCHANGED got
    /\ UNCHANGED <<bgDone, tarOf>>

\* wait(): the workspace tar; a text frame in its place is dropped silently.
WaitTar(m) ==
    /\ host = "waitingTar"
    /\ HostRecv(m)
    /\ tarOf' = [tarOf EXCEPT ![blk] = IF m.kind = "tar" THEN m.blk ELSE @]
    /\ EndBlock("result")
    /\ UNCHANGED <<bgDone, got>>

\* _handle_tool_call: the tool returned (or failed) by itself.
ReplyValue(id) ==
    /\ id \in pending
    /\ pending' = pending \ {id}
    /\ HostSend(Msg("value", id[1], id[2]))
    /\ UNCHANGED <<stopWaits, host, blk, cur, used, attempt, timer, res, bgDone, outcome, got,
                   tarOf, link, down, box, codeVars>>

\* _handle_tool_call: stop is set, the call is cancelled and answered.
ReplyStopped(id) ==
    /\ timer = "grace"
    /\ id \in pending
    /\ pending' = pending \ {id}
    /\ HostSend(Msg("stop", id[1], id[2]))
    /\ UNCHANGED <<stopWaits, host, blk, cur, used, attempt, timer, res, bgDone, outcome, got,
                   tarOf, link, down, box, codeVars>>

InFlight == host \in {"staging", "sendingRun", "looping", "waiting", "waitingTar"}

\* _run_attempt: timeout_seconds are over and the block has not ended.
TimeOut ==
    /\ "timeout" \in scene.faults
    /\ InFlight
    /\ timer = "armed"
    /\ timer' = "interrupting"
    /\ UNCHANGED <<stopWaits, host, blk, cur, used, attempt, res, bgDone, pending, outcome, got,
                   tarOf, link, up, down, box, codeVars>>

\* The InterruptFrame is sent (or cannot be), and only then is stop set.
Interrupt ==
    /\ timer = "interrupting"
    /\ timer' = "grace"
    /\ HostSend(Msg("interrupt", blk, 0))
    /\ stopWaits' = stopWaits \cup pending
    /\ UNCHANGED <<host, blk, cur, used, attempt, res, bgDone, pending, outcome, got,
                   tarOf, link, down, box, codeVars>>

\* The call returns to the model.
Report(o) ==
    /\ outcome' = [outcome EXCEPT ![blk] = o]
    /\ host' = "idle"
    /\ timer' = "off"
    /\ attempt' = 1 /\ res' = "none" /\ bgDone' = FALSE /\ pending' = {}
    /\ UNCHANGED <<stopWaits, blk, used, got, tarOf, up, box, codeVars>>

\* Mutant of GraceOver: the stopped block is awaited without a limit.
GraceNeverOver == FALSE /\ UNCHANGED vars

\* The block did not stop within the grace period.
GraceOver ==
    /\ InFlight
    /\ timer = "grace"
    /\ Discard
    /\ Report("notStopped")

\* The block ended with a result, before or after it was told to stop.
Settle ==
    /\ host = "ended"
    /\ res = "result"
    /\ \/ timer = "armed" /\ Report("ok") /\ UNCHANGED <<cur, link, down>>
       \/ timer = "grace" /\ ~bgDone /\ Report("stopped") /\ UNCHANGED <<cur, link, down>>
       \/ timer = "grace" /\ bgDone /\ Report("notStopped") /\ Discard

\* The block ended with a lost connection or a protocol error: the turn goes.
SettleFailed ==
    /\ host = "ended"
    /\ timer \in {"armed", "grace"}
    /\ \/ res \in {"ran", "unknown", "error"}
       \/ res = "notRun" /\ attempt = 2
    /\ Discard
    /\ Report(res)

\* Mutant of SettleNotRun: any loss is retried.
SettleAnyLoss ==
    /\ host = "ended"
    /\ timer \in {"armed", "grace"}
    /\ res \in {"notRun", "unknown", "ran", "error"}
    /\ attempt = 1
    /\ Discard
    /\ host' = "reconnecting"
    /\ timer' = "off"
    /\ UNCHANGED <<stopWaits, blk, used, attempt, res, bgDone, pending, outcome, got,
                   tarOf, up, box, codeVars>>

\* The code never reached the sandbox: discard the turn and try once more.
SettleNotRun ==
    /\ host = "ended"
    /\ timer \in {"armed", "grace"}
    /\ res = "notRun"
    /\ attempt = 1
    /\ Discard
    /\ host' = "reconnecting"
    /\ timer' = "off"
    /\ UNCHANGED <<stopWaits, blk, used, attempt, res, bgDone, pending, outcome, got, tarOf, up,
                   box, codeVars>>

Reconnect ==
    /\ host = "reconnecting"
    /\ StartSession
    /\ BeginAttempt(2)
    /\ UNCHANGED <<stopWaits, blk, pending, outcome, got, tarOf, up, down, codeVars>>

\* The fresh sandbox could not be started.
ReconnectFails ==
    /\ host = "reconnecting"
    /\ Report("notRun")
    /\ UNCHANGED <<cur, link, down>>

\* The call is cancelled: the turn stays, and nobody tells the sandbox.  Not modelled is a
\* cancellation while the InterruptFrame is sent: that send is outside the `try', so the
\* block's task is not cancelled with the call and goes on reading from the session.
CancelCall ==
    /\ "cancel" \in scene.faults
    /\ InFlight /\ timer # "interrupting"
    /\ Report("cancelled")
    /\ UNCHANGED <<cur, link, down>>
-----------------------------------------------------------------------------
(* The sandbox.                                                            *)

BoxSend(s, m) ==
    down' = [down EXCEPT ![s] = IF link[s] = "up" THEN Append(@, m) ELSE @]

BoxRecv(s, m) ==
    /\ up[s] # <<>>
    /\ m = Head(up[s])
    /\ up' = [up EXCEPT ![s] = Tail(@)]

\* _handle_connection: the tools are in place, announce readiness.
Boot(s) ==
    /\ box[s] = "boot"
    /\ BoxSend(s, Msg("ready", 0, 0))
    /\ box' = [box EXCEPT ![s] = "await"]
    /\ UNCHANGED <<hostVars, link, up, codeVars>>

\* _run_one_block: the workspace tar; a text frame between blocks is ignored.
AwaitTar(s, m) ==
    /\ box[s] = "await"
    /\ BoxRecv(s, m)
    /\ box' = [box EXCEPT ![s] = IF m.kind = "tar" THEN "awaitRun" ELSE "await"]
    /\ UNCHANGED <<hostVars, link, down, codeVars>>

\* The RunFrame: a fresh bridge, a pump, and a worker thread for the code.
AwaitRun(s, m) ==
    /\ box[s] = "awaitRun"
    /\ BoxRecv(s, m)
    /\ m.kind = "run"
    /\ box' = [box EXCEPT ![s] = "run"]
    /\ code' = [code EXCEPT ![s] = "entering"]
    /\ now' = [now EXCEPT ![s] = m.blk]
    /\ UNCHANGED <<hostVars, link, down, stop, woke, ncalls, bg, exec>>

\* The process of the sandbox is gone, and whatever it held with it.
Gone(s) ==
    /\ box' = [box EXCEPT ![s] = "exited"]
    /\ link' = [link EXCEPT ![s] = "down"]
    /\ up' = [up EXCEPT ![s] = <<>>]
    /\ code' = [code EXCEPT ![s] = "none"]
    /\ now' = [now EXCEPT ![s] = 0]
    /\ stop' = [stop EXCEPT ![s] = "none"]
    /\ woke' = [woke EXCEPT ![s] = "none"]
    /\ ncalls' = [ncalls EXCEPT ![s] = 0]
    /\ bg' = [bg EXCEPT ![s] = IF @ = "alive" THEN "none" ELSE @]
    /\ UNCHANGED <<hostVars, down, exec>>

\* Anything else in its place raises ValueError and ends the connection.
AwaitRunFails(s, m) ==
    /\ box[s] = "awaitRun"
    /\ up[s] # <<>>
    /\ m = Head(up[s])
    /\ m.kind # "run"
    /\ Gone(s)

\* Mutant of Pump: an InterruptFrame is kept like any other frame.
PumpKeepsInterrupt(s, m) ==
    /\ box[s] = "run"
    /\ BoxRecv(s, m)
    /\ IF m.kind \in {"value", "stop"} /\ code[s] = "blocked"
          /\ <<m.blk, m.n>> = <<now[s], ncalls[s]>>
       THEN /\ code' = [code EXCEPT ![s] = "running"]
            /\ woke' = [woke EXCEPT ![s] = m.kind]
       ELSE UNCHANGED <<code, woke>>
    /\ UNCHANGED <<hostVars, link, down, box, now, stop, ncalls, bg, exec>>

\* The pump hands a text frame to the block's RpcClient, which raises CodeTimeout
\* in a running block, wakes the code waiting for that reply, or keeps the frame.
\* The client's reader thread is one with the pump here, and a thread is marked as running
\* code from the code's first step; Interrupt has its lag and the window in between.
Pump(s, m) ==
    /\ box[s] = "run"
    /\ BoxRecv(s, m)
    /\ stop' = [stop EXCEPT ![s] =
                    IF m.kind # "interrupt" \/ code[s] = "ended" THEN @
                    ELSE IF code[s] = "entering" THEN "missed" ELSE "pending"]
    /\ IF m.kind \in {"value", "stop"} /\ code[s] = "blocked"
          /\ <<m.blk, m.n>> = <<now[s], ncalls[s]>>
       THEN /\ code' = [code EXCEPT ![s] = "running"]
            /\ woke' = [woke EXCEPT ![s] = m.kind]
       ELSE UNCHANGED <<code, woke>>
    /\ UNCHANGED <<hostVars, link, down, box, now, ncalls, bg, exec>>

\* run_block: the user's code starts.
CodeEnter(s) ==
    /\ code[s] = "entering"
    /\ code' = [code EXCEPT ![s] = "running"]
    /\ exec' = [exec EXCEPT ![now[s]] = IF @ = "no" THEN "started" ELSE "again"]
    /\ UNCHANGED <<hostVars, link, up, down, box, now, stop, woke, ncalls, bg>>

\* RpcClient.call: the code sends a ToolCallFrame and waits for its result.
CodeCall(s) ==
    /\ code[s] = "running"
    /\ stop[s] # "pending"
    /\ link[s] = "up"
    /\ ncalls[s] < scene.calls
    /\ ncalls' = [ncalls EXCEPT ![s] = @ + 1]
    /\ BoxSend(s, Msg("call", now[s], ncalls[s] + 1))
    /\ code' = [code EXCEPT ![s] = "blocked"]
    /\ UNCHANGED <<hostVars, link, up, box, now, stop, woke, bg, exec>>

FinishCode(s) ==
    /\ code' = [code EXCEPT ![s] = "ended"]
    /\ exec' = [exec EXCEPT ![now[s]] = IF @ = "started" THEN "finished" ELSE @]
    /\ UNCHANGED <<hostVars, link, up, down, box, now, woke, ncalls, bg>>

\* The code returns or raises by itself.
CodeEnd(s) ==
    /\ code[s] = "running"
    /\ stop[s] # "pending"
    /\ FinishCode(s)
    /\ UNCHANGED stop

\* CodeTimeout is raised in the code, which ends.
CodeStopped(s) ==
    /\ code[s] = "running"
    /\ stop[s] = "pending"
    /\ stop' = [stop EXCEPT ![s] = "raised"]
    /\ FinishCode(s)

\* ... or catches it and goes on.
CodeCatches(s) ==
    /\ code[s] = "running"
    /\ stop[s] = "pending"
    /\ stop' = [stop EXCEPT ![s] = "raised"]
    /\ woke' = [woke EXCEPT ![s] = "none"]
    /\ UNCHANGED <<hostVars, link, up, down, box, code, now, ncalls, bg, exec>>

\* The code starts a thread that outlives it (bound: one per sandbox).
Spawn(s) ==
    /\ "background" \in scene.faults
    /\ code[s] = "running"
    /\ bg[s] = "none"
    /\ bg' = [bg EXCEPT ![s] = "alive"]
    /\ UNCHANGED <<hostVars, link, up, down, box, code, now, stop, woke, ncalls, exec>>

\* That thread calls a tool, at any time, and ends (bound: one call).
BackgroundCall(s) ==
    /\ bg[s] = "alive"
    /\ bg' = [bg EXCEPT ![s] = "over"]
    /\ BoxSend(s, Msg("call", 0, 0))
    /\ UNCHANGED <<hostVars, link, up, box, code, now, stop, woke, ncalls, exec>>

\* run_block returned: the pump is cancelled and the DoneFrame sent.
SendDone(s) ==
    /\ box[s] = "run"
    /\ code[s] = "ended"
    /\ BoxSend(s, Msg(IF bg[s] = "alive" THEN "doneBg" ELSE "done", now[s], 0))
    /\ box' = [box EXCEPT ![s] = "output"]
    /\ code' = [code EXCEPT ![s] = "none"]
    /\ stop' = [stop EXCEPT ![s] = "none"]
    /\ woke' = [woke EXCEPT ![s] = "none"]
    /\ ncalls' = [ncalls EXCEPT ![s] = 0]
    /\ UNCHANGED <<hostVars, link, up, now, bg, exec>>

\* Mutant of SendOutput: the workspace goes before the output.
SendOutputLate(s) ==
    /\ box[s] = "output"
    /\ BoxSend(s, Msg("tar", now[s], 0))
    /\ box' = [box EXCEPT ![s] = "tar"]
    /\ UNCHANGED <<hostVars, link, up, codeVars>>

SendOutput(s) ==
    /\ box[s] = "output"
    /\ BoxSend(s, Msg("output", now[s], 0))
    /\ box' = [box EXCEPT ![s] = "tar"]
    /\ UNCHANGED <<hostVars, link, up, codeVars>>

SendTar(s) ==
    /\ box[s] = "tar"
    /\ BoxSend(s, Msg("tar", now[s], 0))
    /\ box' = [box EXCEPT ![s] = "await"]
    /\ now' = [now EXCEPT ![s] = 0]
    /\ UNCHANGED <<hostVars, link, up, code, stop, woke, ncalls, bg, exec>>

\* Mutant of BoxExit: a disconnect is noticed only between blocks.
BoxExitBetween(s) ==
    /\ link[s] = "down"
    /\ box[s] \in {"boot", "await", "awaitRun"}
    /\ Gone(s)

\* serve: the socket closed, so the process exits, even with code running.
BoxExit(s) ==
    /\ link[s] = "down"
    /\ box[s] # "exited"
    /\ Gone(s)

\* The connection breaks: what had not arrived yet, in either direction, is lost.
Drop(s, i, j) ==
    /\ "drop" \in scene.faults
    /\ link[s] = "up"
    /\ link' = [link EXCEPT ![s] = "down"]
    /\ up' = [up EXCEPT ![s] = SubSeq(@, 1, i)]
    /\ down' = [down EXCEPT ![s] = SubSeq(@, 1, j)]
    /\ UNCHANGED <<hostVars, box, codeVars>>
-----------------------------------------------------------------------------
Heads(q) == IF q = <<>> THEN {} ELSE {Head(q)}

\* What the host's event loop does as soon as it can.
HostStep ==
    /\ \/ StageInputs \/ SendRun \/ ConnectionLost \/ Interrupt
       \/ cur # 0 /\ \E m \in Heads(down[cur]) :
              LoopFrame(m) \/ WaitOutput(m) \/ WaitTar(m)
       \/ Settle \/ SettleFailed \/ SettleNotRun \/ Reconnect
    /\ UNCHANGED scene

\* Timeouts, which expire if nothing else happens first.
Timers == (TimeOut \/ GraceOver) /\ UNCHANGED scene

\* What the sandbox's event loop and threads do as soon as they can, but for the
\* user's code, which may take its time or never end.
BoxStep(s) ==
    /\ \/ Boot(s) \/ CodeEnter(s) \/ SendDone(s) \/ SendOutput(s) \/ SendTar(s)
       \/ BoxExit(s)
       \/ \E m \in Heads(up[s]) :
              AwaitTar(s, m) \/ AwaitRun(s, m) \/ AwaitRunFails(s, m) \/ Pump(s, m)
    /\ UNCHANGED scene

CodeStep(s) ==
    /\ \/ CodeCall(s) \/ CodeEnd(s) \/ CodeStopped(s) \/ CodeCatches(s) \/ Spawn(s)
       \/ BackgroundCall(s)
    /\ UNCHANGED scene

TurnOver ==
    /\ host = "idle" /\ blk = NBlocks
    /\ UNCHANGED vars

Stops == (\E id \in pending : ReplyStopped(id)) /\ UNCHANGED scene

\* What may happen at any time.
Events ==
    /\ \/ NextBlock \/ ReconnectFails \/ CancelCall
       \/ \E id \in pending : ReplyValue(id)
       \/ \E s \in Sess : \E i \in 0 .. Len(up[s]), j \in 0 .. Len(down[s]) : Drop(s, i, j)
    /\ UNCHANGED scene

Next ==
    \/ HostStep \/ Timers \/ Stops \/ Events
    \/ \E s \in Sess : BoxStep(s) \/ CodeStep(s)
    \/ TurnOver

Fairness ==
    /\ WF_vars(HostStep) /\ WF_vars(Timers) /\ WF_vars(Stops)
    /\ \A s \in Sess : WF_vars(BoxStep(s))

Spec == Init /\ [][Next]_vars
FairSpec == Spec /\ Fairness
-----------------------------------------------------------------------------
(* Properties.                                                             *)

\* At most once, and no false report: the protocol implements BlockContract.
Contract == INSTANCE BlockContract WITH Blocks <- Blocks, exec <- exec, outcome <- outcome
AtMostOnceTruthful == Contract!Spec

\* Even when calls are cancelled and code leaves threads behind, a block's code never
\* runs twice, and never runs when its caller was told it did not: NOT_RUN is the one
\* state that permits a retry, and the retry goes to a fresh sandbox.
RunsAtMostOnce ==
    \A b \in Blocks :
        /\ exec[b] # "again"
        /\ outcome[b] = "notRun" => exec[b] = "no"

\* No call of the turn was cancelled, and no left-behind thread has called a tool.
NoneCancelled == \A b \in Blocks : outcome[b] # "cancelled"
NoneIntruded == \A s \in Sess : bg[s] # "over"

\* "The WS never desyncs": a result carries the output and the workspace of its own
\* block, not those of an earlier block of the same connection.
NeverDesyncs ==
    \A b \in Blocks : outcome[b] \in {"ok", "stopped"} => got[b] = b /\ tarOf[b] = b

\* So it is as long as no call is cancelled and no left-behind thread calls a tool,
\* whatever is stopped, lost or retried.
OwnOutput == NoneCancelled /\ NoneIntruded => NeverDesyncs

\* Code that is waiting on a tool call when its block is told to stop wakes to the
\* stop, not to the cancellation of the call: when the reply of the cancelled call
\* reaches it, CodeTimeout is already pending in its thread.
WakesToStop ==
    \A s \in Sess :
        code[s] = "running" /\ woke[s] = "stop" /\ <<now[s], ncalls[s]>> \in stopWaits
        => stop[s] \in {"pending", "raised"}

\* As long as no call is cancelled and no left-behind thread calls a tool, the frames of
\* a connection are what the host expects: wait() never raises "expected OutputFrame".
NoProtocolError ==
    NoneCancelled /\ NoneIntruded => \A b \in Blocks : outcome[b] # "error"

\* Every execute_code call returns, however its code and the network behave.
EveryBlockReturns == host # "idle" ~> host = "idle"

\* Code waiting for a tool is woken by a reply, or its sandbox ends: no tool that
\* hangs, dropped reply or cancelled call keeps it waiting for ever.
BlockedCodeWakes == \A s \in Sess : code[s] = "blocked" ~> code[s] # "blocked"
=============================================================================
