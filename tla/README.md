# adk-code-mode: a TLA+ verification project

`adk-code-mode` gives an ADK agent one tool, `execute_code`.  The model writes a block of
Python; the block runs in a sandbox container, and calls the agent's other tools through
generated stubs that send a frame to the host and wait for its reply.  A sandbox is held for
one *turn* (one ADK invocation) and shared by the turn's blocks.

Paths below are relative to the repository; `tool.py` is `src/adk_code_mode/tool.py`,
`remote.py`, `docker.py` and `protocol.py` are in `src/adk_code_mode/runtime/`, and
`_http_server.py`, `_entry.py`, `_rpc_client.py`, `_interrupt.py` are in
`sandbox-wheel/src/adk_code_mode_sandbox/`.

## 1. Inventory

| Component | State | Operations | Talks to | Hard because |
| --- | --- | --- | --- | --- |
| **Turn sessions** (`ExecuteCodeTool`, `_TurnSession` in `tool.py`) | `_turns`, a lock per context, `in_use`/`last_used` per session, workspace directories, a reaper task | `run_async`, `release_invocation`, `_create_turn`, `_discard_turn`, `_reap_once` | backend `start`/`close`, block execution | one event loop, but every `await` lets other calls, a release and the reaper in; failures at each of them |
| **Block execution** (`_run_block_reconnecting`, `_run_attempt`, `_run_block`, `_host_loop`, `_handle_tool_call`) | attempt, timer, `code_sent`, `done`, pending tool calls, `stop` event | send and receive frames, dispatch calls, interrupt, retry once | session over WebSocket or TCP, dispatcher | timeouts race results; what is known when a connection drops; cancelled calls |
| **Remote session** (`remote.py`) | the WebSocket, the workspace path | `_connect` with retries, `begin_block`, `send`, `frames`, `wait`, `close` | sandbox server | a fixed frame order and nothing in a frame that says which block it belongs to |
| **Docker session** (`docker.py`) | container, listener, socket, send lock, tools directory | `start`, `_accept_connection`, `send`, `_next_frame`, `wait`, `close` | container entry point | accept loop under a deadline that strangers share, sends of several tasks, cancellation at every `await` |
| **Sandbox server** (`_http_server.py`) | `accepted`, `stop`, the connection's globals | `process_request`, `handler`, `_run_one_block`, `_pump_ws_to_reader` | host, worker thread, RPC client | one connection only; exits with user code still running |
| **Block runner** (`_entry.py`) | globals, captured streams | `run_block`, `_exec_into`, `_has_background_work` | interrupt, RPC client | an asynchronous exception at any bytecode |
| **Interrupt** (`_interrupt.py`) | `_running_thread`, a pending asynchronous exception | `running`, `interrupt` | reader thread, worker thread | two threads, and an exception delivered after it is set |
| **RPC client** (`_rpc_client.py`) | `_pending_results`, `_general_frames`, `_closed_error` | `send`, `recv`, `call`, `_read_loop` | pump, user threads | several threads wait on one condition for replies in any order |
| **Dispatcher** (`tools/dispatcher.py`, `tool_result_artifacts.py`, `tool_failures.py`) | call counter, merge lock, artifact delta, session state | `dispatch`, callback chain, merge | ADK plugins, agent callbacks, tools | concurrent calls, timeouts, callbacks that replace results, partial failure |
| **Tool surface** (`_get_or_resolve_tools`, `normaliser.py`, `namespacing.py`, `stubs.py`) | `_resolved_tools` cache, the surface of each turn | resolve, name, render, look up | toolsets | resolved concurrently by `process_llm_request` and `run_async`; name collisions among tools, paths, files and directories |
| **Workspace** (`_TurnWorkspace`, `workspace/files.py`) | `baseline_hashes` | `collect_outputs` | file system | baseline advanced before the files are saved |
| **Catalog, metadata, output, artifact tools** | a process-wide metadata cache; the rest has no state | rendering, truncation | - | pure text, no control |
| **Images, CI, tests, examples** | - | - | - | - |

What makes each component correct:

* turn sessions: a lookup finds only a live session of its invocation; nothing is orphaned,
  reaped while used, or started twice for a turn; everything is given back in the end;
* block execution: the code runs at most once; the result never says more than is known; a
  stop wakes code waiting on a tool as a stop; every call returns; output is the block's own;
* interrupt: a stop reaches the block it was meant for and nothing else;
* RPC client: each caller gets its own reply or the closing error, and no caller waits for ever;
* dispatcher: what is merged of a call is what the sandbox is told of it, and a tool is skipped
  exactly if the answer of a callback before it counts;
* results: the hook hears of what the calls merged, and a changed file is reported and saved once;
* tool surface: what a model has read about is what its code imports, and calls arrive.

## 2. Modules

| Module | Models | Checked by |
| --- | --- | --- |
| `TurnSessions.tla` | turn registry, calls, release, reaper | `turns`, `turns_*` |
| `MCTurnSessions.tla` | instances: which call runs in which context and invocation | `turns`, `turns_*` |
| `TurnSessions_proofs.tla` | inductive invariants and theorems | TLAPS |
| `BlockContract.tla` | abstract: what a result promises of the code | as `AtMostOnceTruthful` |
| `BlockProtocol.tla` | host and sandbox of one turn over the WebSocket; implements `BlockContract` | `block_*` |
| `MCBlockProtocol.tla` | instances: which faults may meet in one run | `block_*` |
| `BlockProtocol_proofs.tla` | its inductive invariants, and that it implements `BlockContract` | TLAPS |
| `Interrupt.tla` | the asynchronous stop of a block | `interrupt` |
| `Interrupt_proofs.tla` | its inductive invariant | TLAPS |
| `RpcClient.tla` | the sandbox's demultiplexing of frames to threads | `rpc` |
| `RpcClient_proofs.tla` | its inductive invariants: waking, replies, frames, refusals | TLAPS |
| `SandboxServer.tla` | connect with retries, single-use containers | `server` |
| `SandboxServer_proofs.tla` | `SingleUse` and the types | TLAPS |
| `DockerSession.tla` | the Docker backend's start, send and close | `docker` |
| `DockerSession_proofs.tla` | `OwnSocket` and `WholeFrames` | TLAPS |
| `Dispatcher.tla` | callback chain, answers and merge of a block's tool calls | `results` |
| `Results.tla` | what one `execute_code` call after another leaves in the session: `Dispatcher` composed with the workspace | `results` |
| `Results_proofs.tla` | the inductive invariants of both | TLAPS |
| `ToolSurface.tla` | resolution, names, stubs and caching of the tools code can import | `surface` |
| `MCToolSurface.tla` | instances: small tool surfaces that collide and hide each other | `surface` |
| `ToolSurface_proofs.tla` | its inductive invariant | TLAPS |

### TurnSessions

All host code runs on one asyncio loop, so an action is the code between two awaits.  A
call's `pc` is the await it is at.  `lock[x]` is the holder of the context's `asyncio.Lock`;
the fast path without an await (lock, lookup, `mark_in_use`) is one action, `ReuseTurn`.
Two variables hold what the code calls `turn`: `turn[c]` is the local of
`_run_async_locked`, which its `finally` marks idle, and `att[c]` the local of
`_run_block_reconnecting`, which a reconnect rebinds.  That they can differ is the whole
point of `OnlyReconnectsStrand`.  A session is `opening` while `backend.start` is awaited and
`closed` once `session.close()` has been called; `dirs` are the workspace directories on
disk, removed when `aclose` has returned.  A block is one step with the outcomes
`_run_block_reconnecting` distinguishes: a result, a discarding failure (timeout,
`RuntimeError`, code that may have run), a loss before the code ran, or an error nobody
catches.  The last one and cancellation are switched by `Faults`.  A cancellation that lands in an
`aclose`, of a call that discards its session or of `release_invocation`, is an action of its own
(`CancelDiscard`, `CancelRelease`): the directory is not removed, and the history `cut` remembers the
session, so that `Reclaimed` can except these sessions and no others.  Real time is one bit per
session, `aged`: the last use is longer ago than the idle timeout.

### BlockProtocol and BlockContract

`BlockContract` says what one call promises: code starts at most once, never after the model
was told it did not run, and the report allows the actual state of the code.
`BlockProtocol` has the host's task as a program counter (`host`), the timer of
`_run_attempt` (`armed`, `interrupting` between the timeout and the send, `grace` once `stop`
is set), two FIFO queues per connection, and the sandbox's server loop (`box`), worker thread
(`code`) and asynchronous exception (`stop`).  Frames carry the number of their block only so
that properties can ask whose they are: no guard of the host reads it, because the code's
frames have no such field (a tool call's id is the pair of block and call number).  A drop
loses any suffix of what is in flight in either direction, so the host may have sent a
`RunFrame` that never arrives, and may have been sent a `DoneFrame` it never sees.

### Interrupt

`pc` is the bytecode region the pool thread is in; `mark` is `_running_thread`, `exc` the
exception CPython holds for the thread, with the number of the block whose reader set it.
`Strike` and `Stray` are its delivery inside `running()` and outside it: CPython may deliver at
any bytecode of Python code, so both are choices.  `struck` is history.  One pool thread runs
all blocks, which is what an executor with one job at a time does.

### RpcClient

Each thread is `idle`, about to look at the shared state (`ready`), or waiting on the condition.
Critical sections under `_state_lock` are single actions, and releasing the lock in `wait()` is the
end of one.  `Stopped` is an asynchronous stop in the main thread while it is in `call`, before or after
it has taken its reply out of the table.  The host answers calls in any order, drops them at the
end of a block, or closes.

### SandboxServer

An attempt of a host is a connection `<<host, n>>`.  The platform in front of the containers may
route it to any container that is up, so `Dial` chooses.  `server` is the server's end: a
request is looked at by `process_request` (`Refuse`, `Accept`), and if let in the library
completes the upgrade later, which may fail.  `accepted` and `stop` are per container, and
`Exit` is `os._exit`.

### DockerSession

`pc` is where the session's task is: in `start` (`creating`, `accepting`), `open`, in `close`
(`closing` while the `ShutdownFrame` goes out, `killing`), or over; `thread` is what the executor
thread it waits for does, which runs on when the task is cancelled.  A frame passes the socket in
two pieces, the least that shows a `sock_sendall` that has sent part of it.  Connections are the
container's or another process's.  `torn` and `orphaned` are history, for the exceptions
properties name.

### Dispatcher

`at[c]` is the hook a call is suspended in, `nth[c]` the index in an agent's list of callbacks.
Answers are `None`, an empty value, or another value, which is all the control flow tells apart.
From its last `await` to its answer a call runs without suspending, checks and merge included, and
that is the action `Conclude`; `_merge_lock` is never held across an `await`.  `saved` is the call's own
`artifact_delta`, `newest` what the artifact service holds.  A timeout and a cancellation
may come at any await; tools are assumed to end when cancelled.

`answer` is the `DispatchResult`, and `reply` the frame `_handle_tool_call` makes of it, a step later:
the value or the error, the fallback error if that one cannot be encoded or sent, or none, if the
fallback cannot be sent either or the block ends first.  `Stop` is the stop of the block, which
cancels a call and lets it be answered; `Drop` the end of the block, which cancels it unanswered.
`veto` is the history of what the before callbacks have answered, with `overruled` for a false
answer of the agent's that was followed by `None`.

### Results

`Results` extends `Dispatcher`: its variables are those of the present block's Dispatcher, and
`BeginCall` makes a new one.  `phase` is where `run_async` is, and `released` says that
`release_invocation` took the turn away under the running block: the workspace is gone, but the block may
still end with a result, of which `collect_outputs` then finds nothing.  `collect_outputs` does not await, but
the sandbox can write while it runs (`Write`), so the walk (`BlockReturns`), each hash (`Look`), each
read (`Read`) and the new baseline (`Advance`) are steps of their own.  A hash stands for the
content it was made of.  `todo` are the files read and not saved, `kept` what the newest artifact of
each name holds.  The histories `touched` and `fresh` say which files were written since the baseline
took them in and since they were hashed; `excused` has the files that the session lacks for one of
the reasons `ChangesSaved` names.

### ToolSurface

A surface is the list of `NamespacedTool`s that `build` returns.  Names are abstract: `Attribute` and
`Parameter` stand for the two functions that make Python identifiers, and a raw name or a path is
the sequence of what stands between its dots, so that a raw name can look like a path.  Of a tool
the model knows its parameters, which are required and which of those have a default, whether they
are declared by `parameters` or by `parameters_json_schema`, and whether its description breaks a
docstring.  A request is a task in `process_llm_request` or `run_async`; `ResolveInput` is one await
of a toolset.  An entry of `_WeakContextCache` lives as long as its context, which `Renew` replaces.

## 3. Runs

| Run | Expect | Properties | What it shows |
| --- | --- | --- | --- |
| `turns` | pass | `TypeOK`, `RegisteredIsOpen`, `NoOrphan`, `ReaperSparesUsed`, `OneContainerPerTurn`, `OnlyReconnectsStrand`, `SwitchOnlyFromClosed`, `Reclaimed` | Two calls of one invocation and one of another, with failing starts, lost blocks, escaping errors and cancellations, against release_invocation and the reaper: lookups only ever find live sessions of their own invocation, none is orphaned or reaped under a block, each turn has one container, and under fair scheduling every session and its directory are given back, even if release_invocation is never called, but for a session stranded by a failed reconnect and one whose aclose was itself cancelled. |
| `turns_stranded` | violation | `AlwaysReclaimed` | A reconnected attempt that raises an error nobody catches leaves its session marked in use for ever: the reaper is no backstop for it. |
| `turns_branches` | violation | `OneContainerPerTurn` | Two agents that share an invocation but not an InvocationContext take different locks and start two containers for one turn. |
| `block_fair` | pass | `WakesToStop`, `AtMostOnceTruthful`, `EveryBlockReturns`, `BlockedCodeWakes` | One block with two tool calls, drops and timeouts under fair scheduling: the call returns whatever code, tools and network do, code waiting for a tool is woken, by the stop if there is one, and the protocol implements the contract: the code runs at most once and the result never claims more than is known. |
| `block_faults` | pass | `TypeOK`, `OwnOutput`, `RunsAtMostOnce`, `NoProtocolError` | Two blocks of one turn, either with connections that may break at any point, losing any suffix of what is in flight each way, or with blocks that are stopped, cancelled or leave a thread behind: however confused the connection becomes, no block's code runs twice, only cancelled calls and intruding threads confuse it, and without them results carry their own block's output. |
| `block_cancel` | violation | `NeverDesyncs` | A cancelled call leaves its block running on a turn that is kept: the next block takes the frames of the cancelled one for its own. |
| `interrupt` | pass | `OnlyStrikesStray` | Three blocks on one worker thread, each told to stop once, with reader threads that may lag behind: outside running() no stop is pending and the worker is not marked, unless a stop once fired inside running() itself. |
| `rpc` | pass | `TypeOK`, `NoLostWakeup`, `RepliesWanted`, `ReplyBeatsClose`, `FramesInOrder`, `EveryCallEnds` | The main thread, two threads it started and two general frames, with replies in any order, a stop that pulls a thread out of its wait, and a channel that closes: no thread sleeps past what it waits for, the reply table holds only what somebody wants, and every call ends. |
| `server` | pass | `TypeOK`, `SingleUse`, `DisconnectExits`, `StartEnds` | Two hosts with two attempts each, one without the token, and a stray client over two containers: no container lets two connections in, start() ends even if containers never answer, and a container whose client is gone exits even if its code never ends. |
| `results` | pass | `ResultsTypeOK`, `EffectsMatchAnswers`, `CallbacksGuard`, `ChangesSaved`, `ReportsOwnChanges`, `HookSeesDelta` | Two execute_code calls, the first with two concurrent tool calls, over a workspace that is written to all the while, with failing reads and saves, replies that fail or are lost, releases and lost blocks, and cancellations, and with two callbacks in each of the agent's lists: what is merged is what the sandbox was told, a before callback stands in for the tool exactly if its answer counts, the hook hears of what was merged, and a changed file is reported once, and lost only for the reasons named. |
| `surface` | pass | `TypeOK`, `OneSurfacePerContext`, `StubCallsArrive` | Two requests, catalogs and blocks, of two InvocationContexts whose toolsets answer anew each time: each context has one surface per invocation, and what its code imports is the tool the catalog showed, with the arguments it was given. |
| `docker` | pass | `OwnSocket`, `WholeFrames`, `StartEnds`, `Reclaimed` | Two tasks that send and close() share a socket of two pieces, while other processes connect, the container dies and start, send and close are cancelled: the session is on its own container's connection, frames arrive whole unless a send was cancelled half-way, start() ends, and nothing is left behind but by two cancellations. |

Bounds.  `turns`: two calls of one invocation show every hand-over of a turn, the
third, of another invocation, every confusion between turns, and gives the reaper two turns
to find in one scan; two sessions are enough for a reconnect, and when the pool is used up
`StartTurn` is disabled and the start can only fail.  The run is small because it checks
liveness as well; its safety properties are proved for any number of sessions (section 5).
`block_*`: two
blocks are needed for frames of one to reach the other; two sessions per block are all its two
attempts can use, so the assumption on `NSessions` loses nothing; one tool call per block shows each race
of reply, stop and end, and two (in `block_fair`) a reply that comes after a stopped one.  Faults
are combined where the questions meet; each combination is a scenario of `MCBlockProtocol`, and a
run begins in any of its scenarios.

Fairness.  `TurnSessions!FairSpec`: asyncio runs ready tasks, so a call past its lock and the
reaper's rounds make progress; `backend.start`, a block and `close()` are awaited under
timeouts of their own; time passes (`Age`).  A new call or a release is never assumed.  The
execution lock is granted by weak fairness only, which is enough as calls are finite.
`BlockProtocol!FairSpec`: the host's loop, the sandbox's loop and its timers move when they
can; user code and tools are given no fairness at all, since they may never end.  Only the
`stop`-triggered reply of a pending call is fair.
`interrupt`: three blocks let a stop of the first be handled in the second and its mark be found
in the third.  `rpc`: three threads are the least for a wake-up to go to the wrong one of two
waiting.  `server`: two attempts of two hosts over two containers put a retry, a stale
connection and a stranger at one container.  `results`: two tool calls interleave in every way that
matters, because only the merge is shared; a second `execute_code` call is the least that sees a
baseline, and has no tool calls of its own, since what it could merge it starts afresh; two
contents let a file change and change back; the one file has the name of the one artifact, which
is the case that needs care; two callbacks in each of the agent's lists are the least with one that
ran before the last.  `surface`: two requests can overtake each other between the two looks
into the cache, two contexts share an invocation or not, and the configurations are one for each
way in which names, descriptions and parameters meet.  It uses symmetry in contexts, invocations and
requests, which it may as it checks invariants only and no configuration names one of them.  `docker`: two frames are the least that can tear each other, a socket of two pieces
can be full with a frame half sent.  All the counters in these modules are bounds named in their `CONSTANTS`.

`DockerSession!FairSpec`: executor threads end, because docker, the handshake and the accept
deadline have timeouts; a task that waits for `_lock` is not overtaken for ever (asyncio's lock
is first come, first served).  Nothing is assumed of the sandbox; `Reclaimed` says itself that
it needs a socket with room.

`RpcClient!FairSpec`: threads that are ready run, the reader reads, and the host answers every
call or closes the channel; that a call's thread is stopped is not assumed.
`SandboxServer!FairSpec`: a host's timeouts expire and it closes its sessions in the end (that is
`TurnSessions!Reclaimed`), and the server learns of a closed socket and exits.  Whether a
container ever answers a request is *not* assumed there, so `StartEnds` rests on
`connect_timeout` alone.

## 4. What the checks found

* **`OneContainerPerTurn`** (`turns_branches`, doc code divergence, src/adk_code_mode/tool.py:471). The execution lock is kept per InvocationContext (tool.py:470-475) while turns are kept per invocation_id (tool.py:400, 653). ADK gives each branch of a parallel agent its own copy of the InvocationContext with the same invocation_id, so two first calls both find no turn, both start a container, and the second overwrites the first in _turns. README.md:291 says "cold start is paid at most once per turn" and README.md:401 "One container per turn (one tenant, one invocation)".
* **`AlwaysReclaimed`** (`turns_stranded`, code bug, src/adk_code_mode/tool.py:625). After a reconnect the fresh turn is marked in use (tool.py:625), but the caller's `turn` is only rebound when the block returns (tool.py:411); if the second attempt raises anything _run_block_reconnecting does not catch (a ValueError of a size limit, a ProtocolError, a cancellation), the finally marks the discarded turn idle (tool.py:450) and the fresh one stays registered and in use for ever. README.md:279 says of the idle reaper "Backstop for turns that never call `release_invocation`."
* **`NeverDesyncs`** (`block_cancel`, code bug, src/adk_code_mode/tool.py:568). When execute_code is cancelled, _run_attempt cancels the task (tool.py:568-570) but neither stops the sandbox nor discards the turn; the next block of the turn sends its tar and RunFrame to a sandbox that is still running the old block, and takes the old block's DoneFrame, OutputFrame and workspace for its own. remote.py:160-161 says the frame order "stays fixed and the WS never desyncs".

The same modules show further behaviour that a reader of the code may not expect.  Where a
property had to be weakened for it, the weakening is the precise statement:

* Two contexts of one invocation that do share a session share its one `in_use` flag: the
  `mark_idle` of the call that ends first lets the reaper close the container under the other
  (`ReaperSparesUsed` fails on the instance of `turns_branches`).
* A thread that user code left behind can send a `ToolCallFrame` between the `DoneFrame` and the
  `OutputFrame`; `wait()` then raises and the turn is discarded (`remote.py` 200-202).  This is
  what `NoneIntruded` excludes in `NoProtocolError`.
* A stop that fires inside `running()` itself, before its `try` or in its `finally`, leaves
  `_running_thread` set; a stop handled later may then be raised in the sandbox's own code
  (`_interrupt.py` 49-58).  This is the `struck` of `OnlyStrikesStray`.
* `process_request` sets `accepted` before the library finds that a request is no WebSocket
  upgrade (`_http_server.py` 136).  Such a request, on any path but `/health`, is refused by the library,
  no handler runs, and the container answers Busy until its platform stops it.  `DisconnectExits`
  therefore starts from `handled`.
* The loops over the agent's before and after callbacks end at the first answer that is *true*,
  and the answer of the callback that ran last counts (`dispatcher.py` 199-207, 224-236): after an
  empty dict from one and `None` from the next, the tool runs.  The header of the module says "first
  non-`None` wins" of the one list and "first non-`None` replaces result" of the other
  (`dispatcher.py` 14 and 20), which holds of true answers only.  `CallbacksGuard` states what the
  code does, over two callbacks in each list: `overruled` is the answer the header would let win.
* A call that fails leaves what it has done so far: what its tool wrote to `session.state` is in the
  live state at once, and an artifact it saved is in the service.  Neither is merged or reported,
  which is all that `EffectsMatchAnswers` promises.
* A merged call may be answered with an error or not at all: its value cannot be encoded (a lone
  surrogate, `protocol.py` 180), the frame is too large, or the reply is cancelled with the block
  (`tool.py` 1011-1026).  `EffectsMatchAnswers` is about values and the call's own errors.
* `release_invocation` does not wait for a block that runs: the workspace is removed under it, and if
  the block ends with a result all the same, its output files are lost without a word (`DropUnderCall`).
* A close that is cancelled in `session.close()`, in a call that discards its turn or in
  `release_invocation`, leaves the workspace directory on disk for ever (`tool.py` 785-792).  This is
  `cut` in `Reclaimed`.
* A truncated stream is longer than its limit: the notice between head and tail is 21 characters, of
  which `_head_tail` counts 20, and none where the head leaves no room (`output.py` 89-95).
* Under Docker, a tool's reply that is cancelled inside `sock_sendall` (the block is done or is
  stopped) has sent part of a line and releases `_lock`; the next frame continues that line, the
  sandbox cannot decode it, and its reader ends (`docker.py` 274-276).  `WholeFrames` excepts it.
* Under Docker, `close` sends a `ShutdownFrame` first and without a timeout (`docker.py` 334).  If
  the sandbox has stopped reading and the socket is full, it never gets to the kill, and the
  turn's caller waits with it; `Reclaimed` assumes `[]<>Room`.  Cancelling that `close` does not
  help, as `_closed` is already set.
* A `start` of the Docker backend that is cancelled while the executor thread creates the
  container never removes it (`docker.py` 167): `orphaned` in `Reclaimed`.
* The baseline is advanced before the files are saved (`tool.py` 759 and 441): if truncation
  raises, or a save fails or is cancelled, the files left are never reported again.  A file that
  changes between its hash and its content is saved, and then saved once more by the next block.
  The files are read in one go; one that disappears before it is read makes `run_async` raise
  `FileNotFoundError`.
* A description with three quotes, or with an escape such as `\x` that is none, makes its stub a
  `SyntaxError` (`stubs.py` 533), and `from tools...` fails for its whole namespace, or for every
  tool if it is a top-level one.  So does the default of a required parameter whose `repr` is no
  expression (`stubs.py` 286, 603).  `StubCallsArrive` excepts them.
* `ToolResultArtifactTool` looks for parameters of its own name in `parameters` only (`tool_result_artifacts.py`
  156-160), and the declaration it makes for a tool with a `parameters_json_schema` is rendered
  from the schema alone (`stubs.py` 106).  Such a tool's own `artifact_name` is taken from it, and
  the two added parameters cannot be given.  `StubCallsArrive` excepts the first.
* Two contexts of one invocation resolve their tools each for itself, although the turn is one:
  the code of the second imports what the first resolved (`tool.py` 400, 487).
  `OneSurfacePerContext` is therefore about the surfaces resolved for a context.
* Artifacts a call has saved before it fails or times out are not in the delta
  `on_artifacts_saved` gets, and of two calls that save under one name the one merged last is
  reported, which may be the older version (`dispatcher.py` 178-180).
  `EffectsMatchAnswers` promises a version that a successful call saved, no more.

## 5. Proofs

`TurnSessions_proofs.tla` proves every safety property of `turns` for any number of
calls, contexts, invocations and sessions, from `TurnAssumption` alone for the first four
theorems and from `OneContextPerInvocation` as well for the last three.  `turns_branches`
shows that the assumption is necessary.

The argument.  `RegisteredIsOpen` is not inductive: a step that closes a session must know
that no other entry of `_turns` points to it.  `HostInv` therefore ties the parts together:
what each program counter says of `att[c]` and `turn[c]` (`CallInv`), that sessions being
closed are closed or no longer registered (`CloserInv`), that a session starting belongs to
the one call that awaits it, and that `_turns` maps an invocation only to an open session it owns.
It is proved inductive without any assumption on contexts.  `SerialInv` adds what the lock
gives when an invocation has one context: at most one call of an invocation is past its
lookup (`LockSeparates`), the session it works on is registered unless released, and it is
marked in use, which is what keeps the reaper away.  Both invariants are also checked by TLC
on the small instance before they are proved.
`Interrupt_proofs.tla`: the invariant adds to `OnlyStrikesStray` that the mark is gone before the
pending stop is dropped.  This is why the order of the two statements in the `finally`, and the
lock around both, are enough for any lag of a reader.

`RpcClient_proofs.tla`: `NobodyOversleeps` holds because what a waiter waits for only appears
in the reader's critical section, which wakes everyone.  `NoReplyLeftBehind` needs that every
call's id is used once, so that a call in flight, a reply in the channel and a reply in the
table exclude each other.  `FramesArriveInOrder` counts: what `recv` has returned, what is in
`_general_frames` and what is on the wire are consecutive, so the first frame on the wire is the
next one (`NoGap`, `Ahead`).  `RepliesBeatTheClose` needs to know that a refused call's reply
cannot come into the table later (`Refusals`): a failed send has sent nothing, and after the close
nothing is read.

`BlockProtocol_proofs.tla` proves every safety property of the `block_*` runs, for any number of
blocks, sandboxes and calls, and any combination of faults, from `BlockAssumption` alone.  It rests
on lemmas that say what kinds of steps there are for one part of the state (`RunSteps`,
`ConnectionSteps`, `UpSteps`, `CodeSteps` and so on); an invariant is proved over
these kinds, of which there are four or five, and not over the thirty and more actions.

* `Types` and `Shape`: the frames in flight are the protocol's; what the host's place says of its
  timer, session, result and pending calls, and that the worker thread is there exactly while
  `_run_one_block` waits for it.
* `BlocksRunAtMostOnce` from `RunInv`: a block's `RunFrame` is in flight once or its block is in one
  sandbox, not both; what the code's place says of `exec`; and a block of which the host holds
  that it was not sent (`Unsent`) has reached no sandbox and is on the way to none
  (`Untouched`).  That `Unsent` includes the *retry* and the report `notRun` is the point of the
  invariant: the host's only evidence for them is where it was when the connection broke.
* `BlocksKeepContract` from `TruthInv`: a block's `DoneFrame` is in flight once and after its code has
  finished (`OneDone`), and a connection carries nothing of a block but the current one, and nothing
  at all when the host begins one (`InStep`).  The second part is false once a call is cancelled: its `DoneFrame`
  stays on the connection, which is what `block_cancel` shows.  Hence the theorem assumes
  `[]NoneCancelled`, and `ContractWithoutCancel` restates it for scenarios in which cancellation
  cannot happen.  Each step of the protocol is then one `Start`, `Finish` or `Report` of
  `BlockContract`, or stutters.
* `OwnResults` and `NoFrameOutOfPlace` from `OwnInv`: the three frames that end a block follow each other
  on the connection, and the last one in flight agrees with where the sandbox is
  (`Stream`); what the host waits for is therefore the next to come (`Due`).
* `CodeWakesToTheStop` from three invariants.  `CallsMade` and `OneCall`: a call is a frame to the host,
  pending, or replied to, and only one of these.  `Wakes`: for blocked code whose call was pending at the stop, the
  `InterruptFrame` is in flight ahead of any reply that says so, or ahead of where such a reply would
  go.  This is why `_run_attempt` must send the interrupt before it sets `stop`, and why a
  connection that reorders or that loses anything but a suffix would break it.

TLC has checked these invariants too, on the instances of `block_faults` and `block_fair` and on one
block with all faults together.

`SandboxServer_proofs.tla`: `SingleUse` from `Marked` (a connection that was let in has marked
its container) and from the fact that each attempt is a connection of its own.  The steps are
reduced to four ways in which connections can change, a lemma each.

`DockerSession_proofs.tla`: the pieces in the socket and in the sandbox's line are whole frames,
but for a last head whose sender holds `_lock` as long as there is a connection (`Stream`).  The
invariant says nothing once a send has been torn, which is what `WholeFrames` excepts.

`ToolSurface_proofs.tla`: `CallsArrive` is a fact about accepted lists (`AcceptedReaches`, from
`PathsDiffer` and `AtPathIs`) and the invariant that only accepted lists that can be rendered are put
to use.  `OneSurface` rests on `OneSource`: whatever a request, a turn or the history holds for a
context is what is in the context's cache entry, because the second look into the cache and the
entry's filling are one step.

`Results_proofs.tla`: a call's writes are merged only in the step that answers it, and its reply
follows from the answer (`Pending`); how far a call has come says which hooks it has been through
(`OnTheWay`).  Both are proved over the few ways a step moves a call, and cover any number of
calls, files and callbacks, from the types of the constants alone.  `BlockCorrect` says so for one
block; for a session, `SInv` adds where the files are.  `ChangesSaved` is not inductive, as it
does not know what the next baseline will be: `Accounted` says of every file hashed so far that it
is as the baseline has it or has been read, `OneByOne` that at most one file is between its hash and
its content, and `Traced` that a file nobody has written since it was hashed is as it was hashed.

Only model-checked: liveness and fairness, which the prover does not handle.  These are `Reclaimed` (of the
turn sessions and of Docker), `EveryBlockReturns`, `BlockedCodeWakes`, `EveryCallEnds`,
`DisconnectExits` and `StartEnds`.  The violations of section 4 are counterexamples on small
instances.

## 6. Not modelled

* Code is not opened up where it has no control: type expressions and docstrings made from JSON
  schemas, the catalog's tiers, the encodings of the artifact tools, tar packing, the frames' JSON.
  Frames are values with a kind and a number.
* `metadata.py`: a dict from an image to what its last `ReadyFrame` reported, which one renderer of
  text reads.  No decision of the program depends on it.
* The ids, weak references and lock of `_WeakContextCache`, and with them the collector that may
  run its callback while the lock is held (`tool.py` 190).
* Two tool instances, several event loops and interpreter shutdown: one tool, one loop.
* In `TurnSessions` a session whose `close()` was cancelled counts as closed; `DockerSession` looks at
  what such a `close()` leaves behind.
* A call that is cancelled while the `InterruptFrame` is being sent (`tool.py` 577-580): that send is
  outside the `try` that cancels the block's task, so the task goes on reading from a session that
  is kept.  `CancelCall` leaves this moment out.
* In `BlockProtocol` the pump and the client's reader thread are one, and code can be stopped from its
  first step; the lag between them and the window before the first bytecode are in `Interrupt`.
* A stop inside the lock operations of `threading` (`_rpc_client.py` 71-75, 90), where it could release a
  lock that is not held, or cut a frame in two.
* The Docker transport shares the host's block logic and the RPC client and is not composed with
  `BlockProtocol`.  Errors of docker itself in `kill` and `remove` are swallowed by the code and
  left out.
* A tool that swallows its own cancellation, and the clock against which timeouts are compared; the
  lower of two timeouts is a choice without a clock (`dispatcher.py` 134-139).
* `Results` has an artifact service; without one nothing is saved, and output files are dropped.
* The artifact service, ADK and the network are modelled by how this code uses them.

## 7. Plan

Done: the modules of section 2, and a theorem for every invariant and every safety property that
a passing run checks.  Left:

1. Abstract specifications of other components, as `BlockContract` is of the protocol, with their
   refinement proved: a turn's session as a resource that is started, used and closed once, a tool
   call as at most one merge and one answer.
2. The Docker transport under `BlockProtocol`, with one reader thread for all blocks instead of one
   per block.
3. The sandbox's `ReadyFrame` and what the catalog says of the image, if a decision ever comes to
   depend on it.
