---------------------------- MODULE DockerSession ----------------------------
(***************************************************************************)
(* One session of the Docker backend: start() runs a container in an       *)
(* executor thread and accepts its connection in another, send() writes    *)
(* frames one at a time to a socket that may be full, and close() kills    *)
(* the container.  Any of them may be cancelled where it waits; a thread   *)
(* it waits for then runs on.                                              *)
(***************************************************************************)
EXTENDS Naturals, Sequences

CONSTANTS
    Frames,     \* frames that tasks of the host send
    Shutdown,   \* the ShutdownFrame that close() sends
    Capacity    \* pieces of frames the socket holds (bound)

ASSUME DockerAssumption ==
    /\ Shutdown \notin Frames
    /\ Capacity \in Nat \ {0}

AllFrames == Frames \cup {Shutdown}
\* A frame reaches the socket in two pieces; the newline is in its tail.
Pieces == AllFrames \X {"head", "tail"}
Peers == {"own", "foreign"}

VARIABLES
    pc,         \* the session: in start(), open, in close(), or over
    thread,     \* what its executor thread does
    cont,       \* the container
    listener,   \* the listening socket; a session's close() closes its own with it
    dialed,     \* the container has connected, which it does once
    dir,        \* the tools directory exists
    backlog,    \* connections not accepted yet: the container's, another process's
    shaking,    \* the one whose token line is being read
    late,       \* the accept deadline has passed
    sock,       \* whose connection the session uses
    send,       \* where each send() is
    wire,       \* pieces in the socket
    line,       \* pieces of the line the sandbox is reading
    garbled,    \* the sandbox has read a line that is no frame, and reads no more
    torn,       \* history: a send was cancelled between its pieces
    orphaned    \* history: start() was cancelled while its container was being created

startVars == <<listener, dialed, dir, backlog, shaking, late, sock, orphaned>>
wireVars == <<send, wire, line, garbled, torn>>
vars == <<pc, thread, cont, startVars, wireVars>>

TypeOK ==
    /\ pc \in {"idle", "creating", "accepting", "failed", "open", "closing", "killing",
               "closed", "abandoned"}
    /\ thread \in {"none", "run", "accept", "kill"}
    /\ cont \in {"none", "up", "exited", "removed"}
    /\ listener \in {"none", "open", "closed"}
    /\ {dialed, dir, late, garbled, torn, orphaned} \subseteq BOOLEAN
    /\ backlog \subseteq Peers
    /\ shaking \in Peers \cup {"none"}
    /\ sock \in Peers \cup {"none"}
    /\ send \in [AllFrames -> {"unsent", "queued", "half", "sent", "failed", "cancelled"}]
    /\ wire \in Seq(Pieces) /\ line \in Seq(Pieces)

Init ==
    /\ pc = "idle" /\ thread = "none" /\ cont = "none"
    /\ listener = "none" /\ dialed = FALSE /\ dir = FALSE
    /\ backlog = {} /\ shaking = "none" /\ late = FALSE /\ sock = "none"
    /\ send = [m \in AllFrames |-> "unsent"]
    /\ wire = <<>> /\ line = <<>>
    /\ garbled = FALSE /\ torn = FALSE /\ orphaned = FALSE
-----------------------------------------------------------------------------
(* start().                                                                *)

Start ==
    /\ pc = "idle"
    /\ pc' = "creating" /\ thread' = "run"
    /\ dir' = TRUE /\ listener' = "open"
    /\ UNCHANGED <<cont, dialed, backlog, shaking, late, sock, orphaned, wireVars>>

\* network_mode is "none", or a file or the listener cannot be made.
StartFails ==
    /\ pc = "idle"
    /\ pc' = "failed"
    /\ UNCHANGED <<thread, cont, startVars, wireVars>>

\* Mutant of GiveUp: start() gives up, and leaves the container to itself.
GiveUpKeeps ==
    /\ pc' = "failed"
    /\ listener' = "closed" /\ dir' = FALSE
    /\ cont' = cont

\* Both of start()'s handlers: a container that was created is removed.
GiveUp ==
    /\ pc' = "failed"
    /\ listener' = "closed" /\ dir' = FALSE
    /\ cont' = IF cont = "none" THEN "none" ELSE "removed"

\* The container is created.  If start() is still there, it goes on to accept.
RunContainer ==
    /\ thread = "run"
    /\ cont' = "up"
    /\ \/ pc = "creating" /\ pc' = "accepting" /\ thread' = "accept"
       \/ pc # "creating" /\ pc' = pc /\ thread' = "none"
    /\ UNCHANGED <<startVars, wireVars>>

RunFails ==
    /\ thread = "run"
    /\ thread' = "none"
    /\ \/ pc = "creating" /\ GiveUp
       \/ pc # "creating" /\ UNCHANGED <<pc, listener, dir, cont>>
    /\ UNCHANGED <<dialed, backlog, shaking, late, sock, orphaned, wireVars>>

\* The task in start() is cancelled.  What its thread does goes on, unless it has
\* not begun, and what it returns is lost.
CancelStart ==
    /\ pc \in {"creating", "accepting"}
    /\ GiveUp
    /\ thread' \in {thread, "none"}
    /\ orphaned' = (thread' = "run")
    /\ shaking' = IF thread' = "none" THEN "none" ELSE shaking
    /\ UNCHANGED <<dialed, backlog, late, sock, wireVars>>

\* The container's entry point connects and sends the token; so may another process.
Connect(p) ==
    /\ listener = "open"
    /\ p = "own" => cont = "up" /\ ~dialed
    /\ dialed' = (dialed \/ p = "own")
    /\ backlog' = backlog \cup {p}
    /\ UNCHANGED <<pc, thread, cont, listener, dir, shaking, late, sock, orphaned, wireVars>>

Deadline ==
    /\ thread = "accept"
    /\ late' = TRUE
    /\ UNCHANGED <<pc, thread, cont, listener, dialed, dir, backlog, shaking, sock, orphaned, wireVars>>

\* Mutant of Accept: each connection starts the time anew.
AcceptAnyway(p) ==
    /\ thread = "accept" /\ shaking = "none" /\ p \in backlog
    /\ shaking' = p
    /\ backlog' = backlog \ {p}
    /\ UNCHANGED <<pc, thread, cont, listener, dialed, dir, late, sock, orphaned, wireVars>>

Accept(p) ==
    /\ thread = "accept" /\ shaking = "none" /\ p \in backlog
    /\ ~late
    /\ shaking' = p
    /\ backlog' = backlog \ {p}
    /\ UNCHANGED <<pc, thread, cont, listener, dialed, dir, late, sock, orphaned, wireVars>>

\* The accepted connection does not send the token, or not in time: the next, please.
Dropped ==
    /\ thread = "accept" /\ shaking # "none"
    /\ shaking' = "none"
    /\ UNCHANGED <<pc, thread, cont, listener, dialed, dir, backlog, late, sock, orphaned, wireVars>>

\* Mutant of Authenticated: whoever is first has the session.
AuthenticatedFirst ==
    /\ thread = "accept" /\ shaking # "none"
    /\ thread' = "none" /\ shaking' = "none"
    /\ \/ pc = "accepting" /\ pc' = "open" /\ sock' = shaking
       \/ pc # "accepting" /\ UNCHANGED <<pc, sock>>
    /\ UNCHANGED <<cont, listener, dialed, dir, backlog, late, orphaned, wireVars>>

\* It sends the token: start() returns a session on it, if it is still there.
Authenticated ==
    /\ thread = "accept" /\ shaking = "own"
    /\ thread' = "none" /\ shaking' = "none"
    /\ \/ pc = "accepting" /\ pc' = "open" /\ sock' = shaking
       \/ pc # "accepting" /\ UNCHANGED <<pc, sock>>
    /\ UNCHANGED <<cont, listener, dialed, dir, backlog, late, orphaned, wireVars>>

\* The deadline, or a listener that was closed.
AcceptFails ==
    /\ thread = "accept" /\ shaking = "none"
    /\ late \/ listener = "closed"
    /\ thread' = "none"
    /\ \/ pc = "accepting" /\ GiveUp
       \/ pc # "accepting" /\ UNCHANGED <<pc, listener, dir, cont>>
    /\ UNCHANGED <<dialed, backlog, shaking, late, sock, orphaned, wireVars>>
-----------------------------------------------------------------------------
(* Frames.                                                                 *)

Room == Len(wire) < Capacity
\* The socket is open at both ends.
Connected == cont = "up" /\ listener = "open"
\* Nobody has _lock.  close() leaves send() and closes the sockets in one go.
LockFree ==
    /\ \A n \in AllFrames : send[n] # "half"
    /\ pc = "closing" => send[Shutdown] = "queued"
SendGoto(m, label) == send' = [send EXCEPT ![m] = label]

\* A task calls send() and waits for _lock.
Send(m) ==
    /\ pc = "open"
    /\ m \in Frames /\ send[m] = "unsent"
    /\ SendGoto(m, "queued")
    /\ UNCHANGED <<pc, thread, cont, startVars, wire, line, garbled, torn>>

\* Mutant of SendHead: without _lock.
SendHeadUnlocked(m) ==
    /\ send[m] = "queued" /\ Connected /\ Room
    /\ SendGoto(m, "half")
    /\ wire' = Append(wire, <<m, "head">>)
    /\ UNCHANGED <<pc, thread, cont, startVars, line, garbled, torn>>

\* It has _lock, and sock_sendall has sent the first piece.
SendHead(m) ==
    /\ send[m] = "queued" /\ LockFree /\ Connected /\ Room
    /\ SendGoto(m, "half")
    /\ wire' = Append(wire, <<m, "head">>)
    /\ UNCHANGED <<pc, thread, cont, startVars, line, garbled, torn>>

SendTail(m) ==
    /\ send[m] = "half" /\ Connected /\ Room
    /\ SendGoto(m, "sent")
    /\ wire' = Append(wire, <<m, "tail">>)
    /\ UNCHANGED <<pc, thread, cont, startVars, line, garbled, torn>>

SendFails(m) ==
    /\ send[m] = "half" \/ (send[m] = "queued" /\ LockFree)
    /\ ~Connected
    /\ SendGoto(m, "failed")
    /\ UNCHANGED <<pc, thread, cont, startVars, wire, line, garbled, torn>>

\* The sending task is cancelled: a block's call, or a reply when the block is done.
CancelSend(m) ==
    /\ m \in Frames /\ send[m] \in {"queued", "half"}
    /\ SendGoto(m, "cancelled")
    /\ torn' = (torn \/ send[m] = "half")
    /\ UNCHANGED <<pc, thread, cont, startVars, wire, line, garbled>>

\* The sandbox's reader takes a piece, and has a line when it is a tail.
Read ==
    /\ cont = "up" /\ ~garbled /\ wire # <<>>
    /\ wire' = Tail(wire)
    /\ LET p == Head(wire) IN
          IF p[2] = "head"
          THEN line' = Append(line, p) /\ garbled' = garbled
          ELSE line' = <<>> /\ garbled' = (line # <<<<p[1], "head">>>>)
    /\ UNCHANGED <<pc, thread, cont, startVars, send, torn>>

\* The container's process ends: the block loop is told to, the reader gave up, a crash.
ContainerExits ==
    /\ cont = "up"
    /\ cont' = "exited"
    /\ UNCHANGED <<pc, thread, startVars, wireVars>>
-----------------------------------------------------------------------------
(* close().                                                                *)

Close ==
    /\ pc = "open"
    /\ pc' = "closing"
    /\ SendGoto(Shutdown, "queued")
    /\ UNCHANGED <<thread, cont, startVars, wire, line, garbled, torn>>

\* The ShutdownFrame is out, or not: close the sockets, then kill in a thread.
CloseSockets ==
    /\ pc = "closing"
    /\ send[Shutdown] \in {"sent", "failed"}
    /\ pc' = "killing" /\ thread' = "kill"
    /\ listener' = "closed"
    /\ UNCHANGED <<cont, dialed, dir, backlog, shaking, late, sock, orphaned, wireVars>>

\* The container is removed; close() removes the directory, if it is still there.
Kill ==
    /\ thread = "kill"
    /\ thread' = "none"
    /\ cont' = "removed"
    /\ \/ pc = "killing" /\ pc' = "closed" /\ dir' = FALSE
       \/ pc # "killing" /\ UNCHANGED <<pc, dir>>
    /\ UNCHANGED <<listener, dialed, backlog, shaking, late, sock, orphaned, wireVars>>

\* The task in close() is cancelled.  _closed is set, so no later close() does the rest.
CancelClose ==
    /\ pc \in {"closing", "killing"}
    /\ pc' = "abandoned"
    /\ thread' \in {thread, "none"}
    /\ send' = [send EXCEPT ![Shutdown] = IF @ \in {"queued", "half"} THEN "cancelled" ELSE @]
    /\ torn' = (torn \/ send[Shutdown] = "half")
    /\ UNCHANGED <<cont, startVars, wire, line, garbled>>

Over ==
    /\ pc \in {"failed", "closed", "abandoned"} /\ thread = "none"
    /\ UNCHANGED vars

Executor ==
    \/ RunContainer \/ RunFails \/ Deadline \/ Dropped \/ Authenticated \/ AcceptFails \/ Kill
    \/ \E p \in Peers : Accept(p)

Write(m) == SendHead(m) \/ SendTail(m) \/ SendFails(m)

Next ==
    \/ Start \/ StartFails \/ Executor \/ CancelStart \/ Read \/ ContainerExits
    \/ Close \/ CloseSockets \/ CancelClose
    \/ \E p \in Peers : Connect(p)
    \/ \E m \in AllFrames : Send(m) \/ Write(m) \/ CancelSend(m)
    \/ Over

\* Executor threads end: docker and the handshake answer or fail, and the deadline
\* passes.  Of two tasks that wait for _lock none is overtaken for ever.  Nothing is
\* assumed of the sandbox.
Fairness ==
    /\ WF_vars(RunContainer \/ RunFails)
    /\ WF_vars(Deadline)
    /\ WF_vars(Dropped \/ Authenticated)
    /\ WF_vars(AcceptFails)
    /\ WF_vars(Kill)
    /\ WF_vars(CloseSockets)
    /\ \A m \in AllFrames : SF_vars(Write(m))

Spec == Init /\ [][Next]_vars
FairSpec == Spec /\ Fairness
-----------------------------------------------------------------------------
(* Properties.                                                             *)

\* A session talks to its own container, whoever else connects to the listener first.
OwnSocket == sock # "none" => sock = "own"

\* The sandbox reads the frames that were sent, whatever tasks send at the same time,
\* unless one was cancelled between the pieces of its frame: the next frame is then
\* glued to what it left.
WholeFrames == garbled => torn

\* start() ends, however many connections come that are not the container's.
StartEnds == pc \in {"creating", "accepting"} ~> pc \notin {"creating", "accepting"}

\* Nothing of the session is left.
Clean == cont \in {"none", "removed"} /\ ~dir /\ listener # "open"

\* A start() that fails and a close() leave nothing behind, provided that no
\* cancellation met the container's creation or the close itself, and that the socket
\* does not stay full: close() has no timeout on the ShutdownFrame it sends first.
Reclaimed ==
    []<>Room =>
        (pc \in {"failed", "closing"} ~> Clean \/ orphaned \/ pc = "abandoned")
=============================================================================
