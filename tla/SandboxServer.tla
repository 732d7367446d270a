--------------------------- MODULE SandboxServer ---------------------------
(***************************************************************************)
(* Connecting to single-use sandboxes: RemoteBackend.start dials a URL and *)
(* retries, the platform routes each attempt to some container, and serve  *)
(* lets one WebSocket connection in, hands it to a handler and exits the   *)
(* process when that connection ends.                                      *)
(***************************************************************************)
EXTENDS Naturals

CONSTANTS
    Hosts,          \* turns that start a session, one start each
    Probes,         \* clients that send one request which is no WebSocket upgrade
    Authorized,     \* the hosts that send the token the containers expect
    Containers,
    MaxAttempts,    \* RemoteBackend.start_attempts
    Nowhere

ASSUME ServerAssumption ==
    /\ Authorized \subseteq Hosts
    /\ Hosts \cap Probes = {}
    /\ MaxAttempts \in Nat \ {0}
    /\ Nowhere \notin Containers

VARIABLES
    host,       \* where each host is in start(), and later
    tries,      \* attempts each host has made
    at,         \* the container each connection was routed to
    gone,       \* connections whose client end is closed
    server,     \* the server's end of each connection
    accepted,   \* containers whose process_request has let a request in
    code,       \* containers in which user code is running
    life        \* state of each container's process

vars == <<host, tries, at, gone, server, accepted, code, life>>

\* A connection is an attempt of a host, or a probe.
Conns == (Hosts \X (1 .. MaxAttempts)) \cup (Probes \X {0})
Conn(h) == <<h, tries[h]>>

TypeOK ==
    /\ host \in [Hosts -> {"idle", "dialing", "backoff", "connected", "started",
                           "closed", "failed"}]
    /\ tries \in [Hosts -> 0 .. MaxAttempts]
    /\ at \in [Conns -> Containers \cup {Nowhere}]
    /\ gone \subseteq Conns
    /\ server \in [Conns -> {"none", "request", "upgrading", "handled", "served", "refused"}]
    /\ accepted \subseteq Containers
    /\ code \subseteq Containers
    /\ life \in [Containers -> {"up", "stopping", "exited"}]

Init ==
    /\ host = [h \in Hosts |-> "idle"]
    /\ tries = [h \in Hosts |-> 0]
    /\ at = [c \in Conns |-> Nowhere]
    /\ gone = {}
    /\ server = [c \in Conns |-> "none"]
    /\ accepted = {} /\ code = {}
    /\ life = [k \in Containers |-> "up"]
-----------------------------------------------------------------------------
(* The host: RemoteBackend.start and _connect.                             *)

HostGoto(h, label) == host' = [host EXCEPT ![h] = label]

\* Mutant of NextAttempt: the number of attempts is not looked at.
NextAttemptAlways(h) == HostGoto(h, "backoff")

\* The attempt failed in a way that is worth a retry, if any are left.
NextAttempt(h) == HostGoto(h, IF tries[h] < MaxAttempts THEN "backoff" ELSE "failed")

Request(c, k) ==
    /\ life[k] = "up"
    /\ at' = [at EXCEPT ![c] = k]
    /\ server' = [server EXCEPT ![c] = "request"]

Dial(h, k) ==
    /\ host[h] \in {"idle", "backoff"}
    /\ tries' = [tries EXCEPT ![h] = @ + 1]
    /\ Request(<<h, tries[h] + 1>>, k)
    /\ HostGoto(h, "dialing")
    /\ UNCHANGED <<gone, accepted, code, life>>

\* No container to be had: the attempt fails at once.
DialFails(h) ==
    /\ host[h] \in {"idle", "backoff"}
    /\ tries' = [tries EXCEPT ![h] = @ + 1]
    /\ HostGoto(h, IF tries[h] + 1 < MaxAttempts THEN "backoff" ELSE "failed")
    /\ UNCHANGED <<at, gone, server, accepted, code, life>>

\* Mutant of GiveUp: a connection that breaks is noticed, one that hangs is not.
GiveUpOnLoss(h) ==
    /\ host[h] = "dialing"
    /\ life[at[Conn(h)]] = "exited"
    /\ gone' = gone \cup {Conn(h)}
    /\ NextAttempt(h)
    /\ UNCHANGED <<tries, at, server, accepted, code, life>>

\* connect_timeout passes, or the connection breaks, before the handshake is done.
GiveUp(h) ==
    /\ host[h] = "dialing"
    /\ gone' = gone \cup {Conn(h)}
    /\ NextAttempt(h)
    /\ UNCHANGED <<tries, at, server, accepted, code, life>>

\* The server answered 503 Busy or 401.
Rejected(h) ==
    /\ host[h] = "dialing"
    /\ server[Conn(h)] = "refused"
    /\ gone' = gone \cup {Conn(h)}
    /\ NextAttempt(h)
    /\ UNCHANGED <<tries, at, server, accepted, code, life>>

Connected(h) ==
    /\ host[h] = "dialing"
    /\ server[Conn(h)] \in {"upgrading", "handled", "served"}
    /\ HostGoto(h, "connected")
    /\ UNCHANGED <<tries, at, gone, server, accepted, code, life>>

\* The tools archive is sent and start returns the session.
Upload(h) ==
    /\ host[h] = "connected"
    /\ HostGoto(h, "started")
    /\ UNCHANGED <<tries, at, gone, server, accepted, code, life>>

\* Sending it fails, or it is too large, which no retry helps: close, and then.
UploadFails(h) ==
    /\ host[h] = "connected"
    /\ gone' = gone \cup {Conn(h)}
    /\ NextAttempt(h) \/ HostGoto(h, "failed")
    /\ UNCHANGED <<tries, at, server, accepted, code, life>>

\* The turn is over, or its connection was lost: close().
HostCloses(h) ==
    /\ host[h] = "started"
    /\ HostGoto(h, "closed")
    /\ gone' = gone \cup {Conn(h)}
    /\ UNCHANGED <<tries, at, server, accepted, code, life>>

\* Somebody else's request, on a path that is not /health and with the token.
Probe(p, k) ==
    /\ server[<<p, 0>>] = "none"
    /\ Request(<<p, 0>>, k)
    /\ UNCHANGED <<host, tries, gone, accepted, code, life>>
-----------------------------------------------------------------------------
(* The server.                                                             *)

ServerGoto(c, label) == server' = [server EXCEPT ![c] = label]

\* process_request rejects: Busy, or a wrong token.
Refuse(c) ==
    /\ server[c] = "request"
    /\ at[c] \in accepted \/ c[1] \in Hosts \ Authorized
    /\ ServerGoto(c, "refused")
    /\ UNCHANGED <<host, tries, at, gone, accepted, code, life>>

\* Mutant of Accept: whether a connection was let in is looked at, but not kept.
AcceptForgets(c) ==
    /\ server[c] = "request"
    /\ life[at[c]] = "up"
    /\ at[c] \notin accepted
    /\ c[1] \in Authorized \cup Probes
    /\ ServerGoto(c, IF c[1] \in Probes THEN "refused" ELSE "upgrading")
    /\ UNCHANGED <<host, tries, at, gone, accepted, code, life>>

\* process_request lets the request in.  Only then does the library find that it is
\* no WebSocket upgrade, and refuses it after all.
Accept(c) ==
    /\ server[c] = "request"
    /\ life[at[c]] = "up"
    /\ at[c] \notin accepted
    /\ c[1] \in Authorized \cup Probes
    /\ accepted' = accepted \cup {at[c]}
    /\ ServerGoto(c, IF c[1] \in Probes THEN "refused" ELSE "upgrading")
    /\ UNCHANGED <<host, tries, at, gone, code, life>>

\* The response is out: handler(ws) starts.
Handle(c) ==
    /\ server[c] = "upgrading"
    /\ ServerGoto(c, "handled")
    /\ UNCHANGED <<host, tries, at, gone, accepted, code, life>>

\* The client went away before the response was out: no handler for it.
HandshakeLost(c) ==
    /\ server[c] = "upgrading"
    /\ c \in gone
    /\ ServerGoto(c, "refused")
    /\ UNCHANGED <<host, tries, at, gone, accepted, code, life>>

\* User code starts, and may never end.
CodeStarts(c) ==
    /\ server[c] = "handled"
    /\ host[c[1]] = "started"
    /\ at[c] \notin code
    /\ code' = code \cup {at[c]}
    /\ UNCHANGED <<host, tries, at, gone, server, accepted, life>>

CodeEnds(k) ==
    /\ k \in code
    /\ code' = code \ {k}
    /\ UNCHANGED <<host, tries, at, gone, server, accepted, life>>

Stop(c) ==
    /\ ServerGoto(c, "served")
    /\ life' = [life EXCEPT ![at[c]] = "stopping"]

\* Mutant of SocketClosed: only the turn itself is awaited.
SocketClosedIdle(c) ==
    /\ server[c] = "handled"
    /\ c \in gone
    /\ at[c] \notin code
    /\ Stop(c)
    /\ UNCHANGED <<host, tries, at, gone, accepted, code>>

\* The socket closes, so the turn is cancelled, even with code running.
SocketClosed(c) ==
    /\ server[c] = "handled"
    /\ c \in gone
    /\ Stop(c)
    /\ UNCHANGED <<host, tries, at, gone, accepted, code>>

\* The turn ends by itself: a ShutdownFrame, an archive that is too large, a frame
\* that was not expected.
TurnEnds(c) ==
    /\ server[c] = "handled"
    /\ at[c] \notin code
    /\ Stop(c)
    /\ UNCHANGED <<host, tries, at, gone, accepted, code>>

\* os._exit: every connection and the code are gone.
Exit(k) ==
    /\ life[k] = "stopping"
    /\ life' = [life EXCEPT ![k] = "exited"]
    /\ code' = code \ {k}
    /\ server' = [c \in Conns |->
                    IF at[c] = k /\ server[c] = "request" THEN "refused" ELSE server[c]]
    /\ UNCHANGED <<host, tries, at, gone, accepted>>
-----------------------------------------------------------------------------
Start(h) ==
    \/ DialFails(h) \/ GiveUp(h) \/ Rejected(h) \/ Connected(h) \/ Upload(h) \/ UploadFails(h)

Serve(c) == Refuse(c) \/ Accept(c) \/ Handle(c) \/ HandshakeLost(c) \/ SocketClosed(c)

Done ==
    /\ \A h \in Hosts : host[h] \in {"closed", "failed"}
    /\ UNCHANGED vars

Next ==
    \/ \E h \in Hosts : Start(h) \/ HostCloses(h) \/ \E k \in Containers : Dial(h, k)
    \/ \E p \in Probes, k \in Containers : Probe(p, k)
    \/ \E c \in Conns : Serve(c) \/ CodeStarts(c) \/ TurnEnds(c)
    \/ \E k \in Containers : CodeEnds(k) \/ Exit(k)
    \/ Done

\* The host's timeouts expire, it closes its sessions in the end (see TurnSessions),
\* and a server hears that a socket closed and exits; user code need not end.
Fairness ==
    /\ \A h \in Hosts : WF_vars(Start(h)) /\ WF_vars(HostCloses(h))
    /\ \A c \in Conns : WF_vars(SocketClosed(c))
    /\ \A k \in Containers : WF_vars(Exit(k))

Spec == Init /\ [][Next]_vars

\* Containers may be slow to come up: a request or an upgrade may hang for ever.
FairSpec == Spec /\ Fairness
-----------------------------------------------------------------------------
(* Properties.                                                             *)

\* A container is used once: no connection is ever let into one that serves, or has
\* served, another, however requests, retries and exits interleave.
SingleUse ==
    \A c, d \in Conns :
        /\ {server[c], server[d]} \subseteq {"upgrading", "handled", "served"}
        /\ at[c] = at[d]
        => c = d

\* A container whose client has gone exits, whatever the user's code does, so that a
\* retry or a discarded turn leaves no container behind.
DisconnectExits ==
    \A c \in Conns, k \in Containers :
        server[c] = "handled" /\ at[c] = k /\ c \in gone ~> life[k] = "exited"

\* start() returns or raises, however many of its attempts hang or are refused.
StartEnds ==
    \A h \in Hosts : host[h] = "dialing" ~> host[h] \in {"started", "closed", "failed"}
=============================================================================
