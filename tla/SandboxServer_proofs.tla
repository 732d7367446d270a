------------------------- MODULE SandboxServer_proofs -------------------------
(***************************************************************************)
(* For any number of hosts, attempts, probes and containers: no container  *)
(* lets two connections in.                                                *)
(***************************************************************************)
EXTENDS SandboxServer, TLAPS

Let == {"upgrading", "handled", "served"}

Shape ==
    /\ host \in [Hosts -> {"idle", "dialing", "backoff", "connected", "started",
                           "closed", "failed"}]
    /\ tries \in [Hosts -> 0 .. MaxAttempts]
    /\ at \in [Conns -> Containers \cup {Nowhere}]
    /\ server \in [Conns -> Let \cup {"none", "request", "refused"}]
    /\ accepted \subseteq Containers

\* An attempt uses a connection of its own.
Attempts ==
    \A h \in Hosts :
        /\ host[h] = "idle" => tries[h] = 0
        /\ host[h] = "backoff" => tries[h] < MaxAttempts
        /\ \A n \in 1 .. MaxAttempts : n > tries[h] => server[<<h, n>>] = "none"

Routed == \A c \in Conns : server[c] # "none" => at[c] \in Containers

\* A connection that was let in has marked its container.
Marked == \A c \in Conns : server[c] \in Let => at[c] \in accepted

IInv == Shape /\ Attempts /\ Routed /\ Marked /\ SingleUse

LEMMA ConnsOfHosts ==
    ASSUME NEW h \in Hosts, NEW n \in 1 .. MaxAttempts
    PROVE  <<h, n>> \in Conns
BY DEF Conns

LEMMA ConnsOfProbes ==
    ASSUME NEW p \in Probes
    PROVE  <<p, 0>> \in Conns
BY DEF Conns
-----------------------------------------------------------------------------
(* The ways a step changes the connections.                                *)

\* The host goes on, or the code does: connections stay as they are.
LEMMA SameConnections ==
    ASSUME IInv, Shape', UNCHANGED <<at, server, accepted>>,
           \A h \in Hosts : /\ host'[h] = "idle" => host[h] = "idle" /\ tries'[h] = tries[h]
                            /\ host'[h] = "backoff" => tries'[h] < MaxAttempts
                            /\ tries'[h] >= tries[h]
    PROVE  IInv'
<1> USE ServerAssumption
<1>1. Attempts'
  <2> SUFFICES ASSUME NEW h \in Hosts
               PROVE  /\ host'[h] = "idle" => tries'[h] = 0
                      /\ host'[h] = "backoff" => tries'[h] < MaxAttempts
                      /\ \A n \in 1 .. MaxAttempts : n > tries'[h] => server'[<<h, n>>] = "none"
    BY DEF Attempts
  <2>1. tries[h] \in Nat /\ tries'[h] \in Nat
    BY DEF IInv, Shape
  <2> QED BY <2>1 DEF IInv, Attempts
<1>2. (Routed /\ Marked /\ SingleUse)'
  BY DEF IInv, Routed, Marked, SingleUse
<1> QED BY <1>1, <1>2 DEF IInv

\* A request on a connection that was not used yet.
LEMMA RequestKeeps ==
    ASSUME IInv, NEW c \in Conns, NEW k \in Containers, server[c] = "none", Request(c, k),
           UNCHANGED accepted
    PROVE  /\ at' \in [Conns -> Containers \cup {Nowhere}]
           /\ server' \in [Conns -> Let \cup {"none", "request", "refused"}]
           /\ (Routed /\ Marked /\ SingleUse)'
<1>1. Shape BY DEF IInv
<1>2. at' = [at EXCEPT ![c] = k] /\ server' = [server EXCEPT ![c] = "request"]
  BY DEF Request
<1>3. \A d \in Conns : server'[d] \in Let => server[d] \in Let /\ at'[d] = at[d]
  BY <1>1, <1>2 DEF Shape, Let
<1>4. Routed' BY <1>1, <1>2 DEF IInv, Shape, Routed
<1>5. Marked' BY <1>3 DEF IInv, Marked
<1>6. SingleUse' BY <1>3 DEF IInv, SingleUse, Let
<1> QED BY <1>1, <1>2, <1>4, <1>5, <1>6 DEF Shape

\* The server's end of connection c goes on.  Only the first to be let in is new there.
LEMMA ServerKeeps ==
    ASSUME IInv, NEW c \in Conns, NEW label \in Let \cup {"refused"},
           server[c] # "none", ServerGoto(c, label), UNCHANGED <<host, tries, at>>,
           \/ label \in Let => server[c] \in Let /\ accepted' = accepted
           \/ at[c] \notin accepted /\ accepted' = accepted \cup {at[c]},
           accepted' \in {accepted, accepted \cup {at[c]}}
    PROVE  IInv'
<1>1. Shape /\ Attempts /\ Routed /\ Marked /\ SingleUse
  BY DEF IInv
<1>2. server' = [server EXCEPT ![c] = label]
  BY DEF ServerGoto
<1>3. Shape' BY <1>1, <1>2 DEF Shape, Routed
<1>4. Attempts'
  <2> SUFFICES ASSUME NEW h \in Hosts, NEW n \in 1 .. MaxAttempts, n > tries'[h]
               PROVE  server'[<<h, n>>] = "none"
    BY <1>1 DEF Attempts
  <2>1. server[<<h, n>>] = "none" BY <1>1 DEF Attempts
  <2> QED BY <1>2, <2>1, <1>1, ConnsOfHosts DEF Shape
<1>5. Routed' BY <1>1, <1>2 DEF Shape, Routed
<1>6. Marked' BY <1>1, <1>2 DEF Shape, Marked
<1>7. SingleUse'
  <2> SUFFICES ASSUME NEW d \in Conns, NEW e \in Conns,
                      server'[d] \in Let, server'[e] \in Let, at[d] = at[e]
               PROVE  d = e
    BY DEF SingleUse, Let
  <2>1. CASE label \in Let => server[c] \in Let
    <3>1. server[d] \in Let /\ server[e] \in Let
      BY <1>1, <1>2, <2>1 DEF Shape
    <3> QED BY <1>1, <3>1 DEF SingleUse, Let
  <2>2. CASE at[c] \notin accepted
    <3>1. \A x \in Conns : x # c /\ server'[x] \in Let => at[x] \in accepted
      BY <1>1, <1>2 DEF Shape, Marked
    <3>2. \A x \in Conns : x # c => server'[x] = server[x]
      BY <1>1, <1>2 DEF Shape
    <3>3. CASE d # c /\ e # c
      BY <1>1, <3>2, <3>3 DEF SingleUse, Let
    <3> QED BY <2>2, <3>1, <3>3
  <2> QED BY <2>1, <2>2
<1> QED BY <1>3, <1>4, <1>5, <1>6, <1>7 DEF IInv
-----------------------------------------------------------------------------
LEMMA Initially == Init => IInv
<1> SUFFICES ASSUME Init PROVE IInv
  OBVIOUS
<1> USE ServerAssumption
<1>1. Shape BY DEF Init, Shape, Let
<1>2. Attempts BY ConnsOfHosts DEF Init, Attempts
<1>3. Routed /\ Marked /\ SingleUse BY DEF Init, Routed, Marked, SingleUse, Let
<1> QED BY <1>1, <1>2, <1>3 DEF IInv

LEMMA HostKeeps ==
    ASSUME IInv, NEW h \in Hosts, Start(h) \/ HostCloses(h)
    PROVE  IInv'
<1> USE ServerAssumption
<1>1. tries[h] \in 0 .. MaxAttempts /\ Shape
  BY DEF IInv, Shape
<1>2. CASE DialFails(h)
  <2>1. tries[h] < MaxAttempts BY <1>1, <1>2 DEF DialFails, IInv, Attempts
  <2>2. Shape' BY <1>1, <1>2, <2>1 DEF DialFails, HostGoto, Shape
  <2>3. \A g \in Hosts : /\ host'[g] = "idle" => host[g] = "idle" /\ tries'[g] = tries[g]
                         /\ host'[g] = "backoff" => tries'[g] < MaxAttempts
                         /\ tries'[g] >= tries[g]
    BY <1>1, <1>2, <2>1 DEF DialFails, HostGoto, Shape, IInv, Attempts
  <2> QED BY <1>2, <2>2, <2>3, SameConnections DEF DialFails
<1>3. ASSUME NEW label \in {"connected", "started", "closed", "failed", "backoff"},
             HostGoto(h, label), label = "backoff" => tries[h] < MaxAttempts,
             UNCHANGED <<tries, at, server, accepted>>
      PROVE  IInv'
  <2>1. Shape' BY <1>1, <1>3 DEF HostGoto, Shape
  <2>2. \A g \in Hosts : /\ host'[g] = "idle" => host[g] = "idle" /\ tries'[g] = tries[g]
                         /\ host'[g] = "backoff" => tries'[g] < MaxAttempts
                         /\ tries'[g] >= tries[g]
    BY <1>1, <1>3 DEF HostGoto, Shape, IInv, Attempts
  <2> QED BY <1>3, <2>1, <2>2, SameConnections
<1>4. ASSUME NextAttempt(h), UNCHANGED <<tries, at, server, accepted>>
      PROVE  IInv'
  BY <1>1, <1>3, <1>4 DEF NextAttempt
<1>5. CASE GiveUp(h) BY <1>4, <1>5 DEF GiveUp
<1>6. CASE Rejected(h) BY <1>4, <1>6 DEF Rejected
<1>7. CASE Connected(h) BY <1>3, <1>7 DEF Connected
<1>8. CASE Upload(h) BY <1>3, <1>8 DEF Upload
<1>9. CASE UploadFails(h) BY <1>3, <1>4, <1>9 DEF UploadFails
<1>10. CASE HostCloses(h) BY <1>3, <1>10 DEF HostCloses
<1> QED BY <1>2, <1>5, <1>6, <1>7, <1>8, <1>9, <1>10 DEF Start

LEMMA DialKeeps ==
    ASSUME IInv, NEW h \in Hosts, NEW k \in Containers, Dial(h, k)
    PROVE  IInv'
<1> USE ServerAssumption
<1> DEFINE c == <<h, tries[h] + 1>>
<1>1. Shape /\ Attempts /\ tries[h] \in 0 .. MaxAttempts /\ tries[h] < MaxAttempts
  BY DEF IInv, Shape, Attempts, Dial
<1>2. c \in Conns /\ server[c] = "none"
  BY <1>1, ConnsOfHosts DEF Attempts
<1>3. Request(c, k) /\ UNCHANGED accepted
  BY DEF Dial
<1>4. /\ at' \in [Conns -> Containers \cup {Nowhere}]
      /\ server' \in [Conns -> Let \cup {"none", "request", "refused"}]
      /\ (Routed /\ Marked /\ SingleUse)'
  BY <1>2, <1>3, RequestKeeps
<1>5. Shape'
  BY <1>1, <1>4 DEF Dial, HostGoto, Shape
<1>6. Attempts'
  <2> SUFFICES ASSUME NEW g \in Hosts
               PROVE  /\ host'[g] = "idle" => tries'[g] = 0
                      /\ host'[g] = "backoff" => tries'[g] < MaxAttempts
                      /\ \A n \in 1 .. MaxAttempts : n > tries'[g] => server'[<<g, n>>] = "none"
    BY DEF Attempts
  <2>1. host'[g] = "idle" => tries'[g] = 0
    BY <1>1 DEF Dial, HostGoto, Shape, Attempts
  <2>2. host'[g] = "backoff" => tries'[g] < MaxAttempts
    BY <1>1 DEF Dial, HostGoto, Shape, Attempts
  <2>3. ASSUME NEW n \in 1 .. MaxAttempts, n > tries'[g]
        PROVE  server'[<<g, n>>] = "none"
    <3>1. tries'[g] \in Nat /\ tries[g] \in Nat /\ tries'[g] >= tries[g]
      BY <1>1 DEF Dial, Shape
    <3>2. server[<<g, n>>] = "none"
      BY <1>1, <2>3, <3>1 DEF Attempts
    <3>3. <<g, n>> # c
      BY <1>1, <2>3 DEF Dial, Shape
    <3> QED BY <1>1, <1>3, <3>2, <3>3, ConnsOfHosts DEF Request, Shape
  <2> QED BY <2>1, <2>2, <2>3
<1> QED BY <1>4, <1>5, <1>6 DEF IInv

LEMMA ProbeKeeps ==
    ASSUME IInv, NEW p \in Probes, NEW k \in Containers, Probe(p, k)
    PROVE  IInv'
<1> USE ServerAssumption
<1>1. Shape /\ Attempts
  BY DEF IInv
<1>2. <<p, 0>> \in Conns /\ server[<<p, 0>>] = "none" /\ Request(<<p, 0>>, k)
  BY ConnsOfProbes DEF Probe
<1>3. /\ at' \in [Conns -> Containers \cup {Nowhere}]
      /\ server' \in [Conns -> Let \cup {"none", "request", "refused"}]
      /\ (Routed /\ Marked /\ SingleUse)'
  BY <1>2, RequestKeeps DEF Probe
<1>4. Shape' BY <1>1, <1>3 DEF Probe, Shape
<1>5. Attempts'
  <2> SUFFICES ASSUME NEW h \in Hosts, NEW n \in 1 .. MaxAttempts, n > tries[h]
               PROVE  server'[<<h, n>>] = "none"
    BY <1>1 DEF Probe, Attempts
  <2>1. server[<<h, n>>] = "none" BY <1>1 DEF Attempts
  <2>2. <<h, n>> # <<p, 0>> OBVIOUS
  <2> QED BY <1>1, <1>2, <2>1, <2>2, ConnsOfHosts DEF Request, Shape
<1> QED BY <1>3, <1>4, <1>5 DEF IInv

LEMMA ServeKeeps ==
    ASSUME IInv, NEW c \in Conns, Serve(c) \/ CodeStarts(c) \/ TurnEnds(c)
    PROVE  IInv'
<1> USE ServerAssumption
<1>1. CASE Refuse(c)
  BY <1>1, ServerKeeps DEF Refuse, Let
<1>2. CASE Accept(c)
  <2>1. PICK label \in {"refused", "upgrading"} : ServerGoto(c, label)
    BY <1>2 DEF Accept
  <2> QED BY <1>2, <2>1, ServerKeeps DEF Accept, Let
<1>3. CASE Handle(c)
  BY <1>3, ServerKeeps DEF Handle, Let
<1>4. CASE HandshakeLost(c)
  BY <1>4, ServerKeeps DEF HandshakeLost, Let
<1>5. CASE SocketClosed(c)
  BY <1>5, ServerKeeps DEF SocketClosed, Stop, Let
<1>6. CASE TurnEnds(c)
  BY <1>6, ServerKeeps DEF TurnEnds, Stop, Let
<1>7. CASE CodeStarts(c)
  <2>1. UNCHANGED <<host, tries, at, server, accepted>> BY <1>7 DEF CodeStarts
  <2> QED BY <2>1 DEF IInv, Shape, Attempts, Routed, Marked, SingleUse
<1> QED BY <1>1, <1>2, <1>3, <1>4, <1>5, <1>6, <1>7 DEF Serve

LEMMA ContainerKeeps ==
    ASSUME IInv, NEW k \in Containers, CodeEnds(k) \/ Exit(k)
    PROVE  IInv'
<1>1. CASE CodeEnds(k)
  <2>1. UNCHANGED <<host, tries, at, server, accepted>> BY <1>1 DEF CodeEnds
  <2> QED BY <2>1 DEF IInv, Shape, Attempts, Routed, Marked, SingleUse
<1>2. CASE Exit(k)
  <2>1. Shape /\ Attempts BY DEF IInv
  <2>2. UNCHANGED <<host, tries, at, accepted>> BY <1>2 DEF Exit
  <2>3. server' = [c \in Conns |->
                    IF at[c] = k /\ server[c] = "request" THEN "refused" ELSE server[c]]
    BY <1>2 DEF Exit
  <2>4. Shape' BY <2>1, <2>2, <2>3 DEF Shape
  <2>5. \A c \in Conns : /\ server[c] = "none" <=> server'[c] = "none"
                         /\ server'[c] \in Let => server[c] \in Let
    BY <2>1, <2>3 DEF Shape, Let
  <2>6. Attempts' BY <2>1, <2>2, <2>5, ConnsOfHosts DEF Attempts
  <2>7. (Routed /\ Marked /\ SingleUse)'
    BY <2>2, <2>5 DEF IInv, Routed, Marked, SingleUse, Let
  <2> QED BY <2>4, <2>6, <2>7 DEF IInv
<1> QED BY <1>1, <1>2

LEMMA IInvariant == Spec => []IInv
<1>1. IInv /\ [Next]_vars => IInv'
  <2> SUFFICES ASSUME IInv, [Next]_vars PROVE IInv'
    OBVIOUS
  <2>1. CASE UNCHANGED vars
    BY <2>1 DEF vars, IInv, Shape, Attempts, Routed, Marked, SingleUse
  <2> QED
    BY <2>1, HostKeeps, DialKeeps, ProbeKeeps, ServeKeeps, ContainerKeeps DEF Next, Done
<1> QED BY <1>1, Initially, PTL DEF Spec

\* A container serves one connection in its life, whatever is dialled, retried, refused
\* or lost around it.
THEOREM UsedOnce == Spec => []SingleUse
<1>1. IInv => SingleUse BY DEF IInv
<1> QED BY <1>1, IInvariant, PTL
-----------------------------------------------------------------------------
(* The rest of the types: what is closed, where code runs, who is alive.   *)

\* A host that has dialled has counted the attempt: Conn(h) is a connection.
Rest ==
    /\ \A h \in Hosts : host[h] \in {"dialing", "connected", "started"} => tries[h] > 0
    /\ gone \subseteq Conns
    /\ code \subseteq Containers
    /\ life \in [Containers -> {"up", "stopping", "exited"}]

LEMMA RestInductive == Spec => []Rest
<1> USE ServerAssumption
<1>1. Init => Rest BY DEF Init, Rest
<1>2. IInv /\ Rest /\ [Next]_vars => Rest'
  <2> SUFFICES ASSUME IInv, Rest, [Next]_vars PROVE Rest'
    OBVIOUS
  <2>0. Shape /\ Routed BY DEF IInv
  <2>1. ASSUME NEW h \in Hosts, Start(h) \/ HostCloses(h) PROVE Rest'
    <3>1. tries[h] > 0 => Conn(h) \in Conns
      BY <2>0, ConnsOfHosts DEF Conn, Shape
    <3>2. CASE DialFails(h) BY <2>0, <3>2 DEF DialFails, HostGoto, Rest, Shape
    <3>3. CASE GiveUp(h) BY <2>0, <3>1, <3>3 DEF GiveUp, NextAttempt, HostGoto, Rest, Shape
    <3>4. CASE Rejected(h) BY <2>0, <3>1, <3>4 DEF Rejected, NextAttempt, HostGoto, Rest, Shape
    <3>5. CASE Connected(h) BY <2>0, <3>5 DEF Connected, HostGoto, Rest, Shape
    <3>6. CASE Upload(h) BY <2>0, <3>6 DEF Upload, HostGoto, Rest, Shape
    <3>7. CASE UploadFails(h)
      BY <2>0, <3>1, <3>7 DEF UploadFails, NextAttempt, HostGoto, Rest, Shape
    <3>8. CASE HostCloses(h) BY <2>0, <3>1, <3>8 DEF HostCloses, HostGoto, Rest, Shape
    <3> QED BY <2>1, <3>2, <3>3, <3>4, <3>5, <3>6, <3>7, <3>8 DEF Start
  <2>2. ASSUME NEW h \in Hosts, NEW k \in Containers, Dial(h, k) PROVE Rest'
    BY <2>0, <2>2 DEF Dial, Request, HostGoto, Rest, Shape
  <2>3. ASSUME NEW p \in Probes, NEW k \in Containers, Probe(p, k) PROVE Rest'
    BY <2>3 DEF Probe, Request, Rest
  <2>4. ASSUME NEW c \in Conns, Serve(c) \/ CodeStarts(c) \/ TurnEnds(c) PROVE Rest'
    <3>1. CASE Refuse(c) \/ Accept(c) \/ Handle(c) \/ HandshakeLost(c)
      BY <3>1 DEF Refuse, Accept, Handle, HandshakeLost, Rest
    <3>2. CASE SocketClosed(c) \/ TurnEnds(c)
      BY <3>2 DEF SocketClosed, TurnEnds, Stop, Rest
    <3>3. CASE CodeStarts(c) BY <2>0, <3>3 DEF CodeStarts, Rest, Routed
    <3> QED BY <2>4, <3>1, <3>2, <3>3 DEF Serve
  <2>5. ASSUME NEW k \in Containers, CodeEnds(k) \/ Exit(k) PROVE Rest'
    BY <2>5 DEF CodeEnds, Exit, Rest
  <2>6. CASE UNCHANGED vars BY <2>6 DEF vars, Rest
  <2> QED BY <2>1, <2>2, <2>3, <2>4, <2>5, <2>6 DEF Next, Done
<1> QED BY <1>1, <1>2, IInvariant, PTL DEF Spec

\* The types; above all, no host dials more than start_attempts times, and every
\* connection that is closed, or runs code, is one that some client opened.
THEOREM ServerTypes == Spec => []TypeOK
<1>1. IInv /\ Rest => TypeOK BY DEF IInv, Shape, Let, Rest, TypeOK
<1> QED BY <1>1, IInvariant, RestInductive, PTL
=============================================================================
