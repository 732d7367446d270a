------------------------ MODULE DockerSession_proofs ------------------------
(***************************************************************************)
(* The session uses its own container's connection, and the lock of send() *)
(* keeps frames whole, for any frames and any capacity of the socket.      *)
(***************************************************************************)
EXTENDS DockerSession, TLAPS

\* What is true of a container that does not exist yet, and of a session not closing.
Beginning ==
    /\ pc = "idle" => cont = "none" /\ thread = "none" /\ listener = "none"
    /\ thread = "run" => cont = "none"
    /\ cont = "none" => wire = <<>> /\ line = <<>> /\ \A m \in AllFrames : send[m] # "half"
    /\ pc \in {"idle", "creating", "accepting", "failed", "open"} => send[Shutdown] = "unsent"

\* The last piece that left the host is m's head.
Unfinished(m) ==
    IF wire = <<>> THEN line = <<<<m, "head">>>> ELSE wire[Len(wire)] = <<m, "head">>

\* What the sandbox has of a line, and the pieces in the socket, are whole frames but
\* for a last head, whose sender has _lock as long as there is a connection.
LineOK == line = <<>> \/ \E m \in AllFrames : line = <<<<m, "head">>>>
FirstOK ==
    wire # <<>> =>
        IF line = <<>> THEN wire[1][2] = "head" ELSE wire[1] = <<line[1][1], "tail">>
PairsOK ==
    \A i \in 1..(Len(wire) - 1) :
        IF wire[i][2] = "head" THEN wire[i + 1] = <<wire[i][1], "tail">>
                               ELSE wire[i + 1][2] = "head"
HolderOK == Connected => \A m \in AllFrames : send[m] = "half" <=> Unfinished(m)
Stream == ~torn => ~garbled /\ LineOK /\ FirstOK /\ PairsOK /\ HolderOK

IInv == TypeOK /\ Beginning /\ Stream

-----------------------------------------------------------------------------

LEMMA ShutdownIsFrame == Shutdown \in AllFrames
BY DEF AllFrames

LEMMA EmptyIsSeq == \A S : <<>> \in Seq(S)
OBVIOUS

LEMMA AppendIsSeq ==
    ASSUME NEW S, NEW s \in Seq(S), NEW e \in S PROVE Append(s, e) \in Seq(S)
OBVIOUS

LEMMA InitHolds == Init => IInv /\ OwnSocket
<1> SUFFICES ASSUME Init PROVE IInv /\ OwnSocket
    OBVIOUS
<1>1. TypeOK
    BY EmptyIsSeq DEF Init, TypeOK
<1>2. Beginning
    BY ShutdownIsFrame DEF Init, Beginning
<1>3. Stream
    BY DEF Init, Stream, LineOK, FirstOK, PairsOK, HolderOK, Connected
<1> QED
    BY <1>1, <1>2, <1>3 DEF IInv, Init, OwnSocket

-----------------------------------------------------------------------------
(* Steps of the session leave the frames alone.                            *)

LEMMA FramesUntouched ==
    ASSUME IInv, UNCHANGED wireVars, Connected' => Connected \/ cont = "none"
    PROVE  Stream'
<1>1. HolderOK' \/ torn
  <2>1. CASE Connected
    BY <2>1 DEF IInv, Stream, HolderOK, Unfinished, wireVars
  <2>2. CASE cont = "none"
    <3>1. wire = <<>> /\ line = <<>> /\ \A m \in AllFrames : send[m] # "half"
      BY <2>2 DEF IInv, Beginning
    <3>2. \A m \in AllFrames : ~Unfinished(m)'
      BY <3>1 DEF Unfinished, wireVars
    <3> QED
      BY <3>1, <3>2 DEF HolderOK, wireVars
  <2> QED
    BY <2>1, <2>2 DEF HolderOK
<1> QED
    BY <1>1 DEF IInv, Stream, LineOK, FirstOK, PairsOK, wireVars

\* What a step of the session has to keep of the rest.
Kept == TypeOK' /\ Beginning' /\ OwnSocket' /\ (Connected' => Connected \/ cont = "none")

LEMMA StartSteps ==
    ASSUME IInv, OwnSocket,
           Start \/ StartFails \/ RunContainer \/ RunFails \/ CancelStart \/ AcceptFails
    PROVE  Kept
<1> USE DEF IInv, TypeOK, Beginning, OwnSocket, Connected, Kept, startVars, wireVars
<1>1. CASE Start
    BY <1>1 DEF Start
<1>2. CASE StartFails
    BY <1>2 DEF StartFails
<1>3. CASE RunContainer
    BY <1>3 DEF RunContainer
<1>4. CASE RunFails
    BY <1>4 DEF RunFails, GiveUp
<1>5. CASE CancelStart
    BY <1>5 DEF CancelStart, GiveUp
<1>6. CASE AcceptFails
    BY <1>6 DEF AcceptFails, GiveUp
<1> QED
    BY <1>1, <1>2, <1>3, <1>4, <1>5, <1>6

LEMMA AcceptSteps ==
    ASSUME IInv, OwnSocket,
           \/ Deadline \/ Dropped \/ Authenticated
           \/ \E p \in Peers : Accept(p) \/ Connect(p)
    PROVE  Kept
<1> USE DEF IInv, TypeOK, Beginning, OwnSocket, Connected, Kept, startVars, wireVars, Peers
<1>1. CASE Deadline
    BY <1>1 DEF Deadline
<1>2. CASE Dropped
    BY <1>2 DEF Dropped
<1>3. CASE Authenticated
    BY <1>3 DEF Authenticated
<1>4. ASSUME NEW p \in Peers, Accept(p) PROVE Kept
    BY <1>4 DEF Accept
<1>5. ASSUME NEW p \in Peers, Connect(p) PROVE Kept
    BY <1>5 DEF Connect
<1> QED
    BY <1>1, <1>2, <1>3, <1>4, <1>5

LEMMA EndSteps ==
    ASSUME IInv, OwnSocket, CloseSockets \/ Kill \/ ContainerExits \/ UNCHANGED vars
    PROVE  Kept
<1> USE DEF IInv, TypeOK, Beginning, OwnSocket, Connected, Kept, startVars, wireVars
<1>1. CASE CloseSockets
    BY <1>1 DEF CloseSockets
<1>2. CASE Kill
    BY <1>2 DEF Kill
<1>3. CASE ContainerExits
    BY <1>3 DEF ContainerExits
<1>4. CASE UNCHANGED vars
    BY <1>4 DEF vars
<1> QED
    BY <1>1, <1>2, <1>3, <1>4

LEMMA SessionSteps ==
    ASSUME IInv, OwnSocket,
           \/ Start \/ StartFails \/ CancelStart \/ RunContainer \/ RunFails \/ Deadline
           \/ Dropped \/ Authenticated \/ AcceptFails \/ Kill \/ CloseSockets \/ ContainerExits
           \/ \E p \in Peers : Accept(p) \/ Connect(p)
           \/ UNCHANGED vars
    PROVE  IInv' /\ OwnSocket'
<1>1. Kept
    BY StartSteps, AcceptSteps, EndSteps
<1>2. UNCHANGED wireVars
    BY DEF Start, StartFails, CancelStart, RunContainer, RunFails, Deadline, Dropped, Authenticated,
           AcceptFails, Kill, CloseSockets, ContainerExits, Accept, Connect, vars
<1> QED
    BY <1>1, <1>2, FramesUntouched DEF Kept, IInv

-----------------------------------------------------------------------------
(* Steps of the frames leave the session alone.                            *)

LEMMA PieceIsPiece == \A m \in AllFrames : <<m, "head">> \in Pieces /\ <<m, "tail">> \in Pieces
BY DEF Pieces

\* A step that sends nothing and leaves every half-sent frame half sent, or tears it.
SocketUntouched == UNCHANGED <<listener, cont, wire, line, garbled>>
SendsNothing ==
    /\ SocketUntouched
    /\ torn => torn'
    /\ \/ torn'
       \/ ~Connected
       \/ \A m \in AllFrames : send'[m] = "half" <=> send[m] = "half"

LEMMA NothingSent == IInv /\ SendsNothing => Stream'
BY DEF IInv, Stream, LineOK, FirstOK, PairsOK, HolderOK, Unfinished, Connected, SocketUntouched, SendsNothing

LEMMA CloseAndSend ==
    ASSUME IInv, OwnSocket,
           \/ Close \/ CancelClose
           \/ \E m \in AllFrames : Send(m) \/ SendFails(m) \/ CancelSend(m)
    PROVE  IInv' /\ OwnSocket'
<1>1. CASE Close
  <2>1. TypeOK' /\ Beginning' /\ OwnSocket'
    BY <1>1, ShutdownIsFrame DEF Close, IInv, TypeOK, Beginning, OwnSocket, SendGoto, startVars
  <2>2. \A n \in AllFrames : send'[n] = "half" <=> send[n] = "half"
    BY <1>1, ShutdownIsFrame DEF Close, IInv, TypeOK, Beginning, SendGoto
  <2>3. Stream'
    <3>1. SendsNothing
      BY <1>1, <2>2 DEF Close, SendsNothing, SocketUntouched, startVars
    <3> QED
      BY <3>1, NothingSent
  <2> QED
    BY <2>1, <2>3 DEF IInv
<1>2. CASE CancelClose
  <2>1. TypeOK' /\ Beginning' /\ OwnSocket'
    BY <1>2, ShutdownIsFrame DEF CancelClose, IInv, TypeOK, Beginning, OwnSocket, startVars
  <2>2. torn' \/ \A n \in AllFrames : send'[n] = "half" <=> send[n] = "half"
    BY <1>2, ShutdownIsFrame DEF CancelClose, IInv, TypeOK
  <2>3. SendsNothing
    BY <1>2, <2>2 DEF CancelClose, SendsNothing, SocketUntouched, startVars
  <2> QED
    BY <2>1, <2>3, NothingSent DEF IInv
<1>3. ASSUME NEW m \in AllFrames, Send(m) \/ SendFails(m) \/ CancelSend(m)
      PROVE  IInv' /\ OwnSocket'
  <2>1. /\ send'[m] # "half" /\ \A n \in AllFrames \ {m} : send'[n] = send[n]
        /\ send' \in [AllFrames -> {"unsent", "queued", "half", "sent", "failed", "cancelled"}]
    BY <1>3 DEF Send, SendFails, CancelSend, SendGoto, IInv, TypeOK
  <2>2. m = Shutdown => pc \notin {"idle", "creating", "accepting", "failed", "open"}
    BY <1>3, DockerAssumption DEF Send, SendFails, CancelSend, IInv, Beginning
  <2>3. torn' \in BOOLEAN
    BY <1>3 DEF Send, SendFails, CancelSend, IInv, TypeOK
  <2>4. TypeOK'
    BY <1>3, <2>1, <2>3 DEF Send, SendFails, CancelSend, IInv, TypeOK, startVars
  <2>5. Beginning' /\ OwnSocket'
    BY <1>3, <2>1, <2>2, ShutdownIsFrame
       DEF Send, SendFails, CancelSend, IInv, Beginning, OwnSocket, startVars
  <2>6. torn' \/ ~Connected \/ \A n \in AllFrames : send'[n] = "half" <=> send[n] = "half"
    BY <1>3, <2>1 DEF Send, SendFails, CancelSend
  <2>7. torn => torn'
    BY <1>3 DEF Send, SendFails, CancelSend
  <2>8. SocketUntouched
    BY <1>3 DEF Send, SendFails, CancelSend, SocketUntouched, startVars
  <2> QED
    BY <2>4, <2>5, <2>6, <2>7, <2>8, NothingSent DEF SendsNothing, IInv
<1> QED
    BY <1>1, <1>2, <1>3

LEMMA HeadSent ==
    ASSUME IInv, OwnSocket, NEW m \in AllFrames, SendHead(m)
    PROVE  IInv' /\ OwnSocket'
<1>1. TypeOK' /\ Beginning' /\ OwnSocket'
  <2>1. wire' \in Seq(Pieces)
    BY PieceIsPiece, AppendIsSeq DEF SendHead, IInv, TypeOK
  <2>2. TypeOK'
    BY <2>1 DEF SendHead, SendGoto, IInv, TypeOK, startVars
  <2>3. Beginning'
    BY DEF SendHead, SendGoto, Connected, IInv, TypeOK, Beginning, startVars
  <2> QED
    BY <2>2, <2>3 DEF OwnSocket, SendHead, startVars
<1>2. ASSUME ~torn PROVE Stream'
  <2>1. /\ ~garbled /\ LineOK /\ FirstOK /\ PairsOK
        /\ \A n \in AllFrames : ~Unfinished(n)
        /\ wire \in Seq(Pieces) /\ send \in [AllFrames -> {"unsent", "queued", "half", "sent", "failed", "cancelled"}]
    BY <1>2 DEF IInv, TypeOK, Stream, HolderOK, SendHead, LockFree
  <2>2. wire' = Append(wire, <<m, "head">>) /\ line' = line /\ garbled' = garbled
    BY DEF SendHead
  <2>3. wire # <<>> => wire[Len(wire)][2] = "tail"
    <3> SUFFICES ASSUME wire # <<>> PROVE wire[Len(wire)][2] = "tail"
        OBVIOUS
    <3>1. wire[Len(wire)] \in Pieces
        BY <2>1
    <3> QED
        BY <2>1, <3>1 DEF Unfinished, Pieces
  <2>4. wire = <<>> => line = <<>>
    BY <2>1 DEF LineOK, Unfinished
  <2>5. LineOK' /\ FirstOK'
    BY <2>1, <2>2, <2>4 DEF LineOK, FirstOK
  <2>6. PairsOK'
    BY <2>1, <2>2, <2>3 DEF PairsOK
  <2>7. HolderOK'
    <3>1. \A n \in AllFrames : Unfinished(n)' <=> n = m
      BY <2>1, <2>2 DEF Unfinished
    <3>2. \A n \in AllFrames : send'[n] = "half" <=> n = m
      BY <2>1 DEF SendHead, SendGoto, LockFree
    <3> QED
      BY <3>1, <3>2 DEF HolderOK
  <2> QED
    BY <2>1, <2>2, <2>5, <2>6, <2>7 DEF Stream
<1> QED
    BY <1>1, <1>2 DEF IInv, Stream, SendHead

LEMMA TailSent ==
    ASSUME IInv, OwnSocket, NEW m \in AllFrames, SendTail(m)
    PROVE  IInv' /\ OwnSocket'
<1>1. TypeOK' /\ Beginning' /\ OwnSocket'
  <2>1. wire' \in Seq(Pieces)
    BY PieceIsPiece, AppendIsSeq DEF SendTail, IInv, TypeOK
  <2>2. TypeOK'
    BY <2>1 DEF SendTail, SendGoto, IInv, TypeOK, startVars
  <2>3. Beginning'
    BY DEF SendTail, SendGoto, Connected, IInv, TypeOK, Beginning, startVars
  <2> QED
    BY <2>2, <2>3 DEF OwnSocket, SendTail, startVars
<1>2. ASSUME ~torn PROVE Stream'
  <2>1. /\ ~garbled /\ LineOK /\ FirstOK /\ PairsOK
        /\ \A n \in AllFrames : send[n] = "half" <=> Unfinished(n)
        /\ wire \in Seq(Pieces) /\ send \in [AllFrames -> {"unsent", "queued", "half", "sent", "failed", "cancelled"}]
    BY <1>2 DEF IInv, TypeOK, Stream, HolderOK, SendTail
  <2>2. wire' = Append(wire, <<m, "tail">>) /\ line' = line /\ garbled' = garbled
    BY DEF SendTail
  <2>3. Unfinished(m) /\ \A n \in AllFrames : Unfinished(n) => n = m
    BY <2>1 DEF SendTail, Unfinished
  <2>4. LineOK' /\ FirstOK'
    BY <2>1, <2>2, <2>3 DEF LineOK, FirstOK, Unfinished
  <2>5. PairsOK'
    BY <2>1, <2>2, <2>3 DEF PairsOK, Unfinished
  <2>6. HolderOK'
    <3>1. \A n \in AllFrames : ~Unfinished(n)'
      BY <2>1, <2>2 DEF Unfinished
    <3>2. \A n \in AllFrames : send'[n] # "half"
      BY <2>1, <2>3 DEF SendTail, SendGoto
    <3> QED
      BY <3>1, <3>2 DEF HolderOK
  <2> QED
    BY <2>1, <2>2, <2>4, <2>5, <2>6 DEF Stream
<1> QED
    BY <1>1, <1>2 DEF IInv, Stream, SendTail

LEMMA PieceRead ==
    ASSUME IInv, OwnSocket, Read
    PROVE  IInv' /\ OwnSocket'
<1> DEFINE p == Head(wire)
<1>1. /\ wire # <<>> /\ wire \in Seq(Pieces) /\ line \in Seq(Pieces)
      /\ wire' = Tail(wire) /\ send' = send /\ torn' = torn
      /\ IF p[2] = "head" THEN line' = Append(line, p) /\ garbled' = garbled
                           ELSE line' = <<>> /\ garbled' = (line # <<<<p[1], "head">>>>)
    BY DEF Read, IInv, TypeOK
<1>2. p \in Pieces /\ p = wire[1]
    BY <1>1
<1>3. PICK m \in AllFrames, k \in {"head", "tail"} : p = <<m, k>>
    BY <1>2 DEF Pieces
<1>4. TypeOK' /\ Beginning' /\ OwnSocket'
  <2>1. wire' \in Seq(Pieces)
    BY <1>1
  <2>2. line' \in Seq(Pieces)
    BY <1>1, <1>2, EmptyIsSeq, AppendIsSeq
  <2>3. garbled' \in BOOLEAN
    BY <1>1 DEF IInv, TypeOK
  <2> QED
    BY <2>1, <2>2, <2>3, <1>1 DEF IInv, TypeOK, Beginning, OwnSocket, Read, startVars
<1>5. ASSUME ~torn PROVE Stream'
  <2>1. ~garbled /\ LineOK /\ FirstOK /\ PairsOK /\ HolderOK
    BY <1>5 DEF IInv, Stream
  <2>2. Len(wire') = Len(wire) - 1 /\ \A i \in 1..Len(wire') : wire'[i] = wire[i + 1]
    BY <1>1
  <2>3. PairsOK'
    BY <1>1, <2>1, <2>2 DEF PairsOK
  <2>4. CASE k = "head"
    <3>1. line = <<>>
      BY <1>1, <1>2, <1>3, <2>1, <2>4 DEF FirstOK
    <3>2. line' = <<p>> /\ garbled' = FALSE
      BY <1>1, <1>3, <2>1, <2>4, <3>1
    <3>3. LineOK'
      BY <3>2, <1>3, <2>4 DEF LineOK
    <3>4. wire' # <<>> => wire'[1] = <<m, "tail">>
      BY <1>1, <1>2, <1>3, <2>1, <2>2, <2>4 DEF PairsOK
    <3>5. FirstOK'
      BY <1>3, <2>4, <3>2, <3>4 DEF FirstOK
    <3>6. \A n \in AllFrames : Unfinished(n)' <=> Unfinished(n)
      BY <1>1, <1>2, <1>3, <2>2, <2>4, <3>2 DEF Unfinished
    <3> QED
      BY <1>1, <2>1, <2>3, <3>2, <3>3, <3>5, <3>6 DEF Stream, HolderOK, Connected, Read, startVars
  <2>5. CASE k = "tail"
    <3>1. line = <<<<m, "head">>>>
      BY <1>1, <1>2, <1>3, <2>1, <2>5 DEF FirstOK, LineOK
    <3>2. line' = <<>> /\ garbled' = FALSE
      <4>1. p[2] # "head" /\ p[1] = m
        BY <1>3, <2>5
      <4> QED
        BY <1>1, <3>1, <4>1
    <3>3. wire' # <<>> => wire'[1][2] = "head"
      BY <1>1, <1>2, <1>3, <2>1, <2>2, <2>5 DEF PairsOK
    <3>4. LineOK' /\ FirstOK'
      BY <3>2, <3>3 DEF LineOK, FirstOK
    <3>5. ASSUME NEW n \in AllFrames PROVE Unfinished(n)' <=> Unfinished(n)
      <4>1. CASE wire' = <<>>
        <5>1. Len(wire) = 1 /\ wire[Len(wire)] # <<n, "head">>
          BY <4>1, <1>1, <1>2, <1>3, <2>2, <2>5
        <5>2. line' # <<<<n, "head">>>>
          BY <3>2
        <5> QED
          BY <4>1, <5>1, <5>2, <1>1 DEF Unfinished
      <4>2. CASE wire' # <<>>
        BY <4>2, <1>1, <2>2 DEF Unfinished
      <4> QED
        BY <4>1, <4>2
    <3> QED
      BY <1>1, <2>1, <2>3, <3>2, <3>4, <3>5 DEF Stream, HolderOK, Connected, Read, startVars
  <2> QED
    BY <1>3, <2>4, <2>5
<1> QED
    BY <1>1, <1>4, <1>5 DEF IInv, Stream

-----------------------------------------------------------------------------

LEMMA Invariance == Spec => [](IInv /\ OwnSocket)
<1>1. IInv /\ OwnSocket /\ [Next]_vars => IInv' /\ OwnSocket'
    BY SessionSteps, CloseAndSend, HeadSent, TailSent, PieceRead DEF Next, Executor, Write, Over
<1> QED
    BY InitHolds, <1>1, PTL DEF Spec

\* The session of start() (docker.py 205-233, 180) is on its own container's connection,
\* whatever else connects to the listener and however often.
THEOREM TokenGuards == Spec => []OwnSocket
BY Invariance, PTL

\* Frames reach the sandbox whole (docker.py 272-280) for any number of tasks that send
\* and any capacity of the socket, unless a send was cancelled half-way.
THEOREM LockKeepsFramesWhole == Spec => []WholeFrames
<1>1. IInv => WholeFrames
    BY DEF IInv, Stream, WholeFrames
<1> QED
    BY <1>1, Invariance, PTL
=============================================================================
