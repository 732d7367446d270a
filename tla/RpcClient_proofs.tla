-------------------------- MODULE RpcClient_proofs --------------------------
(***************************************************************************)
(* For any number of threads, calls and frames, and a host that replies in *)
(* any order, drops calls or closes: no thread sleeps through its reply,   *)
(* no reply stays behind or is refused, and frames come in order.          *)
(***************************************************************************)
EXTENDS RpcClient, TLAPS

\* What the locking needs of the types.
Shape ==
    /\ pc \in [Threads -> {"idle", "ready", "waiting", "over"}]
    /\ want \in [Threads -> Ids \cup {AnyFrame}]
    /\ ncalls \in [Threads -> 0 .. MaxCalls]

WakeInv == Shape /\ NoLostWakeup

\* A waiter's reply, a frame or the close only appear in steps that wake everybody.
LEMMA WakeInductive == Spec => []WakeInv
<1> USE RpcAssumption
<1>1. Init => WakeInv
  BY DEF Init, WakeInv, Shape, NoLostWakeup
<1>2. WakeInv /\ [Next]_vars => WakeInv'
  <2> SUFFICES ASSUME WakeInv, [Next]_vars PROVE WakeInv'
    OBVIOUS
  <2>0. Shape /\ NoLostWakeup
    BY DEF WakeInv
  <2>1. ASSUME NEW t \in Threads, StartCall(t) PROVE WakeInv'
    <3>1. Shape' BY <2>0, <2>1 DEF StartCall, Goto, threadVars, hostVars, clientVars, Shape, Ids, InCall
    <3>2. NoLostWakeup' BY <2>0, <2>1 DEF StartCall, Goto, threadVars, hostVars, clientVars, Shape, NoLostWakeup, InCall
    <3> QED BY <3>1, <3>2 DEF WakeInv
  <2>2. ASSUME NEW t \in Threads, SendFails(t) PROVE WakeInv'
    <3>1. Shape' BY <2>0, <2>2 DEF SendFails, Goto, threadVars, hostVars, clientVars, Shape, Ids, InCall
    <3>2. NoLostWakeup' BY <2>0, <2>2 DEF SendFails, Goto, threadVars, hostVars, clientVars, Shape, NoLostWakeup, InCall
    <3> QED BY <3>1, <3>2 DEF WakeInv
  <2>3. ASSUME NEW t \in Threads, Take(t) PROVE WakeInv'
    <3>1. Shape' BY <2>0, <2>3 DEF Take, Goto, threadVars, hostVars, clientVars, Shape, Ids, InCall
    <3>2. NoLostWakeup' BY <2>0, <2>3 DEF Take, Goto, threadVars, hostVars, clientVars, Shape, NoLostWakeup, InCall
    <3> QED BY <3>1, <3>2 DEF WakeInv
  <2>4. ASSUME NEW t \in Threads, Refuse(t) PROVE WakeInv'
    <3>1. Shape' BY <2>0, <2>4 DEF Refuse, Goto, threadVars, hostVars, clientVars, Shape, Ids, InCall
    <3>2. NoLostWakeup' BY <2>0, <2>4 DEF Refuse, Goto, threadVars, hostVars, clientVars, Shape, NoLostWakeup, InCall
    <3> QED BY <3>1, <3>2 DEF WakeInv
  <2>5. ASSUME NEW t \in Threads, Wait(t) PROVE WakeInv'
    <3>1. Shape' BY <2>0, <2>5 DEF Wait, Goto, threadVars, hostVars, clientVars, Shape, Ids, InCall
    <3>2. NoLostWakeup' BY <2>0, <2>5 DEF Wait, Goto, threadVars, hostVars, clientVars, Shape, NoLostWakeup, InCall
    <3> QED BY <3>1, <3>2 DEF WakeInv
  <2>6. CASE Stopped
    <3>1. Shape' BY <2>0, <2>6 DEF Stopped, Goto, threadVars, hostVars, clientVars, Shape, Ids, InCall
    <3>2. NoLostWakeup' BY <2>0, <2>6 DEF Stopped, Goto, threadVars, hostVars, clientVars, Shape, NoLostWakeup, InCall
    <3> QED BY <3>1, <3>2 DEF WakeInv
  <2>7. CASE StartRecv
    <3>1. Shape' BY <2>0, <2>7 DEF StartRecv, Goto, threadVars, hostVars, clientVars, Shape, Ids, InCall
    <3>2. NoLostWakeup' BY <2>0, <2>7 DEF StartRecv, Goto, threadVars, hostVars, clientVars, Shape, NoLostWakeup, InCall
    <3> QED BY <3>1, <3>2 DEF WakeInv
  <2>8. CASE Recv
    <3>1. Shape' BY <2>0, <2>8 DEF Recv, Goto, threadVars, hostVars, clientVars, Shape, Ids, InCall
    <3>2. NoLostWakeup' BY <2>0, <2>8 DEF Recv, Goto, threadVars, hostVars, clientVars, Shape, NoLostWakeup, InCall
    <3> QED BY <3>1, <3>2 DEF WakeInv
  <2>9. CASE RecvFails
    <3>1. Shape' BY <2>0, <2>9 DEF RecvFails, Goto, threadVars, hostVars, clientVars, Shape, Ids, InCall
    <3>2. NoLostWakeup' BY <2>0, <2>9 DEF RecvFails, Goto, threadVars, hostVars, clientVars, Shape, NoLostWakeup, InCall
    <3> QED BY <3>1, <3>2 DEF WakeInv
  <2>10. CASE ReadResult
    <3>1. Shape' BY <2>0, <2>10 DEF ReadResult, Goto, threadVars, hostVars, clientVars, NotifyAll, Shape, Ids, InCall
    <3>2. NoLostWakeup' BY <2>0, <2>10 DEF ReadResult, Goto, threadVars, hostVars, clientVars, NotifyAll, Shape, NoLostWakeup, InCall
    <3> QED BY <3>1, <3>2 DEF WakeInv
  <2>11. CASE ReadGeneral
    <3>1. Shape' BY <2>0, <2>11 DEF ReadGeneral, Goto, threadVars, hostVars, clientVars, NotifyAll, Shape, Ids, InCall
    <3>2. NoLostWakeup' BY <2>0, <2>11 DEF ReadGeneral, Goto, threadVars, hostVars, clientVars, NotifyAll, Shape, NoLostWakeup, InCall
    <3> QED BY <3>1, <3>2 DEF WakeInv
  <2>12. CASE ReadFails
    <3>1. Shape' BY <2>0, <2>12 DEF ReadFails, Goto, threadVars, hostVars, clientVars, NotifyAll, Shape, Ids, InCall
    <3>2. NoLostWakeup' BY <2>0, <2>12 DEF ReadFails, Goto, threadVars, hostVars, clientVars, NotifyAll, Shape, NoLostWakeup, InCall
    <3> QED BY <3>1, <3>2 DEF WakeInv
  <2>13. ASSUME NEW id \in asked, Answer(id) PROVE WakeInv'
    <3>1. Shape' BY <2>0, <2>13 DEF Answer, Goto, threadVars, hostVars, clientVars, Shape, Ids, InCall
    <3>2. NoLostWakeup' BY <2>0, <2>13 DEF Answer, Goto, threadVars, hostVars, clientVars, Shape, NoLostWakeup, InCall
    <3> QED BY <3>1, <3>2 DEF WakeInv
  <2>14. CASE Close
    <3>1. Shape' BY <2>0, <2>14 DEF Close, Goto, threadVars, hostVars, clientVars, Shape, Ids, InCall
    <3>2. NoLostWakeup' BY <2>0, <2>14 DEF Close, Goto, threadVars, hostVars, clientVars, Shape, NoLostWakeup, InCall
    <3> QED BY <3>1, <3>2 DEF WakeInv
  <2>15. CASE DropCalls
    <3>1. Shape' BY <2>0, <2>15 DEF DropCalls, Goto, threadVars, hostVars, clientVars, Shape, Ids, InCall
    <3>2. NoLostWakeup' BY <2>0, <2>15 DEF DropCalls, Goto, threadVars, hostVars, clientVars, Shape, NoLostWakeup, InCall
    <3> QED BY <3>1, <3>2 DEF WakeInv
  <2>16. CASE SendFrame
    <3>1. Shape' BY <2>0, <2>16 DEF SendFrame, Goto, threadVars, hostVars, clientVars, Shape, Ids, InCall
    <3>2. NoLostWakeup' BY <2>0, <2>16 DEF SendFrame, Goto, threadVars, hostVars, clientVars, Shape, NoLostWakeup, InCall
    <3> QED BY <3>1, <3>2 DEF WakeInv
  <2>17. CASE Idle
    <3>1. Shape' BY <2>0, <2>17 DEF Idle, vars, Shape, Ids, InCall
    <3>2. NoLostWakeup' BY <2>0, <2>17 DEF Idle, vars, Shape, NoLostWakeup, InCall
    <3> QED BY <3>1, <3>2 DEF WakeInv
  <2>18. CASE UNCHANGED vars
    <3>1. Shape' BY <2>0, <2>18 DEF vars, Shape, Ids, InCall
    <3>2. NoLostWakeup' BY <2>0, <2>18 DEF vars, Shape, NoLostWakeup, InCall
    <3> QED BY <3>1, <3>2 DEF WakeInv
  <2> QED BY <2>1, <2>2, <2>3, <2>4, <2>5, <2>6, <2>7, <2>8, <2>9, <2>10, <2>11, <2>12, <2>13, <2>14, <2>15, <2>16, <2>17, <2>18 DEF Next, Look, Read, Host
<1> QED BY <1>1, <1>2, PTL DEF Spec

\* A thread in call() or recv() sleeps only while there is nothing for it, whatever
\* comes in between its look at the tables and its sleep (_rpc_client.py:77-101).
THEOREM NobodyOversleeps == Spec => []NoLostWakeup
<1>1. WakeInv => NoLostWakeup
  BY DEF WakeInv
<1> QED BY <1>1, WakeInductive, PTL
-----------------------------------------------------------------------------
(* Where a reply can be: asked for, on the wire, or in the table.          *)

\* What may be on the wire.
Items == Ids \cup ({HostFrame} \X Nat)

\* Taking the first item of a sequence.
LEMMA TailItems ==
    ASSUME NEW S, NEW s \in Seq(S), s # <<>>
    PROVE  /\ Head(s) = s[1] /\ 1 \in DOMAIN s
           /\ Tail(s) \in Seq(S)
           /\ \A i \in DOMAIN Tail(s) : i + 1 \in DOMAIN s /\ Tail(s)[i] = s[i + 1]
  OBVIOUS

\* Adding one at its end.
LEMMA AppendItems ==
    ASSUME NEW S, NEW s \in Seq(S), NEW x \in S
    PROVE  /\ Append(s, x) \in Seq(S)
           /\ DOMAIN Append(s, x) = DOMAIN s \cup {Len(s) + 1}
           /\ \A i \in DOMAIN s : Append(s, x)[i] = s[i] /\ i # Len(s) + 1
           /\ Append(s, x)[Len(s) + 1] = x
  OBVIOUS

\* Ids of calls and the host's frames tell apart, and name their thread.
LEMMA IdParts ==
    /\ \A id \in Ids : /\ id[1] \in Threads /\ id[2] \in 1 .. MaxCalls
                       /\ id[1] # HostFrame /\ id # AnyFrame /\ id \in Items
    /\ \A x \in Items : x[1] # HostFrame => x \in Ids
    /\ \A t \in Threads, n \in 1 .. MaxCalls :
           <<t, n>> \in Ids /\ <<t, n>>[1] = t /\ <<t, n>>[2] = n
    /\ \A n \in Nat : <<HostFrame, n>> \in Items /\ <<HostFrame, n>>[1] = HostFrame
    /\ AnyFrame \notin Ids
  BY RpcAssumption DEF Ids, Items, AnyFrame

\* What the sets and the wire hold.
Kinds ==
    /\ asked \subseteq Ids /\ results \subseteq Ids /\ stopped \subseteq Ids
    /\ wire \in Seq(Items)
    /\ nsent \in Nat

\* Ids are never used twice, and a thread outside call() and recv() wants nothing.
Numbers ==
    /\ \A id \in stopped \cup asked \cup results : id[2] <= ncalls[id[1]]
    /\ \A i \in DOMAIN wire : wire[i][1] # HostFrame => wire[i][2] <= ncalls[wire[i][1]]
    /\ \A t \in Threads : want[t] # AnyFrame => want[t][1] = t /\ want[t][2] <= ncalls[t]
    /\ \A t \in Threads : pc[t] = "idle" => want[t] = AnyFrame

\* Somebody will take the reply, unless its call was stopped.  A channel that closed
\* refuses calls whose replies were on their way, and reads no more of them.
Wanted(id) == id \in stopped \/ (want[id[1]] = id /\ pc[id[1]] # "idle")

Held ==
    /\ \A id \in results : Wanted(id)
    /\ \A id \in asked : closed \/ Wanted(id)
    /\ asked \cap results = {}

OnWire ==
    \A i \in DOMAIN wire : wire[i][1] # HostFrame =>
        /\ closed \/ Wanted(wire[i])
        /\ wire[i] \notin asked /\ wire[i] \notin results

\* A reply is on the wire once.
Once ==
    \A i, j \in DOMAIN wire : wire[i] = wire[j] /\ wire[i][1] # HostFrame => i = j

ReplyInv == Kinds /\ Numbers /\ Held /\ OnWire /\ Once

\* A reply moves from asked to the wire to the table, and is in one of them.
LEMMA ReplyInductive == Spec => []ReplyInv
<1> USE RpcAssumption
<1>1. Init => ReplyInv
  BY DEF Init, ReplyInv, Kinds, Numbers, Held, OnWire, Once
<1>2. WakeInv /\ ReplyInv /\ [Next]_vars => ReplyInv'
  <2> SUFFICES ASSUME WakeInv, ReplyInv, [Next]_vars PROVE ReplyInv'
    OBVIOUS
  <2>0. Shape /\ Kinds /\ Numbers /\ Held /\ OnWire /\ Once
    BY DEF WakeInv, ReplyInv
  <2> USE IdParts
  <2>1. ASSUME NEW t \in Threads, StartCall(t) PROVE ReplyInv'
    <3>1. Kinds' BY <2>0, <2>1 DEF StartCall, Goto, threadVars, hostVars, clientVars, Kinds, Shape, InCall
    <3>2. Numbers' BY <2>0, <2>1 DEF StartCall, Goto, threadVars, hostVars, clientVars, Kinds, Numbers, Shape, InCall
    <3>3. Held' BY <2>0, <2>1 DEF StartCall, Goto, threadVars, hostVars, clientVars, Kinds, Held, Numbers, Wanted, Shape, InCall
    <3>4. OnWire' BY <2>0, <2>1 DEF StartCall, Goto, threadVars, hostVars, clientVars, Kinds, Held, OnWire, Numbers, Wanted, Shape, InCall
    <3>5. Once' BY <2>0, <2>1 DEF StartCall, Goto, threadVars, hostVars, clientVars, Kinds, Held, OnWire, Once, Shape, InCall
    <3> QED BY <3>1, <3>2, <3>3, <3>4, <3>5 DEF ReplyInv
  <2>2. ASSUME NEW t \in Threads, SendFails(t) PROVE ReplyInv'
    <3>1. Kinds' BY <2>0, <2>2 DEF SendFails, Goto, threadVars, hostVars, clientVars, Kinds, Shape, InCall
    <3>2. Numbers' BY <2>0, <2>2 DEF SendFails, Goto, threadVars, hostVars, clientVars, Kinds, Numbers, Shape, InCall
    <3>3. Held' BY <2>0, <2>2 DEF SendFails, Goto, threadVars, hostVars, clientVars, Kinds, Held, Numbers, Wanted, Shape, InCall
    <3>4. OnWire' BY <2>0, <2>2 DEF SendFails, Goto, threadVars, hostVars, clientVars, Kinds, Held, OnWire, Numbers, Wanted, Shape, InCall
    <3>5. Once' BY <2>0, <2>2 DEF SendFails, Goto, threadVars, hostVars, clientVars, Kinds, Held, OnWire, Once, Shape, InCall
    <3> QED BY <3>1, <3>2, <3>3, <3>4, <3>5 DEF ReplyInv
  <2>3. ASSUME NEW t \in Threads, Take(t) PROVE ReplyInv'
    <3>1. Kinds' BY <2>0, <2>3 DEF Take, Goto, threadVars, hostVars, clientVars, Kinds, Shape, InCall
    <3>2. Numbers' BY <2>0, <2>3 DEF Take, Goto, threadVars, hostVars, clientVars, Kinds, Numbers, Shape, InCall
    <3>3. Held' BY <2>0, <2>3 DEF Take, Goto, threadVars, hostVars, clientVars, Kinds, Held, Numbers, Wanted, Shape, InCall
    <3>4. OnWire' BY <2>0, <2>3 DEF Take, Goto, threadVars, hostVars, clientVars, Kinds, Held, OnWire, Numbers, Wanted, Shape, InCall
    <3>5. Once' BY <2>0, <2>3 DEF Take, Goto, threadVars, hostVars, clientVars, Kinds, Held, OnWire, Once, Shape, InCall
    <3> QED BY <3>1, <3>2, <3>3, <3>4, <3>5 DEF ReplyInv
  <2>4. ASSUME NEW t \in Threads, Refuse(t) PROVE ReplyInv'
    <3>1. Kinds' BY <2>0, <2>4 DEF Refuse, Goto, threadVars, hostVars, clientVars, Kinds, Shape, InCall
    <3>2. Numbers' BY <2>0, <2>4 DEF Refuse, Goto, threadVars, hostVars, clientVars, Kinds, Numbers, Shape, InCall
    <3>3. Held' BY <2>0, <2>4 DEF Refuse, Goto, threadVars, hostVars, clientVars, Kinds, Held, Numbers, Wanted, Shape, InCall
    <3>4. OnWire' BY <2>0, <2>4 DEF Refuse, Goto, threadVars, hostVars, clientVars, Kinds, Held, OnWire, Numbers, Wanted, Shape, InCall
    <3>5. Once' BY <2>0, <2>4 DEF Refuse, Goto, threadVars, hostVars, clientVars, Kinds, Held, OnWire, Once, Shape, InCall
    <3> QED BY <3>1, <3>2, <3>3, <3>4, <3>5 DEF ReplyInv
  <2>5. ASSUME NEW t \in Threads, Wait(t) PROVE ReplyInv'
    <3>1. Kinds' BY <2>0, <2>5 DEF Wait, Goto, threadVars, hostVars, clientVars, Kinds, Shape, InCall
    <3>2. Numbers' BY <2>0, <2>5 DEF Wait, Goto, threadVars, hostVars, clientVars, Kinds, Numbers, Shape, InCall
    <3>3. Held' BY <2>0, <2>5 DEF Wait, Goto, threadVars, hostVars, clientVars, Kinds, Held, Numbers, Wanted, Shape, InCall
    <3>4. OnWire' BY <2>0, <2>5 DEF Wait, Goto, threadVars, hostVars, clientVars, Kinds, Held, OnWire, Numbers, Wanted, Shape, InCall
    <3>5. Once' BY <2>0, <2>5 DEF Wait, Goto, threadVars, hostVars, clientVars, Kinds, Held, OnWire, Once, Shape, InCall
    <3> QED BY <3>1, <3>2, <3>3, <3>4, <3>5 DEF ReplyInv
  <2>6. CASE Stopped
    <3>1. Kinds' BY <2>0, <2>6 DEF Stopped, Goto, threadVars, hostVars, clientVars, Kinds, Shape, InCall
    <3>2. Numbers' BY <2>0, <2>6 DEF Stopped, Goto, threadVars, hostVars, clientVars, Kinds, Numbers, Shape, InCall
    <3>3. Held' BY <2>0, <2>6 DEF Stopped, Goto, threadVars, hostVars, clientVars, Kinds, Held, Numbers, Wanted, Shape, InCall
    <3>4. OnWire' BY <2>0, <2>6 DEF Stopped, Goto, threadVars, hostVars, clientVars, Kinds, Held, OnWire, Numbers, Wanted, Shape, InCall
    <3>5. Once' BY <2>0, <2>6 DEF Stopped, Goto, threadVars, hostVars, clientVars, Kinds, Held, OnWire, Once, Shape, InCall
    <3> QED BY <3>1, <3>2, <3>3, <3>4, <3>5 DEF ReplyInv
  <2>7. CASE StartRecv
    <3>1. Kinds' BY <2>0, <2>7 DEF StartRecv, Goto, threadVars, hostVars, clientVars, Kinds, Shape, InCall
    <3>2. Numbers' BY <2>0, <2>7 DEF StartRecv, Goto, threadVars, hostVars, clientVars, Kinds, Numbers, Shape, InCall
    <3>3. Held' BY <2>0, <2>7 DEF StartRecv, Goto, threadVars, hostVars, clientVars, Kinds, Held, Numbers, Wanted, Shape, InCall
    <3>4. OnWire' BY <2>0, <2>7 DEF StartRecv, Goto, threadVars, hostVars, clientVars, Kinds, Held, OnWire, Numbers, Wanted, Shape, InCall
    <3>5. Once' BY <2>0, <2>7 DEF StartRecv, Goto, threadVars, hostVars, clientVars, Kinds, Held, OnWire, Once, Shape, InCall
    <3> QED BY <3>1, <3>2, <3>3, <3>4, <3>5 DEF ReplyInv
  <2>8. CASE Recv
    <3>1. Kinds' BY <2>0, <2>8 DEF Recv, Goto, threadVars, hostVars, clientVars, Kinds, Shape, InCall
    <3>2. Numbers' BY <2>0, <2>8 DEF Recv, Goto, threadVars, hostVars, clientVars, Kinds, Numbers, Shape, InCall
    <3>3. Held' BY <2>0, <2>8 DEF Recv, Goto, threadVars, hostVars, clientVars, Kinds, Held, Numbers, Wanted, Shape, InCall
    <3>4. OnWire' BY <2>0, <2>8 DEF Recv, Goto, threadVars, hostVars, clientVars, Kinds, Held, OnWire, Numbers, Wanted, Shape, InCall
    <3>5. Once' BY <2>0, <2>8 DEF Recv, Goto, threadVars, hostVars, clientVars, Kinds, Held, OnWire, Once, Shape, InCall
    <3> QED BY <3>1, <3>2, <3>3, <3>4, <3>5 DEF ReplyInv
  <2>9. CASE RecvFails
    <3>1. Kinds' BY <2>0, <2>9 DEF RecvFails, Goto, threadVars, hostVars, clientVars, Kinds, Shape, InCall
    <3>2. Numbers' BY <2>0, <2>9 DEF RecvFails, Goto, threadVars, hostVars, clientVars, Kinds, Numbers, Shape, InCall
    <3>3. Held' BY <2>0, <2>9 DEF RecvFails, Goto, threadVars, hostVars, clientVars, Kinds, Held, Numbers, Wanted, Shape, InCall
    <3>4. OnWire' BY <2>0, <2>9 DEF RecvFails, Goto, threadVars, hostVars, clientVars, Kinds, Held, OnWire, Numbers, Wanted, Shape, InCall
    <3>5. Once' BY <2>0, <2>9 DEF RecvFails, Goto, threadVars, hostVars, clientVars, Kinds, Held, OnWire, Once, Shape, InCall
    <3> QED BY <3>1, <3>2, <3>3, <3>4, <3>5 DEF ReplyInv
  <2>10. CASE ReadResult
    <3>a. /\ Head(wire) = wire[1] /\ 1 \in DOMAIN wire
          /\ \A i \in DOMAIN wire' : i + 1 \in DOMAIN wire /\ wire'[i] = wire[i + 1]
                                     /\ i \in Nat /\ i # 0
      BY <2>0, <2>10, TailItems DEF ReadResult, Kinds
    <3>b. ~closed /\ ~closed' /\ results' = results \cup {wire[1]} /\ wire[1][1] # HostFrame
      BY <2>10, <3>a DEF ReadResult
    <3>c. \A id \in Ids : Wanted(id) => Wanted(id)'
      BY <2>0, <2>10 DEF ReadResult, NotifyAll, Wanted, Shape
    <3>1. Kinds' BY <2>0, <2>10 DEF ReadResult, Goto, threadVars, hostVars, clientVars, NotifyAll, Kinds, Shape, InCall
    <3>2. Numbers' BY <2>0, <2>10 DEF ReadResult, Goto, threadVars, hostVars, clientVars, NotifyAll, Kinds, Numbers, Shape, InCall
    <3>3. Held' BY <2>0, <2>10, <3>a, <3>b, <3>c DEF ReadResult, hostVars, Kinds, Held, OnWire
    <3>4. OnWire'
      <4> SUFFICES ASSUME NEW i \in DOMAIN wire', wire'[i][1] # HostFrame
                   PROVE  Wanted(wire[i])' /\ wire'[i] \notin asked' /\ wire'[i] \notin results'
        BY DEF OnWire
      <4>1. wire[i + 1] # wire[1]
        <5>1. i + 1 \in DOMAIN wire /\ wire[i + 1][1] # HostFrame /\ i + 1 # 1
          BY <3>a
        <5> QED BY <2>0, <3>a, <5>1 DEF Once
      <4>2. wire[i + 1] \in Ids
        BY <2>0, <3>a DEF Kinds
      <4>3. Wanted(wire[i + 1]) /\ wire[i + 1] \notin asked /\ wire[i + 1] \notin results
        BY <2>0, <3>a, <3>b DEF OnWire
      <4>4. wire'[i] = wire[i + 1] /\ asked' = asked
        BY <2>10, <3>a DEF ReadResult, hostVars
      <4>5. PICK x \in Ids : x = wire[i + 1]
        BY <4>2
      <4>6. Wanted(x)'
        BY <3>c, <4>3, <4>5
      <4> QED BY <3>b, <4>1, <4>3, <4>4, <4>5, <4>6 DEF Wanted
    <3>5. Once'
      <4> SUFFICES ASSUME NEW i \in DOMAIN wire', NEW j \in DOMAIN wire',
                          wire'[i] = wire'[j], wire'[i][1] # HostFrame
                   PROVE  i = j
        BY DEF Once
      <4>1. wire[i + 1] = wire[j + 1] /\ wire[i + 1][1] # HostFrame
        BY <3>a
      <4>2. i + 1 = j + 1
        BY <2>0, <3>a, <4>1 DEF Once
      <4> QED BY <3>a, <4>2
    <3> QED BY <3>1, <3>2, <3>3, <3>4, <3>5 DEF ReplyInv
  <2>11. CASE ReadGeneral
    <3>1. Kinds' BY <2>0, <2>11 DEF ReadGeneral, Goto, threadVars, hostVars, clientVars, NotifyAll, Kinds, Shape, InCall
    <3>2. Numbers' BY <2>0, <2>11 DEF ReadGeneral, Goto, threadVars, hostVars, clientVars, NotifyAll, Kinds, Numbers, Shape, InCall
    <3>3. Held' BY <2>0, <2>11 DEF ReadGeneral, Goto, threadVars, hostVars, clientVars, NotifyAll, Kinds, Held, Numbers, Wanted, Shape, InCall
    <3>4. OnWire' BY <2>0, <2>11 DEF ReadGeneral, Goto, threadVars, hostVars, clientVars, NotifyAll, Kinds, Held, OnWire, Numbers, Wanted, Shape, InCall
    <3>5. Once' BY <2>0, <2>11 DEF ReadGeneral, Goto, threadVars, hostVars, clientVars, NotifyAll, Kinds, Held, OnWire, Once, Shape, InCall
    <3> QED BY <3>1, <3>2, <3>3, <3>4, <3>5 DEF ReplyInv
  <2>12. CASE ReadFails
    <3>1. Kinds' BY <2>0, <2>12 DEF ReadFails, Goto, threadVars, hostVars, clientVars, NotifyAll, Kinds, Shape, InCall
    <3>2. Numbers' BY <2>0, <2>12 DEF ReadFails, Goto, threadVars, hostVars, clientVars, NotifyAll, Kinds, Numbers, Shape, InCall
    <3>3. Held' BY <2>0, <2>12 DEF ReadFails, Goto, threadVars, hostVars, clientVars, NotifyAll, Kinds, Held, Numbers, Wanted, Shape, InCall
    <3>4. OnWire' BY <2>0, <2>12 DEF ReadFails, Goto, threadVars, hostVars, clientVars, NotifyAll, Kinds, Held, OnWire, Numbers, Wanted, Shape, InCall
    <3>5. Once' BY <2>0, <2>12 DEF ReadFails, Goto, threadVars, hostVars, clientVars, NotifyAll, Kinds, Held, OnWire, Once, Shape, InCall
    <3> QED BY <3>1, <3>2, <3>3, <3>4, <3>5 DEF ReplyInv
  <2>13. ASSUME NEW id \in asked, Answer(id) PROVE ReplyInv'
    <3>1. Kinds' BY <2>0, <2>13 DEF Answer, Goto, threadVars, hostVars, clientVars, Kinds, Shape, InCall
    <3>2. Numbers' BY <2>0, <2>13 DEF Answer, Goto, threadVars, hostVars, clientVars, Kinds, Numbers, Shape, InCall
    <3>3. Held' BY <2>0, <2>13 DEF Answer, Goto, threadVars, hostVars, clientVars, Kinds, Held, Numbers, Wanted, Shape, InCall
    <3>4. OnWire' BY <2>0, <2>13 DEF Answer, Goto, threadVars, hostVars, clientVars, Kinds, Held, OnWire, Numbers, Wanted, Shape, InCall
    <3>5. Once' BY <2>0, <2>13 DEF Answer, Goto, threadVars, hostVars, clientVars, Kinds, Held, OnWire, Once, Shape, InCall
    <3> QED BY <3>1, <3>2, <3>3, <3>4, <3>5 DEF ReplyInv
  <2>14. CASE Close
    <3>1. Kinds' BY <2>0, <2>14 DEF Close, Goto, threadVars, hostVars, clientVars, Kinds, Shape, InCall
    <3>2. Numbers' BY <2>0, <2>14 DEF Close, Goto, threadVars, hostVars, clientVars, Kinds, Numbers, Shape, InCall
    <3>3. Held' BY <2>0, <2>14 DEF Close, Goto, threadVars, hostVars, clientVars, Kinds, Held, Numbers, Wanted, Shape, InCall
    <3>4. OnWire' BY <2>0, <2>14 DEF Close, Goto, threadVars, hostVars, clientVars, Kinds, Held, OnWire, Numbers, Wanted, Shape, InCall
    <3>5. Once' BY <2>0, <2>14 DEF Close, Goto, threadVars, hostVars, clientVars, Kinds, Held, OnWire, Once, Shape, InCall
    <3> QED BY <3>1, <3>2, <3>3, <3>4, <3>5 DEF ReplyInv
  <2>15. CASE DropCalls
    <3>1. Kinds' BY <2>0, <2>15 DEF DropCalls, Goto, threadVars, hostVars, clientVars, Kinds, Shape, InCall
    <3>2. Numbers' BY <2>0, <2>15 DEF DropCalls, Goto, threadVars, hostVars, clientVars, Kinds, Numbers, Shape, InCall
    <3>3. Held' BY <2>0, <2>15 DEF DropCalls, Goto, threadVars, hostVars, clientVars, Kinds, Held, Numbers, Wanted, Shape, InCall
    <3>4. OnWire' BY <2>0, <2>15 DEF DropCalls, Goto, threadVars, hostVars, clientVars, Kinds, Held, OnWire, Numbers, Wanted, Shape, InCall
    <3>5. Once' BY <2>0, <2>15 DEF DropCalls, Goto, threadVars, hostVars, clientVars, Kinds, Held, OnWire, Once, Shape, InCall
    <3> QED BY <3>1, <3>2, <3>3, <3>4, <3>5 DEF ReplyInv
  <2>16. CASE SendFrame
    <3>1. Kinds' BY <2>0, <2>16 DEF SendFrame, Goto, threadVars, hostVars, clientVars, Kinds, Shape, InCall
    <3>2. Numbers' BY <2>0, <2>16 DEF SendFrame, Goto, threadVars, hostVars, clientVars, Kinds, Numbers, Shape, InCall
    <3>3. Held' BY <2>0, <2>16 DEF SendFrame, Goto, threadVars, hostVars, clientVars, Kinds, Held, Numbers, Wanted, Shape, InCall
    <3>4. OnWire' BY <2>0, <2>16 DEF SendFrame, Goto, threadVars, hostVars, clientVars, Kinds, Held, OnWire, Numbers, Wanted, Shape, InCall
    <3>5. Once' BY <2>0, <2>16 DEF SendFrame, Goto, threadVars, hostVars, clientVars, Kinds, Held, OnWire, Once, Shape, InCall
    <3> QED BY <3>1, <3>2, <3>3, <3>4, <3>5 DEF ReplyInv
  <2>17. CASE Idle
    <3>1. Kinds' BY <2>0, <2>17 DEF Idle, vars, Kinds, Shape, InCall
    <3>2. Numbers' BY <2>0, <2>17 DEF Idle, vars, Kinds, Numbers, Shape, InCall
    <3>3. Held' BY <2>0, <2>17 DEF Idle, vars, Kinds, Held, Numbers, Wanted, Shape, InCall
    <3>4. OnWire' BY <2>0, <2>17 DEF Idle, vars, Kinds, Held, OnWire, Numbers, Wanted, Shape, InCall
    <3>5. Once' BY <2>0, <2>17 DEF Idle, vars, Kinds, Held, OnWire, Once, Shape, InCall
    <3> QED BY <3>1, <3>2, <3>3, <3>4, <3>5 DEF ReplyInv
  <2>18. CASE UNCHANGED vars
    <3>1. Kinds' BY <2>0, <2>18 DEF vars, Kinds, Shape, InCall
    <3>2. Numbers' BY <2>0, <2>18 DEF vars, Kinds, Numbers, Shape, InCall
    <3>3. Held' BY <2>0, <2>18 DEF vars, Kinds, Held, Numbers, Wanted, Shape, InCall
    <3>4. OnWire' BY <2>0, <2>18 DEF vars, Kinds, Held, OnWire, Numbers, Wanted, Shape, InCall
    <3>5. Once' BY <2>0, <2>18 DEF vars, Kinds, Held, OnWire, Once, Shape, InCall
    <3> QED BY <3>1, <3>2, <3>3, <3>4, <3>5 DEF ReplyInv
  <2> QED BY <2>1, <2>2, <2>3, <2>4, <2>5, <2>6, <2>7, <2>8, <2>9, <2>10, <2>11, <2>12, <2>13, <2>14, <2>15, <2>16, <2>17, <2>18 DEF Next, Look, Read, Host
<1> QED BY <1>1, <1>2, WakeInductive, PTL DEF Spec

\* Every reply in the table is for a call that still waits for it or was stopped:
\* none is handed out twice or left behind (_rpc_client.py:85-101, 115-119).
THEOREM NoReplyLeftBehind == Spec => []RepliesWanted
<1>1. WakeInv /\ ReplyInv => RepliesWanted
  BY RpcAssumption DEF WakeInv, ReplyInv, Shape, NoLostWakeup, Kinds, Numbers, Held, Wanted,
     RepliesWanted, Ids, AnyFrame, InCall
<1> QED BY <1>1, WakeInductive, ReplyInductive, PTL
-----------------------------------------------------------------------------
(* Frames: what recv has returned, what it will return and what is on the  *)
(* wire are consecutive.                                                   *)

\* Only these steps move a frame or a reply.
LEMMA FrameSteps ==
    ASSUME [Next]_vars
    PROVE  \/ ReadResult \/ ReadGeneral \/ Recv \/ SendFrame
           \/ \E id \in asked : Answer(id)
           \/ UNCHANGED <<wire, general, nsent, nrecv>>
BY DEF Next, Look, Read, Host, StartCall, SendFails, Take, Refuse, Wait, Stopped, StartRecv,
       RecvFails, ReadFails, Close, DropCalls, Idle, vars, threadVars, hostVars, clientVars

\* The number of the last frame that recv has returned or will find in general.
Handed == nrecv + Len(general)

\* The types of what carries frames.
FrameTypes ==
    /\ wire \in Seq(Ids \cup Frames) /\ general \in Seq(Frames)
    /\ nsent \in 0 .. MaxFrames /\ nrecv \in Nat

\* What is in general comes next after what recv has returned.
InHand ==
    /\ Handed <= nsent
    /\ \A i \in DOMAIN general : general[i][2] = nrecv + i

\* On the wire the numbers grow, beyond those handed over ...
Ahead ==
    \A i \in DOMAIN wire : wire[i][1] = HostFrame =>
        /\ Handed < wire[i][2] /\ wire[i][2] <= nsent
        /\ \A j \in DOMAIN wire : j < i /\ wire[j][1] = HostFrame => wire[j][2] < wire[i][2]

\* ... and none is missing.
NoGap == \A n \in Handed + 1 .. nsent : \E i \in DOMAIN wire : wire[i] = <<HostFrame, n>>

FrameInv == FrameTypes /\ InHand /\ Ahead /\ NoGap

\* Frames carry their number, and are no ids.
LEMMA FrameParts ==
    /\ \A id \in Ids : id[1] # HostFrame /\ \A n \in Nat : id # <<HostFrame, n>>
    /\ \A x \in Frames : x[1] = HostFrame /\ x[2] \in 1 .. MaxFrames /\ x = <<HostFrame, x[2]>>
    /\ \A n \in 1 .. MaxFrames : <<HostFrame, n>> \in Frames
    /\ \A n \in Nat : <<HostFrame, n>>[1] = HostFrame /\ <<HostFrame, n>>[2] = n
    /\ Ids \cap Frames = {}
  BY RpcAssumption DEF Ids, Frames

\* The first frame on the wire is the next, as none is missing and numbers grow.
LEMMA FrameInductive == Spec => []FrameInv
<1> USE RpcAssumption
<1>1. Init => FrameInv
  BY DEF Init, FrameInv, FrameTypes, InHand, Ahead, NoGap, Handed
<1>2. WakeInv /\ ReplyInv /\ FrameInv /\ [Next]_vars => FrameInv'
  <2> SUFFICES ASSUME WakeInv, ReplyInv, FrameInv, [Next]_vars PROVE FrameInv'
    OBVIOUS
  <2>0. /\ FrameTypes /\ InHand /\ Ahead /\ NoGap /\ Kinds
        /\ Len(general) \in Nat /\ DOMAIN general = 1 .. Len(general)
        /\ DOMAIN wire = 1 .. Len(wire) /\ Len(wire) \in Nat
        /\ nsent \in Nat /\ nrecv \in Nat
    BY DEF FrameInv, FrameTypes, ReplyInv
  <2>h. Handed \in Nat
    BY <2>0 DEF Handed
  <2> USE FrameParts
  <2>1. CASE ReadResult
    <3>1. /\ wire[1][1] # HostFrame /\ wire' = Tail(wire) /\ wire # <<>>
          /\ general' = general /\ nsent' = nsent /\ nrecv' = nrecv
      BY <2>0, <2>1, TailItems DEF ReadResult, FrameTypes, hostVars
    <3>2. /\ wire' \in Seq(Ids \cup Frames)
          /\ \A i \in DOMAIN wire' : i + 1 \in DOMAIN wire /\ wire'[i] = wire[i + 1]
          /\ \A i \in DOMAIN wire \ {1} : i - 1 \in DOMAIN wire' /\ wire'[i - 1] = wire[i]
      BY <2>0, <3>1 DEF FrameTypes
    <3>3. FrameTypes' /\ InHand' /\ Handed' = Handed
      BY <2>0, <3>1, <3>2 DEF FrameTypes, InHand, Handed
    <3>4. Ahead'
      BY <2>0, <3>1, <3>2, <3>3 DEF Ahead, FrameTypes
    <3>5. NoGap'
      <4> SUFFICES ASSUME NEW n \in Handed + 1 .. nsent
                   PROVE  \E i \in DOMAIN wire' : wire'[i] = <<HostFrame, n>>
        BY <3>1, <3>3 DEF NoGap
      <4>1. PICK i \in DOMAIN wire : wire[i] = <<HostFrame, n>>
        BY <2>0 DEF NoGap
      <4>2. i # 1
        BY <3>1, <4>1
      <4> QED BY <3>2, <4>1, <4>2
    <3> QED BY <3>3, <3>4, <3>5 DEF FrameInv
  <2>2. CASE ReadGeneral
    <3>1. /\ wire[1][1] = HostFrame /\ wire' = Tail(wire) /\ wire # <<>> /\ 1 \in DOMAIN wire
          /\ general' = Append(general, wire[1]) /\ nsent' = nsent /\ nrecv' = nrecv
      BY <2>0, <2>2, TailItems DEF ReadGeneral, FrameTypes, hostVars
    <3>2. /\ wire' \in Seq(Ids \cup Frames)
          /\ \A i \in DOMAIN wire' : i + 1 \in DOMAIN wire /\ wire'[i] = wire[i + 1]
          /\ \A i \in DOMAIN wire \ {1} : i - 1 \in DOMAIN wire' /\ wire'[i - 1] = wire[i]
      BY <2>0, <3>1 DEF FrameTypes
    <3>3. wire[1] \in Frames /\ wire[1][2] \in Nat
      BY <2>0, <3>1 DEF FrameTypes
    <3>4. wire[1][2] = Handed + 1
      <4>1. Handed < wire[1][2] /\ wire[1][2] <= nsent
        BY <2>0, <3>1 DEF Ahead
      <4>2. PICK i \in DOMAIN wire : wire[i] = <<HostFrame, Handed + 1>>
        <5>1. Handed + 1 \in Handed + 1 .. nsent
          BY <2>0, <2>h, <3>3, <4>1
        <5> HIDE DEF Handed
        <5> QED BY <2>0, <5>1 DEF NoGap
      <4>3. wire[i][1] = HostFrame /\ wire[i][2] = Handed + 1
        BY <2>h, <4>2
      <4>4. i # 1 => wire[1][2] < wire[i][2]
        BY <2>0, <3>1, <4>3 DEF Ahead
      <4> QED BY <2>h, <3>3, <4>1, <4>3, <4>4
    <3>5. /\ general' \in Seq(Frames) /\ Len(general') = Len(general) + 1
          /\ DOMAIN general' = DOMAIN general \cup {Len(general) + 1}
          /\ \A i \in DOMAIN general : general'[i] = general[i]
          /\ general'[Len(general) + 1] = wire[1]
      BY <2>0, <3>1, <3>3 DEF FrameTypes
    <3>6. Handed' = Handed + 1
      BY <2>0, <3>1, <3>5 DEF Handed
    <3>7. FrameTypes' BY <2>0, <3>1, <3>2, <3>5 DEF FrameTypes
    <3>8. InHand'
      <4>1. Handed + 1 <= nsent
        BY <2>0, <2>h, <3>1, <3>3, <3>4 DEF Ahead
      <4>2. \A i \in DOMAIN general' : general'[i][2] = nrecv' + i
        BY <2>0, <3>1, <3>4, <3>5 DEF InHand, Handed
      <4> QED BY <3>1, <3>6, <4>1, <4>2 DEF InHand
    <3>9. Ahead'
      <4> SUFFICES ASSUME NEW i \in DOMAIN wire', wire'[i][1] = HostFrame
                   PROVE  /\ Handed + 1 < wire'[i][2] /\ wire'[i][2] <= nsent
                          /\ \A j \in DOMAIN wire' : j < i /\ wire'[j][1] = HostFrame
                                => wire'[j][2] < wire'[i][2]
        BY <3>1, <3>6 DEF Ahead
      <4>1. i + 1 \in DOMAIN wire /\ 1 < i + 1 /\ wire'[i] = wire[i + 1]
        BY <2>0, <3>2, <3>7 DEF FrameTypes
      <4>2. wire[1][2] < wire[i + 1][2] /\ wire[i + 1][2] <= nsent
        BY <2>0, <3>1, <4>1 DEF Ahead
      <4>3. ASSUME NEW j \in DOMAIN wire', j < i, wire'[j][1] = HostFrame
            PROVE  wire'[j][2] < wire'[i][2]
        <5>1. j + 1 \in DOMAIN wire /\ j + 1 < i + 1 /\ wire'[j] = wire[j + 1]
          BY <2>0, <3>2, <3>7, <4>3 DEF FrameTypes
        <5> QED BY <2>0, <4>1, <4>3, <5>1 DEF Ahead
      <4> QED BY <3>4, <4>1, <4>2, <4>3
    <3>10. NoGap'
      <4> SUFFICES ASSUME NEW n \in Handed' + 1 .. nsent
                   PROVE  \E i \in DOMAIN wire' : wire'[i] = <<HostFrame, n>>
        BY <3>1 DEF NoGap
      <4>0. n \in Handed + 1 .. nsent /\ n # Handed + 1
        BY <2>0, <2>h, <3>6
      <4>1. PICK i \in DOMAIN wire : wire[i] = <<HostFrame, n>>
        BY <2>0, <4>0 DEF NoGap
      <4>2. i # 1
        BY <3>4, <4>0, <4>1
      <4> QED BY <3>2, <4>1, <4>2
    <3> QED BY <3>7, <3>8, <3>9, <3>10 DEF FrameInv
  <2>3. CASE Recv
    <3>1. /\ wire' = wire /\ general' = Tail(general) /\ general # <<>>
          /\ nsent' = nsent /\ nrecv' = nrecv + 1
      BY <2>3 DEF Recv, hostVars
    <3>2. /\ general' \in Seq(Frames) /\ Len(general') = Len(general) - 1
          /\ \A i \in DOMAIN general' : i \in Nat /\ i + 1 \in DOMAIN general
                                        /\ general'[i] = general[i + 1]
      BY <2>0, <3>1 DEF FrameTypes
    <3>3. Handed' = Handed
      BY <2>0, <3>1, <3>2 DEF Handed, FrameTypes
    <3>4. FrameTypes' BY <2>0, <3>1, <3>2 DEF FrameTypes
    <3>5. InHand' BY <2>0, <3>1, <3>2, <3>3 DEF InHand, FrameTypes
    <3>6. Ahead' /\ NoGap' BY <2>0, <3>1, <3>3 DEF Ahead, NoGap
    <3> QED BY <3>4, <3>5, <3>6 DEF FrameInv
  <2>4. CASE SendFrame
    <3>1. /\ wire' = Append(wire, <<HostFrame, nsent + 1>>) /\ general' = general
          /\ nsent' = nsent + 1 /\ nrecv' = nrecv /\ nsent < MaxFrames
      BY <2>4 DEF SendFrame, threadVars, clientVars
    <3>2. <<HostFrame, nsent + 1>> \in Frames
      BY <2>0, <3>1 DEF FrameTypes
    <3>3. /\ wire' \in Seq(Ids \cup Frames)
          /\ DOMAIN wire' = DOMAIN wire \cup {Len(wire) + 1}
          /\ \A i \in DOMAIN wire : wire'[i] = wire[i] /\ i < Len(wire) + 1
          /\ wire'[Len(wire) + 1] = <<HostFrame, nsent + 1>>
      BY <2>0, <3>1, <3>2 DEF FrameTypes
    <3>4. FrameTypes' BY <2>0, <3>1, <3>3 DEF FrameTypes
    <3>5. Handed' = Handed /\ Handed \in Nat /\ nsent \in Nat
      BY <2>0, <3>1 DEF Handed, FrameTypes
    <3>6. InHand' BY <2>0, <3>1, <3>5 DEF InHand, FrameTypes
    <3>7. Ahead'
      <4> SUFFICES ASSUME NEW i \in DOMAIN wire', wire'[i][1] = HostFrame
                   PROVE  /\ Handed < wire'[i][2] /\ wire'[i][2] <= nsent + 1
                          /\ \A j \in DOMAIN wire' : j < i /\ wire'[j][1] = HostFrame
                                => wire'[j][2] < wire'[i][2]
        BY <3>1, <3>5 DEF Ahead
      <4>1. CASE i = Len(wire) + 1
        <5>1. wire'[i][2] = nsent + 1
          BY <3>3, <3>5, <4>1
        <5>2. \A j \in DOMAIN wire : wire[j][1] = HostFrame => wire[j][2] <= nsent
                                                             /\ wire[j] \in Frames
          BY <2>0 DEF Ahead, FrameTypes
        <5> QED BY <2>0, <3>3, <3>5, <4>1, <5>1, <5>2 DEF InHand
      <4>2. CASE i \in DOMAIN wire
        <5>1. /\ wire'[i] = wire[i] /\ wire[i] \in Frames
          BY <2>0, <3>3, <4>2 DEF FrameTypes
        <5>2. \A j \in DOMAIN wire' : j < i => j \in DOMAIN wire /\ wire'[j] = wire[j]
          BY <2>0, <3>3, <4>2
        <5> QED BY <2>0, <3>5, <4>2, <5>1, <5>2 DEF Ahead
      <4> QED BY <3>3, <4>1, <4>2
    <3>8. NoGap'
      <4> SUFFICES ASSUME NEW n \in Handed + 1 .. nsent + 1
                   PROVE  \E i \in DOMAIN wire' : wire'[i] = <<HostFrame, n>>
        BY <3>1, <3>5 DEF NoGap
      <4>1. CASE n = nsent + 1
        BY <3>3, <4>1
      <4>2. CASE n \in Handed + 1 .. nsent
        <5>1. PICK i \in DOMAIN wire : wire[i] = <<HostFrame, n>>
          BY <2>0, <4>2 DEF NoGap
        <5> QED BY <3>3, <5>1
      <4> QED BY <2>0, <2>h, <4>1, <4>2
    <3> QED BY <3>4, <3>6, <3>7, <3>8 DEF FrameInv
  <2>5. ASSUME NEW id \in asked, Answer(id) PROVE FrameInv'
    <3>1. /\ wire' = Append(wire, id) /\ id \in Ids
          /\ general' = general /\ nsent' = nsent /\ nrecv' = nrecv
      BY <2>0, <2>5 DEF Answer, threadVars, clientVars, Kinds
    <3>2. /\ wire' \in Seq(Ids \cup Frames)
          /\ DOMAIN wire' = DOMAIN wire \cup {Len(wire) + 1}
          /\ \A i \in DOMAIN wire : wire'[i] = wire[i]
          /\ wire'[Len(wire) + 1][1] # HostFrame
      BY <2>0, <3>1 DEF FrameTypes
    <3>3. FrameTypes' /\ InHand' /\ Handed' = Handed
      BY <2>0, <3>1, <3>2 DEF FrameTypes, InHand, Handed
    <3>4. Ahead' BY <2>0, <3>1, <3>2, <3>3 DEF Ahead
    <3>5. NoGap'
      <4> SUFFICES ASSUME NEW n \in Handed + 1 .. nsent
                   PROVE  \E i \in DOMAIN wire' : wire'[i] = <<HostFrame, n>>
        BY <3>1, <3>3 DEF NoGap
      <4>1. PICK i \in DOMAIN wire : wire[i] = <<HostFrame, n>>
        BY <2>0 DEF NoGap
      <4> QED BY <3>2, <4>1
    <3> QED BY <3>3, <3>4, <3>5 DEF FrameInv
  <2>6. CASE UNCHANGED <<wire, general, nsent, nrecv>>
    BY <2>0, <2>6 DEF FrameInv, FrameTypes, InHand, Ahead, NoGap, Handed
  <2> QED BY <2>1, <2>2, <2>3, <2>4, <2>5, <2>6, FrameSteps
<1> QED BY <1>1, <1>2, WakeInductive, ReplyInductive, PTL DEF Spec

\* recv returns the host's frames in the order they were sent, none twice and none left
\* out, whatever replies come in between (_rpc_client.py:77-83, 115-119).
THEOREM FramesArriveInOrder == Spec => []FramesInOrder
<1>1. FrameInv => FramesInOrder
  BY DEF FrameInv, InHand, FramesInOrder
<1> QED BY <1>1, FrameInductive, PTL
-----------------------------------------------------------------------------
(* Refused calls: their replies, if any, are never read.                   *)

\* The rest of the types.
Ends ==
    /\ answered \subseteq Ids /\ refused \subseteq Ids /\ dropped \subseteq Ids
    /\ open \in BOOLEAN /\ closed \in BOOLEAN

\* A refused call has no reply in the table, and before the channel closes (when only
\* a failed send refuses) nor is one due.
Refusals ==
    \A id \in refused :
        /\ id[2] <= ncalls[id[1]]
        /\ id \notin results
        /\ closed \/ (id \notin asked /\ \A i \in DOMAIN wire : wire[i] # id)

RefuseInv == Ends /\ Refusals

\* What a step does to refused calls and to their replies.
LEMMA RefusalSteps ==
    ASSUME [Next]_vars
    PROVE  \/ \E t \in Threads : StartCall(t) \/ SendFails(t) \/ Refuse(t)
           \/ \E id \in asked : Answer(id)
           \/ ReadResult
           \/ /\ UNCHANGED <<refused, ncalls>>
              /\ results' \subseteq results /\ asked' \subseteq asked
              /\ closed => closed'
              /\ wire' = wire \/ ReadGeneral \/ SendFrame
BY DEF Next, Look, Read, Host, Take, Wait, Stopped, StartRecv, Recv, RecvFails, ReadGeneral,
       ReadFails, Close, DropCalls, SendFrame, Idle, vars, threadVars, hostVars, clientVars

\* The steps that set what Ends speaks of.
LEMMA EndSteps ==
    ASSUME [Next]_vars
    PROVE  /\ answered' = answered \/ \E t \in Threads : Take(t)
           /\ refused' = refused \/ \E t \in Threads : SendFails(t) \/ Refuse(t)
           /\ dropped' = dropped \/ DropCalls
           /\ open' = open \/ Close
           /\ closed' = closed \/ ReadFails
<1> USE DEF Next, Look, Read, Host, StartCall, Wait, Stopped, StartRecv, Recv, RecvFails,
        ReadResult, ReadGeneral, Answer, SendFrame, Idle, vars, threadVars, hostVars, clientVars
<1>1. answered' = answered \/ \E t \in Threads : Take(t)
  BY DEF SendFails, Refuse, ReadFails, Close, DropCalls
<1>2. refused' = refused \/ \E t \in Threads : SendFails(t) \/ Refuse(t)
  BY DEF Take, ReadFails, Close, DropCalls
<1>3. dropped' = dropped \/ DropCalls
  BY DEF Take, SendFails, Refuse, ReadFails, Close
<1>4. open' = open \/ Close
  BY DEF Take, SendFails, Refuse, ReadFails, DropCalls
<1>5. closed' = closed \/ ReadFails
  BY DEF Take, SendFails, Refuse, Close, DropCalls
<1> QED BY <1>1, <1>2, <1>3, <1>4, <1>5

\* Calls are refused, answered and dropped by their ids.
LEMMA EndsStay ==
    ASSUME Shape, Kinds, Ends, [Next]_vars
    PROVE  Ends'
<1> USE RpcAssumption, IdParts
<1>1. answered' \subseteq Ids
  BY EndSteps DEF Take, InCall, Shape, Ends
<1>2. refused' \subseteq Ids
  <2>1. ASSUME NEW t \in Threads, SendFails(t) PROVE refused' \subseteq Ids
    <3>1. ncalls[t] + 1 \in 1 .. MaxCalls
      BY <2>1 DEF SendFails, Shape
    <3> QED BY <2>1, <3>1 DEF SendFails, Ends
  <2>2. ASSUME NEW t \in Threads, Refuse(t) PROVE refused' \subseteq Ids
    BY <2>2 DEF Refuse, InCall, Shape, Ends
  <2> QED BY <2>1, <2>2, EndSteps DEF Ends
<1>3. dropped' \subseteq Ids
  BY EndSteps DEF DropCalls, Kinds, Ends
<1>4. open' \in BOOLEAN /\ closed' \in BOOLEAN
  BY EndSteps DEF Close, ReadFails, Ends
<1> QED BY <1>1, <1>2, <1>3, <1>4 DEF Ends

\* A call is refused only when its reply can no longer get into the table.
LEMMA RefusalsStay ==
    ASSUME Shape, Kinds, Numbers, Ends, Refusals, [Next]_vars
    PROVE  Refusals'
<1> USE RpcAssumption, IdParts
<1>1. ASSUME NEW t \in Threads, StartCall(t) PROVE Refusals'
  <2>1. /\ refused' = refused /\ results' = results /\ wire' = wire /\ closed' = closed
        /\ \A u \in Threads : ncalls[u] <= ncalls'[u]
        /\ asked' \subseteq asked \cup {<<t, ncalls[t] + 1>>}
        /\ ncalls \in [Threads -> Nat] /\ ncalls' \in [Threads -> Nat]
    BY <1>1 DEF StartCall, clientVars, Shape
  <2>2. \A id \in refused : id # <<t, ncalls[t] + 1>>
    BY <2>1 DEF Refusals
  <2>3. \A id \in refused : id[2] <= ncalls'[id[1]]
    BY <2>1 DEF Refusals, Ends
  <2> QED BY <2>1, <2>2, <2>3 DEF Refusals
<1>2. ASSUME NEW t \in Threads, SendFails(t) PROVE Refusals'
  <2> DEFINE id == <<t, ncalls[t] + 1>>
  <2>1. /\ refused' = refused \cup {id} /\ ncalls' = [ncalls EXCEPT ![t] = @ + 1]
        /\ UNCHANGED <<results, asked, wire, closed>> /\ id \in Ids
    BY <1>2 DEF SendFails, hostVars, clientVars, Shape
  <2>2. id \notin results /\ id \notin asked /\ \A i \in DOMAIN wire : wire[i] # id
    BY <2>1 DEF Numbers, Kinds, Shape
  <2> QED BY <2>1, <2>2 DEF Refusals, Ends, Shape
<1>3. ASSUME NEW t \in Threads, Refuse(t) PROVE Refusals'
  <2>1. /\ refused' = refused \cup {want[t]} /\ want[t] \notin results /\ closed
        /\ want[t][1] = t /\ want[t][2] <= ncalls[t]
        /\ UNCHANGED <<ncalls, results, asked, wire, closed>>
    BY <1>3 DEF Refuse, InCall, Numbers, hostVars, clientVars
  <2> QED BY <2>1 DEF Refusals
<1>4. ASSUME NEW id \in asked, Answer(id) PROVE Refusals'
  <2>1. /\ asked' = asked \ {id} /\ wire' = Append(wire, id) /\ id \in Items
        /\ UNCHANGED <<refused, ncalls, results, closed>>
    BY <1>4 DEF Answer, threadVars, clientVars, Kinds
  <2> QED BY <2>1, AppendItems DEF Refusals, Kinds
<1>5. CASE ReadResult
  <2>1. /\ wire' = Tail(wire) /\ wire # <<>> /\ results' = results \cup {wire[1]}
        /\ 1 \in DOMAIN wire /\ ~closed
        /\ \A i \in DOMAIN Tail(wire) : i + 1 \in DOMAIN wire /\ Tail(wire)[i] = wire[i + 1]
        /\ UNCHANGED <<refused, ncalls, asked, closed>>
    BY <1>5, TailItems DEF ReadResult, Kinds, hostVars
  <2> QED BY <2>1 DEF Refusals
<1>6. CASE /\ UNCHANGED <<refused, ncalls>>
           /\ results' \subseteq results /\ asked' \subseteq asked
           /\ closed => closed'
           /\ wire' = wire \/ ReadGeneral \/ SendFrame
  <2>1. CASE wire' = wire
    BY <1>6, <2>1 DEF Refusals
  <2>2. CASE ReadGeneral
    <3>1. \A i \in DOMAIN wire' : i + 1 \in DOMAIN wire /\ wire'[i] = wire[i + 1]
      BY <2>2, TailItems DEF ReadGeneral, Kinds
    <3> QED BY <1>6, <3>1 DEF Refusals
  <2>3. CASE SendFrame
    <3>1. /\ wire' = Append(wire, <<HostFrame, nsent + 1>>)
          /\ <<HostFrame, nsent + 1>> \in Items /\ <<HostFrame, nsent + 1>> \notin Ids
      BY <2>3 DEF SendFrame, Kinds
    <3> QED BY <1>6, <3>1, AppendItems DEF Refusals, Ends, Kinds
  <2> QED BY <1>6, <2>1, <2>2, <2>3
<1> QED BY <1>1, <1>2, <1>3, <1>4, <1>5, <1>6, RefusalSteps

\* Both parts are kept by every step.
LEMMA RefuseInductive == Spec => []RefuseInv
<1>1. Init => RefuseInv
  BY DEF Init, RefuseInv, Ends, Refusals
<1>2. WakeInv /\ ReplyInv /\ RefuseInv /\ [Next]_vars => RefuseInv'
  BY EndsStay, RefusalsStay DEF WakeInv, ReplyInv, RefuseInv
<1> QED BY <1>1, <1>2, WakeInductive, ReplyInductive, PTL DEF Spec

\* call() never reports the closed channel for a reply that came in before it closed
\* (_rpc_client.py:88-93, 120-128).
THEOREM RepliesBeatTheClose == Spec => []ReplyBeatsClose
<1>1. RefuseInv => ReplyBeatsClose
  BY DEF RefuseInv, Refusals, ReplyBeatsClose
<1> QED BY <1>1, RefuseInductive, PTL

\* The types: in particular nothing but calls' ids and the host's frames is ever on the
\* wire, and recv returns no more frames than were sent.
THEOREM RpcTypes == Spec => []TypeOK
<1>1. WakeInv /\ ReplyInv /\ FrameInv /\ RefuseInv => TypeOK
  BY RpcAssumption DEF WakeInv, Shape, ReplyInv, Kinds, FrameInv, FrameTypes, InHand, Handed,
     RefuseInv, Ends, TypeOK
<1> QED BY <1>1, WakeInductive, ReplyInductive, FrameInductive, RefuseInductive, PTL
=============================================================================
