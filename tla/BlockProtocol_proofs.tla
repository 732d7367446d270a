----------------------- MODULE BlockProtocol_proofs -----------------------
(***************************************************************************)
(* For any number of blocks, sandboxes and tool calls, and any faults: no  *)
(* block's code runs twice or after its caller was told that it did not,   *)
(* and code that waits for a tool when its block is stopped wakes to the   *)
(* stop. As long as no call is cancelled, what callers are told is true,   *)
(* and what they get is their own unless a left-behind thread calls a      *)
(* tool.                                                                   *)
(* The lemmas say what kinds of steps there are for each part of the       *)
(* state; an invariant is then proved over these kinds, not over all       *)
(* actions.                                                                *)
(***************************************************************************)
EXTENDS BlockProtocol, TLAPS

\* What the frames, queues and variables hold: TypeOK, part by part.
UpMsgs == [kind : UpKinds, blk : 0 .. NBlocks, n : 0 .. scene.calls]
DownMsgs == [kind : DownKinds, blk : 0 .. NBlocks, n : 0 .. scene.calls]
Ids == (0 .. NBlocks) \X (0 .. scene.calls)

QueueTypes == up \in [Sess -> Seq(UpMsgs)] /\ down \in [Sess -> Seq(DownMsgs)]

HostTypes ==
    /\ scene \in Scenarios
    /\ host \in HostPCs
    /\ blk \in 0 .. NBlocks /\ cur \in 0 .. NSessions /\ used \in 0 .. NSessions
    /\ attempt \in 1 .. 2
    /\ timer \in {"off", "armed", "interrupting", "grace"}
    /\ res \in {"none", "result", "ran", "unknown", "notRun", "error"}

ResultTypes ==
    /\ bgDone \in BOOLEAN
    /\ pending \subseteq Ids /\ stopWaits \subseteq Ids
    /\ outcome \in [Blocks -> Outcomes \cup {"none"}]
    /\ got \in [Blocks -> 0 .. NBlocks] /\ tarOf \in [Blocks -> 0 .. NBlocks]

BoxTypes ==
    /\ link \in [Sess -> {"none", "up", "down"}]
    /\ box \in [Sess -> {"none", "boot", "await", "awaitRun", "run", "output",
                         "tar", "exited"}]
    /\ code \in [Sess -> {"none", "entering", "running", "blocked", "ended"}]
    /\ now \in [Sess -> 0 .. NBlocks]
    /\ stop \in [Sess -> {"none", "pending", "raised", "missed"}]
    /\ woke \in [Sess -> {"none", "value", "stop"}]
    /\ ncalls \in [Sess -> 0 .. scene.calls]
    /\ bg \in [Sess -> {"none", "alive", "over"}]
    /\ exec \in [Blocks -> {"no", "started", "finished", "again"}]

Types == QueueTypes /\ HostTypes /\ ResultTypes /\ BoxTypes
-----------------------------------------------------------------------------
(* What sending and receiving do to the frames in flight.                  *)

LEMMA Constants ==
    /\ NBlocks \in Nat /\ NSessions \in Nat
    /\ \A sc \in Scenarios : sc.calls \in Nat
    /\ scene \in Scenarios => scene.calls \in Nat /\ 0 \in 0 .. scene.calls
BY BlockAssumption

\* Queues of frames are sequences of frames.
LEMMA Frames ==
    ASSUME QueueTypes, NEW s \in Sess
    PROVE  /\ DOMAIN up[s] = 1 .. Len(up[s]) /\ Len(up[s]) \in Nat
           /\ DOMAIN down[s] = 1 .. Len(down[s]) /\ Len(down[s]) \in Nat
           /\ \A i \in DOMAIN up[s] : up[s][i] \in UpMsgs
           /\ \A i \in DOMAIN down[s] : down[s][i] \in DownMsgs
BY DEF QueueTypes

\* The host's send adds one frame at the end of an open connection's queue, and drops none.
LEMMA HostSends ==
    ASSUME QueueTypes, NEW m \in UpMsgs, HostSend(m)
    PROVE  /\ up' \in [Sess -> Seq(UpMsgs)]
           /\ \A s \in Sess : \A i \in DOMAIN up[s] :
                  i \in DOMAIN up'[s] /\ up'[s][i] = up[s][i]
           /\ \A s \in Sess : \A i \in DOMAIN up'[s] :
                  \/ i \in DOMAIN up[s]
                  \/ /\ s = cur /\ link[cur] = "up"
                     /\ i = Len(up[s]) + 1 /\ up'[s][i] = m
<1>1. \A s \in Sess : up'[s] = IF s = cur /\ link[cur] = "up" THEN Append(up[s], m) ELSE up[s]
  BY DEF QueueTypes, HostSend
<1>2. \A s \in Sess : up[s] \in Seq(UpMsgs)
  BY DEF QueueTypes
<1>3. ASSUME NEW s \in Sess
      PROVE  /\ Append(up[s], m) \in Seq(UpMsgs)
             /\ DOMAIN Append(up[s], m) = DOMAIN up[s] \cup {Len(up[s]) + 1}
             /\ \A i \in DOMAIN up[s] : Append(up[s], m)[i] = up[s][i]
             /\ Append(up[s], m)[Len(up[s]) + 1] = m
  BY <1>2
<1>4. up' \in [Sess -> Seq(UpMsgs)]
  BY <1>1, <1>2, <1>3 DEF HostSend, QueueTypes
<1> QED BY <1>1, <1>3, <1>4

\* A sandbox's send adds one frame at the end of its open connection's queue.
LEMMA BoxSends ==
    ASSUME QueueTypes, NEW s \in Sess, NEW m \in DownMsgs, BoxSend(s, m)
    PROVE  /\ down' \in [Sess -> Seq(DownMsgs)]
           /\ \A t \in Sess : \A i \in DOMAIN down[t] :
                  i \in DOMAIN down'[t] /\ down'[t][i] = down[t][i]
           /\ \A t \in Sess : \A i \in DOMAIN down'[t] :
                  \/ i \in DOMAIN down[t]
                  \/ /\ t = s /\ link[s] = "up"
                     /\ i = Len(down[s]) + 1 /\ down'[s][i] = m
<1>1. \A t \in Sess : down'[t] = IF t = s /\ link[s] = "up" THEN Append(down[t], m) ELSE down[t]
  BY DEF QueueTypes, BoxSend
<1>2. \A t \in Sess : down[t] \in Seq(DownMsgs)
  BY DEF QueueTypes
<1>3. /\ Append(down[s], m) \in Seq(DownMsgs)
      /\ DOMAIN Append(down[s], m) = DOMAIN down[s] \cup {Len(down[s]) + 1}
      /\ \A i \in DOMAIN down[s] : Append(down[s], m)[i] = down[s][i]
      /\ Append(down[s], m)[Len(down[s]) + 1] = m
  BY <1>2
<1>4. down' \in [Sess -> Seq(DownMsgs)]
  BY <1>1, <1>2, <1>3 DEF BoxSend, QueueTypes
<1> QED BY <1>1, <1>3, <1>4

\* What a sandbox takes is the first frame in flight to it; the others move up by one.
LEMMA BoxReceives ==
    ASSUME QueueTypes, NEW s \in Sess, NEW m, BoxRecv(s, m)
    PROVE  /\ m \in UpMsgs /\ 1 \in DOMAIN up[s] /\ m = up[s][1]
           /\ up' \in [Sess -> Seq(UpMsgs)]
           /\ \A t \in Sess \ {s} : up'[t] = up[t]
           /\ \A i \in DOMAIN up'[s] : /\ i \in Nat /\ i + 1 \in DOMAIN up[s]
                                       /\ up'[s][i] = up[s][i + 1]
<1>1. up[s] \in Seq(UpMsgs) /\ up[s] # <<>> /\ m = Head(up[s])
  BY DEF QueueTypes, BoxRecv
<1>2. /\ Head(up[s]) = up[s][1] /\ 1 \in DOMAIN up[s] /\ up[s][1] \in UpMsgs
      /\ Tail(up[s]) \in Seq(UpMsgs)
      /\ \A i \in DOMAIN Tail(up[s]) : /\ i \in Nat /\ i + 1 \in DOMAIN up[s]
                                       /\ Tail(up[s])[i] = up[s][i + 1]
  BY <1>1
<1>3. up' = [up EXCEPT ![s] = Tail(up[s])]
  BY DEF BoxRecv
<1> QED BY <1>1, <1>2, <1>3 DEF QueueTypes

\* What the host takes is the first frame on its connection; the others move up by one.
LEMMA HostReceives ==
    ASSUME QueueTypes, cur \in Sess, NEW m, HostRecv(m)
    PROVE  /\ m \in DownMsgs /\ 1 \in DOMAIN down[cur] /\ m = down[cur][1]
           /\ down' \in [Sess -> Seq(DownMsgs)]
           /\ \A t \in Sess \ {cur} : down'[t] = down[t]
           /\ Len(down'[cur]) = Len(down[cur]) - 1
           /\ \A i \in DOMAIN down'[cur] : /\ i \in Nat /\ i + 1 \in DOMAIN down[cur]
                                           /\ down'[cur][i] = down[cur][i + 1]
<1>1. down[cur] \in Seq(DownMsgs) /\ down[cur] # <<>> /\ m = Head(down[cur])
  BY DEF QueueTypes, HostRecv
<1>2. /\ Head(down[cur]) = down[cur][1] /\ 1 \in DOMAIN down[cur] /\ down[cur][1] \in DownMsgs
      /\ Tail(down[cur]) \in Seq(DownMsgs) /\ Len(Tail(down[cur])) = Len(down[cur]) - 1
      /\ \A i \in DOMAIN Tail(down[cur]) : /\ i \in Nat /\ i + 1 \in DOMAIN down[cur]
                                           /\ Tail(down[cur])[i] = down[cur][i + 1]
  BY <1>1
<1>3. down' = [down EXCEPT ![cur] = Tail(down[cur])]
  BY DEF HostRecv
<1> QED BY <1>1, <1>2, <1>3 DEF QueueTypes

\* A connection that breaks keeps a prefix of what was in flight.
LEMMA Drops ==
    ASSUME QueueTypes, NEW s \in Sess, NEW i \in 0 .. Len(up[s]), NEW j \in 0 .. Len(down[s]),
           Drop(s, i, j)
    PROVE  /\ up' \in [Sess -> Seq(UpMsgs)] /\ down' \in [Sess -> Seq(DownMsgs)]
           /\ \A t \in Sess : \A k \in DOMAIN up'[t] :
                  k \in DOMAIN up[t] /\ up'[t][k] = up[t][k]
           /\ \A t \in Sess : \A k \in DOMAIN down'[t] :
                  k \in DOMAIN down[t] /\ down'[t][k] = down[t][k]
<1>1. up[s] \in Seq(UpMsgs) /\ down[s] \in Seq(DownMsgs)
  BY DEF QueueTypes
<1>2. /\ SubSeq(up[s], 1, i) \in Seq(UpMsgs)
      /\ \A k \in DOMAIN SubSeq(up[s], 1, i) :
             k \in DOMAIN up[s] /\ SubSeq(up[s], 1, i)[k] = up[s][k]
  BY <1>1
<1>3. /\ SubSeq(down[s], 1, j) \in Seq(DownMsgs)
      /\ \A k \in DOMAIN SubSeq(down[s], 1, j) :
             k \in DOMAIN down[s] /\ SubSeq(down[s], 1, j)[k] = down[s][k]
  BY <1>1
<1>4. /\ up' = [up EXCEPT ![s] = SubSeq(up[s], 1, i)]
      /\ down' = [down EXCEPT ![s] = SubSeq(down[s], 1, j)]
  BY DEF Drop
<1> QED BY <1>1, <1>2, <1>3, <1>4 DEF QueueTypes

\* _discard_turn gives up what is in flight from its session, and nothing else.
LEMMA Discards ==
    ASSUME QueueTypes, Discard
    PROVE  /\ down' \in [Sess -> Seq(DownMsgs)]
           /\ \A s \in Sess : down'[s] = IF s = cur THEN <<>> ELSE down[s]
<1>1. <<>> \in Seq(DownMsgs)
  OBVIOUS
<1> QED BY <1>1 DEF QueueTypes, Discard
-----------------------------------------------------------------------------
\* Every step, and the values it takes.
LEMMA Steps ==
    ASSUME Types, [Next]_vars
    PROVE  /\ scene' = scene
           /\ \/ StageInputs \/ SendRun \/ ConnectionLost \/ Interrupt
              \/ cur \in Sess /\ \E m \in Heads(down[cur]) :
                     LoopFrame(m) \/ WaitOutput(m) \/ WaitTar(m)
              \/ Settle \/ SettleFailed \/ SettleNotRun \/ Reconnect \/ TimeOut \/ GraceOver
              \/ \E id \in pending : ReplyStopped(id) \/ ReplyValue(id)
              \/ NextBlock \/ ReconnectFails \/ CancelCall
              \/ \E s \in Sess : \E i \in 0 .. Len(up[s]), j \in 0 .. Len(down[s]) : Drop(s, i, j)
              \/ \E s \in Sess :
                     \/ Boot(s) \/ CodeEnter(s) \/ SendDone(s) \/ SendOutput(s) \/ SendTar(s)
                     \/ BoxExit(s)
                     \/ \E m \in Heads(up[s]) :
                            AwaitTar(s, m) \/ AwaitRun(s, m) \/ AwaitRunFails(s, m) \/ Pump(s, m)
                     \/ CodeCall(s) \/ CodeEnd(s) \/ CodeStopped(s) \/ CodeCatches(s) \/ Spawn(s)
                     \/ BackgroundCall(s)
              \/ UNCHANGED vars
<1>1. cur # 0 => cur \in Sess
  BY Constants DEF Types, HostTypes, Sess
<1> QED
  BY <1>1 DEF Next, HostStep, Timers, Stops, Events, BoxStep, CodeStep, TurnOver, vars

\* Every action keeps the types: of the frames by the lemmas above.
LEMMA TypesInductive == Spec => []Types
<1> USE Constants
<1>1. Init => Types
  <2> SUFFICES ASSUME Init PROVE Types
    OBVIOUS
  <2>1. QueueTypes BY DEF Init, QueueTypes
  <2>2. HostTypes BY DEF Init, HostTypes, HostPCs
  <2>3. ResultTypes
    <3>1. bgDone \in BOOLEAN /\ pending \subseteq Ids /\ stopWaits \subseteq Ids BY DEF Init
    <3>2. outcome \in [Blocks -> Outcomes \cup {"none"}] BY DEF Init
    <3>3. got \in [Blocks -> 0 .. NBlocks] /\ tarOf \in [Blocks -> 0 .. NBlocks] BY DEF Init
    <3> QED BY <3>1, <3>2, <3>3 DEF ResultTypes
  <2>4. BoxTypes BY DEF Init, BoxTypes
  <2> QED BY <2>1, <2>2, <2>3, <2>4 DEF Types
<1>2. Types /\ [Next]_vars => Types'
  <2> SUFFICES ASSUME Types, [Next]_vars PROVE Types'
    OBVIOUS
  <2>1. /\ QueueTypes /\ HostTypes /\ ResultTypes /\ BoxTypes
        /\ scene' = scene /\ scene.calls \in Nat
    BY Steps DEF Types, HostTypes
  <2>2. UpMsgs' = UpMsgs /\ DownMsgs' = DownMsgs /\ Ids' = Ids
    BY <2>1 DEF Ids, UpMsgs, DownMsgs
  <2>3. /\ 0 \in 0 .. NBlocks /\ 0 \in 0 .. scene.calls
        /\ \A id \in pending : id \in Ids /\ id[1] \in 0 .. NBlocks /\ id[2] \in 0 .. scene.calls
    BY <2>1 DEF ResultTypes, Ids
  <2>4. \A b \in 0 .. NBlocks, n \in 0 .. scene.calls :
            /\ \A k \in UpKinds : Msg(k, b, n) \in UpMsgs
            /\ \A k \in DownKinds : Msg(k, b, n) \in DownMsgs
    BY DEF Msg, UpMsgs, DownMsgs
  <2>5. CASE StageInputs
    <3>1. HostTypes' BY <2>1, <2>2, <2>3, <2>5 DEF StageInputs, HostTypes, HostPCs, Blocks, Sess
    <3>2. ResultTypes' BY <2>1, <2>2, <2>3, <2>5 DEF StageInputs, HostTypes, ResultTypes, Outcomes, Blocks
    <3>3. BoxTypes' BY <2>1, <2>2, <2>3, <2>5 DEF StageInputs, codeVars, BoxTypes
    <3>a. Msg("tar", blk, 0) \in UpMsgs BY <2>1, <2>2, <2>3, <2>4 DEF UpKinds, HostTypes
    <3>4. QueueTypes' BY <2>1, <2>2, <2>3, <3>a, <2>5, HostSends DEF StageInputs, QueueTypes
    <3> QED BY <3>1, <3>2, <3>3, <3>4 DEF Types
  <2>6. CASE SendRun
    <3>1. HostTypes' BY <2>1, <2>2, <2>3, <2>6 DEF SendRun, HostTypes, HostPCs, Blocks, Sess
    <3>2. ResultTypes' BY <2>1, <2>2, <2>3, <2>6 DEF SendRun, HostTypes, ResultTypes, Outcomes, Blocks
    <3>3. BoxTypes' BY <2>1, <2>2, <2>3, <2>6 DEF SendRun, codeVars, BoxTypes
    <3>a. Msg("run", blk, 0) \in UpMsgs BY <2>1, <2>2, <2>3, <2>4 DEF UpKinds, HostTypes
    <3>4. QueueTypes' BY <2>1, <2>2, <2>3, <3>a, <2>6, HostSends DEF SendRun, QueueTypes
    <3> QED BY <3>1, <3>2, <3>3, <3>4 DEF Types
  <2>7. CASE ConnectionLost
    <3>1. HostTypes' BY <2>1, <2>2, <2>3, <2>7 DEF ConnectionLost, EndBlock, HostTypes, HostPCs, Blocks, Sess
    <3>2. ResultTypes' BY <2>1, <2>2, <2>3, <2>7 DEF ConnectionLost, EndBlock, HostTypes, ResultTypes, Outcomes, Blocks
    <3>3. BoxTypes' BY <2>1, <2>2, <2>3, <2>7 DEF ConnectionLost, EndBlock, codeVars, BoxTypes
    <3>4. QueueTypes' BY <2>1, <2>2, <2>3, <2>7 DEF ConnectionLost, EndBlock, QueueTypes
    <3> QED BY <3>1, <3>2, <3>3, <3>4 DEF Types
  <2>8. CASE Interrupt
    <3>1. HostTypes' BY <2>1, <2>2, <2>3, <2>8 DEF Interrupt, HostTypes, HostPCs, Blocks, Sess
    <3>2. ResultTypes' BY <2>1, <2>2, <2>3, <2>8 DEF Interrupt, HostTypes, ResultTypes, Outcomes, Blocks
    <3>3. BoxTypes' BY <2>1, <2>2, <2>3, <2>8 DEF Interrupt, codeVars, BoxTypes
    <3>a. Msg("interrupt", blk, 0) \in UpMsgs BY <2>1, <2>2, <2>3, <2>4 DEF UpKinds, HostTypes
    <3>4. QueueTypes' BY <2>1, <2>2, <2>3, <3>a, <2>8, HostSends DEF Interrupt, QueueTypes
    <3> QED BY <3>1, <3>2, <3>3, <3>4 DEF Types
  <2>9. ASSUME NEW m, LoopFrame(m), cur \in Sess PROVE Types'
    <3>1. HostTypes' BY <2>1, <2>2, <2>3, <2>9, HostReceives DEF LoopFrame, HostTypes, HostPCs, Blocks, Sess
    <3>2. ResultTypes'
      <4>1. m \in DownMsgs BY <2>1, <2>9, HostReceives DEF LoopFrame
      <4>2. <<m.blk, m.n>> \in Ids BY <4>1 DEF DownMsgs, Ids
      <4>3. pending' \subseteq Ids BY <2>1, <2>9, <4>2 DEF LoopFrame, ResultTypes
      <4>4. bgDone' \in BOOLEAN BY <2>1, <2>9 DEF LoopFrame, ResultTypes
      <4> QED BY <2>1, <2>2, <2>9, <4>3, <4>4 DEF LoopFrame, ResultTypes
    <3>3. BoxTypes' BY <2>1, <2>2, <2>3, <2>9 DEF LoopFrame, codeVars, BoxTypes
    <3>4. QueueTypes' BY <2>1, <2>2, <2>3, <2>9, HostReceives DEF LoopFrame, QueueTypes
    <3> QED BY <3>1, <3>2, <3>3, <3>4 DEF Types
  <2>10. ASSUME NEW m, WaitOutput(m), cur \in Sess PROVE Types'
    <3>1. HostTypes' BY <2>1, <2>2, <2>3, <2>10, HostReceives DEF WaitOutput, EndBlock, HostTypes, HostPCs, Blocks, Sess
    <3>2. ResultTypes' BY <2>1, <2>2, <2>3, <2>10, HostReceives DEF WaitOutput, EndBlock, HostTypes, ResultTypes, Outcomes, DownMsgs
    <3>3. BoxTypes' BY <2>1, <2>2, <2>3, <2>10 DEF WaitOutput, EndBlock, codeVars, BoxTypes
    <3>4. QueueTypes' BY <2>1, <2>2, <2>3, <2>10, HostReceives DEF WaitOutput, EndBlock, QueueTypes
    <3> QED BY <3>1, <3>2, <3>3, <3>4 DEF Types
  <2>11. ASSUME NEW m, WaitTar(m), cur \in Sess PROVE Types'
    <3>1. HostTypes' BY <2>1, <2>2, <2>3, <2>11, HostReceives DEF WaitTar, EndBlock, HostTypes, HostPCs, Blocks, Sess
    <3>2. ResultTypes'
      <4>1. m \in DownMsgs BY <2>1, <2>11, HostReceives DEF WaitTar
      <4>2. m.blk \in 0 .. NBlocks BY <4>1 DEF DownMsgs
      <4>3. tarOf' \in [Blocks -> 0 .. NBlocks] BY <2>1, <2>11, <4>2 DEF WaitTar, ResultTypes
      <4>4. bgDone' \in BOOLEAN BY <2>1, <2>11 DEF WaitTar, ResultTypes
      <4> QED BY <2>1, <2>2, <2>11, <4>3, <4>4 DEF WaitTar, EndBlock, ResultTypes
    <3>3. BoxTypes' BY <2>1, <2>2, <2>3, <2>11 DEF WaitTar, EndBlock, codeVars, BoxTypes
    <3>4. QueueTypes' BY <2>1, <2>2, <2>3, <2>11, HostReceives DEF WaitTar, EndBlock, QueueTypes
    <3> QED BY <3>1, <3>2, <3>3, <3>4 DEF Types
  <2>12. CASE Settle
    <3>1. HostTypes' BY <2>1, <2>2, <2>3, <2>12 DEF Settle, Report, Discard, HostTypes, HostPCs, Blocks, Sess
    <3>2. ResultTypes' BY <2>1, <2>2, <2>3, <2>12 DEF Settle, Report, Discard, HostTypes, ResultTypes, Outcomes, Blocks
    <3>3. BoxTypes' BY <2>1, <2>2, <2>3, <2>12 DEF Settle, Report, Discard, codeVars, BoxTypes, HostTypes, Blocks, Sess
    <3>4. QueueTypes' BY <2>1, <2>2, <2>3, <2>12, Discards DEF Settle, Report, Discard, QueueTypes
    <3> QED BY <3>1, <3>2, <3>3, <3>4 DEF Types
  <2>13. CASE SettleFailed
    <3>1. HostTypes' BY <2>1, <2>2, <2>3, <2>13 DEF SettleFailed, Report, Discard, HostTypes, HostPCs, Blocks, Sess
    <3>2. ResultTypes' BY <2>1, <2>2, <2>3, <2>13 DEF SettleFailed, Report, Discard, HostTypes, ResultTypes, Outcomes, Blocks
    <3>3. BoxTypes' BY <2>1, <2>2, <2>3, <2>13 DEF SettleFailed, Report, Discard, codeVars, BoxTypes, HostTypes, Blocks, Sess
    <3>4. QueueTypes' BY <2>1, <2>2, <2>3, <2>13, Discards DEF SettleFailed, Report, Discard, QueueTypes
    <3> QED BY <3>1, <3>2, <3>3, <3>4 DEF Types
  <2>14. CASE SettleNotRun
    <3>1. HostTypes' BY <2>1, <2>2, <2>3, <2>14 DEF SettleNotRun, Discard, HostTypes, HostPCs, Blocks, Sess
    <3>2. ResultTypes' BY <2>1, <2>2, <2>3, <2>14 DEF SettleNotRun, Discard, HostTypes, ResultTypes, Outcomes, Blocks
    <3>3. BoxTypes' BY <2>1, <2>2, <2>3, <2>14 DEF SettleNotRun, Discard, codeVars, BoxTypes, HostTypes, Blocks, Sess
    <3>4. QueueTypes' BY <2>1, <2>2, <2>3, <2>14, Discards DEF SettleNotRun, Discard, QueueTypes
    <3> QED BY <3>1, <3>2, <3>3, <3>4 DEF Types
  <2>15. CASE Reconnect
    <3>1. HostTypes' BY <2>1, <2>2, <2>3, <2>15 DEF Reconnect, StartSession, BeginAttempt, HostTypes, HostPCs, Blocks, Sess
    <3>2. ResultTypes' BY <2>1, <2>2, <2>3, <2>15 DEF Reconnect, StartSession, BeginAttempt, HostTypes, ResultTypes, Outcomes, Blocks
    <3>3. BoxTypes' BY <2>1, <2>2, <2>3, <2>15 DEF Reconnect, StartSession, BeginAttempt, codeVars, BoxTypes, HostTypes, Blocks, Sess
    <3>4. QueueTypes' BY <2>1, <2>2, <2>3, <2>15 DEF Reconnect, StartSession, BeginAttempt, QueueTypes
    <3> QED BY <3>1, <3>2, <3>3, <3>4 DEF Types
  <2>16. CASE TimeOut
    <3>1. HostTypes' BY <2>1, <2>2, <2>3, <2>16 DEF TimeOut, InFlight, HostTypes, HostPCs, Blocks, Sess
    <3>2. ResultTypes' BY <2>1, <2>2, <2>3, <2>16 DEF TimeOut, InFlight, HostTypes, ResultTypes, Outcomes, Blocks
    <3>3. BoxTypes' BY <2>1, <2>2, <2>3, <2>16 DEF TimeOut, InFlight, codeVars, BoxTypes
    <3>4. QueueTypes' BY <2>1, <2>2, <2>3, <2>16 DEF TimeOut, InFlight, QueueTypes
    <3> QED BY <3>1, <3>2, <3>3, <3>4 DEF Types
  <2>17. CASE GraceOver
    <3>1. HostTypes' BY <2>1, <2>2, <2>3, <2>17 DEF GraceOver, Report, Discard, InFlight, HostTypes, HostPCs, Blocks, Sess
    <3>2. ResultTypes' BY <2>1, <2>2, <2>3, <2>17 DEF GraceOver, Report, Discard, InFlight, HostTypes, ResultTypes, Outcomes, Blocks
    <3>3. BoxTypes' BY <2>1, <2>2, <2>3, <2>17 DEF GraceOver, Report, Discard, InFlight, codeVars, BoxTypes, HostTypes, Blocks, Sess
    <3>4. QueueTypes' BY <2>1, <2>2, <2>3, <2>17, Discards DEF GraceOver, Report, Discard, InFlight, QueueTypes
    <3> QED BY <3>1, <3>2, <3>3, <3>4 DEF Types
  <2>18. ASSUME NEW id \in pending, ReplyStopped(id) PROVE Types'
    <3>1. HostTypes' BY <2>1, <2>2, <2>3, <2>18 DEF ReplyStopped, HostTypes, HostPCs, Blocks, Sess
    <3>2. ResultTypes' BY <2>1, <2>2, <2>3, <2>18 DEF ReplyStopped, HostTypes, ResultTypes, Outcomes, Blocks
    <3>3. BoxTypes' BY <2>1, <2>2, <2>3, <2>18 DEF ReplyStopped, codeVars, BoxTypes
    <3>a. Msg("stop", id[1], id[2]) \in UpMsgs BY <2>1, <2>2, <2>3, <2>4 DEF UpKinds, HostTypes
    <3>4. QueueTypes' BY <2>1, <2>2, <2>3, <3>a, <2>18, HostSends DEF ReplyStopped, QueueTypes
    <3> QED BY <3>1, <3>2, <3>3, <3>4 DEF Types
  <2>19. CASE NextBlock
    <3>1. HostTypes' BY <2>1, <2>2, <2>3, <2>19 DEF NextBlock, StartSession, BeginAttempt, HostTypes, HostPCs, Blocks, Sess
    <3>2. ResultTypes' BY <2>1, <2>2, <2>3, <2>19 DEF NextBlock, StartSession, BeginAttempt, HostTypes, ResultTypes, Outcomes, Blocks
    <3>3. BoxTypes' BY <2>1, <2>2, <2>3, <2>19 DEF NextBlock, StartSession, BeginAttempt, codeVars, BoxTypes, HostTypes, Blocks, Sess
    <3>4. QueueTypes' BY <2>1, <2>2, <2>3, <2>19 DEF NextBlock, StartSession, BeginAttempt, QueueTypes
    <3> QED BY <3>1, <3>2, <3>3, <3>4 DEF Types
  <2>20. CASE ReconnectFails
    <3>1. HostTypes' BY <2>1, <2>2, <2>3, <2>20 DEF ReconnectFails, Report, HostTypes, HostPCs, Blocks, Sess
    <3>2. ResultTypes' BY <2>1, <2>2, <2>3, <2>20 DEF ReconnectFails, Report, HostTypes, ResultTypes, Outcomes, Blocks
    <3>3. BoxTypes' BY <2>1, <2>2, <2>3, <2>20 DEF ReconnectFails, Report, codeVars, BoxTypes
    <3>4. QueueTypes' BY <2>1, <2>2, <2>3, <2>20 DEF ReconnectFails, Report, QueueTypes
    <3> QED BY <3>1, <3>2, <3>3, <3>4 DEF Types
  <2>21. CASE CancelCall
    <3>1. HostTypes' BY <2>1, <2>2, <2>3, <2>21 DEF CancelCall, Report, InFlight, HostTypes, HostPCs, Blocks, Sess
    <3>2. ResultTypes' BY <2>1, <2>2, <2>3, <2>21 DEF CancelCall, Report, InFlight, HostTypes, ResultTypes, Outcomes, Blocks
    <3>3. BoxTypes' BY <2>1, <2>2, <2>3, <2>21 DEF CancelCall, Report, InFlight, codeVars, BoxTypes
    <3>4. QueueTypes' BY <2>1, <2>2, <2>3, <2>21 DEF CancelCall, Report, InFlight, QueueTypes
    <3> QED BY <3>1, <3>2, <3>3, <3>4 DEF Types
  <2>22. ASSUME NEW id \in pending, ReplyValue(id) PROVE Types'
    <3>1. HostTypes' BY <2>1, <2>2, <2>3, <2>22 DEF ReplyValue, HostTypes, HostPCs, Blocks, Sess
    <3>2. ResultTypes' BY <2>1, <2>2, <2>3, <2>22 DEF ReplyValue, HostTypes, ResultTypes, Outcomes, Blocks
    <3>3. BoxTypes' BY <2>1, <2>2, <2>3, <2>22 DEF ReplyValue, codeVars, BoxTypes
    <3>a. Msg("value", id[1], id[2]) \in UpMsgs BY <2>1, <2>2, <2>3, <2>4 DEF UpKinds, HostTypes
    <3>4. QueueTypes' BY <2>1, <2>2, <2>3, <3>a, <2>22, HostSends DEF ReplyValue, QueueTypes
    <3> QED BY <3>1, <3>2, <3>3, <3>4 DEF Types
  <2>23. ASSUME NEW s \in Sess, NEW i \in 0 .. Len(up[s]), NEW j \in 0 .. Len(down[s]),
              Drop(s, i, j)
       PROVE  Types'
    <3>1. HostTypes' BY <2>1, <2>2, <2>3, <2>23 DEF Drop, hostVars, HostTypes, HostPCs, Blocks, Sess
    <3>2. ResultTypes' BY <2>1, <2>2, <2>3, <2>23 DEF Drop, hostVars, HostTypes, ResultTypes, Outcomes, Blocks
    <3>3. BoxTypes' BY <2>1, <2>2, <2>3, <2>23 DEF Drop, codeVars, BoxTypes, HostTypes, Blocks, Sess
    <3>4. QueueTypes' BY <2>1, <2>2, <2>3, <2>23, Drops DEF QueueTypes
    <3> QED BY <3>1, <3>2, <3>3, <3>4 DEF Types
  <2>24. ASSUME NEW s \in Sess, Boot(s) PROVE Types'
    <3>1. HostTypes' BY <2>1, <2>2, <2>3, <2>24 DEF Boot, hostVars, HostTypes
    <3>2. ResultTypes' BY <2>1, <2>2, <2>3, <2>24 DEF Boot, hostVars, ResultTypes
    <3>3. BoxTypes' BY <2>1, <2>2, <2>3, <2>24 DEF Boot, codeVars, BoxTypes, Blocks
    <3>a. Msg("ready", 0, 0) \in DownMsgs BY <2>1, <2>2, <2>3, <2>4 DEF DownKinds, BoxTypes, HostTypes
    <3>4. QueueTypes' BY <2>1, <2>2, <2>3, <3>a, <2>24, BoxSends DEF Boot, QueueTypes
    <3> QED BY <3>1, <3>2, <3>3, <3>4 DEF Types
  <2>25. ASSUME NEW s \in Sess, CodeEnter(s) PROVE Types'
    <3>1. HostTypes' BY <2>1, <2>2, <2>3, <2>25 DEF CodeEnter, hostVars, HostTypes
    <3>2. ResultTypes' BY <2>1, <2>2, <2>3, <2>25 DEF CodeEnter, hostVars, ResultTypes
    <3>3. BoxTypes' BY <2>1, <2>2, <2>3, <2>25 DEF CodeEnter, codeVars, BoxTypes, Blocks
    <3>4. QueueTypes' BY <2>1, <2>2, <2>3, <2>25 DEF CodeEnter, QueueTypes
    <3> QED BY <3>1, <3>2, <3>3, <3>4 DEF Types
  <2>26. ASSUME NEW s \in Sess, SendDone(s) PROVE Types'
    <3>1. HostTypes' BY <2>1, <2>2, <2>3, <2>26 DEF SendDone, hostVars, HostTypes
    <3>2. ResultTypes' BY <2>1, <2>2, <2>3, <2>26 DEF SendDone, hostVars, ResultTypes
    <3>3. BoxTypes' BY <2>1, <2>2, <2>3, <2>26 DEF SendDone, codeVars, BoxTypes, Blocks
    <3>a. Msg(IF bg[s] = "alive" THEN "doneBg" ELSE "done", now[s], 0) \in DownMsgs BY <2>1, <2>2, <2>3, <2>4 DEF DownKinds, BoxTypes, HostTypes
    <3>4. QueueTypes' BY <2>1, <2>2, <2>3, <3>a, <2>26, BoxSends DEF SendDone, QueueTypes
    <3> QED BY <3>1, <3>2, <3>3, <3>4 DEF Types
  <2>27. ASSUME NEW s \in Sess, SendOutput(s) PROVE Types'
    <3>1. HostTypes' BY <2>1, <2>2, <2>3, <2>27 DEF SendOutput, hostVars, HostTypes
    <3>2. ResultTypes' BY <2>1, <2>2, <2>3, <2>27 DEF SendOutput, hostVars, ResultTypes
    <3>3. BoxTypes' BY <2>1, <2>2, <2>3, <2>27 DEF SendOutput, codeVars, BoxTypes, Blocks
    <3>a. Msg("output", now[s], 0) \in DownMsgs BY <2>1, <2>2, <2>3, <2>4 DEF DownKinds, BoxTypes, HostTypes
    <3>4. QueueTypes' BY <2>1, <2>2, <2>3, <3>a, <2>27, BoxSends DEF SendOutput, QueueTypes
    <3> QED BY <3>1, <3>2, <3>3, <3>4 DEF Types
  <2>28. ASSUME NEW s \in Sess, SendTar(s) PROVE Types'
    <3>1. HostTypes' BY <2>1, <2>2, <2>3, <2>28 DEF SendTar, hostVars, HostTypes
    <3>2. ResultTypes' BY <2>1, <2>2, <2>3, <2>28 DEF SendTar, hostVars, ResultTypes
    <3>3. BoxTypes' BY <2>1, <2>2, <2>3, <2>28 DEF SendTar, codeVars, BoxTypes, Blocks
    <3>a. Msg("tar", now[s], 0) \in DownMsgs BY <2>1, <2>2, <2>3, <2>4 DEF DownKinds, BoxTypes, HostTypes
    <3>4. QueueTypes' BY <2>1, <2>2, <2>3, <3>a, <2>28, BoxSends DEF SendTar, QueueTypes
    <3> QED BY <3>1, <3>2, <3>3, <3>4 DEF Types
  <2>29. ASSUME NEW s \in Sess, BoxExit(s) PROVE Types'
    <3>1. HostTypes' BY <2>1, <2>2, <2>3, <2>29 DEF BoxExit, Gone, hostVars, HostTypes
    <3>2. ResultTypes' BY <2>1, <2>2, <2>3, <2>29 DEF BoxExit, Gone, hostVars, ResultTypes
    <3>3. BoxTypes' BY <2>1, <2>2, <2>3, <2>29 DEF BoxExit, Gone, codeVars, BoxTypes, Blocks
    <3>4. QueueTypes' BY <2>1, <2>2, <2>3, <2>29 DEF BoxExit, Gone, QueueTypes
    <3> QED BY <3>1, <3>2, <3>3, <3>4 DEF Types
  <2>30. ASSUME NEW s \in Sess, NEW m, AwaitTar(s, m) PROVE Types'
    <3>1. HostTypes' BY <2>1, <2>2, <2>3, <2>30 DEF AwaitTar, hostVars, HostTypes
    <3>2. ResultTypes' BY <2>1, <2>2, <2>3, <2>30 DEF AwaitTar, hostVars, ResultTypes
    <3>3. BoxTypes' BY <2>1, <2>2, <2>3, <2>30 DEF AwaitTar, codeVars, BoxTypes, Blocks
    <3>4. QueueTypes' BY <2>1, <2>2, <2>3, <2>30, BoxReceives DEF AwaitTar, QueueTypes
    <3> QED BY <3>1, <3>2, <3>3, <3>4 DEF Types
  <2>31. ASSUME NEW s \in Sess, NEW m, AwaitRun(s, m) PROVE Types'
    <3>1. HostTypes' BY <2>1, <2>2, <2>3, <2>31 DEF AwaitRun, hostVars, HostTypes
    <3>2. ResultTypes' BY <2>1, <2>2, <2>3, <2>31 DEF AwaitRun, hostVars, ResultTypes
    <3>3. BoxTypes' BY <2>1, <2>2, <2>3, <2>31, BoxReceives DEF AwaitRun, codeVars, BoxTypes, Blocks, UpMsgs
    <3>4. QueueTypes' BY <2>1, <2>2, <2>3, <2>31, BoxReceives DEF AwaitRun, QueueTypes
    <3> QED BY <3>1, <3>2, <3>3, <3>4 DEF Types
  <2>32. ASSUME NEW s \in Sess, NEW m, AwaitRunFails(s, m) PROVE Types'
    <3>1. HostTypes' BY <2>1, <2>2, <2>3, <2>32 DEF AwaitRunFails, Gone, hostVars, HostTypes
    <3>2. ResultTypes' BY <2>1, <2>2, <2>3, <2>32 DEF AwaitRunFails, Gone, hostVars, ResultTypes
    <3>3. BoxTypes' BY <2>1, <2>2, <2>3, <2>32 DEF AwaitRunFails, Gone, codeVars, BoxTypes, Blocks
    <3>4. QueueTypes' BY <2>1, <2>2, <2>3, <2>32 DEF AwaitRunFails, Gone, QueueTypes
    <3> QED BY <3>1, <3>2, <3>3, <3>4 DEF Types
  <2>33. ASSUME NEW s \in Sess, NEW m, Pump(s, m) PROVE Types'
    <3>1. HostTypes' BY <2>1, <2>2, <2>3, <2>33 DEF Pump, hostVars, HostTypes
    <3>2. ResultTypes' BY <2>1, <2>2, <2>3, <2>33 DEF Pump, hostVars, ResultTypes
    <3>3. BoxTypes'
      <4>1. stop' \in [Sess -> {"none", "pending", "raised", "missed"}] BY <2>1, <2>33 DEF Pump, BoxTypes
      <4>2. woke' \in [Sess -> {"none", "value", "stop"}] BY <2>1, <2>33 DEF Pump, BoxTypes
      <4>3. code' \in [Sess -> {"none", "entering", "running", "blocked", "ended"}]
        BY <2>1, <2>33 DEF Pump, BoxTypes
      <4> QED BY <2>1, <2>33, <4>1, <4>2, <4>3 DEF Pump, BoxTypes
    <3>4. QueueTypes' BY <2>1, <2>2, <2>3, <2>33, BoxReceives DEF Pump, QueueTypes
    <3> QED BY <3>1, <3>2, <3>3, <3>4 DEF Types
  <2>34. ASSUME NEW s \in Sess, CodeCall(s) PROVE Types'
    <3>1. HostTypes' BY <2>1, <2>2, <2>3, <2>34 DEF CodeCall, hostVars, HostTypes
    <3>2. ResultTypes' BY <2>1, <2>2, <2>3, <2>34 DEF CodeCall, hostVars, ResultTypes
    <3>3. BoxTypes' BY <2>1, <2>2, <2>3, <2>34 DEF CodeCall, codeVars, BoxTypes, Blocks, HostTypes
    <3>a. Msg("call", now[s], ncalls[s] + 1) \in DownMsgs BY <2>1, <2>2, <2>3, <2>4, <2>34 DEF CodeCall, DownKinds, BoxTypes
    <3>4. QueueTypes' BY <2>1, <2>2, <2>3, <3>a, <2>34, BoxSends DEF CodeCall, QueueTypes
    <3> QED BY <3>1, <3>2, <3>3, <3>4 DEF Types
  <2>35. ASSUME NEW s \in Sess, CodeEnd(s) PROVE Types'
    <3>1. HostTypes' BY <2>1, <2>2, <2>3, <2>35 DEF CodeEnd, FinishCode, hostVars, HostTypes
    <3>2. ResultTypes' BY <2>1, <2>2, <2>3, <2>35 DEF CodeEnd, FinishCode, hostVars, ResultTypes
    <3>3. BoxTypes' BY <2>1, <2>2, <2>3, <2>35 DEF CodeEnd, FinishCode, codeVars, BoxTypes, Blocks
    <3>4. QueueTypes' BY <2>1, <2>2, <2>3, <2>35 DEF CodeEnd, FinishCode, QueueTypes
    <3> QED BY <3>1, <3>2, <3>3, <3>4 DEF Types
  <2>36. ASSUME NEW s \in Sess, CodeStopped(s) PROVE Types'
    <3>1. HostTypes' BY <2>1, <2>2, <2>3, <2>36 DEF CodeStopped, FinishCode, hostVars, HostTypes
    <3>2. ResultTypes' BY <2>1, <2>2, <2>3, <2>36 DEF CodeStopped, FinishCode, hostVars, ResultTypes
    <3>3. BoxTypes' BY <2>1, <2>2, <2>3, <2>36 DEF CodeStopped, FinishCode, codeVars, BoxTypes, Blocks
    <3>4. QueueTypes' BY <2>1, <2>2, <2>3, <2>36 DEF CodeStopped, FinishCode, QueueTypes
    <3> QED BY <3>1, <3>2, <3>3, <3>4 DEF Types
  <2>37. ASSUME NEW s \in Sess, CodeCatches(s) PROVE Types'
    <3>1. HostTypes' BY <2>1, <2>2, <2>3, <2>37 DEF CodeCatches, hostVars, HostTypes
    <3>2. ResultTypes' BY <2>1, <2>2, <2>3, <2>37 DEF CodeCatches, hostVars, ResultTypes
    <3>3. BoxTypes' BY <2>1, <2>2, <2>3, <2>37 DEF CodeCatches, codeVars, BoxTypes, Blocks
    <3>4. QueueTypes' BY <2>1, <2>2, <2>3, <2>37 DEF CodeCatches, QueueTypes
    <3> QED BY <3>1, <3>2, <3>3, <3>4 DEF Types
  <2>38. ASSUME NEW s \in Sess, Spawn(s) PROVE Types'
    <3>1. HostTypes' BY <2>1, <2>2, <2>3, <2>38 DEF Spawn, hostVars, HostTypes
    <3>2. ResultTypes' BY <2>1, <2>2, <2>3, <2>38 DEF Spawn, hostVars, ResultTypes
    <3>3. BoxTypes' BY <2>1, <2>2, <2>3, <2>38 DEF Spawn, codeVars, BoxTypes, Blocks
    <3>4. QueueTypes' BY <2>1, <2>2, <2>3, <2>38 DEF Spawn, QueueTypes
    <3> QED BY <3>1, <3>2, <3>3, <3>4 DEF Types
  <2>39. ASSUME NEW s \in Sess, BackgroundCall(s) PROVE Types'
    <3>1. HostTypes' BY <2>1, <2>2, <2>3, <2>39 DEF BackgroundCall, hostVars, HostTypes
    <3>2. ResultTypes' BY <2>1, <2>2, <2>3, <2>39 DEF BackgroundCall, hostVars, ResultTypes
    <3>3. BoxTypes' BY <2>1, <2>2, <2>3, <2>39 DEF BackgroundCall, codeVars, BoxTypes, Blocks
    <3>a. Msg("call", 0, 0) \in DownMsgs BY <2>1, <2>2, <2>3, <2>4 DEF DownKinds, BoxTypes, HostTypes
    <3>4. QueueTypes' BY <2>1, <2>2, <2>3, <3>a, <2>39, BoxSends DEF BackgroundCall, QueueTypes
    <3> QED BY <3>1, <3>2, <3>3, <3>4 DEF Types
  <2>40. CASE UNCHANGED vars
    BY <2>1, <2>2, <2>40 DEF vars, hostVars, codeVars, Types, QueueTypes, HostTypes, ResultTypes, BoxTypes, UpMsgs, DownMsgs, Ids
  <2> QED BY <2>5, <2>6, <2>7, <2>8, <2>9, <2>10, <2>11, <2>12, <2>13, <2>14, <2>15, <2>16, <2>17, <2>18, <2>19, <2>20, <2>21, <2>22, <2>23, <2>24, <2>25, <2>26, <2>27, <2>28, <2>29, <2>30, <2>31, <2>32, <2>33, <2>34, <2>35, <2>36, <2>37, <2>38, <2>39, <2>40, Steps
<1> QED BY <1>1, <1>2, PTL DEF Spec

\* The types; above all, only the frames of the protocol are ever in flight, and calls
\* are numbered within the scenario's bound.
THEOREM BlockTypes == Spec => []TypeOK
<1>1. Types => TypeOK
  BY Frames DEF Types, HostTypes, ResultTypes, BoxTypes, TypeOK, UpMsgs, DownMsgs, Ids
<1> QED BY <1>1, TypesInductive, PTL
-----------------------------------------------------------------------------
(* How the parts of the host's and of a sandbox's state go together.       *)

\* What the host's place says of its timer, its session, its pending calls and its result.
HostShape ==
    /\ host # "idle" => blk \in Blocks
    /\ timer = "off" <=> host \in {"idle", "reconnecting"}
    /\ host # "idle" => (host = "reconnecting" <=> cur = 0)
    /\ pending # {} => host = "looping"
    /\ res # "none" <=> host \in {"ended", "reconnecting"}
    /\ host = "reconnecting" => res = "notRun"

\* Sandboxes are started in order.
FreshShape ==
    /\ cur <= used
    /\ \A s \in Sess : s > used =>
           link[s] = "none" /\ box[s] = "none" /\ up[s] = <<>> /\ down[s] = <<>> /\ bg[s] = "none"

\* The worker thread is there exactly while _run_one_block waits for it.
BoxShape ==
    \A s \in Sess :
        /\ box[s] = "run" <=> code[s] # "none"
        /\ now[s] # 0 => box[s] \in {"run", "output", "tar"}
        /\ code[s] \in {"none", "entering"} => ncalls[s] = 0 /\ woke[s] = "none"

Shape == HostShape /\ FreshShape /\ BoxShape

\* Each kind of step keeps the three parts.
LEMMA ShapeInductive == Spec => []Shape
<1> USE Constants
<1>1. Init => Shape
  BY DEF Init, Shape, HostShape, FreshShape, BoxShape
<1>2. Types /\ Types' /\ Shape /\ [Next]_vars => Shape'
  <2> SUFFICES ASSUME Types, Types', Shape, [Next]_vars PROVE Shape'
    OBVIOUS
  <2>1. QueueTypes /\ HostTypes /\ BoxTypes /\ HostShape /\ FreshShape /\ BoxShape
    BY DEF Types, Shape
  <2>2. HostTypes' /\ BoxTypes' /\ (cur # 0 => cur \in Sess /\ cur <= used)
    BY <2>1 DEF Types, HostTypes, FreshShape, Sess
  <2>3. CASE StageInputs
    <3>1. HostShape' BY <2>1, <2>2, <2>3 DEF StageInputs, HostShape, HostTypes, Blocks
    <3>2. FreshShape' BY <2>1, <2>2, <2>3 DEF StageInputs, HostSend, codeVars, FreshShape, HostShape, HostTypes, QueueTypes, BoxTypes
    <3>3. BoxShape' BY <2>1, <2>2, <2>3 DEF StageInputs, codeVars, BoxShape
    <3> QED BY <3>1, <3>2, <3>3 DEF Shape
  <2>4. CASE SendRun
    <3>1. HostShape' BY <2>1, <2>2, <2>4 DEF SendRun, HostShape, HostTypes, Blocks
    <3>2. FreshShape' BY <2>1, <2>2, <2>4 DEF SendRun, HostSend, codeVars, FreshShape, HostShape, HostTypes, QueueTypes, BoxTypes
    <3>3. BoxShape' BY <2>1, <2>2, <2>4 DEF SendRun, codeVars, BoxShape
    <3> QED BY <3>1, <3>2, <3>3 DEF Shape
  <2>5. CASE ConnectionLost
    <3>1. HostShape' BY <2>1, <2>2, <2>5 DEF ConnectionLost, EndBlock, HostShape, HostTypes, Blocks
    <3>2. FreshShape' BY <2>1, <2>2, <2>5 DEF ConnectionLost, EndBlock, codeVars, FreshShape, HostShape, HostTypes, QueueTypes, BoxTypes
    <3>3. BoxShape' BY <2>1, <2>2, <2>5 DEF ConnectionLost, EndBlock, codeVars, BoxShape
    <3> QED BY <3>1, <3>2, <3>3 DEF Shape
  <2>6. CASE Interrupt
    <3>1. HostShape' BY <2>1, <2>2, <2>6 DEF Interrupt, HostShape, HostTypes, Blocks
    <3>2. FreshShape' BY <2>1, <2>2, <2>6 DEF Interrupt, HostSend, codeVars, FreshShape, HostShape, HostTypes, QueueTypes, BoxTypes
    <3>3. BoxShape' BY <2>1, <2>2, <2>6 DEF Interrupt, codeVars, BoxShape
    <3> QED BY <3>1, <3>2, <3>3 DEF Shape
  <2>7. ASSUME NEW m, LoopFrame(m), cur \in Sess PROVE Shape'
    <3>1. HostShape' BY <2>1, <2>2, <2>7 DEF LoopFrame, HostShape, HostTypes, Blocks
    <3>2. FreshShape' BY <2>1, <2>2, <2>7 DEF LoopFrame, HostRecv, codeVars, FreshShape, HostShape, HostTypes, QueueTypes, BoxTypes
    <3>3. BoxShape' BY <2>1, <2>2, <2>7 DEF LoopFrame, codeVars, BoxShape
    <3> QED BY <3>1, <3>2, <3>3 DEF Shape
  <2>8. ASSUME NEW m, WaitOutput(m), cur \in Sess PROVE Shape'
    <3>1. HostShape' BY <2>1, <2>2, <2>8 DEF WaitOutput, EndBlock, HostShape, HostTypes, Blocks
    <3>2. FreshShape' BY <2>1, <2>2, <2>8 DEF WaitOutput, EndBlock, HostRecv, codeVars, FreshShape, HostShape, HostTypes, QueueTypes, BoxTypes
    <3>3. BoxShape' BY <2>1, <2>2, <2>8 DEF WaitOutput, EndBlock, codeVars, BoxShape
    <3> QED BY <3>1, <3>2, <3>3 DEF Shape
  <2>9. ASSUME NEW m, WaitTar(m), cur \in Sess PROVE Shape'
    <3>1. HostShape' BY <2>1, <2>2, <2>9 DEF WaitTar, EndBlock, HostShape, HostTypes, Blocks
    <3>2. FreshShape' BY <2>1, <2>2, <2>9 DEF WaitTar, EndBlock, HostRecv, codeVars, FreshShape, HostShape, HostTypes, QueueTypes, BoxTypes
    <3>3. BoxShape' BY <2>1, <2>2, <2>9 DEF WaitTar, EndBlock, codeVars, BoxShape
    <3> QED BY <3>1, <3>2, <3>3 DEF Shape
  <2>10. CASE Settle
    <3>1. HostShape' BY <2>1, <2>2, <2>10 DEF Settle, Report, Discard, HostShape, HostTypes, Blocks
    <3>2. FreshShape' BY <2>1, <2>2, <2>10 DEF Settle, Report, Discard, codeVars, FreshShape, HostShape, HostTypes, QueueTypes, BoxTypes
    <3>3. BoxShape' BY <2>1, <2>2, <2>10 DEF Settle, Report, Discard, codeVars, BoxShape
    <3> QED BY <3>1, <3>2, <3>3 DEF Shape
  <2>11. CASE SettleFailed
    <3>1. HostShape' BY <2>1, <2>2, <2>11 DEF SettleFailed, Report, Discard, HostShape, HostTypes, Blocks
    <3>2. FreshShape' BY <2>1, <2>2, <2>11 DEF SettleFailed, Report, Discard, codeVars, FreshShape, HostShape, HostTypes, QueueTypes, BoxTypes
    <3>3. BoxShape' BY <2>1, <2>2, <2>11 DEF SettleFailed, Report, Discard, codeVars, BoxShape
    <3> QED BY <3>1, <3>2, <3>3 DEF Shape
  <2>12. CASE SettleNotRun
    <3>1. HostShape' BY <2>1, <2>2, <2>12 DEF SettleNotRun, Discard, HostShape, HostTypes, Blocks
    <3>2. FreshShape' BY <2>1, <2>2, <2>12 DEF SettleNotRun, Discard, codeVars, FreshShape, HostShape, HostTypes, QueueTypes, BoxTypes
    <3>3. BoxShape' BY <2>1, <2>2, <2>12 DEF SettleNotRun, Discard, codeVars, BoxShape
    <3> QED BY <3>1, <3>2, <3>3 DEF Shape
  <2>13. CASE Reconnect
    <3>1. HostShape' BY <2>1, <2>2, <2>13 DEF Reconnect, StartSession, BeginAttempt, HostShape, HostTypes, Blocks
    <3>2. FreshShape'
      <4>1. /\ cur' = used + 1 /\ used' = used + 1 /\ used + 1 \in Sess
            /\ link' = [link EXCEPT ![used + 1] = "up"] /\ box' = [box EXCEPT ![used + 1] = "boot"]
            /\ UNCHANGED <<up, down, bg>>
        BY <2>1, <2>13 DEF Reconnect, StartSession, codeVars, HostTypes, Sess
      <4> QED BY <2>1, <4>1 DEF FreshShape, BoxTypes, HostTypes, Sess
    <3>3. BoxShape' BY <2>1, <2>2, <2>13 DEF Reconnect, StartSession, BeginAttempt, codeVars, BoxShape, FreshShape, HostTypes, BoxTypes
    <3> QED BY <3>1, <3>2, <3>3 DEF Shape
  <2>14. CASE TimeOut
    <3>1. HostShape' BY <2>1, <2>2, <2>14 DEF TimeOut, InFlight, HostShape, HostTypes, Blocks
    <3>2. FreshShape' BY <2>1, <2>2, <2>14 DEF TimeOut, InFlight, codeVars, FreshShape, HostShape, HostTypes, QueueTypes, BoxTypes
    <3>3. BoxShape' BY <2>1, <2>2, <2>14 DEF TimeOut, InFlight, codeVars, BoxShape
    <3> QED BY <3>1, <3>2, <3>3 DEF Shape
  <2>15. CASE GraceOver
    <3>1. HostShape' BY <2>1, <2>2, <2>15 DEF GraceOver, Report, Discard, InFlight, HostShape, HostTypes, Blocks
    <3>2. FreshShape' BY <2>1, <2>2, <2>15 DEF GraceOver, Report, Discard, InFlight, codeVars, FreshShape, HostShape, HostTypes, QueueTypes, BoxTypes
    <3>3. BoxShape' BY <2>1, <2>2, <2>15 DEF GraceOver, Report, Discard, InFlight, codeVars, BoxShape
    <3> QED BY <3>1, <3>2, <3>3 DEF Shape
  <2>16. ASSUME NEW id \in pending, ReplyStopped(id) PROVE Shape'
    <3>1. HostShape' BY <2>1, <2>2, <2>16 DEF ReplyStopped, HostShape, HostTypes, Blocks
    <3>2. FreshShape' BY <2>1, <2>2, <2>16 DEF ReplyStopped, HostSend, codeVars, FreshShape, HostShape, HostTypes, QueueTypes, BoxTypes
    <3>3. BoxShape' BY <2>1, <2>2, <2>16 DEF ReplyStopped, codeVars, BoxShape
    <3> QED BY <3>1, <3>2, <3>3 DEF Shape
  <2>17. CASE NextBlock
    <3>1. HostShape' BY <2>1, <2>2, <2>17 DEF NextBlock, StartSession, BeginAttempt, HostShape, HostTypes, Blocks
    <3>2. FreshShape'
      <4>1. CASE UNCHANGED <<cur, used, link, box>>
        BY <2>1, <2>17, <4>1 DEF NextBlock, codeVars, FreshShape
      <4>2. CASE StartSession
        <5>1. /\ cur' = used + 1 /\ used' = used + 1 /\ used + 1 \in Sess
              /\ link' = [link EXCEPT ![used + 1] = "up"] /\ box' = [box EXCEPT ![used + 1] = "boot"]
              /\ UNCHANGED <<up, down, bg>>
          BY <2>1, <2>17, <4>2 DEF NextBlock, StartSession, codeVars, HostTypes, Sess
        <5> QED BY <2>1, <5>1 DEF FreshShape, BoxTypes, HostTypes, Sess
      <4> QED BY <2>17, <4>1, <4>2 DEF NextBlock
    <3>3. BoxShape' BY <2>1, <2>2, <2>17 DEF NextBlock, StartSession, BeginAttempt, codeVars, BoxShape, FreshShape, HostTypes, BoxTypes
    <3> QED BY <3>1, <3>2, <3>3 DEF Shape
  <2>18. CASE ReconnectFails
    <3>1. HostShape' BY <2>1, <2>2, <2>18 DEF ReconnectFails, Report, HostShape, HostTypes, Blocks
    <3>2. FreshShape' BY <2>1, <2>2, <2>18 DEF ReconnectFails, Report, codeVars, FreshShape, HostShape, HostTypes, QueueTypes, BoxTypes
    <3>3. BoxShape' BY <2>1, <2>2, <2>18 DEF ReconnectFails, Report, codeVars, BoxShape
    <3> QED BY <3>1, <3>2, <3>3 DEF Shape
  <2>19. CASE CancelCall
    <3>1. HostShape' BY <2>1, <2>2, <2>19 DEF CancelCall, Report, InFlight, HostShape, HostTypes, Blocks
    <3>2. FreshShape' BY <2>1, <2>2, <2>19 DEF CancelCall, Report, InFlight, codeVars, FreshShape, HostShape, HostTypes, QueueTypes, BoxTypes
    <3>3. BoxShape' BY <2>1, <2>2, <2>19 DEF CancelCall, Report, InFlight, codeVars, BoxShape
    <3> QED BY <3>1, <3>2, <3>3 DEF Shape
  <2>20. ASSUME NEW id \in pending, ReplyValue(id) PROVE Shape'
    <3>1. HostShape' BY <2>1, <2>2, <2>20 DEF ReplyValue, HostShape, HostTypes, Blocks
    <3>2. FreshShape' BY <2>1, <2>2, <2>20 DEF ReplyValue, HostSend, codeVars, FreshShape, HostShape, HostTypes, QueueTypes, BoxTypes
    <3>3. BoxShape' BY <2>1, <2>2, <2>20 DEF ReplyValue, codeVars, BoxShape
    <3> QED BY <3>1, <3>2, <3>3 DEF Shape
  <2>21. ASSUME NEW s \in Sess, NEW i \in 0 .. Len(up[s]), NEW j \in 0 .. Len(down[s]),
              Drop(s, i, j)
       PROVE  Shape'
    <3>1. HostShape' BY <2>1, <2>2, <2>21 DEF Drop, hostVars, HostShape, HostTypes, Blocks
    <3>2. FreshShape' BY <2>1, <2>2, <2>21 DEF Drop, codeVars, hostVars, FreshShape, HostShape, HostTypes, QueueTypes, BoxTypes
    <3>3. BoxShape' BY <2>1, <2>2, <2>21 DEF Drop, codeVars, BoxShape
    <3> QED BY <3>1, <3>2, <3>3 DEF Shape
  <2>22. ASSUME NEW s \in Sess, Boot(s) PROVE Shape'
    <3>1. HostShape' BY <2>1, <2>22 DEF Boot, hostVars, HostShape
    <3>2. FreshShape' BY <2>1, <2>2, <2>22 DEF Boot, BoxSend, hostVars, codeVars, FreshShape, BoxShape, QueueTypes, BoxTypes
    <3>3. BoxShape' BY <2>1, <2>2, <2>22 DEF Boot, codeVars, BoxShape, BoxTypes
    <3> QED BY <3>1, <3>2, <3>3 DEF Shape
  <2>23. ASSUME NEW s \in Sess, CodeEnter(s) PROVE Shape'
    <3>1. HostShape' BY <2>1, <2>23 DEF CodeEnter, hostVars, HostShape
    <3>2. FreshShape' BY <2>1, <2>2, <2>23 DEF CodeEnter, hostVars, codeVars, FreshShape, BoxShape, QueueTypes, BoxTypes
    <3>3. BoxShape' BY <2>1, <2>2, <2>23 DEF CodeEnter, codeVars, BoxShape, BoxTypes
    <3> QED BY <3>1, <3>2, <3>3 DEF Shape
  <2>24. ASSUME NEW s \in Sess, SendDone(s) PROVE Shape'
    <3>1. HostShape' BY <2>1, <2>24 DEF SendDone, hostVars, HostShape
    <3>2. FreshShape' BY <2>1, <2>2, <2>24 DEF SendDone, BoxSend, hostVars, codeVars, FreshShape, BoxShape, QueueTypes, BoxTypes
    <3>3. BoxShape' BY <2>1, <2>2, <2>24 DEF SendDone, codeVars, BoxShape, BoxTypes
    <3> QED BY <3>1, <3>2, <3>3 DEF Shape
  <2>25. ASSUME NEW s \in Sess, SendOutput(s) PROVE Shape'
    <3>1. HostShape' BY <2>1, <2>25 DEF SendOutput, hostVars, HostShape
    <3>2. FreshShape' BY <2>1, <2>2, <2>25 DEF SendOutput, BoxSend, hostVars, codeVars, FreshShape, BoxShape, QueueTypes, BoxTypes
    <3>3. BoxShape' BY <2>1, <2>2, <2>25 DEF SendOutput, codeVars, BoxShape, BoxTypes
    <3> QED BY <3>1, <3>2, <3>3 DEF Shape
  <2>26. ASSUME NEW s \in Sess, SendTar(s) PROVE Shape'
    <3>1. HostShape' BY <2>1, <2>26 DEF SendTar, hostVars, HostShape
    <3>2. FreshShape' BY <2>1, <2>2, <2>26 DEF SendTar, BoxSend, hostVars, codeVars, FreshShape, BoxShape, QueueTypes, BoxTypes
    <3>3. BoxShape' BY <2>1, <2>2, <2>26 DEF SendTar, codeVars, BoxShape, BoxTypes
    <3> QED BY <3>1, <3>2, <3>3 DEF Shape
  <2>27. ASSUME NEW s \in Sess, BoxExit(s) PROVE Shape'
    <3>1. HostShape' BY <2>1, <2>27 DEF BoxExit, Gone, hostVars, HostShape
    <3>2. FreshShape' BY <2>1, <2>2, <2>27 DEF BoxExit, Gone, hostVars, codeVars, FreshShape, BoxShape, QueueTypes, BoxTypes
    <3>3. BoxShape' BY <2>1, <2>2, <2>27 DEF BoxExit, Gone, codeVars, BoxShape, BoxTypes
    <3> QED BY <3>1, <3>2, <3>3 DEF Shape
  <2>28. ASSUME NEW s \in Sess, NEW m, AwaitTar(s, m) PROVE Shape'
    <3>1. HostShape' BY <2>1, <2>28 DEF AwaitTar, hostVars, HostShape
    <3>2. FreshShape' BY <2>1, <2>2, <2>28 DEF AwaitTar, BoxRecv, hostVars, codeVars, FreshShape, BoxShape, QueueTypes, BoxTypes
    <3>3. BoxShape' BY <2>1, <2>2, <2>28 DEF AwaitTar, codeVars, BoxShape, BoxTypes
    <3> QED BY <3>1, <3>2, <3>3 DEF Shape
  <2>29. ASSUME NEW s \in Sess, NEW m, AwaitRun(s, m) PROVE Shape'
    <3>1. HostShape' BY <2>1, <2>29 DEF AwaitRun, hostVars, HostShape
    <3>2. FreshShape' BY <2>1, <2>2, <2>29 DEF AwaitRun, BoxRecv, hostVars, codeVars, FreshShape, BoxShape, QueueTypes, BoxTypes
    <3>3. BoxShape' BY <2>1, <2>2, <2>29 DEF AwaitRun, codeVars, BoxShape, BoxTypes
    <3> QED BY <3>1, <3>2, <3>3 DEF Shape
  <2>30. ASSUME NEW s \in Sess, NEW m, AwaitRunFails(s, m) PROVE Shape'
    <3>1. HostShape' BY <2>1, <2>30 DEF AwaitRunFails, Gone, hostVars, HostShape
    <3>2. FreshShape' BY <2>1, <2>2, <2>30 DEF AwaitRunFails, Gone, hostVars, codeVars, FreshShape, BoxShape, QueueTypes, BoxTypes
    <3>3. BoxShape' BY <2>1, <2>2, <2>30 DEF AwaitRunFails, Gone, codeVars, BoxShape, BoxTypes
    <3> QED BY <3>1, <3>2, <3>3 DEF Shape
  <2>31. ASSUME NEW s \in Sess, NEW m, Pump(s, m) PROVE Shape'
    <3>1. HostShape' BY <2>1, <2>31 DEF Pump, hostVars, HostShape
    <3>2. FreshShape' BY <2>1, <2>2, <2>31 DEF Pump, BoxRecv, hostVars, codeVars, FreshShape, BoxShape, QueueTypes, BoxTypes
    <3>3. BoxShape' BY <2>1, <2>2, <2>31 DEF Pump, codeVars, BoxShape, BoxTypes
    <3> QED BY <3>1, <3>2, <3>3 DEF Shape
  <2>32. ASSUME NEW s \in Sess, CodeCall(s) PROVE Shape'
    <3>1. HostShape' BY <2>1, <2>32 DEF CodeCall, hostVars, HostShape
    <3>2. FreshShape' BY <2>1, <2>2, <2>32 DEF CodeCall, BoxSend, hostVars, codeVars, FreshShape, BoxShape, QueueTypes, BoxTypes
    <3>3. BoxShape' BY <2>1, <2>2, <2>32 DEF CodeCall, codeVars, BoxShape, BoxTypes
    <3> QED BY <3>1, <3>2, <3>3 DEF Shape
  <2>33. ASSUME NEW s \in Sess, CodeEnd(s) PROVE Shape'
    <3>1. HostShape' BY <2>1, <2>33 DEF CodeEnd, FinishCode, hostVars, HostShape
    <3>2. FreshShape' BY <2>1, <2>2, <2>33 DEF CodeEnd, FinishCode, hostVars, codeVars, FreshShape, BoxShape, QueueTypes, BoxTypes
    <3>3. BoxShape' BY <2>1, <2>2, <2>33 DEF CodeEnd, FinishCode, codeVars, BoxShape, BoxTypes
    <3> QED BY <3>1, <3>2, <3>3 DEF Shape
  <2>34. ASSUME NEW s \in Sess, CodeStopped(s) PROVE Shape'
    <3>1. HostShape' BY <2>1, <2>34 DEF CodeStopped, FinishCode, hostVars, HostShape
    <3>2. FreshShape' BY <2>1, <2>2, <2>34 DEF CodeStopped, FinishCode, hostVars, codeVars, FreshShape, BoxShape, QueueTypes, BoxTypes
    <3>3. BoxShape' BY <2>1, <2>2, <2>34 DEF CodeStopped, FinishCode, codeVars, BoxShape, BoxTypes
    <3> QED BY <3>1, <3>2, <3>3 DEF Shape
  <2>35. ASSUME NEW s \in Sess, CodeCatches(s) PROVE Shape'
    <3>1. HostShape' BY <2>1, <2>35 DEF CodeCatches, hostVars, HostShape
    <3>2. FreshShape' BY <2>1, <2>2, <2>35 DEF CodeCatches, hostVars, codeVars, FreshShape, BoxShape, QueueTypes, BoxTypes
    <3>3. BoxShape' BY <2>1, <2>2, <2>35 DEF CodeCatches, codeVars, BoxShape, BoxTypes
    <3> QED BY <3>1, <3>2, <3>3 DEF Shape
  <2>36. ASSUME NEW s \in Sess, Spawn(s) PROVE Shape'
    <3>1. HostShape' BY <2>1, <2>36 DEF Spawn, hostVars, HostShape
    <3>2. FreshShape'
      <4>1. box[s] = "run" BY <2>1, <2>36 DEF Spawn, BoxShape
      <4> QED BY <2>1, <2>36, <4>1 DEF Spawn, hostVars, FreshShape, BoxTypes, HostTypes
    <3>3. BoxShape' BY <2>1, <2>2, <2>36 DEF Spawn, codeVars, BoxShape, BoxTypes
    <3> QED BY <3>1, <3>2, <3>3 DEF Shape
  <2>37. ASSUME NEW s \in Sess, BackgroundCall(s) PROVE Shape'
    <3>1. HostShape' BY <2>1, <2>37 DEF BackgroundCall, hostVars, HostShape
    <3>2. FreshShape' BY <2>1, <2>2, <2>37 DEF BackgroundCall, BoxSend, hostVars, codeVars, FreshShape, BoxShape, QueueTypes, BoxTypes
    <3>3. BoxShape' BY <2>1, <2>2, <2>37 DEF BackgroundCall, codeVars, BoxShape, BoxTypes
    <3> QED BY <3>1, <3>2, <3>3 DEF Shape
  <2>38. CASE UNCHANGED vars
    BY <2>1, <2>38 DEF vars, hostVars, codeVars, Shape, HostShape, FreshShape, BoxShape
  <2> QED BY <2>3, <2>4, <2>5, <2>6, <2>7, <2>8, <2>9, <2>10, <2>11, <2>12, <2>13, <2>14, <2>15, <2>16, <2>17, <2>18, <2>19, <2>20, <2>21, <2>22, <2>23, <2>24, <2>25, <2>26, <2>27, <2>28, <2>29, <2>30, <2>31, <2>32, <2>33, <2>34, <2>35, <2>36, <2>37, <2>38, Steps
<1> QED BY <1>1, <1>2, TypesInductive, PTL DEF Spec
-----------------------------------------------------------------------------
(* Where the RunFrame of a block can be, and where its code.               *)

\* Of the frames of these kinds in r, none is new: each was in q, there or, when the
\* frame before it was taken, one place further on.
Kept(q, r, kinds) ==
    \A s \in Sess : \E d \in {0, 1} : \A i \in DOMAIN r[s] :
        r[s][i].kind \in kinds => i + d \in DOMAIN q[s] /\ r[s][i] = q[s][i + d]

\* Frames that do not move are kept.
LEMMA KeptSame ==
    ASSUME NEW q, NEW kinds, QueueTypes, q \in {up, down}
    PROVE  Kept(q, q, kinds)
BY Frames DEF Kept

\* What a step does that neither sends a RunFrame nor takes one, nor lets code begin or end.
NoRun ==
    /\ Kept(up, up', {"run"})
    /\ exec' = exec
    /\ \A s \in Sess :
           /\ now'[s] \in {now[s], 0}
           /\ code'[s] # "none" =>
                  /\ now'[s] = now[s]
                  /\ code'[s] = code[s] \/ {code[s], code'[s]} = {"running", "blocked"}

\* RunFrames and the code of blocks change in four ways: _send_run, _run_one_block taking the
\* frame, the worker thread beginning or ending, or not at all (NoRun).
LEMMA RunSteps ==
    ASSUME Types, Shape, [Next]_vars
    PROVE  \/ SendRun
           \/ \E s \in Sess : \E m \in Heads(up[s]) : AwaitRun(s, m)
           \/ \E s \in Sess : CodeEnter(s) \/ CodeEnd(s) \/ CodeStopped(s)
           \/ NoRun
<1> USE Constants
<1>1. QueueTypes /\ HostTypes /\ ResultTypes /\ BoxTypes /\ HostShape /\ BoxShape
  BY DEF Types, Shape
<1>2. (cur # 0 => cur \in Sess) /\ 0 \in 0 .. NBlocks /\ 0 \in 0 .. scene.calls
  BY <1>1 DEF HostTypes, Sess
<1>3. up' = up => Kept(up, up', {"run"})
  BY <1>1, KeptSame
<1>4. ASSUME NEW m \in UpMsgs, m.kind # "run", HostSend(m)
      PROVE  Kept(up, up', {"run"})
  <2> SUFFICES ASSUME NEW s \in Sess, NEW i \in DOMAIN up'[s], up'[s][i].kind = "run"
               PROVE  i \in DOMAIN up[s] /\ up'[s][i] = up[s][i] /\ i + 0 = i
    BY DEF Kept
  <2> QED BY <1>1, <1>4, HostSends, Frames
<1>5. ASSUME NEW s \in Sess, NEW m, BoxRecv(s, m)
      PROVE  Kept(up, up', {"run"})
  <2>1. \A t \in Sess \ {s} : up'[t] = up[t]
    BY <1>1, <1>5, BoxReceives
  <2>2. \A i \in DOMAIN up'[s] : i + 1 \in DOMAIN up[s] /\ up'[s][i] = up[s][i + 1]
    BY <1>1, <1>5, BoxReceives
  <2>3. \A t \in Sess \ {s} : \A i \in DOMAIN up'[t] : i + 0 = i
    BY <1>1, <2>1, Frames
  <2> QED BY <2>1, <2>2, <2>3 DEF Kept
<1>6. \A b \in 0 .. NBlocks, n \in 0 .. scene.calls : \A k \in UpKinds :
          Msg(k, b, n) \in UpMsgs /\ Msg(k, b, n).kind = k
  BY DEF Msg, UpMsgs
<1>7. \A s \in Sess : UNCHANGED <<now, code>> =>
          /\ now'[s] \in {now[s], 0}
          /\ code'[s] # "none" => now'[s] = now[s] /\ code'[s] = code[s]
  OBVIOUS
<1>8. CASE StageInputs
  <2>1. Msg("tar", blk, 0) \in UpMsgs /\ Msg("tar", blk, 0).kind # "run"
    BY <1>1, <1>2, <1>6 DEF HostTypes, UpKinds
  <2> QED BY <1>4, <1>7, <1>8, <2>1 DEF StageInputs, codeVars, NoRun
<1>9. CASE ConnectionLost
  BY <1>3, <1>7, <1>9 DEF ConnectionLost, EndBlock, codeVars, NoRun
<1>10. CASE Interrupt
  <2>1. Msg("interrupt", blk, 0) \in UpMsgs /\ Msg("interrupt", blk, 0).kind # "run"
    BY <1>1, <1>2, <1>6 DEF HostTypes, UpKinds
  <2> QED BY <1>4, <1>7, <1>10, <2>1 DEF Interrupt, codeVars, NoRun
<1>11. ASSUME NEW m, LoopFrame(m), cur \in Sess PROVE NoRun
  BY <1>3, <1>7, <1>11 DEF LoopFrame, codeVars, NoRun
<1>12. ASSUME NEW m, WaitOutput(m), cur \in Sess PROVE NoRun
  BY <1>3, <1>7, <1>12 DEF WaitOutput, EndBlock, codeVars, NoRun
<1>13. ASSUME NEW m, WaitTar(m), cur \in Sess PROVE NoRun
  BY <1>3, <1>7, <1>13 DEF WaitTar, EndBlock, codeVars, NoRun
<1>14. CASE Settle
  BY <1>3, <1>7, <1>14 DEF Settle, Report, Discard, codeVars, NoRun
<1>15. CASE SettleFailed
  BY <1>3, <1>7, <1>15 DEF SettleFailed, Report, Discard, codeVars, NoRun
<1>16. CASE SettleNotRun
  BY <1>3, <1>7, <1>16 DEF SettleNotRun, Discard, codeVars, NoRun
<1>17. CASE Reconnect
  BY <1>3, <1>7, <1>17 DEF Reconnect, StartSession, BeginAttempt, codeVars, NoRun
<1>18. CASE TimeOut
  BY <1>3, <1>7, <1>18 DEF TimeOut, InFlight, codeVars, NoRun
<1>19. CASE GraceOver
  BY <1>3, <1>7, <1>19 DEF GraceOver, Report, Discard, InFlight, codeVars, NoRun
<1>20. ASSUME NEW id \in pending, ReplyStopped(id) PROVE NoRun
  <2>1. Msg("stop", id[1], id[2]) \in UpMsgs /\ Msg("stop", id[1], id[2]).kind # "run"
    BY <1>1, <1>6, <1>20 DEF ResultTypes, Ids, UpKinds
  <2> QED BY <1>4, <1>7, <1>20, <2>1 DEF ReplyStopped, codeVars, NoRun
<1>21. CASE NextBlock
  BY <1>3, <1>7, <1>21 DEF NextBlock, StartSession, BeginAttempt, codeVars, NoRun
<1>22. CASE ReconnectFails
  BY <1>3, <1>7, <1>22 DEF ReconnectFails, Report, codeVars, NoRun
<1>23. CASE CancelCall
  BY <1>3, <1>7, <1>23 DEF CancelCall, Report, InFlight, codeVars, NoRun
<1>24. ASSUME NEW id \in pending, ReplyValue(id) PROVE NoRun
  <2>1. Msg("value", id[1], id[2]) \in UpMsgs /\ Msg("value", id[1], id[2]).kind # "run"
    BY <1>1, <1>6, <1>24 DEF ResultTypes, Ids, UpKinds
  <2> QED BY <1>4, <1>7, <1>24, <2>1 DEF ReplyValue, codeVars, NoRun
<1>25. ASSUME NEW s \in Sess, NEW i \in 0 .. Len(up[s]), NEW j \in 0 .. Len(down[s]),
              Drop(s, i, j)
      PROVE  NoRun
  <2>1. \A t \in Sess : \A k \in DOMAIN up'[t] : k \in DOMAIN up[t] /\ up'[t][k] = up[t][k] /\ k + 0 = k
    BY <1>1, <1>25, Drops, Frames
  <2>2. Kept(up, up', {"run"}) BY <2>1 DEF Kept
  <2> QED BY <1>7, <1>25, <2>2 DEF Drop, codeVars, NoRun
<1>26. ASSUME NEW s \in Sess, Boot(s) PROVE NoRun
  BY <1>3, <1>7, <1>26 DEF Boot, codeVars, NoRun
<1>27. ASSUME NEW s \in Sess, SendDone(s) PROVE NoRun
  BY <1>1, <1>3, <1>27 DEF SendDone, BoxTypes, NoRun
<1>28. ASSUME NEW s \in Sess, SendOutput(s) PROVE NoRun
  BY <1>3, <1>7, <1>28 DEF SendOutput, codeVars, NoRun
<1>29. ASSUME NEW s \in Sess, SendTar(s) PROVE NoRun
  BY <1>1, <1>3, <1>29 DEF SendTar, BoxTypes, BoxShape, NoRun
<1>30. ASSUME NEW s \in Sess, BoxExit(s) PROVE NoRun
  <2>1. /\ up' = [up EXCEPT ![s] = <<>>] /\ code' = [code EXCEPT ![s] = "none"]
        /\ now' = [now EXCEPT ![s] = 0] /\ exec' = exec
    BY <1>30 DEF BoxExit, Gone
  <2>2. \A t \in Sess : \A k \in DOMAIN up'[t] : k \in DOMAIN up[t] /\ up'[t][k] = up[t][k] /\ k + 0 = k
    BY <1>1, <2>1, Frames DEF QueueTypes
  <2>3. Kept(up, up', {"run"}) BY <2>2 DEF Kept
  <2> QED BY <1>1, <2>1, <2>3 DEF NoRun, BoxTypes
<1>31. ASSUME NEW s \in Sess, NEW m, AwaitTar(s, m) PROVE NoRun
  BY <1>5, <1>7, <1>31 DEF AwaitTar, codeVars, NoRun
<1>32. ASSUME NEW s \in Sess, NEW m, AwaitRunFails(s, m) PROVE NoRun
  <2>1. /\ up' = [up EXCEPT ![s] = <<>>] /\ code' = [code EXCEPT ![s] = "none"]
        /\ now' = [now EXCEPT ![s] = 0] /\ exec' = exec
    BY <1>32 DEF AwaitRunFails, Gone
  <2>2. \A t \in Sess : \A k \in DOMAIN up'[t] : k \in DOMAIN up[t] /\ up'[t][k] = up[t][k] /\ k + 0 = k
    BY <1>1, <2>1, Frames DEF QueueTypes
  <2>3. Kept(up, up', {"run"}) BY <2>2 DEF Kept
  <2> QED BY <1>1, <2>1, <2>3 DEF NoRun, BoxTypes
<1>33. ASSUME NEW s \in Sess, NEW m, Pump(s, m) PROVE NoRun
  <2>1. UNCHANGED <<now, exec>> /\ \A t \in Sess : code'[t] = code[t] \/ (code[t] = "blocked" /\ code'[t] = "running")
    BY <1>1, <1>33 DEF Pump, BoxTypes
  <2> QED BY <1>5, <1>33, <2>1 DEF Pump, NoRun
<1>34. ASSUME NEW s \in Sess, CodeCall(s) PROVE NoRun
  BY <1>1, <1>3, <1>34 DEF CodeCall, BoxTypes, NoRun
<1>35. ASSUME NEW s \in Sess, CodeCatches(s) PROVE NoRun
  BY <1>1, <1>3, <1>35 DEF CodeCatches, BoxTypes, NoRun
<1>36. ASSUME NEW s \in Sess, Spawn(s) PROVE NoRun
  BY <1>1, <1>3, <1>36 DEF Spawn, BoxTypes, NoRun
<1>37. ASSUME NEW s \in Sess, BackgroundCall(s) PROVE NoRun
  BY <1>1, <1>3, <1>37 DEF BackgroundCall, BoxTypes, NoRun
<1>38. CASE UNCHANGED vars
  BY <1>3, <1>7, <1>38 DEF vars, codeVars, NoRun
<1> QED BY <1>8, <1>9, <1>10, <1>11, <1>12, <1>13, <1>14, <1>15, <1>16, <1>17, <1>18, <1>19, <1>20, <1>21, <1>22, <1>23, <1>24, <1>25, <1>26, <1>27, <1>28, <1>29, <1>30, <1>31, <1>32, <1>33, <1>34, <1>35, <1>36, <1>37, <1>38, Steps

\* The RunFrame of a block is in flight at most once, and then its code has not begun,
\* nor does any sandbox have it.
Runs ==
    /\ \A s \in Sess : \A i \in DOMAIN up[s] : up[s][i].kind = "run" =>
           /\ up[s][i].blk \in Blocks
           /\ exec[up[s][i].blk] = "no"
           /\ \A t \in Sess : now[t] # up[s][i].blk
           /\ \A t \in Sess : \A j \in DOMAIN up[t] :
                  up[t][j].kind = "run" /\ up[t][j].blk = up[s][i].blk => s = t /\ i = j
    /\ \A s, t \in Sess : now[s] = now[t] /\ now[s] # 0 => s = t

\* What a sandbox does with the block it has is what is known of its code.
Executes ==
    /\ \A b \in Blocks : exec[b] # "again"
    /\ \A s \in Sess :
           /\ code[s] # "none" => now[s] \in Blocks
           /\ code[s] = "entering" => exec[now[s]] = "no"
           /\ code[s] \in {"running", "blocked"} => exec[now[s]] = "started"
           /\ code[s] = "ended" => exec[now[s]] = "finished"

\* Nothing of block b has reached a sandbox, or is on its way there.
Untouched(b) ==
    /\ exec[b] = "no"
    /\ \A s \in Sess :
           /\ now[s] # b
           /\ \A i \in DOMAIN up[s] : up[s][i].kind = "run" => up[s][i].blk # b

\* The host has not sent a block's RunFrame, or has said that its code never ran.
Unsent(b) ==
    \/ b > blk
    \/ b = blk /\ host \in {"staging", "sendingRun", "reconnecting"}
    \/ b = blk /\ host = "ended" /\ res = "notRun"
    \/ outcome[b] = "notRun"

NotSent == \A b \in Blocks : Unsent(b) => Untouched(b)

\* Blocks come one after another: what is reported is over.
Reported == \A b \in Blocks : outcome[b] # "none" => b <= blk /\ (b = blk => host = "idle")

RunInv == Runs /\ Executes /\ NotSent /\ Reported
-----------------------------------------------------------------------------
\* Kept, for the RunFrames of one queue.
LEMMA KeptRuns ==
    ASSUME Types, Types', Kept(up, up', {"run"}), NEW s \in Sess
    PROVE  \E d \in {0, 1} : \A i \in DOMAIN up'[s] :
               /\ i \in Nat
               /\ up'[s][i].kind = "run" => i + d \in DOMAIN up[s] /\ up'[s][i] = up[s][i + d]
<1>1. QueueTypes' BY DEF Types
<1>2. \A i \in DOMAIN up'[s] : i \in Nat BY <1>1 DEF QueueTypes
<1> QED BY <1>2 DEF Kept

\* A step that moves no RunFrame and no block keeps Runs.
LEMMA RunsKept ==
    ASSUME Types, Types', Runs, NoRun
    PROVE  Runs'
<1>1. Kept(up, up', {"run"}) /\ exec' = exec /\ \A s \in Sess : now'[s] \in {now[s], 0}
  BY DEF NoRun
<1>2. ASSUME NEW s \in Sess, NEW i \in DOMAIN up'[s], up'[s][i].kind = "run"
      PROVE  /\ up'[s][i].blk \in Blocks
             /\ exec'[up'[s][i].blk] = "no"
             /\ \A t \in Sess : now'[t] # up'[s][i].blk
             /\ \A t \in Sess : \A j \in DOMAIN up'[t] :
                    up'[t][j].kind = "run" /\ up'[t][j].blk = up'[s][i].blk => s = t /\ i = j
  <2>1. PICK d \in {0, 1} : \A k \in DOMAIN up'[s] :
               /\ k \in Nat
               /\ up'[s][k].kind = "run" => k + d \in DOMAIN up[s] /\ up'[s][k] = up[s][k + d]
    BY <1>1, KeptRuns
  <2>2. i \in Nat /\ i + d \in DOMAIN up[s] /\ up'[s][i] = up[s][i + d]
    BY <1>2, <2>1
  <2>3. /\ up'[s][i].blk \in Blocks /\ exec[up'[s][i].blk] = "no"
        /\ \A t \in Sess : now[t] # up'[s][i].blk
    BY <1>2, <2>2 DEF Runs
  <2>4. ASSUME NEW t \in Sess, NEW j \in DOMAIN up'[t],
               up'[t][j].kind = "run", up'[t][j].blk = up'[s][i].blk
        PROVE  s = t /\ i = j
    <3>1. PICK e \in {0, 1} : \A k \in DOMAIN up'[t] :
                 /\ k \in Nat
                 /\ up'[t][k].kind = "run" => k + e \in DOMAIN up[t] /\ up'[t][k] = up[t][k + e]
      BY <1>1, KeptRuns
    <3>2. j \in Nat /\ j + e \in DOMAIN up[t] /\ up'[t][j] = up[t][j + e]
      BY <2>4, <3>1
    <3>3. s = t /\ i + d = j + e
      BY <1>2, <2>2, <2>4, <3>2 DEF Runs
    <3>4. j + d \in DOMAIN up[s] /\ up'[s][j] = up[s][j + d]
      BY <2>1, <2>4, <3>3
    <3>5. i + d = j + d
      BY <1>2, <2>2, <2>4, <3>3, <3>4 DEF Runs
    <3> QED BY <2>2, <3>2, <3>3, <3>5
  <2>5. \A t \in Sess : now'[t] # up'[s][i].blk
    BY <1>1, <2>3, BlockAssumption DEF Blocks
  <2> QED BY <1>1, <2>3, <2>4, <2>5
<1>3. ASSUME NEW s \in Sess, NEW t \in Sess, now'[s] = now'[t], now'[s] # 0
      PROVE  s = t
  BY <1>1, <1>3 DEF Runs
<1> QED BY <1>2, <1>3 DEF Runs

\* Only _send_run of a block makes it reach a sandbox.
LEMMA UntouchedStays ==
    ASSUME Types, Types', Shape, Runs, [Next]_vars, NEW b \in Blocks, Untouched(b),
           ~(SendRun /\ b = blk)
    PROVE  Untouched(b)'
<1> USE Constants
<1>1. QueueTypes /\ HostTypes /\ BoxTypes /\ (cur # 0 => cur \in Sess) /\ b # 0
  BY DEF Types, HostTypes, Sess, Blocks
<1>2. CASE SendRun
  <2>1. Msg("run", blk, 0) \in UpMsgs /\ Msg("run", blk, 0).blk = blk
    BY <1>1 DEF Msg, UpMsgs, UpKinds, HostTypes
  <2>2. HostSend(Msg("run", blk, 0)) /\ UNCHANGED <<now, exec>> /\ b # blk
    BY <1>2 DEF SendRun, codeVars
  <2>3. \A s \in Sess : \A i \in DOMAIN up'[s] :
            \/ i \in DOMAIN up[s] /\ up'[s][i] = up[s][i]
            \/ up'[s][i].blk = blk
    BY <1>1, <2>1, <2>2, HostSends
  <2> QED BY <2>2, <2>3 DEF Untouched
<1>3. ASSUME NEW s \in Sess, NEW m \in Heads(up[s]), AwaitRun(s, m) PROVE Untouched(b)'
  <2>1. BoxRecv(s, m) /\ m.kind = "run" /\ now' = [now EXCEPT ![s] = m.blk] /\ exec' = exec
    BY <1>3 DEF AwaitRun
  <2>2. /\ 1 \in DOMAIN up[s] /\ m = up[s][1]
        /\ \A t \in Sess \ {s} : up'[t] = up[t]
        /\ \A i \in DOMAIN up'[s] : i + 1 \in DOMAIN up[s] /\ up'[s][i] = up[s][i + 1]
    BY <1>1, <2>1, BoxReceives
  <2>3. m.blk # b BY <2>1, <2>2 DEF Untouched
  <2> QED BY <1>1, <2>1, <2>2, <2>3 DEF Untouched, BoxTypes
<1>4. ASSUME NEW s \in Sess, CodeEnter(s) \/ CodeEnd(s) \/ CodeStopped(s) PROVE Untouched(b)'
  BY <1>1, <1>4 DEF CodeEnter, CodeEnd, CodeStopped, FinishCode, Untouched, BoxTypes
<1>5. CASE NoRun
  <2>1. ASSUME NEW s \in Sess, NEW i \in DOMAIN up'[s], up'[s][i].kind = "run"
        PROVE  up'[s][i].blk # b
    BY <1>5, <2>1, KeptRuns DEF NoRun, Untouched
  <2> QED BY <1>1, <1>5, <2>1 DEF NoRun, Untouched
<1> QED BY <1>2, <1>3, <1>4, <1>5, RunSteps

\* Once a block's RunFrame is sent, the host does not claim the contrary any more.
LEMMA StaysSent ==
    ASSUME Types, Shape, Reported, [Next]_vars, NEW b \in Blocks, Unsent(b)'
    PROVE  Unsent(b) /\ ~(SendRun /\ b = blk)
<1> USE Constants
<1>1. HostTypes /\ ResultTypes /\ HostShape
  BY DEF Types, Shape
<1>2. CASE StageInputs BY <1>2 DEF StageInputs, SendRun, Unsent
<1>3. CASE SendRun
  <2>1. outcome' = outcome /\ blk' = blk /\ host' = "looping" /\ host = "sendingRun"
    BY <1>3 DEF SendRun
  <2>2. outcome[blk] = "none" \/ blk \notin Blocks
    BY <2>1 DEF Reported
  <2>3. b # blk
    BY <1>1, <2>1, <2>2 DEF Unsent, HostTypes, Blocks
  <2> QED BY <2>1, <2>3 DEF Unsent
<1>5. CASE ConnectionLost BY <1>5, <1>1 DEF ConnectionLost, EndBlock, SendRun, Unsent
<1>6. ASSUME NEW m, LoopFrame(m) \/ WaitOutput(m) \/ WaitTar(m) PROVE Unsent(b) /\ ~SendRun
  BY <1>1, <1>6 DEF LoopFrame, WaitOutput, WaitTar, EndBlock, SendRun, Unsent
<1>7. CASE Settle
  BY <1>1, <1>7 DEF Settle, Report, SendRun, Unsent, ResultTypes
<1>8. CASE SettleFailed
  BY <1>1, <1>8 DEF SettleFailed, Report, SendRun, Unsent, ResultTypes
<1>9. CASE SettleNotRun \/ Reconnect
  BY <1>1, <1>9 DEF SettleNotRun, Reconnect, BeginAttempt, SendRun, Unsent
<1>10. CASE GraceOver \/ CancelCall \/ ReconnectFails
  BY <1>1, <1>10 DEF GraceOver, CancelCall, ReconnectFails, InFlight, Report, SendRun, Unsent, ResultTypes
<1>11. CASE NextBlock
  BY <1>1, <1>11 DEF NextBlock, BeginAttempt, SendRun, Unsent, HostTypes, Blocks
<1>12. CASE Interrupt \/ TimeOut
  BY <1>12 DEF Interrupt, TimeOut, SendRun, Unsent
<1>13. ASSUME NEW id \in pending, ReplyStopped(id) \/ ReplyValue(id) PROVE Unsent(b) /\ ~SendRun
  BY <1>1, <1>13 DEF ReplyStopped, ReplyValue, SendRun, Unsent, HostShape
<1>14. CASE UNCHANGED vars
  BY <1>14 DEF vars, hostVars, Unsent, SendRun
<1>15. CASE UNCHANGED hostVars
  BY <1>15 DEF hostVars, Unsent, SendRun
<1> QED BY <1>2, <1>3, <1>5, <1>6, <1>7, <1>8, <1>9, <1>10, <1>11, <1>12, <1>13, <1>14, <1>15, Steps
        DEF Drop, Boot, CodeEnter, SendDone, SendOutput, SendTar, BoxExit, Gone, AwaitTar, AwaitRun,
            AwaitRunFails, Pump, CodeCall, CodeEnd, CodeStopped, FinishCode, CodeCatches, Spawn,
            BackgroundCall

\* A block is reported by the step that ends it.
LEMMA ReportedStays ==
    ASSUME Types, Shape, Reported, [Next]_vars
    PROVE  Reported'
<1> USE Constants
<1>1. HostTypes /\ ResultTypes /\ HostShape
  BY DEF Types, Shape
<1>2. CASE UNCHANGED <<outcome, blk, host>>
  BY <1>2 DEF Reported
<1>3. CASE UNCHANGED <<outcome, blk>> /\ host # "idle"
  BY <1>1, <1>3 DEF Reported
<1>4. CASE \E o \in Outcomes : Report(o)
  BY <1>1, <1>4 DEF Reported, Report, ResultTypes, HostTypes, Blocks
<1>5. CASE NextBlock
  BY <1>1, <1>5 DEF NextBlock, Reported, HostTypes, Blocks
<1>6. CASE Settle \/ SettleFailed \/ GraceOver \/ ReconnectFails \/ CancelCall
  <2>1. \E o \in Outcomes : Report(o)
    BY <1>1, <1>6 DEF Settle, SettleFailed, GraceOver, ReconnectFails, CancelCall, Outcomes, HostTypes
  <2> QED BY <1>4, <2>1
<1>7. ASSUME NEW id \in pending, ReplyStopped(id) \/ ReplyValue(id) PROVE Reported'
  BY <1>2, <1>7 DEF ReplyStopped, ReplyValue
<1>8. ASSUME NEW m, LoopFrame(m) \/ WaitOutput(m) \/ WaitTar(m) PROVE Reported'
  BY <1>3, <1>8 DEF LoopFrame, WaitOutput, WaitTar, EndBlock
<1>9. CASE StageInputs \/ SendRun \/ ConnectionLost \/ SettleNotRun \/ Reconnect
  BY <1>3, <1>9 DEF StageInputs, SendRun, ConnectionLost, EndBlock, SettleNotRun, Reconnect,
                    BeginAttempt
<1>10. CASE Interrupt \/ TimeOut
  BY <1>2, <1>10 DEF Interrupt, TimeOut
<1>11. CASE UNCHANGED hostVars
  BY <1>2, <1>11 DEF hostVars
<1>12. CASE UNCHANGED vars
  BY <1>11, <1>12 DEF vars
<1> QED BY <1>5, <1>6, <1>7, <1>8, <1>9, <1>10, <1>11, <1>12, Steps
        DEF Drop, Boot, CodeEnter, SendDone, SendOutput, SendTar, BoxExit, Gone, AwaitTar, AwaitRun,
            AwaitRunFails, Pump, CodeCall, CodeEnd, CodeStopped, FinishCode, CodeCatches, Spawn,
            BackgroundCall
-----------------------------------------------------------------------------
(* Runs and Executes through the four kinds of steps of RunSteps.          *)

\* _send_run: the block has not been sent before, so its frame is the only one.
LEMMA RunSent ==
    ASSUME Types, Types', Shape, RunInv, SendRun
    PROVE  Runs' /\ Executes'
<1> USE Constants
<1>1. QueueTypes /\ HostTypes /\ BoxTypes /\ cur \in Sess /\ blk \in Blocks
  BY DEF Types, Shape, HostShape, HostTypes, SendRun, Sess
<1>2. Untouched(blk)
  BY <1>1 DEF RunInv, NotSent, Unsent, SendRun
<1>3. HostSend(Msg("run", blk, 0)) /\ UNCHANGED <<now, exec, code>>
  BY DEF SendRun, codeVars
<1>4. Msg("run", blk, 0) \in UpMsgs /\ Msg("run", blk, 0).blk = blk
  BY <1>1 DEF Msg, UpMsgs, UpKinds, HostTypes
<1>5. \A s \in Sess : \A i \in DOMAIN up'[s] :
          \/ i \in DOMAIN up[s] /\ up'[s][i] = up[s][i]
          \/ s = cur /\ i = Len(up[s]) + 1 /\ up'[s][i].blk = blk
  BY <1>1, <1>3, <1>4, HostSends
<1>6. Executes' BY <1>3 DEF RunInv, Executes
<1>7. ASSUME NEW s \in Sess, NEW i \in DOMAIN up'[s], up'[s][i].kind = "run"
      PROVE  /\ up'[s][i].blk \in Blocks
             /\ exec'[up'[s][i].blk] = "no"
             /\ \A t \in Sess : now'[t] # up'[s][i].blk
             /\ \A t \in Sess : \A j \in DOMAIN up'[t] :
                    up'[t][j].kind = "run" /\ up'[t][j].blk = up'[s][i].blk => s = t /\ i = j
  <2>1. CASE i \in DOMAIN up[s] /\ up'[s][i] = up[s][i]
    BY <1>1, <1>2, <1>3, <1>5, <1>7, <2>1 DEF RunInv, Runs, Untouched
  <2>2. CASE s = cur /\ i = Len(up[s]) + 1 /\ up'[s][i].blk = blk
    BY <1>1, <1>2, <1>3, <1>5, <1>7, <2>2 DEF Untouched
  <2> QED BY <1>5, <1>7, <2>1, <2>2
<1>8. \A s, t \in Sess : now'[s] = now'[t] /\ now'[s] # 0 => s = t
  BY <1>3 DEF RunInv, Runs
<1> QED BY <1>6, <1>7, <1>8 DEF Runs

\* _run_one_block takes the RunFrame: the frame is gone, and the block is nowhere else.
LEMMA RunTaken ==
    ASSUME Types, Types', Shape, RunInv, NEW s \in Sess, NEW m \in Heads(up[s]), AwaitRun(s, m)
    PROVE  Runs' /\ Executes'
<1> USE Constants
<1>1. QueueTypes /\ QueueTypes' /\ BoxTypes /\ BoxShape
  BY DEF Types, Shape
<1>2. /\ BoxRecv(s, m) /\ m.kind = "run" /\ box[s] = "awaitRun" /\ exec' = exec
      /\ now' = [now EXCEPT ![s] = m.blk] /\ code' = [code EXCEPT ![s] = "entering"]
  BY DEF AwaitRun
<1>3. /\ 1 \in DOMAIN up[s] /\ m = up[s][1]
      /\ \A t \in Sess \ {s} : up'[t] = up[t]
      /\ \A i \in DOMAIN up'[s] : i \in Nat /\ i + 1 \in DOMAIN up[s] /\ up'[s][i] = up[s][i + 1]
  BY <1>1, <1>2, BoxReceives
<1>4. /\ m.blk \in Blocks /\ exec[m.blk] = "no" /\ m.blk # 0
      /\ \A t \in Sess : now[t] # m.blk
      /\ \A t \in Sess : \A j \in DOMAIN up[t] :
             up[t][j].kind = "run" /\ up[t][j].blk = m.blk => t = s /\ j = 1
  BY <1>2, <1>3 DEF RunInv, Runs, Blocks
<1>5. now[s] = 0 /\ code[s] = "none"
  BY <1>1, <1>2 DEF BoxShape
<1>6. Executes'
  BY <1>1, <1>2, <1>4 DEF RunInv, Executes, BoxTypes
<1>7. \A t, u \in Sess : now'[t] = now'[u] /\ now'[t] # 0 => t = u
  BY <1>1, <1>2, <1>4 DEF RunInv, Runs, BoxTypes
<1>8. ASSUME NEW t \in Sess, NEW i \in DOMAIN up'[t], up'[t][i].kind = "run"
      PROVE  up'[t][i].blk # m.blk
  <2>1. CASE t = s
    <3>1. i \in Nat /\ i + 1 \in DOMAIN up[s] /\ up'[s][i] = up[s][i + 1]
      BY <1>3, <1>8, <2>1
    <3>2. i # 0 BY <1>1, <1>8, <2>1 DEF QueueTypes
    <3> QED BY <1>4, <1>8, <2>1, <3>1, <3>2
  <2>2. CASE t # s
    BY <1>3, <1>4, <1>8, <2>2
  <2> QED BY <2>1, <2>2
<1>9. ASSUME NEW t \in Sess, NEW i \in DOMAIN up'[t], up'[t][i].kind = "run"
      PROVE  /\ i \in Nat
             /\ \E d \in {0, 1} : /\ t = s <=> d = 1
                                  /\ i + d \in DOMAIN up[t] /\ up'[t][i] = up[t][i + d]
  <2>1. i \in Nat BY <1>1, <1>9 DEF QueueTypes
  <2> QED BY <1>3, <1>9, <2>1
<1>10. ASSUME NEW t \in Sess, NEW i \in DOMAIN up'[t], up'[t][i].kind = "run"
       PROVE  /\ up'[t][i].blk \in Blocks
              /\ exec'[up'[t][i].blk] = "no"
              /\ \A u \in Sess : now'[u] # up'[t][i].blk
              /\ \A u \in Sess : \A j \in DOMAIN up'[u] :
                     up'[u][j].kind = "run" /\ up'[u][j].blk = up'[t][i].blk => t = u /\ i = j
  <2>1. /\ up'[t][i].blk \in Blocks /\ exec[up'[t][i].blk] = "no"
        /\ \A u \in Sess : now[u] # up'[t][i].blk
    BY <1>9, <1>10 DEF RunInv, Runs
  <2>2. \A u \in Sess : now'[u] # up'[t][i].blk
    BY <1>1, <1>2, <1>8, <1>10, <2>1 DEF BoxTypes
  <2>3. ASSUME NEW u \in Sess, NEW j \in DOMAIN up'[u],
               up'[u][j].kind = "run", up'[u][j].blk = up'[t][i].blk
        PROVE  t = u /\ i = j
    <3>1. PICK d \in {0, 1} : /\ t = s <=> d = 1
                              /\ i + d \in DOMAIN up[t] /\ up'[t][i] = up[t][i + d]
      BY <1>9, <1>10
    <3>2. PICK e \in {0, 1} : /\ u = s <=> e = 1
                              /\ j + e \in DOMAIN up[u] /\ up'[u][j] = up[u][j + e]
      BY <1>9, <2>3
    <3>3. t = u /\ i + d = j + e
      BY <1>10, <2>3, <3>1, <3>2 DEF RunInv, Runs
    <3>4. i \in Nat /\ j \in Nat BY <1>9, <1>10, <2>3
    <3> QED BY <3>1, <3>2, <3>3, <3>4
  <2> QED BY <1>2, <2>1, <2>2, <2>3
<1> QED BY <1>6, <1>7, <1>10 DEF Runs

\* The worker thread begins or ends the block it was given.
LEMMA CodeBegins ==
    ASSUME Types, Types', Shape, RunInv, NEW s \in Sess,
           CodeEnter(s) \/ CodeEnd(s) \/ CodeStopped(s)
    PROVE  Runs' /\ Executes'
<1> USE Constants
<1>1. BoxTypes BY DEF Types
<1>2. /\ UNCHANGED <<up, now>> /\ now[s] \in Blocks /\ now[s] # 0
      /\ \A b \in Blocks \ {now[s]} : exec'[b] = exec[b]
      /\ \A t \in Sess \ {s} : code'[t] = code[t]
  BY <1>1 DEF CodeEnter, CodeEnd, CodeStopped, FinishCode, RunInv, Executes, BoxTypes, Blocks
<1>3. \/ code'[s] = "running" /\ exec'[now[s]] = "started"
      \/ code'[s] = "ended" /\ exec'[now[s]] = "finished"
  BY <1>1, <1>2 DEF CodeEnter, CodeEnd, CodeStopped, FinishCode, RunInv, Executes, BoxTypes
<1>4. \A t \in Sess \ {s} : now[t] # now[s]
  BY <1>2 DEF RunInv, Runs
<1>5. Runs' BY <1>2 DEF RunInv, Runs
<1>6. Executes'
  BY <1>2, <1>3, <1>4 DEF RunInv, Executes
<1> QED BY <1>5, <1>6

\* Without such a step the code is where it was.
LEMMA ExecutesKept ==
    ASSUME Types, Executes, NoRun
    PROVE  Executes'
BY DEF NoRun, Executes, Types, BoxTypes

\* RunInv is inductive, by the four kinds of steps.
LEMMA RunInductive == Spec => []RunInv
<1> USE Constants
<1>1. Init => RunInv
  BY DEF Init, RunInv, Runs, Executes, NotSent, Unsent, Untouched, Reported
<1>2. Types /\ Types' /\ Shape /\ RunInv /\ [Next]_vars => RunInv'
  <2> SUFFICES ASSUME Types, Types', Shape, RunInv, [Next]_vars PROVE RunInv'
    OBVIOUS
  <2>1. Runs /\ Executes /\ NotSent /\ Reported
    BY DEF RunInv
  <2>2. Runs' /\ Executes'
    BY <2>1, RunSteps, RunSent, RunTaken, CodeBegins, RunsKept, ExecutesKept
  <2>3. NotSent'
    <3> SUFFICES ASSUME NEW b \in Blocks, Unsent(b)' PROVE Untouched(b)'
      BY Z3 DEF NotSent, Blocks
    <3>1. Unsent(b) /\ ~(SendRun /\ b = blk)
      BY <2>1, StaysSent
    <3> QED BY <2>1, <3>1, UntouchedStays DEF NotSent
  <2>4. Reported' BY <2>1, ReportedStays
  <2> QED BY <2>2, <2>3, <2>4 DEF RunInv
<1> QED BY <1>1, <1>2, TypesInductive, ShapeInductive, PTL DEF Spec
-----------------------------------------------------------------------------
\* A block's code never runs twice, and never when its caller was told that it did not
\* (_run_block_reconnecting and _connection_lost_result, tool.py 587-649), for any number of
\* blocks, retries, drops, cancellations and left-behind threads.
THEOREM BlocksRunAtMostOnce == Spec => []RunsAtMostOnce
<1>1. RunInv => RunsAtMostOnce
  BY DEF RunInv, Executes, NotSent, Unsent, Untouched, RunsAtMostOnce
<1> QED BY <1>1, RunInductive, PTL
-----------------------------------------------------------------------------
(* What becomes of the frames to the host.                                 *)

\* The actions that change what is in flight to the host.
LEMMA DownSteps ==
    ASSUME Types, [Next]_vars
    PROVE  \/ down' = down
           \/ cur \in Sess /\ \E m : HostRecv(m)
           \/ Discard
           \/ \E s \in Sess : \/ Boot(s) \/ SendDone(s) \/ SendOutput(s) \/ SendTar(s)
                              \/ CodeCall(s) \/ BackgroundCall(s)
           \/ \E s \in Sess : \E i \in 0 .. Len(up[s]), j \in 0 .. Len(down[s]) : Drop(s, i, j)
<1>1. CASE StageInputs \/ SendRun \/ ConnectionLost \/ Interrupt \/ TimeOut \/ NextBlock
             \/ ReconnectFails \/ CancelCall \/ Reconnect
  BY <1>1 DEF StageInputs, SendRun, ConnectionLost, Interrupt, TimeOut, NextBlock, ReconnectFails,
              CancelCall, Reconnect
<1>2. CASE \E id \in pending : ReplyStopped(id) \/ ReplyValue(id)
  BY <1>2 DEF ReplyStopped, ReplyValue
<1>3. CASE \E s \in Sess :
             \/ CodeEnter(s) \/ BoxExit(s)
             \/ \E m \in Heads(up[s]) :
                    AwaitTar(s, m) \/ AwaitRun(s, m) \/ AwaitRunFails(s, m) \/ Pump(s, m)
             \/ CodeEnd(s) \/ CodeStopped(s) \/ CodeCatches(s) \/ Spawn(s)
  BY <1>3 DEF CodeEnter, BoxExit, Gone, AwaitTar, AwaitRun, AwaitRunFails, Pump, CodeEnd,
              CodeStopped, FinishCode, CodeCatches, Spawn
<1>4. CASE Settle \/ SettleFailed \/ SettleNotRun \/ GraceOver
  BY <1>4 DEF Settle, SettleFailed, SettleNotRun, GraceOver
<1>5. CASE cur \in Sess /\ \E m \in Heads(down[cur]) : LoopFrame(m) \/ WaitOutput(m) \/ WaitTar(m)
  BY <1>5 DEF LoopFrame, WaitOutput, WaitTar
<1>6. CASE UNCHANGED vars
  BY <1>6 DEF vars
<1> QED BY <1>1, <1>2, <1>3, <1>4, <1>5, <1>6, Steps

\* Frames of a kind appear only where the sandbox sends them.
LEMMA DownKept ==
    ASSUME Types, [Next]_vars, NEW kinds,
           "ready" \notin kinds,
           (\E s \in Sess : CodeCall(s) \/ BackgroundCall(s)) => "call" \notin kinds,
           (\E s \in Sess : SendDone(s)) => kinds \cap {"done", "doneBg"} = {},
           (\E s \in Sess : SendOutput(s)) => "output" \notin kinds,
           (\E s \in Sess : SendTar(s)) => "tar" \notin kinds
    PROVE  Kept(down, down', kinds)
<1> USE Constants
<1>1. QueueTypes /\ HostTypes /\ BoxTypes
  BY DEF Types
<1>2. CASE down' = down
  BY <1>1, <1>2, KeptSame
<1>3. ASSUME cur \in Sess, NEW m, HostRecv(m) PROVE Kept(down, down', kinds)
  <2>1. /\ \A t \in Sess \ {cur} : down'[t] = down[t]
        /\ \A i \in DOMAIN down'[cur] : i + 1 \in DOMAIN down[cur] /\ down'[cur][i] = down[cur][i + 1]
    BY <1>1, <1>3, HostReceives
  <2>2. \A t \in Sess \ {cur} : \A i \in DOMAIN down'[t] : i + 0 = i
    BY <1>1, <2>1, Frames
  <2> QED BY <2>1, <2>2 DEF Kept
<1>4. CASE Discard
  <2>1. \A t \in Sess : \A k \in DOMAIN down'[t] : k \in DOMAIN down[t] /\ down'[t][k] = down[t][k] /\ k + 0 = k
    BY <1>1, <1>4, Discards, Frames
  <2> QED BY <2>1 DEF Kept
<1>5. ASSUME NEW s \in Sess, NEW m \in DownMsgs, BoxSend(s, m), m.kind \notin kinds
      PROVE  Kept(down, down', kinds)
  <2> SUFFICES ASSUME NEW t \in Sess, NEW i \in DOMAIN down'[t], down'[t][i].kind \in kinds
               PROVE  i \in DOMAIN down[t] /\ down'[t][i] = down[t][i] /\ i + 0 = i
    BY DEF Kept
  <2> QED BY <1>1, <1>5, BoxSends, Frames
<1>6. ASSUME NEW s \in Sess,
             \/ Boot(s) \/ SendDone(s) \/ SendOutput(s) \/ SendTar(s)
             \/ CodeCall(s) \/ BackgroundCall(s)
      PROVE  \E m \in DownMsgs : BoxSend(s, m) /\ m.kind \notin kinds
  <2>1. \A b \in 0 .. NBlocks, n \in 0 .. scene.calls : \A k \in DownKinds :
            Msg(k, b, n) \in DownMsgs /\ Msg(k, b, n).kind = k
    BY DEF Msg, DownMsgs
  <2>2. now[s] \in 0 .. NBlocks /\ 0 \in 0 .. NBlocks /\ 0 \in 0 .. scene.calls
    BY <1>1 DEF HostTypes, BoxTypes
  <2>3. CodeCall(s) => ncalls[s] + 1 \in 0 .. scene.calls
    BY <1>1 DEF CodeCall, BoxTypes, HostTypes
  <2>4. Boot(s) \/ BackgroundCall(s) => \E m \in DownMsgs : BoxSend(s, m) /\ m.kind \notin kinds
    <3>1. Boot(s) => BoxSend(s, Msg("ready", 0, 0)) BY DEF Boot
    <3>2. BackgroundCall(s) => BoxSend(s, Msg("call", 0, 0)) /\ "call" \notin kinds BY DEF BackgroundCall
    <3>3. {"ready", "call"} \subseteq DownKinds BY DEF DownKinds
    <3> QED BY <2>1, <2>2, <3>1, <3>2, <3>3
  <2>5. CodeCall(s) => \E m \in DownMsgs : BoxSend(s, m) /\ m.kind \notin kinds
    <3>1. CodeCall(s) => BoxSend(s, Msg("call", now[s], ncalls[s] + 1)) BY DEF CodeCall
    <3>2. "call" \in DownKinds BY DEF DownKinds
    <3> QED BY <2>1, <2>2, <2>3, <3>1, <3>2
  <2>6. SendDone(s) => \E m \in DownMsgs : BoxSend(s, m) /\ m.kind \notin kinds
    <3>1. SendDone(s) => BoxSend(s, Msg("done", now[s], 0)) \/ BoxSend(s, Msg("doneBg", now[s], 0))
      BY DEF SendDone
    <3>2. {"done", "doneBg"} \subseteq DownKinds BY DEF DownKinds
    <3> QED BY <2>1, <2>2, <3>1, <3>2
  <2>7. SendOutput(s) \/ SendTar(s) => \E m \in DownMsgs : BoxSend(s, m) /\ m.kind \notin kinds
    <3>1. SendOutput(s) => BoxSend(s, Msg("output", now[s], 0)) BY DEF SendOutput
    <3>2. SendTar(s) => BoxSend(s, Msg("tar", now[s], 0)) BY DEF SendTar
    <3>3. {"output", "tar"} \subseteq DownKinds BY DEF DownKinds
    <3> QED BY <2>1, <2>2, <3>1, <3>2, <3>3
  <2> QED BY <1>6, <2>4, <2>5, <2>6, <2>7
<1>7. ASSUME NEW s \in Sess, NEW i \in 0 .. Len(up[s]), NEW j \in 0 .. Len(down[s]),
              Drop(s, i, j)
      PROVE  Kept(down, down', kinds)
  <2>1. \A t \in Sess : \A k \in DOMAIN down'[t] : k \in DOMAIN down[t] /\ down'[t][k] = down[t][k] /\ k + 0 = k
    BY <1>1, <1>7, Drops, Frames
  <2> QED BY <2>1 DEF Kept
<1> QED BY <1>2, <1>3, <1>4, <1>5, <1>6, <1>7, DownSteps

\* Code only moves on, and only the code of a block some sandbox has.
LEMMA ExecSteps ==
    ASSUME Types, Shape, RunInv, [Next]_vars
    PROVE  \/ exec' = exec
           \/ \E b \in Blocks : Contract!Start(b) \/ Contract!Finish(b)
<1> USE Constants
<1>1. BoxTypes BY DEF Types
<1>2. ASSUME NEW s \in Sess, CodeEnter(s) \/ CodeEnd(s) \/ CodeStopped(s)
      PROVE  \E b \in Blocks : Contract!Start(b) \/ Contract!Finish(b)
  <2>1. now[s] \in Blocks /\ outcome[now[s]] # "notRun" /\ outcome' = outcome
    BY <1>2 DEF CodeEnter, CodeEnd, CodeStopped, FinishCode, hostVars, RunInv, Executes, NotSent,
                Unsent, Untouched
  <2>2. CASE CodeEnter(s)
    <3>1. exec[now[s]] = "no" /\ exec' = [exec EXCEPT ![now[s]] = "started"]
      BY <1>1, <2>1, <2>2 DEF CodeEnter, RunInv, Executes, BoxTypes
    <3> QED BY <2>1, <3>1 DEF Contract!Start
  <2>3. CASE CodeEnd(s) \/ CodeStopped(s)
    <3>1. exec[now[s]] = "started" /\ exec' = [exec EXCEPT ![now[s]] = "finished"]
      BY <1>1, <2>1, <2>3 DEF CodeEnd, CodeStopped, FinishCode, RunInv, Executes, BoxTypes
    <3> QED BY <2>1, <3>1 DEF Contract!Finish
  <2> QED BY <1>2, <2>2, <2>3
<1> QED BY <1>2, RunSteps DEF SendRun, AwaitRun, NoRun, codeVars

\* Code that has finished does not run again.
LEMMA FinishedStays ==
    ASSUME Types, Shape, RunInv, [Next]_vars, NEW b \in Blocks, exec[b] = "finished"
    PROVE  exec'[b] = "finished"
BY ExecSteps DEF Contract!Start, Contract!Finish, Types, BoxTypes

\* A sandbox has a block to run only when it has just taken its RunFrame.
LEMMA BoxRuns ==
    ASSUME Types, Types', Shape, Shape', [Next]_vars, NEW s \in Sess, box'[s] = "run"
    PROVE  \/ box[s] = "run" /\ now'[s] = now[s]
           \/ \E m \in Heads(up[s]) : AwaitRun(s, m)
<1>1. BoxTypes /\ BoxTypes' /\ BoxShape /\ BoxShape'
  BY DEF Types, Shape
<1>2. code'[s] # "none" BY <1>1 DEF BoxShape
<1>3. CASE NoRun
  BY <1>1, <1>2, <1>3 DEF NoRun, BoxShape
<1>4. ASSUME NEW t \in Sess, CodeEnter(t) \/ CodeEnd(t) \/ CodeStopped(t)
      PROVE  box[s] = "run" /\ now'[s] = now[s]
  BY <1>4 DEF CodeEnter, CodeEnd, CodeStopped, FinishCode
<1>5. CASE SendRun
  BY <1>5 DEF SendRun, codeVars
<1>6. ASSUME NEW t \in Sess, NEW m \in Heads(up[t]), AwaitRun(t, m), t # s
      PROVE  box[s] = "run" /\ now'[s] = now[s]
  BY <1>1, <1>6 DEF AwaitRun, BoxTypes
<1> QED BY <1>3, <1>4, <1>5, <1>6, RunSteps

\* The actions that report a block.
LEMMA OutcomeSteps ==
    ASSUME Types, [Next]_vars
    PROVE  \/ UNCHANGED outcome
           \/ Settle \/ SettleFailed \/ GraceOver \/ ReconnectFails \/ CancelCall
<1>1. CASE StageInputs \/ SendRun \/ ConnectionLost \/ Interrupt \/ TimeOut \/ NextBlock
             \/ SettleNotRun \/ Reconnect
  BY <1>1 DEF StageInputs, SendRun, ConnectionLost, EndBlock, Interrupt, TimeOut, NextBlock,
              SettleNotRun, Reconnect
<1>2. CASE \E id \in pending : ReplyStopped(id) \/ ReplyValue(id)
  BY <1>2 DEF ReplyStopped, ReplyValue
<1>3. CASE \E m : LoopFrame(m) \/ WaitOutput(m) \/ WaitTar(m)
  BY <1>3 DEF LoopFrame, WaitOutput, WaitTar, EndBlock
<1>4. CASE UNCHANGED hostVars
  BY <1>4 DEF hostVars
<1>5. CASE UNCHANGED vars
  BY <1>4, <1>5 DEF vars
<1> QED BY <1>1, <1>2, <1>3, <1>4, <1>5, Steps
        DEF Drop, Boot, CodeEnter, SendDone, SendOutput, SendTar, BoxExit, Gone, AwaitTar, AwaitRun,
            AwaitRunFails, Pump, CodeCall, CodeEnd, CodeStopped, FinishCode, CodeCatches, Spawn,
            BackgroundCall
-----------------------------------------------------------------------------
(* Where the DoneFrame of a block can be, and what the host may conclude   *)
(* from the one it takes.                                                  *)

DoneKinds == {"done", "doneBg"}

\* The DoneFrame of a block is in flight at most once, when its code has ended and no
\* sandbox runs it.
OneDone ==
    \A s \in Sess : \A i \in DOMAIN down[s] : down[s][i].kind \in DoneKinds =>
        /\ down[s][i].blk \in Blocks
        /\ exec[down[s][i].blk] = "finished"
        /\ \A t \in Sess : box[t] = "run" => now[t] # down[s][i].blk
        /\ \A t \in Sess : \A j \in DOMAIN down[t] :
               down[t][j].kind \in DoneKinds /\ down[t][j].blk = down[s][i].blk => s = t /\ i = j

\* No block is under way on a connection, or none but the current one.
Quiet(s) ==
    /\ box[s] # "run"
    /\ \A i \in DOMAIN up[s] : up[s][i].kind # "run"
    /\ \A i \in DOMAIN down[s] : down[s][i].kind \notin DoneKinds

\* What is there is of the current block.
OwnOnly(s) ==
    /\ box[s] = "run" => now[s] = blk
    /\ \A i \in DOMAIN up[s] : up[s][i].kind = "run" => up[s][i].blk = blk
    /\ \A i \in DOMAIN down[s] : down[s][i].kind \in DoneKinds => down[s][i].blk = blk

\* The RunFrame is sent and no DoneFrame has been taken.
UnderWay == host = "looping" \/ res = "unknown"

InStep == cur # 0 => IF UnderWay THEN OwnOnly(cur) ELSE Quiet(cur)

\* What the host concludes, and what it has told: the code is over.
Over == host \in {"waiting", "waitingTar"} \/ res \in {"result", "ran"}
Known ==
    /\ Over => exec[blk] = "finished"
    /\ \A b \in Blocks : outcome[b] \in {"ok", "stopped", "ran"} => exec[b] = "finished"

\* OneDone holds whatever is cancelled; the rest until a call is, because a cancelled block's
\* DoneFrame stays on the connection for the next block to take for its own.
TruthInv == OneDone /\ (NoneCancelled => InStep /\ Known)

\* Kept, for the DoneFrames of one queue.
LEMMA KeptDone ==
    ASSUME Types, Types', Kept(down, down', DoneKinds), NEW s \in Sess
    PROVE  \E d \in {0, 1} : \A i \in DOMAIN down'[s] :
               /\ i \in Nat
               /\ down'[s][i].kind \in DoneKinds =>
                      i + d \in DOMAIN down[s] /\ down'[s][i] = down[s][i + d]
<1>1. QueueTypes' BY DEF Types
<1>2. \A i \in DOMAIN down'[s] : i \in Nat BY <1>1 DEF QueueTypes
<1> QED BY <1>2 DEF Kept

\* DoneFrames only appear by SendDone.
LEMMA DoneSteps ==
    ASSUME Types, [Next]_vars
    PROVE  (\E s \in Sess : SendDone(s)) \/ Kept(down, down', DoneKinds)
<1>1. "ready" \notin DoneKinds /\ "call" \notin DoneKinds /\ "output" \notin DoneKinds /\ "tar" \notin DoneKinds
  BY DEF DoneKinds
<1> QED BY <1>1, DownKept

\* A DoneFrame is sent when the code has finished and the block has left its worker thread.
LEMMA OneDoneStays ==
    ASSUME Types, Types', Shape, Shape', RunInv, OneDone, [Next]_vars
    PROVE  OneDone'
<1> USE Constants
<1>1. QueueTypes /\ BoxTypes /\ BoxShape /\ Runs /\ Executes
  BY DEF Types, Shape, RunInv
<1>2. ASSUME NEW b \in Blocks, exec[b] = "finished", \A t \in Sess : box[t] = "run" => now[t] # b
      PROVE  exec'[b] = "finished" /\ \A t \in Sess : box'[t] = "run" => now'[t] # b
  <2>1. exec'[b] = "finished" BY <1>2, FinishedStays
  <2>2. ASSUME NEW t \in Sess, box'[t] = "run" PROVE now'[t] # b
    <3>1. CASE box[t] = "run" /\ now'[t] = now[t]
      BY <1>2, <3>1
    <3>2. ASSUME NEW m \in Heads(up[t]), AwaitRun(t, m) PROVE now'[t] # b
      <4>1. BoxRecv(t, m) /\ m.kind = "run" /\ now'[t] = m.blk
        BY <1>1, <3>2 DEF AwaitRun, BoxTypes
      <4>2. 1 \in DOMAIN up[t] /\ m = up[t][1]
        BY <1>1, <4>1, BoxReceives
      <4> QED BY <1>1, <1>2, <4>1, <4>2 DEF Runs
    <3> QED BY <2>2, <3>1, <3>2, BoxRuns
  <2> QED BY <2>1, <2>2
<1>3. ASSUME NEW s \in Sess, SendDone(s) PROVE OneDone'
  <2>1. /\ box[s] = "run" /\ now[s] \in Blocks /\ exec[now[s]] = "finished"
        /\ box' = [box EXCEPT ![s] = "output"] /\ UNCHANGED <<now, exec>>
    BY <1>1, <1>3 DEF SendDone, Executes
  <2>2. PICK k \in DoneKinds : BoxSend(s, Msg(k, now[s], 0))
    BY <1>3 DEF SendDone, DoneKinds
  <2>3. Msg(k, now[s], 0) \in DownMsgs /\ Msg(k, now[s], 0).blk = now[s]
    BY <1>1, <2>2 DEF Msg, DownMsgs, DownKinds, DoneKinds, BoxTypes, Types, HostTypes
  <2>4. \A t \in Sess : \A i \in DOMAIN down'[t] :
            \/ i \in DOMAIN down[t] /\ down'[t][i] = down[t][i]
            \/ t = s /\ i = Len(down[s]) + 1 /\ down'[t][i].blk = now[s]
    BY <1>1, <2>2, <2>3, BoxSends
  <2>5. \A t \in Sess : \A i \in DOMAIN down[t] :
            down[t][i].kind \in DoneKinds => down[t][i].blk # now[s]
    BY <2>1 DEF OneDone
  <2>6. \A t \in Sess : box'[t] = "run" => box[t] = "run" /\ now[t] # now[s]
    BY <1>1, <2>1 DEF Runs, BoxTypes, Blocks
  <2>7. ASSUME NEW t \in Sess, NEW i \in DOMAIN down'[t], down'[t][i].kind \in DoneKinds
        PROVE  /\ down'[t][i].blk \in Blocks
               /\ exec'[down'[t][i].blk] = "finished"
               /\ \A u \in Sess : box'[u] = "run" => now'[u] # down'[t][i].blk
               /\ \A u \in Sess : \A j \in DOMAIN down'[u] :
                      down'[u][j].kind \in DoneKinds /\ down'[u][j].blk = down'[t][i].blk
                      => t = u /\ i = j
    <3>1. CASE i \in DOMAIN down[t] /\ down'[t][i] = down[t][i]
      <4>1. /\ down'[t][i].blk \in Blocks /\ down'[t][i].blk # now[s]
            /\ exec'[down'[t][i].blk] = "finished"
            /\ \A u \in Sess : box'[u] = "run" => now'[u] # down'[t][i].blk
        BY <1>2, <2>1, <2>5, <2>6, <2>7, <3>1 DEF OneDone
      <4>2. ASSUME NEW u \in Sess, NEW j \in DOMAIN down'[u],
                   down'[u][j].kind \in DoneKinds, down'[u][j].blk = down'[t][i].blk
            PROVE  t = u /\ i = j
        BY <2>4, <2>7, <3>1, <4>1, <4>2 DEF OneDone
      <4> QED BY <4>1, <4>2
    <3>2. CASE t = s /\ i = Len(down[s]) + 1 /\ down'[t][i].blk = now[s]
      BY <2>1, <2>4, <2>5, <2>6, <3>2
    <3> QED BY <2>4, <2>7, <3>1, <3>2
  <2> QED BY <2>7 DEF OneDone
<1>4. ASSUME Kept(down, down', DoneKinds) PROVE OneDone'
  <2>1. ASSUME NEW s \in Sess, NEW i \in DOMAIN down'[s], down'[s][i].kind \in DoneKinds
        PROVE  /\ down'[s][i].blk \in Blocks
               /\ exec'[down'[s][i].blk] = "finished"
               /\ \A t \in Sess : box'[t] = "run" => now'[t] # down'[s][i].blk
               /\ \A t \in Sess : \A j \in DOMAIN down'[t] :
                      down'[t][j].kind \in DoneKinds /\ down'[t][j].blk = down'[s][i].blk
                      => s = t /\ i = j
    <3>1. PICK d \in {0, 1} : \A k \in DOMAIN down'[s] :
                 /\ k \in Nat
                 /\ down'[s][k].kind \in DoneKinds => k + d \in DOMAIN down[s] /\ down'[s][k] = down[s][k + d]
      BY <1>4, KeptDone
    <3>2. i \in Nat /\ i + d \in DOMAIN down[s] /\ down'[s][i] = down[s][i + d]
      BY <2>1, <3>1
    <3>3. /\ down'[s][i].blk \in Blocks /\ exec[down'[s][i].blk] = "finished"
          /\ \A t \in Sess : box[t] = "run" => now[t] # down'[s][i].blk
      BY <2>1, <3>2 DEF OneDone
    <3>4. ASSUME NEW t \in Sess, NEW j \in DOMAIN down'[t],
                 down'[t][j].kind \in DoneKinds, down'[t][j].blk = down'[s][i].blk
          PROVE  s = t /\ i = j
      <4>1. PICK e \in {0, 1} : \A k \in DOMAIN down'[t] :
                   /\ k \in Nat
                   /\ down'[t][k].kind \in DoneKinds => k + e \in DOMAIN down[t] /\ down'[t][k] = down[t][k + e]
        BY <1>4, KeptDone
      <4>2. j \in Nat /\ j + e \in DOMAIN down[t] /\ down'[t][j] = down[t][j + e]
        BY <3>4, <4>1
      <4>3. s = t /\ i + d = j + e
        BY <2>1, <3>2, <3>4, <4>2 DEF OneDone
      <4>4. j + d \in DOMAIN down[s] /\ down'[s][j] = down[s][j + d]
        BY <3>1, <3>4, <4>3
      <4>5. i + d = j + d
        BY <2>1, <3>2, <3>4, <4>3, <4>4 DEF OneDone
      <4> QED BY <3>2, <4>2, <4>3, <4>5
    <3> QED BY <1>2, <3>3, <3>4
  <2> QED BY <2>1 DEF OneDone
<1> QED BY <1>3, <1>4, DoneSteps

\* A quiet connection stays quiet until a block is sent on it.
LEMMA QuietStays ==
    ASSUME Types, Types', Shape, Shape', [Next]_vars, ~SendRun, NEW s \in Sess, Quiet(s)
    PROVE  Quiet(s)'
<1>1. QueueTypes BY DEF Types
<1>2. ASSUME NEW t \in Sess, NEW m, BoxRecv(t, m)
      PROVE  \A i \in DOMAIN up'[s] : up'[s][i].kind # "run"
  BY <1>1, <1>2, BoxReceives DEF Quiet
<1>3. \A i \in DOMAIN up'[s] : up'[s][i].kind # "run"
  <2>1. CASE NoRun BY <2>1, KeptRuns DEF NoRun, Quiet
  <2> QED BY <1>2, <2>1, RunSteps
          DEF AwaitRun, CodeEnter, CodeEnd, CodeStopped, FinishCode, Quiet
<1>4. ASSUME NEW m \in Heads(up[s]), AwaitRun(s, m) PROVE FALSE
  <2>1. BoxRecv(s, m) /\ m.kind = "run" BY <1>4 DEF AwaitRun
  <2>2. 1 \in DOMAIN up[s] /\ m = up[s][1] BY <1>1, <2>1, BoxReceives
  <2> QED BY <2>1, <2>2 DEF Quiet
<1>5. box'[s] # "run" BY <1>4, BoxRuns DEF Quiet
<1>6. \A i \in DOMAIN down'[s] : down'[s][i].kind \notin DoneKinds
  <2>1. CASE Kept(down, down', DoneKinds) BY <2>1, KeptDone DEF Quiet
  <2>2. ASSUME NEW t \in Sess, SendDone(t)
        PROVE  \A i \in DOMAIN down'[s] : down'[s][i].kind \notin DoneKinds
    <3>1. t # s /\ down'[s] = down[s]
      BY <1>1, <2>2 DEF SendDone, BoxSend, Quiet, QueueTypes
    <3> QED BY <3>1 DEF Quiet
  <2> QED BY <2>1, <2>2, DoneSteps
<1> QED BY <1>3, <1>5, <1>6 DEF Quiet

\* The sandbox does nothing for a block that it was not sent.
LEMMA OwnOnlyStays ==
    ASSUME Types, Types', Shape, Shape', [Next]_vars, NEW s \in Sess, OwnOnly(s), blk' = blk
    PROVE  OwnOnly(s)'
<1> USE Constants
<1>1. QueueTypes /\ HostTypes /\ BoxTypes /\ (cur # 0 => cur \in Sess)
  BY DEF Types, HostTypes, Sess
<1>2. ASSUME NEW t \in Sess, NEW m, BoxRecv(t, m)
      PROVE  \A i \in DOMAIN up'[s] : up'[s][i].kind = "run" => up'[s][i].blk = blk
  BY <1>1, <1>2, BoxReceives DEF OwnOnly
<1>3. \A i \in DOMAIN up'[s] : up'[s][i].kind = "run" => up'[s][i].blk = blk
  <2>1. CASE NoRun BY <2>1, KeptRuns DEF NoRun, OwnOnly
  <2>2. CASE SendRun
    <3>1. Msg("run", blk, 0) \in UpMsgs /\ Msg("run", blk, 0).blk = blk
      BY <1>1 DEF Msg, UpMsgs, UpKinds, HostTypes
    <3> QED BY <1>1, <2>2, <3>1, HostSends DEF SendRun, OwnOnly
  <2> QED BY <1>2, <2>1, <2>2, RunSteps
          DEF AwaitRun, CodeEnter, CodeEnd, CodeStopped, FinishCode, OwnOnly
<1>4. ASSUME NEW m \in Heads(up[s]), AwaitRun(s, m) PROVE now'[s] = blk
  <2>1. BoxRecv(s, m) /\ m.kind = "run" /\ now'[s] = m.blk BY <1>1, <1>4 DEF AwaitRun, BoxTypes
  <2>2. 1 \in DOMAIN up[s] /\ m = up[s][1] BY <1>1, <2>1, BoxReceives
  <2> QED BY <2>1, <2>2 DEF OwnOnly
<1>5. box'[s] = "run" => now'[s] = blk BY <1>4, BoxRuns DEF OwnOnly
<1>6. \A i \in DOMAIN down'[s] : down'[s][i].kind \in DoneKinds => down'[s][i].blk = blk
  <2>1. CASE Kept(down, down', DoneKinds) BY <2>1, KeptDone DEF OwnOnly
  <2>2. ASSUME NEW t \in Sess, SendDone(t)
        PROVE  \A i \in DOMAIN down'[s] : down'[s][i].kind \in DoneKinds => down'[s][i].blk = blk
    <3>1. CASE t # s
      <4>1. down'[s] = down[s]
        BY <1>1, <2>2, <3>1 DEF SendDone, BoxSend, QueueTypes
      <4> QED BY <4>1 DEF OwnOnly
    <3>2. CASE t = s
      <4>1. now[s] = blk BY <2>2, <3>2 DEF SendDone, OwnOnly
      <4>2. PICK k \in DoneKinds : BoxSend(s, Msg(k, now[s], 0))
        BY <2>2, <3>2 DEF SendDone, DoneKinds
      <4>3. Msg(k, now[s], 0) \in DownMsgs /\ Msg(k, now[s], 0).blk = now[s]
        BY <1>1, <4>2 DEF Msg, DownMsgs, DownKinds, DoneKinds, BoxTypes, HostTypes
      <4> QED BY <1>1, <4>1, <4>2, <4>3, BoxSends DEF OwnOnly
    <3> QED BY <3>1, <3>2
  <2> QED BY <2>1, <2>2, DoneSteps
<1> QED BY <1>3, <1>5, <1>6 DEF OwnOnly

\* A fresh sandbox is quiet.
LEMMA FreshQuiet ==
    ASSUME Types, Shape, StartSession, UNCHANGED <<up, down>>
    PROVE  Quiet(cur)'
<1>1. cur' = used + 1 /\ used + 1 \in Sess /\ used + 1 > used /\ box' = [box EXCEPT ![used + 1] = "boot"]
  BY Constants DEF StartSession, Types, HostTypes, Sess
<1>2. up'[used + 1] = <<>> /\ down'[used + 1] = <<>> /\ box'[used + 1] = "boot"
  BY <1>1 DEF Shape, FreshShape, Types, BoxTypes
<1> QED BY <1>1, <1>2 DEF Quiet, Sess

\* The DoneFrame the host takes is that of the current block, and nothing of that block
\* is left on the connection.
LEMMA DoneTaken ==
    ASSUME Types, Types', Shape, Shape', RunInv, OneDone, [Next]_vars,
           cur \in Sess, OwnOnly(cur), NEW m, LoopFrame(m), m.kind \in DoneKinds
    PROVE  Quiet(cur)' /\ exec'[blk] = "finished"
<1>1. QueueTypes /\ QueueTypes' /\ BoxTypes BY DEF Types
<1>2. HostRecv(m) /\ UNCHANGED <<up, box, now, exec, cur>>
  BY DEF LoopFrame, codeVars
<1>3. /\ 1 \in DOMAIN down[cur] /\ m = down[cur][1]
      /\ \A i \in DOMAIN down'[cur] : /\ i \in Nat /\ i + 1 \in DOMAIN down[cur]
                                      /\ down'[cur][i] = down[cur][i + 1]
  BY <1>1, <1>2, HostReceives
<1>4. /\ m.blk = blk /\ blk \in Blocks /\ exec[blk] = "finished"
      /\ \A t \in Sess : box[t] = "run" => now[t] # blk
      /\ \A j \in DOMAIN down[cur] :
             down[cur][j].kind \in DoneKinds /\ down[cur][j].blk = blk => j = 1
  BY <1>3 DEF OwnOnly, OneDone
<1>5. box[cur] # "run" BY <1>4 DEF OwnOnly
<1>6. \A i \in DOMAIN up[cur] : up[cur][i].kind # "run"
  BY <1>4 DEF OwnOnly, RunInv, Runs
<1>7. ASSUME NEW i \in DOMAIN down'[cur], down'[cur][i].kind \in DoneKinds PROVE FALSE
  <2>1. i \in Nat /\ i + 1 \in DOMAIN down[cur] /\ down'[cur][i] = down[cur][i + 1]
    BY <1>3, <1>7
  <2>2. i # 0 BY <1>1, <1>7 DEF QueueTypes
  <2>3. i + 1 = 1 BY <1>4, <1>7, <2>1 DEF OwnOnly
  <2> QED BY <2>1, <2>2, <2>3
<1> QED BY <1>2, <1>4, <1>5, <1>6, <1>7 DEF Quiet

\* Until a call is cancelled none has been.
LEMMA CancelledStays ==
    ASSUME Types, Shape, Reported, [Next]_vars, NoneCancelled'
    PROVE  NoneCancelled /\ ~CancelCall
<1> USE Constants
<1>1. HostTypes /\ ResultTypes /\ HostShape
  BY DEF Types, Shape
<1>2. UNCHANGED outcome => NoneCancelled
  BY DEF NoneCancelled
<1>3. ASSUME NEW o \in Outcomes, Report(o), host # "idle"
      PROVE  NoneCancelled /\ o # "cancelled"
  <2>1. blk \in Blocks /\ outcome[blk] = "none" /\ outcome' = [outcome EXCEPT ![blk] = o]
    BY <1>1, <1>3 DEF HostShape, Reported, Report
  <2> QED BY <1>1, <2>1 DEF NoneCancelled, ResultTypes
<1>4. CASE Settle \/ SettleFailed \/ GraceOver \/ ReconnectFails \/ CancelCall
  <2>1. host # "idle" /\ \E o \in Outcomes : Report(o)
    BY <1>1, <1>4 DEF Settle, SettleFailed, GraceOver, ReconnectFails, CancelCall, Outcomes,
                      HostTypes, InFlight
  <2>2. CancelCall => Report("cancelled") /\ "cancelled" \in Outcomes
    BY DEF CancelCall, Outcomes
  <2> QED BY <1>3, <2>1, <2>2
<1>5. CASE UNCHANGED outcome
  <2>1. ~CancelCall
    <3> SUFFICES ASSUME CancelCall PROVE FALSE
      OBVIOUS
    <3>1. blk \in Blocks /\ outcome[blk] = "none" /\ outcome' = [outcome EXCEPT ![blk] = "cancelled"]
      BY <1>1 DEF HostShape, Reported, CancelCall, Report, InFlight
    <3> QED BY <1>1, <1>5, <3>1 DEF ResultTypes
  <2> QED BY <1>2, <1>5, <2>1
<1> QED BY <1>4, <1>5, OutcomeSteps

\* The host, by what a step does to the block under way and to the turn's connection.
LEMMA TurnSteps ==
    ASSUME Types, Types', Shape, Shape', RunInv, OneDone, [Next]_vars, ~CancelCall, InStep
    PROVE  InStep'
<1> USE Constants
<1>1. HostTypes /\ HostShape /\ (cur # 0 => cur \in Sess)
  BY DEF Types, Shape, HostTypes, Sess
<1>2. CASE cur' = 0
  BY <1>2 DEF InStep
<1>3. CASE UNCHANGED <<cur, blk>> /\ UnderWay' = UnderWay /\ ~SendRun
  BY <1>1, <1>3, QuietStays, OwnOnlyStays DEF InStep
<1>4. CASE SendRun
  <2>1. Quiet(cur) /\ cur \in Sess /\ UNCHANGED <<cur, blk>>
    BY <1>1, <1>4 DEF SendRun, InStep, UnderWay, HostShape
  <2>2. OwnOnly(cur) BY <2>1 DEF Quiet, OwnOnly
  <2>3. OwnOnly(cur)' BY <2>1, <2>2, OwnOnlyStays
  <2>4. UnderWay' BY <1>4 DEF SendRun, UnderWay
  <2> QED BY <2>1, <2>3, <2>4 DEF InStep
<1>5. CASE ~UnderWay /\ ~UnderWay' /\ ~SendRun /\ cur' = cur
  BY <1>1, <1>5, QuietStays DEF InStep
<1>6. CASE NextBlock \/ Reconnect
  <2>1. ~UnderWay /\ ~UnderWay' /\ ~SendRun
    BY <1>1, <1>6 DEF NextBlock, Reconnect, BeginAttempt, UnderWay, SendRun, HostShape
  <2>2. CASE StartSession
    <3>1. UNCHANGED <<up, down>> BY <1>6 DEF NextBlock, Reconnect
    <3> QED BY <2>1, <2>2, <3>1, FreshQuiet DEF InStep
  <2>3. CASE cur' = cur
    BY <1>5, <2>1, <2>3
  <2> QED BY <1>6, <2>2, <2>3 DEF NextBlock, Reconnect
<1>7. ASSUME cur \in Sess, NEW m, LoopFrame(m) PROVE InStep'
  <2>1. OwnOnly(cur) /\ UNCHANGED <<cur, blk, res>> /\ host = "looping" /\ ~SendRun
    BY <1>1, <1>7 DEF LoopFrame, InStep, UnderWay, SendRun, Sess
  <2>2. CASE m.kind \in DoneKinds
    <3>1. host' = "waiting" /\ res' = "none"
      BY <1>1, <1>7, <2>1, <2>2 DEF LoopFrame, DoneKinds, HostShape
    <3>2. Quiet(cur)' BY <1>7, <2>1, <2>2, DoneTaken
    <3> QED BY <2>1, <3>1, <3>2 DEF InStep, UnderWay
  <2>3. CASE host' = host
    BY <1>3, <2>1, <2>3 DEF UnderWay
  <2> QED BY <1>7, <2>2, <2>3 DEF LoopFrame, DoneKinds
<1>8. ASSUME NEW m, WaitOutput(m) \/ WaitTar(m) PROVE InStep'
  <2>1. ~UnderWay /\ ~UnderWay' /\ ~SendRun /\ cur' = cur
    BY <1>1, <1>8 DEF WaitOutput, WaitTar, EndBlock, UnderWay, SendRun, HostShape
  <2> QED BY <1>5, <2>1
<1>9. CASE StageInputs
  <2>1. ~UnderWay /\ ~UnderWay' /\ ~SendRun /\ cur' = cur
    BY <1>1, <1>9 DEF StageInputs, UnderWay, SendRun, HostShape
  <2> QED BY <1>5, <2>1
<1>10. CASE ConnectionLost
  <2>1. UNCHANGED <<cur, blk>> /\ UnderWay' = UnderWay /\ ~SendRun
    BY <1>1, <1>10 DEF ConnectionLost, EndBlock, UnderWay, SendRun, HostShape
  <2> QED BY <1>3, <2>1
<1>11. CASE Settle
  <2>1. cur' = 0 \/ (~UnderWay /\ ~UnderWay' /\ ~SendRun /\ cur' = cur)
    BY <1>1, <1>11 DEF Settle, Discard, Report, UnderWay, SendRun, HostShape
  <2> QED BY <1>2, <1>5, <2>1
<1>12. CASE SettleFailed \/ SettleNotRun \/ GraceOver
  BY <1>2, <1>12 DEF SettleFailed, SettleNotRun, GraceOver, Discard
<1>13. CASE ReconnectFails
  BY <1>1, <1>2, <1>13 DEF ReconnectFails, HostShape
<1>14. CASE UNCHANGED <<cur, blk, host, res>>
  BY <1>3, <1>14 DEF UnderWay, SendRun
<1>15. ASSUME NEW id \in pending, ReplyStopped(id) \/ ReplyValue(id) PROVE InStep'
  BY <1>14, <1>15 DEF ReplyStopped, ReplyValue
<1>16. CASE Interrupt \/ TimeOut
  BY <1>14, <1>16 DEF Interrupt, TimeOut
<1>17. CASE UNCHANGED hostVars
  BY <1>14, <1>17 DEF hostVars
<1>18. CASE UNCHANGED vars
  BY <1>17, <1>18 DEF vars
<1> QED BY <1>4, <1>6, <1>7, <1>8, <1>9, <1>10, <1>11, <1>12, <1>13, <1>15, <1>16, <1>17, <1>18, Steps
        DEF Drop, Boot, CodeEnter, SendDone, SendOutput, SendTar, BoxExit, Gone, AwaitTar, AwaitRun,
            AwaitRunFails, Pump, CodeCall, CodeEnd, CodeStopped, FinishCode, CodeCatches, Spawn,
            BackgroundCall

\* The host learns that a block is over by taking a DoneFrame.
LEMMA OverSteps ==
    ASSUME Types, Shape, [Next]_vars, Over'
    PROVE  \/ Over /\ blk' = blk
           \/ cur \in Sess /\ blk' = blk /\ \E m : LoopFrame(m) /\ m.kind \in DoneKinds
<1>1. HostTypes /\ HostShape BY DEF Types, Shape
<1>2. CASE StageInputs \/ SendRun \/ ConnectionLost
  BY <1>1, <1>2 DEF StageInputs, SendRun, ConnectionLost, EndBlock, Over, HostShape
<1>3. ASSUME cur \in Sess, NEW m, LoopFrame(m)
      PROVE  Over \/ (blk' = blk /\ m.kind \in DoneKinds)
  BY <1>1, <1>3 DEF LoopFrame, Over, DoneKinds, HostShape
<1>4. ASSUME NEW m, WaitOutput(m) \/ WaitTar(m)
      PROVE  Over /\ blk' = blk
  BY <1>1, <1>4 DEF WaitOutput, WaitTar, EndBlock, Over
<1>5. CASE Settle \/ SettleFailed \/ GraceOver \/ ReconnectFails \/ CancelCall \/ NextBlock
             \/ SettleNotRun \/ Reconnect
  BY <1>1, <1>5 DEF Settle, SettleFailed, GraceOver, ReconnectFails, CancelCall, Report, NextBlock,
                    SettleNotRun, Reconnect, BeginAttempt, Over
<1>6. CASE UNCHANGED <<blk, host, res>>
  BY <1>6 DEF Over
<1>7. ASSUME NEW id \in pending, ReplyStopped(id) \/ ReplyValue(id)
      PROVE  Over /\ blk' = blk
  BY <1>7 DEF ReplyStopped, ReplyValue, Over
<1>8. CASE Interrupt \/ TimeOut
  BY <1>6, <1>8 DEF Interrupt, TimeOut
<1>9. CASE UNCHANGED hostVars
  BY <1>6, <1>9 DEF hostVars
<1>10. CASE UNCHANGED vars
  BY <1>9, <1>10 DEF vars
<1>11. ASSUME cur \in Sess, NEW m, LoopFrame(m) PROVE blk' = blk
  BY <1>11 DEF LoopFrame
<1> QED BY <1>2, <1>3, <1>4, <1>5, <1>7, <1>8, <1>9, <1>10, <1>11, Steps
        DEF Drop, Boot, CodeEnter, SendDone, SendOutput, SendTar, BoxExit, Gone, AwaitTar, AwaitRun,
            AwaitRunFails, Pump, CodeCall, CodeEnd, CodeStopped, FinishCode, CodeCatches, Spawn,
            BackgroundCall

\* The DoneFrame it takes is the current block's, so its code has finished.
LEMMA KnownStays ==
    ASSUME Types, Types', Shape, Shape', RunInv, OneDone, [Next]_vars, ~CancelCall, InStep, Known
    PROVE  Known'
<1>1. HostTypes /\ ResultTypes /\ HostShape BY DEF Types, Shape, HostTypes
<1>2. ASSUME Over' PROVE exec'[blk'] = "finished"
  <2>1. CASE Over /\ blk' = blk
    <3>1. blk \in Blocks BY <1>1, <2>1 DEF Over, HostShape
    <3> QED BY <2>1, <3>1, FinishedStays DEF Known
  <2>2. ASSUME cur \in Sess, blk' = blk, NEW m, LoopFrame(m), m.kind \in DoneKinds
        PROVE  exec'[blk'] = "finished"
    <3>1. OwnOnly(cur) BY <2>2, Constants DEF InStep, UnderWay, LoopFrame, Sess
    <3> QED BY <2>2, <3>1, DoneTaken
  <2> QED BY <1>2, <2>1, <2>2, OverSteps
<1>3. ASSUME NEW b \in Blocks, outcome'[b] \in {"ok", "stopped", "ran"}
      PROVE  exec'[b] = "finished"
  <2>1. CASE outcome'[b] = outcome[b]
    BY <1>3, <2>1, FinishedStays DEF Known
  <2>2. CASE outcome'[b] # outcome[b]
    <3>1. b = blk /\ Over
      BY <1>1, <1>3, <2>2, OutcomeSteps
         DEF Settle, SettleFailed, GraceOver, ReconnectFails, CancelCall, Report, Over, ResultTypes
    <3> QED BY <3>1, FinishedStays DEF Known
  <2> QED BY <2>1, <2>2
<1> QED BY <1>2, <1>3 DEF Known

\* TruthInv is inductive.
LEMMA TruthInductive == Spec => []TruthInv
<1>1. Init => TruthInv
  BY DEF Init, TruthInv, OneDone, InStep, Known, Over, Blocks
<1>2. Types /\ Types' /\ Shape /\ Shape' /\ RunInv /\ TruthInv /\ [Next]_vars => TruthInv'
  <2> SUFFICES ASSUME Types, Types', Shape, Shape', RunInv, TruthInv, [Next]_vars
               PROVE  TruthInv'
    OBVIOUS
  <2>1. OneDone' BY OneDoneStays DEF TruthInv
  <2>2. ASSUME NoneCancelled' PROVE InStep' /\ Known'
    <3>1. NoneCancelled /\ ~CancelCall BY <2>2, CancelledStays DEF RunInv
    <3> QED BY <3>1, TurnSteps, KnownStays DEF TruthInv
  <2> QED BY <2>1, <2>2 DEF TruthInv
<1> QED BY <1>1, <1>2, TypesInductive, ShapeInductive, RunInductive, PTL DEF Spec
-----------------------------------------------------------------------------
\* A step that reports a block reports what the contract allows.
LEMMA ReportStep ==
    ASSUME Types, Shape, RunInv, [Next]_vars, NoneCancelled, Known, outcome' # outcome
    PROVE  \E b \in Blocks : \E o \in DOMAIN Contract!Allows : Contract!Report(b, o)
<1>1. HostTypes /\ ResultTypes /\ BoxTypes /\ HostShape BY DEF Types, Shape
<1>2. /\ Settle \/ SettleFailed \/ GraceOver \/ ReconnectFails \/ CancelCall
      /\ blk \in Blocks /\ outcome[blk] = "none"
  BY <1>1, OutcomeSteps DEF Settle, SettleFailed, GraceOver, ReconnectFails, CancelCall, InFlight,
                            HostShape, RunInv, Reported
<1>3. \A o \in {"ok", "stopped", "ran"} : Contract!Allows[o] = {"finished"}
  BY DEF Contract!Allows
<1>4. \A o \in {"unknown", "notStopped", "error", "cancelled"} :
          Contract!Allows[o] = {"no", "started", "finished"}
  BY DEF Contract!Allows
<1>5. Contract!Allows["notRun"] = {"no"} /\ Outcomes \subseteq DOMAIN Contract!Allows
  BY DEF Contract!Allows, Outcomes
<1>6. exec[blk] \in {"no", "started", "finished"}
  BY <1>1, <1>2 DEF RunInv, Executes, BoxTypes
<1>7. Over => exec[blk] = "finished" BY DEF Known
<1>8. host = "reconnecting" \/ (host = "ended" /\ res = "notRun") => exec[blk] = "no"
  BY <1>2 DEF RunInv, NotSent, Unsent, Untouched
<1>9. PICK o \in Outcomes : Report(o) /\ exec[blk] \in Contract!Allows[o]
  <2>1. CASE Settle
    BY <1>3, <1>4, <1>6, <1>7, <2>1 DEF Settle, Over, Outcomes
  <2>2. CASE SettleFailed
    <3>1. Report(res) /\ host = "ended" /\ res \in {"ran", "unknown", "error", "notRun"}
      BY <2>2 DEF SettleFailed
    <3> QED BY <1>3, <1>4, <1>5, <1>6, <1>7, <1>8, <3>1 DEF Over, Outcomes
  <2>3. CASE GraceOver
    BY <1>4, <1>6, <2>3 DEF GraceOver, Outcomes
  <2>4. CASE ReconnectFails
    BY <1>5, <1>8, <2>4 DEF ReconnectFails, Outcomes
  <2>5. CASE CancelCall
    BY <1>4, <1>6, <2>5 DEF CancelCall, Outcomes
  <2> QED BY <1>2, <2>1, <2>2, <2>3, <2>4, <2>5
<1>10. Contract!Report(blk, o)
  BY <1>2, <1>9 DEF Contract!Report, Report, codeVars
<1> QED BY <1>2, <1>5, <1>9, <1>10

\* As long as no call is cancelled, the host and its sandboxes implement BlockContract: each step
\* starts or finishes a block's code, reports a block as the contract allows (_run_block,
\* tool.py 851-909), or is none of the contract's.
THEOREM BlocksKeepContract == Spec /\ []NoneCancelled => AtMostOnceTruthful
<1>1. Init => Contract!Init
  BY DEF Init, Contract!Init
<1>2. /\ Types /\ Shape /\ RunInv /\ TruthInv /\ NoneCancelled /\ [Next]_vars
      => [Contract!Next]_Contract!vars
  <2> SUFFICES ASSUME Types, Shape, RunInv, TruthInv, NoneCancelled, [Next]_vars
               PROVE  Contract!Next \/ UNCHANGED Contract!vars
    OBVIOUS
  <2>1. CASE outcome' # outcome
    BY <2>1, ReportStep DEF TruthInv, Contract!Next
  <2>2. CASE outcome' = outcome
    BY <2>2, ExecSteps DEF Contract!Next, Contract!vars
  <2> QED BY <2>1, <2>2
<1> QED BY <1>1, <1>2, TypesInductive, ShapeInductive, RunInductive, TruthInductive, PTL
        DEF Spec, AtMostOnceTruthful, Contract!Spec

\* The same for every scenario without cancellation, which is what the fair run checks: the
\* assumption is about the faults that may happen and not about the run.
THEOREM ContractWithoutCancel ==
    ASSUME \A sc \in Scenarios : "cancel" \notin sc.faults
    PROVE  Spec => AtMostOnceTruthful
<1>1. Init => NoneCancelled
  BY DEF Init, NoneCancelled, Blocks
<1>2. Types /\ NoneCancelled /\ [Next]_vars => NoneCancelled'
  <2> SUFFICES ASSUME Types, NoneCancelled, [Next]_vars, NEW b \in Blocks
               PROVE  outcome'[b] # "cancelled"
    BY DEF NoneCancelled
  <2>1. HostTypes /\ ResultTypes BY DEF Types
  <2>2. ~CancelCall BY <2>1 DEF CancelCall, HostTypes
  <2>3. CASE outcome' = outcome BY <2>3 DEF NoneCancelled
  <2>4. ASSUME NEW o \in Outcomes \ {"cancelled"}, Report(o) PROVE outcome'[b] # "cancelled"
    BY <2>1, <2>4 DEF Report, ResultTypes, NoneCancelled
  <2>5. Settle \/ SettleFailed \/ GraceOver \/ ReconnectFails
        => \E o \in Outcomes \ {"cancelled"} : Report(o)
    BY DEF Settle, SettleFailed, GraceOver, ReconnectFails, Outcomes
  <2> QED BY <2>2, <2>3, <2>4, <2>5, OutcomeSteps
<1>3. Spec => []NoneCancelled
  BY <1>1, <1>2, TypesInductive, PTL DEF Spec
<1> QED BY <1>3, BlocksKeepContract, PTL
-----------------------------------------------------------------------------
(* The order of the frames of a block on its connection.                   *)

\* A block's DoneFrame, its OutputFrame and its workspace follow each other.
Follows(m, x) ==
    /\ m.kind \in DoneKinds => x.kind = "output" /\ x.blk = m.blk
    /\ m.kind = "output" => x.kind = "tar" /\ x.blk = m.blk

\* A block's DoneFrame, OutputFrame and workspace tar follow each other in flight.
Chained(s) ==
    \A i \in DOMAIN down[s] : i + 1 \in DOMAIN down[s] => Follows(down[s][i], down[s][i + 1])

\* What the sandbox sends next on a connection that is up, after what it sent last.
Latest(s) ==
    link[s] = "up" /\ down[s] # <<>> =>
        LET m == down[s][Len(down[s])] IN
        /\ m.kind \in DoneKinds => box[s] = "output" /\ now[s] = m.blk
        /\ m.kind = "output" => box[s] = "tar" /\ now[s] = m.blk

Stream == \A s \in Sess : Chained(s) /\ Latest(s)

\* The next frame of a connection that the host has not given up is this one, if any.
NextIs(s, k, b) ==
    IF down[s] # <<>> THEN down[s][1].kind = k /\ down[s][1].blk = b
    ELSE link[s] = "up" => box[s] = k /\ now[s] = b

\* What the host waits for is what comes next, and what it has taken was the block's own.
Due ==
    /\ host = "waiting" => NextIs(cur, "output", blk)
    /\ host = "waitingTar" => NextIs(cur, "tar", blk) /\ got[blk] = blk
    /\ res = "result" => got[blk] = blk /\ tarOf[blk] = blk
    /\ res # "error"
    /\ \A b \in Blocks : outcome[b] # "error"
    /\ NeverDesyncs

\* The order of frames needs that no left-behind thread has sent one in between, and what the host
\* may expect of it also that no call was cancelled.
OwnInv ==
    /\ NoneIntruded => Stream
    /\ NoneCancelled /\ NoneIntruded => Due

\* What a step does to the frames of one connection.
Took(s) ==
    /\ s = cur /\ down[s] # <<>> /\ down'[s] = Tail(down[s])
    /\ link'[s] = link[s] /\ box'[s] = box[s] /\ now'[s] = now[s]
    /\ \E m : LoopFrame(m) \/ WaitOutput(m) \/ WaitTar(m)
Cut(s) == link'[s] = "down" /\ \E j \in 0 .. Len(down[s]) : down'[s] = SubSeq(down[s], 1, j)
Stayed(s) ==
    /\ down'[s] = down[s]
    /\ link'[s] = "up" =>
           /\ link[s] = "up"
           /\ box[s] \in {"output", "tar"} => box'[s] = box[s] /\ now'[s] = now[s]
Sent(s) ==
    /\ link[s] = "up"
    /\ \E m \in DownMsgs :
           /\ down'[s] = Append(down[s], m)
           /\ box[s] \in {"output", "tar"} => m.kind = box[s] /\ m.blk = now[s]
           /\ m.kind \in DoneKinds => box'[s] = "output" /\ now'[s] = m.blk
           /\ m.kind = "output" => box'[s] = "tar" /\ now'[s] = m.blk
Emptied(s) == down'[s] = <<>> /\ (link'[s] = "down" \/ s > used)

\* What a step does to one connection: the host takes a frame, the connection breaks, nothing, the
\* sandbox sends, or it is a new or a discarded one.
LEMMA ConnectionSteps ==
    ASSUME Types, Shape, [Next]_vars, NEW s \in Sess,
           \A t \in Sess : ~BackgroundCall(t)
    PROVE  Took(s) \/ Cut(s) \/ Stayed(s) \/ Sent(s) \/ Emptied(s)
<1> USE Constants
<1>1. QueueTypes /\ HostTypes /\ BoxTypes /\ FreshShape /\ BoxShape BY DEF Types, Shape
<1>2. CASE UNCHANGED <<down, link, box, now>>
  BY <1>2 DEF Stayed
<1>3. CASE StageInputs \/ SendRun \/ ConnectionLost \/ Interrupt \/ TimeOut \/ ReconnectFails
             \/ CancelCall
  BY <1>2, <1>3 DEF StageInputs, SendRun, ConnectionLost, EndBlock, Interrupt, TimeOut,
                    ReconnectFails, CancelCall, Report, codeVars
<1>4. ASSUME NEW id \in pending, ReplyStopped(id) \/ ReplyValue(id)
      PROVE  Stayed(s)
  BY <1>2, <1>4 DEF ReplyStopped, ReplyValue, codeVars, Stayed
<1>5. ASSUME cur \in Sess, NEW m, LoopFrame(m) \/ WaitOutput(m) \/ WaitTar(m)
      PROVE  Took(s) \/ Stayed(s)
  <2>1. HostRecv(m) /\ UNCHANGED <<link, box, now>>
    BY <1>5 DEF LoopFrame, WaitOutput, WaitTar, EndBlock, codeVars
  <2>2. down[cur] # <<>> /\ down' = [down EXCEPT ![cur] = Tail(down[cur])]
    BY <2>1 DEF HostRecv
  <2> QED BY <1>1, <1>5, <2>1, <2>2 DEF QueueTypes, Took, Stayed
<1>6. CASE NextBlock \/ Reconnect
  <2>1. UNCHANGED <<down, now>> BY <1>6 DEF NextBlock, Reconnect, codeVars
  <2>2. CASE StartSession
    <3>1. /\ used + 1 \in Sess /\ down[used + 1] = <<>>
          /\ link' = [link EXCEPT ![used + 1] = "up"] /\ box' = [box EXCEPT ![used + 1] = "boot"]
      BY <1>1, <2>2 DEF StartSession, FreshShape, HostTypes, Sess
    <3>2. s = used + 1 => Emptied(s) BY <1>1, <2>1, <3>1 DEF Emptied, HostTypes
    <3>3. s # used + 1 => Stayed(s) BY <1>1, <2>1, <3>1 DEF Stayed, BoxTypes
    <3> QED BY <3>2, <3>3
  <2> QED BY <1>2, <1>6, <2>1, <2>2 DEF NextBlock, Reconnect
<1>7. CASE Settle \/ SettleFailed \/ SettleNotRun \/ GraceOver
  <2>1. UNCHANGED <<box, now>>
    BY <1>7 DEF Settle, SettleFailed, SettleNotRun, GraceOver, Report, codeVars
  <2>2. UNCHANGED <<link, down>> \/ Discard
    BY <1>7 DEF Settle, SettleFailed, SettleNotRun, GraceOver
  <2>3. CASE Discard
    BY <1>1, <2>1, <2>3 DEF Discard, Emptied, Stayed, QueueTypes, BoxTypes
  <2> QED BY <1>2, <2>1, <2>2, <2>3
<1>8. ASSUME NEW t \in Sess, NEW i \in 0 .. Len(up[t]), NEW j \in 0 .. Len(down[t]), Drop(t, i, j)
      PROVE  Cut(s) \/ Stayed(s)
  <2>1. /\ down' = [down EXCEPT ![t] = SubSeq(down[t], 1, j)] /\ link' = [link EXCEPT ![t] = "down"]
        /\ UNCHANGED <<box, now>>
    BY <1>8 DEF Drop, codeVars
  <2> QED BY <1>1, <2>1 DEF Cut, Stayed, QueueTypes, BoxTypes
<1>9. ASSUME NEW t \in Sess, t # s,
             \/ Boot(t) \/ CodeEnter(t) \/ SendDone(t) \/ SendOutput(t) \/ SendTar(t) \/ BoxExit(t)
             \/ \E m \in Heads(up[t]) :
                    AwaitTar(t, m) \/ AwaitRun(t, m) \/ AwaitRunFails(t, m) \/ Pump(t, m)
             \/ CodeCall(t) \/ CodeEnd(t) \/ CodeStopped(t) \/ CodeCatches(t) \/ Spawn(t)
      PROVE  Stayed(s)
  <2>1. /\ down'[s] = down[s] /\ link'[s] = link[s] /\ box'[s] = box[s] /\ now'[s] = now[s]
    BY <1>1, <1>9
       DEF QueueTypes, BoxTypes, codeVars, Boot, BoxSend, CodeEnter, SendDone, SendOutput, SendTar,
           BoxExit, Gone, AwaitTar, AwaitRun, AwaitRunFails, Pump, CodeCall, CodeEnd, CodeStopped,
           FinishCode, CodeCatches, Spawn
  <2> QED BY <2>1 DEF Stayed
<1>10. CASE \/ CodeEnter(s) \/ CodeEnd(s) \/ CodeStopped(s) \/ CodeCatches(s) \/ Spawn(s)
            \/ \E m \in Heads(up[s]) : Pump(s, m)
  BY <1>2, <1>10 DEF CodeEnter, CodeEnd, CodeStopped, FinishCode, CodeCatches, Spawn, Pump
<1>11. CASE BoxExit(s) \/ \E m \in Heads(up[s]) : AwaitRunFails(s, m)
  BY <1>1, <1>11 DEF BoxExit, AwaitRunFails, Gone, Stayed, BoxTypes
<1>12. CASE \E m \in Heads(up[s]) : AwaitTar(s, m) \/ AwaitRun(s, m)
  BY <1>1, <1>12 DEF AwaitTar, AwaitRun, codeVars, Stayed, BoxTypes
<1>13. ASSUME NEW m \in DownMsgs, BoxSend(s, m)
       PROVE  IF link[s] = "up" THEN down'[s] = Append(down[s], m) ELSE down'[s] = down[s]
  BY <1>1, <1>13 DEF BoxSend, QueueTypes
<1>14. \A k \in DownKinds, b \in 0 .. NBlocks, n \in 0 .. scene.calls :
           /\ Msg(k, b, n) \in DownMsgs
           /\ Msg(k, b, n).kind = k /\ Msg(k, b, n).blk = b
  BY DEF Msg, DownMsgs
<1>15. now[s] \in 0 .. NBlocks /\ 0 \in 0 .. NBlocks /\ 0 \in 0 .. scene.calls
  BY <1>1 DEF BoxTypes, HostTypes
<1>16. CASE Boot(s)
  <2>1. Msg("ready", 0, 0) \in DownMsgs /\ Msg("ready", 0, 0).kind = "ready"
    BY <1>14, <1>15 DEF DownKinds
  <2>2. BoxSend(s, Msg("ready", 0, 0)) /\ box[s] = "boot" /\ link' = link
    BY <1>16 DEF Boot
  <2> QED BY <1>13, <2>1, <2>2 DEF Sent, Stayed, DoneKinds
<1>17. CASE CodeCall(s)
  <2>1. ncalls[s] + 1 \in 0 .. scene.calls BY <1>1, <1>17 DEF CodeCall, BoxTypes, HostTypes
  <2>2. Msg("call", now[s], ncalls[s] + 1) \in DownMsgs /\ Msg("call", now[s], ncalls[s] + 1).kind = "call"
    BY <1>14, <1>15, <2>1 DEF DownKinds
  <2>3. BoxSend(s, Msg("call", now[s], ncalls[s] + 1)) /\ box[s] = "run" /\ link' = link
    BY <1>1, <1>17 DEF CodeCall, BoxShape
  <2> QED BY <1>13, <2>2, <2>3 DEF Sent, Stayed, DoneKinds
<1>18. CASE SendDone(s)
  <2>1. PICK k \in DoneKinds : BoxSend(s, Msg(k, now[s], 0))
    BY <1>18 DEF SendDone, DoneKinds
  <2>2. /\ Msg(k, now[s], 0) \in DownMsgs /\ Msg(k, now[s], 0).kind = k
        /\ Msg(k, now[s], 0).blk = now[s] /\ k # "output"
    BY <1>14, <1>15, <2>1 DEF DownKinds, DoneKinds
  <2>3. box[s] = "run" /\ box'[s] = "output" /\ now' = now /\ link' = link
    BY <1>1, <1>18 DEF SendDone, BoxTypes
  <2> QED BY <1>13, <2>1, <2>2, <2>3 DEF Sent, Stayed
<1>19. CASE SendOutput(s)
  <2>1. /\ Msg("output", now[s], 0) \in DownMsgs /\ Msg("output", now[s], 0).kind = "output"
        /\ Msg("output", now[s], 0).blk = now[s]
    BY <1>14, <1>15 DEF DownKinds
  <2>2. /\ BoxSend(s, Msg("output", now[s], 0)) /\ box[s] = "output" /\ box'[s] = "tar"
        /\ now' = now /\ link' = link
    BY <1>1, <1>19 DEF SendOutput, BoxTypes, codeVars
  <2>3. link[s] # "up" => Stayed(s) BY <1>13, <2>1, <2>2 DEF Stayed
  <2>4. link[s] = "up" => Sent(s) BY <1>13, <2>1, <2>2 DEF Sent, DoneKinds
  <2> QED BY <2>3, <2>4
<1>20. CASE SendTar(s)
  <2>1. /\ Msg("tar", now[s], 0) \in DownMsgs /\ Msg("tar", now[s], 0).kind = "tar"
        /\ Msg("tar", now[s], 0).blk = now[s]
    BY <1>14, <1>15 DEF DownKinds
  <2>2. BoxSend(s, Msg("tar", now[s], 0)) /\ box[s] = "tar" /\ link' = link
    BY <1>20 DEF SendTar
  <2>3. link[s] # "up" => Stayed(s) BY <1>13, <2>1, <2>2 DEF Stayed
  <2>4. link[s] = "up" => Sent(s) BY <1>13, <2>1, <2>2 DEF Sent, DoneKinds
  <2> QED BY <2>3, <2>4
<1>21. CASE UNCHANGED vars
  BY <1>2, <1>21 DEF vars, codeVars
<1> QED BY <1>3, <1>4, <1>5, <1>6, <1>7, <1>8, <1>9, <1>10, <1>11, <1>12, <1>16, <1>17, <1>18, <1>19, <1>20, <1>21, Steps

\* In each of the five ways the frames stay in order.
LEMMA StreamStays ==
    ASSUME Types, Types', Shape, [Next]_vars, Stream, \A t \in Sess : ~BackgroundCall(t)
    PROVE  Stream'
<1> SUFFICES ASSUME NEW s \in Sess PROVE Chained(s)' /\ Latest(s)'
  BY Constants DEF Stream, Sess
<1>1. down[s] \in Seq(DownMsgs) /\ down'[s] \in Seq(DownMsgs)'
  BY DEF Types, QueueTypes
<1>2. Chained(s) /\ Latest(s)
  BY DEF Stream
<1>3. CASE Emptied(s)
  BY <1>3 DEF Emptied, Chained, Latest
<1>4. CASE Stayed(s)
  BY <1>2, <1>4 DEF Stayed, Chained, Latest
<1>5. CASE Cut(s)
  <2>1. PICK j \in 0 .. Len(down[s]) : down'[s] = SubSeq(down[s], 1, j)
    BY <1>5 DEF Cut
  <2>2. \A i \in DOMAIN down'[s] : i \in DOMAIN down[s] /\ down'[s][i] = down[s][i]
    BY <1>1, <2>1
  <2>3. Chained(s)'
    BY <1>2, <2>2 DEF Chained, Follows
  <2>4. Latest(s)'
    BY <1>5 DEF Cut, Latest
  <2> QED BY <2>3, <2>4
<1>6. CASE Took(s)
  <2> DEFINE q == down[s]
  <2>2. /\ q \in Seq(DownMsgs) /\ q # <<>> /\ down'[s] = Tail(q) /\ Len(q) \in Nat
        /\ DOMAIN Tail(q) = 1 .. Len(q) - 1 /\ DOMAIN q = 1 .. Len(q)
        /\ \A i \in 1 .. Len(q) - 1 : Tail(q)[i] = q[i + 1]
        /\ Len(Tail(q)) = Len(q) - 1
    BY <1>1, <1>6 DEF Took
  <2>3. Chained(s)'
    BY <1>2, <2>2 DEF Chained, Follows
  <2>4. Latest(s)'
    BY <1>2, <1>6, <2>2 DEF Latest, Took
  <2> QED BY <2>3, <2>4
<1>7. CASE Sent(s)
  <2>1. PICK m \in DownMsgs :
           /\ down'[s] = Append(down[s], m)
           /\ box[s] \in {"output", "tar"} => m.kind = box[s] /\ m.blk = now[s]
           /\ m.kind \in DoneKinds => box'[s] = "output" /\ now'[s] = m.blk
           /\ m.kind = "output" => box'[s] = "tar" /\ now'[s] = m.blk
    BY <1>7 DEF Sent
  <2>2. /\ Len(down[s]) \in Nat /\ Len(down'[s]) = Len(down[s]) + 1
        /\ DOMAIN down[s] = 1 .. Len(down[s]) /\ DOMAIN down'[s] = 1 .. Len(down[s]) + 1
        /\ \A i \in 1 .. Len(down[s]) : down'[s][i] = down[s][i]
        /\ down'[s][Len(down[s]) + 1] = m
        /\ down[s] # <<>> <=> Len(down[s]) > 0
    BY <1>1, <2>1
  <2>3. down[s] # <<>> => Follows(down[s][Len(down[s])], m)
    BY <1>2, <1>7, <2>1 DEF Latest, Follows, Sent
  <2>4. Chained(s)'
    <3> SUFFICES ASSUME NEW i \in DOMAIN down'[s], i + 1 \in DOMAIN down'[s]
                 PROVE  Follows(down'[s][i], down'[s][i + 1])
      BY DEF Chained, Follows
    <3>1. CASE i = Len(down[s])
      BY <2>2, <2>3, <3>1
    <3>2. CASE i # Len(down[s])
      <4>1. {i, i + 1} \subseteq DOMAIN down[s] BY <2>2, <3>2
      <4> QED BY <1>2, <2>2, <4>1 DEF Chained
    <3> QED BY <3>1, <3>2
  <2>5. Latest(s)'
    BY <2>1, <2>2 DEF Latest
  <2> QED BY <2>4, <2>5
<1> QED BY <1>3, <1>4, <1>5, <1>6, <1>7, ConnectionSteps

\* The frame that is due stays the next one until the host takes it.
LEMMA NextStays ==
    ASSUME Types, Types', Shape, [Next]_vars, \A t \in Sess : ~BackgroundCall(t),
           NEW s \in Sess, s <= used, ~Took(s),
           NEW k \in {"output", "tar"}, NEW b, NextIs(s, k, b)
    PROVE  NextIs(s, k, b)'
<1>1. down[s] \in Seq(DownMsgs) BY DEF Types, QueueTypes
<1>2. CASE Emptied(s)
  BY <1>2, Constants DEF Emptied, NextIs, Types, HostTypes, Sess
<1>3. CASE Stayed(s)
  BY <1>3 DEF Stayed, NextIs
<1>4. CASE Cut(s)
  <2>1. PICK j \in 0 .. Len(down[s]) : down'[s] = SubSeq(down[s], 1, j)
    BY <1>4 DEF Cut
  <2>2. down'[s] # <<>> => down[s] # <<>> /\ down'[s][1] = down[s][1]
    BY <1>1, <2>1
  <2> QED BY <1>4, <2>2 DEF Cut, NextIs
<1>5. CASE Sent(s)
  <2>1. PICK m \in DownMsgs :
           /\ down'[s] = Append(down[s], m)
           /\ box[s] \in {"output", "tar"} => m.kind = box[s] /\ m.blk = now[s]
    BY <1>5 DEF Sent
  <2>2. down'[s] # <<>> /\ down'[s][1] = IF down[s] = <<>> THEN m ELSE down[s][1]
    BY <1>1, <2>1
  <2> QED BY <1>5, <2>1, <2>2 DEF Sent, NextIs
<1> QED BY <1>2, <1>3, <1>4, <1>5, ConnectionSteps

\* After a DoneFrame or an OutputFrame, what the host takes next is what follows it.
LEMMA NextFollows ==
    ASSUME Types, Stream, cur \in Sess, NEW m, HostRecv(m), UNCHANGED <<cur, link, box, now>>
    PROVE  \A b : /\ m.kind \in DoneKinds /\ b = m.blk => NextIs(cur, "output", b)'
                  /\ m.kind = "output" /\ b = m.blk => NextIs(cur, "tar", b)'
<1>1. /\ down[cur] \in Seq(DownMsgs) /\ down[cur] # <<>> /\ m = Head(down[cur])
      /\ down'[cur] = Tail(down[cur])
  BY DEF Types, QueueTypes, HostRecv
<1>2. /\ m = down[cur][1] /\ 1 \in DOMAIN down[cur]
      /\ down'[cur] # <<>> => 1 + 1 \in DOMAIN down[cur] /\ down'[cur][1] = down[cur][1 + 1]
      /\ down'[cur] = <<>> => m = down[cur][Len(down[cur])]
  <2>1. /\ Len(down[cur]) \in Nat \ {0} /\ DOMAIN down[cur] = 1 .. Len(down[cur])
        /\ Len(Tail(down[cur])) = Len(down[cur]) - 1
        /\ \A i \in 1 .. Len(down[cur]) - 1 : Tail(down[cur])[i] = down[cur][i + 1]
        /\ Head(down[cur]) = down[cur][1] /\ Tail(down[cur]) \in Seq(DownMsgs)
    BY <1>1
  <2>2. \A q \in Seq(DownMsgs) : Len(q) \in Nat /\ (q = <<>> <=> Len(q) = 0)
    OBVIOUS
  <2>3. Len(down[cur]) - 1 = 0 <=> down'[cur] = <<>>
    BY <1>1, <2>1, <2>2
  <2>4. down'[cur] # <<>> => 1 \in 1 .. Len(down[cur]) - 1 /\ 1 + 1 \in 1 .. Len(down[cur])
    <3>1. \A n \in Nat \ {0} : n - 1 # 0 => 1 \in 1 .. n - 1 /\ 1 + 1 \in 1 .. n
      OBVIOUS
    <3> QED BY <2>1, <2>3, <3>1
  <2> QED BY <1>1, <2>1, <2>3, <2>4
<1>3. Chained(cur) /\ Latest(cur) BY DEF Stream
<1>4. down'[cur] # <<>> => Follows(m, down'[cur][1])
  BY <1>2, <1>3 DEF Chained
<1>5. down'[cur] = <<>> /\ link[cur] = "up" =>
          /\ m.kind \in DoneKinds => box[cur] = "output" /\ now[cur] = m.blk
          /\ m.kind = "output" => box[cur] = "tar" /\ now[cur] = m.blk
  BY <1>1, <1>2, <1>3 DEF Latest
<1> QED BY <1>4, <1>5 DEF NextIs, Follows

\* What the host takes while it waits is what is due, so nothing is out of its place.
LEMMA DueStays ==
    ASSUME Types, Types', Shape, Shape', RunInv, OneDone, InStep, Stream, Due, [Next]_vars,
           ~CancelCall, \A t \in Sess : ~BackgroundCall(t)
    PROVE  Due'
<1> USE Constants
<1>1. /\ HostTypes /\ ResultTypes /\ HostShape /\ FreshShape
      /\ HostTypes' /\ ResultTypes' /\ HostShape' /\ (cur # 0 => cur \in Sess)
  BY DEF Types, Shape, HostTypes, Sess
<1>2. CASE StageInputs \/ SendRun \/ ConnectionLost \/ SettleNotRun \/ Reconnect \/ NextBlock
  <2>1. /\ UNCHANGED <<got, tarOf, outcome>> /\ host' \notin {"waiting", "waitingTar"}
        /\ res' \notin {"result", "error"}
    BY <1>1, <1>2 DEF StageInputs, SendRun, ConnectionLost, EndBlock, SettleNotRun, Reconnect, NextBlock,
                BeginAttempt, HostShape
  <2> QED BY <2>1 DEF Due, NeverDesyncs
<1>3. CASE Settle \/ SettleFailed \/ GraceOver \/ ReconnectFails
  <2>1. /\ UNCHANGED <<got, tarOf>> /\ host' = "idle" /\ res' = "none"
        /\ \E o \in Outcomes : /\ outcome' = [outcome EXCEPT ![blk] = o]
                               /\ o # "error"
                               /\ o \in {"ok", "stopped"} => res = "result"
    BY <1>1, <1>3 DEF Settle, SettleFailed, GraceOver, ReconnectFails, Report, Due, Outcomes
  <2>2. \A b \in Blocks : \/ outcome'[b] = outcome[b]
                          \/ /\ b = blk /\ outcome'[b] # "error"
                             /\ outcome'[b] \in {"ok", "stopped"} => res = "result"
    BY <1>1, <2>1 DEF ResultTypes
  <2>3. NeverDesyncs' BY <2>1, <2>2 DEF Due, NeverDesyncs
  <2>4. \A b \in Blocks : outcome'[b] # "error" BY <2>2 DEF Due
  <2> QED BY <2>1, <2>3, <2>4 DEF Due
<1>4. ASSUME cur \in Sess, NEW m, LoopFrame(m) PROVE Due'
  <2>1. /\ UNCHANGED <<cur, blk, got, tarOf, outcome, res, link, box, now>>
        /\ HostRecv(m) /\ host = "looping" /\ res = "none" /\ host' # "waitingTar"
    BY <1>1, <1>4 DEF LoopFrame, codeVars, HostShape
  <2>2. host' = "waiting" => NextIs(cur, "output", blk)'
    <3> SUFFICES ASSUME host' = "waiting" PROVE NextIs(cur, "output", blk)'
      OBVIOUS
    <3>1. m.kind \in DoneKinds BY <1>4, <2>1 DEF LoopFrame, DoneKinds
    <3>2. OwnOnly(cur) BY <1>4, <2>1 DEF InStep, UnderWay, Sess
    <3>3. m = down[cur][1] /\ 1 \in DOMAIN down[cur]
      BY <1>4, <2>1, HostReceives DEF Types
    <3>4. m.blk = blk BY <3>1, <3>2, <3>3 DEF OwnOnly
    <3> QED BY <1>4, <2>1, <3>1, <3>4, NextFollows
  <2> QED BY <2>1, <2>2 DEF Due, NeverDesyncs
<1>5. ASSUME cur \in Sess, NEW m, WaitOutput(m) PROVE Due'
  <2>1. /\ UNCHANGED <<cur, blk, tarOf, outcome, link, box, now>>
        /\ HostRecv(m) /\ host = "waiting" /\ blk \in Blocks
    BY <1>1, <1>5 DEF WaitOutput, EndBlock, codeVars, HostShape
  <2>2. m.kind = "output" /\ m.blk = blk
    <3>1. down[cur] \in Seq(DownMsgs) /\ down[cur] # <<>> /\ m = Head(down[cur])
      BY <1>5, <2>1 DEF Types, QueueTypes, HostRecv
    <3>2. m = down[cur][1] BY <3>1
    <3> QED BY <2>1, <3>1, <3>2 DEF Due, NextIs
  <2>3. /\ got' = [got EXCEPT ![blk] = blk] /\ host' = "waitingTar" /\ res' = res /\ res = "none"
    BY <1>1, <1>5, <2>1, <2>2 DEF WaitOutput, HostShape
  <2>4. NextIs(cur, "tar", blk)'
    BY <1>5, <2>1, <2>2, NextFollows
  <2>5. NeverDesyncs'
    <3>1. outcome[blk] = "none" BY <2>1 DEF RunInv, Reported
    <3> QED BY <1>1, <2>1, <2>3, <3>1 DEF Due, NeverDesyncs, ResultTypes
  <2> QED BY <1>1, <2>1, <2>3, <2>4, <2>5 DEF Due, ResultTypes
<1>6. ASSUME cur \in Sess, NEW m, WaitTar(m) PROVE Due'
  <2>1. /\ UNCHANGED <<cur, blk, got, outcome>>
        /\ HostRecv(m) /\ host = "waitingTar" /\ blk \in Blocks
        /\ host' = "ended" /\ res' = "result"
    BY <1>1, <1>6 DEF WaitTar, EndBlock, HostShape
  <2>2. m.kind = "tar" /\ m.blk = blk /\ got[blk] = blk
    <3>1. down[cur] \in Seq(DownMsgs) /\ down[cur] # <<>> /\ m = Head(down[cur])
      BY <1>6, <2>1 DEF Types, QueueTypes, HostRecv
    <3>2. m = down[cur][1] BY <3>1
    <3> QED BY <2>1, <3>1, <3>2 DEF Due, NextIs
  <2>3. tarOf' = [tarOf EXCEPT ![blk] = blk]
    BY <1>6, <2>2 DEF WaitTar
  <2>4. NeverDesyncs'
    <3>1. outcome[blk] = "none" BY <2>1 DEF RunInv, Reported
    <3> QED BY <1>1, <2>1, <2>3, <3>1 DEF Due, NeverDesyncs, ResultTypes
  <2> QED BY <1>1, <2>1, <2>2, <2>3, <2>4 DEF Due, ResultTypes
<1>7. CASE UNCHANGED <<host, cur, blk, res, got, tarOf, outcome>>
  <2>1. ASSUME host \in {"waiting", "waitingTar"}
        PROVE  cur \in Sess /\ cur <= used /\ ~Took(cur)
    <3>1. cur \in Sess /\ cur <= used
      BY <1>1, <2>1 DEF HostShape, FreshShape
    <3>2. ASSUME NEW m, LoopFrame(m) \/ WaitOutput(m) \/ WaitTar(m) PROVE FALSE
      BY <1>7, <2>1, <3>2 DEF LoopFrame, WaitOutput, WaitTar, EndBlock
    <3> QED BY <3>1, <3>2 DEF Took
  <2>2. host' = "waiting" => NextIs(cur, "output", blk)'
    BY <1>7, <2>1, NextStays DEF Due
  <2>3. host' = "waitingTar" => NextIs(cur, "tar", blk)'
    BY <1>7, <2>1, NextStays DEF Due
  <2> QED BY <1>7, <2>2, <2>3 DEF Due, NeverDesyncs
<1>8. ASSUME NEW id \in pending, ReplyStopped(id) \/ ReplyValue(id) PROVE Due'
  BY <1>7, <1>8 DEF ReplyStopped, ReplyValue
<1>9. CASE Interrupt \/ TimeOut
  BY <1>7, <1>9 DEF Interrupt, TimeOut
<1>10. CASE UNCHANGED hostVars
  BY <1>7, <1>10 DEF hostVars
<1>11. CASE UNCHANGED vars
  BY <1>10, <1>11 DEF vars
<1> QED BY <1>2, <1>3, <1>4, <1>5, <1>6, <1>8, <1>9, <1>10, <1>11, Steps
        DEF Drop, Boot, CodeEnter, SendDone, SendOutput, SendTar, BoxExit, Gone, AwaitTar, AwaitRun,
            AwaitRunFails, Pump, CodeCall, CodeEnd, CodeStopped, FinishCode, CodeCatches, Spawn,
            BackgroundCall

\* Until a left-behind thread has called a tool none has.
LEMMA IntrudedStays ==
    ASSUME Types, [Next]_vars, NoneIntruded'
    PROVE  NoneIntruded /\ \A t \in Sess : ~BackgroundCall(t)
<1>1. BoxTypes BY DEF Types
<1>2. \A t \in Sess : ~BackgroundCall(t)
  BY <1>1 DEF BackgroundCall, NoneIntruded, BoxTypes
<1>3. UNCHANGED bg => NoneIntruded
  BY DEF NoneIntruded
<1>4. ASSUME NEW t \in Sess, Spawn(t) PROVE NoneIntruded
  BY <1>1, <1>4 DEF Spawn, NoneIntruded, BoxTypes
<1>5. ASSUME NEW t \in Sess, BoxExit(t) \/ \E m \in Heads(up[t]) : AwaitRunFails(t, m)
      PROVE  NoneIntruded
  BY <1>1, <1>5 DEF BoxExit, AwaitRunFails, Gone, NoneIntruded, BoxTypes
<1>6. UNCHANGED bg \/ \E t \in Sess : \/ Spawn(t) \/ BackgroundCall(t) \/ BoxExit(t)
                                      \/ \E m \in Heads(up[t]) : AwaitRunFails(t, m)
  <2>1. CASE StageInputs \/ SendRun \/ ConnectionLost \/ Interrupt \/ TimeOut \/ NextBlock
               \/ SettleNotRun \/ Reconnect
    BY <2>1 DEF StageInputs, SendRun, ConnectionLost, EndBlock, Interrupt, TimeOut, NextBlock,
                SettleNotRun, Reconnect, codeVars
  <2>2. CASE Settle \/ SettleFailed \/ GraceOver \/ ReconnectFails \/ CancelCall
    BY <2>2 DEF Settle, SettleFailed, GraceOver, ReconnectFails, CancelCall, Report, codeVars
  <2>3. CASE \E id \in pending : ReplyStopped(id) \/ ReplyValue(id)
    BY <2>3 DEF ReplyStopped, ReplyValue, codeVars
  <2>4. CASE \E m : LoopFrame(m) \/ WaitOutput(m) \/ WaitTar(m)
    BY <2>4 DEF LoopFrame, WaitOutput, WaitTar, EndBlock, codeVars
  <2>5. CASE UNCHANGED vars
    BY <2>5 DEF vars, codeVars
  <2> QED BY <2>1, <2>2, <2>3, <2>4, <2>5, Steps
          DEF Drop, Boot, CodeEnter, SendDone, SendOutput, SendTar, AwaitTar, AwaitRun, Pump,
              CodeCall, CodeEnd, CodeStopped, FinishCode, CodeCatches, codeVars
<1> QED BY <1>2, <1>3, <1>4, <1>5, <1>6

\* OwnInv is inductive.
LEMMA OwnInductive == Spec => []OwnInv
<1>1. Init => OwnInv
  BY DEF Init, OwnInv, Stream, Chained, Latest, Due, NeverDesyncs
<1>2. /\ Types /\ Types' /\ Shape /\ Shape' /\ RunInv /\ TruthInv /\ OwnInv /\ [Next]_vars
      => OwnInv'
  <2> SUFFICES ASSUME Types, Types', Shape, Shape', RunInv, TruthInv, OwnInv, [Next]_vars,
                      NoneIntruded'
               PROVE  Stream' /\ (NoneCancelled' => Due')
    BY DEF OwnInv
  <2>1. NoneIntruded /\ Stream /\ \A t \in Sess : ~BackgroundCall(t)
    BY IntrudedStays DEF OwnInv
  <2>2. Stream' BY <2>1, StreamStays
  <2>3. ASSUME NoneCancelled' PROVE Due'
    <3>1. NoneCancelled /\ ~CancelCall BY <2>3, CancelledStays DEF RunInv
    <3> QED BY <2>1, <3>1, DueStays DEF OwnInv, TruthInv
  <2> QED BY <2>2, <2>3
<1> QED BY <1>1, <1>2, TypesInductive, ShapeInductive, RunInductive, TruthInductive, PTL DEF Spec

\* A result has the output and the workspace of its own block (wait, remote.py 192-219), unless a
\* call was cancelled or a left-behind thread called a tool.
THEOREM OwnResults == Spec => []OwnOutput
<1>1. OwnInv => OwnOutput BY DEF OwnInv, Due, OwnOutput
<1> QED BY <1>1, OwnInductive, PTL

\* Nor does wait() then find another frame than the one it expects.
THEOREM NoFrameOutOfPlace == Spec => []NoProtocolError
<1>1. OwnInv => NoProtocolError BY DEF OwnInv, Due, NoProtocolError
<1> QED BY <1>1, OwnInductive, PTL
-----------------------------------------------------------------------------
(* The tool calls of a block: what its code waits for, and what wakes it.  *)

\* What moves the thread running user code in one sandbox.
LEMMA CodeSteps ==
    ASSUME Types, Shape, [Next]_vars, NEW s \in Sess, code'[s] # "none"
    PROVE  \/ CodeCall(s) \/ CodeEnter(s) \/ CodeEnd(s) \/ CodeStopped(s) \/ CodeCatches(s)
           \/ \E m \in Heads(up[s]) : AwaitRun(s, m) \/ Pump(s, m)
           \/ /\ code'[s] = code[s] /\ now'[s] = now[s] /\ ncalls'[s] = ncalls[s]
              /\ woke'[s] = woke[s] /\ stop'[s] = stop[s]
<1> DEFINE Still == /\ code'[s] = code[s] /\ now'[s] = now[s] /\ ncalls'[s] = ncalls[s]
                    /\ woke'[s] = woke[s] /\ stop'[s] = stop[s]
<1>1. BoxTypes /\ BoxShape BY DEF Types, Shape
<1>2. CASE UNCHANGED codeVars
  BY <1>2 DEF codeVars
<1>3. CASE StageInputs \/ SendRun \/ ConnectionLost \/ Interrupt \/ TimeOut \/ NextBlock
             \/ SettleNotRun \/ Reconnect
  BY <1>2, <1>3 DEF StageInputs, SendRun, ConnectionLost, EndBlock, Interrupt, TimeOut, NextBlock,
                    SettleNotRun, Reconnect
<1>4. CASE Settle \/ SettleFailed \/ GraceOver \/ ReconnectFails \/ CancelCall
  BY <1>2, <1>4 DEF Settle, SettleFailed, GraceOver, ReconnectFails, CancelCall, Report
<1>5. ASSUME NEW id \in pending, ReplyStopped(id) \/ ReplyValue(id) PROVE Still
  BY <1>5 DEF ReplyStopped, ReplyValue, codeVars
<1>6. ASSUME NEW m, LoopFrame(m) \/ WaitOutput(m) \/ WaitTar(m) PROVE Still
  BY <1>6 DEF LoopFrame, WaitOutput, WaitTar, EndBlock, codeVars
<1>7. ASSUME NEW t \in Sess, t # s,
             \/ CodeEnter(t) \/ SendDone(t) \/ SendTar(t) \/ BoxExit(t)
             \/ \E m \in Heads(up[t]) : AwaitRun(t, m) \/ AwaitRunFails(t, m) \/ Pump(t, m)
             \/ CodeCall(t) \/ CodeEnd(t) \/ CodeStopped(t) \/ CodeCatches(t)
      PROVE  Still
  BY <1>1, <1>7
     DEF BoxTypes, codeVars, CodeEnter, SendDone, SendTar, BoxExit, Gone, AwaitRun, AwaitRunFails,
         Pump, CodeCall, CodeEnd, CodeStopped, FinishCode, CodeCatches
<1>8. ASSUME NEW t \in Sess,
             \/ Boot(t) \/ SendOutput(t) \/ (\E m \in Heads(up[t]) : AwaitTar(t, m))
             \/ Spawn(t) \/ BackgroundCall(t)
             \/ \E i \in 0 .. Len(up[t]), j \in 0 .. Len(down[t]) : Drop(t, i, j)
      PROVE  Still
  BY <1>8 DEF codeVars, Boot, SendOutput, AwaitTar, Spawn, BackgroundCall, Drop
<1>9. SendDone(s) \/ SendTar(s) => FALSE
  BY <1>1 DEF SendDone, SendTar, BoxTypes, BoxShape
<1>10. BoxExit(s) \/ (\E m \in Heads(up[s]) : AwaitRunFails(s, m)) => FALSE
  BY <1>1 DEF BoxExit, AwaitRunFails, Gone, BoxTypes
<1>11. CASE UNCHANGED vars
  BY <1>2, <1>11 DEF vars
<1> QED BY <1>3, <1>4, <1>5, <1>6, <1>7, <1>8, <1>9, <1>10, <1>11, Steps

\* What a step does to the frames to one sandbox.
UpTook(s) ==
    \E m \in Heads(up[s]) :
        BoxRecv(s, m) /\ (AwaitTar(s, m) \/ AwaitRun(s, m) \/ Pump(s, m))
UpCut(s) == link'[s] = "down" /\ \E i \in 0 .. Len(up[s]) : up'[s] = SubSeq(up[s], 1, i)
UpSent(s, m) == s = cur /\ link[s] = "up" /\ up'[s] = Append(up[s], m)

\* The frame that the host sends in this step.
Sends(m) ==
    \/ StageInputs /\ m = Msg("tar", blk, 0)
    \/ SendRun /\ m = Msg("run", blk, 0)
    \/ Interrupt /\ m = Msg("interrupt", blk, 0)
    \/ \E id \in pending : \/ ReplyStopped(id) /\ m = Msg("stop", id[1], id[2])
                           \/ ReplyValue(id) /\ m = Msg("value", id[1], id[2])

\* What a step does to the frames to one sandbox: nothing, it takes one, the connection breaks, or
\* the host sends.
LEMMA UpSteps ==
    ASSUME Types, Shape, [Next]_vars, NEW s \in Sess
    PROVE  \/ up'[s] = up[s] \/ UpTook(s) \/ UpCut(s)
           \/ \E m \in UpMsgs : Sends(m) /\ UpSent(s, m)
<1> USE Constants
<1>1. /\ QueueTypes /\ HostTypes /\ ResultTypes /\ BoxTypes /\ HostShape
      /\ (cur # 0 => cur \in Sess) /\ 0 \in 0 .. NBlocks /\ 0 \in 0 .. scene.calls
  BY DEF Types, Shape, HostTypes, Sess
<1>2. ASSUME NEW m, Sends(m) PROVE m \in UpMsgs /\ HostSend(m)
  <2>1. \A k \in UpKinds, b \in 0 .. NBlocks, n \in 0 .. scene.calls : Msg(k, b, n) \in UpMsgs
    BY DEF Msg, UpMsgs
  <2>2. \A id \in pending : id[1] \in 0 .. NBlocks /\ id[2] \in 0 .. scene.calls
    BY <1>1 DEF ResultTypes, Ids
  <2>3. m \in UpMsgs
    <3>1. {"tar", "run", "interrupt", "stop", "value"} \subseteq UpKinds BY DEF UpKinds
    <3> QED BY <1>1, <1>2, <2>1, <2>2, <3>1 DEF Sends, HostTypes
  <2>4. HostSend(m)
    BY <1>2 DEF Sends, StageInputs, SendRun, Interrupt, ReplyStopped, ReplyValue
  <2> QED BY <2>3, <2>4
<1>3. ASSUME NEW m, Sends(m)
      PROVE  up'[s] = up[s] \/ (m \in UpMsgs /\ UpSent(s, m))
  BY <1>1, <1>2, <1>3 DEF HostSend, UpSent, QueueTypes
<1>4. CASE \/ StageInputs \/ SendRun \/ Interrupt
           \/ \E id \in pending : ReplyStopped(id) \/ ReplyValue(id)
  <2>1. \E m : Sends(m) BY <1>4 DEF Sends
  <2> QED BY <1>3, <2>1
<1>5. CASE ConnectionLost \/ TimeOut \/ NextBlock \/ SettleNotRun \/ Reconnect
  BY <1>5 DEF ConnectionLost, EndBlock, TimeOut, NextBlock, SettleNotRun, Reconnect
<1>6. CASE Settle \/ SettleFailed \/ GraceOver \/ ReconnectFails \/ CancelCall
  BY <1>6 DEF Settle, SettleFailed, GraceOver, ReconnectFails, CancelCall, Report
<1>7. ASSUME NEW m, LoopFrame(m) \/ WaitOutput(m) \/ WaitTar(m) PROVE up'[s] = up[s]
  BY <1>7 DEF LoopFrame, WaitOutput, WaitTar, EndBlock
<1>8. ASSUME NEW t \in Sess, NEW m \in Heads(up[t]), AwaitTar(t, m) \/ AwaitRun(t, m) \/ Pump(t, m)
      PROVE  up'[s] = up[s] \/ UpTook(s)
  <2>1. BoxRecv(t, m) BY <1>8 DEF AwaitTar, AwaitRun, Pump
  <2>2. t # s => up'[s] = up[s] BY <1>1, <2>1 DEF BoxRecv, QueueTypes
  <2> QED BY <1>8, <2>1, <2>2 DEF UpTook
<1>9. ASSUME NEW t \in Sess, BoxExit(t) \/ \E m \in Heads(up[t]) : AwaitRunFails(t, m)
      PROVE  up'[s] = up[s] \/ UpCut(s)
  <2>1. up' = [up EXCEPT ![t] = <<>>] /\ link' = [link EXCEPT ![t] = "down"]
    BY <1>9 DEF BoxExit, AwaitRunFails, Gone
  <2>2. up[s] \in Seq(UpMsgs) BY <1>1 DEF QueueTypes
  <2>3. <<>> = SubSeq(up[s], 1, 0) /\ 0 \in 0 .. Len(up[s]) BY <2>2
  <2> QED BY <1>1, <2>1, <2>3 DEF UpCut, QueueTypes, BoxTypes
<1>10. ASSUME NEW t \in Sess, NEW i \in 0 .. Len(up[t]), NEW j \in 0 .. Len(down[t]), Drop(t, i, j)
       PROVE  up'[s] = up[s] \/ UpCut(s)
  BY <1>1, <1>10 DEF Drop, UpCut, QueueTypes, BoxTypes
<1>11. CASE UNCHANGED up
  BY <1>11
<1>12. CASE UNCHANGED vars
  BY <1>12 DEF vars
<1> QED BY <1>4, <1>5, <1>6, <1>7, <1>8, <1>9, <1>10, <1>11, <1>12, Steps
        DEF Boot, CodeEnter, SendDone, SendOutput, SendTar, CodeCall, CodeEnd, CodeStopped,
            FinishCode, CodeCatches, Spawn, BackgroundCall

\* A connection that is up after a step, and is the turn's, was so before, unless it is new.
LEMMA LinkSteps ==
    ASSUME Types, Shape, [Next]_vars, NEW s \in Sess, s <= used, s = cur', link'[s] = "up"
    PROVE  s = cur /\ link[s] = "up"
<1> USE Constants
<1>1. HostTypes /\ BoxTypes /\ s # 0 /\ s \in Nat /\ used \in Nat
  BY DEF Types, HostTypes, Sess
<1>2. CASE UNCHANGED <<cur, link>>
  BY <1>2
<1>3. CASE StageInputs \/ SendRun \/ ConnectionLost \/ Interrupt \/ TimeOut \/ ReconnectFails
             \/ CancelCall
  BY <1>2, <1>3 DEF StageInputs, SendRun, ConnectionLost, EndBlock, Interrupt, TimeOut,
                    ReconnectFails, CancelCall
<1>4. CASE NextBlock \/ Reconnect
  <2>1. StartSession => cur' = used + 1 BY DEF StartSession
  <2> QED BY <1>1, <1>2, <1>4, <2>1 DEF NextBlock, Reconnect
<1>5. CASE Settle \/ SettleFailed \/ SettleNotRun \/ GraceOver
  BY <1>1, <1>2, <1>5 DEF Settle, SettleFailed, SettleNotRun, GraceOver, Discard
<1>6. CASE \E id \in pending : ReplyStopped(id) \/ ReplyValue(id)
  BY <1>6 DEF ReplyStopped, ReplyValue
<1>7. CASE \E m : LoopFrame(m) \/ WaitOutput(m) \/ WaitTar(m)
  BY <1>7 DEF LoopFrame, WaitOutput, WaitTar, EndBlock
<1>8. ASSUME NEW t \in Sess,
             \/ BoxExit(t) \/ (\E m \in Heads(up[t]) : AwaitRunFails(t, m))
             \/ \E i \in 0 .. Len(up[t]), j \in 0 .. Len(down[t]) : Drop(t, i, j)
      PROVE  s = cur /\ link[s] = "up"
  <2>1. cur' = cur /\ link' = [link EXCEPT ![t] = "down"]
    BY <1>8 DEF BoxExit, AwaitRunFails, Gone, Drop, hostVars
  <2> QED BY <1>1, <2>1 DEF BoxTypes
<1>9. CASE UNCHANGED vars
  BY <1>2, <1>9 DEF vars, hostVars
<1> QED BY <1>2, <1>3, <1>4, <1>5, <1>6, <1>7, <1>8, <1>9, Steps
        DEF Boot, CodeEnter, SendDone, SendOutput, SendTar, AwaitTar, AwaitRun, Pump, CodeCall,
            CodeEnd, CodeStopped, FinishCode, CodeCatches, Spawn, BackgroundCall, hostVars

\* Frames of a kind appear only where the host sends them.
LEMMA UpKept ==
    ASSUME Types, Types', Shape, [Next]_vars, NEW s \in Sess, NEW i \in DOMAIN up'[s]
    PROVE  \/ \E d \in {0, 1} : i + d \in DOMAIN up[s] /\ up'[s][i] = up[s][i + d]
           \/ Sends(up'[s][i]) /\ s = cur
<1>1. QueueTypes /\ up[s] \in Seq(UpMsgs) /\ i \in Nat
  BY DEF Types, QueueTypes
<1>2. CASE up'[s] = up[s]
  BY <1>1, <1>2
<1>3. CASE UpTook(s)
  BY <1>1, <1>3, BoxReceives DEF UpTook
<1>4. CASE UpCut(s)
  BY <1>1, <1>4 DEF UpCut
<1>5. ASSUME NEW m \in UpMsgs, Sends(m), UpSent(s, m)
      PROVE  \/ i + 0 \in DOMAIN up[s] /\ up'[s][i] = up[s][i + 0]
             \/ up'[s][i] = m /\ s = cur
  BY <1>1, <1>5 DEF UpSent
<1> QED BY <1>2, <1>3, <1>4, <1>5, UpSteps

\* A call is named by its block and number; those of left-behind threads by 0 and 0.
CallId(m) == <<m.blk, m.n>>
Current(s) == <<now[s], ncalls[s]>>
Replies == {"value", "stop"}

\* A call with this id was made, by the code of a block (0: by a left-behind thread).
Made(id) ==
    id[1] # 0 =>
        /\ id[2] > 0 /\ id[1] \in Blocks /\ exec[id[1]] # "no"
        /\ \A s \in Sess : now[s] = id[1] /\ code[s] # "none" => id[2] <= ncalls[s]

CallsMade ==
    /\ \A id \in pending \cup stopWaits : Made(id)
    /\ \A s \in Sess : \A i \in DOMAIN down[s] :
           down[s][i].kind = "call" => Made(CallId(down[s][i]))
    /\ \A s \in Sess : \A i \in DOMAIN up[s] :
           up[s][i].kind \in Replies => Made(CallId(up[s][i]))

\* The call is on its way to the host or being dispatched.
Unanswered(id) ==
    \/ id \in pending
    \/ \E s \in Sess : \E i \in DOMAIN down[s] : down[s][i].kind = "call" /\ CallId(down[s][i]) = id

\* A call of a block is in one place.
OneCall ==
    /\ \A s \in Sess : \A i \in DOMAIN down[s] :
           down[s][i].kind = "call" /\ down[s][i].blk # 0 =>
               /\ CallId(down[s][i]) \notin pending \cup stopWaits
               /\ \A t \in Sess : \A j \in DOMAIN down[t] :
                      down[t][j].kind = "call" /\ CallId(down[t][j]) = CallId(down[s][i])
                      => s = t /\ i = j
    /\ \A s \in Sess : \A i \in DOMAIN up[s] :
           up[s][i].kind \in Replies /\ up[s][i].blk # 0 => ~Unanswered(CallId(up[s][i]))
    /\ \A s \in Sess : code[s] = "running" => ~Unanswered(Current(s))

\* Calls that were made stay made.
LEMMA MadeStays ==
    ASSUME Types, Types', Shape, RunInv, [Next]_vars, NEW id \in Ids, Made(id)
    PROVE  Made(id)'
<1> SUFFICES ASSUME id[1] # 0 PROVE Made(id)'
  BY DEF Made
<1>1. BoxTypes /\ QueueTypes /\ id[2] \in Nat BY Constants DEF Types, HostTypes, Ids
<1>2. id[1] \in Blocks /\ exec'[id[1]] # "no" /\ id[2] > 0
  BY <1>1, ExecSteps DEF Made, Contract!Start, Contract!Finish, BoxTypes
<1>3. ASSUME NEW s \in Sess, now'[s] = id[1], code'[s] # "none" PROVE id[2] <= ncalls'[s]
  <2>1. ASSUME NEW m \in Heads(up[s]), AwaitRun(s, m) PROVE FALSE
    <3>1. BoxRecv(s, m) /\ m.kind = "run" /\ now'[s] = m.blk
      BY <1>1, <2>1 DEF AwaitRun, BoxTypes
    <3>2. 1 \in DOMAIN up[s] /\ m = up[s][1] BY <1>1, <3>1, BoxReceives
    <3> QED BY <1>3, <3>1, <3>2 DEF RunInv, Runs, Made
  <2>2. /\ now'[s] = now[s] /\ code[s] # "none"
        /\ ncalls'[s] = ncalls[s] \/ (ncalls'[s] = ncalls[s] + 1 /\ ncalls[s] \in Nat)
    BY <1>1, <1>3, <2>1, CodeSteps
       DEF CodeCall, CodeEnter, CodeEnd, CodeStopped, FinishCode, CodeCatches, Pump, BoxTypes
  <2>3. id[2] <= ncalls[s] BY <1>3, <2>2 DEF Made
  <2>4. CASE ncalls'[s] = ncalls[s] BY <2>3, <2>4
  <2>5. CASE ncalls'[s] = ncalls[s] + 1 /\ ncalls[s] \in Nat
    BY <1>1, <2>3, <2>5
  <2> QED BY <2>2, <2>4, <2>5
<1> QED BY <1>2, <1>3 DEF Made

\* What becomes of the ids.
LEMMA CallsPending ==
    ASSUME Types, [Next]_vars
    PROVE  /\ \A id \in stopWaits' : id \in stopWaits \/ (Interrupt /\ id \in pending)
           /\ \A id \in pending' : \/ id \in pending
                                   \/ \E m : /\ cur \in Sess /\ LoopFrame(m) /\ m.kind = "call"
                                             /\ id = CallId(m)
<1>1. CASE Interrupt
  BY <1>1 DEF Interrupt
<1>2. CASE UNCHANGED <<stopWaits, pending>>
  BY <1>2
<1>3. CASE stopWaits' = stopWaits /\ pending' = {}
  BY <1>3
<1>4. CASE StageInputs \/ SendRun \/ ConnectionLost \/ TimeOut \/ NextBlock \/ SettleNotRun
             \/ Reconnect
  BY <1>2, <1>3, <1>4 DEF StageInputs, SendRun, ConnectionLost, EndBlock, TimeOut, NextBlock,
                          SettleNotRun, Reconnect
<1>5. CASE Settle \/ SettleFailed \/ GraceOver \/ ReconnectFails \/ CancelCall
  BY <1>3, <1>5 DEF Settle, SettleFailed, GraceOver, ReconnectFails, CancelCall, Report
<1>6. CASE \E id \in pending : ReplyStopped(id) \/ ReplyValue(id)
  BY <1>6 DEF ReplyStopped, ReplyValue
<1>7. ASSUME cur \in Sess, NEW m, LoopFrame(m)
      PROVE  /\ stopWaits' = stopWaits
             /\ pending' \in {pending, {}} \/ (m.kind = "call" /\ pending' = pending \cup {CallId(m)})
  BY <1>7 DEF LoopFrame, CallId
<1>8. CASE \E m : WaitOutput(m) \/ WaitTar(m)
  BY <1>2, <1>3, <1>8 DEF WaitOutput, WaitTar, EndBlock
<1>9. CASE UNCHANGED hostVars
  BY <1>2, <1>9 DEF hostVars
<1>10. CASE UNCHANGED vars
  BY <1>9, <1>10 DEF vars
<1> QED BY <1>1, <1>4, <1>5, <1>6, <1>7, <1>8, <1>9, <1>10, Steps
        DEF Drop, Boot, CodeEnter, SendDone, SendOutput, SendTar, BoxExit, Gone, AwaitTar, AwaitRun,
            AwaitRunFails, Pump, CodeCall, CodeEnd, CodeStopped, FinishCode, CodeCatches, Spawn,
            BackgroundCall

\* A frame of a call is new only when a sandbox has just sent it.
LEMMA CallFrames ==
    ASSUME Types, Types', Shape, [Next]_vars
    PROVE  \/ Kept(down, down', {"call"})
           \/ \E s \in Sess : \E id \in Ids :
                  /\ (CodeCall(s) /\ id = <<now[s], ncalls[s] + 1>>) \/ (BackgroundCall(s) /\ id = <<0, 0>>)
                  /\ \A t \in Sess : \A i \in DOMAIN down'[t] :
                         \/ i \in DOMAIN down[t] /\ down'[t][i] = down[t][i]
                         \/ t = s /\ i = Len(down[s]) + 1 /\ CallId(down'[t][i]) = id
<1> USE Constants
<1>1. QueueTypes /\ HostTypes /\ BoxTypes BY DEF Types
<1>2. ASSUME NEW s \in Sess, NEW id \in Ids, BoxSend(s, Msg("call", id[1], id[2]))
      PROVE  \A t \in Sess : \A i \in DOMAIN down'[t] :
                 \/ i \in DOMAIN down[t] /\ down'[t][i] = down[t][i]
                 \/ t = s /\ i = Len(down[s]) + 1 /\ CallId(down'[t][i]) = id
  <2>1. /\ Msg("call", id[1], id[2]) \in DownMsgs
        /\ CallId(Msg("call", id[1], id[2])) = id
    BY DEF Ids, Msg, DownMsgs, DownKinds, CallId
  <2> QED BY <1>1, <1>2, <2>1, BoxSends
<1>3. ASSUME NEW s \in Sess, CodeCall(s)
      PROVE  <<now[s], ncalls[s] + 1>> \in Ids /\ BoxSend(s, Msg("call", now[s], ncalls[s] + 1))
  BY <1>1, <1>3 DEF CodeCall, BoxTypes, HostTypes, Ids
<1>4. ASSUME NEW s \in Sess, BackgroundCall(s)
      PROVE  <<0, 0>> \in Ids /\ BoxSend(s, Msg("call", 0, 0))
  BY <1>1, <1>4 DEF BackgroundCall, HostTypes, Ids
<1>5. CASE \A s \in Sess : ~CodeCall(s) /\ ~BackgroundCall(s)
  BY <1>5, DownKept
<1>6. ASSUME NEW s \in Sess, CodeCall(s) \/ BackgroundCall(s)
      PROVE  \E id \in Ids :
                  /\ (CodeCall(s) /\ id = <<now[s], ncalls[s] + 1>>) \/ (BackgroundCall(s) /\ id = <<0, 0>>)
                  /\ BoxSend(s, Msg("call", id[1], id[2]))
  BY <1>3, <1>4, <1>6
<1> QED BY <1>2, <1>5, <1>6

\* Ids are ids.
LEMMA CallIds ==
    ASSUME Types
    PROVE  /\ pending \cup stopWaits \subseteq Ids
           /\ \A s \in Sess : \A i \in DOMAIN down[s] : i \in Nat /\ CallId(down[s][i]) \in Ids
           /\ \A s \in Sess : \A i \in DOMAIN up[s] : i \in Nat /\ CallId(up[s][i]) \in Ids
           /\ \A id \in Ids : id = <<id[1], id[2]>>
<1>1. QueueTypes /\ ResultTypes BY DEF Types
<1>2. ASSUME NEW s \in Sess, NEW i \in DOMAIN down[s] PROVE i \in Nat /\ CallId(down[s][i]) \in Ids
  <2>1. down[s] \in Seq(DownMsgs) BY <1>1 DEF QueueTypes
  <2>2. i \in Nat /\ down[s][i] \in DownMsgs BY <2>1
  <2> QED BY <2>2 DEF DownMsgs, CallId, Ids
<1>3. ASSUME NEW s \in Sess, NEW i \in DOMAIN up[s] PROVE i \in Nat /\ CallId(up[s][i]) \in Ids
  <2>1. up[s] \in Seq(UpMsgs) BY <1>1 DEF QueueTypes
  <2>2. i \in Nat /\ up[s][i] \in UpMsgs BY <2>1
  <2> QED BY <2>2 DEF UpMsgs, CallId, Ids
<1> QED BY <1>1, <1>2, <1>3 DEF ResultTypes, Ids

\* A reply in flight is old, or answers a pending call in this step.
LEMMA ReplyFrames ==
    ASSUME Types, Types', Shape, [Next]_vars, NEW s \in Sess, NEW i \in DOMAIN up'[s],
           up'[s][i].kind \in Replies
    PROVE  \/ \E d \in {0, 1} : i + d \in DOMAIN up[s] /\ up'[s][i] = up[s][i + d]
           \/ /\ s = cur /\ CallId(up'[s][i]) \in pending
              /\ pending' = pending \ {CallId(up'[s][i])}
              /\ UNCHANGED <<stopWaits, down, codeVars, cur, link>>
              /\ up'[s][i].kind = "stop" => ReplyStopped(CallId(up'[s][i]))
<1>1. ASSUME Sends(up'[s][i])
      PROVE  /\ CallId(up'[s][i]) \in pending
             /\ pending' = pending \ {CallId(up'[s][i])}
             /\ UNCHANGED <<stopWaits, down, codeVars, cur, link>>
             /\ up'[s][i].kind = "stop" => ReplyStopped(CallId(up'[s][i]))
  <2>1. PICK id \in pending :
            \/ ReplyStopped(id) /\ up'[s][i] = Msg("stop", id[1], id[2])
            \/ ReplyValue(id) /\ up'[s][i] = Msg("value", id[1], id[2])
    <3>1. \A k, b, n : Msg(k, b, n).kind = k BY DEF Msg
    <3>2. up'[s][i].kind \in {"stop", "value"} BY DEF Replies
    <3> QED BY <1>1, <3>1, <3>2 DEF Sends
  <2>2. CallId(up'[s][i]) = id
    BY <2>1, CallIds DEF CallId, Msg
  <2>3. up'[s][i].kind = "stop" => ReplyStopped(id)
    BY <2>1 DEF Msg
  <2> QED BY <2>1, <2>2, <2>3 DEF ReplyStopped, ReplyValue
<1> QED BY <1>1, UpKept

\* What is in flight, pending or stopped is a call that code has made.
LEMMA CallsMadeStays ==
    ASSUME Types, Types', Shape, RunInv, CallsMade, [Next]_vars
    PROVE  CallsMade'
<1> USE Constants
<1>1. QueueTypes /\ BoxTypes BY DEF Types
<1>2. ASSUME NEW id \in pending' \cup stopWaits' PROVE Made(id)'
  <2>1. CASE id \in pending \cup stopWaits
    BY <2>1, MadeStays, CallIds DEF CallsMade
  <2>2. ASSUME cur \in Sess, NEW m, LoopFrame(m), m.kind = "call", id = CallId(m) PROVE Made(id)'
    <3>1. m = down[cur][1] /\ 1 \in DOMAIN down[cur]
      BY <1>1, <2>2, HostReceives DEF LoopFrame
    <3>2. Made(id) /\ id \in Ids BY <2>2, <3>1, CallIds DEF CallsMade
    <3> QED BY <3>2, MadeStays
  <2> QED BY <2>1, <2>2, <1>2, CallsPending
<1>3. ASSUME NEW s \in Sess, NEW i \in DOMAIN down'[s], down'[s][i].kind = "call",
             NEW c, c = CallId(down'[s][i])
      PROVE  Made(c)'
  <2>1. ASSUME NEW j \in DOMAIN down[s], down'[s][i] = down[s][j] PROVE Made(c)'
    <3>1. c \in Ids /\ Made(c)
      BY <1>3, <2>1, CallIds DEF CallsMade
    <3> QED BY <3>1, MadeStays
  <2>2. CASE Kept(down, down', {"call"})
    BY <1>3, <2>1, <2>2 DEF Kept
  <2>3. ASSUME NEW t \in Sess, NEW id \in Ids,
               (CodeCall(t) /\ id = <<now[t], ncalls[t] + 1>>) \/ (BackgroundCall(t) /\ id = <<0, 0>>)
        PROVE  Made(id)'
    <3>1. CASE id = <<0, 0>> BY <3>1 DEF Made
    <3>2. CASE CodeCall(t) /\ id = <<now[t], ncalls[t] + 1>>
      <4>1. /\ now[t] \in Blocks /\ exec[now[t]] = "started" /\ UNCHANGED <<now, exec>>
            /\ ncalls'[t] = ncalls[t] + 1 /\ ncalls[t] \in Nat
        BY <1>1, <3>2 DEF CodeCall, RunInv, Executes, BoxTypes
      <4>2. \A u \in Sess : now[u] = now[t] => u = t
        BY <4>1 DEF RunInv, Runs, Blocks
      <4> QED BY <3>2, <4>1, <4>2 DEF Made
    <3> QED BY <2>3, <3>1, <3>2
  <2> QED BY <1>3, <2>1, <2>2, <2>3, CallFrames
<1>4. ASSUME NEW s \in Sess, NEW i \in DOMAIN up'[s], up'[s][i].kind \in Replies,
             NEW c, c = CallId(up'[s][i])
      PROVE  Made(c)'
  <2>1. ASSUME NEW j \in DOMAIN up[s], up'[s][i] = up[s][j] PROVE Made(c)'
    <3>1. c \in Ids /\ Made(c)
      BY <1>4, <2>1, CallIds DEF CallsMade
    <3> QED BY <3>1, MadeStays
  <2>2. CASE c \in pending
    BY <2>2, MadeStays, CallIds DEF CallsMade
  <2> QED BY <1>4, <2>1, <2>2, ReplyFrames
<1> QED BY <1>2, <1>3, <1>4 DEF CallsMade, Made, CallId

\* A call becomes unanswered by being made.
LEMMA UnansweredSteps ==
    ASSUME Types, Types', Shape, [Next]_vars, NEW id, Unanswered(id)'
    PROVE  \/ Unanswered(id)
           \/ id = <<0, 0>>
           \/ \E s \in Sess : CodeCall(s) /\ id = <<now[s], ncalls[s] + 1>>
<1>1. QueueTypes BY DEF Types
<1>2. CASE id \in pending'
  <2>1. ASSUME cur \in Sess, NEW m, LoopFrame(m), m.kind = "call", id = CallId(m)
        PROVE  Unanswered(id)
    <3>1. m = down[cur][1] /\ 1 \in DOMAIN down[cur]
      BY <1>1, <2>1, HostReceives DEF LoopFrame
    <3> QED BY <2>1, <3>1 DEF Unanswered
  <2> QED BY <1>2, <2>1, CallsPending DEF Unanswered
<1>3. ASSUME NEW s \in Sess, NEW i \in DOMAIN down'[s], down'[s][i].kind = "call",
             CallId(down'[s][i]) = id
      PROVE  \/ Unanswered(id)
             \/ id = <<0, 0>>
             \/ \E t \in Sess : CodeCall(t) /\ id = <<now[t], ncalls[t] + 1>>
  <2>1. CASE Kept(down, down', {"call"})
    BY <1>3, <2>1 DEF Kept, Unanswered
  <2>2. CASE i \in DOMAIN down[s] /\ down'[s][i] = down[s][i]
    BY <1>3, <2>2 DEF Unanswered
  <2> QED BY <1>3, <2>1, <2>2, CallFrames
<1> QED BY <1>2, <1>3 DEF Unanswered, CallId

\* The id of a new call is new.
LEMMA NewCall ==
    ASSUME Types, Shape, RunInv, CallsMade, NEW s \in Sess, CodeCall(s),
           NEW id, id = <<now[s], ncalls[s] + 1>>
    PROVE  /\ id[1] # 0 /\ id \notin pending \cup stopWaits /\ ~Unanswered(id)
           /\ \A t \in Sess : \A i \in DOMAIN up[t] :
                  up[t][i].kind \in Replies => CallId(up[t][i]) # id
           /\ \A t \in Sess : code[t] = "running" => Current(t) # id
<1>1. /\ now[s] \in Blocks /\ now[s] # 0 /\ ncalls[s] \in Nat /\ code[s] # "none"
      /\ \A t \in Sess : now[t] = now[s] => t = s
  BY Constants DEF CodeCall, Types, HostTypes, BoxTypes, RunInv, Runs, Executes, Blocks
<1>2. ~Made(id)
  BY <1>1 DEF Made
<1>3. ASSUME NEW t \in Sess, code[t] = "running", Current(t) = id PROVE FALSE
  <2>1. now[t] = now[s] /\ ncalls[t] = ncalls[s] + 1 BY <1>3 DEF Current
  <2> QED BY <1>1, <2>1
<1> QED BY <1>1, <1>2, <1>3 DEF CallsMade, Unanswered

\* A reply is sent in the step that takes the call off pending, once.
LEMMA OneCallStays ==
    ASSUME Types, Types', Shape, RunInv, CallsMade, OneCall, [Next]_vars
    PROVE  OneCall'
<1> USE Constants
<1>1. QueueTypes /\ BoxTypes BY DEF Types
<1>2. ASSUME NEW s \in Sess, NEW i \in DOMAIN down'[s], down'[s][i].kind = "call",
             down'[s][i].blk # 0, NEW c, c = CallId(down'[s][i])
      PROVE  /\ c \notin pending' \cup stopWaits'
             /\ \A t \in Sess : \A j \in DOMAIN down'[t] :
                    down'[t][j].kind = "call" /\ CallId(down'[t][j]) = c => s = t /\ i = j
  <2>1. c[1] # 0 /\ c # <<0, 0>> BY <1>2 DEF CallId
  <2>2. CASE Kept(down, down', {"call"})
    <3>1. PICK d \in {0, 1} : \A k \in DOMAIN down'[s] : down'[s][k].kind = "call" =>
              k + d \in DOMAIN down[s] /\ down'[s][k] = down[s][k + d]
      BY <2>2 DEF Kept
    <3>2. i \in Nat /\ i + d \in DOMAIN down[s] /\ down'[s][i] = down[s][i + d]
      BY <1>2, <3>1, CallIds DEF Types, QueueTypes
    <3>3. /\ c \notin pending \cup stopWaits
          /\ \A t \in Sess : \A j \in DOMAIN down[t] :
                 down[t][j].kind = "call" /\ CallId(down[t][j]) = c => s = t /\ i + d = j
      BY <1>2, <3>2 DEF OneCall, CallId
    <3>4. ASSUME cur \in Sess, NEW m, LoopFrame(m), m.kind = "call", c = CallId(m) PROVE FALSE
      <4>1. HostRecv(m) BY <3>4 DEF LoopFrame
      <4>2. /\ m = down[cur][1] /\ 1 \in DOMAIN down[cur]
            /\ \A k \in DOMAIN down'[cur] : k \in Nat /\ k + 1 \in DOMAIN down[cur] /\ down'[cur][k] = down[cur][k + 1]
        BY <1>1, <3>4, <4>1, HostReceives
      <4>3. s = cur BY <3>3, <3>4, <4>2
      <4>4. i + 1 \in DOMAIN down[s] /\ down'[s][i] = down[s][i + 1]
        BY <4>2, <4>3
      <4>5. i + 1 = i + d /\ 1 = i + d BY <1>2, <3>3, <3>4, <4>2, <4>3, <4>4
      <4>6. i # 0 BY DEF Types, QueueTypes
      <4> QED BY <3>2, <4>5, <4>6
    <3>5. ASSUME NEW t \in Sess, NEW j \in DOMAIN down'[t], down'[t][j].kind = "call",
                 CallId(down'[t][j]) = c
          PROVE  s = t /\ i = j
      <4>1. PICK e \in {0, 1} : \A k \in DOMAIN down'[t] : down'[t][k].kind = "call" =>
                k + e \in DOMAIN down[t] /\ down'[t][k] = down[t][k + e]
        BY <2>2 DEF Kept
      <4>2. j \in Nat /\ j + e \in DOMAIN down[t] /\ down'[t][j] = down[t][j + e]
        BY <3>5, <4>1 DEF Types, QueueTypes
      <4>3. s = t /\ i + d = j + e
        BY <3>3, <3>5, <4>2
      <4>4. j + d \in DOMAIN down[s] /\ down'[s][j] = down[s][j + d]
        BY <3>1, <3>5, <4>3
      <4>5. i + d = j + d BY <3>3, <3>5, <4>3, <4>4
      <4> QED BY <3>2, <4>2, <4>3, <4>5
    <3>6. c \notin pending' \cup stopWaits'
      BY <3>3, <3>4, CallsPending
    <3> QED BY <3>5, <3>6
  <2>3. ASSUME NEW t \in Sess, NEW id \in Ids,
               (CodeCall(t) /\ id = <<now[t], ncalls[t] + 1>>) \/ (BackgroundCall(t) /\ id = <<0, 0>>),
               \A u \in Sess : \A k \in DOMAIN down'[u] :
                   \/ k \in DOMAIN down[u] /\ down'[u][k] = down[u][k]
                   \/ u = t /\ k = Len(down[t]) + 1 /\ CallId(down'[u][k]) = id
        PROVE  /\ c \notin pending' \cup stopWaits'
               /\ \A u \in Sess : \A j \in DOMAIN down'[u] :
                      down'[u][j].kind = "call" /\ CallId(down'[u][j]) = c => s = u /\ i = j
    <3>1. UNCHANGED <<pending, stopWaits>>
      BY <2>3 DEF CodeCall, BackgroundCall, hostVars
    <3>2. CASE c = id
      <4>1. CodeCall(t) /\ id = <<now[t], ncalls[t] + 1>> BY <2>1, <2>3, <3>2
      <4>2. id \notin pending \cup stopWaits /\ ~Unanswered(id) BY <4>1, NewCall
      <4>3. \A u \in Sess : \A k \in DOMAIN down'[u] :
                down'[u][k].kind = "call" /\ CallId(down'[u][k]) = id => u = t /\ k = Len(down[t]) + 1
        BY <2>3, <4>2 DEF Unanswered
      <4> QED BY <1>2, <3>1, <3>2, <4>2, <4>3
    <3>3. CASE c # id
      <4>1. i \in DOMAIN down[s] /\ down'[s][i] = down[s][i] BY <1>2, <2>3, <3>3
      <4>2. /\ c \notin pending \cup stopWaits
            /\ \A u \in Sess : \A j \in DOMAIN down[u] :
                   down[u][j].kind = "call" /\ CallId(down[u][j]) = c => s = u /\ i = j
        BY <1>2, <4>1 DEF OneCall, CallId
      <4> QED BY <2>3, <3>1, <3>3, <4>2
    <3> QED BY <3>2, <3>3
  <2> QED BY <2>2, <2>3, CallFrames
<1>3. ASSUME NEW s \in Sess, NEW i \in DOMAIN up'[s], up'[s][i].kind \in Replies,
             up'[s][i].blk # 0, NEW c, c = CallId(up'[s][i]), Unanswered(c)'
      PROVE  FALSE
  <2>1. c[1] # 0 /\ c # <<0, 0>> BY <1>3 DEF CallId
  <2>2. ASSUME NEW j \in DOMAIN up[s], up'[s][i] = up[s][j] PROVE FALSE
    <3>1. ~Unanswered(c) BY <1>3, <2>2 DEF OneCall
    <3>2. PICK t \in Sess : CodeCall(t) /\ c = <<now[t], ncalls[t] + 1>>
      BY <1>3, <2>1, <3>1, UnansweredSteps
    <3> QED BY <1>3, <2>2, <3>2, NewCall
  <2>3. ASSUME c \in pending, pending' = pending \ {c}, UNCHANGED <<stopWaits, down, codeVars>> PROVE FALSE
    <3>1. PICK t \in Sess : \E j \in DOMAIN down[t] : down[t][j].kind = "call" /\ CallId(down[t][j]) = c
      BY <1>3, <2>3 DEF Unanswered, CallId
    <3> QED BY <2>1, <2>3, <3>1 DEF OneCall, CallId
  <2> QED BY <1>3, <2>2, <2>3, ReplyFrames
<1>4. ASSUME NEW s \in Sess, code'[s] = "running", NEW c, c = <<now'[s], ncalls'[s]>>, Unanswered(c)'
      PROVE  FALSE
  <2>1. \A t \in Sess : CodeCall(t) => c # <<now[t], ncalls[t] + 1>>
    <3> SUFFICES ASSUME NEW t \in Sess, CodeCall(t), c = <<now[t], ncalls[t] + 1>> PROVE FALSE
      OBVIOUS
    <3>1. /\ now[t] # 0 /\ ncalls[t] \in Nat /\ now' = now /\ ncalls' = [ncalls EXCEPT ![t] = @ + 1]
          /\ code'[t] = "blocked" /\ \A u \in Sess : now[u] = now[t] => u = t
      BY <1>1 DEF CodeCall, BoxTypes, Types, HostTypes, RunInv, Runs, Executes, Blocks
    <3>2. now[s] = now[t] BY <1>4, <3>1
    <3> QED BY <1>4, <3>1, <3>2
  <2>2. now'[s] # 0 /\ c # <<0, 0>>
    <3>1. now'[s] = now[s] /\ code[s] # "none"
      BY <1>1, <1>4, CodeSteps
         DEF CodeCall, CodeEnter, CodeEnd, CodeStopped, FinishCode, CodeCatches, AwaitRun, Pump, BoxTypes
    <3> QED BY <1>4, <3>1 DEF RunInv, Executes, Blocks
  <2>3. Unanswered(c)
    BY <1>4, <2>1, <2>2, UnansweredSteps
  <2>4. CASE CodeEnter(s)
    <3>1. c = <<now[s], 0>> /\ c[1] # 0
      BY <1>1, <1>4, <2>2, <2>4 DEF CodeEnter, Shape, BoxShape
    <3>2. Made(c) BY <2>3 DEF Unanswered, CallsMade
    <3> QED BY <3>1, <3>2 DEF Made
  <2>5. ASSUME NEW m \in Heads(up[s]), Pump(s, m), code[s] = "blocked" PROVE FALSE
    <3>1. /\ m.kind \in Replies /\ CallId(m) = <<now[s], ncalls[s]>> /\ BoxRecv(s, m)
          /\ UNCHANGED <<now, ncalls>>
      BY <1>1, <1>4, <2>5 DEF Pump, Replies, CallId, BoxTypes
    <3>2. m = up[s][1] /\ 1 \in DOMAIN up[s]
      BY <1>1, <3>1, BoxReceives
    <3> QED BY <1>4, <2>2, <2>3, <3>1, <3>2 DEF OneCall, CallId
  <2>6. CASE code[s] = "running" /\ now'[s] = now[s] /\ ncalls'[s] = ncalls[s]
    BY <1>4, <2>3, <2>6 DEF OneCall, Current
  <2>7. \/ CodeEnter(s) \/ (\E m \in Heads(up[s]) : Pump(s, m) /\ code[s] = "blocked")
        \/ (code[s] = "running" /\ now'[s] = now[s] /\ ncalls'[s] = ncalls[s])
    BY <1>1, <1>4, CodeSteps
       DEF CodeCall, CodeEnd, CodeStopped, FinishCode, CodeCatches, AwaitRun, Pump, BoxTypes
  <2> QED BY <2>4, <2>5, <2>6, <2>7
<1> QED BY <1>2, <1>3, <1>4 DEF OneCall, CallId, Current, Unanswered
-----------------------------------------------------------------------------
(* The stop of a block and the cancellation of its calls.                  *)

\* CodeTimeout is set in the thread, or raised in its code.
Told(s) == stop[s] \in {"pending", "raised"}

\* An InterruptFrame is on its way to the sandbox, ahead of place i.
Ahead(s, i) == \E j \in DOMAIN up[s] : j < i /\ up[s][j].kind = "interrupt"

\* The code will be told before the answer of its cancelled call reaches it.
Warned(s) ==
    /\ \A i \in DOMAIN up[s] :
           up[s][i].kind = "stop" /\ CallId(up[s][i]) = Current(s) => Ahead(s, i)
    /\ s = cur /\ Current(s) \in pending /\ link[s] = "up" => Ahead(s, Len(up[s]) + 1)

\* Code that was waiting when its block was stopped has been told so, or will be before the reply of
\* its cancelled call gets there.
Wakes ==
    \A s \in Sess :
        Current(s) \in stopWaits =>
            /\ code[s] = "running" /\ woke[s] = "stop" => Told(s)
            /\ code[s] = "blocked" => Told(s) \/ Warned(s)

\* When the block is told to stop, its waiting code has no answer yet.
LEMMA InterruptWarns ==
    ASSUME Types, Shape, RunInv, OneCall, Interrupt, NEW s \in Sess,
           code[s] = "blocked", Current(s) \in pending
    PROVE  Warned(s)'
<1> USE Constants
<1>1. /\ QueueTypes /\ HostTypes /\ now[s] # 0 /\ cur \in Sess
      /\ 0 \in 0 .. NBlocks /\ 0 \in 0 .. scene.calls
  BY DEF Types, HostTypes, Sess, Shape, HostShape, RunInv, Executes, Blocks
<1>2. HostSend(Msg("interrupt", blk, 0)) /\ UNCHANGED <<cur, link, now, ncalls, pending>>
  BY DEF Interrupt, codeVars
<1>3. Msg("interrupt", blk, 0) \in UpMsgs /\ Msg("interrupt", blk, 0).kind = "interrupt"
  BY <1>1 DEF Msg, UpMsgs, UpKinds, HostTypes
<1>4. \A i \in DOMAIN up'[s] :
          \/ i \in DOMAIN up[s] /\ up'[s][i] = up[s][i]
          \/ up'[s][i].kind = "interrupt"
  BY <1>1, <1>2, <1>3, HostSends
<1>5. \A i \in DOMAIN up[s] : up[s][i].kind = "stop" => CallId(up[s][i]) # Current(s)
  BY <1>1 DEF OneCall, Replies, Unanswered, CallId, Current
<1>6. \A i \in DOMAIN up'[s] : up'[s][i].kind = "stop" => CallId(up'[s][i]) # Current(s)
  BY <1>4, <1>5
<1>7. ASSUME s = cur, link[s] = "up"
      PROVE  Ahead(s, Len(up[s]) + 1)'
  <2>1. up[s] \in Seq(UpMsgs) /\ up'[s] = Append(up[s], Msg("interrupt", blk, 0))
    BY <1>1, <1>2, <1>7 DEF HostSend, QueueTypes
  <2>2. /\ Len(up'[s]) = Len(up[s]) + 1 /\ Len(up[s]) \in Nat
        /\ Len(up[s]) + 1 \in DOMAIN up'[s]
        /\ up'[s][Len(up[s]) + 1] = Msg("interrupt", blk, 0)
    BY <1>3, <2>1
  <2> QED BY <1>3, <2>2 DEF Ahead
<1> QED BY <1>2, <1>6, <1>7 DEF Warned, Current, CallId

\* Until the code is told, the InterruptFrame stays ahead of the answer.
LEMMA WarnedStays ==
    ASSUME Types, Types', Shape, RunInv, OneCall, [Next]_vars, NEW s \in Sess, s <= used,
           code[s] = "blocked", Current(s) \in stopWaits, Warned(s),
           code'[s] = code[s], now'[s] = now[s], ncalls'[s] = ncalls[s], stop'[s] = stop[s],
           ~Told(s)
    PROVE  Warned(s)'
<1> USE Constants
<1> DEFINE Before(i) == \E j \in DOMAIN up'[s] : j < i /\ up'[s][j].kind = "interrupt"
<1>1. /\ QueueTypes /\ BoxTypes /\ FreshShape /\ BoxShape /\ now[s] # 0 /\ up[s] \in Seq(UpMsgs)
      /\ Len(up[s]) \in Nat /\ DOMAIN up[s] = 1 .. Len(up[s])
  <2>1. QueueTypes /\ BoxTypes /\ FreshShape /\ BoxShape BY DEF Types, Shape
  <2>2. now[s] \in Blocks /\ now[s] # 0 BY DEF RunInv, Executes, Blocks
  <2>3. up[s] \in Seq(UpMsgs) BY <2>1 DEF QueueTypes
  <2> QED BY <2>1, <2>2, <2>3
\* The call is not dispatched anew.
<1>3. Current(s) \in pending' => Current(s) \in pending
  <2> SUFFICES ASSUME cur \in Sess, NEW m, LoopFrame(m), m.kind = "call", Current(s) = CallId(m) PROVE FALSE
    BY CallsPending
  <2>1. m = down[cur][1] /\ 1 \in DOMAIN down[cur]
    BY <1>1, HostReceives DEF LoopFrame
  <2> QED BY <1>1, <2>1 DEF OneCall, Current, CallId
\* The connection is not a new one.
<1>4. s = cur' /\ link'[s] = "up" => s = cur /\ link[s] = "up"
  BY LinkSteps
<1> SUFFICES /\ \A i \in DOMAIN up'[s] :
                    up'[s][i].kind = "stop" /\ CallId(up'[s][i]) = Current(s) => Before(i)
             /\ s = cur /\ Current(s) \in pending /\ link[s] = "up" /\ link'[s] = "up" => Before(Len(up'[s]) + 1)
  BY <1>3, <1>4 DEF Warned, Ahead, Current, CallId
<1>5. CASE up'[s] = up[s]
  BY <1>5 DEF Warned, Ahead
<1>6. CASE UpCut(s)
  <2>1. PICK k \in 0 .. Len(up[s]) : up'[s] = SubSeq(up[s], 1, k)
    BY <1>6 DEF UpCut
  <2>2. DOMAIN up'[s] = 1 .. k /\ \A i \in 1 .. k : up'[s][i] = up[s][i]
    BY <1>1, <2>1
  <2>3. ASSUME NEW i \in 1 .. k, Ahead(s, i) PROVE Before(i)
    BY <1>1, <2>2, <2>3 DEF Ahead
  <2> QED BY <1>1, <1>6, <2>2, <2>3 DEF Warned, UpCut
<1>7. ASSUME NEW m \in UpMsgs, Sends(m), UpSent(s, m)
      PROVE  /\ \A i \in DOMAIN up'[s] :
                    up'[s][i].kind = "stop" /\ CallId(up'[s][i]) = Current(s) => Before(i)
             /\ s = cur /\ Current(s) \in pending /\ link[s] = "up" => Before(Len(up'[s]) + 1)
  <2>1. /\ Len(up'[s]) = Len(up[s]) + 1 /\ DOMAIN up'[s] = 1 .. Len(up[s]) + 1
        /\ \A i \in DOMAIN up[s] : up'[s][i] = up[s][i]
        /\ up'[s][Len(up[s]) + 1] = m
    BY <1>1, <1>7 DEF UpSent
  <2>2. ASSUME NEW i \in 1 .. Len(up[s]) + 1, Ahead(s, i) PROVE Before(i) /\ Before(Len(up[s]) + 2)
    BY <1>1, <2>1, <2>2 DEF Ahead
  <2>3. m.kind = "stop" /\ CallId(m) = Current(s) => Current(s) \in pending
    <3>1. m.kind = "stop" => \E id \in pending : m = Msg("stop", id[1], id[2])
      BY <1>7 DEF Sends, Msg
    <3> QED BY <3>1, CallIds DEF Msg, CallId
  <2>4. \A i \in DOMAIN up'[s] : up'[s][i].kind = "stop" /\ CallId(up'[s][i]) = Current(s) => Before(i)
    BY <1>1, <1>7, <2>1, <2>2, <2>3 DEF Warned, UpSent
  <2>5. Current(s) \in pending => Before(Len(up[s]) + 2)
    BY <1>1, <1>7, <2>2 DEF Warned, UpSent
  <2> QED BY <1>1, <2>1, <2>4, <2>5
<1>8. CASE UpTook(s)
  <2>1. PICK m \in Heads(up[s]) : BoxRecv(s, m) /\ Pump(s, m)
    BY <1>1, <1>8 DEF UpTook, AwaitTar, AwaitRun, BoxShape
  <2>2. m = up[s][1] /\ m.kind # "interrupt"
    BY <1>1, <2>1, BoxReceives DEF Pump, Told, BoxTypes
  <2>3. /\ Len(up'[s]) = Len(up[s]) - 1 /\ DOMAIN up'[s] = 1 .. Len(up[s]) - 1
        /\ \A i \in DOMAIN up'[s] : up'[s][i] = up[s][i + 1]
    <3>1. up[s] # <<>> /\ up'[s] = Tail(up[s])
      BY <1>1, <2>1 DEF BoxRecv, QueueTypes
    <3> QED BY <1>1, <3>1
  <2>4. ASSUME NEW i \in 1 .. Len(up[s]), Ahead(s, i + 1) PROVE Before(i)
    <3>1. PICK j \in DOMAIN up[s] : j < i + 1 /\ up[s][j].kind = "interrupt"
      BY <2>4 DEF Ahead
    <3>2. j # 1 BY <2>2, <3>1
    <3>3. j - 1 \in DOMAIN up'[s] /\ j - 1 < i /\ up'[s][j - 1] = up[s][j - 1 + 1] /\ j - 1 + 1 = j
      BY <1>1, <2>3, <3>1, <3>2
    <3> QED BY <3>1, <3>3
  <2>5. \A i \in DOMAIN up'[s] : up'[s][i].kind = "stop" /\ CallId(up'[s][i]) = Current(s) => Before(i)
    <3> SUFFICES ASSUME NEW i \in DOMAIN up'[s], up'[s][i].kind = "stop", CallId(up'[s][i]) = Current(s)
                 PROVE  Before(i)
      OBVIOUS
    <3>1. i \in 1 .. Len(up[s]) /\ i + 1 \in DOMAIN up[s] /\ up'[s][i] = up[s][i + 1]
      BY <1>1, <2>3
    <3>2. Ahead(s, i + 1) BY <3>1 DEF Warned
    <3> QED BY <2>4, <3>1, <3>2
  <2>6. s = cur /\ Current(s) \in pending /\ link[s] = "up" => Before(Len(up'[s]) + 1)
    <3>1. Len(up'[s]) + 1 = Len(up[s]) /\ Len(up[s]) \in 1 .. Len(up[s])
      BY <1>1, <2>1, <2>3, BoxReceives
    <3> QED BY <2>4, <3>1 DEF Warned
  <2> QED BY <2>5, <2>6
<1> QED BY <1>5, <1>6, <1>7, <1>8, UpSteps

\* The sandbox reads the InterruptFrame before the reply it is ahead of.
LEMMA WakesStays ==
    ASSUME Types, Types', Shape, Shape', RunInv, CallsMade, OneCall, Wakes, [Next]_vars
    PROVE  Wakes'
<1> USE Constants
<1> SUFFICES ASSUME NEW s \in Sess, Current(s)' \in stopWaits', code'[s] \in {"running", "blocked"}
             PROVE  /\ code'[s] = "running" /\ woke'[s] = "stop" => Told(s)'
                    /\ code'[s] = "blocked" => Told(s)' \/ Warned(s)'
  BY DEF Wakes, Sess
<1>1. QueueTypes /\ BoxTypes /\ BoxShape /\ FreshShape BY DEF Types, Shape
<1>2. CASE CodeCall(s)
  <2>1. Current(s)' = <<now[s], ncalls[s] + 1>> /\ stopWaits' = stopWaits
    BY <1>1, <1>2 DEF CodeCall, Current, BoxTypes, hostVars
  <2> QED BY <1>2, <2>1, NewCall
<1>3. CASE CodeEnter(s)
  BY <1>1, <1>3 DEF CodeEnter, BoxShape, BoxTypes
<1>4. CASE CodeEnd(s) \/ CodeStopped(s)
  BY <1>1, <1>4 DEF CodeEnd, CodeStopped, FinishCode, BoxTypes
<1>5. CASE CodeCatches(s)
  BY <1>1, <1>5 DEF CodeCatches, BoxTypes
<1>6. ASSUME NEW m \in Heads(up[s]), AwaitRun(s, m) PROVE FALSE
  BY <1>1, <1>6 DEF AwaitRun, BoxTypes
<1>7. CASE UNCHANGED <<stopWaits>> /\ Current(s)' = Current(s) /\ code'[s] = code[s] /\ woke'[s] = woke[s]
           /\ (Told(s) => Told(s)') /\ (code[s] = "blocked" => Told(s)' \/ stop'[s] = stop[s])
  <2>1. CASE code[s] = "running"
    BY <1>7, <2>1 DEF Wakes
  <2>2. CASE code[s] = "blocked" /\ ~Told(s)' /\ stop'[s] = stop[s]
    <3>1. Warned(s) /\ ~Told(s) BY <1>7, <2>2 DEF Wakes
    <3>2. s <= used
      BY <1>1, <2>2 DEF FreshShape, BoxShape, Types, HostTypes, Sess
    <3>3. now'[s] = now[s] /\ ncalls'[s] = ncalls[s] BY <1>7 DEF Current
    <3>4. Warned(s)' BY <1>7, <2>2, <3>1, <3>2, <3>3, WarnedStays
    <3> QED BY <1>7, <2>2, <3>4
  <2> QED BY <1>7, <2>1, <2>2
<1>8. ASSUME NEW m \in Heads(up[s]), Pump(s, m)
      PROVE  /\ code'[s] = "running" /\ woke'[s] = "stop" => Told(s)'
             /\ code'[s] = "blocked" => Told(s)' \/ Warned(s)'
  <2>1. /\ UNCHANGED <<stopWaits, now, ncalls>> /\ Current(s)' = Current(s)
        /\ BoxRecv(s, m)
    BY <1>8 DEF Pump, Current, hostVars
  <2>2. Told(s) => Told(s)'
    BY <1>1, <1>8 DEF Pump, Told, BoxTypes
  <2>3. code[s] # "ended" /\ code[s] # "entering"
    BY <1>1, <1>8 DEF Pump, BoxTypes
  <2>4. m.kind = "interrupt" => Told(s)'
    BY <1>1, <1>8, <2>3 DEF Pump, Told, BoxTypes
  <2>5. m.kind # "interrupt" => stop'[s] = stop[s]
    BY <1>1, <1>8 DEF Pump, BoxTypes
  <2>6. CASE code'[s] = code[s]
    <3>1. woke'[s] = woke[s] BY <1>1, <1>8, <2>6 DEF Pump, BoxTypes
    <3> QED BY <1>7, <2>1, <2>2, <2>4, <2>5, <2>6, <3>1
  <2>7. CASE code'[s] # code[s]
    <3>1. /\ code[s] = "blocked" /\ code'[s] = "running" /\ woke'[s] = m.kind
          /\ CallId(m) = Current(s) /\ m.kind \in {"value", "stop"}
      BY <1>1, <1>8, <2>7 DEF Pump, CallId, Current, BoxTypes
    <3>2. m = up[s][1] /\ 1 \in DOMAIN up[s] BY <1>1, <2>1, BoxReceives
    <3>3. ~Ahead(s, 1) BY DEF Ahead, Types, QueueTypes
    <3>4. m.kind = "stop" => Told(s) BY <2>1, <3>1, <3>2, <3>3 DEF Wakes, Warned
    <3> QED BY <2>2, <3>1, <3>4
  <2> QED BY <2>6, <2>7
<1>9. CASE code'[s] = code[s] /\ now'[s] = now[s] /\ ncalls'[s] = ncalls[s]
           /\ woke'[s] = woke[s] /\ stop'[s] = stop[s]
  <2>1. CASE Current(s) \in stopWaits
    <3>1. CASE code[s] = "running" BY <1>9, <2>1, <3>1 DEF Wakes, Told
    <3>2. CASE code[s] = "blocked" /\ ~Told(s)
      <4>1. Warned(s) BY <2>1, <3>2 DEF Wakes
      <4>2. s <= used BY <1>1, <3>2 DEF FreshShape, BoxShape, Types, HostTypes, Sess
      <4> QED BY <1>9, <2>1, <3>2, <4>1, <4>2, WarnedStays
    <3> QED BY <1>9, <3>1, <3>2 DEF Told
  <2>2. CASE Current(s) \notin stopWaits
    <3>1. Interrupt /\ Current(s) \in pending
      BY <1>9, <2>2, CallsPending DEF Current
    <3>2. code[s] # "running" BY <3>1 DEF OneCall, Unanswered
    <3> QED BY <1>9, <3>1, <3>2, InterruptWarns
  <2> QED BY <2>1, <2>2
<1> QED BY <1>2, <1>3, <1>4, <1>5, <1>6, <1>8, <1>9, CodeSteps

\* The three invariants about calls, together.
LEMMA WakesInductive == Spec => [](CallsMade /\ OneCall /\ Wakes)
<1>1. Init => CallsMade /\ OneCall /\ Wakes
  BY DEF Init, CallsMade, OneCall, Wakes
<1>2. /\ Types /\ Types' /\ Shape /\ Shape' /\ RunInv
      /\ CallsMade /\ OneCall /\ Wakes /\ [Next]_vars
      => (CallsMade /\ OneCall /\ Wakes)'
  <2> SUFFICES ASSUME Types, Types', Shape, Shape', RunInv, CallsMade, OneCall, Wakes, [Next]_vars
               PROVE  CallsMade' /\ OneCall' /\ Wakes'
    OBVIOUS
  <2> QED BY CallsMadeStays, OneCallStays, WakesStays
<1> QED BY <1>1, <1>2, TypesInductive, ShapeInductive, RunInductive, PTL DEF Spec

\* Code that is waiting for a tool when its block times out wakes to the stop and not to the
\* cancellation of the call, because _run_attempt sends the InterruptFrame before it sets stop
\* (tool.py 574-581), and frames keep their order.
THEOREM CodeWakesToTheStop == Spec => []WakesToStop
<1>1. Wakes => WakesToStop BY DEF Wakes, Told, Current, WakesToStop
<1> QED BY <1>1, WakesInductive, PTL
=============================================================================
