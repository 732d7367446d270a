------------------------------ MODULE RpcClient ------------------------------
(***************************************************************************)
(* The sandbox's end of the control channel: threads of user code call     *)
(* tools and wait on one condition variable, the main thread takes the     *)
(* other frames between blocks (recv, Docker transport), and one reader    *)
(* thread hands out what comes in.  An action is a critical section under  *)
(* _state_lock, or the code between two of them.                           *)
(***************************************************************************)
EXTENDS Naturals, Sequences, FiniteSets

CONSTANTS
    Threads,    \* threads that use the client
    Main,       \* the one that also calls recv and that a stop is raised in
    MaxCalls,   \* calls per thread (bound)
    MaxFrames,  \* RunFrames and the like the host sends (bound)
    HostFrame   \* stands for such a frame in what the host sends

ASSUME RpcAssumption ==
    /\ Main \in Threads
    /\ MaxCalls \in Nat /\ MaxFrames \in Nat
    /\ HostFrame \notin Threads

\* A call's uuid; what a thread in recv, or in nothing, wants; the host's frames.
Ids == Threads \X (1 .. MaxCalls)
AnyFrame == <<HostFrame, 0>>
Frames == {HostFrame} \X (1 .. MaxFrames)

VARIABLES
    pc,         \* "idle", "ready" to take the lock, "waiting", or "over"
    want,       \* the id the thread waits for, or AnyFrame
    ncalls,     \* calls each thread has made
    answered,   \* ids for which call() returned the reply
    refused,    \* ids for which call() raised: the channel closed
    stopped,    \* ids whose call() a stop cut short
    open,       \* the host still has its end open
    asked,      \* calls the host has received and not replied to
    dropped,    \* calls the host cancelled without a reply when the block was done
    wire,       \* what is on its way to the reader: replies (by id) and frames
    nsent,      \* frames the host has sent
    results,    \* _pending_results
    general,    \* _general_frames
    nrecv,      \* frames recv has returned
    closed      \* _closed_error is set, and the reader thread has ended

threadVars == <<pc, want, ncalls, answered, refused, stopped, nrecv>>
hostVars == <<open, asked, dropped, nsent>>
clientVars == <<results, general, closed>>
vars == <<pc, want, ncalls, answered, refused, stopped, nrecv, open, asked, dropped,
          nsent, wire, results, general, closed>>

TypeOK ==
    /\ pc \in [Threads -> {"idle", "ready", "waiting", "over"}]
    /\ want \in [Threads -> Ids \cup {AnyFrame}]
    /\ ncalls \in [Threads -> 0 .. MaxCalls]
    /\ answered \subseteq Ids /\ refused \subseteq Ids /\ stopped \subseteq Ids
    /\ asked \subseteq Ids /\ dropped \subseteq Ids
    /\ open \in BOOLEAN /\ closed \in BOOLEAN
    /\ nsent \in 0 .. MaxFrames /\ nrecv \in 0 .. MaxFrames
    /\ wire \in Seq(Ids \cup Frames)
    /\ results \subseteq Ids
    /\ general \in Seq(Frames)

Init ==
    /\ pc = [t \in Threads |-> "idle"]
    /\ want = [t \in Threads |-> AnyFrame]
    /\ ncalls = [t \in Threads |-> 0]
    /\ answered = {} /\ refused = {} /\ stopped = {}
    /\ open = TRUE /\ asked = {} /\ dropped = {}
    /\ wire = <<>> /\ nsent = 0 /\ nrecv = 0
    /\ results = {} /\ general = <<>> /\ closed = FALSE
-----------------------------------------------------------------------------
(* The threads.                                                            *)

Goto(t, label) == pc' = [pc EXCEPT ![t] = label]

InCall(t) == want[t] # AnyFrame

\* call() up to its lock: the ToolCallFrame goes out.  After the host has gone
\* it goes nowhere.
StartCall(t) ==
    LET id == <<t, ncalls[t] + 1>> IN
    /\ pc[t] = "idle"
    /\ ncalls[t] < MaxCalls
    /\ ncalls' = [ncalls EXCEPT ![t] = @ + 1]
    /\ want' = [want EXCEPT ![t] = id]
    /\ asked' = IF open THEN asked \cup {id} ELSE asked
    /\ Goto(t, "ready")
    /\ UNCHANGED <<answered, refused, stopped, nrecv, open, dropped, nsent, wire, clientVars>>

\* ... or the writer raises as the connection is gone.
SendFails(t) ==
    /\ pc[t] = "idle"
    /\ ncalls[t] < MaxCalls
    /\ ~open
    /\ ncalls' = [ncalls EXCEPT ![t] = @ + 1]
    /\ refused' = refused \cup {<<t, ncalls[t] + 1>>}
    /\ UNCHANGED <<pc, want, answered, stopped, nrecv, hostVars, wire, clientVars>>

\* Mutant of Take: the reply is left in the table.
TakeKeeps(t) ==
    /\ pc[t] = "ready" /\ InCall(t)
    /\ want[t] \in results
    /\ answered' = answered \cup {want[t]}
    /\ want' = [want EXCEPT ![t] = AnyFrame]
    /\ Goto(t, "idle")
    /\ UNCHANGED <<ncalls, refused, stopped, nrecv, hostVars, wire, clientVars>>

\* call() finds its reply, whether or not the channel has closed since.
Take(t) ==
    /\ pc[t] = "ready" /\ InCall(t)
    /\ want[t] \in results
    /\ results' = results \ {want[t]}
    /\ answered' = answered \cup {want[t]}
    /\ want' = [want EXCEPT ![t] = AnyFrame]
    /\ Goto(t, "idle")
    /\ UNCHANGED <<ncalls, refused, stopped, nrecv, hostVars, wire, general, closed>>

\* Mutant of Refuse: the closed channel is looked at first.
RefuseFirst(t) ==
    /\ pc[t] = "ready" /\ InCall(t)
    /\ closed
    /\ refused' = refused \cup {want[t]}
    /\ want' = [want EXCEPT ![t] = AnyFrame]
    /\ Goto(t, "idle")
    /\ UNCHANGED <<ncalls, answered, stopped, nrecv, hostVars, wire, clientVars>>

\* call() finds the channel closed, and no reply.
Refuse(t) ==
    /\ pc[t] = "ready" /\ InCall(t)
    /\ want[t] \notin results
    /\ closed
    /\ refused' = refused \cup {want[t]}
    /\ want' = [want EXCEPT ![t] = AnyFrame]
    /\ Goto(t, "idle")
    /\ UNCHANGED <<ncalls, answered, stopped, nrecv, hostVars, wire, clientVars>>

\* Nothing for the thread yet: it waits on the condition.
Wait(t) ==
    /\ pc[t] = "ready"
    /\ ~closed
    /\ IF InCall(t) THEN want[t] \notin results ELSE general = <<>>
    /\ Goto(t, "waiting")
    /\ UNCHANGED <<want, ncalls, answered, refused, stopped, nrecv, hostVars, wire, clientVars>>

\* A stop is raised in the main thread while it is in call() and not asleep, before or
\* after it has taken its reply out of the table.  Not modelled is a stop inside the
\* lock operations of threading themselves: in wait() as it takes _state_lock again, and
\* in send() with _write_lock held, which could release a lock twice or cut a frame.
Stopped ==
    /\ pc[Main] = "ready" /\ InCall(Main)
    /\ stopped' = stopped \cup {want[Main]}
    /\ results' \in {results, results \ {want[Main]}}
    /\ want' = [want EXCEPT ![Main] = AnyFrame]
    /\ Goto(Main, "idle")
    /\ UNCHANGED <<ncalls, answered, refused, nrecv, hostVars, wire, general, closed>>

\* The block is over: the main thread calls recv.
StartRecv ==
    /\ pc[Main] = "idle"
    /\ Goto(Main, "ready")
    /\ UNCHANGED <<want, ncalls, answered, refused, stopped, nrecv, hostVars, wire, clientVars>>

\* Mutants of Recv: the frame is not taken out; the newest frame comes first.
RecvPeeks ==
    /\ pc[Main] = "ready" /\ ~InCall(Main)
    /\ general # <<>>
    /\ nrecv' = nrecv + 1
    /\ Goto(Main, "idle")
    /\ UNCHANGED <<want, ncalls, answered, refused, stopped, hostVars, wire, clientVars>>

RecvLast ==
    /\ pc[Main] = "ready" /\ ~InCall(Main)
    /\ general # <<>>
    /\ general' = SubSeq(general, 1, Len(general) - 1)
    /\ nrecv' = nrecv + 1
    /\ Goto(Main, "idle")
    /\ UNCHANGED <<want, ncalls, answered, refused, stopped, hostVars, wire, results, closed>>

Recv ==
    /\ pc[Main] = "ready" /\ ~InCall(Main)
    /\ general # <<>>
    /\ general' = Tail(general)
    /\ nrecv' = nrecv + 1
    /\ Goto(Main, "idle")
    /\ UNCHANGED <<want, ncalls, answered, refused, stopped, hostVars, wire, results, closed>>

\* recv raises, and the process ends.
RecvFails ==
    /\ pc[Main] = "ready" /\ ~InCall(Main)
    /\ general = <<>>
    /\ closed
    /\ pc' = [t \in Threads |-> "over"]
    /\ UNCHANGED <<want, ncalls, answered, refused, stopped, nrecv, hostVars, wire, clientVars>>
-----------------------------------------------------------------------------
(* The reader thread: _read_loop.                                          *)

\* Mutant of NotifyAll: notify() wakes one.
NotifyOne ==
    \/ /\ \A t \in Threads : pc[t] # "waiting"
       /\ UNCHANGED pc
    \/ \E t \in Threads : pc[t] = "waiting" /\ Goto(t, "ready")

NotifyAll == pc' = [t \in Threads |-> IF pc[t] = "waiting" THEN "ready" ELSE pc[t]]

ReadResult ==
    /\ ~closed
    /\ wire # <<>> /\ Head(wire)[1] # HostFrame
    /\ wire' = Tail(wire)
    /\ results' = results \cup {Head(wire)}
    /\ NotifyAll
    /\ UNCHANGED <<want, ncalls, answered, refused, stopped, nrecv, hostVars, general, closed>>

ReadGeneral ==
    /\ ~closed
    /\ wire # <<>> /\ Head(wire)[1] = HostFrame
    /\ wire' = Tail(wire)
    /\ general' = Append(general, Head(wire))
    /\ NotifyAll
    /\ UNCHANGED <<want, ncalls, answered, refused, stopped, nrecv, hostVars, results, closed>>

\* End of file, or a line it cannot decode (what came after it is never read).
ReadFails ==
    /\ ~closed
    /\ wire # <<>> \/ ~open
    /\ closed' = TRUE
    /\ NotifyAll
    /\ UNCHANGED <<want, ncalls, answered, refused, stopped, nrecv, hostVars, wire, results, general>>
-----------------------------------------------------------------------------
(* The host, which replies in any order.                                   *)

Answer(id) ==
    /\ open
    /\ id \in asked
    /\ asked' = asked \ {id}
    /\ wire' = Append(wire, id)
    /\ UNCHANGED <<threadVars, open, dropped, nsent, clientVars>>

\* _host_loop has seen the DoneFrame: calls still pending get no reply.
DropCalls ==
    /\ open
    /\ asked # {}
    /\ ~InCall(Main)
    /\ asked' = {}
    /\ dropped' = dropped \cup asked
    /\ UNCHANGED <<threadVars, open, nsent, wire, clientVars>>

SendFrame ==
    /\ open
    /\ nsent < MaxFrames
    /\ nsent' = nsent + 1
    /\ wire' = Append(wire, <<HostFrame, nsent + 1>>)
    /\ UNCHANGED <<threadVars, open, asked, dropped, clientVars>>

\* The host closes the channel, or it breaks.
Close ==
    /\ open
    /\ open' = FALSE
    /\ UNCHANGED <<threadVars, asked, dropped, nsent, wire, clientVars>>
-----------------------------------------------------------------------------
Look(t) == Take(t) \/ Refuse(t) \/ Wait(t)

Read == ReadResult \/ ReadGeneral \/ ReadFails

Host == (\E id \in asked : Answer(id)) \/ Close

Idle ==
    /\ closed
    /\ \A t \in Threads : pc[t] = "over" \/ (pc[t] = "idle" /\ ncalls[t] = MaxCalls)
    /\ UNCHANGED vars

Next ==
    \/ \E t \in Threads : StartCall(t) \/ SendFails(t) \/ Look(t)
    \/ Stopped \/ StartRecv \/ Recv \/ RecvFails
    \/ Read
    \/ Host \/ DropCalls \/ SendFrame
    \/ Idle

\* Threads and reader run when they can; the host answers what it was asked or
\* closes the channel.
Fairness ==
    /\ \A t \in Threads : WF_vars(Look(t))
    /\ WF_vars(Read)
    /\ \A id \in Ids : WF_vars(Answer(id))

Spec == Init /\ [][Next]_vars
FairSpec == Spec /\ Fairness
-----------------------------------------------------------------------------
(* Properties.                                                             *)

\* No lost wake-up: a thread sleeps only while there is nothing for it, neither its
\* reply (or a frame) nor the news that the channel has closed.
NoLostWakeup ==
    \A t \in Threads : pc[t] = "waiting" =>
        /\ ~closed
        /\ IF InCall(t) THEN want[t] \notin results ELSE general = <<>>

\* No reply is kept in the table for nobody: each one there is still wanted by the thread
\* that made the call, or belongs to a call that a stop cut short.  (That none is lost
\* either is ReplyBeatsClose and EveryCallEnds.)
RepliesWanted ==
    \A id \in results :
        id \in stopped \/ (want[id[1]] = id /\ pc[id[1]] \in {"ready", "over"})

\* A reply that came in before the channel closed is delivered: call() does not
\* report a closed channel for it.
ReplyBeatsClose == results \cap refused = {}

\* recv returns the frames in the order they were sent, each of them once.
FramesInOrder ==
    \A i \in DOMAIN general : general[i][2] = nrecv + i

\* Every call ends: with its reply, with the closing error or by a stop, unless the
\* host dropped it when the block it belonged to was done.
EveryCallEnds ==
    \A id \in Ids :
        want[id[1]] = id ~> want[id[1]] # id \/ id \in dropped \/ pc[id[1]] = "over"
=============================================================================
