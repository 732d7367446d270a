----------------------------- MODULE Interrupt -----------------------------
(***************************************************************************)
(* Stopping a block inside the sandbox: _interrupt.running() marks the     *)
(* worker thread while it runs user code, the RPC reader thread calls      *)
(* _interrupt.interrupt() when an InterruptFrame comes, and CPython raises *)
(* the CodeTimeout it set at some later bytecode of the worker, whatever   *)
(* code that is by then.                                                   *)
(*                                                                         *)
(* Over the WebSocket each block has a reader thread of its own, which may *)
(* lag behind: it may handle its InterruptFrame during a later block.      *)
(* All blocks run on one pool thread.                                      *)
(***************************************************************************)
EXTENDS Naturals

CONSTANT NBlocks    \* blocks of the turn (bound)

ASSUME InterruptAssumption == NBlocks \in Nat

Blocks == 1 .. NBlocks

VARIABLES
    pc,         \* where the worker thread is (see PCs)
    blk,        \* the block it runs, or the last one
    mark,       \* _running_thread is the worker
    exc,        \* the block whose stop is pending in the worker, 0 for none
    told,       \* blocks the host has sent an InterruptFrame for
    fed,        \* those whose reader thread has not handled it yet
    struck      \* history: a stop fired inside running() itself and left the mark

vars == <<pc, blk, mark, exc, told, fed, struck>>

\* "marked" to "cleared" is running(): marked, the user's code, the finally up to
\* the lock, with the lock held, and with the mark removed.  "gone": CodeTimeout
\* has fired outside it and ended the worker or the connection.
Guarded == {"marked", "user", "leaving", "clearing", "cleared"}
PCs == Guarded \cup {"idle", "prelude", "post", "gone"}

TypeOK ==
    /\ pc \in PCs
    /\ blk \in 0 .. NBlocks
    /\ mark \in BOOLEAN
    /\ exc \in 0 .. NBlocks
    /\ told \subseteq Blocks
    /\ fed \subseteq told
    /\ struck \in BOOLEAN

Init ==
    /\ pc = "idle" /\ blk = 0
    /\ mark = FALSE /\ exc = 0
    /\ told = {} /\ fed = {}
    /\ struck = FALSE

\* The worker holds _lock.
Locked == pc \in {"clearing", "cleared"}

Step(from, to) ==
    /\ pc = from
    /\ pc' = to

\* A RunFrame: run_block is called on the worker.
Begin ==
    /\ blk < NBlocks
    /\ Step("idle", "prelude")
    /\ blk' = blk + 1
    /\ UNCHANGED <<mark, exc, told, fed, struck>>

\* The code does not compile.
SyntaxFails ==
    /\ Step("prelude", "post")
    /\ UNCHANGED <<blk, mark, exc, told, fed, struck>>

\* running() up to its yield.
MarkRunning ==
    /\ Step("prelude", "marked")
    /\ mark' = TRUE
    /\ UNCHANGED <<blk, exc, told, fed, struck>>

EnterCode ==
    /\ Step("marked", "user")
    /\ UNCHANGED <<blk, mark, exc, told, fed, struck>>

\* The code returns or raises by itself.
CodeEnds ==
    /\ Step("user", "leaving")
    /\ UNCHANGED <<blk, mark, exc, told, fed, struck>>

\* CodeTimeout is raised in the code, which ends or catches it.
CodeStopped ==
    /\ exc # 0
    /\ exc' = 0
    /\ Step("user", "leaving") \/ Step("user", "user")
    /\ UNCHANGED <<blk, mark, told, fed, struck>>

\* The finally of running(): take the lock, remove the mark, drop a pending stop.
TakeLock ==
    /\ Step("leaving", "clearing")
    /\ UNCHANGED <<blk, mark, exc, told, fed, struck>>

Unmark ==
    /\ Step("clearing", "cleared")
    /\ mark' = FALSE
    /\ UNCHANGED <<blk, exc, told, fed, struck>>

\* Mutant of DropStop: the mark is removed, a pending stop is not.
DropStopForgets ==
    /\ Step("cleared", "post")
    /\ UNCHANGED <<blk, mark, exc, told, fed, struck>>

DropStop ==
    /\ Step("cleared", "post")
    /\ exc' = 0
    /\ UNCHANGED <<blk, mark, told, fed, struck>>

\* CodeTimeout fires in running() instead: the rest of it is skipped, and
\* _exec_into takes it for the code's own exception.  The mark stays, unless the
\* suspended generator was left behind and its finally runs when it is collected.
Strike ==
    /\ exc # 0
    /\ exc' = 0
    /\ pc \in Guarded \ {"user"}
    /\ pc' = "post"
    /\ mark' \in IF pc \in {"marked", "leaving"} THEN {mark, FALSE} ELSE {mark}
    /\ struck' = (struck \/ mark')
    /\ UNCHANGED <<blk, told, fed>>

\* run_block returns: the DoneFrame and the rest, and the worker is free.
Return ==
    /\ Step("post", "idle")
    /\ UNCHANGED <<blk, mark, exc, told, fed, struck>>

\* CodeTimeout fires in run_block outside running(), or in the idle pool thread.
Stray ==
    /\ exc # 0
    /\ pc \in {"idle", "prelude", "post"}
    /\ pc' = "gone"
    /\ exc' = 0
    /\ UNCHANGED <<blk, mark, told, fed, struck>>

\* The host's InterruptFrame for the block reaches the reader through the pump,
\* which runs as long as run_block does.
Feed ==
    /\ pc \notin {"idle", "gone"}
    /\ blk \notin told
    /\ told' = told \cup {blk}
    /\ fed' = fed \cup {blk}
    /\ UNCHANGED <<pc, blk, mark, exc, struck>>

\* The reader of block b calls interrupt(), at some time, under _lock.
Deliver(b) ==
    /\ b \in fed
    /\ ~Locked
    /\ pc # "gone"
    /\ fed' = fed \ {b}
    /\ exc' = IF mark THEN b ELSE exc
    /\ UNCHANGED <<pc, blk, mark, told, struck>>

Over ==
    /\ pc = "gone" \/ (pc = "idle" /\ blk = NBlocks)
    /\ UNCHANGED vars

Next ==
    \/ Begin \/ SyntaxFails \/ MarkRunning \/ EnterCode \/ CodeEnds \/ CodeStopped
    \/ TakeLock \/ Unmark \/ DropStop \/ Strike \/ Return \/ Stray
    \/ Feed \/ \E b \in Blocks : Deliver(b)
    \/ Over

Spec == Init /\ [][Next]_vars
-----------------------------------------------------------------------------
\* Outside running() no stop is pending and the worker is not marked for one: the
\* lock and the order of the finally are enough, whenever the frame is handled,
\* unless a stop once fired inside running() itself and skipped the finally.
OnlyStrikesStray ==
    pc \notin Guarded /\ (mark \/ exc # 0) => struck
=============================================================================
