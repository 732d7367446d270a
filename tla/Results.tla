------------------------------- MODULE Results -------------------------------
(***************************************************************************)
(* What one execute_code call leaves in the session: the artifacts its     *)
(* tool calls saved (Dispatcher) and the files its code changed in the     *)
(* turn's workspace, which are compared with a rolling baseline, reported  *)
(* and saved.  The calls of a turn come one at a time, each with a fresh   *)
(* Dispatcher.  An artifact service is configured.                         *)
(***************************************************************************)
EXTENDS Dispatcher

CONSTANTS
    NBlocks,    \* execute_code calls (bound)
    CallBlocks, \* those whose code calls tools (bound)
    Contents    \* what a workspace file may contain

Absent == "absent"      \* no file, or no entry in a dict

ASSUME ResultsAssumption ==
    /\ NBlocks \in Nat /\ CallBlocks \subseteq 1 .. NBlocks
    /\ Absent \notin Contents /\ "tool" \notin Contents

VARIABLES
    phase,      \* where run_async is; "closed" and "idle" between calls
    released,   \* the turn was released under the call, and its workspace has gone
    block,      \* calls so far
    outcome,    \* how the last call ended
    disk,       \* the workspace; also changed by code that outlives its block
    baseline,   \* _TurnWorkspace.baseline_hashes (a hash stands for its content)
    current,    \* collect_outputs: the hashes taken so far
    left,       \* collect_outputs: walked, not hashed yet
    todo,       \* the output files that are not saved yet
    hook,       \* the delta that on_artifacts_saved got for this call, 0s if none
    kept,       \* what the newest version of each artifact holds
    touched,    \* history: files written since the baseline last took them in
    fresh,      \* history: files written since they were last hashed
    excused     \* history: files with a known reason not to be in the session

work == <<phase, released, block, outcome, disk, baseline, current, left, todo, hook>>
ghosts == <<touched, fresh, excused>>
allVars == <<vars, work, kept, ghosts>>

Nothing == [f \in Files |-> Absent]
NoDelta == [f \in Files |-> 0]
Collecting == {"looking", "reading"}
Finishing == {"firing", "truncating", "saving"}

ResultsTypeOK ==
    /\ TypeOK
    /\ phase \in {"closed", "idle", "running"} \cup Collecting \cup Finishing
    /\ block \in 0 .. NBlocks /\ released \in BOOLEAN
    /\ outcome \in {"none", "result", "gone", "cancelled", "unread", "raised"}
    /\ {disk, baseline, current, todo} \subseteq [Files -> Contents \cup {Absent}]
    /\ left \subseteq Files
    /\ hook \in [Files -> 0 .. MaxVersion]
    /\ kept \in [Files -> Contents \cup {Absent, "tool"}]
    /\ touched \subseteq Files /\ fresh \subseteq Files /\ excused \subseteq Files

ResultsInit ==
    /\ Init
    /\ phase = "closed" /\ released = FALSE /\ block = 0 /\ outcome = "none"
    /\ disk = Nothing /\ baseline = Nothing /\ current = Nothing /\ todo = Nothing
    /\ left = {} /\ hook = NoDelta /\ kept = Nothing
    /\ touched = {} /\ fresh = {} /\ excused = {}
-----------------------------------------------------------------------------
(* The block runs.                                                         *)

\* A Dispatcher for the block; the artifact service is the session's.
FreshDispatcher ==
    /\ at' = [c \in Calls |-> "idle"] /\ nth' = [c \in Calls |-> 0]
    /\ response' = [c \in Calls |-> "None"]
    /\ answer' = [c \in Calls |-> "none"] /\ reply' = [c \in Calls |-> "none"]
    /\ saved' = [c \in Calls |-> NoDelta] /\ merged' = {} /\ delta' = NoDelta
    /\ asked' = [c \in Calls |-> {}] /\ veto' = [c \in Calls |-> "none"]
    /\ UNCHANGED newest

\* run_async, on the turn's workspace or on a new, empty one.
BeginCall ==
    /\ phase \in {"closed", "idle"}
    /\ block < NBlocks
    /\ block' = block + 1
    /\ phase' = "running"
    /\ released' = FALSE
    /\ outcome' = "none"
    /\ FreshDispatcher
    /\ hook' = NoDelta
    /\ UNCHANGED <<disk, baseline, current, left, todo, kept, ghosts>>

\* A tool call of the block goes a step; saving an artifact may replace one of the
\* same name that held a file of the workspace.
ToolStep(c) ==
    /\ phase = "running" /\ block \in CallBlocks
    /\ Step(c)
    /\ kept' = [f \in Files |-> IF newest'[f] # newest[f] THEN "tool" ELSE kept[f]]
    /\ excused' = excused \cup {f \in Files : newest'[f] # newest[f]}
    /\ UNCHANGED <<work, touched, fresh>>

\* Code writes or deletes a file: that of the block, or a thread or a cancelled block
\* that is still running in the sandbox.
Write(f, v) ==
    /\ phase # "closed" /\ ~released
    /\ disk[f] # v
    /\ disk' = [disk EXCEPT ![f] = v]
    /\ touched' = touched \cup {f}
    /\ fresh' = fresh \cup {f}
    /\ UNCHANGED <<vars, phase, released, block, outcome, baseline, current, left, todo, hook,
                   kept, excused>>

\* The block ended, and with it every call it had made: _host_loop cancels and awaits
\* those that are still running or replying.
Settled == phase = "running" /\ \A c \in Calls : at[c] = "idle" \/ Over(c)

\* The turn is closed: its workspace goes with it, and the next has an empty one.
NoWorkspace ==
    /\ disk' = Nothing /\ baseline' = Nothing
    /\ touched' = {} /\ fresh' = {} /\ excused' = {}
    /\ UNCHANGED <<vars, block, current, left, todo, hook, kept>>

\* _discard_turn: the block timed out or lost its connection, or broke the protocol.
BlockGone ==
    /\ Settled
    /\ phase' = "closed"
    /\ released' = FALSE
    /\ outcome' = "gone"
    /\ NoWorkspace

\* The connection was lost before the code ran: the block is run on a new turn.
Reconnect ==
    /\ phase = "running" /\ \A c \in Calls : at[c] = "idle"
    /\ released' = FALSE
    /\ NoWorkspace
    /\ UNCHANGED <<phase, outcome>>

\* release_invocation or the reaper, between two calls.
DropTurn ==
    /\ phase = "idle"
    /\ phase' = "closed"
    /\ NoWorkspace
    /\ UNCHANGED <<released, outcome>>

\* release_invocation while the block runs.  The block may just have ended with a result,
\* of which collect_outputs then finds nothing.  (If the release comes after that, when
\* outputs are saved from memory, the turn might as well be closed after the call.)
DropUnderCall ==
    /\ phase = "running" /\ ~released
    /\ released' = TRUE
    /\ NoWorkspace
    /\ UNCHANGED <<phase, outcome>>

\* The call returns or raises; what is still in todo will never be saved.
EndCall(o) ==
    /\ phase' = IF released THEN "closed" ELSE "idle"
    /\ released' = FALSE
    /\ outcome' = o
    /\ todo' = Nothing
    /\ excused' = excused \cup {f \in Files : todo[f] # Absent /\ baseline[f] = current[f]}
    /\ UNCHANGED <<block, disk, baseline, current, left, hook, touched, fresh>>

\* The call is cancelled: the turn stays as it is.
CancelCall ==
    /\ Settled \/ phase \in Finishing
    /\ EndCall("cancelled")
    /\ UNCHANGED <<vars, kept>>
-----------------------------------------------------------------------------
(* collect_outputs.  It does not await, but the sandbox writes on.         *)

\* The block ended with a result: walk the workspace.
BlockReturns ==
    /\ Settled
    /\ phase' = "looking"
    /\ left' = {f \in Files : disk[f] # Absent}
    /\ current' = Nothing
    /\ UNCHANGED <<vars, released, block, outcome, disk, baseline, todo, hook, kept, ghosts>>

\* hash_file; a file that has gone in the meantime is passed over.
Look(f) ==
    /\ phase = "looking"
    /\ f \in left
    /\ left' = left \ {f}
    /\ current' = [current EXCEPT ![f] = disk[f]]
    /\ phase' = IF disk[f] \in {Absent, baseline[f]} THEN "looking" ELSE "reading"
    /\ fresh' = fresh \ {f}
    /\ UNCHANGED <<vars, released, block, outcome, disk, baseline, todo, hook, kept,
                   touched, excused>>

\* The file that was found changed and is to be read.
Unread(f) ==
    phase = "reading" /\ f \notin left /\ todo[f] = Absent
    /\ current[f] \notin {Absent, baseline[f]}

\* Its content, which may be newer than the hash.
Read(f) ==
    /\ Unread(f)
    /\ disk[f] # Absent
    /\ todo' = [todo EXCEPT ![f] = disk[f]]
    /\ excused' = IF disk[f] = current[f] THEN excused ELSE excused \cup {f}
    /\ phase' = "looking"
    /\ UNCHANGED <<vars, released, block, outcome, disk, baseline, current, left, hook,
                   kept, touched, fresh>>

\* Mutant of ReadFails: the baseline is advanced nevertheless.
ReadFailsAdvances(f) ==
    /\ Unread(f)
    /\ disk[f] = Absent
    /\ baseline' = current
    /\ phase' = "idle" /\ outcome' = "unread" /\ todo' = Nothing
    /\ UNCHANGED <<vars, released, block, disk, current, left, hook, kept, ghosts>>

\* It is gone: open raises out of run_async, and the baseline is what it was.
ReadFails(f) ==
    /\ Unread(f)
    /\ disk[f] = Absent
    /\ EndCall("unread")
    /\ UNCHANGED <<vars, kept>>

\* Mutant of Advance: the baseline is not advanced.
AdvanceNot ==
    /\ phase = "looking" /\ left = {}
    /\ phase' = "firing"
    /\ touched' = fresh
    /\ UNCHANGED <<vars, released, block, outcome, disk, baseline, current, left, todo, hook,
                   kept, fresh, excused>>

\* All files done: the baseline advances, before anything has been saved.
Advance ==
    /\ phase = "looking" /\ left = {}
    /\ phase' = "firing"
    /\ baseline' = current
    /\ touched' = fresh
    /\ UNCHANGED <<vars, released, block, outcome, disk, current, left, todo, hook, kept,
                   fresh, excused>>
-----------------------------------------------------------------------------
(* What is handed on.                                                      *)

\* Mutant of FireArtifactsSaved: left to the end, which a failing save does not reach.
FireLate ==
    /\ phase = "firing"
    /\ phase' = "truncating"
    /\ UNCHANGED <<vars, released, block, outcome, disk, baseline, current, left, todo, hook,
                   kept, ghosts>>

\* The hook gets the delta; if there is none it is not called.  What it raises is logged.
FireArtifactsSaved ==
    /\ phase = "firing"
    /\ hook' = delta
    /\ phase' = "truncating"
    /\ UNCHANGED <<vars, released, block, outcome, disk, baseline, current, left, todo,
                   kept, ghosts>>

\* stdout and stderr, whose overflow is saved under names of their own; that may raise.
Truncate ==
    /\ phase = "truncating"
    /\ \/ phase' = "saving"
          /\ UNCHANGED <<vars, released, block, outcome, disk, baseline, current, left, todo,
                         hook, kept, ghosts>>
       \/ EndCall("raised") /\ UNCHANGED <<vars, kept>>

\* One output file becomes an artifact.  (The order among them makes no difference.)
SaveOutput(f) ==
    /\ phase = "saving"
    /\ todo[f] # Absent
    /\ newest[f] < MaxVersion
    /\ newest' = [newest EXCEPT ![f] = @ + 1]
    /\ kept' = [kept EXCEPT ![f] = todo[f]]
    /\ excused' = IF todo[f] = current[f] THEN excused \ {f} ELSE excused \cup {f}
    /\ todo' = [todo EXCEPT ![f] = Absent]
    /\ UNCHANGED <<at, nth, response, answer, reply, saved, delta, merged, asked, veto,
                   phase, released, block, outcome, disk, baseline, current, left, hook, touched, fresh>>

\* Saving raises: neither this file nor those after it are saved.
SaveFails ==
    /\ phase = "saving"
    /\ todo # Nothing
    /\ EndCall("raised")
    /\ UNCHANGED <<vars, kept>>

Return ==
    /\ phase = "saving"
    /\ todo = Nothing
    /\ EndCall("result")
    /\ UNCHANGED <<vars, kept>>

AllOver ==
    /\ phase \in {"closed", "idle"} /\ block = NBlocks
    /\ UNCHANGED allVars

ResultsNext ==
    \/ BeginCall \/ BlockGone \/ Reconnect \/ DropTurn \/ DropUnderCall \/ CancelCall \/ BlockReturns
    \/ Advance \/ FireArtifactsSaved \/ Truncate \/ SaveFails \/ Return \/ AllOver
    \/ \E c \in Calls : ToolStep(c)
    \/ \E f \in Files : Look(f) \/ Read(f) \/ ReadFails(f) \/ SaveOutput(f)
    \/ \E f \in Files, v \in Contents \cup {Absent} : Write(f, v)

ResultsSpec == ResultsInit /\ [][ResultsNext]_allVars
-----------------------------------------------------------------------------
(* Properties.                                                             *)

\* "Files created or changed by the code are saved as artifacts": the baseline never
\* hides a file from the next collect_outputs that the session does not hold, unless
\* it is about to be saved, or a save failed or was cancelled after the baseline had
\* been advanced, or the file changed between its hash and its content, or a tool has
\* saved an artifact of the same name.
ChangesSaved ==
    \A f \in Files :
        disk[f] # Absent /\ baseline[f] = disk[f] /\ kept[f] # disk[f]
        => todo[f] # Absent \/ f \in excused

\* "The next block only reports what it changed": what collect_outputs finds changed has
\* been written since the baseline last took it in, by this block, a thread left behind
\* or a call of which no result was collected.
ReportsOwnChanges ==
    phase \in Collecting =>
        \A f \in Files : todo[f] # Absent \/ Unread(f) => f \in touched

\* The hook hears of the versions that the successful calls of this block saved and of no
\* others, before anything else can fail; it is left out only if the block timed out, was
\* lost or was cancelled, or if its workspace could not be read.
HookSeesDelta ==
    /\ hook \in {delta, NoDelta}
    /\ phase \in {"truncating", "saving"} \/ outcome \in {"result", "raised"} => hook = delta
=============================================================================
