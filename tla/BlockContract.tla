--------------------------- MODULE BlockContract ---------------------------
(***************************************************************************)
(* What one execute_code call promises the model about its code, whatever  *)
(* happens to the connection: the code runs at most once, and the result   *)
(* never claims more than is known of it (the messages of                  *)
(* _connection_lost_result, _not_stopped_result and the normal result).    *)
(***************************************************************************)
CONSTANT Blocks

VARIABLES exec,     \* "no", "started", "finished": the block's code
          outcome   \* "none", then what the model was told

vars == <<exec, outcome>>

\* What the result says of the code, as the set of exec values it allows.
Allows ==
    [ok         |-> {"finished"},
     stopped    |-> {"finished"},
     ran        |-> {"finished"},
     notRun     |-> {"no"},
     unknown    |-> {"no", "started", "finished"},
     notStopped |-> {"no", "started", "finished"},
     error      |-> {"no", "started", "finished"},
     cancelled  |-> {"no", "started", "finished"}]

Init ==
    /\ exec = [b \in Blocks |-> "no"]
    /\ outcome = [b \in Blocks |-> "none"]

\* The code starts; never after the model was told that it did not run.
Start(b) ==
    /\ exec[b] = "no"
    /\ outcome[b] # "notRun"
    /\ exec' = [exec EXCEPT ![b] = "started"]
    /\ UNCHANGED outcome

Finish(b) ==
    /\ exec[b] = "started"
    /\ exec' = [exec EXCEPT ![b] = "finished"]
    /\ UNCHANGED outcome

Report(b, o) ==
    /\ outcome[b] = "none"
    /\ exec[b] \in Allows[o]
    /\ outcome' = [outcome EXCEPT ![b] = o]
    /\ UNCHANGED exec

Next == \E b \in Blocks :
            Start(b) \/ Finish(b) \/ \E o \in DOMAIN Allows : Report(b, o)

Spec == Init /\ [][Next]_vars
=============================================================================
