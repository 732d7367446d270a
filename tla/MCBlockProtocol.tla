--------------------------- MODULE MCBlockProtocol ---------------------------
(***************************************************************************)
(* Scenarios for TLC: which faults may meet in one run.                    *)
(***************************************************************************)
EXTENDS BlockProtocol

\* Either connections break, or blocks are stopped or cancelled or leave threads behind.
TwoKinds ==
    {[faults |-> {"drop"}, calls |-> 1],
     [faults |-> {"timeout", "cancel", "background"}, calls |-> 0]}

\* One block at a time may see both a lost connection and a timeout.
LostOrLate == {[faults |-> {"drop", "timeout"}, calls |-> 2]}

\* The first of two blocks may be cancelled.
CancelOnly == {[faults |-> {"cancel"}, calls |-> 0]}
=============================================================================
