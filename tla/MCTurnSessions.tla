--------------------------- MODULE MCTurnSessions ---------------------------
(***************************************************************************)
(* Instances of TurnSessions for TLC: which context each call runs in, and *)
(* which invocation each context belongs to.                               *)
(***************************************************************************)
EXTENDS TurnSessions, TLC

CONSTANTS c1, c2, c3, x1, x2, i1, i2

\* Two calls of one invocation and one of another, a context each.
TwoInvocationsCtx == (c1 :> x1) @@ (c2 :> x1) @@ (c3 :> x2)
TwoInvocationsInv == (x1 :> i1) @@ (x2 :> i2)

\* Two calls of one invocation and one context.
OneInvocationCtx == [c \in Calls |-> x1]
OneInvocationInv == x1 :> i1

\* Two calls of one invocation in two contexts: a ParallelAgent copies the
\* InvocationContext of each branch and keeps its invocation_id.
BranchesCtx == (c1 :> x1) @@ (c2 :> x2)
BranchesInv == (x1 :> i1) @@ (x2 :> i1)

AnySession == Permutations(Sessions)
=============================================================================
