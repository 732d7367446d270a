-------------------------- MODULE Interrupt_proofs --------------------------
(***************************************************************************)
(* For any number of blocks and any delay of their readers: outside        *)
(* running() no stop is pending, unless one once fired inside it.          *)
(***************************************************************************)
EXTENDS Interrupt, TLAPS

Scalars ==
    /\ pc \in PCs
    /\ blk \in 0 .. NBlocks
    /\ exc \in 0 .. NBlocks
    /\ told \subseteq Blocks
    /\ fed \subseteq told
    /\ blk = 0 => pc = "idle" /\ exc = 0 /\ fed = {}

Flags == mark \in BOOLEAN /\ struck \in BOOLEAN

\* The finally has removed the mark by the time it drops a pending stop.
Clean == (pc = "cleared" => ~mark) /\ OnlyStrikesStray

IInv == Scalars /\ Flags /\ Clean

LEMMA Inductive == Spec => []IInv
<1> USE InterruptAssumption
<1>1. Init => IInv
  <2> SUFFICES ASSUME Init PROVE IInv
    OBVIOUS
  <2>1. Scalars BY DEF Init, Scalars, PCs
  <2>2. Flags /\ Clean BY DEF Init, Flags, Clean, OnlyStrikesStray
  <2> QED BY <2>1, <2>2 DEF IInv
<1>2. IInv /\ [Next]_vars => IInv'
  <2> SUFFICES ASSUME IInv, [Next]_vars PROVE IInv'
    OBVIOUS
  <2>0. Scalars /\ Flags /\ Clean
    BY DEF IInv
  <2>1. CASE Begin
    <3>1. Scalars' BY <2>0, <2>1 DEF Begin, Step, Scalars, PCs, Guarded, Blocks
    <3>2. Flags' BY <2>0, <2>1 DEF Begin, Step, Flags
    <3>3. Clean' BY <2>0, <2>1 DEF Begin, Step, Clean, Guarded, OnlyStrikesStray, Flags
    <3> QED BY <3>1, <3>2, <3>3 DEF IInv
  <2>2. CASE SyntaxFails
    <3>1. Scalars' BY <2>0, <2>2 DEF SyntaxFails, Step, Scalars, PCs, Guarded, Blocks
    <3>2. Flags' BY <2>0, <2>2 DEF SyntaxFails, Step, Flags
    <3>3. Clean' BY <2>0, <2>2 DEF SyntaxFails, Step, Clean, Guarded, OnlyStrikesStray, Flags
    <3> QED BY <3>1, <3>2, <3>3 DEF IInv
  <2>3. CASE MarkRunning
    <3>1. Scalars' BY <2>0, <2>3 DEF MarkRunning, Step, Scalars, PCs, Guarded, Blocks
    <3>2. Flags' BY <2>0, <2>3 DEF MarkRunning, Step, Flags
    <3>3. Clean' BY <2>0, <2>3 DEF MarkRunning, Step, Clean, Guarded, OnlyStrikesStray, Flags
    <3> QED BY <3>1, <3>2, <3>3 DEF IInv
  <2>4. CASE EnterCode
    <3>1. Scalars' BY <2>0, <2>4 DEF EnterCode, Step, Scalars, PCs, Guarded, Blocks
    <3>2. Flags' BY <2>0, <2>4 DEF EnterCode, Step, Flags
    <3>3. Clean' BY <2>0, <2>4 DEF EnterCode, Step, Clean, Guarded, OnlyStrikesStray, Flags
    <3> QED BY <3>1, <3>2, <3>3 DEF IInv
  <2>5. CASE CodeEnds
    <3>1. Scalars' BY <2>0, <2>5 DEF CodeEnds, Step, Scalars, PCs, Guarded, Blocks
    <3>2. Flags' BY <2>0, <2>5 DEF CodeEnds, Step, Flags
    <3>3. Clean' BY <2>0, <2>5 DEF CodeEnds, Step, Clean, Guarded, OnlyStrikesStray, Flags
    <3> QED BY <3>1, <3>2, <3>3 DEF IInv
  <2>6. CASE CodeStopped
    <3>1. Scalars' BY <2>0, <2>6 DEF CodeStopped, Step, Scalars, PCs, Guarded, Blocks
    <3>2. Flags' BY <2>0, <2>6 DEF CodeStopped, Step, Flags
    <3>3. Clean' BY <2>0, <2>6 DEF CodeStopped, Step, Clean, Guarded, OnlyStrikesStray, Flags
    <3> QED BY <3>1, <3>2, <3>3 DEF IInv
  <2>7. CASE TakeLock
    <3>1. Scalars' BY <2>0, <2>7 DEF TakeLock, Step, Scalars, PCs, Guarded, Blocks
    <3>2. Flags' BY <2>0, <2>7 DEF TakeLock, Step, Flags
    <3>3. Clean' BY <2>0, <2>7 DEF TakeLock, Step, Clean, Guarded, OnlyStrikesStray, Flags
    <3> QED BY <3>1, <3>2, <3>3 DEF IInv
  <2>8. CASE Unmark
    <3>1. Scalars' BY <2>0, <2>8 DEF Unmark, Step, Scalars, PCs, Guarded, Blocks
    <3>2. Flags' BY <2>0, <2>8 DEF Unmark, Step, Flags
    <3>3. Clean' BY <2>0, <2>8 DEF Unmark, Step, Clean, Guarded, OnlyStrikesStray, Flags
    <3> QED BY <3>1, <3>2, <3>3 DEF IInv
  <2>9. CASE DropStop
    <3>1. Scalars' BY <2>0, <2>9 DEF DropStop, Step, Scalars, PCs, Guarded, Blocks
    <3>2. Flags' BY <2>0, <2>9 DEF DropStop, Step, Flags
    <3>3. Clean' BY <2>0, <2>9 DEF DropStop, Step, Clean, Guarded, OnlyStrikesStray, Flags
    <3> QED BY <3>1, <3>2, <3>3 DEF IInv
  <2>10. CASE Strike
    <3>1. Scalars' BY <2>0, <2>10 DEF Strike, Scalars, PCs, Guarded, Blocks
    <3>2. Flags' BY <2>0, <2>10 DEF Strike, Flags
    <3>3. Clean' BY <2>0, <2>10 DEF Strike, Clean, Guarded, OnlyStrikesStray, Flags
    <3> QED BY <3>1, <3>2, <3>3 DEF IInv
  <2>11. CASE Return
    <3>1. Scalars' BY <2>0, <2>11 DEF Return, Step, Scalars, PCs, Guarded, Blocks
    <3>2. Flags' BY <2>0, <2>11 DEF Return, Step, Flags
    <3>3. Clean' BY <2>0, <2>11 DEF Return, Step, Clean, Guarded, OnlyStrikesStray, Flags
    <3> QED BY <3>1, <3>2, <3>3 DEF IInv
  <2>12. CASE Stray
    <3>1. Scalars' BY <2>0, <2>12 DEF Stray, Scalars, PCs, Guarded, Blocks
    <3>2. Flags' BY <2>0, <2>12 DEF Stray, Flags
    <3>3. Clean' BY <2>0, <2>12 DEF Stray, Clean, Guarded, OnlyStrikesStray, Flags
    <3> QED BY <3>1, <3>2, <3>3 DEF IInv
  <2>13. CASE Feed
    <3>1. Scalars' BY <2>0, <2>13 DEF Feed, Scalars, PCs, Guarded, Blocks
    <3>2. Flags' BY <2>0, <2>13 DEF Feed, Flags
    <3>3. Clean' BY <2>0, <2>13 DEF Feed, Clean, Guarded, OnlyStrikesStray, Flags
    <3> QED BY <3>1, <3>2, <3>3 DEF IInv
  <2>14. ASSUME NEW b \in Blocks, Deliver(b) PROVE IInv'
    <3>1. Scalars' BY <2>0, <2>14 DEF Deliver, Locked, Scalars, PCs, Guarded, Blocks
    <3>2. Flags' BY <2>0, <2>14 DEF Deliver, Locked, Flags
    <3>3. Clean' BY <2>0, <2>14 DEF Deliver, Locked, Clean, Guarded, OnlyStrikesStray, Flags
    <3> QED BY <3>1, <3>2, <3>3 DEF IInv
  <2>15. CASE Over
    <3>1. Scalars' BY <2>0, <2>15 DEF Over, vars, Scalars, PCs, Guarded, Blocks
    <3>2. Flags' BY <2>0, <2>15 DEF Over, vars, Flags
    <3>3. Clean' BY <2>0, <2>15 DEF Over, vars, Clean, Guarded, OnlyStrikesStray, Flags
    <3> QED BY <3>1, <3>2, <3>3 DEF IInv
  <2>16. CASE UNCHANGED vars
    <3>1. Scalars' BY <2>0, <2>16 DEF vars, Scalars, PCs, Guarded, Blocks
    <3>2. Flags' BY <2>0, <2>16 DEF vars, Flags
    <3>3. Clean' BY <2>0, <2>16 DEF vars, Clean, Guarded, OnlyStrikesStray, Flags
    <3> QED BY <3>1, <3>2, <3>3 DEF IInv
  <2> QED BY <2>1, <2>2, <2>3, <2>4, <2>5, <2>6, <2>7, <2>8, <2>9, <2>10, <2>11, <2>12, <2>13, <2>14, <2>15, <2>16 DEF Next
<1> QED BY <1>1, <1>2, PTL DEF Spec

\* Every variable keeps its type: the worker's program counter, the mark, the
\* pending stop and the frames on their way to interrupt().
THEOREM TypeCorrect == Spec => []TypeOK
<1>1. IInv => TypeOK
  BY DEF IInv, Scalars, Flags, TypeOK
<1> QED BY <1>1, Inductive, PTL

\* However late the reader threads handle their InterruptFrame: outside running() no
\* stop is pending, and the worker is not marked for one, unless a stop once fired
\* inside running() itself (_interrupt.py:45-58).
THEOREM StopsStayInside == Spec => []OnlyStrikesStray
<1>1. IInv => OnlyStrikesStray
  BY DEF IInv, Clean
<1> QED BY <1>1, Inductive, PTL
=============================================================================
