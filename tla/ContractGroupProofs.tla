------------------------ MODULE ContractGroupProofs ------------------------
(***************************************************************************)
(* Proofs about ContractGroup.  For every set of contracts, branches, pool *)
(* threads and callers: type correctness and the shape of the control.     *)
(* For a pool of one thread, the size MutualExclusion holds for: a         *)
(* releaser runs once; and, when nobody calls deschedule(), no request to  *)
(* run is lost, the signal tree agrees with the workers, and every step    *)
(* of the group is a step of ContractAbs.                                  *)
(***************************************************************************)
EXTENDS ContractGroup, FiniteSetTheorems, FunctionTheorems, TLAPS

(* Every state of the scheduler is well typed: in particular the branch    *)
(* counters of the signal tree stay within 0..LeafWidth whatever the       *)
(* threads do, so a counter never bleeds into its neighbour's byte.        *)
THEOREM TypeCorrect == Spec => []TypeOK
<1>1. Init => TypeOK
  <2> SUFFICES ASSUME Init PROVE TypeOK
    OBVIOUS
  <2>1. (CHOOSE c \in Contracts : TRUE) \in Contracts
    BY ConstantsAssumption
  <2>2. id \in [Threads -> Contracts]
    BY <2>1 DEF Init
  <2>3. bit \in [Contracts -> BOOLEAN] /\ aborted \in BOOLEAN
    BY DEF Init
  <2>4. /\ flags \in [Contracts -> SUBSET Flag]
        /\ cur \in [Threads -> SUBSET Flag]
        /\ cand \in [Threads -> SUBSET Branches]
        /\ handles \subseteq Contracts
    BY DEF Init
  <2>5. /\ pc \in [Threads -> CallSteps \cup PoolSteps \cup {"idle"}]
        /\ ret \in [Threads -> PoolSteps \cup {"idle", "handle"}]
        /\ slot \in [Contracts -> {"free", "live", "erased"}]
    BY DEF Init, CallSteps, PoolSteps
  <2>6. /\ count \in [Branches -> 0..LeafWidth]
        /\ left \in [Callers -> 0..MaxCalls]
        /\ freed \in [Contracts -> 0..2]
    BY ConstantsAssumption DEF Init
  <2> QED
    BY <2>2, <2>3, <2>4, <2>5, <2>6 DEF TypeOK
<1>2. TypeOK /\ [Next]_vars => TypeOK'
  <2> SUFFICES ASSUME TypeOK, [Next]_vars PROVE TypeOK'
    OBVIOUS
  <2> USE ConstantsAssumption DEF TypeOK, At, Goto, Return, treeVars, claimVars, groupVars
  <2>1. ASSUME NEW t \in Threads, CallStep(t) PROVE TypeOK'
    <3>1. CASE SchedReleased(t)
      BY <3>1 DEF SchedReleased, CallSteps, PoolSteps
    <3>2. CASE SchedDup(t)
      <4>1. aborted' \in BOOLEAN
        BY <3>2 DEF SchedDup
      <4>2. pc' \in [Threads -> CallSteps \cup PoolSteps \cup {"idle"}]
        BY <3>2 DEF SchedDup, CallSteps, PoolSteps
      <4> QED
        BY <3>2, <4>1, <4>2 DEF SchedDup
    <3>3. CASE SchedSet(t)
      BY <3>3 DEF SchedSet, AddFlag, Flag, CallSteps, PoolSteps
    <3>4. CASE TreeCount(t)
      BY <3>4 DEF TreeCount, CallSteps, PoolSteps
    <3>5. CASE TreeBit(t)
      BY <3>5 DEF TreeBit, CallSteps, PoolSteps
    <3>6. CASE DeschedReleased(t)
      BY <3>6 DEF DeschedReleased, CallSteps, PoolSteps
    <3>7. CASE DeschedCheck(t)
      <4>1. aborted' \in BOOLEAN
        BY <3>7 DEF DeschedCheck
      <4>2. pc' \in [Threads -> CallSteps \cup PoolSteps \cup {"idle"}]
        BY <3>7 DEF DeschedCheck, CallSteps, PoolSteps
      <4> QED
        BY <3>7, <4>1, <4>2 DEF DeschedCheck
    <3>8. CASE UntreeBit(t)
      BY <3>8 DEF UntreeBit, CallSteps, PoolSteps
    <3>9. CASE UntreeCount(t)
      BY <3>9 DEF UntreeCount, CallSteps, PoolSteps
    <3>10. CASE RelFlag(t)
      BY <3>10 DEF RelFlag, AddFlag, Flag, CallSteps, PoolSteps
    <3>11. CASE RelCheck(t)
      BY <3>11 DEF RelCheck, CallSteps, PoolSteps
    <3> QED
      BY <2>1, <3>1, <3>2, <3>3, <3>4, <3>5, <3>6, <3>7, <3>8, <3>9, <3>10, <3>11
      DEF CallStep
  <2>2. ASSUME NEW t \in Pool, PoolStep(t) PROVE TypeOK'
    <3> USE DEF Threads
    <3>1. CASE Poll(t)
      BY <3>1 DEF Poll, CallSteps, PoolSteps
    <3>2. ASSUME NEW c \in Contracts, ScanHit(t, c) PROVE TypeOK'
      BY <3>2 DEF ScanHit, CallSteps, PoolSteps
    <3>3. ASSUME NEW b \in Branches, ScanMiss(t, b) PROVE TypeOK'
      BY <3>3 DEF ScanMiss, CallSteps, PoolSteps
    <3>4. CASE ClaimLoad(t)
      BY <3>4 DEF ClaimLoad, CallSteps, PoolSteps
    <3>5. CASE ClaimCheck(t)
      BY <3>5 DEF ClaimCheck, CallSteps, PoolSteps
    <3>6. CASE ClaimCas(t)
      BY <3>6 DEF ClaimCas, Flag, CallSteps, PoolSteps
    <3>7. CASE Dispatch(t)
      BY <3>7 DEF Dispatch, CallSteps, PoolSteps
    <3>8. CASE BodyEnd(t)
      BY <3>8 DEF BodyEnd, CallSteps, PoolSteps
    <3>9. CASE Finish(t)
      BY <3>9 DEF Finish, CallSteps, PoolSteps
    <3>10. CASE Erase(t)
      BY <3>10 DEF Erase, CallSteps, PoolSteps
    <3>11. ASSUME NEW op \in WorkerOps, BodyCall(t, op) PROVE TypeOK'
      <4>1. Entry(op) \in CallSteps
        BY DEF Entry, CallSteps
      <4> QED
        BY <3>11, <4>1 DEF BodyCall, Call, CallSteps, PoolSteps
    <3> QED
      BY <2>2, <3>1, <3>2, <3>3, <3>4, <3>5, <3>6, <3>7, <3>8, <3>9, <3>10, <3>11
      DEF PoolStep
  <2>3. ASSUME NEW t \in Callers, CallerStep(t) PROVE TypeOK'
    <3> USE DEF Threads
    <3>1. ASSUME NEW c \in Contracts, NEW f \in CreateFlags, Create(t, c, f) PROVE TypeOK'
      <4>1. f \subseteq Flag
        BY DEF Flag
      <4> QED
        BY <3>1, <4>1 DEF Create, CallSteps, PoolSteps
    <3>2. CASE Handle(t)
      BY <3>2 DEF Handle, CallSteps, PoolSteps
    <3>3. ASSUME NEW op \in CallerOps, NEW c \in Contracts, CallerCall(t, op, c)
          PROVE  TypeOK'
      <4>1. Entry(op) \in CallSteps
        BY DEF Entry, CallSteps
      <4> QED
        BY <3>3, <4>1 DEF CallerCall, Call, CallSteps, PoolSteps
    <3> QED
      BY <2>3, <3>1, <3>2, <3>3 DEF CallerStep
  <2>4. CASE UNCHANGED vars
    BY <2>4 DEF vars
  <2> QED
    BY <2>1, <2>2, <2>3, <2>4 DEF Next
<1> QED
  BY <1>1, <1>2, PTL DEF Spec

----------------------------------------------------------------------------
(***************************************************************************)
(* No request is lost.  NoLostWakeup speaks of the flags and of the tree,  *)
(* and the one step that clears a ready bit is UntreeBit: it must find the *)
(* worker EXECUTING.  So the inductive invariant says that the pool thread *)
(* holds EXECUTING from its claim to ~AutoClearExecuteFlag, and that no    *)
(* thread is ever inside deschedule().                                     *)
(***************************************************************************)

(* Every thread is where it should be: callers never run the pool's loop,  *)
(* pool threads never leave it.                                            *)
Separate ==
    /\ \A t \in Callers : pc[t] \notin PoolSteps /\ ret[t] \in {"idle", "handle"}
    /\ \A t \in Pool :
        pc[t] \notin {"idle", "handle"} /\ ret[t] \in {"poll", "dispatch", "run"}

(* Nothing refers to a slot that create() has not handed out. *)
OnlyCreated ==
    /\ \A c \in Contracts : bit[c] => slot[c] # "free"
    /\ \A c \in handles : slot[c] # "free"
    /\ \A t \in Threads : pc[t] \notin {"idle", "poll", "scan"} => slot[id[t]] # "free"
    /\ \A c \in Contracts : slot[c] = "free" => flags[c] = {}

Shape == Separate /\ OnlyCreated

(* Every step of the group keeps the shape, with any number of pool        *)
(* threads and any calls.                                                  *)
LEMMA ShapeStep ==
    ASSUME TypeOK, Shape, TypeOK', [Next]_vars
    PROVE  Shape'
<1> USE ConstantsAssumption DEF TypeOK, Threads, At, Goto, Return, treeVars, claimVars, groupVars,
                             CallSteps, PoolSteps,
                             Shape, Separate, OnlyCreated
<1>1. ASSUME NEW t \in Threads, CallStep(t) PROVE Shape'
  <2>1. CASE SchedReleased(t)
    BY <2>1 DEF SchedReleased
  <2>2. CASE SchedDup(t)
    BY <2>2 DEF SchedDup
  <2>3. CASE SchedSet(t)
    BY <2>3 DEF SchedSet, AddFlag
  <2>4. CASE TreeCount(t)
    BY <2>4 DEF TreeCount
  <2>5. CASE TreeBit(t)
    BY <2>5 DEF TreeBit
  <2>6. CASE DeschedReleased(t)
    BY <2>6 DEF DeschedReleased
  <2>7. CASE DeschedCheck(t)
    BY <2>7 DEF DeschedCheck
  <2>8. CASE UntreeBit(t)
    BY <2>8 DEF UntreeBit
  <2>9. CASE UntreeCount(t)
    BY <2>9 DEF UntreeCount
  <2>10. CASE RelFlag(t)
    BY <2>10 DEF RelFlag, AddFlag
  <2>11. CASE RelCheck(t)
    BY <2>11 DEF RelCheck
  <2> QED
    BY <1>1, <2>1, <2>2, <2>3, <2>4, <2>5, <2>6, <2>7, <2>8, <2>9, <2>10, <2>11 DEF CallStep
<1>2. ASSUME NEW t \in Pool, PoolStep(t) PROVE Shape'
  <2>1. CASE Poll(t)
    BY <2>1 DEF Poll
  <2>2. ASSUME NEW c \in Contracts, ScanHit(t, c) PROVE Shape'
    BY <2>2 DEF ScanHit
  <2>3. ASSUME NEW b \in Branches, ScanMiss(t, b) PROVE Shape'
    BY <2>3 DEF ScanMiss
  <2>4. CASE ClaimLoad(t)
    BY <2>4 DEF ClaimLoad
  <2>5. CASE ClaimCheck(t)
    BY <2>5 DEF ClaimCheck
  <2>6. CASE ClaimCas(t)
    BY <2>6 DEF ClaimCas
  <2>7. CASE Dispatch(t)
    BY <2>7 DEF Dispatch
  <2>8. CASE BodyEnd(t)
    BY <2>8 DEF BodyEnd
  <2>9. CASE Finish(t)
    BY <2>9 DEF Finish
  <2>10. CASE Erase(t)
    BY <2>10 DEF Erase
  <2>11. ASSUME NEW op \in WorkerOps, BodyCall(t, op) PROVE Shape'
    BY <2>11 DEF BodyCall, Call, Entry
  <2> QED
    BY <1>2, <2>1, <2>2, <2>3, <2>4, <2>5, <2>6, <2>7, <2>8, <2>9, <2>10, <2>11 DEF PoolStep
<1>3. ASSUME NEW t \in Callers, CallerStep(t) PROVE Shape'
  <2>1. ASSUME NEW c \in Contracts, NEW f \in CreateFlags, Create(t, c, f) PROVE Shape'
    BY <2>1 DEF Create
  <2>2. CASE Handle(t)
    BY <2>2 DEF Handle
  <2>3. ASSUME NEW op \in CallerOps, NEW c \in Contracts, CallerCall(t, op, c) PROVE Shape'
    BY <2>3 DEF CallerCall, Call, Entry
  <2> QED
    BY <1>3, <2>1, <2>2, <2>3 DEF CallerStep
<1>4. CASE UNCHANGED vars
  BY <1>4 DEF vars
<1> QED
  BY <1>1, <1>2, <1>3, <1>4 DEF Next


(* The control of the group keeps its shape in every behaviour.            *)
LEMMA ShapeHolds == Spec => [](TypeOK /\ Shape)
<1>1. Init => Shape
  BY ConstantsAssumption DEF Init, Threads, Shape, Separate, OnlyCreated, PoolSteps
<1>2. TypeOK /\ Shape /\ TypeOK' /\ [Next]_vars => Shape'
  BY ShapeStep
<1> QED
  BY <1>1, <1>2, TypeCorrect, PTL DEF Spec

(* Once the releaser of a contract has run, the thread that ran it is about *)
(* to erase the slot, or has: Dispatch finds no releaser a second time.     *)
ReleaserDone ==
    \A c \in Contracts : freed[c] > 0 =>
        /\ freed[c] = 1
        /\ slot[c] = "erased" \/ \E t \in Pool : id[t] = c /\ pc[t] = "releasing"

(* Every step keeps it, whatever the callers and the worker bodies call.    *)
LEMMA ReleaseStep ==
    ASSUME NEW p, Pool = {p}, TypeOK, Shape, TypeOK', ReleaserDone, [Next]_vars
    PROVE  ReleaserDone'
<1> USE ConstantsAssumption DEF TypeOK, Threads, At, Goto, Return, treeVars, claimVars, groupVars,
                             CallSteps, PoolSteps,
                             Shape, Separate, OnlyCreated, ReleaserDone
<1>1. ASSUME NEW t \in Threads, CallStep(t) PROVE ReleaserDone'
  <2>1. CASE SchedReleased(t)
    BY <2>1 DEF SchedReleased
  <2>2. CASE SchedDup(t)
    BY <2>2 DEF SchedDup
  <2>3. CASE SchedSet(t)
    BY <2>3 DEF SchedSet, AddFlag
  <2>4. CASE TreeCount(t)
    BY <2>4 DEF TreeCount
  <2>5. CASE TreeBit(t)
    BY <2>5 DEF TreeBit
  <2>6. CASE DeschedReleased(t)
    BY <2>6 DEF DeschedReleased
  <2>7. CASE DeschedCheck(t)
    BY <2>7 DEF DeschedCheck
  <2>8. CASE UntreeBit(t)
    BY <2>8 DEF UntreeBit
  <2>9. CASE UntreeCount(t)
    BY <2>9 DEF UntreeCount
  <2>10. CASE RelFlag(t)
    BY <2>10 DEF RelFlag, AddFlag
  <2>11. CASE RelCheck(t)
    BY <2>11 DEF RelCheck
  <2> QED
    BY <1>1, <2>1, <2>2, <2>3, <2>4, <2>5, <2>6, <2>7, <2>8, <2>9, <2>10, <2>11 DEF CallStep
<1>2. ASSUME NEW t \in Pool, PoolStep(t) PROVE ReleaserDone'
  <2>1. CASE Poll(t)
    BY <2>1 DEF Poll
  <2>2. ASSUME NEW c \in Contracts, ScanHit(t, c) PROVE ReleaserDone'
    BY <2>2 DEF ScanHit
  <2>3. ASSUME NEW b \in Branches, ScanMiss(t, b) PROVE ReleaserDone'
    BY <2>3 DEF ScanMiss
  <2>4. CASE ClaimLoad(t)
    BY <2>4 DEF ClaimLoad
  <2>5. CASE ClaimCheck(t)
    BY <2>5 DEF ClaimCheck
  <2>6. CASE ClaimCas(t)
    BY <2>6 DEF ClaimCas
  <2>7. CASE Dispatch(t)
    BY <2>7 DEF Dispatch
  <2>8. CASE BodyEnd(t)
    BY <2>8 DEF BodyEnd
  <2>9. CASE Finish(t)
    BY <2>9 DEF Finish
  <2>10. CASE Erase(t)
    BY <2>10 DEF Erase
  <2>11. ASSUME NEW op \in WorkerOps, BodyCall(t, op) PROVE ReleaserDone'
    BY <2>11 DEF BodyCall, Call, Entry
  <2> QED
    BY <1>2, <2>1, <2>2, <2>3, <2>4, <2>5, <2>6, <2>7, <2>8, <2>9, <2>10, <2>11 DEF PoolStep
<1>3. ASSUME NEW t \in Callers, CallerStep(t) PROVE ReleaserDone'
  <2>1. ASSUME NEW c \in Contracts, NEW f \in CreateFlags, Create(t, c, f) PROVE ReleaserDone'
    BY <2>1 DEF Create
  <2>2. CASE Handle(t)
    BY <2>2 DEF Handle
  <2>3. ASSUME NEW op \in CallerOps, NEW c \in Contracts, CallerCall(t, op, c) PROVE ReleaserDone'
    BY <2>3 DEF CallerCall, Call, Entry
  <2> QED
    BY <1>3, <2>1, <2>2, <2>3 DEF CallerStep
<1>4. CASE UNCHANGED vars
  BY <1>4 DEF vars
<1> QED
  BY <1>1, <1>2, <1>3, <1>4 DEF Next


(* With one pool thread the releaser of a contract runs at most once, for  *)
(* any number of contracts and callers and any mix of schedule(),          *)
(* deschedule() and release() calls, repeated releases included.           *)
THEOREM ReleaserRunsOnce ==
    ASSUME NEW p, Pool = {p}
    PROVE  Spec => []ReleasedOnce
<1>1. Init => ReleaserDone
  BY DEF Init, ReleaserDone
<1>2. TypeOK /\ Shape /\ TypeOK' /\ ReleaserDone /\ [Next]_vars => ReleaserDone'
  BY ReleaseStep
<1>3. TypeOK /\ ReleaserDone => ReleasedOnce
  BY DEF TypeOK, ReleaserDone, ReleasedOnce
<1> QED
  BY <1>1, <1>2, <1>3, ShapeHolds, PTL DEF Spec

(* Nobody is inside deschedule(), so only a claim takes a slot off the     *)
(* tree, and it does so on its way to dispatch.                            *)
NoDeschedule ==
    \A t \in Threads :
        /\ pc[t] \notin {"desched_released", "desched_check"}
        /\ pc[t] \in {"untree_bit", "untree_count"} => t \in Pool /\ ret[t] = "dispatch"

(* A pool thread that is running a slot has it flagged EXECUTING. *)
ClaimHeld ==
    \A t \in Pool : Executing(t, id[t]) => "EXECUTING" \in flags[id[t]]

Entering(t) == pc[t] \in {"tree_count", "tree_bit"}

(* A slot is put on the tree once, by one thread, while it is requested    *)
(* and not running, and stays on it until the claim takes it off.          *)
Placed ==
    /\ \A t \in Threads : Entering(t) =>
        /\ "SCHEDULED" \in flags[id[t]] /\ "EXECUTING" \notin flags[id[t]]
        /\ ~bit[id[t]]
    /\ \A t, u \in Threads : Entering(t) /\ Entering(u) /\ id[t] = id[u] => t = u
    /\ \A c \in Contracts : bit[c] =>
        \/ "SCHEDULED" \in flags[c] /\ "EXECUTING" \notin flags[c]
        \/ \E t \in Pool : id[t] = c /\ pc[t] = "untree_bit"
    /\ \A t \in Pool :
        pc[t] \in {"claim_load", "claim_check", "claim_cas", "untree_bit"} => bit[id[t]]

PlacedInv == NoDeschedule /\ ClaimHeld /\ Placed /\ NoLostWakeup

(* No step puts a slot on the tree twice, leaves it there unrequested, or  *)
(* loses a request.                                                        *)
LEMMA PlacedStep ==
    ASSUME NEW p, Pool = {p}, "deschedule" \notin CallerOps, "deschedule" \notin WorkerOps,
           TypeOK, Shape, TypeOK', PlacedInv, [Next]_vars
    PROVE  PlacedInv'
<1> USE ConstantsAssumption DEF TypeOK, Threads, At, Goto, Return, treeVars, claimVars, groupVars,
                             CallSteps, PoolSteps,
                             Shape, Separate, OnlyCreated, PlacedInv, NoDeschedule, ClaimHeld,
                             Placed, Entering, Executing, NoLostWakeup, EnteringTree
<1>1. ASSUME NEW t \in Threads, CallStep(t) PROVE PlacedInv'
  <2>1. CASE SchedReleased(t)
    BY <2>1 DEF SchedReleased
  <2>2. CASE SchedDup(t)
    BY <2>2 DEF SchedDup
  <2>3. CASE SchedSet(t)
    BY <2>3 DEF SchedSet, AddFlag
  <2>4. CASE TreeCount(t)
    BY <2>4 DEF TreeCount
  <2>5. CASE TreeBit(t)
    BY <2>5 DEF TreeBit
  <2>6. CASE DeschedReleased(t)
    BY <2>6 DEF DeschedReleased
  <2>7. CASE DeschedCheck(t)
    BY <2>7 DEF DeschedCheck
  <2>8. CASE UntreeBit(t)
    BY <2>8 DEF UntreeBit
  <2>9. CASE UntreeCount(t)
    BY <2>9 DEF UntreeCount
  <2>10. CASE RelFlag(t)
    BY <2>10 DEF RelFlag, AddFlag
  <2>11. CASE RelCheck(t)
    BY <2>11 DEF RelCheck
  <2> QED
    BY <1>1, <2>1, <2>2, <2>3, <2>4, <2>5, <2>6, <2>7, <2>8, <2>9, <2>10, <2>11 DEF CallStep
<1>2. ASSUME NEW t \in Pool, PoolStep(t) PROVE PlacedInv'
  <2>1. CASE Poll(t)
    BY <2>1 DEF Poll
  <2>2. ASSUME NEW c \in Contracts, ScanHit(t, c) PROVE PlacedInv'
    BY <2>2 DEF ScanHit
  <2>3. ASSUME NEW b \in Branches, ScanMiss(t, b) PROVE PlacedInv'
    BY <2>3 DEF ScanMiss
  <2>4. CASE ClaimLoad(t)
    BY <2>4 DEF ClaimLoad
  <2>5. CASE ClaimCheck(t)
    BY <2>5 DEF ClaimCheck
  <2>6. CASE ClaimCas(t)
    BY <2>6 DEF ClaimCas
  <2>7. CASE Dispatch(t)
    BY <2>7 DEF Dispatch
  <2>8. CASE BodyEnd(t)
    BY <2>8 DEF BodyEnd
  <2>9. CASE Finish(t)
    BY <2>9 DEF Finish
  <2>10. CASE Erase(t)
    BY <2>10 DEF Erase
  <2>11. ASSUME NEW op \in WorkerOps, BodyCall(t, op) PROVE PlacedInv'
    BY <2>11 DEF BodyCall, Call, Entry
  <2> QED
    BY <1>2, <2>1, <2>2, <2>3, <2>4, <2>5, <2>6, <2>7, <2>8, <2>9, <2>10, <2>11 DEF PoolStep
<1>3. ASSUME NEW t \in Callers, CallerStep(t) PROVE PlacedInv'
  <2>1. ASSUME NEW c \in Contracts, NEW f \in CreateFlags, Create(t, c, f) PROVE PlacedInv'
    BY <2>1 DEF Create
  <2>2. CASE Handle(t)
    BY <2>2 DEF Handle
  <2>3. ASSUME NEW op \in CallerOps, NEW c \in Contracts, CallerCall(t, op, c) PROVE PlacedInv'
    BY <2>3 DEF CallerCall, Call, Entry
  <2> QED
    BY <1>3, <2>1, <2>2, <2>3 DEF CallerStep
<1>4. CASE UNCHANGED vars
  BY <1>4 DEF vars
<1> QED
  BY <1>1, <1>2, <1>3, <1>4 DEF Next


(* The invariant of the tree holds in every behaviour of one pool thread.  *)
LEMMA PlacedHolds ==
    ASSUME NEW p, Pool = {p}, "deschedule" \notin CallerOps, "deschedule" \notin WorkerOps
    PROVE  Spec => [](TypeOK /\ Shape /\ PlacedInv)
<1>1. Init => PlacedInv
  BY DEF Init, Threads, PlacedInv, NoDeschedule, ClaimHeld, Executing, CallSteps, Placed, Entering,
         NoLostWakeup
<1>2. TypeOK /\ Shape /\ TypeOK' /\ PlacedInv /\ [Next]_vars => PlacedInv'
  BY PlacedStep
<1> QED
  BY <1>1, <1>2, ShapeHolds, PTL DEF Spec

(* With one pool thread, no request to run is ever lost: for any number of *)
(* contracts and callers, a worker flagged SCHEDULED that is not running   *)
(* has its ready bit set, or a thread on its way to set it.                *)
THEOREM NoRequestLost ==
    ASSUME NEW p, Pool = {p}, "deschedule" \notin CallerOps, "deschedule" \notin WorkerOps
    PROVE  Spec => []NoLostWakeup
<1>1. PlacedInv => NoLostWakeup
  BY DEF PlacedInv
<1> QED
  BY <1>1, PlacedHolds, PTL

----------------------------------------------------------------------------
(* Adding an element to a finite set adds one to its size.                 *)
LEMMA OneMore ==
    ASSUME NEW S, IsFiniteSet(S), NEW x, x \notin S, NEW T, T = S \cup {x}
    PROVE  IsFiniteSet(T) /\ Cardinality(S) \in Nat /\ Cardinality(T) = Cardinality(S) + 1
BY FS_AddElement, FS_CardinalityType

(* Taking an element from a finite set takes one from its size.            *)
LEMMA OneLess ==
    ASSUME NEW S, IsFiniteSet(S), NEW x \in S, NEW T, T = S \ {x}
    PROVE  /\ IsFiniteSet(T) /\ Cardinality(S) \in Nat /\ Cardinality(T) \in Nat
           /\ Cardinality(T) = Cardinality(S) - 1
BY FS_RemoveElement, FS_CardinalityType

(* The size of a union of disjoint finite sets.                            *)
LEMMA Disjoint ==
    ASSUME NEW S, IsFiniteSet(S), NEW T, IsFiniteSet(T), S \cap T = {}
    PROVE  Cardinality(S \cup T) = Cardinality(S) + Cardinality(T)
<1>1. Cardinality(S \cup T) = Cardinality(S) + Cardinality(T) - Cardinality({})
  BY FS_Union
<1>2. Cardinality(S) \in Nat /\ Cardinality(T) \in Nat /\ Cardinality({}) = 0
  BY FS_CardinalityType, FS_EmptySet
<1> QED
  BY <1>1, <1>2

(* Members of S named one by one by T, outside A and other than s, leave   *)
(* room in S: the pigeonhole behind the counter's cap.                     *)
LEMMA RoomLeft ==
    ASSUME NEW S, IsFiniteSet(S), NEW A \in SUBSET S, NEW s \in S \ A, NEW T,
           NEW f \in [T -> S],
           \A x, y \in T : f[x] = f[y] => x = y,
           \A x \in T : f[x] \notin A /\ f[x] # s
    PROVE  Cardinality(A) + Cardinality(T) < Cardinality(S)
<1> DEFINE U == (S \ A) \ {s}
<1>1. IsFiniteSet(A) /\ Cardinality(A) \in Nat /\ Cardinality(S) \in Nat
  BY FS_Subset, FS_CardinalityType
<1>2. IsFiniteSet(S \ A) /\ Cardinality(S \ A) = Cardinality(S) - Cardinality(A)
  <2>1. S \cap A = A
    OBVIOUS
  <2> QED
    BY <2>1, FS_Difference
<1>3. IsFiniteSet(U) /\ Cardinality(U) = Cardinality(S) - Cardinality(A) - 1
  BY <1>1, <1>2, OneLess
<1>4. f \in [T -> U]
  OBVIOUS
<1>5. f \in Injection(T, U)
  BY <1>4, Fun_IsInj
<1>6. IsFiniteSet(T) /\ Cardinality(T) <= Cardinality(U)
  BY <1>3, <1>5, FS_Injection
<1>7. Cardinality(T) \in Nat
  BY <1>6, FS_CardinalityType
<1> QED
  BY <1>1, <1>3, <1>6, <1>7

(* What a branch counter counts: the bits set, the bits about to be set,   *)
(* and the bits just cleared.                                              *)
BitsOf(b) == {c \in InBranch(b) : bit[c]}
RisingOf(b) == {t \in Threads : pc[t] = "tree_bit" /\ BranchOf[id[t]] = b}
FallingOf(b) == {t \in Threads : pc[t] = "untree_count" /\ BranchOf[id[t]] = b}

(* The three sets a branch counter counts are finite.                      *)
LEMMA FiniteParts ==
    ASSUME NEW b
    PROVE  /\ IsFiniteSet(BitsOf(b)) /\ Cardinality(BitsOf(b)) \in Nat
           /\ IsFiniteSet(RisingOf(b)) /\ Cardinality(RisingOf(b)) \in Nat
           /\ IsFiniteSet(FallingOf(b)) /\ Cardinality(FallingOf(b)) \in Nat
<1>1. IsFiniteSet(Threads)
  BY LeafAssumption, FS_Union DEF Threads
<1>2. /\ BitsOf(b) \in SUBSET Contracts
      /\ RisingOf(b) \in SUBSET Threads /\ FallingOf(b) \in SUBSET Threads
  BY DEF BitsOf, InBranch, RisingOf, FallingOf
<1>3. IsFiniteSet(BitsOf(b)) /\ IsFiniteSet(RisingOf(b)) /\ IsFiniteSet(FallingOf(b))
  BY <1>1, <1>2, LeafAssumption, FS_Subset
<1> QED
  BY <1>3, FS_CardinalityType

(* A thread about to count its bit never finds the counter at its cap: the *)
(* slots counted so far are distinct slots of the branch, its own aside.   *)
LEMMA NotFull ==
    ASSUME TypeOK, Shape, PlacedInv, NEW p, Pool = {p},
           NEW t \in Threads, pc[t] = "tree_count"
    PROVE  LET b == BranchOf[id[t]]
           IN  Cardinality(BitsOf(b)) + Cardinality(RisingOf(b)) + Cardinality(FallingOf(b))
                 < LeafWidth
<1> DEFINE b == BranchOf[id[t]]
           T == RisingOf(b) \cup FallingOf(b)
           f == [u \in T |-> id[u]]
<1>1. b \in Branches /\ IsFiniteSet(InBranch(b)) /\ Cardinality(InBranch(b)) <= LeafWidth
  <2>1. InBranch(b) \in SUBSET Contracts
    BY DEF InBranch
  <2>2. b \in Branches
    BY ConstantsAssumption DEF TypeOK
  <2> QED
    BY <2>1, <2>2, LeafAssumption, FS_Subset DEF InBranch
<1>2. BitsOf(b) \in SUBSET InBranch(b)
  BY DEF BitsOf
<1>3. id[t] \in InBranch(b) \ BitsOf(b)
  BY DEF TypeOK, PlacedInv, Placed, Entering, InBranch, BitsOf
<1>4. f \in [T -> InBranch(b)]
  BY DEF TypeOK, RisingOf, FallingOf, InBranch
<1>5. \A u \in FallingOf(b) :
        u = p /\ "EXECUTING" \in flags[id[u]] /\ id[u] \notin BitsOf(b)
  BY DEF FallingOf, BitsOf, PlacedInv, NoDeschedule, ClaimHeld, Executing, CallSteps,
         PoolSteps, Placed, Threads, TypeOK
<1>6. \A u \in RisingOf(b) :
        /\ "EXECUTING" \notin flags[id[u]] /\ id[u] \notin BitsOf(b) /\ u # t
        /\ id[u] # id[t]
        /\ \A v \in RisingOf(b) : id[u] = id[v] => u = v
  BY DEF RisingOf, BitsOf, PlacedInv, Placed, Entering
<1>7. "EXECUTING" \notin flags[id[t]]
  BY DEF PlacedInv, Placed, Entering
<1>8. \A x, y \in T : f[x] = f[y] => x = y
  BY <1>5, <1>6
<1>9. \A x \in T : f[x] \notin BitsOf(b) /\ f[x] # id[t]
  BY <1>5, <1>6, <1>7
<1>10. Cardinality(BitsOf(b)) + Cardinality(T) < Cardinality(InBranch(b))
  <2> HIDE DEF f, T
  <2> QED
    BY <1>1, <1>2, <1>3, <1>4, <1>8, <1>9, RoomLeft
<1>11. Cardinality(T) = Cardinality(RisingOf(b)) + Cardinality(FallingOf(b))
  <2>1. RisingOf(b) \cap FallingOf(b) = {}
    BY DEF RisingOf, FallingOf
  <2> QED
    BY <2>1, FiniteParts, Disjoint
<1>12. Cardinality(InBranch(b)) \in Nat
  BY <1>1, FS_CardinalityType
<1> HIDE DEF b, T
<1>13. Cardinality(BitsOf(b)) + Cardinality(RisingOf(b)) + Cardinality(FallingOf(b)) < LeafWidth
  BY <1>1, <1>10, <1>11, <1>12, FiniteParts, ConstantsAssumption
<1> QED
  BY <1>13 DEF b

(* Every step keeps the branch counters equal to what they count.          *)
LEMMA CounterStep ==
    ASSUME NEW p, Pool = {p}, TypeOK, Shape, TypeOK', PlacedInv, CounterCountsBits,
           [Next]_vars
    PROVE  CounterCountsBits'
<1> DEFINE Total(b) ==
             Cardinality(BitsOf(b)) + Cardinality(RisingOf(b)) + Cardinality(FallingOf(b))
           Quiet == /\ bit' = bit /\ count' = count
                    /\ \A u \in Threads :
                        /\ pc'[u] = "tree_bit" <=> pc[u] = "tree_bit"
                        /\ pc'[u] = "untree_count" <=> pc[u] = "untree_count"
                        /\ pc[u] \in {"tree_bit", "untree_count"} => id'[u] = id[u]
           Recounted == \A b \in Branches : count'[b] = Total(b)'
<1>0. \A b \in Branches : count[b] = Total(b)
  BY DEF CounterCountsBits, BitsOf, RisingOf, FallingOf
<1> SUFFICES Recounted
  BY DEF CounterCountsBits, BitsOf, RisingOf, FallingOf
<1>5. ASSUME Quiet PROVE Recounted
  <2>1. \A b \in Branches :
          BitsOf(b)' = BitsOf(b) /\ RisingOf(b)' = RisingOf(b) /\ FallingOf(b)' = FallingOf(b)
    BY <1>5 DEF BitsOf, InBranch, RisingOf, FallingOf
  <2> QED
    BY <1>5, <1>0, <2>1
<1>6. ASSUME NEW t \in Threads, TreeCount(t) PROVE Recounted
  <2>0. PICK c \in Contracts, d \in Branches : c = id[t] /\ d = BranchOf[c]
    BY ConstantsAssumption DEF TypeOK
  <2>1. /\ count' = [count EXCEPT ![d] = IF @ >= LeafWidth THEN @ ELSE @ + 1]
        /\ pc[t] = "tree_count" /\ pc' = [pc EXCEPT ![t] = "tree_bit"] /\ bit' = bit /\ id' = id
    BY <2>0, <1>6 DEF TreeCount, At, Goto
  <2>2. Total(d) < LeafWidth /\ d \in Branches
    BY <2>0, <2>1, NotFull, ConstantsAssumption DEF TypeOK
  <2>3. \A b \in Branches : BitsOf(b)' = BitsOf(b) /\ FallingOf(b)' = FallingOf(b)
    BY <2>0, <2>1 DEF BitsOf, InBranch, FallingOf, TypeOK
  <2>4. \A b \in Branches : b # d => RisingOf(b)' = RisingOf(b)
    BY <2>0, <2>1 DEF RisingOf, TypeOK
  <2>5. RisingOf(d)' = RisingOf(d) \cup {t} /\ t \notin RisingOf(d)
    BY <2>0, <2>1 DEF RisingOf, TypeOK
  <2>6. Cardinality(RisingOf(d)') = Cardinality(RisingOf(d)) + 1
    BY <2>0, <2>5, FiniteParts, OneMore
  <2>7. count'[d] = count[d] + 1 /\ \A b \in Branches : b # d => count'[b] = count[b]
    BY <1>0, <2>0, <2>1, <2>2, ConstantsAssumption DEF TypeOK
  <2>8. Total(d)' = Total(d) + 1 /\ \A b \in Branches : b # d => Total(b)' = Total(b)
    BY <2>0, <2>2, <2>3, <2>4, <2>6, FiniteParts
  <2> QED
    BY <1>0, <2>0, <2>2, <2>7, <2>8
<1>7. ASSUME NEW t \in Threads, TreeBit(t) PROVE Recounted
  <2>0. PICK c \in Contracts, d \in Branches : c = id[t] /\ d = BranchOf[c]
    BY ConstantsAssumption DEF TypeOK
  <2>1. /\ count' = count
        /\ pc[t] = "tree_bit" /\ pc' = [pc EXCEPT ![t] = ret[t]]
        /\ bit' = [bit EXCEPT ![c] = TRUE] /\ id' = id
    BY <2>0, <1>7 DEF TreeBit, At, Return, Goto
  <2>2. ~bit[c] /\ d \in Branches /\ ret[t] \notin {"tree_bit", "untree_count"}
    <3>1. ~bit[c]
      BY <2>0, <2>1 DEF PlacedInv, Placed, Entering
    <3>2. ret[t] \notin {"tree_bit", "untree_count"}
      BY DEF TypeOK, PoolSteps
    <3> QED
      BY <3>1, <3>2
  <2>3. \A b \in Branches : FallingOf(b)' = FallingOf(b)
    BY <2>0, <2>1, <2>2 DEF FallingOf, TypeOK
  <2>4. \A b \in Branches : b # d => RisingOf(b)' = RisingOf(b) /\ BitsOf(b)' = BitsOf(b)
    BY <2>0, <2>1, <2>2 DEF RisingOf, BitsOf, InBranch, TypeOK
  <2>5. /\ RisingOf(d)' = RisingOf(d) \ {t} /\ t \in RisingOf(d)
        /\ BitsOf(d)' = BitsOf(d) \cup {c} /\ c \notin BitsOf(d)
    BY <2>0, <2>1, <2>2 DEF RisingOf, BitsOf, InBranch, TypeOK
  <2>6. /\ Cardinality(RisingOf(d)') = Cardinality(RisingOf(d)) - 1
        /\ Cardinality(BitsOf(d)') = Cardinality(BitsOf(d)) + 1
    BY <2>0, <2>5, FiniteParts, OneMore, OneLess
  <2>8. \A b \in Branches : Total(b)' = Total(b)
    BY <2>0, <2>2, <2>3, <2>4, <2>6, FiniteParts
  <2> QED
    BY <1>0, <2>0, <2>1, <2>8
<1>8. ASSUME NEW t \in Threads, UntreeBit(t) PROVE Recounted
  <2>0. PICK c \in Contracts, d \in Branches : c = id[t] /\ d = BranchOf[c]
    BY ConstantsAssumption DEF TypeOK
  <2>1. /\ count' = count
        /\ pc[t] = "untree_bit" /\ pc' = [pc EXCEPT ![t] = "untree_count"]
        /\ bit' = [bit EXCEPT ![c] = FALSE] /\ id' = id
    BY <2>0, <1>8 DEF UntreeBit, At, Goto
  <2>2. bit[c] /\ d \in Branches
    BY <2>0, <2>1, ConstantsAssumption DEF TypeOK, PlacedInv, Placed, NoDeschedule, Threads
  <2>3. \A b \in Branches : RisingOf(b)' = RisingOf(b)
    BY <2>0, <2>1 DEF RisingOf, TypeOK
  <2>4. \A b \in Branches : b # d => FallingOf(b)' = FallingOf(b) /\ BitsOf(b)' = BitsOf(b)
    BY <2>0, <2>1, <2>2 DEF FallingOf, BitsOf, InBranch, TypeOK
  <2>5. /\ FallingOf(d)' = FallingOf(d) \cup {t} /\ t \notin FallingOf(d)
        /\ BitsOf(d)' = BitsOf(d) \ {c} /\ c \in BitsOf(d)
    BY <2>0, <2>1, <2>2 DEF FallingOf, BitsOf, InBranch, TypeOK
  <2>6. /\ Cardinality(FallingOf(d)') = Cardinality(FallingOf(d)) + 1
        /\ Cardinality(BitsOf(d)') = Cardinality(BitsOf(d)) - 1
    BY <2>0, <2>5, FiniteParts, OneMore, OneLess
  <2>8. \A b \in Branches : Total(b)' = Total(b)
    BY <2>0, <2>2, <2>3, <2>4, <2>6, FiniteParts
  <2> QED
    BY <1>0, <2>0, <2>1, <2>8
<1>9. ASSUME NEW t \in Threads, UntreeCount(t) PROVE Recounted
  <2>0. PICK c \in Contracts, d \in Branches : c = id[t] /\ d = BranchOf[c]
    BY ConstantsAssumption DEF TypeOK
  <2>1. /\ count' = [count EXCEPT ![d] = IF @ = 0 THEN 0 ELSE @ - 1]
        /\ pc[t] = "untree_count" /\ pc' = [pc EXCEPT ![t] = ret[t]] /\ bit' = bit /\ id' = id
    BY <2>0, <1>9 DEF UntreeCount, At, Return, Goto
  <2>2. d \in Branches /\ ret[t] \notin {"tree_bit", "untree_count"}
    BY <2>0, <2>1, ConstantsAssumption DEF TypeOK, PoolSteps
  <2>3. \A b \in Branches : BitsOf(b)' = BitsOf(b) /\ RisingOf(b)' = RisingOf(b)
    BY <2>0, <2>1, <2>2 DEF BitsOf, InBranch, RisingOf, TypeOK
  <2>4. \A b \in Branches : b # d => FallingOf(b)' = FallingOf(b)
    BY <2>0, <2>1, <2>2 DEF FallingOf, TypeOK
  <2>5. FallingOf(d)' = FallingOf(d) \ {t} /\ t \in FallingOf(d)
    BY <2>0, <2>1, <2>2 DEF FallingOf, TypeOK
  <2>6. /\ Cardinality(FallingOf(d)') = Cardinality(FallingOf(d)) - 1
        /\ Cardinality(FallingOf(d)') \in Nat
    BY <2>5, FiniteParts, OneLess
  <2>7. /\ Total(d)' = Total(d) - 1 /\ Total(d) > 0
        /\ \A b \in Branches : b # d => Total(b)' = Total(b)
    BY <2>0, <2>2, <2>3, <2>4, <2>6, FiniteParts
  <2>8. count'[d] = count[d] - 1 /\ \A b \in Branches : b # d => count'[b] = count[b]
    BY <1>0, <2>0, <2>1, <2>2, <2>7 DEF TypeOK
  <2> QED
    BY <1>0, <2>0, <2>2, <2>7, <2>8
<1> HIDE DEF Total, Recounted
<1> USE ConstantsAssumption DEF TypeOK, Threads, At, Goto, Return, treeVars, claimVars, groupVars,
                             CallSteps, PoolSteps
<1>11. ASSUME NEW t \in Threads, CallStep(t) PROVE Recounted
  <2>1. CASE SchedReleased(t)
    BY <2>1, <1>5 DEF SchedReleased, PlacedInv, NoDeschedule
  <2>2. CASE SchedDup(t)
    BY <2>2, <1>5 DEF SchedDup, PlacedInv, NoDeschedule
  <2>3. CASE SchedSet(t)
    BY <2>3, <1>5 DEF SchedSet, AddFlag, PlacedInv, NoDeschedule
  <2>4. CASE TreeCount(t)
    BY <2>4, <1>6
  <2>5. CASE TreeBit(t)
    BY <2>5, <1>7
  <2>6. CASE DeschedReleased(t)
    BY <2>6, <1>5 DEF DeschedReleased, PlacedInv, NoDeschedule
  <2>7. CASE DeschedCheck(t)
    BY <2>7, <1>5 DEF DeschedCheck, PlacedInv, NoDeschedule
  <2>8. CASE UntreeBit(t)
    BY <2>8, <1>8
  <2>9. CASE UntreeCount(t)
    BY <2>9, <1>9
  <2>10. CASE RelFlag(t)
    BY <2>10, <1>5 DEF RelFlag, AddFlag, PlacedInv, NoDeschedule
  <2>11. CASE RelCheck(t)
    BY <2>11, <1>5 DEF RelCheck, PlacedInv, NoDeschedule
  <2> QED
    BY <1>11, <2>1, <2>2, <2>3, <2>4, <2>5, <2>6, <2>7, <2>8, <2>9, <2>10, <2>11 DEF CallStep
<1>12. ASSUME NEW t \in Pool, PoolStep(t) PROVE Recounted
  <2>1. CASE Poll(t)
    BY <2>1, <1>5 DEF Poll, PlacedInv, NoDeschedule
  <2>2. ASSUME NEW c \in Contracts, ScanHit(t, c) PROVE Recounted
    BY <2>2, <1>5 DEF ScanHit, PlacedInv, NoDeschedule
  <2>3. ASSUME NEW b \in Branches, ScanMiss(t, b) PROVE Recounted
    BY <2>3, <1>5 DEF ScanMiss, PlacedInv, NoDeschedule
  <2>4. CASE ClaimLoad(t)
    BY <2>4, <1>5 DEF ClaimLoad, PlacedInv, NoDeschedule
  <2>5. CASE ClaimCheck(t)
    BY <2>5, <1>5 DEF ClaimCheck, PlacedInv, NoDeschedule
  <2>6. CASE ClaimCas(t)
    BY <2>6, <1>5 DEF ClaimCas, PlacedInv, NoDeschedule
  <2>7. CASE Dispatch(t)
    BY <2>7, <1>5 DEF Dispatch, PlacedInv, NoDeschedule
  <2>8. CASE BodyEnd(t)
    BY <2>8, <1>5 DEF BodyEnd, PlacedInv, NoDeschedule
  <2>9. CASE Finish(t)
    BY <2>9, <1>5 DEF Finish, PlacedInv, NoDeschedule
  <2>10. CASE Erase(t)
    BY <2>10, <1>5 DEF Erase, PlacedInv, NoDeschedule
  <2>11. ASSUME NEW op \in WorkerOps, BodyCall(t, op) PROVE Recounted
    BY <2>11, <1>5 DEF BodyCall, Call, Entry, PlacedInv, NoDeschedule
  <2> QED
    BY <1>12, <2>1, <2>2, <2>3, <2>4, <2>5, <2>6, <2>7, <2>8, <2>9, <2>10, <2>11 DEF PoolStep
<1>13. ASSUME NEW t \in Callers, CallerStep(t) PROVE Recounted
  <2>1. ASSUME NEW c \in Contracts, NEW f \in CreateFlags, Create(t, c, f) PROVE Recounted
    BY <2>1, <1>5 DEF Create, PlacedInv, NoDeschedule
  <2>2. CASE Handle(t)
    BY <2>2, <1>5 DEF Handle, PlacedInv, NoDeschedule
  <2>3. ASSUME NEW op \in CallerOps, NEW c \in Contracts, CallerCall(t, op, c) PROVE Recounted
    BY <2>3, <1>5 DEF CallerCall, Call, Entry, PlacedInv, NoDeschedule
  <2> QED
    BY <1>13, <2>1, <2>2, <2>3 DEF CallerStep
<1>14. CASE UNCHANGED vars
  BY <1>14, <1>5 DEF vars
<1> QED
  BY <1>11, <1>12, <1>13, <1>14 DEF Next

(* With one pool thread and no deschedule() the signal tree agrees with    *)
(* the workers, for any number of contracts, branches and callers: every   *)
(* ready bit stands for a request or is being cleared by the claim that    *)
(* consumed it, and every branch counter equals the bits it stands for.    *)
THEOREM TreeIsTruthful ==
    ASSUME NEW p, Pool = {p}, "deschedule" \notin CallerOps, "deschedule" \notin WorkerOps
    PROVE  Spec => []TreeAgrees
<1>1. Init => CounterCountsBits
  <2> SUFFICES ASSUME Init, NEW b \in Branches
               PROVE  count[b] = Cardinality({c \in InBranch(b) : bit[c]})
                         + Cardinality({t \in Threads : pc[t] = "tree_bit" /\ BranchOf[id[t]] = b})
                         + Cardinality({t \in Threads :
                                          pc[t] = "untree_count" /\ BranchOf[id[t]] = b})
    BY DEF CounterCountsBits
  <2>1. /\ {c \in InBranch(b) : bit[c]} = {}
        /\ {t \in Threads : pc[t] = "tree_bit" /\ BranchOf[id[t]] = b} = {}
        /\ {t \in Threads : pc[t] = "untree_count" /\ BranchOf[id[t]] = b} = {}
        /\ count[b] = 0
    BY DEF Init, InBranch, Threads
  <2> QED
    BY <2>1, FS_EmptySet
<1>2. TypeOK /\ Shape /\ PlacedInv /\ TypeOK' /\ CounterCountsBits /\ [Next]_vars
        => CounterCountsBits'
  BY CounterStep
<1>3. PlacedInv /\ CounterCountsBits => TreeAgrees
  BY DEF PlacedInv, Placed, TreeAgrees, ReadyIsRequested, LeavingTree, Threads
<1> QED
  BY <1>1, <1>2, <1>3, PlacedHolds, PTL DEF Spec

----------------------------------------------------------------------------
(* Refinement.                                                             *)

(* The contracts ContractAbs calls requested and running. *)
Req == {c \in Contracts : "SCHEDULED" \in flags[c]}
Run == {c \in Contracts : \E t \in Pool : Executing(t, c)}

(* A step that changes neither, and does not abort, is a stutter of        *)
(* ContractAbs.                                                            *)
LEMMA Stutters ==
    ASSUME Req' = Req, Run' = Run, aborted' = aborted
    PROVE  UNCHANGED Promise!vars
BY DEF Promise!vars, Req, Run

(* Every step of the group is a step of ContractAbs or a stutter: setting  *)
(* SCHEDULED is Request, the claim Start, ~AutoClearExecuteFlag End,       *)
(* ~AutoEraseContract TearDown, and the fatal log of a double schedule     *)
(* Abort.                                                                  *)
LEMMA PromiseStep ==
    ASSUME NEW p, Pool = {p}, TypeOK, Shape, PlacedInv, TypeOK', [Next]_vars
    PROVE  [Promise!Next]_(Promise!vars)
<1> USE ConstantsAssumption DEF TypeOK, Threads, At, Goto, Return, treeVars, claimVars, groupVars,
                             CallSteps, PoolSteps,
                             Shape, Separate, OnlyCreated, PlacedInv, NoDeschedule, ClaimHeld,
                             Placed, Executing, Req, Run
<1>1. ASSUME NEW t \in Threads, CallStep(t) PROVE [Promise!Next]_(Promise!vars)
  <2>1. CASE SchedReleased(t)
    BY <2>1, Stutters DEF SchedReleased
  <2>2. CASE SchedDup(t)
    <3>1. CASE "SCHEDULED" \in flags[id[t]]
      BY <2>2, <3>1 DEF SchedDup, Promise!Next, Promise!Abort
    <3>2. CASE "SCHEDULED" \notin flags[id[t]]
      BY <2>2, <3>2, Stutters DEF SchedDup
    <3> QED
      BY <3>1, <3>2
  <2>3. CASE SchedSet(t)
    <3>1. CASE "SCHEDULED" \notin flags[id[t]]
      BY <2>3, <3>1 DEF SchedSet, AddFlag, Promise!Next, Promise!Request
    <3>2. CASE "SCHEDULED" \in flags[id[t]]
      BY <2>3, <3>2, Stutters DEF SchedSet, AddFlag
    <3> QED
      BY <3>1, <3>2
  <2>4. CASE TreeCount(t)
    BY <2>4, Stutters DEF TreeCount
  <2>5. CASE TreeBit(t)
    BY <2>5, Stutters DEF TreeBit
  <2>6. CASE DeschedReleased(t)
    BY <2>6, Stutters DEF DeschedReleased
  <2>7. CASE DeschedCheck(t)
    BY <2>7, Stutters DEF DeschedCheck
  <2>8. CASE UntreeBit(t)
    BY <2>8, Stutters DEF UntreeBit
  <2>9. CASE UntreeCount(t)
    BY <2>9, Stutters DEF UntreeCount
  <2>10. CASE RelFlag(t)
    BY <2>10, Stutters DEF RelFlag, AddFlag
  <2>11. CASE RelCheck(t)
    BY <2>11, Stutters DEF RelCheck
  <2> QED
    BY <1>1, <2>1, <2>2, <2>3, <2>4, <2>5, <2>6, <2>7, <2>8, <2>9, <2>10, <2>11 DEF CallStep
<1>2. ASSUME NEW t \in Pool, PoolStep(t) PROVE [Promise!Next]_(Promise!vars)
  <2>1. CASE Poll(t)
    BY <2>1, Stutters DEF Poll
  <2>2. ASSUME NEW c \in Contracts, ScanHit(t, c) PROVE [Promise!Next]_(Promise!vars)
    BY <2>2, Stutters DEF ScanHit
  <2>3. ASSUME NEW b \in Branches, ScanMiss(t, b) PROVE [Promise!Next]_(Promise!vars)
    BY <2>3, Stutters DEF ScanMiss
  <2>4. CASE ClaimLoad(t)
    BY <2>4, Stutters DEF ClaimLoad
  <2>5. CASE ClaimCheck(t)
    BY <2>5, Stutters DEF ClaimCheck
  <2>6. CASE ClaimCas(t)
    <3>1. CASE flags[id[t]] = cur[t]
      BY <2>6, <3>1 DEF ClaimCas, Promise!Next, Promise!Start
    <3>2. CASE flags[id[t]] # cur[t]
      BY <2>6, <3>2, Stutters DEF ClaimCas
    <3> QED
      BY <3>1, <3>2
  <2>7. CASE Dispatch(t)
    BY <2>7, Stutters DEF Dispatch
  <2>8. CASE BodyEnd(t)
    BY <2>8, Stutters DEF BodyEnd
  <2>9. CASE Finish(t)
    BY <2>9 DEF Finish, Promise!Next, Promise!End
  <2>10. CASE Erase(t)
    BY <2>10 DEF Erase, Promise!Next, Promise!TearDown
  <2>11. ASSUME NEW op \in WorkerOps, BodyCall(t, op) PROVE [Promise!Next]_(Promise!vars)
    BY <2>11, Stutters DEF BodyCall, Call, Entry
  <2> QED
    BY <1>2, <2>1, <2>2, <2>3, <2>4, <2>5, <2>6, <2>7, <2>8, <2>9, <2>10, <2>11 DEF PoolStep
<1>3. ASSUME NEW t \in Callers, CallerStep(t) PROVE [Promise!Next]_(Promise!vars)
  <2>1. ASSUME NEW c \in Contracts, NEW f \in CreateFlags, Create(t, c, f)
        PROVE  [Promise!Next]_(Promise!vars)
    <3>1. CASE "SCHEDULED" \in f
      BY <2>1, <3>1 DEF Create, Promise!Next, Promise!Request
    <3>2. CASE "SCHEDULED" \notin f
      BY <2>1, <3>2, Stutters DEF Create
    <3> QED
      BY <3>1, <3>2
  <2>2. CASE Handle(t)
    BY <2>2, Stutters DEF Handle
  <2>3. ASSUME NEW op \in CallerOps, NEW c \in Contracts, CallerCall(t, op, c)
        PROVE  [Promise!Next]_(Promise!vars)
    BY <2>3, Stutters DEF CallerCall, Call, Entry
  <2> QED
    BY <1>3, <2>1, <2>2, <2>3 DEF CallerStep
<1>4. CASE UNCHANGED vars
  BY <1>4, Stutters DEF vars
<1> QED
  BY <1>1, <1>2, <1>3, <1>4 DEF Next


(* One pool thread implements the abstract scheduler, for any number of    *)
(* contracts and callers that do not deschedule: a contract runs only when *)
(* it was requested, its request is consumed by the run that serves it,    *)
(* and a request made during a run outlives it.                            *)
THEOREM RefinesPromise ==
    ASSUME NEW p, Pool = {p}, "deschedule" \notin CallerOps, "deschedule" \notin WorkerOps
    PROVE  Spec => Promise!Safety
<1>1. Init => Promise!Init
  BY DEF Init, Promise!Init, Executing, Threads, CallSteps
<1>2. TypeOK /\ Shape /\ PlacedInv /\ TypeOK' /\ [Next]_vars => [Promise!Next]_(Promise!vars)
  BY PromiseStep
<1> QED
  BY <1>1, <1>2, PlacedHolds, PTL DEF Spec, Promise!Safety
=============================================================================
