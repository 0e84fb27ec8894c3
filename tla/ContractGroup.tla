--------------------------- MODULE ContractGroup ---------------------------
(***************************************************************************)
(* The contract scheduler of core/contracts: a ContractGroup keeps one     *)
(* Worker per contract (an atomic set of flags) and a SignalTree (one      *)
(* ready bit per contract, one counter per branch of 64 bits).  Pool       *)
(* threads run process_next_contract() for ever; any thread may call       *)
(* schedule(), deschedule() and release() on a contract it holds.          *)
(*                                                                         *)
(* Every atomic access of the code is one step here.  What is abstracted:  *)
(* the order in which next() tries the branches and the bits of a leaf     *)
(* (module SignalTree models that order), the callables themselves, and    *)
(* the log and event calls, except that logger::fatal aborts the process.  *)
(***************************************************************************)
EXTENDS Naturals, FiniteSets

CONSTANTS
    Contracts,      \* the contract slots of the group
    Branches,       \* the branches (leaves) of the signal tree
    BranchOf,       \* the branch a slot's bit lives in
    LeafWidth,      \* bits of a leaf, the cap of a branch counter (64)
    Pool,           \* threads of the ContractThreadPool
    Callers,        \* threads that call the group from outside the pool
    CallerOps,      \* what Callers do: subset of {"schedule", "deschedule", "release"}
    WorkerOps,      \* what a worker body calls on itself through this_handler
    CreateFlags,    \* the states create() is asked for: {} (IDLE) or {"SCHEDULED"}
    MaxCalls        \* bound on the calls one caller makes

ASSUME ConstantsAssumption ==
    /\ Contracts # {}
    /\ BranchOf \in [Contracts -> Branches]
    /\ LeafWidth \in Nat /\ LeafWidth > 0
    /\ MaxCalls \in Nat
    /\ Pool \cap Callers = {}
    /\ CallerOps \subseteq {"schedule", "deschedule", "release"}
    /\ WorkerOps \subseteq {"schedule", "deschedule", "release"}
    /\ CreateFlags \subseteq {{}, {"SCHEDULED"}}

(* The pool, the callers and the slots are finite, and a leaf has a bit for *)
(* each slot of its branch.                                                 *)
ASSUME LeafAssumption ==
    /\ IsFiniteSet(Contracts) /\ IsFiniteSet(Pool) /\ IsFiniteSet(Callers)
    /\ \A b \in Branches : Cardinality({c \in Contracts : BranchOf[c] = b}) <= LeafWidth

VARIABLES
    flags,      \* Worker::m_flags of each slot
    bit,        \* the leaf bit of each slot
    count,      \* the router's counter of each branch
    pc,         \* where each thread is
    id,         \* the slot each thread is working on
    ret,        \* where a thread goes when the group call it makes returns
    cur,        \* try_claim_execution(): the expected value of its CAS
    cand,       \* next(): branches whose counter was read nonzero and not yet scanned
    left,       \* calls a caller may still make
    slot,       \* "free" until create() takes the id, "live", "erased" by a release
    handles,    \* slots whose create() has returned a Contract
    freed,      \* times the releaser of a slot has run (2 stands for "2 or more")
    aborted     \* logger::fatal has aborted the process

vars == <<flags, bit, count, pc, id, ret, cur, cand, left, slot, handles, freed, aborted>>

Threads == Pool \cup Callers

Flag == {"SCHEDULED", "EXECUTING", "RELEASED"}

(* Steps of a call into the group, whoever makes it. *)
CallSteps == {"sched_released", "sched_dup", "sched_set", "tree_count", "tree_bit",
              "desched_released", "desched_check", "untree_bit", "untree_count",
              "rel_flag", "rel_check", "handle"}

(* Steps of process_next_contract() itself. *)
PoolSteps == {"poll", "scan", "claim_load", "claim_check", "claim_cas",
              "dispatch", "run", "finish", "releasing"}

TypeOK ==
    /\ flags \in [Contracts -> SUBSET Flag]
    /\ bit \in [Contracts -> BOOLEAN]
    /\ count \in [Branches -> 0..LeafWidth]
    /\ pc \in [Threads -> CallSteps \cup PoolSteps \cup {"idle"}]
    /\ id \in [Threads -> Contracts]
    /\ ret \in [Threads -> PoolSteps \cup {"idle", "handle"}]
    /\ cur \in [Threads -> SUBSET Flag]
    /\ cand \in [Threads -> SUBSET Branches]
    /\ left \in [Callers -> 0..MaxCalls]
    /\ slot \in [Contracts -> {"free", "live", "erased"}]
    /\ handles \subseteq Contracts
    /\ freed \in [Contracts -> 0..2]
    /\ aborted \in BOOLEAN

(* An empty group: no flag set, nothing on the tree, no id handed out. *)
Init ==
    /\ flags = [c \in Contracts |-> {}]
    /\ bit = [c \in Contracts |-> FALSE]
    /\ count = [b \in Branches |-> 0]
    /\ pc = [t \in Threads |-> IF t \in Pool THEN "poll" ELSE "idle"]
    /\ id \in [Threads -> {CHOOSE c \in Contracts : TRUE}]
    /\ ret = [t \in Threads |-> IF t \in Pool THEN "poll" ELSE "idle"]
    /\ cur = [t \in Threads |-> {}]
    /\ cand = [t \in Threads |-> {}]
    /\ left = [t \in Callers |-> MaxCalls]
    /\ slot = [c \in Contracts |-> "free"]
    /\ handles = {}
    /\ freed = [c \in Contracts |-> 0]
    /\ aborted = FALSE

----------------------------------------------------------------------------
(* Building blocks.                                                        *)

At(t, step) == ~aborted /\ pc[t] = step
Goto(t, step) == pc' = [pc EXCEPT ![t] = step]
Return(t) == Goto(t, ret[t])

Entry(op) == CASE op = "schedule"   -> "sched_released"
               [] op = "deschedule" -> "desched_released"
               [] op = "release"    -> "rel_flag"

(* A call of the group on slot c that continues at step r when it returns. *)
Call(t, op, c, r) ==
    /\ Goto(t, Entry(op))
    /\ id' = [id EXCEPT ![t] = c]
    /\ ret' = [ret EXCEPT ![t] = r]

AddFlag(c, f) == flags' = [flags EXCEPT ![c] = @ \cup {f}]

treeVars == <<bit, count>>
claimVars == <<cur, cand>>
groupVars == <<left, slot, handles, freed, aborted>>

----------------------------------------------------------------------------
(* ContractGroup::schedule(c).                                             *)

(* A released worker is never scheduled again. *)
SchedReleased(t) ==
    /\ At(t, "sched_released")
    /\ IF "RELEASED" \in flags[id[t]] THEN Return(t) ELSE Goto(t, "sched_dup")
    /\ UNCHANGED <<flags, treeVars, id, ret, claimVars, groupVars>>

(* Scheduling a scheduled worker is fatal: the process aborts. *)
SchedDup(t) ==
    /\ At(t, "sched_dup")
    /\ IF "SCHEDULED" \in flags[id[t]]
       THEN aborted' = TRUE /\ UNCHANGED pc
       ELSE Goto(t, "sched_set") /\ UNCHANGED aborted
    /\ UNCHANGED <<flags, treeVars, id, ret, claimVars, left, slot, handles, freed>>

(* Worker::schedule(): only the caller that found neither flag set touches *)
(* the tree; a running worker is put back by ~AutoClearExecuteFlag.        *)
SchedSet(t) ==
    /\ At(t, "sched_set")
    /\ AddFlag(id[t], "SCHEDULED")
    /\ IF flags[id[t]] \cap {"SCHEDULED", "EXECUTING"} = {}
       THEN Goto(t, "tree_count")
       ELSE Return(t)
    /\ UNCHANGED <<treeVars, id, ret, claimVars, groupVars>>

(* SignalTree::schedule(): the branch counter first, capped, ... *)
TreeCount(t) ==
    /\ At(t, "tree_count")
    /\ count' = [count EXCEPT ![BranchOf[id[t]]] = IF @ >= LeafWidth THEN @ ELSE @ + 1]
    /\ Goto(t, "tree_bit")
    /\ UNCHANGED <<flags, bit, id, ret, claimVars, groupVars>>

(* ... then the leaf bit. *)
TreeBit(t) ==
    /\ At(t, "tree_bit")
    /\ bit' = [bit EXCEPT ![id[t]] = TRUE]
    /\ Return(t)
    /\ UNCHANGED <<flags, count, id, ret, claimVars, groupVars>>

----------------------------------------------------------------------------
(* ContractGroup::deschedule(c).                                           *)

DeschedReleased(t) ==
    /\ At(t, "desched_released")
    /\ IF "RELEASED" \in flags[id[t]] THEN Return(t) ELSE Goto(t, "desched_check")
    /\ UNCHANGED <<flags, treeVars, id, ret, claimVars, groupVars>>

(* Not scheduled is fatal.  Otherwise the slot leaves the tree; the        *)
(* add_flags(IDLE) that follows ORs zero into the flags and changes none.  *)
DeschedCheck(t) ==
    /\ At(t, "desched_check")
    /\ IF "SCHEDULED" \in flags[id[t]]
       THEN Goto(t, "untree_bit") /\ UNCHANGED aborted
       ELSE aborted' = TRUE /\ UNCHANGED pc
    /\ UNCHANGED <<flags, treeVars, id, ret, claimVars, left, slot, handles, freed>>

(* SignalTree::deschedule(): the leaf bit first, ... *)
UntreeBit(t) ==
    /\ At(t, "untree_bit")
    /\ bit' = [bit EXCEPT ![id[t]] = FALSE]
    /\ Goto(t, "untree_count")
    /\ UNCHANGED <<flags, count, id, ret, claimVars, groupVars>>

(* Mutants: the counter is not given back, or wraps below zero. *)
UntreeCount_Leaks(t) ==
    /\ At(t, "untree_count")
    /\ Return(t)
    /\ UNCHANGED <<flags, treeVars, id, ret, claimVars, groupVars>>
UntreeCount_Wraps(t) ==
    /\ At(t, "untree_count")
    /\ count' = [count EXCEPT ![BranchOf[id[t]]] = (@ + 255) % 256]
    /\ Return(t)
    /\ UNCHANGED <<flags, bit, id, ret, claimVars, groupVars>>

(* ... then the branch counter, which never goes below zero. *)
UntreeCount(t) ==
    /\ At(t, "untree_count")
    /\ count' = [count EXCEPT ![BranchOf[id[t]]] = IF @ = 0 THEN 0 ELSE @ - 1]
    /\ Return(t)
    /\ UNCHANGED <<flags, bit, id, ret, claimVars, groupVars>>

----------------------------------------------------------------------------
(* ContractGroup::release(c).                                              *)

RelFlag(t) ==
    /\ At(t, "rel_flag")
    /\ AddFlag(id[t], "RELEASED")
    /\ Goto(t, "rel_check")
    /\ UNCHANGED <<treeVars, id, ret, claimVars, groupVars>>

(* "force it there": schedule() is called when the slot is not scheduled. *)
RelCheck(t) ==
    /\ At(t, "rel_check")
    /\ IF "SCHEDULED" \in flags[id[t]] THEN Return(t) ELSE Goto(t, "sched_released")
    /\ UNCHANGED <<flags, treeVars, id, ret, claimVars, groupVars>>

----------------------------------------------------------------------------
(* ContractGroup::process_next_contract(), the loop of a pool thread.      *)

(* SignalTree::next() reads the branch counters of a router in one load.   *)
Poll(t) ==
    /\ t \in Pool /\ At(t, "poll")
    /\ cand' = [cand EXCEPT ![t] = {b \in Branches : count[b] > 0}]
    /\ Goto(t, IF cand'[t] = {} THEN "poll" ELSE "scan")
    /\ UNCHANGED <<flags, treeVars, id, ret, cur, groupVars>>

(* It then loads the leaves of those branches until one has a bit set. *)
ScanHit(t, c) ==
    /\ At(t, "scan")
    /\ BranchOf[c] \in cand[t] /\ bit[c]
    /\ id' = [id EXCEPT ![t] = c]
    /\ Goto(t, "claim_load")
    /\ UNCHANGED <<flags, treeVars, ret, claimVars, groupVars>>

ScanMiss(t, b) ==
    /\ At(t, "scan")
    /\ b \in cand[t] /\ \A c \in Contracts : BranchOf[c] = b => ~bit[c]
    /\ cand' = [cand EXCEPT ![t] = @ \ {b}]
    /\ Goto(t, IF cand'[t] = {} THEN "poll" ELSE "scan")
    /\ UNCHANGED <<flags, treeVars, id, ret, cur, groupVars>>

(* Worker::try_claim_execution(): snapshot the flags, ... *)
ClaimLoad(t) ==
    /\ At(t, "claim_load")
    /\ cur' = [cur EXCEPT ![t] = flags[id[t]]]
    /\ Goto(t, "claim_check")
    /\ UNCHANGED <<flags, treeVars, id, ret, cand, groupVars>>

(* ... give up if SCHEDULED is gone by now (a second load), ... *)
ClaimCheck(t) ==
    /\ At(t, "claim_check")
    /\ Goto(t, IF "SCHEDULED" \in flags[id[t]] THEN "claim_cas" ELSE "poll")
    /\ UNCHANGED <<flags, treeVars, id, ret, claimVars, groupVars>>

(* Mutant: SCHEDULED survives the swap. *)
ClaimCas_KeepsRequest(t) ==
    /\ At(t, "claim_cas") /\ flags[id[t]] = cur[t]
    /\ flags' = [flags EXCEPT ![id[t]] = @ \cup {"EXECUTING"}]
    /\ Goto(t, "untree_bit")
    /\ ret' = [ret EXCEPT ![t] = "dispatch"]
    /\ UNCHANGED <<treeVars, id, claimVars, groupVars>>

(* ... and swap SCHEDULED for EXECUTING if the flags are still the         *)
(* snapshot; a failed CAS refreshes the snapshot and checks again.  The    *)
(* winner takes the slot off the tree before it runs it.                   *)
ClaimCas(t) ==
    /\ At(t, "claim_cas")
    /\ IF flags[id[t]] = cur[t]
       THEN /\ flags' = [flags EXCEPT ![id[t]] = (@ \ {"SCHEDULED"}) \cup {"EXECUTING"}]
            /\ Goto(t, "untree_bit")
            /\ ret' = [ret EXCEPT ![t] = "dispatch"]
            /\ UNCHANGED cur
       ELSE /\ cur' = [cur EXCEPT ![t] = flags[id[t]]]
            /\ Goto(t, "claim_check")
            /\ UNCHANGED <<flags, ret>>
    /\ UNCHANGED <<treeVars, id, cand, groupVars>>

(* A released contract runs its releaser if the slot still has one, any    *)
(* other its worker.                                                       *)
Dispatch(t) ==
    /\ At(t, "dispatch")
    /\ IF "RELEASED" \in flags[id[t]]
       THEN /\ freed' = [freed EXCEPT ![id[t]] =
                            IF slot[id[t]] = "live" /\ @ < 2 THEN @ + 1 ELSE @]
            /\ Goto(t, "releasing")
       ELSE Goto(t, "run") /\ UNCHANGED freed
    /\ UNCHANGED <<flags, treeVars, id, ret, claimVars, left, slot, handles, aborted>>

(* The worker body calls the group on its own slot through this_handler. *)
BodyCall(t, op) ==
    /\ At(t, "run") /\ op \in WorkerOps
    /\ Call(t, op, id[t], "run")
    /\ UNCHANGED <<flags, treeVars, claimVars, groupVars>>

(* The worker body returns, or throws into its error handler. *)
BodyEnd(t) ==
    /\ At(t, "run")
    /\ Goto(t, "finish")
    /\ UNCHANGED <<flags, treeVars, id, ret, claimVars, groupVars>>

(* Mutant: a request made while the worker ran is forgotten. *)
Finish_Forgets(t) ==
    /\ At(t, "finish")
    /\ flags' = [flags EXCEPT ![id[t]] = @ \ {"EXECUTING"}]
    /\ Goto(t, "poll")
    /\ ret' = [ret EXCEPT ![t] = "poll"]
    /\ UNCHANGED <<treeVars, id, claimVars, groupVars>>

(* ~AutoClearExecuteFlag(): a request made during the run goes to the tree. *)
Finish(t) ==
    /\ At(t, "finish")
    /\ flags' = [flags EXCEPT ![id[t]] = @ \ {"EXECUTING"}]
    /\ Goto(t, IF "SCHEDULED" \in flags[id[t]] THEN "tree_count" ELSE "poll")
    /\ ret' = [ret EXCEPT ![t] = "poll"]
    /\ UNCHANGED <<treeVars, id, claimVars, groupVars>>

(* Mutant: the flags are reset but the callables stay installed. *)
Erase_KeepsReleaser(t) ==
    /\ At(t, "releasing")
    /\ flags' = [flags EXCEPT ![id[t]] = {}]
    /\ Goto(t, "poll")
    /\ ret' = [ret EXCEPT ![t] = "poll"]
    /\ UNCHANGED <<treeVars, id, claimVars, groupVars>>

(* The releaser has returned or thrown: ~AutoEraseContract() resets the    *)
(* slot, flags included.  The id is not handed out again.                  *)
Erase(t) ==
    /\ At(t, "releasing")
    /\ flags' = [flags EXCEPT ![id[t]] = {}]
    /\ slot' = [slot EXCEPT ![id[t]] = "erased"]
    /\ Goto(t, "poll")
    /\ ret' = [ret EXCEPT ![t] = "poll"]
    /\ UNCHANGED <<treeVars, id, claimVars, left, handles, freed, aborted>>

----------------------------------------------------------------------------
(* ContractGroup::create(): free_contract_id() hands out an id nobody had, *)
(* the worker is installed with the flags of the requested state, and a    *)
(* SCHEDULED one goes to the tree before the caller has its Contract.      *)
Create(t, c, f) ==
    /\ At(t, "idle") /\ slot[c] = "free"
    /\ slot' = [slot EXCEPT ![c] = "live"]
    /\ flags' = [flags EXCEPT ![c] = f]
    /\ id' = [id EXCEPT ![t] = c]
    /\ ret' = [ret EXCEPT ![t] = "handle"]
    /\ Goto(t, IF "SCHEDULED" \in f THEN "tree_count" ELSE "handle")
    /\ UNCHANGED <<treeVars, claimVars, left, handles, freed, aborted>>

(* create() returns the Contract, which other threads may now be given. *)
Handle(t) ==
    /\ At(t, "handle")
    /\ handles' = handles \cup {id[t]}
    /\ ret' = [ret EXCEPT ![t] = "idle"]
    /\ Goto(t, "idle")
    /\ UNCHANGED <<flags, treeVars, id, claimVars, left, slot, freed, aborted>>

(* A thread outside the pool calls the group through a Contract. *)
CallerCall(t, op, c) ==
    /\ At(t, "idle") /\ left[t] > 0 /\ op \in CallerOps /\ c \in handles
    /\ left' = [left EXCEPT ![t] = @ - 1]
    /\ Call(t, op, c, "idle")
    /\ UNCHANGED <<flags, treeVars, claimVars, slot, handles, freed, aborted>>

CallStep(t) ==
    \/ SchedReleased(t) \/ SchedDup(t) \/ SchedSet(t) \/ TreeCount(t) \/ TreeBit(t)
    \/ DeschedReleased(t) \/ DeschedCheck(t) \/ UntreeBit(t) \/ UntreeCount(t)
    \/ RelFlag(t) \/ RelCheck(t)

PoolStep(t) ==
    \/ Poll(t)
    \/ \E c \in Contracts : ScanHit(t, c)
    \/ \E b \in Branches : ScanMiss(t, b)
    \/ ClaimLoad(t) \/ ClaimCheck(t) \/ ClaimCas(t)
    \/ Dispatch(t) \/ BodyEnd(t) \/ Finish(t) \/ Erase(t)
    \/ \E op \in WorkerOps : BodyCall(t, op)

CallerStep(t) ==
    \/ \E c \in Contracts, f \in CreateFlags : Create(t, c, f)
    \/ Handle(t)
    \/ \E op \in CallerOps, c \in Contracts : CallerCall(t, op, c)

Next ==
    \/ \E t \in Threads : CallStep(t)
    \/ \E t \in Pool : PoolStep(t)
    \/ \E t \in Callers : CallerStep(t)

Spec == Init /\ [][Next]_vars

(* Pool threads and callers keep taking their steps; a worker body returns *)
(* in the end; and, of the slots whose bits stay set in a leaf, the        *)
(* rotating cursor of next() reaches every one.                            *)
Fairness ==
    /\ \A t \in Threads : WF_vars(CallStep(t))
    /\ \A t \in Pool : WF_vars(PoolStep(t)) /\ SF_vars(BodyEnd(t))
    /\ \A t \in Pool, c \in Contracts : SF_vars(ScanHit(t, c))
    /\ \A t \in Callers : WF_vars(Handle(t))

FairSpec == Spec /\ Fairness

----------------------------------------------------------------------------
(* Properties.                                                             *)

EnteringTree(c) == \E t \in Threads : id[t] = c /\ pc[t] \in {"tree_count", "tree_bit"}
LeavingTree(c) == \E t \in Threads : id[t] = c /\ pc[t] = "untree_bit"

(* Thread t has claimed slot c and has not yet finished with it. *)
Executing(t, c) ==
    /\ t \in Pool /\ id[t] = c
    /\ \/ pc[t] \in {"dispatch", "run", "finish", "releasing"}
       \/ pc[t] \in CallSteps /\ ret[t] \in {"dispatch", "run"}

(* A request to run is never lost: whenever a worker is flagged SCHEDULED  *)
(* and is not running, its ready bit is set or some thread is about to set *)
(* it, however schedule(), release(), create() and the pool interleave.    *)
NoLostWakeup ==
    \A c \in Contracts :
        "SCHEDULED" \in flags[c] /\ "EXECUTING" \notin flags[c]
            => bit[c] \/ EnteringTree(c)

(* A ready bit belongs to a worker that asked to run, or is about to be    *)
(* cleared: next() never returns a slot that process_next_contract() can   *)
(* neither claim nor take off the tree.                                    *)
ReadyIsRequested ==
    \A c \in Contracts : bit[c] => "SCHEDULED" \in flags[c] \/ LeavingTree(c)

InBranch(b) == {c \in Contracts : BranchOf[c] = b}

(* The branch counter a router is searched by counts the branch's bits,    *)
(* those being set and those just cleared included: a set bit is never     *)
(* hidden behind a counter that reads zero.                                *)
CounterCountsBits ==
    \A b \in Branches :
        count[b] = Cardinality({c \in InBranch(b) : bit[c]})
                 + Cardinality({t \in Threads : pc[t] = "tree_bit" /\ BranchOf[id[t]] = b})
                 + Cardinality({t \in Threads : pc[t] = "untree_count" /\ BranchOf[id[t]] = b})

(* The tree tells the truth about the workers: a ready bit stands for a    *)
(* request, and a branch's counter for its bits once nobody is between the *)
(* two updates of SignalTree::schedule() or deschedule().                  *)
TreeAgrees == ReadyIsRequested /\ CounterCountsBits

(* try_claim_execution() lets only one caller win the claim on a ready     *)
(* worker: no contract is run by two pool threads at a time (a slot that   *)
(* was erased has an empty worker, and running it does nothing).           *)
MutualExclusion ==
    \A c \in Contracts, t \in Pool, u \in Pool :
        slot[c] = "live" /\ Executing(t, c) /\ Executing(u, c) => t = u

(* The releaser of a contract runs at most once, whatever calls race with  *)
(* the release.                                                            *)
ReleasedOnce == \A c \in Contracts : freed[c] <= 1

(* release() makes sure the contract is scheduled so that the pool gets to *)
(* run its releaser: a released contract is torn down in the end.          *)
ReleaseIsProcessed ==
    \A c \in Contracts : "RELEASED" \in flags[c] ~> "RELEASED" \notin flags[c] \/ aborted

(* deschedule() pulls a worker off the run queue and marks it IDLE: a live *)
(* contract that is on nobody's way to the tree, not on it and not running *)
(* has no SCHEDULED flag left.                                             *)
ParkedIsIdle ==
    \A c \in Contracts :
        /\ c \in handles /\ ~bit[c] /\ ~EnteringTree(c)
        /\ \A t \in Threads : id[t] = c => pc[t] \in {"idle", "poll", "scan"}
        => "SCHEDULED" \notin flags[c]

(* What the group promises, seen through its flags and its pool threads. *)
Promise == INSTANCE ContractAbs WITH
    requested <- {c \in Contracts : "SCHEDULED" \in flags[c]},
    running <- {c \in Contracts : \E t \in Pool : Executing(t, c)},
    dead <- aborted

(* One pool thread with any callers implements the abstract scheduler:     *)
(* runs are requested, one at a time, and every request is served.         *)
KeepsPromise == Promise!Spec
=============================================================================
