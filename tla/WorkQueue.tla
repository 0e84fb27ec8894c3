----------------------------- MODULE WorkQueue -----------------------------
(***************************************************************************)
(* The queue that drains itself on one contract: connector::Connector's    *)
(* operation queue (with a database backend) and RouterExecutor's request  *)
(* queue, which mirrors it line for line.  enqueue() pushes under          *)
(* m_pending_mutex and wakes the contract only on the idle-to-work edge;   *)
(* on_execute() runs one operation per turn and schedules itself again     *)
(* while there is more.  An operation may enqueue others from inside its   *)
(* own completion callback (a synchronous backend fires it inline).        *)
(*                                                                         *)
(* The contract underneath is the abstract scheduler of ContractAbs: a     *)
(* second schedule() before the first is consumed aborts the process.      *)
(***************************************************************************)
EXTENDS Naturals, Sequences, SequencesExt

CONSTANTS
    Ops,        \* operations, or requests
    Chained,    \* operation -> the operations it enqueues while it runs
    MayStop     \* whether the host's shutdown happens

ASSUME WorkQueueAssumption ==
    /\ Chained \in [Ops -> SUBSET Ops]
    /\ MayStop \in BOOLEAN
    /\ "none" \notin Ops

VARIABLES
    requested, running, dead,   \* the contract (module ContractAbs)
    pending,    \* m_pending
    executing,  \* m_executing
    wired,      \* m_wake is set
    released,   \* the host has released the contract
    step,       \* where on_execute() is
    current,    \* the operation being run, or None
    chain,      \* operations the current one still has to enqueue
    fresh,      \* operations no thread has enqueued yet
    arrived,    \* every operation enqueued so far, in order
    done        \* every operation run so far, in order

Queue == "queue"
None == "none"

Contract == INSTANCE ContractAbs WITH Contracts <- {Queue}

contractVars == <<requested, running, dead>>
queueVars == <<pending, executing, wired, released>>
workVars == <<current, chain, fresh, arrived, done>>
vars == <<contractVars, queueVars, step, workVars>>

Steps == {"parked", "take", "op", "after", "resched", "exit"}

TypeOK ==
    /\ requested \subseteq {Queue} /\ running \subseteq {Queue} /\ dead \in BOOLEAN
    /\ pending \in Seq(Ops) /\ executing \in BOOLEAN
    /\ wired \in BOOLEAN /\ released \in BOOLEAN
    /\ step \in Steps
    /\ current \in Ops \cup {None}
    /\ chain \subseteq Ops /\ fresh \subseteq Ops
    /\ arrived \in Seq(Ops) /\ done \in Seq(Ops)

(* The state once the host has created the contract IDLE and set the wake; *)
(* operations that only another operation enqueues are not fresh.          *)
Init ==
    /\ Contract!Init
    /\ pending = <<>> /\ executing = FALSE
    /\ wired = TRUE /\ released = FALSE
    /\ step = "parked" /\ current = None /\ chain = {}
    /\ fresh = Ops \ UNION {Chained[o] : o \in Ops}
    /\ arrived = <<>> /\ done = <<>>

----------------------------------------------------------------------------
(* Contract::schedule(): nothing for a released contract, fatal when the   *)
(* request before is not consumed.                                         *)
Schedule ==
    IF released THEN UNCHANGED contractVars
    ELSE IF Queue \in requested THEN Contract!Abort ELSE Contract!Request(Queue)

(* Mutant: enqueue() without the m_executing test. *)
Push_IgnoresExecuting(o) ==
    /\ pending' = Append(pending, o)
    /\ arrived' = Append(arrived, o)
    /\ IF pending = <<>> /\ wired THEN Schedule ELSE UNCHANGED contractVars
    /\ UNCHANGED <<executing, wired, released, current, done>>

(* enqueue(): the whole of it runs under m_pending_mutex. *)
Push(o) ==
    /\ pending' = Append(pending, o)
    /\ arrived' = Append(arrived, o)
    /\ IF pending = <<>> /\ ~executing /\ wired THEN Schedule ELSE UNCHANGED contractVars
    /\ UNCHANGED <<executing, wired, released, current, done>>

(* A request handler or receiver thread enqueues an operation. *)
Enqueue(o) ==
    /\ ~dead /\ o \in fresh
    /\ Push(o)
    /\ fresh' = fresh \ {o}
    /\ UNCHANGED <<step, chain>>

(* The operation being run enqueues its next step. *)
Reenter(o) ==
    /\ ~dead /\ step = "op" /\ o \in chain
    /\ Push(o)
    /\ chain' = chain \ {o}
    /\ UNCHANGED <<step, fresh>>

(* A pool thread claims the contract and calls on_execute(); a released    *)
(* contract's turn runs its releaser instead.                              *)
Turn ==
    /\ ~released
    /\ Contract!Start(Queue)
    /\ step' = "take"
    /\ UNCHANGED <<queueVars, workVars>>

(* Mutant: the newest operation is taken first. *)
Take_Newest ==
    /\ ~dead /\ step = "take"
    /\ IF pending = <<>>
       THEN step' = "exit" /\ UNCHANGED <<pending, executing, current, chain>>
       ELSE /\ current' = Last(pending) /\ chain' = Chained[Last(pending)]
            /\ pending' = Front(pending)
            /\ executing' = TRUE
            /\ step' = "op"
    /\ UNCHANGED <<contractVars, wired, released, fresh, arrived, done>>

(* First critical section: nothing queued, or pop the oldest. *)
Take ==
    /\ ~dead /\ step = "take"
    /\ IF pending = <<>>
       THEN step' = "exit" /\ UNCHANGED <<pending, executing, current, chain>>
       ELSE /\ current' = Head(pending) /\ chain' = Chained[Head(pending)]
            /\ pending' = Tail(pending)
            /\ executing' = TRUE
            /\ step' = "op"
    /\ UNCHANGED <<contractVars, wired, released, fresh, arrived, done>>

(* The operation returns, having enqueued what it chains into. *)
OpReturns ==
    /\ ~dead /\ step = "op" /\ chain = {}
    /\ step' = "after" /\ done' = Append(done, current) /\ current' = None
    /\ UNCHANGED <<contractVars, queueVars, chain, fresh, arrived>>

(* Mutant: what the operation pushed is left to a wake nobody sends. *)
After_NoReschedule ==
    /\ ~dead /\ step = "after"
    /\ executing' = FALSE
    /\ step' = "exit"
    /\ UNCHANGED <<contractVars, pending, wired, released, workVars>>

(* Mutant: m_executing is never reset. *)
After_StaysExecuting ==
    /\ ~dead /\ step = "after"
    /\ step' = IF pending = <<>> THEN "exit" ELSE "resched"
    /\ UNCHANGED <<contractVars, queueVars, workVars>>

(* Second critical section: decide whether there is more. *)
After ==
    /\ ~dead /\ step = "after"
    /\ executing' = FALSE
    /\ step' = IF pending = <<>> THEN "exit" ELSE "resched"
    /\ UNCHANGED <<contractVars, pending, wired, released, workVars>>

(* this_handler::shedule(), outside the mutex. *)
Reschedule ==
    /\ ~dead /\ step = "resched"
    /\ Schedule
    /\ step' = "exit"
    /\ UNCHANGED <<queueVars, workVars>>

Exit ==
    /\ step = "exit"
    /\ Contract!End(Queue)
    /\ step' = "parked"
    /\ UNCHANGED <<queueVars, workVars>>

(* AppContext::stop() clears the wake before it releases the contracts. *)
Stop ==
    /\ ~dead /\ MayStop /\ wired
    /\ wired' = FALSE
    /\ UNCHANGED <<contractVars, pending, executing, released, step, workVars>>

(* ContractRegistry::release_all() comes next. *)
Release ==
    /\ ~dead /\ ~wired /\ ~released
    /\ released' = TRUE
    /\ UNCHANGED <<contractVars, pending, executing, wired, step, workVars>>

OnExecute == Turn \/ Take \/ OpReturns \/ After \/ Reschedule \/ Exit

Next == OnExecute \/ Stop \/ Release \/ \E o \in Ops : Enqueue(o) \/ Reenter(o)

Spec == Init /\ [][Next]_vars

(* The pool keeps turning contracts over and an operation returns; nobody  *)
(* is obliged to enqueue anything or to stop the host.                     *)
FairSpec == Spec /\ WF_vars(OnExecute) /\ WF_vars(\E o \in Ops : Reenter(o))

----------------------------------------------------------------------------
(* No thread ever schedules the contract while its last request is still   *)
(* unconsumed: enqueue()'s was_idle/m_executing test and on_execute()'s    *)
(* has_more test never both decide to wake.                                *)
NeverDoubleSchedules == ~dead

(* Work is never left behind: while the wake is wired, a nonempty queue    *)
(* has a request pending or a turn under way that will look at it.         *)
NoStrandedWork ==
    wired /\ pending # <<>> =>
        Queue \in requested \/ step \in {"take", "op", "after", "resched"}

(* Operations run one at a time, in the order they were enqueued, each     *)
(* once: enqueue order = run so far, then the current one, then pending.   *)
RunsInOrder ==
    arrived = done \o (IF current = None THEN <<>> ELSE <<current>>) \o pending

(* Every operation enqueued while the host runs is eventually run. *)
EveryOpRuns == \A o \in Ops : o \in ToSet(arrived) ~> (o \in ToSet(done) \/ ~wired)

----------------------------------------------------------------------------
(* The inductive invariant behind NeverDoubleSchedules and NoStrandedWork. *)
QueueInv ==
    /\ TypeOK
    /\ ~dead
    /\ released => ~wired
    /\ (Queue \in running) <=> (step # "parked")
    /\ executing <=> step \in {"op", "after"}
    /\ Queue \in requested => pending # <<>> /\ step \in {"parked", "exit"}
    /\ step \in {"take", "resched"} => pending # <<>>
    /\ (step = "op") <=> (current \in Ops)
    /\ NoStrandedWork

=============================================================================
