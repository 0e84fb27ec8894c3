-------------------------- MODULE WorkQueueProofs --------------------------
(***************************************************************************)
(* WorkQueue for any set of operations and any chaining between them: the  *)
(* two places that wake the contract, one under the mutex and one outside  *)
(* it, never both do, and neither forgets a nonempty queue.                *)
(***************************************************************************)
EXTENDS WorkQueue, SequenceTheorems, TLAPS

(* A push leaves a queue of operations that is not empty. *)
LEMMA PushIsNonempty ==
    ASSUME NEW s \in Seq(Ops), NEW o \in Ops
    PROVE  Append(s, o) \in Seq(Ops) /\ Append(s, o) # <<>>
  <1>1. Append(s, o) \in Seq(Ops) /\ Len(Append(s, o)) = Len(s) + 1
    OBVIOUS
  <1>2. Len(s) \in Nat /\ Len(<<>>) = 0
    OBVIOUS
  <1> QED
    BY <1>1, <1>2

(* A pop from a nonempty queue takes an operation and leaves a queue. *)
LEMMA PopIsOp ==
    ASSUME NEW s \in Seq(Ops), s # <<>>
    PROVE  Head(s) \in Ops /\ Tail(s) \in Seq(Ops)
  OBVIOUS

(* The chained operations are operations. *)
LEMMA ChainedIsOps == ASSUME NEW o \in Ops PROVE Chained[o] \subseteq Ops
  BY WorkQueueAssumption

LEMMA InitQueueInv == Init => QueueInv
  <1> SUFFICES ASSUME Init PROVE QueueInv
    OBVIOUS
  <1>1. pending \in Seq(Ops) /\ arrived \in Seq(Ops) /\ done \in Seq(Ops)
    BY DEF Init
  <1> QED
    BY <1>1, WorkQueueAssumption
    DEF Init, QueueInv, TypeOK, NoStrandedWork, Contract!Init, Steps, None, Queue

(* enqueue() from any thread, during any step of on_execute(). *)
LEMMA PushKeepsInv ==
    ASSUME QueueInv, NEW o \in Ops, Push(o), UNCHANGED step,
           chain' \subseteq Ops, fresh' \subseteq Ops
    PROVE  QueueInv'
  <1>1. pending' \in Seq(Ops) /\ pending' # <<>> /\ arrived' \in Seq(Ops)
    BY PushIsNonempty DEF QueueInv, TypeOK, Push
  <1>2. CASE pending = <<>> /\ ~executing /\ wired /\ ~released
    <2>1. Queue \notin requested
      BY <1>2 DEF QueueInv
    <2>2. Contract!Request(Queue)
      BY <1>2, <2>1 DEF Push, Schedule
    <2>3. step \in {"parked", "exit"}
      BY <1>2 DEF QueueInv, TypeOK, Steps
    <2> QED
      BY <1>1, <2>2, <2>3 DEF QueueInv, TypeOK, Push, NoStrandedWork, Contract!Request
  <1>3. CASE ~(pending = <<>> /\ ~executing /\ wired /\ ~released)
    <2>1. UNCHANGED contractVars
      BY <1>3 DEF Push, Schedule
    <2>2. NoStrandedWork'
      <3>1. CASE pending # <<>>
        BY <3>1, <2>1 DEF QueueInv, NoStrandedWork, Push, contractVars
      <3>2. CASE executing
        BY <3>2 DEF QueueInv, NoStrandedWork
      <3>3. CASE ~wired
        BY <3>3 DEF NoStrandedWork, Push
      <3>4. CASE released
        BY <3>4 DEF QueueInv, NoStrandedWork, Push
      <3> QED
        BY <1>3, <3>1, <3>2, <3>3, <3>4
    <2> QED
      BY <1>1, <2>1, <2>2 DEF QueueInv, TypeOK, Push, contractVars
  <1> QED
    BY <1>2, <1>3

LEMMA StepQueueInv == QueueInv /\ [Next]_vars => QueueInv'
  <1> SUFFICES ASSUME QueueInv, [Next]_vars PROVE QueueInv'
    OBVIOUS
  <1>1. ASSUME NEW o \in Ops, Enqueue(o) PROVE QueueInv'
    <2>1. chain' \subseteq Ops /\ fresh' \subseteq Ops /\ UNCHANGED step
      BY <1>1 DEF Enqueue, QueueInv, TypeOK
    <2> QED
      BY <1>1, <2>1, PushKeepsInv DEF Enqueue
  <1>2. ASSUME NEW o \in Ops, Reenter(o) PROVE QueueInv'
    <2>1. chain' \subseteq Ops /\ fresh' \subseteq Ops /\ UNCHANGED step
      BY <1>2 DEF Reenter, QueueInv, TypeOK
    <2> QED
      BY <1>2, <2>1, PushKeepsInv DEF Reenter
  <1>3. CASE Turn
    BY <1>3 DEF Turn, QueueInv, TypeOK, NoStrandedWork, Contract!Start,
                queueVars, workVars, Steps
  <1>4. CASE Take
    <2>1. pending # <<>>
      BY <1>4 DEF Take, QueueInv
    <2>2. Head(pending) \in Ops /\ Tail(pending) \in Seq(Ops)
      BY <2>1, PopIsOp DEF QueueInv, TypeOK
    <2>3. Chained[Head(pending)] \subseteq Ops
      BY <2>2, ChainedIsOps
    <2> QED
      BY <1>4, <2>1, <2>2, <2>3
      DEF Take, QueueInv, TypeOK, NoStrandedWork, contractVars, Steps
  <1>5. CASE OpReturns
    <2>1. done' \in Seq(Ops)
      BY <1>5 DEF OpReturns, QueueInv, TypeOK
    <2> QED
      BY <1>5, <2>1, WorkQueueAssumption DEF None, OpReturns, QueueInv, TypeOK, NoStrandedWork,
                        contractVars, queueVars, Steps
  <1>6. CASE After
    BY <1>6 DEF After, QueueInv, TypeOK, NoStrandedWork, contractVars, workVars, Steps
  <1>7. CASE Reschedule
    <2>1. Queue \notin requested /\ pending # <<>>
      BY <1>7 DEF Reschedule, QueueInv
    <2>2. CASE released
      BY <1>7, <2>1, <2>2 DEF Reschedule, Schedule, QueueInv, TypeOK, NoStrandedWork,
                              contractVars, queueVars, workVars, Steps
    <2>3. CASE ~released
      BY <1>7, <2>1, <2>3 DEF Reschedule, Schedule, QueueInv, TypeOK, NoStrandedWork,
                              Contract!Request, queueVars, workVars, Steps
    <2> QED
      BY <2>2, <2>3
  <1>8. CASE Exit
    BY <1>8 DEF Exit, QueueInv, TypeOK, NoStrandedWork, Contract!End,
                queueVars, workVars, Steps
  <1>9. CASE Stop
    BY <1>9 DEF Stop, QueueInv, TypeOK, NoStrandedWork, contractVars, workVars
  <1>10. CASE Release
    BY <1>10 DEF Release, QueueInv, TypeOK, NoStrandedWork, contractVars, workVars
  <1>11. CASE UNCHANGED vars
    BY <1>11 DEF vars, contractVars, queueVars, workVars, QueueInv, TypeOK, NoStrandedWork
  <1> QED
    BY <1>1, <1>2, <1>3, <1>4, <1>5, <1>6, <1>7, <1>8, <1>9, <1>10, <1>11 DEF Next, OnExecute

(* The wake in enqueue() and the reschedule in on_execute() never both     *)
(* schedule the contract: the "already scheduled" abort is unreachable     *)
(* from this queue, for any operations and any reentrant chaining.         *)
THEOREM WakesOnce == Spec => []NeverDoubleSchedules
  <1>1. QueueInv => NeverDoubleSchedules
    BY DEF QueueInv, NeverDoubleSchedules
  <1> QED
    BY <1>1, InitQueueInv, StepQueueInv, PTL DEF Spec

(* A nonempty queue always has a request or a running turn responsible for *)
(* it, so no operation waits for an enqueue() that may never come.         *)
THEOREM WorkIsNeverStranded == Spec => []NoStrandedWork
  <1>1. QueueInv => NoStrandedWork
    BY DEF QueueInv
  <1> QED
    BY <1>1, InitQueueInv, StepQueueInv, PTL DEF Spec

----------------------------------------------------------------------------
(* The operation being run, as a sequence of none or one. *)
InHand == IF current = None THEN <<>> ELSE <<current>>

(* A push at the end of the queue is a push at the end of the history. *)
LEMMA AppendToTail ==
    ASSUME NEW x \in Seq(Ops), NEW y \in Seq(Ops), NEW o \in Ops
    PROVE  x \o Append(y, o) = Append(x \o y, o)
  <1>1. <<o>> \in Seq(Ops) /\ x \o y \in Seq(Ops)
    BY ConcatProperties
  <1>2. Append(y, o) = y \o <<o>> /\ Append(x \o y, o) = (x \o y) \o <<o>>
    BY <1>1, AppendIsConcat
  <1> QED
    BY <1>1, <1>2, ConcatAssociative

(* A nonempty sequence is its head followed by its tail. *)
LEMMA HeadThenTail ==
    ASSUME NEW s \in Seq(Ops), s # <<>>
    PROVE  s = <<Head(s)>> \o Tail(s)
  <1> DEFINE t == <<Head(s)>> \o Tail(s)
  <1>1. <<Head(s)>> \in Seq(Ops) /\ Tail(s) \in Seq(Ops) /\ Len(s) \in Nat /\ Len(s) > 0
    OBVIOUS
  <1>2. Len(Tail(s)) = Len(s) - 1 /\ \A i \in 1 .. Len(Tail(s)) : Tail(s)[i] = s[i + 1]
    BY HeadTailProperties
  <1>3. t \in Seq(Ops) /\ Len(t) = 1 + Len(Tail(s))
    BY <1>1, ConcatProperties
  <1>4. \A i \in 1 .. Len(s) : s[i] = t[i]
    BY <1>1, <1>2, <1>3, ConcatProperties
  <1> QED
    BY <1>2, <1>3, <1>4, SeqEqual

LEMMA StepOrder == QueueInv /\ RunsInOrder /\ [Next]_vars => RunsInOrder'
  <1> SUFFICES ASSUME QueueInv, RunsInOrder, [Next]_vars PROVE RunsInOrder'
    OBVIOUS
  <1>1. /\ done \in Seq(Ops) /\ pending \in Seq(Ops) /\ InHand \in Seq(Ops)
        /\ arrived = done \o InHand \o pending
    BY DEF QueueInv, TypeOK, RunsInOrder, InHand
  <1>2. RunsInOrder' <=> arrived' = done' \o InHand' \o pending'
    BY DEF RunsInOrder, InHand
  <1>3. ASSUME NEW o \in Ops, Push(o) PROVE RunsInOrder'
    <2>1. done \o InHand \in Seq(Ops)
      BY <1>1, ConcatProperties
    <2>2. UNCHANGED <<done, InHand>>
      BY <1>3 DEF Push, InHand
    <2>3. (done \o InHand) \o Append(pending, o) = Append((done \o InHand) \o pending, o)
      BY <1>1, <2>1, AppendToTail
    <2>4. arrived' = Append(arrived, o) /\ pending' = Append(pending, o)
      BY <1>3 DEF Push
    <2> QED
      BY <1>1, <1>2, <2>2, <2>3, <2>4
  <1>4. CASE Take
    <2>1. pending # <<>> /\ current = None
      BY <1>4 DEF Take, QueueInv, TypeOK
    <2>2. /\ UNCHANGED <<done, arrived>> /\ pending' = Tail(pending)
          /\ current' = Head(pending) /\ Head(pending) \in Ops
      BY <1>4, <2>1, PopIsOp DEF Take, QueueInv, TypeOK
    <2>3. InHand = <<>> /\ InHand' = <<Head(pending)>>
      BY <2>1, <2>2, WorkQueueAssumption DEF InHand, None
    <2>4. <<Head(pending)>> \in Seq(Ops) /\ Tail(pending) \in Seq(Ops)
      BY <2>1, <2>2, PopIsOp, <1>1
    <2>5. done \o <<>> = done
      BY <1>1, ConcatEmptySeq
    <2>6. done \o <<Head(pending)>> \o Tail(pending) = done \o pending
      BY <1>1, <2>1, <2>4, HeadThenTail, ConcatAssociative
    <2> QED
      BY <1>1, <1>2, <2>2, <2>3, <2>5, <2>6
  <1>5. CASE OpReturns
    <2>1. current \in Ops /\ current # None
      BY <1>5, WorkQueueAssumption DEF OpReturns, QueueInv, None
    <2>2. UNCHANGED <<arrived, pending>> /\ done' = Append(done, current) /\ InHand' = <<>>
      BY <1>5 DEF OpReturns, InHand, queueVars
    <2>3. done' = done \o <<current>> /\ done' \in Seq(Ops)
      BY <1>1, <2>1, <2>2, AppendIsConcat, AppendProperties
    <2>4. done' \o InHand' = done \o InHand
      <3>1. done' \o <<>> = done'
        BY <2>3, ConcatEmptySeq
      <3> QED
        BY <2>1, <2>2, <2>3, <3>1 DEF InHand
    <2> QED
      BY <1>1, <1>2, <2>2, <2>4
  <1>6. CASE UNCHANGED <<done, current, pending, arrived>>
    BY <1>6, <1>1, <1>2 DEF InHand
  <1> QED
    BY <1>3, <1>4, <1>5, <1>6 DEF Next, OnExecute, Enqueue, Reenter, Turn, After, Reschedule,
       Exit, Stop, Release, vars, contractVars, queueVars, workVars

(* Operations are run one at a time in the order their enqueue() took the  *)
(* mutex, none lost and none twice, reentrant ones included.               *)
THEOREM QueueIsFifo == Spec => []RunsInOrder
  <1>1. Init => RunsInOrder
    <2> SUFFICES ASSUME Init PROVE RunsInOrder
      OBVIOUS
    <2>1. <<>> \in Seq(Ops)
      OBVIOUS
    <2> QED
      BY <2>1, ConcatEmptySeq DEF Init, RunsInOrder
  <1> QED
    BY <1>1, InitQueueInv, StepQueueInv, StepOrder, PTL DEF Spec
=============================================================================
