------------------------- MODULE WorkerHostProofs --------------------------
(***************************************************************************)
(* Proofs about WorkerHost with one poll slot, any number of worker types  *)
(* and any number of tasks: whichever thread pushes, completes, parks and  *)
(* wakes first, the slot keeps its task.                                   *)
(***************************************************************************)
EXTENDS WorkerHost, TLAPS

(* The job of the task slot s asked the engine for last. *)
Current(s) == [slot |-> s, task |-> taskId[s]]

(* A contract runs exactly while its poll_slot() or on_execute() does. *)
TurnsAreRuns(s) ==
    /\ s \in running <=> step[s] # "off"
    /\ \A t \in Types : t \in running <=> qstep[t] # "off"
    /\ s \notin created => step[s] = "off" /\ s \notin requested /\ phase[s] = "POLLING"

(* Someone is going to wake slot s. *)
WakeComing(s) == s \in waking \/ \E t \in Types : qstep[t] = "wake"

(* The slot's next turn is promised once: by its request, by the step it   *)
(* is at, by the result it awaits, or by one pending wake.                 *)
OneTurnAhead(s) ==
    /\ s \in requested => step[s] \in {"off", "exit"} /\ phase[s] # "AWAITING" /\ ~WakeComing(s)
    /\ WakeComing(s) => step[s] \in {"off", "exit"} /\ phase[s] = "RESUMING"
    /\ \A t, u \in Types : qstep[t] = "wake" /\ qstep[u] = "wake" => t = u
    /\ \A t \in Types : qstep[t] = "wake" => s \notin waking
    /\ phase[s] = "RESUMING" /\ step[s] \in {"off", "exit"} => s \in requested \/ WakeComing(s)

(* Where poll_slot() is decides the phase of its slot. *)
PhaseFits(s) ==
    /\ step[s] \in {"scan", "resched", "submit_inline", "submit_resumed"} => phase[s] = "POLLING"
    /\ step[s] = "enter" => phase[s] # "AWAITING"
    /\ step[s] \in {"push", "push_wake"} => phase[s] = "AWAITING"
    /\ step[s] = "unstack" => phase[s] # "POLLING"
    /\ onStack[s] <=> step[s] \in {"push", "push_wake", "unstack"}

(* The job is in one place, and only while its slot awaits it: queued, in  *)
(* the hand of its queue, or on its way to land.                           *)
OneJob(s) ==
    /\ \A t \in Types : jobs[t] # <<>> =>
        /\ t = type[s] /\ jobs[t] = <<Current(s)>>
        /\ phase[s] = "AWAITING" /\ step[s] # "push" /\ landing = {}
        /\ \A u \in Types : qstep[u] # "run"
    /\ \A t \in Types : qstep[t] = "run" =>
        /\ t = type[s] /\ job[t] = Current(s)
        /\ phase[s] = "AWAITING" /\ step[s] \notin {"push", "push_wake"} /\ landing = {}
    /\ landing # {} =>
        /\ landing = {Current(s)}
        /\ phase[s] = "AWAITING" /\ step[s] \notin {"push", "push_wake"}

(* A task queue that has work, or has just had some, has one turn ahead;   *)
(* one that has parked has none until a push wakes it.                     *)
QueueTurnAhead(s) ==
    /\ \A t \in Types :
        /\ qstep[t] \in {"take", "run", "wake", "resched"} => t \notin requested
        /\ qstep[t] \in {"run", "wake", "resched"} => busy[t]
        /\ ~busy[t] /\ (t \in requested \/ qstep[t] = "take") => jobs[t] # <<>>
    /\ step[s] = "push_wake" =>
        /\ jobs[type[s]] # <<>> /\ ~busy[type[s]]
        /\ type[s] \notin requested /\ qstep[type[s]] \in {"off", "exit"}

(* A task is reported once, with the result that landed for it. *)
Accounts(s) ==
    /\ phase[s] # "POLLING" \/ step[s] \in {"submit_inline", "submit_resumed"} =>
        taskId[s] = issued /\ issued > 0 /\ reports[issued] = 0
    /\ phase[s] = "RESUMING" \/ step[s] \in {"submit_inline", "submit_resumed"} =>
        result[s] = taskId[s]
    /\ \A k \in Tasks : reports[k] <= 1 /\ (k > issued => reports[k] = 0)

SlotInv(s) ==
    /\ ~dead /\ TurnsAreRuns(s) /\ OneTurnAhead(s) /\ PhaseFits(s) /\ OneJob(s)
    /\ QueueTurnAhead(s) /\ Accounts(s)

(* Every step of the slot, of a task queue and of a thread that delivers a *)
(* late completion keeps the invariant: in particular each of the three    *)
(* schedule() calls finds its contract without a pending request.          *)
LEMMA SlotStep ==
    ASSUME NEW s, Slots = {s}, Types # {}, TypeOK, SlotInv(s), [Next]_vars
    PROVE  TypeOK' /\ SlotInv(s)'
<1> USE WorkerHostAssumption DEF TypeOK, contractVars, bootVars, pollVars, slotVars,
       queueVars, landVars, engineVars, Alive, At, Goto, QAt, QGoto, Tasks, NoTask, Jobs
<1>1. CASE Create(s)
  <2>1. TypeOK'
    BY <1>1 DEF Create, Contract!Request
  <2> USE DEF SlotInv, TurnsAreRuns, OneTurnAhead, WakeComing, PhaseFits, OneJob, Current,
             QueueTurnAhead, Accounts
  <2>2. SlotInv(s)'
    BY <1>1, <2>1 DEF Create, Contract!Request
  <2> QED
    BY <2>1, <2>2
<1>2. CASE Register(s)
  <2>1. TypeOK'
    BY <1>2 DEF Register
  <2> USE DEF SlotInv, TurnsAreRuns, OneTurnAhead, WakeComing, PhaseFits, OneJob, Current,
             QueueTurnAhead, Accounts
  <2>2. SlotInv(s)'
    BY <1>2, <2>1 DEF Register
  <2> QED
    BY <2>1, <2>2
<1>3. CASE PollTurn(s)
  <2>1. TypeOK'
    BY <1>3 DEF PollTurn, Contract!Start
  <2> USE DEF SlotInv, TurnsAreRuns, OneTurnAhead, WakeComing, PhaseFits, OneJob, Current,
             QueueTurnAhead, Accounts
  <2>2. SlotInv(s)'
    BY <1>3, <2>1 DEF PollTurn, Contract!Start
  <2> QED
    BY <2>1, <2>2
<1>4. CASE Enter(s)
  <2>1. /\ phase' \in [Slots -> {"POLLING", "AWAITING", "RESUMING"}]
        /\ step' \in [Slots -> {"off", "enter", "scan", "push", "push_wake", "unstack",
                              "submit_inline", "submit_resumed", "resched", "exit"}]
    BY <1>4 DEF Enter
  <2>2. todo' \in [Slots -> SUBSET Types]
    BY <1>4 DEF Enter
  <2>3. UNCHANGED <<contractVars, bootVars, type, onStack, taskId, result, queueVars, landVars,
                   engineVars>>
    BY <1>4 DEF Enter
  <2>4. TypeOK'
    BY <2>1, <2>2, <2>3
  <2> USE DEF SlotInv, TurnsAreRuns, OneTurnAhead, WakeComing, PhaseFits, OneJob, Current,
             QueueTurnAhead, Accounts
  <2>5. SlotInv(s)'
    BY <1>4, <2>1, <2>2, <2>3, <2>4 DEF Enter
  <2> QED
    BY <2>4, <2>5
<1>5. CASE Push(s)
  <2>1. jobs[type[s]] = <<>> /\ type[s] \in Types /\ Current(s) \in Jobs
    BY <1>5 DEF Push, SlotInv, OneJob, PhaseFits, Accounts, Current
  <2>2. jobs' = [jobs EXCEPT ![type[s]] = <<Current(s)>>]
    BY <1>5, <2>1 DEF Push, Current
  <2>3. <<Current(s)>> \in Seq(Jobs)
    BY <2>1
  <2>4. jobs' \in [Types -> Seq(Jobs)]
    BY <2>2, <2>3 DEF Push
  <2>5. TypeOK'
    BY <1>5, <2>1, <2>2, <2>3, <2>4 DEF Push
  <2> USE DEF SlotInv, TurnsAreRuns, OneTurnAhead, WakeComing, PhaseFits, OneJob, Current,
             QueueTurnAhead, Accounts
  <2>6. SlotInv(s)'
    BY <1>5, <2>1, <2>2, <2>3, <2>4, <2>5 DEF Push
  <2> QED
    BY <2>5, <2>6
<1>6. CASE PushWake(s)
  <2>1. Contract!Request(type[s])
    BY <1>6 DEF PushWake, Schedule, Contract!Request, Contract!Abort, SlotInv, QueueTurnAhead
  <2>2. requested' \subseteq Slots \cup Types
    BY <1>6, <2>1 DEF Contract!Request
  <2>3. TypeOK'
    BY <1>6, <2>1, <2>2 DEF PushWake, Contract!Request
  <2> USE DEF SlotInv, TurnsAreRuns, OneTurnAhead, WakeComing, PhaseFits, OneJob, Current,
             QueueTurnAhead, Accounts
  <2>4. SlotInv(s)'
    BY <1>6, <2>1, <2>2, <2>3 DEF PushWake, Contract!Request
  <2> QED
    BY <2>3, <2>4
<1>7. CASE Unstack(s)
  <2>1. onStack' \in [Slots -> BOOLEAN]
    BY <1>7 DEF Unstack
  <2>2. /\ phase' \in [Slots -> {"POLLING", "AWAITING", "RESUMING"}]
        /\ step' \in [Slots -> {"off", "enter", "scan", "push", "push_wake", "unstack",
                              "submit_inline", "submit_resumed", "resched", "exit"}]
    BY <1>7 DEF Unstack
  <2>3. UNCHANGED <<contractVars, bootVars, todo, type, taskId, result, queueVars, landVars,
                   engineVars>>
    BY <1>7 DEF Unstack
  <2>4. TypeOK'
    BY <2>1, <2>2, <2>3
  <2> USE DEF SlotInv, TurnsAreRuns, OneTurnAhead, WakeComing, PhaseFits, OneJob, Current,
             QueueTurnAhead, Accounts
  <2>5. ~dead'
    BY <1>7, <2>1, <2>2, <2>3, <2>4 DEF Unstack
  <2>6. TurnsAreRuns(s)'
    BY <1>7, <2>1, <2>2, <2>3, <2>4 DEF Unstack
  <2>7. OneTurnAhead(s)'
    BY <1>7, <2>1, <2>2, <2>3, <2>4 DEF Unstack
  <2>8. PhaseFits(s)'
    BY <1>7, <2>1, <2>2, <2>3, <2>4 DEF Unstack
  <2>9. OneJob(s)'
    BY <1>7, <2>1, <2>2, <2>3, <2>4 DEF Unstack
  <2>10. QueueTurnAhead(s)'
    BY <1>7, <2>1, <2>2, <2>3, <2>4 DEF Unstack
  <2>11. Accounts(s)'
    BY <1>7, <2>1, <2>2, <2>3, <2>4 DEF Unstack
  <2> QED
    BY <2>4, <2>5, <2>6, <2>7, <2>8, <2>9, <2>10, <2>11
<1>8. CASE Submit(s)
  <2>1. taskId[s] \in Tasks /\ reports[taskId[s]] = 0
    BY <1>8 DEF Submit, SlotInv, Accounts
  <2>2. reports' \in [Tasks -> 0..MaxTasks]
    BY <1>8, <2>1 DEF Submit
  <2>3. TypeOK'
    BY <1>8, <2>1, <2>2 DEF Submit
  <2> USE DEF SlotInv, TurnsAreRuns, OneTurnAhead, WakeComing, PhaseFits, OneJob, Current,
             QueueTurnAhead, Accounts
  <2>4. SlotInv(s)'
    BY <1>8, <2>1, <2>2, <2>3 DEF Submit
  <2> QED
    BY <2>3, <2>4
<1>9. CASE ScanDone(s)
  <2>1. TypeOK'
    BY <1>9 DEF ScanDone
  <2> USE DEF SlotInv, TurnsAreRuns, OneTurnAhead, WakeComing, PhaseFits, OneJob, Current,
             QueueTurnAhead, Accounts
  <2>2. SlotInv(s)'
    BY <1>9, <2>1 DEF ScanDone
  <2> QED
    BY <2>1, <2>2
<1>10. CASE Resched(s)
  <2>1. Contract!Request(s)
    BY <1>10 DEF Resched, Schedule, Contract!Request, Contract!Abort, SlotInv, OneTurnAhead
  <2>2. TypeOK'
    BY <1>10, <2>1 DEF Resched, Contract!Request
  <2> USE DEF SlotInv, TurnsAreRuns, OneTurnAhead, WakeComing, PhaseFits, OneJob, Current,
             QueueTurnAhead, Accounts
  <2>3. SlotInv(s)'
    BY <1>10, <2>1, <2>2 DEF Resched, Contract!Request
  <2> QED
    BY <2>2, <2>3
<1>11. CASE PollExit(s)
  <2>1. TypeOK'
    BY <1>11 DEF PollExit, Contract!End
  <2> USE DEF SlotInv, TurnsAreRuns, OneTurnAhead, WakeComing, PhaseFits, OneJob, Current,
             QueueTurnAhead, Accounts
  <2>2. SlotInv(s)'
    BY <1>11, <2>1 DEF PollExit, Contract!End
  <2> QED
    BY <2>1, <2>2
<1>12. ASSUME NEW t \in Types, PollNothing(s, t) PROVE TypeOK' /\ SlotInv(s)'
  <2>1. TypeOK'
    BY <1>12 DEF PollNothing
  <2> USE DEF SlotInv, TurnsAreRuns, OneTurnAhead, WakeComing, PhaseFits, OneJob, Current,
             QueueTurnAhead, Accounts
  <2>2. SlotInv(s)'
    BY <1>12, <2>1 DEF PollNothing
  <2> QED
    BY <2>1, <2>2
<1>13. ASSUME NEW t \in Types, PollTask(s, t) PROVE TypeOK' /\ SlotInv(s)'
  <2>1. onStack' \in [Slots -> BOOLEAN]
    BY <1>13 DEF PollTask
  <2>2. issued + 1 \in Tasks
    BY <1>13 DEF PollTask
  <2>3. taskId' \in [Slots -> Tasks \cup {NoTask}] /\ issued' \in 0..MaxTasks
    BY <1>13, <2>2 DEF PollTask
  <2>4. TypeOK'
    BY <1>13, <2>1, <2>2, <2>3 DEF PollTask
  <2> USE DEF SlotInv, TurnsAreRuns, OneTurnAhead, WakeComing, PhaseFits, OneJob, Current,
             QueueTurnAhead, Accounts
  <2>5. SlotInv(s)'
    BY <1>13, <2>1, <2>2, <2>3, <2>4 DEF PollTask
  <2> QED
    BY <2>4, <2>5
<1>14. ASSUME NEW t \in Types, QueueTurn(t) PROVE TypeOK' /\ SlotInv(s)'
  <2>1. t \in requested /\ qstep[t] = "off" /\ (step[s] = "push_wake" => t # type[s])
    BY <1>14 DEF QueueTurn, Contract!Start, SlotInv, TurnsAreRuns, QueueTurnAhead
  <2>2. TypeOK'
    BY <1>14, <2>1 DEF QueueTurn, Contract!Start
  <2> USE DEF SlotInv, TurnsAreRuns, OneTurnAhead, WakeComing, PhaseFits, OneJob, Current,
             QueueTurnAhead, Accounts
  <2>3. ~dead'
    BY <1>14, <2>1, <2>2 DEF QueueTurn, Contract!Start
  <2>4. TurnsAreRuns(s)'
    BY <1>14, <2>1, <2>2 DEF QueueTurn, Contract!Start
  <2>5. OneTurnAhead(s)'
    BY <1>14, <2>1, <2>2 DEF QueueTurn, Contract!Start
  <2>6. PhaseFits(s)'
    BY <1>14, <2>1, <2>2 DEF QueueTurn, Contract!Start
  <2>7. OneJob(s)'
    BY <1>14, <2>1, <2>2 DEF QueueTurn, Contract!Start
  <2>8. QueueTurnAhead(s)'
    BY <1>14, <2>1, <2>2 DEF QueueTurn, Contract!Start
  <2>9. Accounts(s)'
    BY <1>14, <2>1, <2>2 DEF QueueTurn, Contract!Start
  <2> QED
    BY <2>2, <2>3, <2>4, <2>5, <2>6, <2>7, <2>8, <2>9
<1>15. ASSUME NEW t \in Types, QueueTake(t) PROVE TypeOK' /\ SlotInv(s)'
  <2>1. CASE jobs[t] = <<>>
    <3>1. /\ busy' = [busy EXCEPT ![t] = FALSE] /\ qstep' = [qstep EXCEPT ![t] = "exit"]
          /\ qstep[t] = "take" /\ UNCHANGED <<jobs, job>>
          /\ UNCHANGED <<contractVars, bootVars, pollVars, slotVars, landVars, engineVars>>
      BY <1>15, <2>1 DEF QueueTake
    <3>2. busy' \in [Types -> BOOLEAN]
      BY <3>1
    <3>3. TypeOK'
      BY <3>1, <3>2
    <3>4. \A u \in Types : qstep'[u] = "run" => qstep[u] = "run"
      BY <3>1
    <3> USE DEF SlotInv, TurnsAreRuns, OneTurnAhead, WakeComing, PhaseFits, OneJob, Current,
             QueueTurnAhead, Accounts
    <3>5. TurnsAreRuns(s)'
      BY <2>1, <3>1, <3>3
    <3>6. OneTurnAhead(s)'
      BY <2>1, <3>1, <3>3
    <3>7. PhaseFits(s)'
      BY <2>1, <3>1, <3>3
    <3>8. OneJob(s)'
      BY <3>1, <3>4
    <3>9. QueueTurnAhead(s)'
      BY <2>1, <3>1, <3>3
    <3>10. Accounts(s)'
      BY <2>1, <3>1, <3>3
    <3> QED
      BY <3>1, <3>3, <3>4, <3>5, <3>6, <3>7, <3>8, <3>9, <3>10
  <2>2. CASE jobs[t] # <<>>
    <3>1. jobs[t] = <<Current(s)>> /\ Current(s) \in Jobs
      BY <2>2 DEF SlotInv, OneJob, Accounts, Current
    <3>2. Head(jobs[t]) = Current(s) /\ Tail(jobs[t]) = <<>>
      BY <3>1
    <3>3. /\ busy' = [busy EXCEPT ![t] = TRUE] /\ qstep' = [qstep EXCEPT ![t] = "run"]
          /\ job' = [job EXCEPT ![t] = Current(s)] /\ jobs' = [jobs EXCEPT ![t] = <<>>]
          /\ qstep[t] = "take"
          /\ UNCHANGED <<contractVars, bootVars, pollVars, slotVars, landVars, engineVars>>
      BY <1>15, <2>2, <3>2 DEF QueueTake
    <3>4. busy' \in [Types -> BOOLEAN]
      BY <3>3
    <3>5. jobs' \in [Types -> Seq(Jobs)]
      <4>1. <<>> \in Seq(Jobs)
        OBVIOUS
      <4> QED
        BY <3>3, <4>1
    <3>6. job' \in [Types -> Jobs \cup {NoJob}]
      BY <3>1, <3>3
    <3>7. TypeOK'
      BY <3>3, <3>4, <3>5, <3>6
    <3>8. /\ \A u \in Types : jobs'[u] = <<>>
          /\ t = type[s] /\ landing = {} /\ phase[s] = "AWAITING"
          /\ step[s] \notin {"push", "push_wake"}
      BY <2>2, <3>3 DEF SlotInv, OneJob, QueueTurnAhead
    <3> USE DEF SlotInv, TurnsAreRuns, OneTurnAhead, WakeComing, PhaseFits, OneJob, Current,
             QueueTurnAhead, Accounts
    <3>9. TurnsAreRuns(s)'
      BY <2>2, <3>1, <3>3, <3>7
    <3>10. OneTurnAhead(s)'
      BY <2>2, <3>1, <3>3, <3>7
    <3>11. PhaseFits(s)'
      BY <2>2, <3>1, <3>3, <3>7
    <3>12. OneJob(s)'
      BY <3>3, <3>7, <3>8
    <3>13. QueueTurnAhead(s)'
      BY <2>2, <3>1, <3>3, <3>7
    <3>14. Accounts(s)'
      BY <2>2, <3>1, <3>3, <3>7
    <3> QED
      BY <3>3, <3>7, <3>8, <3>9, <3>10, <3>11, <3>12, <3>13, <3>14
  <2> QED
    BY <2>1, <2>2
<1>16. ASSUME NEW t \in Types, JobCompletes(t) PROVE TypeOK' /\ SlotInv(s)'
  <2>1. job[t] \in Jobs
    BY <1>16 DEF JobCompletes, SlotInv, OneJob, Accounts, Current
  <2>2. TypeOK'
    BY <1>16, <2>1 DEF JobCompletes, Land, NeedsWake
  <2> USE DEF SlotInv, TurnsAreRuns, OneTurnAhead, WakeComing, PhaseFits, OneJob, Current,
             QueueTurnAhead, Accounts
  <2>3. SlotInv(s)'
    BY <1>16, <2>1, <2>2 DEF JobCompletes, Land, NeedsWake
  <2> QED
    BY <2>2, <2>3
<1>17. ASSUME NEW t \in Types, JobDefers(t) PROVE TypeOK' /\ SlotInv(s)'
  <2>1. job[t] \in Jobs
    BY <1>17 DEF JobDefers, SlotInv, OneJob, Accounts, Current
  <2>2. TypeOK'
    BY <1>17, <2>1 DEF JobDefers
  <2> USE DEF SlotInv, TurnsAreRuns, OneTurnAhead, WakeComing, PhaseFits, OneJob, Current,
             QueueTurnAhead, Accounts
  <2>3. SlotInv(s)'
    BY <1>17, <2>1, <2>2 DEF JobDefers
  <2> QED
    BY <2>2, <2>3
<1>18. ASSUME NEW t \in Types, JobThrows(t) PROVE TypeOK' /\ SlotInv(s)'
  <2>1. job[t] \in Jobs
    BY <1>18 DEF JobThrows, SlotInv, OneJob, Accounts, Current
  <2>2. TypeOK'
    BY <1>18, <2>1 DEF JobThrows
  <2> USE DEF SlotInv, TurnsAreRuns, OneTurnAhead, WakeComing, PhaseFits, OneJob, Current,
             QueueTurnAhead, Accounts
  <2>3. SlotInv(s)'
    BY <1>18, <2>1, <2>2 DEF JobThrows
  <2> QED
    BY <2>2, <2>3
<1>19. ASSUME NEW t \in Types, QueueWake(t) PROVE TypeOK' /\ SlotInv(s)'
  <2>1. job[t].slot = s
    BY DEF NoJob
  <2>2. Contract!Request(s)
    BY <1>19, <2>1 DEF QueueWake, Schedule, Contract!Request, Contract!Abort,
             SlotInv, OneTurnAhead, WakeComing
  <2>3. TypeOK'
    BY <1>19, <2>1, <2>2 DEF QueueWake, Contract!Request
  <2> USE DEF SlotInv, TurnsAreRuns, OneTurnAhead, WakeComing, PhaseFits, OneJob, Current,
             QueueTurnAhead, Accounts
  <2>4. SlotInv(s)'
    BY <1>19, <2>1, <2>2, <2>3 DEF QueueWake, Contract!Request
  <2> QED
    BY <2>3, <2>4
<1>20. ASSUME NEW t \in Types, QueueResched(t) PROVE TypeOK' /\ SlotInv(s)'
  <2>1. Contract!Request(t)
    BY <1>20 DEF QueueResched, Schedule, Contract!Request, Contract!Abort, SlotInv, QueueTurnAhead
  <2>2. TypeOK'
    BY <1>20, <2>1 DEF QueueResched, Contract!Request
  <2> USE DEF SlotInv, TurnsAreRuns, OneTurnAhead, WakeComing, PhaseFits, OneJob, Current,
             QueueTurnAhead, Accounts
  <2>3. ~dead'
    BY <1>20, <2>1, <2>2 DEF QueueResched, Contract!Request
  <2>4. TurnsAreRuns(s)'
    BY <1>20, <2>1, <2>2 DEF QueueResched, Contract!Request
  <2>5. OneTurnAhead(s)'
    BY <1>20, <2>1, <2>2 DEF QueueResched, Contract!Request
  <2>6. PhaseFits(s)'
    BY <1>20, <2>1, <2>2 DEF QueueResched, Contract!Request
  <2>7. OneJob(s)'
    BY <1>20, <2>1, <2>2 DEF QueueResched, Contract!Request
  <2>8. QueueTurnAhead(s)'
    BY <1>20, <2>1, <2>2 DEF QueueResched, Contract!Request
  <2>9. Accounts(s)'
    BY <1>20, <2>1, <2>2 DEF QueueResched, Contract!Request
  <2> QED
    BY <2>2, <2>3, <2>4, <2>5, <2>6, <2>7, <2>8, <2>9
<1>21. ASSUME NEW t \in Types, QueueExit(t) PROVE TypeOK' /\ SlotInv(s)'
  <2>1. TypeOK'
    BY <1>21 DEF QueueExit, Contract!End
  <2> USE DEF SlotInv, TurnsAreRuns, OneTurnAhead, WakeComing, PhaseFits, OneJob, Current,
             QueueTurnAhead, Accounts
  <2>2. ~dead'
    BY <1>21, <2>1 DEF QueueExit, Contract!End
  <2>3. TurnsAreRuns(s)'
    BY <1>21, <2>1 DEF QueueExit, Contract!End
  <2>4. OneTurnAhead(s)'
    BY <1>21, <2>1 DEF QueueExit, Contract!End
  <2>5. PhaseFits(s)'
    BY <1>21, <2>1 DEF QueueExit, Contract!End
  <2>6. OneJob(s)'
    BY <1>21, <2>1 DEF QueueExit, Contract!End
  <2>7. QueueTurnAhead(s)'
    BY <1>21, <2>1 DEF QueueExit, Contract!End
  <2>8. Accounts(s)'
    BY <1>21, <2>1 DEF QueueExit, Contract!End
  <2> QED
    BY <2>1, <2>2, <2>3, <2>4, <2>5, <2>6, <2>7, <2>8
<1>22. ASSUME NEW j \in landing, Landed(j) PROVE TypeOK' /\ SlotInv(s)'
  <2>1. TypeOK'
    BY <1>22 DEF Landed, Land, NeedsWake
  <2> USE DEF SlotInv, TurnsAreRuns, OneTurnAhead, WakeComing, PhaseFits, OneJob, Current,
             QueueTurnAhead, Accounts
  <2>2. ~dead'
    BY <1>22, <2>1 DEF Landed, Land, NeedsWake
  <2>3. TurnsAreRuns(s)'
    BY <1>22, <2>1 DEF Landed, Land, NeedsWake
  <2>4. OneTurnAhead(s)'
    BY <1>22, <2>1 DEF Landed, Land, NeedsWake
  <2>5. PhaseFits(s)'
    BY <1>22, <2>1 DEF Landed, Land, NeedsWake
  <2>6. OneJob(s)'
    BY <1>22, <2>1 DEF Landed, Land, NeedsWake
  <2>7. QueueTurnAhead(s)'
    BY <1>22, <2>1 DEF Landed, Land, NeedsWake
  <2>8. Accounts(s)'
    BY <1>22, <2>1 DEF Landed, Land, NeedsWake
  <2> QED
    BY <2>1, <2>2, <2>3, <2>4, <2>5, <2>6, <2>7, <2>8
<1>23. CASE s \in waking /\ LandedWake(s)
  <2>1. Contract!Request(s)
    BY <1>23 DEF LandedWake, Schedule, Contract!Request, Contract!Abort, SlotInv, OneTurnAhead,
       WakeComing
  <2>2. TypeOK'
    BY <1>23, <2>1 DEF LandedWake, Contract!Request
  <2> USE DEF SlotInv, TurnsAreRuns, OneTurnAhead, WakeComing, PhaseFits, OneJob, Current,
             QueueTurnAhead, Accounts
  <2>3. SlotInv(s)'
    BY <1>23, <2>1, <2>2 DEF LandedWake, Contract!Request
  <2> QED
    BY <2>2, <2>3
<1>24. CASE UNCHANGED vars
  <2>1. TypeOK'
    BY <1>24 DEF vars
  <2>2. SlotInv(s)'
    BY <1>24 DEF vars, SlotInv, TurnsAreRuns, OneTurnAhead, WakeComing, PhaseFits, OneJob, Current,
             QueueTurnAhead, Accounts
  <2> QED
    BY <2>1, <2>2
<1>25. waking \subseteq {s}
  OBVIOUS
<1> HIDE DEF TypeOK
<1> QED
  BY <1>1, <1>2, <1>3, <1>4, <1>5, <1>6, <1>7, <1>8, <1>9, <1>10, <1>11, <1>12, <1>13, <1>14,
     <1>15, <1>16, <1>17, <1>18, <1>19, <1>20, <1>21, <1>22, <1>23, <1>24, <1>25
  DEF Next, PollStep, QueueStep, LandStep

(* With one poll slot a worker host never aborts on a double schedule();   *)
(* the slot is not polled again before its result has landed, and a landed *)
(* result always has its wake on the way; and what is submitted for a task *)
(* is that task's own result, once.  For any worker types and tasks, with  *)
(* workers that complete at once, later on another thread, or throw.       *)
THEOREM OneSlotKeepsItsTask ==
    ASSUME NEW s, Slots = {s}, Types # {}
    PROVE  Spec => []SlotKeepsItsTask
<1>1. Init => TypeOK /\ SlotInv(s)
  <2> SUFFICES ASSUME Init PROVE TypeOK /\ SlotInv(s)
    OBVIOUS
  <2>1. (CHOOSE t \in Types : TRUE) \in Types
    OBVIOUS
  <2>2. TypeOK
    <3>1. /\ type \in [Slots -> Types] /\ jobs \in [Types -> Seq(Jobs)]
          /\ job \in [Types -> Jobs \cup {NoJob}]
      BY <2>1 DEF Init
    <3>2. /\ onStack \in [Slots -> BOOLEAN] /\ busy \in [Types -> BOOLEAN]
          /\ dead \in BOOLEAN /\ outOfRange \in BOOLEAN
      BY DEF Init, Contract!Init
    <3>3. /\ taskId \in [Slots -> Tasks \cup {NoTask}] /\ result \in [Slots -> Tasks \cup {NoTask}]
          /\ issued \in 0..MaxTasks /\ reports \in [Tasks -> 0..MaxTasks]
      BY WorkerHostAssumption DEF Init, Tasks, NoTask
    <3> QED
      BY <3>1, <3>2, <3>3 DEF Init, Contract!Init, TypeOK
  <2>3. /\ TurnsAreRuns(s) /\ OneTurnAhead(s) /\ PhaseFits(s)
        /\ OneJob(s) /\ QueueTurnAhead(s)
    BY DEF Init, Contract!Init, TurnsAreRuns, OneTurnAhead, WakeComing, PhaseFits, OneJob,
           QueueTurnAhead
  <2>4. ~dead /\ Accounts(s)
    BY WorkerHostAssumption DEF Init, Contract!Init, Accounts, Tasks
  <2> QED
    BY <2>2, <2>3, <2>4 DEF SlotInv
<1>2. TypeOK /\ SlotInv(s) /\ [Next]_vars => TypeOK' /\ SlotInv(s)'
  BY SlotStep
<1>3. TypeOK /\ SlotInv(s) => SlotKeepsItsTask
  <2> SUFFICES ASSUME TypeOK, SlotInv(s) PROVE SlotKeepsItsTask
    OBVIOUS
  <2>1. NeverAborts
    BY DEF SlotInv, NeverAborts
  <2>2. \A t \in Types : qstep[t] = "wake" => job[t].slot = s
    BY DEF TypeOK, Jobs, NoJob
  <2>3. SlotWaitsForItsTask
    BY <2>2 DEF SlotInv, PhaseFits, OneTurnAhead, WakeComing, SlotWaitsForItsTask
  <2>4. ReportsOwnResultOnce
    BY DEF SlotInv, Accounts, ReportsOwnResultOnce
  <2> QED
    BY <2>1, <2>3, <2>4 DEF SlotKeepsItsTask
<1> QED
  BY <1>1, <1>2, <1>3, PTL DEF Spec
=============================================================================
