--------------------------- MODULE TaskStoreProofs --------------------------
(***************************************************************************)
(* Proofs about TaskStore for any number of workers, start nodes, rows,    *)
(* heartbeats and sweeps: no interleaving of the handlers' split reads and *)
(* writes completes an execution whose tasks were not run.  And for one    *)
(* worker alone: each task is given out, reported and counted exactly.     *)
(***************************************************************************)
EXTENDS TaskStore, FiniteSetTheorems, SequenceTheorems, TLAPS

(* A copy of the execution, stored or captured, claims no more than the     *)
(* workers have done.                                                      *)
Honest(ex) ==
    /\ \A i \in Starts : ex.inst[i] # "none"
    /\ \A i \in Ids : ex.inst[i] = "COMPLETED" => given[i] >= 1
    /\ ex.status = "COMPLETED" =>
        (\A i \in Starts : given[i] >= 1) /\ (\E i \in Ids \ Starts : given[i] >= 1)

(* Operations that claim a row for a worker, that report or beat a row a    *)
(* worker was given, and those of them that carry the status they read.     *)
Claiming == {"claim_def", "claim_update"}
Reporting == {"find_row", "result_update", "find_again", "find_exec", "find_def",
              "beat_find", "beat_def", "beat_update"}
Carrying == {"find_exec", "find_def", "beat_def", "beat_update"}

(* What every pending operation carries. *)
HonestOps ==
    {op \in Ops :
        /\ Honest(op.ex)
        /\ op.do \in {"find_first"} \cup Claiming => op.by \in Workers
        /\ op.do \in Claiming => op.id \in Ids /\ rows[op.id] # "none"
        /\ op.do \in Reporting => op.id \in Ids /\ given[op.id] >= 1
        /\ op.do \in Carrying => op.st # "none"
        /\ op.do \in {"beat_def", "beat_update"} => op.st = "IN_PROGRESS"
        /\ op.do = "insert_row" => op.id \in Ids}

(* A row past SCHEDULED was given to a worker, and a row never goes away. *)
HonestRows ==
    /\ \A i \in Ids :
        /\ rows[i] \in {"IN_PROGRESS", "COMPLETED"} => given[i] >= 1
        /\ given[i] >= 1 \/ i \in Starts => rows[i] # "none"
    /\ \A w \in Workers : holds[w] # 0 => given[holds[w]] >= 1

RealInv == TypeOK /\ HonestRows /\ Honest(exec) /\ queue \in Seq(HonestOps)

(* A queue of operations that stay honest is a queue of honest operations, *)
(* whatever is taken from its head and added at its end.                   *)
LEMMA Requeue ==
    ASSUME NEW G, NEW H, G \subseteq H, NEW q \in Seq(G)
    PROVE  /\ q \in Seq(H)
           /\ \A x \in H : Append(q, x) \in Seq(H)
           /\ q # <<>> => /\ Head(q) \in G /\ Tail(q) \in Seq(H)
                          /\ \A x \in H : Append(Tail(q), x) \in Seq(H)
                          /\ \A x, y \in H : Tail(q) \o <<x, y>> \in Seq(H)
<1>1. q \in Seq(H)
  OBVIOUS
<1>2. \A x \in H : Append(q, x) \in Seq(H)
  BY <1>1
<1>3. ASSUME q # <<>> PROVE Head(q) \in G /\ Tail(q) \in Seq(H)
  BY <1>1, <1>3
<1>4. ASSUME q # <<>>, NEW x \in H, NEW y \in H
      PROVE  Append(Tail(q), x) \in Seq(H) /\ Tail(q) \o <<x, y>> \in Seq(H)
  BY <1>3, <1>4
<1> QED
  BY <1>1, <1>2, <1>3, <1>4

(* More instances than start nodes means the successor has one: the        *)
(* pigeonhole behind maybe_complete()'s count.                             *)
LEMMA CountFindsSuccessor ==
    ASSUME NEW P \in SUBSET Ids, Cardinality(P) >= NumStarts + 1
    PROVE  \E i \in Ids \ Starts : i \in P
<1>1. IsFiniteSet(Starts) /\ Cardinality(Starts) = NumStarts
  BY TaskStoreAssumption, FS_Interval DEF Starts
<1>2. P \subseteq Starts => Cardinality(P) <= NumStarts
  BY <1>1, FS_Subset
<1>3. IsFiniteSet(Ids)
  BY TaskStoreAssumption, FS_Interval DEF Ids
<1>4. Cardinality(P) \in Nat
  BY <1>3, FS_Subset, FS_CardinalityType
<1> QED
  BY <1>2, <1>4, TaskStoreAssumption

(* maybe_complete() and advance() on an honest copy give honest ones.      *)
LEMMA FinishedIsHonest ==
    ASSUME TypeOK, NEW ex \in Copies, Honest(ex)
    PROVE  Finished(ex) \in Copies /\ Honest(Finished(ex))
<1>1. CASE /\ Cardinality({i \in Ids : ex.inst[i] # "none"}) >= NumStarts + 1
           /\ \A i \in Ids : ex.inst[i] # "none" => Done(ex, i)
  <2>1. PICK k \in Ids \ Starts : ex.inst[k] # "none"
    BY <1>1, CountFindsSuccessor
  <2>2. given[k] >= 1 /\ \A i \in Starts : given[i] >= 1
    BY <1>1, <2>1, TaskStoreAssumption DEF Honest, Done, Starts, Ids
  <2> QED
    BY <1>1, <2>1, <2>2 DEF Finished, Honest, Copies
<1>2. CASE ~(/\ Cardinality({i \in Ids : ex.inst[i] # "none"}) >= NumStarts + 1
             /\ \A i \in Ids : ex.inst[i] # "none" => Done(ex, i))
  BY <1>2 DEF Finished
<1> QED
  BY <1>1, <1>2

(* advance() on an honest copy enqueues an honest operation.               *)
LEMMA AdvanceIsHonest ==
    ASSUME TypeOK, NEW ex \in Copies, Honest(ex)
    PROVE  AdvanceOp(ex) \in HonestOps
<1>1. Finished(ex) \in Copies /\ Honest(Finished(ex))
  BY FinishedIsHonest
<1> QED
  BY <1>1 DEF AdvanceOp, Op, HonestOps, Ops, Status, Claiming, Reporting, Carrying, Nobody

(* Honesty survives: what a step gives out it never takes back, and no row *)
(* goes away, so an honest copy or operation stays one.                    *)
LEMMA StaysHonest ==
    ASSUME TypeOK, rows' \in [Ids -> Status], given' \in [Ids -> Nat],
           \A i \in Ids : given'[i] >= given[i],
           \A i \in Ids : rows[i] # "none" => rows'[i] # "none"
    PROVE  /\ \A ex \in Copies : Honest(ex) => Honest(ex)'
           /\ HonestOps \subseteq HonestOps'
<1>1. \A ex \in Copies : Honest(ex) => Honest(ex)'
  BY TaskStoreAssumption DEF Honest, TypeOK, Copies, Starts, Ids
<1>2. ASSUME NEW op \in HonestOps PROVE op \in HonestOps'
  <2>1. op.ex \in Copies /\ Honest(op.ex)
    BY DEF HonestOps, Ops
  <2> QED
    BY <1>1, <2>1, TaskStoreAssumption DEF HonestOps, TypeOK, Claiming, Reporting, Ids
<1> QED
  BY <1>1, <1>2

(* A step that leaves the rows and what was given out alone keeps the      *)
(* invariant if what it stores and enqueues is honest.                     *)
LEMMA QuietStep ==
    ASSUME RealInv, rows' = rows, given' = given, ids' \in Nat,
           exec' \in Copies, Honest(exec'), queue' \in Seq(HonestOps),
           holds' \in [Workers -> Ids \cup {0}], busy' \subseteq Workers,
           \A w \in Workers : holds'[w] # 0 => given[holds'[w]] >= 1,
           handed' \subseteq Status, beats' \in 0..MaxBeats, sweeps' \in 0..MaxSweeps
    PROVE  RealInv'
<1>1. HonestOps' = HonestOps
  BY DEF HonestOps, Honest
<1>2. Honest(exec)' /\ HonestRows'
  BY DEF RealInv, Honest, HonestRows
<1>3. HonestOps \subseteq Ops
  BY DEF HonestOps
<1>4. queue' \in Seq(Ops)
  BY <1>3, Requeue
<1>5. TypeOK'
  BY <1>4 DEF RealInv, TypeOK
<1> QED
  BY <1>1, <1>2, <1>5 DEF RealInv

(* A turn that changes a row, or gives one out, keeps the invariant if no  *)
(* row goes away, nothing is taken back and what it enqueues is honest.    *)
LEMMA RowStep ==
    ASSUME RealInv, rows' \in [Ids -> Status], given' \in [Ids -> Nat],
           \A i \in Ids : given'[i] >= given[i],
           \A i \in Ids : rows[i] # "none" => rows'[i] # "none",
           HonestRows', holds' \in [Workers -> Ids \cup {0}], busy' \subseteq Workers,
           UNCHANGED <<ids, exec, handed, beats, sweeps>>,
           queue' \in Seq(HonestOps \cup HonestOps')
    PROVE  RealInv'
<1>1. /\ HonestOps \subseteq HonestOps' /\ HonestOps' \subseteq Ops
      /\ Honest(exec)'
  <2>1. TypeOK
    BY DEF RealInv
  <2>2. exec \in Copies /\ Honest(exec)
    BY DEF RealInv, TypeOK
  <2>3. Honest(exec)'
    <3>1. PICK e \in Copies : e = exec
      BY <2>2
    <3>2. Honest(e)
      BY <2>2, <3>1
    <3>3. Honest(e)'
      BY <2>1, <3>2, StaysHonest
    <3> QED
      BY <3>1, <3>3 DEF Honest
  <2>4. HonestOps' \subseteq Ops
    BY DEF HonestOps
  <2>5. HonestOps \subseteq HonestOps'
    BY <2>1, StaysHonest
  <2> QED
    BY <2>3, <2>4, <2>5
<1>2. HonestOps \cup HonestOps' = HonestOps'
  BY <1>1
<1>3. queue' \in Seq(HonestOps') /\ queue' \in Seq(Ops)
  BY <1>1, <1>2, Requeue
<1>4. TypeOK'
  BY <1>3 DEF RealInv, TypeOK
<1> QED
  BY <1>1, <1>3, <1>4 DEF RealInv

(* Every request, and every turn of the connector, keeps the invariant.    *)
LEMMA RealStep ==
    ASSUME RealInv, [Next]_vars
    PROVE  RealInv'
<1> USE TaskStoreAssumption DEF storeVars, clientVars, ghostVars
<1>1. TypeOK /\ HonestRows /\ exec \in Copies /\ Honest(exec) /\ queue \in Seq(HonestOps)
  BY DEF RealInv, TypeOK
<1>2. /\ \A op \in HonestOps : Append(queue, op) \in Seq(HonestOps)
      /\ queue # <<>> =>
          /\ Head(queue) \in HonestOps /\ Tail(queue) \in Seq(HonestOps)
          /\ \A op \in HonestOps : Append(Tail(queue), op) \in Seq(HonestOps)
          /\ \A x, y \in HonestOps : Tail(queue) \o <<x, y>> \in Seq(HonestOps)
  BY <1>1, Requeue
<1>3. /\ ids \in Nat /\ holds \in [Workers -> Ids \cup {0}] /\ busy \subseteq Workers
      /\ \A w \in Workers : holds[w] # 0 => given[holds[w]] >= 1
      /\ handed \subseteq Status /\ beats \in 0..MaxBeats /\ sweeps \in 0..MaxSweeps
  BY <1>1 DEF TypeOK, HonestRows
<1>4. ASSUME NEW w \in Workers, Poll(w) PROVE RealInv'
  <2>1. Op("find_first", w, 0, "none", exec) \in HonestOps
    BY <1>1 DEF Op, HonestOps, Ops, Claiming, Reporting, Carrying, Status, Nobody
  <2> QED
    BY <1>1, <1>2, <1>3, <1>4, <2>1, QuietStep DEF Poll
<1>5. ASSUME NEW w \in Workers, Submit(w) PROVE RealInv'
  <2>1. Op("find_row", w, holds[w], "none", exec) \in HonestOps
    BY <1>1, <1>3, <1>5 DEF Submit, Op, HonestOps, Ops, Claiming, Reporting, Carrying, Status,
       Nobody
  <2>2. /\ holds' \in [Workers -> Ids \cup {0}]
        /\ \A v \in Workers : holds'[v] # 0 => given[holds'[v]] >= 1
    BY <1>3, <1>5 DEF Submit
  <2> QED
    BY <1>1, <1>2, <1>3, <1>5, <2>1, <2>2, QuietStep DEF Submit
<1>6. ASSUME NEW w \in Workers, Heartbeat(w) PROVE RealInv'
  <2>1. Op("beat_find", Nobody, holds[w], "none", exec) \in HonestOps
    BY <1>1, <1>3, <1>6 DEF Heartbeat, Op, HonestOps, Ops, Claiming, Reporting, Carrying, Status,
       Nobody
  <2> QED
    BY <1>1, <1>2, <1>3, <1>6, <2>1, QuietStep DEF Heartbeat
<1>7. CASE Sweep
  <2>1. Op("sweep_find", Nobody, 0, "none", exec) \in HonestOps
    BY <1>1 DEF Op, HonestOps, Ops, Claiming, Reporting, Carrying, Status, Nobody
  <2> QED
    BY <1>1, <1>2, <1>3, <1>7, <2>1, QuietStep DEF Sweep
<1> DEFINE h == Head(queue)
<1>8. CASE FindFirst
  <2>1. queue # <<>> /\ h \in HonestOps /\ h.do = "find_first" /\ h.by \in Workers
    BY <1>2, <1>8 DEF FindFirst, Turn, HonestOps
  <2>2. CASE Reply(h.by) /\ ThenNothing
    BY <1>1, <1>2, <1>3, <1>8, <2>1, <2>2, QuietStep DEF FindFirst, Reply, ThenNothing
  <2>3. ASSUME NEW i \in Ids, rows[i] = "SCHEDULED",
               Then([h EXCEPT !.do = "claim_def", !.id = i]), UNCHANGED busy
        PROVE  RealInv'
    <3>1. [h EXCEPT !.do = "claim_def", !.id = i] \in HonestOps
      BY <2>1, <2>3 DEF HonestOps, Ops, Claiming, Reporting, Carrying, Status, Nobody
    <3> QED
      BY <1>1, <1>2, <1>3, <1>8, <2>1, <2>3, <3>1, QuietStep DEF FindFirst, Then
  <2> QED
    BY <1>8, <2>2, <2>3 DEF FindFirst
<1>9. CASE ClaimDef
  <2>1. queue # <<>> /\ h \in HonestOps /\ h.do = "claim_def"
    BY <1>2, <1>9 DEF ClaimDef, Turn
  <2>2. [h EXCEPT !.do = "claim_update"] \in HonestOps
    BY <2>1 DEF HonestOps, Ops, Claiming, Reporting, Carrying, Status, Nobody
  <2> QED
    BY <1>1, <1>2, <1>3, <1>9, <2>1, <2>2, QuietStep DEF ClaimDef, Then
<1>10. CASE ClaimUpdate
  <2>1. /\ queue # <<>> /\ h \in HonestOps /\ h.do = "claim_update"
        /\ h.id \in Ids /\ h.by \in Workers
    BY <1>2, <1>10 DEF ClaimUpdate, Turn, HonestOps, Claiming
  <2>2. rows' = [rows EXCEPT ![h.id] = "IN_PROGRESS"] /\ given' = [given EXCEPT ![h.id] = @ + 1]
    BY <1>10 DEF ClaimUpdate
  <2>3. /\ rows' \in [Ids -> Status] /\ given' \in [Ids -> Nat]
        /\ \A i \in Ids : given'[i] >= given[i]
        /\ \A i \in Ids : rows[i] # "none" => rows'[i] # "none"
    BY <1>1, <2>1, <2>2 DEF TypeOK, Status
  <2>4. holds' = [holds EXCEPT ![h.by] = h.id] /\ busy' = busy \ {h.by} /\ queue' = Tail(queue)
    BY <1>10 DEF ClaimUpdate, Reply, ThenNothing
  <2>5. HonestRows'
    BY <1>1, <2>1, <2>2, <2>3, <2>4 DEF TypeOK, HonestRows, Ids
  <2>6. holds' \in [Workers -> Ids \cup {0}] /\ busy' \subseteq Workers
    BY <1>3, <2>1, <2>4
  <2>7. queue' \in Seq(HonestOps \cup HonestOps')
    BY <1>2, <2>1, <2>4, Requeue
  <2> QED
    BY <1>10, <2>3, <2>5, <2>6, <2>7, RowStep DEF ClaimUpdate
<1>11. CASE FindRow
  <2>1. queue # <<>> /\ h \in HonestOps /\ h.do = "find_row"
    BY <1>2, <1>11 DEF FindRow, Turn
  <2>2. [h EXCEPT !.do = "result_update"] \in HonestOps
    BY <2>1 DEF HonestOps, Ops, Claiming, Reporting, Carrying, Status, Nobody
  <2> QED
    BY <1>1, <1>2, <1>3, <1>11, <2>1, <2>2, QuietStep DEF FindRow, Then
<1>12. CASE ResultUpdate
  <2>1. /\ queue # <<>> /\ h \in HonestOps /\ h.do = "result_update"
        /\ h.id \in Ids /\ given[h.id] >= 1
    BY <1>2, <1>12 DEF ResultUpdate, Turn, HonestOps, Reporting
  <2>2. rows' = [rows EXCEPT ![h.id] = "COMPLETED"] /\ UNCHANGED <<given, holds>>
    BY <1>12 DEF ResultUpdate
  <2>3. /\ rows' \in [Ids -> Status] /\ given' \in [Ids -> Nat]
        /\ \A i \in Ids : given'[i] >= given[i]
        /\ \A i \in Ids : rows[i] # "none" => rows'[i] # "none"
    BY <1>1, <2>1, <2>2 DEF TypeOK, Status
  <2>4. [h EXCEPT !.do = "find_again", !.by = Nobody] \in HonestOps
    BY <2>1 DEF HonestOps, Ops, Claiming, Reporting, Carrying, Status, Nobody
  <2>5. HonestRows'
    BY <1>1, <2>1, <2>2, <2>3 DEF TypeOK, HonestRows
  <2>6. queue' \in Seq(HonestOps \cup HonestOps')
    BY <1>1, <1>2, <1>12, <2>1, <2>4, Requeue DEF ResultUpdate, Then
  <2> QED
    BY <1>3, <1>12, <2>2, <2>3, <2>5, <2>6, RowStep DEF ResultUpdate, Reply
<1>13. CASE FindAgain
  <2>1. /\ queue # <<>> /\ h \in HonestOps /\ h.do = "find_again"
        /\ h.id \in Ids /\ given[h.id] >= 1
    BY <1>2, <1>13 DEF FindAgain, Turn, HonestOps, Reporting
  <2>2. rows[h.id] \in Status \ {"none"}
    BY <1>1, <2>1 DEF TypeOK, HonestRows
  <2>3. [h EXCEPT !.do = "find_exec", !.st = rows[h.id]] \in HonestOps
    BY <2>1, <2>2 DEF HonestOps, Ops, Claiming, Reporting, Carrying, Status, Nobody
  <2> QED
    BY <1>1, <1>2, <1>3, <1>13, <2>1, <2>2, <2>3, QuietStep DEF FindAgain, Then
<1>14. CASE FindExec
  <2>1. queue # <<>> /\ h \in HonestOps /\ h.do = "find_exec"
    BY <1>2, <1>14 DEF FindExec, Turn
  <2>2. [h EXCEPT !.do = "find_def", !.ex = exec] \in HonestOps
    BY <1>1, <2>1 DEF HonestOps, Ops, Claiming, Reporting, Carrying, Status, Nobody
  <2>3. queue' \in Seq(HonestOps)
    BY <1>2, <1>14, <2>1, <2>2 DEF FindExec, Then, ThenNothing
  <2> QED
    BY <1>1, <1>3, <1>14, <2>3, QuietStep DEF FindExec
<1>15. CASE SweepFind
  <2>1. queue # <<>> /\ h \in HonestOps /\ h.do = "sweep_find"
    BY <1>2, <1>15 DEF SweepFind, Turn
  <2>2. [h EXCEPT !.do = "sweep_def", !.ex = exec] \in HonestOps
    BY <1>1, <2>1 DEF HonestOps, Ops, Claiming, Reporting, Carrying, Status, Nobody
  <2>3. queue' \in Seq(HonestOps)
    BY <1>2, <1>15, <2>1, <2>2 DEF SweepFind, Then, ThenNothing
  <2> QED
    BY <1>1, <1>3, <1>15, <2>3, QuietStep DEF SweepFind
<1>16. CASE FindDef
  <2>1. /\ queue # <<>> /\ h \in HonestOps /\ h.do = "find_def"
        /\ h.id \in Ids /\ given[h.id] >= 1 /\ h.st \in Status \ {"none"}
        /\ h.ex \in Copies /\ Honest(h.ex)
    BY <1>2, <1>16 DEF FindDef, Turn, HonestOps, Ops, Reporting, Carrying
  <2> DEFINE synced == [h.ex EXCEPT !.inst[h.id] = h.st]
  <2>2. synced \in Copies
    BY <2>1 DEF Copies
  <2>3. Honest(synced)
    BY <2>1 DEF Honest, Copies, Ids, Starts
  <2>4. AdvanceOp(synced) \in HonestOps
    BY <1>1, <2>2, <2>3, AdvanceIsHonest
  <2>5. Op("update_exec", Nobody, 0, "none", synced) \in HonestOps
    BY <2>2, <2>3 DEF Op, HonestOps, Ops, Claiming, Reporting, Carrying, Status, Nobody
  <2>6. queue' \in Seq(HonestOps)
    BY <1>2, <1>16, <2>1, <2>4, <2>5 DEF FindDef, Then
  <2> QED
    BY <1>1, <1>3, <1>16, <2>6, QuietStep DEF FindDef
<1>17. CASE SpawnDef
  <2>1. /\ queue # <<>> /\ h \in HonestOps /\ h.ex \in Copies /\ Honest(h.ex)
        /\ ids + 1 \in Ids /\ ids' \in Nat
    BY <1>2, <1>3, <1>17 DEF SpawnDef, Turn, HonestOps, Ops, Ids
  <2> DEFINE spawned == [h.ex EXCEPT !.inst[ids + 1] = "SCHEDULED"]
  <2>2. spawned \in Copies
    BY <2>1 DEF Copies, Status
  <2>3. Honest(spawned)
    BY <2>1 DEF Honest, Copies, Ids, Starts
  <2>4. Finished(spawned) \in Copies /\ Honest(Finished(spawned))
    BY <1>1, <2>2, <2>3, FinishedIsHonest
  <2>5. /\ Op("insert_row", Nobody, ids + 1, "SCHEDULED", spawned) \in HonestOps
        /\ Op("update_exec", Nobody, 0, "none", Finished(spawned)) \in HonestOps
    BY <2>1, <2>2, <2>3, <2>4 DEF Op, HonestOps, Ops, Claiming, Reporting, Carrying, Status, Nobody
  <2>6. queue' \in Seq(HonestOps)
    BY <1>2, <1>17, <2>1, <2>5 DEF SpawnDef, ThenBoth
  <2> QED
    BY <1>1, <1>3, <1>17, <2>1, <2>6, QuietStep DEF SpawnDef
<1>18. CASE InsertRow
  <2>1. queue # <<>> /\ h \in HonestOps /\ h.id \in Ids
    BY <1>2, <1>18 DEF InsertRow, Turn, HonestOps
  <2>2. rows' = [rows EXCEPT ![h.id] = "SCHEDULED"] /\ UNCHANGED <<given, holds, busy>>
    BY <1>18 DEF InsertRow
  <2>3. /\ rows' \in [Ids -> Status] /\ given' \in [Ids -> Nat]
        /\ \A i \in Ids : given'[i] >= given[i]
        /\ \A i \in Ids : rows[i] # "none" => rows'[i] # "none"
    BY <1>1, <2>1, <2>2 DEF TypeOK, Status
  <2>4. HonestRows'
    BY <1>1, <2>1, <2>2, <2>3 DEF TypeOK, HonestRows
  <2>5. queue' \in Seq(HonestOps \cup HonestOps')
    BY <1>1, <1>18, <2>1, Requeue DEF InsertRow, ThenNothing
  <2> QED
    BY <1>3, <1>18, <2>2, <2>3, <2>4, <2>5, RowStep DEF InsertRow
<1>19. CASE UpdateExec
  <2>1. queue # <<>> /\ h \in HonestOps /\ h.ex \in Copies /\ Honest(h.ex)
    BY <1>2, <1>19 DEF UpdateExec, Turn, HonestOps, Ops
  <2> QED
    BY <1>2, <1>3, <1>19, <2>1, QuietStep DEF UpdateExec, ThenNothing
<1>20. CASE BeatFind
  <2>1. queue # <<>> /\ h \in HonestOps /\ h.do = "beat_find"
    BY <1>2, <1>20 DEF BeatFind, Turn
  <2>2. [h EXCEPT !.do = "beat_def", !.st = "IN_PROGRESS"] \in HonestOps
    BY <2>1 DEF HonestOps, Ops, Claiming, Reporting, Carrying, Status, Nobody
  <2>3. queue' \in Seq(HonestOps)
    BY <1>2, <1>20, <2>1, <2>2 DEF BeatFind, Then, ThenNothing
  <2> QED
    BY <1>1, <1>3, <1>20, <2>3, QuietStep DEF BeatFind
<1>21. CASE BeatDef
  <2>1. queue # <<>> /\ h \in HonestOps /\ h.do = "beat_def"
    BY <1>2, <1>21 DEF BeatDef, Turn
  <2>2. [h EXCEPT !.do = "beat_update"] \in HonestOps
    BY <2>1 DEF HonestOps, Ops, Claiming, Reporting, Carrying, Status, Nobody
  <2> QED
    BY <1>1, <1>2, <1>3, <1>21, <2>1, <2>2, QuietStep DEF BeatDef, Then
<1>22. CASE BeatUpdate
  <2>1. /\ queue # <<>> /\ h \in HonestOps /\ h.st = "IN_PROGRESS"
        /\ h.id \in Ids /\ given[h.id] >= 1
    BY <1>2, <1>22 DEF BeatUpdate, Turn, HonestOps, Reporting
  <2>2. rows' = [rows EXCEPT ![h.id] = "IN_PROGRESS"] /\ UNCHANGED <<given, holds, busy>>
    BY <1>22, <2>1 DEF BeatUpdate
  <2>3. /\ rows' \in [Ids -> Status] /\ given' \in [Ids -> Nat]
        /\ \A i \in Ids : given'[i] >= given[i]
        /\ \A i \in Ids : rows[i] # "none" => rows'[i] # "none"
    BY <1>1, <2>1, <2>2 DEF TypeOK, Status
  <2>4. HonestRows'
    BY <1>1, <2>1, <2>2, <2>3 DEF TypeOK, HonestRows
  <2>5. queue' \in Seq(HonestOps \cup HonestOps')
    BY <1>1, <1>22, <2>1, Requeue DEF BeatUpdate, ThenNothing
  <2> QED
    BY <1>3, <1>22, <2>2, <2>3, <2>4, <2>5, RowStep DEF BeatUpdate
<1>23. CASE SweepDef
  <2>1. queue # <<>> /\ h \in HonestOps /\ h.ex \in Copies /\ Honest(h.ex)
    BY <1>2, <1>23 DEF SweepDef, Turn, HonestOps, Ops
  <2>2. AdvanceOp(h.ex) \in HonestOps
    BY <1>1, <2>1, AdvanceIsHonest
  <2> QED
    BY <1>1, <1>2, <1>3, <1>23, <2>1, <2>2, QuietStep DEF SweepDef, Then
<1>24. CASE UNCHANGED vars
  BY <1>1, <1>3, <1>24, QuietStep DEF vars
<1> QED
  BY <1>4, <1>5, <1>6, <1>7, <1>8, <1>9, <1>10, <1>11, <1>12, <1>13, <1>14, <1>15, <1>16, <1>17,
     <1>18, <1>19, <1>20, <1>21, <1>22, <1>23, <1>24 DEF Next, RunOp

(* What start() leaves is honest. *)
LEMMA RealInit ==
    ASSUME Init
    PROVE  RealInv
<1>1. Fresh \in [Ids -> Status] /\ \A i \in Ids : Fresh[i] # "COMPLETED"
      /\ Fresh[i] # "IN_PROGRESS"
  BY DEF Fresh, Status
<1>2. \A i \in Starts : i \in Ids /\ Fresh[i] = "SCHEDULED"
  BY TaskStoreAssumption DEF Fresh, Starts, Ids
<1>3. TypeOK
  BY <1>1, TaskStoreAssumption DEF Init, TypeOK, Copies
<1>4. HonestRows /\ Honest(exec)
  BY <1>1, <1>2 DEF Init, HonestRows, Honest
<1>5. queue \in Seq(HonestOps)
  BY DEF Init
<1> QED
  BY <1>3, <1>4, <1>5 DEF RealInv

(* No completion is invented, for any number of workers, start nodes,      *)
(* heartbeats and sweeps: an execution whose row says COMPLETED had every  *)
(* start node and a successor handed to a worker, however the handlers'    *)
(* operations interleave and whatever stale copies were written over it.   *)
THEOREM NoCompletionInvented == Spec => []CompletedIsReal
<1>1. RealInv => CompletedIsReal
  BY DEF RealInv, Honest, CompletedIsReal
<1> QED
  BY <1>1, RealInit, RealStep, PTL DEF Spec

-----------------------------------------------------------------------------
(***************************************************************************)
(* One worker, no heartbeat and no sweep.  The queue then has at most one  *)
(* request of the worker and the chain that its last result set off.  Both *)
(* advance by one operation per round of the queue, and the chain is ahead *)
(* from the start: it is over before the next result is recorded, so that  *)
(* no second chain captures the execution meanwhile.                       *)
(***************************************************************************)
Successor == NumStarts + 1

Asks    == {"find_first", "claim_def", "claim_update", "find_row", "result_update"}
Reports == {"find_again", "find_exec", "find_def"}

(* The turns an operation's chain has behind it, its own included. *)
Rank(do) ==
    IF do \in {"find_first", "find_again"} THEN 1
    ELSE IF do \in {"claim_def", "find_exec"} THEN 2
    ELSE IF do \in {"claim_update", "find_def"} THEN 3
    ELSE IF do \in {"find_row", "spawn_def"} THEN 4 ELSE 5

(* A copy has every result that is recorded, but those of the tasks in     *)
(* `but`, and the successor once it was spawned.                           *)
Agrees(ex, but) == \A i \in Ids \ but : rows[i] = "COMPLETED" => ex.inst[i] = "COMPLETED"
Shows(ex) == ids = Successor => ex.inst[Successor] # "none"
UpToDate(but) == exec.status = "RUNNING" => Agrees(exec, but) /\ Shows(exec)

(* The worker's request. *)
AskOk(x) ==
    /\ x.do \in Asks /\ x.by \in Workers
    /\ x.do \in Claiming => x.id \in Ids /\ rows[x.id] = "SCHEDULED"
    /\ x.do \in {"find_row", "result_update"} => x.id \in Ids /\ rows[x.id] = "IN_PROGRESS"

(* The operation a chain is at: until it has captured the execution only   *)
(* its own result is missing there, afterwards the captured copy has it.   *)
AnswerOk(y) ==
    \/ /\ y.do \in Reports
       /\ y.id \in Ids /\ rows[y.id] = "COMPLETED" /\ UpToDate({y.id})
       /\ y.do # "find_again" => y.st = "COMPLETED"
       /\ y.do = "find_def" => y.ex = exec /\ exec.status = "RUNNING"
    \/ y.do = "spawn_def" /\ Agrees(y.ex, {}) /\ ids = NumStarts
    \/ y.do = "update_exec" /\ Agrees(y.ex, {}) /\ Shows(y.ex)

(* spawn_with_def() leaves two operations. *)
Spawned(y, z) ==
    /\ y.do = "insert_row" /\ y.id = Successor /\ ids = Successor /\ rows[Successor] = "none"
    /\ z.do = "update_exec" /\ AnswerOk(z)

(* The chain's part of the queue. *)
ChainOk(e) ==
    \/ e = <<>> /\ UpToDate({})
    \/ \E y : e = <<y>> /\ AnswerOk(y)
    \/ \E y, z : e = <<y, z>> /\ Spawned(y, z)
AtLeast(e, n) == e # <<>> => Rank(Head(e).do) >= n

(* Worker w's part of the queue, when the chain is at rank n or further. *)
AskingOk(w, a, n) ==
    \/ a = <<>> /\ w \notin busy /\ (holds[w] # 0 => n >= 4)
    \/ \E x : a = <<x>> /\ AskOk(x) /\ w \in busy /\ Rank(x.do) <= n

Line(w) ==
    \E e : /\ ChainOk(e)
           /\ \/ queue = e /\ w \notin busy /\ (holds[w] # 0 => AtLeast(e, 4))
              \/ \E x : /\ AskOk(x) /\ w \in busy
                        /\ \/ queue = e \o <<x>> /\ AtLeast(e, Rank(x.do))
                           \/ queue = <<x>> \o e /\ AtLeast(e, Rank(x.do) + 1)

RowsOk(w) ==
    /\ ids \in {NumStarts, Successor}
    /\ \A i \in Ids : given[i] <= 1 /\ (rows[i] \in {"none", "SCHEDULED"} => given[i] = 0)
    /\ \A i \in Ids : i > ids => rows[i] = "none"
    /\ holds[w] # 0 => rows[holds[w]] = "IN_PROGRESS" /\ w \notin busy
    /\ handed \subseteq {"COMPLETED"}

ExactInv(w) == RealInv /\ RowsOk(w) /\ Line(w)

(* Sequences of one, two and three operations. *)
LEMMA Pair ==
    ASSUME NEW x, NEW y
    PROVE  <<x>> \o <<y>> = <<x, y>> /\ Append(<<x>>, y) = <<x, y>>
<1> DEFINE S == {x, y}
           c == <<x>> \o <<y>>
           d == Append(<<x>>, y)
<1>1. <<x>> \in Seq(S) /\ <<y>> \in Seq(S) /\ <<x, y>> \in Seq(S)
  OBVIOUS
<1>2. c \in Seq(S) /\ d \in Seq(S) /\ Len(c) = 2 /\ Len(d) = 2 /\ Len(<<x, y>>) = 2
  BY <1>1
<1>3. c[1] = x /\ c[2] = y /\ d[1] = x /\ d[2] = y
  BY <1>1
<1>4. \A i \in 1..2 : c[i] = <<x, y>>[i] /\ d[i] = <<x, y>>[i]
  BY <1>3
<1> QED
  BY <1>1, <1>2, <1>4, SeqEqual

LEMMA Triple ==
    ASSUME NEW x, NEW y, NEW z
    PROVE  /\ <<x>> \o <<y, z>> = <<x, y, z>> /\ <<x, y>> \o <<z>> = <<x, y, z>>
           /\ Append(<<x, y>>, z) = <<x, y, z>>
<1> DEFINE S == {x, y, z}
           b == <<x>> \o <<y, z>>
           c == <<x, y>> \o <<z>>
           d == Append(<<x, y>>, z)
<1>1. /\ <<x>> \in Seq(S) /\ <<z>> \in Seq(S) /\ <<x, y>> \in Seq(S) /\ <<y, z>> \in Seq(S)
      /\ <<x, y, z>> \in Seq(S)
  OBVIOUS
<1>2. b \in Seq(S) /\ c \in Seq(S) /\ d \in Seq(S)
  BY <1>1
<1>3. Len(b) = 3 /\ Len(c) = 3 /\ Len(d) = 3 /\ Len(<<x, y, z>>) = 3
  BY <1>1
<1>4. b[1] = x /\ b[2] = y /\ b[3] = z 
  BY <1>1
<1>5. c[1] = x /\ c[2] = y /\ c[3] = z
  BY <1>1
<1>6. d[1] = x /\ d[2] = y /\ d[3] = z
  BY <1>1
<1>7. \A i \in 1..3 : b[i] = <<x, y, z>>[i] /\ c[i] = <<x, y, z>>[i] /\ d[i] = <<x, y, z>>[i]
  BY <1>4, <1>5, <1>6
<1> QED
  BY <1>1, <1>2, <1>3, <1>7, SeqEqual

LEMMA Heads ==
    /\ \A x : <<x>> # <<>> /\ Head(<<x>>) = x /\ Tail(<<x>>) = <<>>
    /\ \A x, y : <<x, y>> # <<>> /\ Head(<<x, y>>) = x /\ Tail(<<x, y>>) = <<y>>
    /\ \A x, y, z : <<x, y, z>> # <<>> /\ Head(<<x, y, z>>) = x /\ Tail(<<x, y, z>>) = <<y, z>>
    /\ \A x : <<>> \o <<x>> = <<x>> /\ <<x>> \o <<>> = <<x>> /\ Append(<<>>, x) = <<x>>
    /\ \A x, y : <<>> \o <<x, y>> = <<x, y>>
<1>1. \A x : <<x>> # <<>> /\ Head(<<x>>) = x /\ Tail(<<x>>) = <<>>
  OBVIOUS
<1>2. \A x, y : <<x, y>> # <<>> /\ Head(<<x, y>>) = x /\ Tail(<<x, y>>) = <<y>>
  OBVIOUS
<1>3. \A x, y, z : <<x, y, z>> # <<>> /\ Head(<<x, y, z>>) = x /\ Tail(<<x, y, z>>) = <<y, z>>
  OBVIOUS
<1>4. \A x : <<>> \o <<x>> = <<x>> /\ <<x>> \o <<>> = <<x>> /\ Append(<<>>, x) = <<x>>
  OBVIOUS
<1>5. \A x, y : <<>> \o <<x, y>> = <<x, y>>
  OBVIOUS
<1> QED
  BY <1>1, <1>2, <1>3, <1>4, <1>5

(* The chain's part in front of or behind a request. *)
LEMMA Joins ==
    ASSUME NEW e, ChainOk(e), NEW x
    PROVE  /\ <<x>> \o e # <<>> /\ Head(<<x>> \o e) = x /\ Tail(<<x>> \o e) = e
           /\ e # <<>> => Head(e \o <<x>>) = Head(e) /\ Tail(e \o <<x>>) = Tail(e) \o <<x>>
<1>1. CASE e = <<>>
  BY <1>1, Heads
<1>2. ASSUME NEW y, e = <<y>> 
      PROVE  /\ <<x>> \o e # <<>> /\ Head(<<x>> \o e) = x /\ Tail(<<x>> \o e) = e
             /\ e # <<>> => Head(e \o <<x>>) = Head(e) /\ Tail(e \o <<x>>) = Tail(e) \o <<x>>
  <2>1. <<x>> \o <<y>> = <<x, y>> /\ <<y>> \o <<x>> = <<y, x>>
    BY Pair
  <2>2. /\ <<x, y>> # <<>> /\ Head(<<x, y>>) = x /\ Tail(<<x, y>>) = <<y>>
        /\ Head(<<y, x>>) = y /\ Tail(<<y, x>>) = <<x>> /\ Head(<<y>>) = y /\ Tail(<<y>>) = <<>>
        /\ <<>> \o <<x>> = <<x>>
    BY Heads
  <2> QED
    BY <1>2, <2>1, <2>2
<1>3. ASSUME NEW y, NEW z, e = <<y, z>> 
      PROVE  /\ <<x>> \o e # <<>> /\ Head(<<x>> \o e) = x /\ Tail(<<x>> \o e) = e
             /\ e # <<>> => Head(e \o <<x>>) = Head(e) /\ Tail(e \o <<x>>) = Tail(e) \o <<x>>
  <2>1. /\ <<x>> \o <<y, z>> = <<x, y, z>> /\ <<y, z>> \o <<x>> = <<y, z, x>>
        /\ <<z>> \o <<x>> = <<z, x>>
    BY Pair, Triple
  <2>2. /\ <<x, y, z>> # <<>> /\ Head(<<x, y, z>>) = x /\ Tail(<<x, y, z>>) = <<y, z>>
        /\ Head(<<y, z, x>>) = y /\ Tail(<<y, z, x>>) = <<z, x>>
        /\ Head(<<y, z>>) = y /\ Tail(<<y, z>>) = <<z>>
    BY Heads
  <2> QED
    BY <1>3, <2>1, <2>2
<1> QED
  BY <1>1, <1>2, <1>3 DEF ChainOk

LEMMA Ranks == \A do : Rank(do) \in 1..5
  BY DEF Rank

(* The chain's first operation is not the worker's. *)
LEMMA ChainHead ==
    ASSUME NEW e, ChainOk(e), e # <<>>
    PROVE  /\ Head(e).do \notin Asks
           /\ \/ AnswerOk(Head(e)) /\ Tail(e) = <<>>
              \/ \E z : Spawned(Head(e), z) /\ Tail(e) = <<z>>
<1>1. ASSUME NEW y, e = <<y>>, AnswerOk(y)
      PROVE  Head(e).do \notin Asks /\ AnswerOk(Head(e)) /\ Tail(e) = <<>>
  <2>1. y.do \notin Asks
    BY <1>1 DEF AnswerOk, Reports, Asks
  <2> QED
    BY <1>1, <2>1, Heads
<1>2. ASSUME NEW y, NEW z, e = <<y, z>>, Spawned(y, z)
      PROVE  Head(e).do \notin Asks /\ Spawned(Head(e), z) /\ Tail(e) = <<z>>
  <2>1. y.do \notin Asks
    BY <1>2 DEF Spawned, Asks
  <2> QED
    BY <1>2, <2>1, Heads
<1> QED
  BY <1>1, <1>2 DEF ChainOk

(* The head of a queue that is not empty is the worker's request, with the *)
(* chain behind it and a turn ahead ...                                    *)
LEMMA AskTurn ==
    ASSUME NEW w, Line(w), queue # <<>>, Head(queue).do \in Asks
    PROVE  /\ AskOk(Head(queue)) /\ w \in busy /\ ChainOk(Tail(queue))
           /\ AtLeast(Tail(queue), Rank(Head(queue).do) + 1)
<1>1. PICK e : /\ ChainOk(e)
               /\ \/ queue = e /\ w \notin busy /\ (holds[w] # 0 => AtLeast(e, 4))
                  \/ \E x : /\ AskOk(x) /\ w \in busy
                            /\ \/ queue = e \o <<x>> /\ AtLeast(e, Rank(x.do))
                               \/ queue = <<x>> \o e /\ AtLeast(e, Rank(x.do) + 1)
  BY DEF Line
<1>2. e # <<>> => Head(e).do \notin Asks
  BY <1>1, ChainHead
<1>3. \A x : e # <<>> => Head(e \o <<x>>) = Head(e)
  BY <1>1, Joins
<1>4. PICK x : /\ AskOk(x) /\ w \in busy
               /\ \/ queue = e \o <<x>> /\ AtLeast(e, Rank(x.do))
                  \/ queue = <<x>> \o e /\ AtLeast(e, Rank(x.do) + 1)
  BY <1>1, <1>2
<1>5. CASE queue = <<x>> \o e /\ AtLeast(e, Rank(x.do) + 1)
  <2>1. Head(queue) = x /\ Tail(queue) = e
    BY <1>1, <1>5, Joins
  <2> QED
    BY <1>1, <1>4, <1>5, <2>1
<1>6. CASE queue = e \o <<x>> /\ AtLeast(e, Rank(x.do))
  <2>1. e = <<>>
    BY <1>2, <1>3, <1>6
  <2>2. Head(queue) = x /\ Tail(queue) = e
    BY <1>6, <2>1, Heads
  <2> QED
    BY <1>1, <1>4, <2>1, <2>2 DEF AtLeast
<1> QED
  BY <1>4, <1>5, <1>6

(* ... or an operation of the chain, with the worker's request behind it   *)
(* and not ahead.                                                          *)
LEMMA ChainTurn ==
    ASSUME NEW w, Line(w), queue # <<>>, Head(queue).do \notin Asks
    PROVE  \E a : /\ AskingOk(w, a, Rank(Head(queue).do))
                  /\ \/ AnswerOk(Head(queue)) /\ Tail(queue) = a
                     \/ \E z : Spawned(Head(queue), z) /\ Tail(queue) = <<z>> \o a
<1>1. PICK e : /\ ChainOk(e)
               /\ \/ queue = e /\ w \notin busy /\ (holds[w] # 0 => AtLeast(e, 4))
                  \/ \E x : /\ AskOk(x) /\ w \in busy
                            /\ \/ queue = e \o <<x>> /\ AtLeast(e, Rank(x.do))
                               \/ queue = <<x>> \o e /\ AtLeast(e, Rank(x.do) + 1)
  BY DEF Line
<1> DEFINE h == Head(queue)
           n == Rank(h.do)
           Split(a) == \/ AnswerOk(h) /\ Tail(queue) = a
                       \/ \E z : Spawned(h, z) /\ Tail(queue) = <<z>> \o a
<1>2. ASSUME queue = e, w \notin busy, holds[w] # 0 => AtLeast(e, 4)
      PROVE  AskingOk(w, <<>>, n) /\ Split(<<>>)
  <2>1. AskingOk(w, <<>>, n)
    BY <1>2 DEF AskingOk, AtLeast
  <2>2. \/ AnswerOk(h) /\ Tail(queue) = <<>>
        \/ \E z : Spawned(h, z) /\ Tail(queue) = <<z>>
    BY <1>1, <1>2, ChainHead
  <2>3. \A z : <<z>> = <<z>> \o <<>>
    BY Heads
  <2> QED
    BY <2>1, <2>2, <2>3
<1>3. ASSUME NEW x, AskOk(x), w \in busy, queue = e \o <<x>>, AtLeast(e, Rank(x.do))
      PROVE  AskingOk(w, <<x>>, n) /\ Split(<<x>>)
  <2>1. e # <<>>
    <3>1. e = <<>> => Head(queue) = x
      BY <1>3, Heads
    <3> QED
      BY <1>3, <3>1 DEF AskOk
  <2>2. h = Head(e) /\ Tail(queue) = Tail(e) \o <<x>>
    BY <1>1, <1>3, <2>1, Joins
  <2>3. AskingOk(w, <<x>>, n)
    BY <1>3, <2>1, <2>2, Ranks DEF AskingOk, AtLeast
  <2>4. \/ AnswerOk(h) /\ Tail(e) = <<>>
        \/ \E z : Spawned(h, z) /\ Tail(e) = <<z>>
    BY <1>1, <2>1, <2>2, ChainHead
  <2>5. <<>> \o <<x>> = <<x>>
    BY Heads
  <2> QED
    BY <2>2, <2>3, <2>4, <2>5
<1>4. ASSUME NEW x, AskOk(x), queue = <<x>> \o e PROVE FALSE
  <2>1. Head(queue) = x
    BY <1>1, <1>4, Joins
  <2> QED
    BY <1>4, <2>1 DEF AskOk
<1> QED
  BY <1>1, <1>2, <1>3, <1>4

(* Putting the queue together again after a turn of the chain ...          *)
LEMMA ChainGoesOn ==
    ASSUME NEW w, NEW a, NEW n \in 1..5, NEW e,
           AskingOk(w, a, n)', ChainOk(e)', AtLeast(e, n + 1), queue' = a \o e
    PROVE  Line(w)'
<1>1. ASSUME a = <<>>, (w \notin busy)', (holds[w] # 0)' => n >= 4
      PROVE  Line(w)'
  <2>1. queue' = e
    BY <1>1, Heads, Joins DEF ChainOk
  <2>2. (holds[w] # 0)' => AtLeast(e, 4)
    BY <1>1, Ranks DEF AtLeast
  <2> QED
    BY <1>1, <2>1, <2>2 DEF Line
<1>2. ASSUME NEW x, a = <<x>>, AskOk(x)', (w \in busy)', Rank(x.do) <= n
      PROVE  Line(w)'
  <2>1. AtLeast(e, Rank(x.do) + 1)
    BY <1>2, Ranks DEF AtLeast
  <2> QED
    BY <1>2, <2>1 DEF Line
<1> QED
  BY <1>1, <1>2 DEF AskingOk

(* ... of the insert of the pair ...                                       *)
LEMMA PairGoesOn ==
    ASSUME NEW w, NEW a, NEW z, AskingOk(w, a, 5)', AnswerOk(z)', z.do = "update_exec",
           queue' = <<z>> \o a
    PROVE  Line(w)'
<1>1. ChainOk(<<z>>)' /\ \A n \in 1..5 : AtLeast(<<z>>, n)
  <2>1. ChainOk(<<z>>)'
    BY DEF ChainOk
  <2>2. Rank(z.do) = 5 /\ Head(<<z>>) = z
    BY Heads DEF Rank
  <2> QED
    BY <2>1, <2>2 DEF AtLeast
<1>2. ASSUME a = <<>>, (w \notin busy)' PROVE Line(w)'
  <2>1. queue' = <<z>>
    BY <1>2, Heads
  <2> QED
    BY <1>1, <1>2, <2>1 DEF Line
<1>3. ASSUME NEW x, a = <<x>>, AskOk(x)', (w \in busy)' PROVE Line(w)'
  <2>1. AtLeast(<<z>>, Rank(x.do))
    BY <1>1, Ranks
  <2> QED
    BY <1>1, <1>3, <2>1 DEF Line
<1> QED
  BY <1>2, <1>3 DEF AskingOk

(* ... and when the worker asks, or goes on asking.                        *)
LEMMA AskGoesOn ==
    ASSUME NEW w, NEW e, NEW x, ChainOk(e)', AskOk(x)', w \in busy', AtLeast(e, Rank(x.do)),
           queue' = Append(e, x)
    PROVE  Line(w)'
<1>1. queue' = e \o <<x>>
  <2>1. e = <<>> \/ (\E y : e = <<y>>) \/ (\E y, z : e = <<y, z>>)
    BY DEF ChainOk
  <2>2. CASE e = <<>>
    BY <2>2, Heads
  <2>3. ASSUME NEW y, e = <<y>> PROVE queue' = e \o <<x>>
    BY <2>3, Pair
  <2>4. ASSUME NEW y, NEW z, e = <<y, z>> PROVE queue' = e \o <<x>>
    BY <2>4, Triple
  <2> QED
    BY <2>1, <2>2, <2>3, <2>4
<1> QED
  BY <1>1 DEF Line

(* A worker that waits for nothing has no request in the queue.            *)
LEMMA NotAsking ==
    ASSUME NEW w, Line(w), w \notin busy
    PROVE  ChainOk(queue) /\ (holds[w] # 0 => AtLeast(queue, 4))
  BY DEF Line

(* What is said of the parts depends on the rows and the execution only.   *)
LEMMA PartsStay ==
    ASSUME rows' = rows, ids' = ids, exec' = exec
    PROVE  /\ \A x : AskOk(x)' <=> AskOk(x)
           /\ \A y : AnswerOk(y)' <=> AnswerOk(y)
           /\ \A e : ChainOk(e)' <=> ChainOk(e)
<1>1. \A x : AskOk(x)' <=> AskOk(x)
  BY DEF AskOk
<1>2. \A y : AnswerOk(y)' <=> AnswerOk(y)
  BY DEF AnswerOk, UpToDate, Agrees, Shows
<1>3. \A y, z : Spawned(y, z)' <=> Spawned(y, z)
  BY <1>2 DEF Spawned
<1>4. UpToDate({})' <=> UpToDate({})
  BY DEF UpToDate, Agrees, Shows
<1> QED
  BY <1>1, <1>2, <1>3, <1>4 DEF ChainOk

LEMMA AskingStays ==
    ASSUME NEW w, NEW a, NEW n, AskingOk(w, a, n), busy' = busy, holds' = holds,
           \A x : AskOk(x) => AskOk(x)'
    PROVE  AskingOk(w, a, n)'
  BY DEF AskingOk

(* A row that moves without being completed leaves the chain as it was.    *)
LEMMA ChainStays ==
    ASSUME ids' = ids, exec' = exec, NEW k \in Ids, k # Successor \/ rows[Successor] # "none",
           NEW v, v # "COMPLETED", rows[k] # "COMPLETED", rows \in [Ids -> Status],
           rows' = [rows EXCEPT ![k] = v]
    PROVE  \A e : ChainOk(e) => ChainOk(e)'
<1>1. Successor \in Ids
  BY TaskStoreAssumption DEF Successor, Ids
<1>2. \A i \in Ids : rows'[i] = "COMPLETED" <=> rows[i] = "COMPLETED"
  OBVIOUS
<1>3. /\ \A ex, but : Agrees(ex, but)' <=> Agrees(ex, but)
      /\ \A ex : Shows(ex)' <=> Shows(ex)
  BY <1>2 DEF Agrees, Shows
<1>4. \A but : UpToDate(but)' <=> UpToDate(but)
  BY <1>3 DEF UpToDate
<1>5. \A y : AnswerOk(y) => AnswerOk(y)'
  BY <1>2, <1>3, <1>4 DEF AnswerOk
<1>6. rows[Successor] = "none" => rows'[Successor] = "none"
  BY <1>1
<1>7. \A y, z : Spawned(y, z) => Spawned(y, z)'
  BY <1>5, <1>6 DEF Spawned
<1> QED
  BY <1>4, <1>5, <1>7 DEF ChainOk

LEMMA AskingShape ==
    ASSUME NEW w, NEW a, NEW n, AskingOk(w, a, n)
    PROVE  a \o <<>> = a /\ \A y : Append(a, y) = a \o <<y>>
<1>1. CASE a = <<>>
  <2>1. <<>> \o <<>> = <<>>
    OBVIOUS
  <2> QED
    BY <1>1, <2>1, Heads
<1>2. ASSUME NEW x, a = <<x>> PROVE a \o <<>> = a /\ \A y : Append(a, y) = a \o <<y>>
  BY <1>2, Heads, Pair
<1> QED
  BY <1>1, <1>2 DEF AskingOk

LEMMA FinishedKeeps ==
    ASSUME NEW ex \in Copies
    PROVE  Finished(ex).inst = ex.inst
  BY DEF Finished, Copies

-----------------------------------------------------------------------------
(* The worker's requests, and the turns that serve them.                   *)
LEMMA RequestStep ==
    ASSUME NEW w, Workers = {w}, ExactInv(w), Poll(w) \/ Submit(w)
    PROVE  RowsOk(w)' /\ Line(w)'
<1> USE DEF storeVars, clientVars, ghostVars
<1>1. /\ rows' = rows /\ ids' = ids /\ exec' = exec /\ given' = given /\ handed' = handed
      /\ w \notin busy /\ busy' = busy \cup {w}
  BY DEF Poll, Submit
<1>2. ChainOk(queue) /\ (holds[w] # 0 => AtLeast(queue, 4))
  BY <1>1, NotAsking DEF ExactInv
<1>3. PICK q : q = queue
  OBVIOUS
<1>4. ChainOk(q)'
  BY <1>1, <1>2, <1>3, PartsStay
<1>5. CASE Poll(w)
  <2>1. PICK x : x = Op("find_first", w, 0, "none", exec)
    OBVIOUS
  <2>2. x.do = "find_first" /\ x.by = w /\ Rank(x.do) = 1
    BY <2>1 DEF Op, Rank
  <2>3. AskOk(x)'
    BY <2>2 DEF AskOk, Asks, Claiming
  <2>4. AtLeast(q, Rank(x.do))
    BY <2>2, Ranks DEF AtLeast
  <2>5. queue' = Append(q, x) /\ w \in busy' /\ holds' = holds /\ holds[w] = 0
    BY <1>1, <1>3, <1>5, <2>1 DEF Poll
  <2>6. Line(w)'
    BY <1>4, <2>3, <2>4, <2>5, AskGoesOn
  <2> QED
    BY <1>1, <2>5, <2>6 DEF ExactInv, RowsOk
<1>6. CASE Submit(w)
  <2>1. PICK x : x = Op("find_row", w, holds[w], "none", exec)
    OBVIOUS
  <2>2. x.do = "find_row" /\ x.by = w /\ x.id = holds[w] /\ Rank(x.do) = 4
    BY <2>1 DEF Op, Rank
  <2>3. holds \in [Workers -> Ids \cup {0}] /\ holds[w] # 0 /\ rows[holds[w]] = "IN_PROGRESS"
    BY <1>6 DEF ExactInv, RealInv, TypeOK, RowsOk, Submit
  <2>4. AskOk(x)'
    BY <1>1, <2>2, <2>3 DEF AskOk, Asks, Claiming
  <2>5. AtLeast(q, Rank(x.do))
    BY <1>2, <1>3, <2>2, <2>3
  <2>6. queue' = Append(q, x) /\ w \in busy' /\ holds'[w] = 0
    BY <1>1, <1>3, <1>6, <2>1, <2>3 DEF Submit
  <2>7. Line(w)'
    BY <1>4, <2>4, <2>5, <2>6, AskGoesOn
  <2> QED
    BY <1>1, <2>6, <2>7 DEF ExactInv, RowsOk
<1> QED
  BY <1>5, <1>6

(* What the head of the queue is like. *)
LEMMA HeadFacts ==
    ASSUME NEW w, Workers = {w}, ExactInv(w), queue # <<>>
    PROVE  /\ Head(queue) \in HonestOps /\ Head(queue) \in Ops
           /\ Head(queue).do \in {"find_first"} \cup Claiming => Head(queue).by = w
           /\ rows \in [Ids -> Status] /\ given \in [Ids -> Nat] /\ exec \in Copies
           /\ holds \in [Workers -> Ids \cup {0}]
<1>1. Head(queue) \in HonestOps
  BY DEF ExactInv, RealInv
<1> QED
  BY <1>1 DEF HonestOps, ExactInv, RealInv, TypeOK

(* A request that goes on to its next operation.                           *)
LEMMA AskNext ==
    ASSUME NEW w, ExactInv(w), queue # <<>>, Head(queue).do \in Asks, NEW x,
           AskOk(x), Rank(x.do) = Rank(Head(queue).do) + 1, Then(x),
           UNCHANGED <<rows, ids, exec, given, holds, busy, handed>>
    PROVE  RowsOk(w)' /\ Line(w)'
<1>1. /\ w \in busy /\ ChainOk(Tail(queue))
      /\ AtLeast(Tail(queue), Rank(Head(queue).do) + 1)
  BY AskTurn DEF ExactInv
<1>2. PICK e : e = Tail(queue)
  OBVIOUS
<1>3. ChainOk(e)' /\ AskOk(x)'
  BY <1>1, <1>2, PartsStay
<1>4. AtLeast(e, Rank(x.do)) /\ queue' = Append(e, x) /\ w \in busy'
  BY <1>1, <1>2 DEF Then
<1> QED
  BY <1>3, <1>4, AskGoesOn DEF ExactInv, RowsOk

LEMMA ClaimSteps ==
    ASSUME NEW w, Workers = {w}, ExactInv(w), FindFirst \/ ClaimDef \/ FindRow
    PROVE  RowsOk(w)' /\ Line(w)'
<1> USE DEF storeVars, clientVars, ghostVars
<1>1. queue # <<>> /\ Head(queue).do \in {"find_first", "claim_def", "find_row"}
  BY DEF FindFirst, ClaimDef, FindRow, Turn
<1>2. /\ AskOk(Head(queue)) /\ w \in busy /\ ChainOk(Tail(queue))
      /\ AtLeast(Tail(queue), Rank(Head(queue).do) + 1)
  BY <1>1, AskTurn DEF ExactInv, Asks
<1>3. Head(queue) \in Ops /\ (Head(queue).do = "find_first" => Head(queue).by = w)
  BY <1>1, HeadFacts
<1>4. Head(queue).do \in Asks
  BY <1>1 DEF Asks
<1>5. CASE FindFirst /\ Reply(Head(queue).by) /\ ThenNothing
  <2>1. Head(queue).by = w
    BY <1>3, <1>5 DEF FindFirst, Turn
  <2>2. PICK e : e = Tail(queue)
    OBVIOUS
  <2>3. UNCHANGED <<rows, ids, exec, given, holds, handed>> /\ queue' = e /\ w \notin busy'
    BY <1>5, <2>1, <2>2 DEF FindFirst, Reply, ThenNothing
  <2>4. ChainOk(e)'
    BY <1>2, <2>2, <2>3, PartsStay
  <2>5. holds[w] = 0
    BY <1>2 DEF ExactInv, RowsOk
  <2> QED
    BY <2>3, <2>4, <2>5 DEF ExactInv, RowsOk, Line
<1>6. ASSUME FindFirst, NEW i \in Ids, rows[i] = "SCHEDULED", UNCHANGED busy,
             Then([Head(queue) EXCEPT !.do = "claim_def", !.id = i])
      PROVE  RowsOk(w)' /\ Line(w)'
  <2>1. PICK x : x = [Head(queue) EXCEPT !.do = "claim_def", !.id = i]
    OBVIOUS
  <2>2. x.do = "claim_def" /\ x.id = i /\ x.by = w
    BY <1>3, <1>6, <2>1 DEF Ops, FindFirst, Turn
  <2>3. AskOk(x)
    BY <1>6, <2>2 DEF AskOk, Asks, Claiming
  <2>4. Rank(x.do) = Rank(Head(queue).do) + 1
    <3>1. Head(queue).do = "find_first"
      BY <1>6 DEF FindFirst, Turn
    <3> QED
      BY <2>2, <3>1 DEF Rank
  <2>5. Then(x) /\ UNCHANGED <<rows, ids, exec, given, holds, busy, handed>>
    BY <1>6, <2>1 DEF FindFirst
  <2> QED
    BY <1>1, <1>4, <2>3, <2>4, <2>5, AskNext
<1>7. CASE ClaimDef
  <2>1. PICK x : x = [Head(queue) EXCEPT !.do = "claim_update"]
    OBVIOUS
  <2>2. x.do = "claim_update" /\ x.id = Head(queue).id /\ x.by = Head(queue).by
    BY <1>3, <2>1 DEF Ops
  <2>3. AskOk(x) /\ Rank(x.do) = Rank(Head(queue).do) + 1
    BY <1>2, <1>7, <2>2 DEF AskOk, Asks, Rank, ClaimDef, Turn, Claiming
  <2>4. Then(x) /\ UNCHANGED <<rows, ids, exec, given, holds, busy, handed>>
    BY <1>7, <2>1 DEF ClaimDef
  <2> QED
    BY <1>1, <1>4, <2>3, <2>4, AskNext
<1>8. CASE FindRow
  <2>1. PICK x : x = [Head(queue) EXCEPT !.do = "result_update"]
    OBVIOUS
  <2>2. x.do = "result_update" /\ x.id = Head(queue).id /\ x.by = Head(queue).by
    BY <1>3, <2>1 DEF Ops
  <2>3. AskOk(x) /\ Rank(x.do) = Rank(Head(queue).do) + 1
    BY <1>2, <1>8, <2>2 DEF AskOk, Asks, Rank, FindRow, Turn, Claiming
  <2>4. Then(x) /\ UNCHANGED <<rows, ids, exec, given, holds, busy, handed>>
    BY <1>8, <2>1 DEF FindRow
  <2> QED
    BY <1>1, <1>4, <2>3, <2>4, AskNext
<1> QED
  BY <1>5, <1>6, <1>7, <1>8 DEF FindFirst

(* The task goes out while its chain, if there is one, has at most two     *)
(* turns left.                                                             *)
LEMMA ClaimUpdateStep ==
    ASSUME NEW w, Workers = {w}, ExactInv(w), ClaimUpdate
    PROVE  RowsOk(w)' /\ Line(w)'
<1> USE DEF storeVars, clientVars, ghostVars
<1>1. queue # <<>> /\ Head(queue).do = "claim_update"
  BY DEF ClaimUpdate, Turn
<1>2. /\ AskOk(Head(queue)) /\ w \in busy /\ ChainOk(Tail(queue))
      /\ AtLeast(Tail(queue), Rank(Head(queue).do) + 1)
  BY <1>1, AskTurn DEF ExactInv, Asks
<1>3. /\ Head(queue).by = w /\ rows \in [Ids -> Status] /\ given \in [Ids -> Nat]
      /\ holds \in [Workers -> Ids \cup {0}]
  BY <1>1, HeadFacts DEF Claiming
<1>4. PICK k \in Ids : k = Head(queue).id /\ rows[k] = "SCHEDULED"
  BY <1>1, <1>2 DEF AskOk, Claiming
<1>5. PICK e : e = Tail(queue)
  OBVIOUS
<1>6. /\ rows' = [rows EXCEPT ![k] = "IN_PROGRESS"] /\ given' = [given EXCEPT ![k] = @ + 1]
      /\ holds' = [holds EXCEPT ![w] = k] /\ w \notin busy' /\ queue' = e
      /\ ids' = ids /\ exec' = exec /\ handed' = handed
  BY <1>3, <1>4, <1>5 DEF ClaimUpdate, Reply, ThenNothing
<1>7. ChainOk(e)'
  BY <1>2, <1>3, <1>4, <1>5, <1>6, ChainStays
<1>8. AtLeast(e, 4)
  BY <1>1, <1>2, <1>5 DEF Rank
<1>9. Line(w)'
  BY <1>6, <1>7, <1>8 DEF Line
<1>10. given[k] = 0 /\ k <= ids
  BY <1>4, TaskStoreAssumption DEF ExactInv, RowsOk, Ids, Successor
<1>11. RowsOk(w)'
  BY <1>3, <1>4, <1>6, <1>10, TaskStoreAssumption DEF ExactInv, RowsOk, Ids, Successor
<1> QED
  BY <1>9, <1>11

(* The result is recorded when no chain is left, and starts one.           *)
LEMMA ResultUpdateStep ==
    ASSUME NEW w, Workers = {w}, ExactInv(w), ResultUpdate
    PROVE  RowsOk(w)' /\ Line(w)'
<1> USE DEF storeVars, clientVars, ghostVars
<1>1. queue # <<>> /\ Head(queue).do = "result_update"
  BY DEF ResultUpdate, Turn
<1>2. /\ AskOk(Head(queue)) /\ w \in busy /\ ChainOk(Tail(queue))
      /\ AtLeast(Tail(queue), Rank(Head(queue).do) + 1)
  BY <1>1, AskTurn DEF ExactInv, Asks
<1>3. /\ Head(queue) \in Ops /\ rows \in [Ids -> Status] /\ given \in [Ids -> Nat]
  BY <1>1, HeadFacts
<1>4. PICK k \in Ids : k = Head(queue).id /\ rows[k] = "IN_PROGRESS"
  BY <1>1, <1>2 DEF AskOk, Claiming
<1>5. Tail(queue) = <<>> /\ UpToDate({})
  <2>1. Rank(Head(queue).do) = 5
    BY <1>1 DEF Rank
  <2>2. Tail(queue) = <<>>
    BY <1>2, <2>1, Ranks DEF AtLeast
  <2> QED
    BY <1>2, <2>2, Heads DEF ChainOk
<1>6. PICK y : y = [Head(queue) EXCEPT !.do = "find_again", !.by = Nobody]
  OBVIOUS
<1>7. y.do = "find_again" /\ y.id = k
  BY <1>3, <1>4, <1>6 DEF Ops
<1>8. /\ rows' = [rows EXCEPT ![k] = "COMPLETED"] /\ queue' = <<y>>
      /\ given' = given /\ holds' = holds /\ ids' = ids /\ exec' = exec /\ handed' = handed
  BY <1>4, <1>5, <1>6, Heads DEF ResultUpdate, Then
<1>9. AnswerOk(y)'
  BY <1>3, <1>5, <1>7, <1>8 DEF AnswerOk, Reports, UpToDate, Agrees, Shows
<1>10. holds[w] = 0
  BY <1>2 DEF ExactInv, RowsOk
<1>11. RowsOk(w)'
  BY <1>3, <1>4, <1>8, <1>10, TaskStoreAssumption DEF ExactInv, RowsOk, Ids, Successor
<1>12. w \notin busy'
  BY <1>2 DEF AskOk, ResultUpdate, Reply
<1> QED
  BY <1>8, <1>9, <1>10, <1>11, <1>12 DEF Line, ChainOk

-----------------------------------------------------------------------------
(* The turns of a chain.                                                   *)

(* A chain that goes on, or is over, while nothing is written.             *)
LEMMA ChainNext ==
    ASSUME NEW w, NEW a, NEW n \in 1..5, NEW e, ExactInv(w), AskingOk(w, a, n),
           ChainOk(e), AtLeast(e, n + 1), queue' = a \o e,
           UNCHANGED <<rows, ids, exec, given, holds, busy>>, handed' \subseteq {"COMPLETED"}
    PROVE  RowsOk(w)' /\ Line(w)'
<1>1. AskingOk(w, a, n)' /\ ChainOk(e)'
  BY PartsStay, AskingStays
<1> QED
  BY <1>1, ChainGoesOn DEF ExactInv, RowsOk

LEMMA ReportSteps ==
    ASSUME NEW w, Workers = {w}, ExactInv(w), FindAgain \/ FindExec
    PROVE  RowsOk(w)' /\ Line(w)'
<1> USE DEF storeVars, clientVars, ghostVars
<1>1. queue # <<>> /\ Head(queue).do \in {"find_again", "find_exec"}
  BY DEF FindAgain, FindExec, Turn
<1>2. PICK a : /\ AskingOk(w, a, Rank(Head(queue).do))
               /\ \/ AnswerOk(Head(queue)) /\ Tail(queue) = a
                  \/ \E z : Spawned(Head(queue), z) /\ Tail(queue) = <<z>> \o a
  BY <1>1, ChainTurn DEF ExactInv, Asks
<1>3. AnswerOk(Head(queue)) /\ Tail(queue) = a
  BY <1>1, <1>2 DEF Spawned
<1>4. PICK k \in Ids : /\ k = Head(queue).id /\ rows[k] = "COMPLETED" /\ UpToDate({k})
                       /\ Head(queue).do # "find_again" => Head(queue).st = "COMPLETED"
  BY <1>1, <1>3 DEF AnswerOk
<1>5. Head(queue) \in Ops
  BY <1>1, HeadFacts
<1>6. CASE FindAgain
  <2>1. PICK y : y = [Head(queue) EXCEPT !.do = "find_exec", !.st = rows[Head(queue).id]]
    OBVIOUS
  <2>2. y.do = "find_exec" /\ y.id = k /\ y.st = "COMPLETED"
    BY <1>4, <1>5, <2>1 DEF Ops
  <2>3. AnswerOk(y)
    BY <1>4, <2>2 DEF AnswerOk, Reports
  <2>4. Rank(Head(queue).do) = 1 /\ Rank(y.do) = 2
    BY <1>6, <2>2 DEF FindAgain, Turn, Rank
  <2>5. ChainOk(<<y>>) /\ AtLeast(<<y>>, Rank(Head(queue).do) + 1)
    BY <2>3, <2>4, Heads DEF ChainOk, AtLeast
  <2>6. queue' = a \o <<y>>
    BY <1>2, <1>3, <1>6, <2>1, AskingShape DEF FindAgain, Then
  <2>7. handed' \subseteq {"COMPLETED"} /\ UNCHANGED <<rows, ids, exec, given, holds, busy>>
    BY <1>4, <1>6 DEF FindAgain, ExactInv, RowsOk
  <2> QED
    BY <1>2, <2>5, <2>6, <2>7, Ranks, ChainNext
<1>7. ASSUME FindExec, exec.status # "RUNNING" PROVE RowsOk(w)' /\ Line(w)'
  <2>1. ChainOk(<<>>) /\ AtLeast(<<>>, Rank(Head(queue).do) + 1)
    BY <1>7 DEF ChainOk, UpToDate, AtLeast
  <2>2. queue' = a \o <<>>
    BY <1>2, <1>3, <1>7, AskingShape DEF FindExec, ThenNothing
  <2>4. handed' \subseteq {"COMPLETED"} /\ UNCHANGED <<rows, ids, exec, given, holds, busy>>
    BY <1>7 DEF FindExec, ExactInv, RowsOk
  <2> QED
    BY <1>2, <2>1, <2>2, <2>4, Ranks, ChainNext
<1>8. ASSUME FindExec, exec.status = "RUNNING" PROVE RowsOk(w)' /\ Line(w)'
  <2>1. PICK y : y = [Head(queue) EXCEPT !.do = "find_def", !.ex = exec]
    OBVIOUS
  <2>2. y.do = "find_def" /\ y.id = k /\ y.st = "COMPLETED" /\ y.ex = exec
    BY <1>4, <1>5, <1>8, <2>1 DEF Ops, FindExec, Turn
  <2>3. AnswerOk(y)
    BY <1>4, <1>8, <2>2 DEF AnswerOk, Reports
  <2>4. Rank(Head(queue).do) = 2 /\ Rank(y.do) = 3
    BY <1>8, <2>2 DEF FindExec, Turn, Rank
  <2>5. ChainOk(<<y>>) /\ AtLeast(<<y>>, Rank(Head(queue).do) + 1)
    BY <2>3, <2>4, Heads DEF ChainOk, AtLeast
  <2>6. queue' = a \o <<y>>
    BY <1>2, <1>3, <1>8, <2>1, AskingShape DEF FindExec, Then
  <2>7. handed' \subseteq {"COMPLETED"} /\ UNCHANGED <<rows, ids, exec, given, holds, busy>>
    BY <1>8 DEF FindExec, ExactInv, RowsOk
  <2> QED
    BY <1>2, <2>5, <2>6, <2>7, Ranks, ChainNext
<1> QED
  BY <1>6, <1>7, <1>8

(* process_terminal() on the captured copy, which is still the stored one. *)
LEMMA FindDefStep ==
    ASSUME NEW w, Workers = {w}, ExactInv(w), FindDef
    PROVE  RowsOk(w)' /\ Line(w)'
<1> USE DEF storeVars, clientVars, ghostVars
<1>1. queue # <<>> /\ Head(queue).do = "find_def"
  BY DEF FindDef, Turn
<1>2. PICK a : /\ AskingOk(w, a, Rank(Head(queue).do))
               /\ \/ AnswerOk(Head(queue)) /\ Tail(queue) = a
                  \/ \E z : Spawned(Head(queue), z) /\ Tail(queue) = <<z>> \o a
  BY <1>1, ChainTurn DEF ExactInv, Asks
<1>3. AnswerOk(Head(queue)) /\ Tail(queue) = a
  BY <1>1, <1>2 DEF Spawned
<1>4. PICK k \in Ids : /\ k = Head(queue).id /\ Head(queue).st = "COMPLETED"
                       /\ Agrees(exec, {k}) /\ Shows(exec) /\ Head(queue).ex = exec
  BY <1>1, <1>3 DEF AnswerOk, UpToDate
<1>5. exec \in Copies
  BY <1>1, HeadFacts
<1>6. PICK ex \in Copies : ex = [exec EXCEPT !.inst[k] = "COMPLETED"]
  BY <1>5 DEF Copies, Status
<1>7. Agrees(ex, {}) /\ Shows(ex)
  <2>1. \A i \in Ids : ex.inst[i] = IF i = k THEN "COMPLETED" ELSE exec.inst[i]
    BY <1>5, <1>6 DEF Copies
  <2>2. Successor \in Ids
    BY TaskStoreAssumption DEF Successor, Ids
  <2> QED
    BY <1>4, <2>1, <2>2 DEF Agrees, Shows
<1>8. PICK y : y = AdvanceOp(ex)
  OBVIOUS
<1>9. AnswerOk(y) /\ Rank(y.do) >= 4
  <2>1. CASE ex.status = "RUNNING" /\ Ready(ex)
    <3>1. y.do = "spawn_def" /\ y.ex = ex
      BY <1>8, <2>1 DEF AdvanceOp, Op
    <3>2. Successor \in Ids \ Starts
      BY TaskStoreAssumption DEF Successor, Ids, Starts
    <3>3. ex.inst[Successor] = "none"
      BY <2>1, <3>2 DEF Ready
    <3>4. ids = NumStarts
      BY <1>7, <3>3 DEF Shows, ExactInv, RowsOk
    <3> QED
      BY <1>7, <3>1, <3>4 DEF AnswerOk, Rank
  <2>2. CASE ~(ex.status = "RUNNING" /\ Ready(ex))
    <3>1. y.do = "update_exec" /\ y.ex = Finished(ex)
      BY <1>8, <2>2 DEF AdvanceOp, Op
    <3>2. Finished(ex).inst = ex.inst
      BY FinishedKeeps
    <3>3. Agrees(Finished(ex), {}) /\ Shows(Finished(ex))
      BY <1>7, <3>2 DEF Agrees, Shows
    <3> QED
      BY <3>1, <3>3 DEF AnswerOk, Rank
  <2> QED
    BY <2>1, <2>2
<1>10. Rank(Head(queue).do) = 3
  BY <1>1 DEF Rank
<1>11. ChainOk(<<y>>) /\ AtLeast(<<y>>, Rank(Head(queue).do) + 1)
  BY <1>9, <1>10, Heads DEF ChainOk, AtLeast
<1>12. queue' = a \o <<y>>
  <2>1. queue' = Append(Tail(queue), y)
    BY <1>4, <1>6, <1>8 DEF FindDef, Then
  <2> QED
    BY <1>2, <1>3, <2>1, AskingShape
<1>13. handed' \subseteq {"COMPLETED"} /\ UNCHANGED <<rows, ids, exec, given, holds, busy>>
  BY DEF FindDef, ExactInv, RowsOk
<1> QED
  BY <1>2, <1>11, <1>12, <1>13, Ranks, ChainNext

(* The successor is spawned once. *)
LEMMA SpawnDefStep ==
    ASSUME NEW w, Workers = {w}, ExactInv(w), SpawnDef
    PROVE  RowsOk(w)' /\ Line(w)'
<1> USE DEF storeVars, clientVars, ghostVars
<1>1. queue # <<>> /\ Head(queue).do = "spawn_def"
  BY DEF SpawnDef, Turn
<1>2. PICK a : /\ AskingOk(w, a, Rank(Head(queue).do))
               /\ \/ AnswerOk(Head(queue)) /\ Tail(queue) = a
                  \/ \E z : Spawned(Head(queue), z) /\ Tail(queue) = <<z>> \o a
  BY <1>1, ChainTurn DEF ExactInv, Asks
<1>3. AnswerOk(Head(queue)) /\ Tail(queue) = a
  BY <1>1, <1>2 DEF Spawned
<1>4. Agrees(Head(queue).ex, {}) /\ ids = NumStarts /\ ids' = Successor
  BY <1>1, <1>3 DEF AnswerOk, Reports, SpawnDef, Successor
<1>5. Head(queue).ex \in Copies /\ Successor \in Ids \ Starts /\ rows \in [Ids -> Status]
  BY <1>1, HeadFacts, TaskStoreAssumption DEF Ops, Successor, Ids, Starts
<1>6. PICK ex \in Copies : ex = [Head(queue).ex EXCEPT !.inst[Successor] = "SCHEDULED"]
  BY <1>5 DEF Copies, Status
<1>7. rows[Successor] = "none" /\ UNCHANGED <<rows, exec, given, holds, busy, handed>>
  BY <1>4, <1>5, TaskStoreAssumption DEF ExactInv, RowsOk, SpawnDef, Ids, Successor
<1>8. Agrees(ex, {}) /\ ex.inst[Successor] # "none"
  <2>1. \A i \in Ids : ex.inst[i] = IF i = Successor THEN "SCHEDULED" ELSE Head(queue).ex.inst[i]
    BY <1>5, <1>6 DEF Copies
  <2> QED
    BY <1>4, <1>5, <1>7, <2>1 DEF Agrees
<1>9. PICK y, z : /\ y = Op("insert_row", Nobody, Successor, "SCHEDULED", ex)
                  /\ z = Op("update_exec", Nobody, 0, "none", Finished(ex))
  OBVIOUS
<1>10. y.do = "insert_row" /\ y.id = Successor /\ z.do = "update_exec" /\ z.ex = Finished(ex)
  BY <1>9 DEF Op
<1>11. AnswerOk(z)'
  <2>1. Finished(ex).inst = ex.inst
    BY FinishedKeeps
  <2> QED
    BY <1>7, <1>8, <1>10, <2>1 DEF AnswerOk, Agrees, Shows
<1>12. Spawned(y, z)'
  BY <1>4, <1>7, <1>10, <1>11 DEF Spawned
<1>13. ChainOk(<<y, z>>)' /\ AtLeast(<<y, z>>, 4 + 1)
  BY <1>10, <1>12, Heads DEF ChainOk, AtLeast, Rank
<1>14. queue' = a \o <<y, z>>
  <2>1. ids + 1 = Successor
    BY <1>4 DEF Successor
  <2> QED
    BY <1>3, <1>6, <1>9, <2>1 DEF SpawnDef, ThenBoth
<1>15. Rank(Head(queue).do) = 4
  BY <1>1 DEF Rank
<1>16. AskingOk(w, a, 4)'
  <2>1. \A x : AskOk(x) => AskOk(x)'
    BY <1>7 DEF AskOk
  <2> QED
    BY <1>2, <1>7, <1>15, <2>1, AskingStays
<1>17. Line(w)'
  <2>1. PICK n \in 1..5 : n = 4
    OBVIOUS
  <2>2. AskingOk(w, a, n)' /\ AtLeast(<<y, z>>, n + 1)
    BY <1>13, <1>16, <2>1
  <2> QED
    BY <1>13, <1>14, <2>2, ChainGoesOn
<1>18. RowsOk(w)'
  BY <1>4, <1>7, TaskStoreAssumption DEF ExactInv, RowsOk, Ids, Successor
<1> QED
  BY <1>17, <1>18

(* Its row appears after the worker's claim looked, or before it looks.    *)
LEMMA InsertRowStep ==
    ASSUME NEW w, Workers = {w}, ExactInv(w), InsertRow
    PROVE  RowsOk(w)' /\ Line(w)'
<1> USE DEF storeVars, clientVars, ghostVars
<1>1. queue # <<>> /\ Head(queue).do = "insert_row"
  BY DEF InsertRow, Turn
<1>2. PICK a : /\ AskingOk(w, a, Rank(Head(queue).do))
               /\ \/ AnswerOk(Head(queue)) /\ Tail(queue) = a
                  \/ \E z : Spawned(Head(queue), z) /\ Tail(queue) = <<z>> \o a
  BY <1>1, ChainTurn DEF ExactInv, Asks
<1>3. PICK z : Spawned(Head(queue), z) /\ Tail(queue) = <<z>> \o a
  BY <1>1, <1>2 DEF AnswerOk, Reports
<1>4. /\ Head(queue).id = Successor /\ ids = Successor /\ rows[Successor] = "none"
      /\ z.do = "update_exec" /\ AnswerOk(z)
  BY <1>3 DEF Spawned
<1>5. Successor \in Ids /\ rows \in [Ids -> Status] /\ given \in [Ids -> Nat]
  BY <1>1, HeadFacts, TaskStoreAssumption DEF Successor, Ids
<1>6. /\ rows' = [rows EXCEPT ![Successor] = "SCHEDULED"] /\ queue' = <<z>> \o a
      /\ UNCHANGED <<ids, exec, given, holds, busy, handed>>
  BY <1>3, <1>4 DEF InsertRow, ThenNothing
<1>7. AnswerOk(z)'
  BY <1>4, <1>5, <1>6 DEF AnswerOk, Reports, Agrees, Shows
<1>8. \A x : AskOk(x) => AskOk(x)'
  BY <1>4, <1>5, <1>6 DEF AskOk
<1>9. Rank(Head(queue).do) = 5
  BY <1>1 DEF Rank
<1>10. AskingOk(w, a, 5)'
  BY <1>2, <1>6, <1>8, <1>9, AskingStays
<1>11. Line(w)'
  BY <1>4, <1>6, <1>7, <1>10, PairGoesOn
<1>12. given[Successor] = 0
  BY <1>4, <1>5 DEF ExactInv, RowsOk
<1>13. RowsOk(w)'
  BY <1>4, <1>5, <1>6, <1>12, TaskStoreAssumption DEF ExactInv, RowsOk, Ids, Successor
<1> QED
  BY <1>11, <1>13

(* The captured copy is stored with every result there is.                 *)
LEMMA UpdateExecStep ==
    ASSUME NEW w, Workers = {w}, ExactInv(w), UpdateExec
    PROVE  RowsOk(w)' /\ Line(w)'
<1> USE DEF storeVars, clientVars, ghostVars
<1>1. queue # <<>> /\ Head(queue).do = "update_exec"
  BY DEF UpdateExec, Turn
<1>2. PICK a : /\ AskingOk(w, a, Rank(Head(queue).do))
               /\ \/ AnswerOk(Head(queue)) /\ Tail(queue) = a
                  \/ \E z : Spawned(Head(queue), z) /\ Tail(queue) = <<z>> \o a
  BY <1>1, ChainTurn DEF ExactInv, Asks
<1>3. AnswerOk(Head(queue)) /\ Tail(queue) = a
  BY <1>1, <1>2 DEF Spawned
<1>4. Agrees(Head(queue).ex, {}) /\ Shows(Head(queue).ex)
  BY <1>1, <1>3 DEF AnswerOk, Reports
<1>5. exec' = Head(queue).ex /\ UNCHANGED <<rows, ids, given, holds, busy, handed>> /\ queue' = a
  BY <1>3 DEF UpdateExec, ThenNothing
<1>6. ChainOk(<<>>)' /\ AtLeast(<<>>, 5 + 1)
  BY <1>4, <1>5 DEF ChainOk, UpToDate, Agrees, Shows, AtLeast
<1>7. \A x : AskOk(x) => AskOk(x)'
  BY <1>5 DEF AskOk
<1>8. Rank(Head(queue).do) = 5
  BY <1>1 DEF Rank
<1>9. AskingOk(w, a, 5)'
  BY <1>2, <1>5, <1>7, <1>8, AskingStays
<1>10. queue' = a \o <<>>
  BY <1>2, <1>5, AskingShape
<1>11. Line(w)'
  <2>1. PICK n \in 1..5 : n = 5
    OBVIOUS
  <2>2. AskingOk(w, a, n)' /\ AtLeast(<<>>, n + 1)
    BY <1>6, <1>9, <2>1
  <2> QED
    BY <1>6, <1>10, <2>2, ChainGoesOn
<1> QED
  BY <1>5, <1>11 DEF ExactInv, RowsOk

(* With one worker, whose heartbeats are never due, and no sweep, for any  *)
(* number of start nodes and rows: a task is given out once, the successor *)
(* is spawned once, only ended tasks are handed to the orchestrator, and   *)
(* no result is missing from the execution once the handlers have run out. *)
THEOREM OneWorkerExact ==
    ASSUME NEW w, Workers = {w}, MaxBeats = 0, MaxSweeps = 0
    PROVE  Spec => []OneWorkerIsExact
<1>1. Init => ExactInv(w)
  <2> SUFFICES ASSUME Init PROVE ExactInv(w)
    OBVIOUS
  <2>1. RealInv
    BY RealInit
  <2>2. RowsOk(w)
    BY TaskStoreAssumption DEF Init, RowsOk, Fresh, Ids, Starts, Successor
  <2>3. ChainOk(<<>>)
    BY TaskStoreAssumption DEF Init, ChainOk, UpToDate, Agrees, Shows, Fresh, Successor, Ids
  <2>4. Line(w)
    BY <2>3 DEF Init, Line
  <2> QED
    BY <2>1, <2>2, <2>4 DEF ExactInv
<1>2. ExactInv(w) /\ [Next]_vars => ExactInv(w)'
  <2> SUFFICES ASSUME ExactInv(w), [Next]_vars PROVE ExactInv(w)'
    OBVIOUS
  <2>1. RealInv'
    BY RealStep DEF ExactInv
  <2>2. ASSUME Poll(w) \/ Submit(w) PROVE RowsOk(w)' /\ Line(w)'
    BY <2>2, RequestStep
  <2>3. CASE FindFirst \/ ClaimDef \/ FindRow
    BY <2>1, <2>3, ClaimSteps DEF ExactInv
  <2>4. CASE ClaimUpdate
    BY <2>1, <2>4, ClaimUpdateStep DEF ExactInv
  <2>5. CASE ResultUpdate
    BY <2>1, <2>5, ResultUpdateStep DEF ExactInv
  <2>6. CASE FindAgain \/ FindExec
    BY <2>1, <2>6, ReportSteps DEF ExactInv
  <2>7. CASE FindDef
    BY <2>1, <2>7, FindDefStep DEF ExactInv
  <2>8. CASE SpawnDef
    BY <2>1, <2>8, SpawnDefStep DEF ExactInv
  <2>9. CASE InsertRow
    BY <2>1, <2>9, InsertRowStep DEF ExactInv
  <2>10. CASE UpdateExec
    BY <2>1, <2>10, UpdateExecStep DEF ExactInv
  <2>11. CASE BeatFind \/ BeatDef \/ BeatUpdate \/ SweepFind \/ SweepDef
    <3>1. queue # <<>> /\ Head(queue).do \in {"beat_find", "beat_def", "beat_update",
                                              "sweep_find", "sweep_def"}
      BY <2>11 DEF BeatFind, BeatDef, BeatUpdate, SweepFind, SweepDef, Turn
    <3>2. PICK a : \/ AnswerOk(Head(queue)) /\ Tail(queue) = a
                   \/ \E z : Spawned(Head(queue), z) /\ Tail(queue) = <<z>> \o a
      BY <3>1, ChainTurn DEF ExactInv, Asks
    <3> QED
      BY <3>1, <3>2 DEF AnswerOk, Spawned, Reports
  <2>12. CASE Sweep \/ Heartbeat(w)
    BY <2>12 DEF Sweep, Heartbeat, ExactInv, RealInv, TypeOK
  <2>13. CASE UNCHANGED vars
    <3>1. /\ \A x : AskOk(x)' <=> AskOk(x)
          /\ \A e : ChainOk(e)' <=> ChainOk(e)
      BY <2>13, PartsStay DEF vars
    <3>2. Line(w)'
      BY <2>13, <3>1 DEF ExactInv, Line, vars
    <3> QED
      BY <2>1, <2>13, <3>2 DEF ExactInv, RowsOk, vars
  <2> QED
    BY <2>1, <2>2, <2>3, <2>4, <2>5, <2>6, <2>7, <2>8, <2>9, <2>10, <2>11, <2>12, <2>13
       DEF Next, RunOp, ExactInv
<1>3. ExactInv(w) => OneWorkerIsExact
  <2> SUFFICES ASSUME ExactInv(w) PROVE OneWorkerIsExact
    OBVIOUS
  <2>1. ClaimedOnce /\ SpawnedOnce /\ HandsTerminal
    BY TaskStoreAssumption DEF ExactInv, RowsOk, ClaimedOnce, SpawnedOnce, HandsTerminal, Successor
  <2>2. ASSUME queue = <<>> PROVE UpToDate({})
    <3>1. PICK e : /\ ChainOk(e)
                   /\ \/ queue = e
                      \/ \E x : queue = e \o <<x>> \/ queue = <<x>> \o e
      BY DEF ExactInv, Line
    <3>2. \A x : e \o <<x>> # <<>> /\ <<x>> \o e # <<>>
      BY <3>1, Heads, Pair, Triple DEF ChainOk
    <3>3. ChainOk(<<>>)
      BY <2>2, <3>1, <3>2
    <3> QED
      BY <3>3, Heads DEF ChainOk
  <2>3. NoResultLost
    BY <2>2 DEF NoResultLost, UpToDate, Agrees
  <2> QED
    BY <2>1, <2>3 DEF OneWorkerIsExact
<1> QED
  BY <1>1, <1>2, <1>3, PTL DEF Spec
=============================================================================
