--------------------------- MODULE WorkflowProofs ---------------------------
(***************************************************************************)
(* Workflow for any definitions, values, operator calls and bounds.        *)
(*                                                                         *)
(* advance() is a machine of many steps inside one action.  What one step  *)
(* of it does is said once (Moves); AdvanceIn lifts what every step keeps  *)
(* to the whole call, and each theorem below picks the set of machines     *)
(* that its argument needs.                                                *)
(***************************************************************************)
EXTENDS Workflow, WellFoundedInduction, FiniteSetTheorems, TLAPS

-----------------------------------------------------------------------------
(* Induction, with a set in the place of a predicate. *)

(* A set of naturals that is not empty has a least element. *)
LEMMA Least ==
  ASSUME NEW T, T \subseteq Nat, T # {}
  PROVE  \E x \in T : \A y \in T : x <= y
  <1> DEFINE R == OpToRel(<, Nat)
  <1>1. IsWellFoundedOn(R, Nat)
    BY NatLessThanWellFounded
  <1>2. PICK x \in T : \A y \in T : ~(<<y, x>> \in R)
    <2> HIDE DEF R
    <2> QED
      BY <1>1, WFMin
  <1>3. \A y \in Nat, z \in Nat : y < z => <<y, z>> \in R
    BY DEF OpToRel
  <1>4. \A y \in T : ~(y < x)
    BY <1>2, <1>3
  <1> HIDE DEF R
  <1> QED
    BY <1>4

LEMMA MinIn ==
  ASSUME NEW T, T \subseteq Nat, T # {}
  PROVE  Min(T) \in T /\ \A y \in T : Min(T) <= y
  BY Least DEF Min

(* A set with 0 and the successor of each of its naturals has them all. *)
LEMMA SetInduction ==
  ASSUME NEW S, 0 \in S, \A n \in Nat : n \in S => n + 1 \in S
  PROVE  Nat \subseteq S
  <1> SUFFICES ASSUME Nat \ S # {} PROVE FALSE
    OBVIOUS
  <1>1. PICK x \in Nat \ S : \A y \in Nat \ S : x <= y
    BY Least
  <1>2. x # 0 /\ x - 1 \in Nat /\ ~(x <= x - 1) /\ x - 1 + 1 = x
    BY <1>1
  <1>3. x - 1 \in S
    BY <1>1, <1>2
  <1> QED
    BY <1>1, <1>2, <1>3

(* f starts with b and makes each value from the one before it by g. *)
Runs(X, b, m, g, f) == f \in [0..m -> X] /\ f[0] = b /\ \A k \in 1..m : f[k] = g[f[k - 1]]

LEMMA Recursion ==
  ASSUME NEW X, NEW b \in X, NEW m \in Nat, NEW g \in [X -> X]
  PROVE  \E f : Runs(X, b, m, g, f)
  <1> USE DEF Runs
  <1> DEFINE P(n, f) == f[0] = b /\ \A k \in 1..n : f[k] = g[f[k - 1]]
             S == {n \in Nat : n <= m => \E f \in [0..n -> X] : P(n, f)}
  <1>1. 0 \in S
    <2>1. [i \in 0..0 |-> b] \in [0..0 -> X] /\ P(0, [i \in 0..0 |-> b])
      OBVIOUS
    <2> QED
      BY <2>1
  <1>2. ASSUME NEW n \in Nat, n \in S PROVE n + 1 \in S
    <2> SUFFICES ASSUME n + 1 <= m PROVE \E f \in [0..(n + 1) -> X] : P(n + 1, f)
      OBVIOUS
    <2>1. PICK f \in [0..n -> X] : P(n, f)
      BY <1>2
    <2> DEFINE h == [i \in 0..(n + 1) |-> IF i = n + 1 THEN g[f[n]] ELSE f[i]]
    <2>2. g[f[n]] \in X
      OBVIOUS
    <2>3. h \in [0..(n + 1) -> X]
      BY <2>2
    <2>4. h[0] = b
      BY <2>1
    <2>5. ASSUME NEW k \in 1..(n + 1) PROVE h[k] = g[h[k - 1]]
      <3>1. CASE k = n + 1
        <4>1. n + 1 \in 0..(n + 1) /\ n \in 0..(n + 1) /\ n # n + 1 /\ k - 1 = n
          BY <3>1
        <4>2. h[n + 1] = g[f[n]] /\ h[n] = f[n]
          BY <4>1
        <4> HIDE DEF h
        <4> QED
          BY <3>1, <4>1, <4>2
      <3>2. CASE k # n + 1
        <4>1. k \in 1..n /\ k \in 0..(n + 1) /\ k - 1 \in 0..(n + 1) /\ k - 1 # n + 1
          BY <3>2
        <4>2. h[k] = f[k] /\ h[k - 1] = f[k - 1]
          BY <4>1, <3>2
        <4> HIDE DEF h
        <4> QED
          BY <2>1, <4>1, <4>2
      <3> QED
        BY <3>1, <3>2
    <2> QED
      BY <2>3, <2>4, <2>5
  <1> HIDE DEF S
  <1>3. m \in S
    BY <1>1, <1>2, SetInduction
  <1> QED
    BY <1>3 DEF S

-----------------------------------------------------------------------------
(* The whole call stays in a set that each of its steps stays in. *)

LEMMA NodesFacts ==
  ASSUME def \in Defs
  PROVE  /\ def.nodes \in Seq(Nodes) /\ Len(def.nodes) \in Nat
         /\ \A p \in 1..Len(def.nodes) : def.nodes[p] \in Nodes
         /\ \A n \in Nodes : \E p \in 1..Len(def.nodes) : def.nodes[p] = n
         /\ DOMAIN def.nodes = 1..Len(def.nodes)
  <1>1. def.nodes \in Seq(Nodes)
    BY WorkflowAssumption DEF WellFormed, Nodes
  <1>2. Len(def.nodes) \in Nat /\ DOMAIN def.nodes = 1..Len(def.nodes)
    BY <1>1
  <1>3. \A p \in 1..Len(def.nodes) : def.nodes[p] \in Nodes
    BY <1>1
  <1>4. \A n \in Nodes : \E p \in 1..Len(def.nodes) : def.nodes[p] = n
    BY <1>2 DEF Nodes, ToSet
  <1> QED
    BY <1>1, <1>2, <1>3, <1>4

LEMMA AdvanceIn ==
  ASSUME def \in Defs, NEW X, NEW m \in X, \A k \in X : AdvanceStep(k) \in X
  PROVE  Advance(m) \in X
  <1> DEFINE n == (Len(def.nodes) + 3) * (Len(def.nodes) + 2)
             Body(f) == [k \in 0..n |-> IF k = 0 THEN m
                             ELSE CHOOSE r \in {AdvanceStep(p) : p \in {f[k - 1]}} : TRUE]
             after == CHOOSE f : f = Body(f)
  <1>0. Advance(m) = after[n]
    BY DEF Advance
  <1>1. n \in Nat
    <2>1. PICK l \in Nat : l = Len(def.nodes)
      BY NodesFacts
    <2>2. (l + 3) * (l + 2) \in Nat
      OBVIOUS
    <2> QED
      BY <2>1, <2>2
  <1> HIDE DEF n
  <1>2. \A x : (CHOOSE r \in {AdvanceStep(p) : p \in {x}} : TRUE) = AdvanceStep(x)
    OBVIOUS
  <1>3. PICK g \in [X -> X] : \A k \in X : g[k] = AdvanceStep(k)
    <2>1. [k \in X |-> AdvanceStep(k)] \in [X -> X]
      OBVIOUS
    <2> QED
      BY <2>1
  <1>4. PICK f : Runs(X, m, n, g, f)
    <2>1. PICK b \in Nat : b = n
      BY <1>1
    <2>2. \E f : Runs(X, m, b, g, f)
      BY Recursion
    <2> QED
      BY <2>1, <2>2
  <1>5. f \in [0..n -> X] /\ f[0] = m /\ \A k \in 1..n : f[k] = AdvanceStep(f[k - 1])
    <2>1. \A k \in 1..n : k - 1 \in 0..n
      BY <1>1
    <2> QED
      BY <1>3, <1>4, <2>1 DEF Runs
  <1>6. f = Body(f)
    <2>1. ASSUME NEW k \in 0..n PROVE f[k] = Body(f)[k]
      <3>1. CASE k = 0
        BY <3>1, <1>5
      <3>2. CASE k # 0
        <4>1. k \in 1..n
          BY <3>2, <1>1
        <4> QED
          BY <4>1, <3>2, <1>5, <1>2
      <3> QED
        BY <3>1, <3>2
    <2> HIDE DEF Body
    <2>2. f = [k \in 0..n |-> f[k]]
      BY <1>5
    <2>3. Body(f) = [k \in 0..n |-> Body(f)[k]]
      BY DEF Body
    <2> QED
      BY <2>1, <2>2, <2>3
  <1>7. after = Body(after)
    BY <1>6
  <1> HIDE DEF after
  <1>8. after[0] = m
    BY <1>7, <1>1
  <1>9. ASSUME NEW k \in 1..n PROVE after[k] = AdvanceStep(after[k - 1])
    <2>1. k \in 0..n /\ k # 0
      BY <1>1
    <2>2. Body(after)[k] = AdvanceStep(after[k - 1])
      BY <2>1, <1>2
    <2> HIDE DEF Body
    <2> QED
      BY <1>7, <2>2
  <1> HIDE DEF Body
  <1> DEFINE S == {k \in Nat : k <= n => after[k] \in X}
  <1>10. 0 \in S
    BY <1>8
  <1>11. ASSUME NEW k \in Nat, k \in S PROVE k + 1 \in S
    <2> SUFFICES ASSUME k + 1 <= n PROVE after[k + 1] \in X
      OBVIOUS
    <2>1. k + 1 \in 1..n /\ k + 1 - 1 = k /\ k <= n
      BY <1>1
    <2>2. after[k] \in X
      BY <1>11, <2>1
    <2> QED
      BY <1>9, <2>1, <2>2
  <1> HIDE DEF S
  <1>12. n \in S
    BY <1>10, <1>11, <1>1, SetInduction
  <1> QED
    BY <1>0, <1>1, <1>12 DEF S

-----------------------------------------------------------------------------
(* What the state and the machine look like. *)

Kind(n) == def.task[n].kind
Statuses == {"none", "RUNNING", "PAUSED", "COMPLETED", "FAILED", "TIMED_OUT", "TERMINATED"}

(* A TaskInstance: within its retry budget, and only a SUB_WORKFLOW has a    *)
(* child; one that waits for a child that has ended was created that way.    *)
Record == [id : Nat, node : Nodes, st : TaskStatus, tries : Nat, armed : BOOLEAN, due : BOOLEAN,
           out : Outs, child : {"none", "runs", "ended"}]
InBudget(i) ==
    /\ i.tries < def.task[i.node].attempts
    /\ i.child # "none" => Kind(i.node) = "SUB_WORKFLOW"
    /\ i.child = "ended" /\ i.st = "IN_PROGRESS" => def.task[i.node].child = "ended"
Sound == {i \in Record : InBudget(i)}

(* Rows are numbered by task_id, and every nested copy has a row of its own, *)
(* for the same node.                                                        *)
Numbered(inst, rs) ==
    /\ \A i \in DOMAIN rs : rs[i].id = i
    /\ \A k \in DOMAIN inst : inst[k].id \in DOMAIN rs /\ rs[inst[k].id].node = inst[k].node
    /\ \A j, k \in DOMAIN inst : inst[j].id = inst[k].id => j = k

Places == 1..Len(def.nodes)
Execs == [status : Statuses, inst : Seq(Sound), var : Outs]
Records == [ex : Execs, rows : Seq(Sound), skips : SUBSET Places, todo : SUBSET Places,
            ended : Nat, pc : {"advance", "skip", "spawn", "done", "silent", "lost"}]
Machines == {m \in Records : Numbered(m.ex.inst, m.rows)}

(* The same instance is added to the execution and to the rows. *)
Grows(m, k, x) ==
    /\ x \in Sound /\ x.id = Len(m.rows) + 1
    /\ k.ex.inst = Append(m.ex.inst, x) /\ k.rows = Append(m.rows, x)

Same(m, k) == k.ex = m.ex /\ k.rows = m.rows /\ k.ended = m.ended
Live(m) == ~IsTerminal(m.ex.status) /\ m.ex.status # "PAUSED"
Turn(m) == def.nodes[Min(m.todo)]

(* One step of advance(): it stops, ends the execution, plans a pass, ends   *)
(* the skips, skips, passes over a node, loses the execution or spawns.      *)
Stops(m, k) == m.pc = "advance" /\ ~Live(m) /\ k.pc = "done" /\ Same(m, k)

Ends(m, k) ==
    /\ m.pc \in {"advance", "spawn"} /\ (m.pc = "advance" => Live(m))
    /\ k.pc = "done" /\ k.rows = m.rows /\ k.ex.inst = m.ex.inst
    /\ \/ Same(m, k)
       \/ /\ ~IsTerminal(m.ex.status) /\ k.ex.status = "COMPLETED" /\ k.ended = m.ended + 1
          /\ Len(m.ex.inst) >= Len(def.nodes)
          /\ \A q \in DOMAIN m.ex.inst : Done(m.ex.inst[q].st)
          /\ k.ex.var = m.ex.var \/ def.mapsOutput

Plans(m, k) ==
    /\ m.pc = "advance" /\ Live(m) /\ k.pc = "skip" /\ Same(m, k)
    /\ k.skips = {p \in Places : Skippable(m.ex, def.nodes[p])}
    /\ k.todo = {p \in Places : Eligible(m.ex, def.nodes[p])}

SkipsEnd(m, k) ==
    /\ m.pc = "skip" /\ m.skips = {} /\ k.pc \in {"advance", "spawn"}
    /\ Same(m, k) /\ k.todo = m.todo /\ k.skips = m.skips

Skips(m, k, x) ==
    /\ m.pc = "skip" /\ m.skips # {} /\ k.pc = "skip"
    /\ k.skips = m.skips \ {Min(m.skips)} /\ k.todo = m.todo
    /\ x.node = def.nodes[Min(m.skips)] /\ x.st = "SKIPPED" /\ ~x.armed /\ x.child = "none"
    /\ Grows(m, k, x)
    /\ k.ex.status = m.ex.status /\ k.ex.var = m.ex.var /\ k.ended = m.ended

Passes(m, k) ==
    /\ m.pc = "spawn" /\ m.todo # {} /\ k.pc = "spawn" /\ Same(m, k)
    /\ k.todo = m.todo \ {Min(m.todo)} /\ k.skips = m.skips

Loses(m, k) ==
    /\ m.pc = "spawn" /\ m.todo # {} /\ k.pc = "lost" /\ Same(m, k)
    /\ def.task[Turn(m)].child = "silent"

(* A spawned instance waits, has completed at once, has failed with a retry  *)
(* armed or with the execution, or has failed to start a workflow.           *)
Waits(m, k, x) ==
    /\ k.pc = "spawn" /\ k.todo = m.todo \ {Min(m.todo)} /\ k.ex.var = m.ex.var
    /\ k.ex.status = m.ex.status /\ k.ended = m.ended /\ ~x.armed
    /\ \/ x.st = "SCHEDULED" /\ WithinLimit(m, def.task[x.node]) /\ x.child = "none"
       \/ x.st = "IN_PROGRESS" /\ Kind(x.node) \in {"HUMAN", "WAIT", "WAIT_SIGNAL", "SUB_WORKFLOW"}

Answers(m, k, x) ==
    /\ k.pc = "advance" /\ k.ex.status = m.ex.status /\ k.ended = m.ended /\ ~x.armed
    /\ x.child = "none" /\ k.todo = m.todo
    /\ x.st = "COMPLETED" \/ (x.st = "FAILED" /\ Kind(x.node) = "START_WORKFLOW")
    /\ k.ex.var = m.ex.var \/ Kind(x.node) = "SET_VARIABLE"

Fails(m, k, x) ==
    /\ k.pc = "silent" /\ x.st = "FAILED" /\ x.child = "none" /\ k.ex.var = m.ex.var
    /\ \/ /\ x.armed /\ 1 < def.task[x.node].attempts
          /\ k.ex.status = m.ex.status /\ k.ended = m.ended
       \/ ~x.armed /\ k.ex.status = "FAILED" /\ k.ended = m.ended + 1

Terminates(m, k, x) ==
    /\ k.pc = "done" /\ Kind(x.node) = "TERMINATE" /\ x.st = "COMPLETED" /\ ~x.armed
    /\ x.child = "none" /\ k.ex.var = m.ex.var
    /\ IsTerminal(k.ex.status) /\ k.ended = m.ended + 1

Spawns(m, k, x) ==
    /\ m.pc = "spawn" /\ m.todo # {} /\ x.node = Turn(m) /\ Grows(m, k, x) /\ k.skips = m.skips
    /\ Waits(m, k, x) \/ Answers(m, k, x) \/ Fails(m, k, x) \/ Terminates(m, k, x)

Moves(m, k) ==
    \/ k = m /\ m.pc \in {"done", "silent", "lost"}
    \/ Stops(m, k) \/ Ends(m, k) \/ Plans(m, k) \/ SkipsEnd(m, k) \/ Passes(m, k) \/ Loses(m, k)
    \/ \E x : Skips(m, k, x) \/ Spawns(m, k, x)

LEMMA TaskFacts ==
  ASSUME def \in Defs, NEW n \in Nodes
  PROVE  /\ def.task[n].attempts \in Nat /\ def.task[n].attempts >= 1 /\ def.task[n].limit \in Nat
         /\ def.task[n].child \in {"runs", "ended", "unknown", "silent"}
         /\ IsTerminal(def.task[n].ends)
  BY WorkflowAssumption DEF WellFormed, Nodes

LEMMA MachineFields ==
  ASSUME NEW m \in Machines
  PROVE  /\ m \in Records /\ m.ex \in Execs /\ m.rows \in Seq(Sound) /\ m.skips \subseteq Places
         /\ m.todo \subseteq Places /\ m.ended \in Nat
         /\ m.pc \in {"advance", "skip", "spawn", "done", "silent", "lost"}
         /\ m.ex.status \in Statuses /\ m.ex.inst \in Seq(Sound) /\ m.ex.var \in Outs
         /\ Numbered(m.ex.inst, m.rows)
  BY DEF Machines, Records, Execs

LEMMA TurnFacts ==
  ASSUME def \in Defs, NEW S \in SUBSET Places, S # {}
  PROVE  Min(S) \in S /\ Min(S) \in Places /\ def.nodes[Min(S)] \in Nodes
  <1>1. S \subseteq Nat
    BY NodesFacts DEF Places
  <1>2. Min(S) \in S
    BY <1>1, MinIn
  <1> QED
    BY <1>2, NodesFacts DEF Places

(* Appending one instance to both keeps the numbers. *)
LEMMA GrowsNumbered ==
  ASSUME NEW q \in Seq(Sound), NEW rs \in Seq(Sound), NEW x \in Sound, x.id = Len(rs) + 1, Numbered(q, rs)
  PROVE  /\ Append(q, x) \in Seq(Sound) /\ Append(rs, x) \in Seq(Sound)
         /\ Numbered(Append(q, x), Append(rs, x))
  <1> DEFINE Q == Append(q, x)
             R == Append(rs, x)
  <1>1. Q \in Seq(Sound) /\ R \in Seq(Sound)
    OBVIOUS
  <1>2. /\ DOMAIN rs = 1..Len(rs) /\ DOMAIN R = 1..(Len(rs) + 1) /\ Len(rs) \in Nat
        /\ DOMAIN q = 1..Len(q) /\ DOMAIN Q = 1..(Len(q) + 1) /\ Len(q) \in Nat
    OBVIOUS
  <1>3. /\ \A i \in 1..Len(rs) : R[i] = rs[i] /\ R[Len(rs) + 1] = x
        /\ \A i \in 1..Len(q) : Q[i] = q[i] /\ Q[Len(q) + 1] = x
    OBVIOUS
  <1> HIDE DEF Q, R
  <1>4. R[Len(rs) + 1] = x /\ Q[Len(q) + 1] = x
    <2>1. Append(rs, x)[Len(rs) + 1] = x /\ Append(q, x)[Len(q) + 1] = x
      OBVIOUS
    <2> QED
      BY <2>1 DEF Q, R
  <1>5. \A i \in DOMAIN R : R[i].id = i
    BY <1>2, <1>3, <1>4 DEF Numbered
  <1>6. \A k \in DOMAIN Q : Q[k].id \in DOMAIN R /\ R[Q[k].id].node = Q[k].node
    BY <1>2, <1>3, <1>4 DEF Numbered
  <1>7. ASSUME NEW j \in DOMAIN Q, NEW k \in DOMAIN Q, Q[j].id = Q[k].id PROVE j = k
    <2>1. \A i \in 1..Len(q) : Q[i].id \in 1..Len(rs)
      BY <1>2, <1>3 DEF Numbered
    <2> QED
      BY <1>2, <1>3, <1>4, <1>7, <2>1 DEF Numbered
  <1>8. Numbered(Q, R)
    BY <1>5, <1>6, <1>7 DEF Numbered
  <1> QED
    BY <1>1, <1>8 DEF Q, R

-----------------------------------------------------------------------------
(* The operations of the machine. *)

(* A new instance, with other fields for what is created waiting or answered. *)
LEMMA NewSound ==
  ASSUME def \in Defs, NEW m \in Machines, NEW n \in Nodes, NEW st \in TaskStatus, st # "IN_PROGRESS"
  PROVE  LET x == NewInstance(m, n, st)
         IN  /\ x \in Sound /\ x.id = Len(m.rows) + 1 /\ x.node = n /\ x.st = st /\ ~x.armed
             /\ x.tries = 0 /\ x.child = "none" /\ x.out = NoValue
  <1> DEFINE x == NewInstance(m, n, st)
  <1>1. /\ x.id = Len(m.rows) + 1 /\ x.node = n /\ x.st = st /\ x.armed = FALSE
        /\ x.tries = 0 /\ x.child = "none" /\ x.out = NoValue
    BY DEF NewInstance
  <1>2. Len(m.rows) + 1 \in Nat
    BY MachineFields
  <1>3. x \in Record
    BY <1>2 DEF NewInstance, Record, Outs
  <1>4. InBudget(x)
    <2> HIDE DEF x
    <2> QED
      BY <1>1, TaskFacts DEF InBudget
  <1> QED
    BY <1>1, <1>3, <1>4 DEF Sound

LEMMA NewWaiting ==
  ASSUME def \in Defs, NEW m \in Machines, NEW n \in Nodes, NEW b \in BOOLEAN
  PROVE  LET x == [NewInstance(m, n, "IN_PROGRESS") EXCEPT !.due = b]
         IN  /\ x \in Sound /\ x.id = Len(m.rows) + 1 /\ x.node = n /\ x.st = "IN_PROGRESS" /\ ~x.armed
             /\ x.tries = 0 /\ x.child = "none"
  <1> DEFINE x == [NewInstance(m, n, "IN_PROGRESS") EXCEPT !.due = b]
  <1>1. /\ x.id = Len(m.rows) + 1 /\ x.node = n /\ x.st = "IN_PROGRESS" /\ x.armed = FALSE
        /\ x.tries = 0 /\ x.child = "none"
    BY DEF NewInstance
  <1>2. Len(m.rows) + 1 \in Nat
    BY MachineFields
  <1>3. x \in Record
    BY <1>2 DEF NewInstance, Record, Outs, TaskStatus
  <1>4. InBudget(x)
    <2> HIDE DEF x
    <2> QED
      BY <1>1, TaskFacts DEF InBudget
  <1> QED
    BY <1>1, <1>3, <1>4 DEF Sound

Parent(m, n, c) == [NewInstance(m, n, "IN_PROGRESS") EXCEPT !.child = c]

LEMMA NewParent ==
  ASSUME def \in Defs, NEW m \in Machines, NEW n \in Nodes, NEW c \in {"runs", "ended"},
         c = def.task[n].child, Kind(n) = "SUB_WORKFLOW",
         NEW x, x = Parent(m, n, c)
  PROVE  /\ x \in Sound /\ x.id = Len(m.rows) + 1 /\ x.node = n /\ x.st = "IN_PROGRESS" /\ ~x.armed
         /\ x.tries = 0 /\ x.child = c
  <1> USE DEF Parent
  <1>1. /\ x.id = Len(m.rows) + 1 /\ x.node = n /\ x.st = "IN_PROGRESS" /\ x.armed = FALSE
        /\ x.tries = 0 /\ x.child = c
    BY DEF NewInstance
  <1>2. Len(m.rows) + 1 \in Nat
    BY MachineFields
  <1>3. x \in Record
    BY <1>2 DEF NewInstance, Record, Outs, TaskStatus
  <1>4. InBudget(x)
    BY <1>1, TaskFacts DEF InBudget
  <1> QED
    BY <1>1, <1>3, <1>4 DEF Sound

LEMMA NewAnswered ==
  ASSUME def \in Defs, NEW m \in Machines, NEW n \in Nodes, NEW v \in Outs
  PROVE  LET x == [NewInstance(m, n, "COMPLETED") EXCEPT !.out = v]
         IN  /\ x \in Sound /\ x.id = Len(m.rows) + 1 /\ x.node = n /\ x.st = "COMPLETED" /\ ~x.armed
             /\ x.tries = 0 /\ x.child = "none"
  <1> DEFINE x == [NewInstance(m, n, "COMPLETED") EXCEPT !.out = v]
  <1>1. /\ x.id = Len(m.rows) + 1 /\ x.node = n /\ x.st = "COMPLETED" /\ x.armed = FALSE
        /\ x.tries = 0 /\ x.child = "none"
    BY DEF NewInstance
  <1>2. Len(m.rows) + 1 \in Nat
    BY MachineFields
  <1>3. x \in Record
    BY <1>2 DEF NewInstance, Record, Outs, TaskStatus
  <1>4. InBudget(x)
    <2> HIDE DEF x
    <2> QED
      BY <1>1, TaskFacts DEF InBudget
  <1> QED
    BY <1>1, <1>3, <1>4 DEF Sound

(* A machine with the same or one more instance, typed otherwise, is one. *)
LEMMA GrownIsMachine ==
  ASSUME NEW m \in Machines, NEW k \in Records, NEW x, Grows(m, k, x)
  PROVE  k \in Machines
  <1>1. x \in Sound /\ x.id = Len(m.rows) + 1
    BY DEF Grows
  <1>2. Numbered(Append(m.ex.inst, x), Append(m.rows, x))
    BY <1>1, MachineFields, GrowsNumbered
  <1> QED
    BY <1>2 DEF Machines, Grows

LEMMA SameIsMachine ==
  ASSUME NEW m \in Machines, NEW k \in Records, k.ex.inst = m.ex.inst, k.rows = m.rows
  PROVE  k \in Machines
  BY DEF Machines

LEMMA AddFacts ==
  ASSUME NEW m \in Machines, NEW x \in Sound, x.id = Len(m.rows) + 1
  PROVE  LET k == AddInstance(m, x)
         IN  /\ k \in Machines /\ Grows(m, k, x)
             /\ k.ex.status = m.ex.status /\ k.ex.var = m.ex.var /\ k.ended = m.ended
             /\ k.pc = m.pc /\ k.todo = m.todo /\ k.skips = m.skips
  <1> DEFINE k == AddInstance(m, x)
  <1>1. m \in Records /\ m.ex \in Execs
    BY MachineFields
  <1>2. /\ k.ex.status = m.ex.status /\ k.ex.var = m.ex.var /\ k.ended = m.ended
        /\ k.pc = m.pc /\ k.todo = m.todo /\ k.skips = m.skips
        /\ k.ex.inst = Append(m.ex.inst, x) /\ k.rows = Append(m.rows, x)
    BY <1>1 DEF AddInstance, Records, Execs
  <1>3. Append(m.ex.inst, x) \in Seq(Sound) /\ Append(m.rows, x) \in Seq(Sound)
    BY MachineFields
  <1>4. k \in Records
    BY <1>1, <1>3 DEF AddInstance, Records, Execs
  <1>5. Grows(m, k, x)
    BY <1>2 DEF Grows
  <1> HIDE DEF k
  <1>6. k \in Machines
    BY <1>4, <1>5, GrownIsMachine
  <1> QED
    BY <1>2, <1>5, <1>6 DEF k

(* sync_instance() on the nested copies alone. *)
Sync(q, i) ==
    LET at == {k \in DOMAIN q : q[k].id = i.id}
    IN  IF at = {} THEN Append(q, i) ELSE [q EXCEPT ![Min(at)] = i]

LEMMA SyncFields ==
  ASSUME NEW ex \in Execs, NEW i \in Sound
  PROVE  LET e == SyncInstance(ex, i)
         IN  e.inst = Sync(ex.inst, i) /\ e.status = ex.status /\ e.var = ex.var
             /\ (Sync(ex.inst, i) \in Seq(Sound) => e \in Execs)
  BY DEF SyncInstance, Sync, Execs

(* An instance the execution holds is replaced where it is. *)
LEMMA SyncHeld ==
  ASSUME NEW q \in Seq(Sound), NEW rs \in Seq(Sound), Numbered(q, rs), NEW i \in Sound,
         NEW p \in DOMAIN q, q[p].id = i.id, rs[i.id].node = i.node
  PROVE  /\ Sync(q, i) = [q EXCEPT ![p] = i] /\ Put(rs, i) = [rs EXCEPT ![i.id] = i]
         /\ Sync(q, i) \in Seq(Sound) /\ Put(rs, i) \in Seq(Sound) /\ i.id \in DOMAIN rs
         /\ Numbered(Sync(q, i), Put(rs, i))
  <1> DEFINE at == {k \in DOMAIN q : q[k].id = i.id}
  <1>1. at = {p}
    BY DEF Numbered
  <1>2. p \in Nat /\ i.id \in DOMAIN rs
    BY DEF Numbered
  <1>3. Min(at) = p
    BY <1>1, <1>2, MinIn
  <1>4. Sync(q, i) = [q EXCEPT ![p] = i]
    BY <1>1, <1>3 DEF Sync
  <1>5. Put(rs, i) = [rs EXCEPT ![i.id] = i]
    BY <1>2 DEF Put
  <1>6. PICK Q : Q = Sync(q, i)
    OBVIOUS
  <1>7. PICK R : R = Put(rs, i)
    OBVIOUS
  <1>8. /\ Q \in Seq(Sound) /\ R \in Seq(Sound) /\ DOMAIN Q = DOMAIN q /\ DOMAIN R = DOMAIN rs
        /\ \A k \in DOMAIN q : Q[k] = IF k = p THEN i ELSE q[k]
        /\ \A k \in DOMAIN rs : R[k] = IF k = i.id THEN i ELSE rs[k]
    BY <1>2, <1>4, <1>5, <1>6, <1>7
  <1>9. \A k \in DOMAIN q : Q[k].id = q[k].id
    BY <1>8
  <1>10. \A k \in DOMAIN rs : R[k].id = k
    BY <1>8 DEF Numbered
  <1>11. Numbered(Q, R)
    BY <1>8, <1>9, <1>10 DEF Numbered
  <1> QED
    BY <1>2, <1>4, <1>5, <1>6, <1>7, <1>8, <1>11

(* One it does not hold is appended; its row may be there or be new. *)
LEMMA SyncOther ==
  ASSUME NEW q \in Seq(Sound), NEW rs \in Seq(Sound), Numbered(q, rs), NEW i \in Sound,
         i.id \in 1..(Len(rs) + 1), \A p \in DOMAIN q : q[p].id # i.id,
         i.id \in DOMAIN rs => rs[i.id].node = i.node
  PROVE  /\ Sync(q, i) = Append(q, i) /\ Sync(q, i) \in Seq(Sound) /\ Put(rs, i) \in Seq(Sound)
         /\ Numbered(Sync(q, i), Put(rs, i))
         /\ i.id \in DOMAIN rs => Put(rs, i) = [rs EXCEPT ![i.id] = i]
         /\ i.id = Len(rs) + 1 => Put(rs, i) = Append(rs, i)
  <1>1. Sync(q, i) = Append(q, i)
    BY DEF Sync
  <1>2. Append(q, i) \in Seq(Sound) /\ DOMAIN rs = 1..Len(rs) /\ Len(rs) \in Nat
    OBVIOUS
  <1>3. CASE i.id = Len(rs) + 1
    <2>1. i.id \notin DOMAIN rs
      BY <1>2, <1>3
    <2>2. Put(rs, i) = Append(rs, i)
      BY <2>1 DEF Put
    <2>3. Append(rs, i) \in Seq(Sound) /\ Numbered(Append(q, i), Append(rs, i))
      BY <1>3, GrowsNumbered
    <2> QED
      BY <1>1, <1>2, <2>1, <2>2, <2>3
  <1>4. CASE i.id # Len(rs) + 1
    <2>1. i.id \in DOMAIN rs
      BY <1>2, <1>4
    <2>2. Put(rs, i) = [rs EXCEPT ![i.id] = i]
      BY <2>1 DEF Put
    <2>3. PICK R : R = Put(rs, i)
      OBVIOUS
    <2>4. /\ R \in Seq(Sound) /\ DOMAIN R = DOMAIN rs
          /\ \A k \in DOMAIN rs : R[k] = IF k = i.id THEN i ELSE rs[k]
      BY <2>1, <2>2, <2>3
    <2>5. PICK Q : Q = Append(q, i)
      OBVIOUS
    <2>6. /\ DOMAIN Q = 1..(Len(q) + 1) /\ DOMAIN q = 1..Len(q) /\ Len(q) \in Nat
          /\ Q[Len(q) + 1] = i /\ \A k \in 1..Len(q) : Q[k] = q[k]
      BY <2>5
    <2>7. \A k \in DOMAIN R : R[k].id = k
      BY <2>4 DEF Numbered
    <2>8. \A k \in DOMAIN Q : Q[k].id \in DOMAIN R /\ R[Q[k].id].node = Q[k].node
      BY <2>1, <2>4, <2>6 DEF Numbered
    <2>9. \A j, k \in DOMAIN Q : Q[j].id = Q[k].id => j = k
      BY <2>6 DEF Numbered
    <2>10. Numbered(Q, R)
      BY <2>7, <2>8, <2>9 DEF Numbered
    <2> QED
      BY <1>1, <1>2, <1>4, <2>1, <2>2, <2>3, <2>4, <2>5, <2>10
  <1> QED
    BY <1>3, <1>4

(* What handle_failure() makes of an instance and of the execution. *)
Handled(m, k, i, j, a) ==
    /\ j \in Sound /\ j.id = i.id /\ j.node = i.node /\ j.st = i.st /\ j.out = i.out /\ j.child = i.child
    /\ k.ex.inst = Sync(m.ex.inst, j) /\ k.rows = Put(m.rows, j) /\ k.pc = "silent"
    /\ k.ex.var = m.ex.var /\ k.todo = m.todo /\ k.skips = m.skips
    /\ \/ i.tries + 1 < a /\ j.armed /\ k.ex.status = m.ex.status /\ k.ended = m.ended
       \/ ~(i.tries + 1 < a) /\ j = i /\ k.ex.status = "FAILED" /\ k.ended = m.ended + 1

LEMMA HandleFacts ==
  ASSUME def \in Defs, NEW m \in Machines, NEW i \in Sound, i.id \in 1..(Len(m.rows) + 1),
         i.id \in DOMAIN m.rows => m.rows[i.id].node = i.node,
         NEW a \in Nat, a <= def.task[i.node].attempts
  PROVE  HandleFailure(m, i, a) \in Machines /\ \E j : Handled(m, HandleFailure(m, i, a), i, j, a)
  <1> DEFINE again == i.tries + 1 < a
             j == IF again THEN [i EXCEPT !.tries = @ + 1, !.armed = TRUE] ELSE i
             ex == IF again THEN m.ex ELSE [m.ex EXCEPT !.status = "FAILED"]
             k == [m EXCEPT !.ex = SyncInstance(ex, j), !.rows = Put(@, j), !.pc = "silent",
                            !.ended = IF again THEN @ ELSE @ + 1]
  <1>1. HandleFailure(m, i, a) = k
    BY DEF HandleFailure
  <1>2. i \in Record /\ InBudget(i) /\ i.node \in Nodes /\ i.tries \in Nat
    BY DEF Sound, Record
  <1>3. def.task[i.node].attempts \in Nat
    BY <1>2, TaskFacts
  <1>4. j \in Sound /\ j.id = i.id /\ j.node = i.node /\ j.st = i.st /\ j.out = i.out /\ j.child = i.child
    <2>1. CASE again
      <3>1. /\ j.id = i.id /\ j.node = i.node /\ j.st = i.st /\ j.out = i.out /\ j.child = i.child
            /\ j.tries = i.tries + 1
        BY <2>1, <1>2 DEF Record
      <3>2. j \in Record
        <4>1. PICK t \in Nat : t = i.tries + 1
          BY <1>2
        <4>2. [i EXCEPT !.tries = t, !.armed = TRUE] \in Record
          BY <1>2 DEF Record
        <4>3. j = [i EXCEPT !.tries = t, !.armed = TRUE]
          BY <2>1, <4>1, <1>2 DEF Record
        <4> QED
          BY <4>2, <4>3
      <3>3. j.tries < def.task[j.node].attempts
        BY <2>1, <3>1, <1>2, <1>3
      <3> HIDE DEF j
      <3>4. InBudget(j)
        BY <1>2, <3>1, <3>3 DEF InBudget
      <3> QED
        BY <3>1, <3>2, <3>4 DEF Sound
    <2>2. CASE ~again
      BY <2>2
    <2> QED
      BY <2>1, <2>2
  <1>5. (again => j.armed) /\ (~again => j = i)
    BY <1>2 DEF Record
  <1>6. /\ m \in Records /\ m.ex \in Execs /\ m.rows \in Seq(Sound) /\ m.ex.inst \in Seq(Sound)
        /\ m.ended \in Nat /\ Numbered(m.ex.inst, m.rows)
    BY MachineFields
  <1>7. /\ ex \in Execs /\ ex.inst = m.ex.inst /\ ex.var = m.ex.var
        /\ ex.status = IF again THEN m.ex.status ELSE "FAILED"
    BY <1>6 DEF Execs, Statuses
  <1> HIDE DEF j, ex
  <1>8. /\ Sync(m.ex.inst, j) \in Seq(Sound) /\ Put(m.rows, j) \in Seq(Sound)
        /\ Numbered(Sync(m.ex.inst, j), Put(m.rows, j))
    <2>1. CASE \E p \in DOMAIN m.ex.inst : m.ex.inst[p].id = j.id
      <3>1. PICK p \in DOMAIN m.ex.inst : m.ex.inst[p].id = j.id
        BY <2>1
      <3>2. m.rows[j.id].node = j.node
        BY <3>1, <1>4, <1>6 DEF Numbered
      <3> QED
        BY <3>1, <3>2, <1>4, <1>6, SyncHeld
    <2>2. CASE ~\E p \in DOMAIN m.ex.inst : m.ex.inst[p].id = j.id
      BY <2>2, <1>4, <1>6, SyncOther
    <2> QED
      BY <2>1, <2>2
  <1>9. LET e == SyncInstance(ex, j)
        IN  e.inst = Sync(m.ex.inst, j) /\ e.status = ex.status /\ e.var = m.ex.var /\ e \in Execs
    BY <1>4, <1>7, <1>8, SyncFields
  <1>10. PICK e : e = SyncInstance(ex, j)
    OBVIOUS
  <1>11. PICK r : r = Put(m.rows, j)
    OBVIOUS
  <1>12. PICK n \in Nat : n = IF again THEN m.ended ELSE m.ended + 1
    BY <1>6
  <1>13. e \in Execs /\ r \in Seq(Sound)
    BY <1>8, <1>9, <1>10, <1>11
  <1> HIDE DEF again
  <1> DEFINE l == [m EXCEPT !.ex = e, !.rows = r, !.pc = "silent", !.ended = n]
  <1>14. k = l
    BY <1>6, <1>10, <1>11, <1>12 DEF Records
  <1>15. l \in Records
    BY <1>6, <1>13 DEF Records
  <1>18. l.ex = e /\ l.rows = r /\ l.pc = "silent" /\ l.todo = m.todo /\ l.skips = m.skips /\ l.ended = n
    BY <1>6 DEF Records
  <1> HIDE DEF l
  <1>19. /\ k \in Records /\ k.ex = e /\ k.rows = r /\ k.pc = "silent" /\ k.todo = m.todo /\ k.skips = m.skips
         /\ k.ended = IF again THEN m.ended ELSE m.ended + 1
    BY <1>12, <1>14, <1>15, <1>18
  <1> HIDE DEF k
  <1>16. k \in Machines
    BY <1>8, <1>9, <1>10, <1>11, <1>19 DEF Machines
  <1>17. Handled(m, k, i, j, a)
    <2>1. k.ex.inst = Sync(m.ex.inst, j) /\ k.ex.var = m.ex.var /\ k.ex.status = ex.status
      BY <1>9, <1>10, <1>19
    <2>2. CASE again
      BY <1>4, <1>5, <1>7, <1>11, <1>19, <2>1, <2>2 DEF Handled, again
    <2>3. CASE ~again
      BY <1>4, <1>5, <1>7, <1>11, <1>19, <2>1, <2>3 DEF Handled, again
    <2> QED
      BY <2>2, <2>3
  <1> QED
    BY <1>1, <1>16, <1>17

(* Changes of the machine beside its instances. *)
LEMMA PcFacts ==
  ASSUME NEW m \in Machines, NEW p \in {"advance", "skip", "spawn", "done", "silent", "lost"}
  PROVE  LET k == [m EXCEPT !.pc = p]
         IN  k \in Machines /\ Same(m, k) /\ k.pc = p /\ k.todo = m.todo /\ k.skips = m.skips
  <1> DEFINE k == [m EXCEPT !.pc = p]
  <1>1. m \in Records
    BY MachineFields
  <1>2. /\ k \in Records /\ k.ex = m.ex /\ k.rows = m.rows /\ k.ended = m.ended
        /\ k.pc = p /\ k.todo = m.todo /\ k.skips = m.skips
    BY <1>1 DEF Records
  <1> HIDE DEF k
  <1>3. k \in Machines
    BY <1>2 DEF Machines
  <1> QED
    BY <1>2, <1>3 DEF Same, k

LEMMA TodoFacts ==
  ASSUME NEW m \in Machines, NEW T \in SUBSET Places
  PROVE  LET k == [m EXCEPT !.todo = T]
         IN  k \in Machines /\ Same(m, k) /\ k.pc = m.pc /\ k.todo = T /\ k.skips = m.skips
  <1> DEFINE k == [m EXCEPT !.todo = T]
  <1>1. m \in Records
    BY MachineFields
  <1>2. /\ k \in Records /\ k.ex = m.ex /\ k.rows = m.rows /\ k.ended = m.ended
        /\ k.pc = m.pc /\ k.todo = T /\ k.skips = m.skips
    BY <1>1 DEF Records
  <1> HIDE DEF k
  <1>3. k \in Machines
    BY <1>2 DEF Machines
  <1> QED
    BY <1>2, <1>3 DEF Same, k

LEMMA NextFacts ==
  ASSUME NEW m \in Machines
  PROVE  LET k == Next1(m)
         IN  k \in Machines /\ Same(m, k) /\ k.pc = m.pc /\ k.todo = m.todo \ {Min(m.todo)} /\ k.skips = m.skips
  <1>1. m.todo \ {Min(m.todo)} \in SUBSET Places
    BY MachineFields
  <1>2. Next1(m) = [m EXCEPT !.todo = m.todo \ {Min(m.todo)}]
    BY DEF Next1
  <1> QED
    BY <1>1, <1>2, TodoFacts

LEMMA AgainFacts ==
  ASSUME NEW m \in Machines
  PROVE  LET k == Again(m)
         IN  k \in Machines /\ Same(m, k) /\ k.pc = "advance" /\ k.todo = m.todo /\ k.skips = m.skips
  BY PcFacts DEF Again

(* What is gathered as input is one of the outputs. *)
LEMMA GatheredFacts ==
  ASSUME NEW m \in Machines, NEW n
  PROVE  GatheredInput(m.ex, n) \in Outs
  <1>1. \A f : \A p \in FindInstance(m.ex, f) : p.out \in Outs
    <2>1. m.ex.inst \in Seq(Sound)
      BY MachineFields
    <2>2. \A k \in DOMAIN m.ex.inst : m.ex.inst[k].out \in Outs
      BY <2>1 DEF Sound, Record
    <2> QED
      BY <2>2 DEF FindInstance
  <1> DEFINE maps == {k \in DOMAIN def.edges :
                    /\ def.edges[k].to = n /\ Satisfied(m.ex, def.edges[k])
                    /\ \E p \in FindInstance(m.ex, def.edges[k].from) : p.out # NoValue}
             last == {k \in maps : \A j \in maps : j <= k}
             outs == {p.out : p \in UNION {FindInstance(m.ex, def.edges[k].from) : k \in last}}
  <1>2. GatheredInput(m.ex, n) = IF outs = {} THEN NoValue ELSE CHOOSE v \in outs : TRUE
    BY DEF GatheredInput
  <1>3. outs \subseteq Outs
    <2> HIDE DEF last
    <2> QED
      BY <1>1
  <1> HIDE DEF outs
  <1>4. outs # {} => (CHOOSE v \in outs : TRUE) \in outs
    OBVIOUS
  <1> QED
    BY <1>2, <1>3, <1>4 DEF Outs

(* The spawns, each a Passes, a Loses or a Spawns. *)
Turns(m, k) == Passes(m, k) \/ Loses(m, k) \/ \E x : Spawns(m, k, x)
Spawning(m) == m \in Machines /\ m.pc = "spawn" /\ m.todo # {}

LEMMA SpawningFacts ==
  ASSUME def \in Defs, NEW m, Spawning(m)
  PROVE  m \in Machines /\ m.pc = "spawn" /\ m.todo # {} /\ Turn(m) \in Nodes
  BY MachineFields, TurnFacts DEF Spawning, Turn

LEMMA WaitsFacts ==
  ASSUME def \in Defs, NEW m, Spawning(m), NEW x \in Sound, x.id = Len(m.rows) + 1, x.node = Turn(m), ~x.armed,
         \/ x.st = "SCHEDULED" /\ WithinLimit(m, def.task[x.node]) /\ x.child = "none"
         \/ x.st = "IN_PROGRESS" /\ Kind(x.node) \in {"HUMAN", "WAIT", "WAIT_SIGNAL", "SUB_WORKFLOW"}
  PROVE  LET k == Next1(AddInstance(m, x)) IN k \in Machines /\ Turns(m, k)
  <1>1. m \in Machines /\ m.pc = "spawn" /\ m.todo # {}
    BY SpawningFacts
  <1>2. PICK l : l = AddInstance(m, x)
    OBVIOUS
  <1>3. /\ l \in Machines /\ Grows(m, l, x)
        /\ l.ex.status = m.ex.status /\ l.ex.var = m.ex.var /\ l.ended = m.ended
        /\ l.pc = m.pc /\ l.todo = m.todo /\ l.skips = m.skips
    BY <1>1, <1>2, AddFacts
  <1>4. PICK k : k = Next1(l)
    OBVIOUS
  <1>5. k \in Machines /\ Same(l, k) /\ k.pc = l.pc /\ k.todo = l.todo \ {Min(l.todo)} /\ k.skips = l.skips
    BY <1>3, <1>4, NextFacts
  <1>6. Grows(m, k, x)
    BY <1>3, <1>5 DEF Grows, Same
  <1>7. Waits(m, k, x)
    BY <1>1, <1>3, <1>5 DEF Waits, Same
  <1>8. Spawns(m, k, x)
    BY <1>1, <1>3, <1>5, <1>6, <1>7 DEF Spawns
  <1> QED
    BY <1>2, <1>4, <1>5, <1>8 DEF Turns

LEMMA PassesFacts ==
  ASSUME def \in Defs, NEW m, Spawning(m)
  PROVE  Next1(m) \in Machines /\ Turns(m, Next1(m))
  <1>1. m \in Machines /\ m.pc = "spawn" /\ m.todo # {}
    BY SpawningFacts
  <1>2. PICK k : k = Next1(m)
    OBVIOUS
  <1>3. k \in Machines /\ Same(m, k) /\ k.pc = m.pc /\ k.todo = m.todo \ {Min(m.todo)} /\ k.skips = m.skips
    BY <1>1, <1>2, NextFacts
  <1>4. Passes(m, k)
    BY <1>1, <1>3 DEF Passes
  <1> QED
    BY <1>2, <1>3, <1>4 DEF Turns

LEMMA LosesFacts ==
  ASSUME def \in Defs, NEW m, Spawning(m), def.task[Turn(m)].child = "silent"
  PROVE  LET k == [m EXCEPT !.pc = "lost"] IN k \in Machines /\ Turns(m, k)
  <1>1. m \in Machines /\ m.pc = "spawn" /\ m.todo # {}
    BY SpawningFacts
  <1>2. PICK k : k = [m EXCEPT !.pc = "lost"]
    OBVIOUS
  <1>3. k \in Machines /\ Same(m, k) /\ k.pc = "lost"
    BY <1>1, <1>2, PcFacts
  <1>4. Loses(m, k)
    BY <1>1, <1>3 DEF Loses
  <1> QED
    BY <1>2, <1>3, <1>4 DEF Turns

LEMMA AnswersFacts ==
  ASSUME def \in Defs, NEW m, Spawning(m), NEW x \in Sound, x.id = Len(m.rows) + 1, x.node = Turn(m), ~x.armed,
         x.child = "none", x.st = "COMPLETED" \/ (x.st = "FAILED" /\ Kind(x.node) = "START_WORKFLOW")
  PROVE  LET k == Again(AddInstance(m, x)) IN k \in Machines /\ Turns(m, k)
  <1>1. m \in Machines /\ m.pc = "spawn" /\ m.todo # {}
    BY SpawningFacts
  <1>2. PICK l : l = AddInstance(m, x)
    OBVIOUS
  <1>3. /\ l \in Machines /\ Grows(m, l, x)
        /\ l.ex.status = m.ex.status /\ l.ex.var = m.ex.var /\ l.ended = m.ended
        /\ l.pc = m.pc /\ l.todo = m.todo /\ l.skips = m.skips
    BY <1>1, <1>2, AddFacts
  <1>4. PICK k : k = Again(l)
    OBVIOUS
  <1>5. k \in Machines /\ Same(l, k) /\ k.pc = "advance" /\ k.todo = l.todo /\ k.skips = l.skips
    BY <1>3, <1>4, AgainFacts
  <1>6. Grows(m, k, x)
    BY <1>3, <1>5 DEF Grows, Same
  <1>7. Answers(m, k, x)
    BY <1>1, <1>3, <1>5 DEF Answers, Same
  <1>8. Spawns(m, k, x)
    BY <1>1, <1>3, <1>5, <1>6, <1>7 DEF Spawns
  <1> QED
    BY <1>2, <1>4, <1>5, <1>8 DEF Turns

LEMMA AppendReplaced ==
  ASSUME NEW S, NEW q \in Seq(S), NEW x \in S, NEW y \in S
  PROVE  [Append(q, x) EXCEPT ![Len(q) + 1] = y] = Append(q, y)
  <1> DEFINE r == Append(q, x)
             s == Append(q, y)
  <1>1. /\ r \in [1..(Len(q) + 1) -> S] /\ s \in [1..(Len(q) + 1) -> S] /\ Len(q) \in Nat
        /\ s[Len(q) + 1] = y /\ \A k \in 1..Len(q) : r[k] = q[k] /\ s[k] = q[k]
    <2>1. r \in Seq(S) /\ Len(r) = Len(q) + 1 /\ s \in Seq(S) /\ Len(s) = Len(q) + 1 /\ Len(q) \in Nat
      OBVIOUS
    <2>2. s[Len(q) + 1] = y /\ \A k \in 1..Len(q) : r[k] = q[k] /\ s[k] = q[k]
      OBVIOUS
    <2> HIDE DEF r, s
    <2> QED
      BY <2>1, <2>2
  <1> HIDE DEF r, s
  <1>2. [r EXCEPT ![Len(q) + 1] = y] \in [1..(Len(q) + 1) -> S]
    BY <1>1
  <1>3. \A k \in 1..(Len(q) + 1) : [r EXCEPT ![Len(q) + 1] = y][k] = s[k]
    BY <1>1
  <1>4. [r EXCEPT ![Len(q) + 1] = y] = s
    BY <1>1, <1>2, <1>3
  <1> QED
    BY <1>4 DEF r, s

(* A task that fails as it is spawned, already added or not. *)
LEMMA FailsAdded ==
  ASSUME def \in Defs, NEW m, Spawning(m), NEW x \in Sound, x.id = Len(m.rows) + 1, x.node = Turn(m), ~x.armed,
         x.child = "none", x.st = "FAILED", x.tries = 0
  PROVE  LET k == HandleFailure(AddInstance(m, x), x, def.task[x.node].attempts)
         IN  k \in Machines /\ Turns(m, k)
  <1>1. m \in Machines /\ m.pc = "spawn" /\ m.todo # {} /\ Turn(m) \in Nodes
    BY SpawningFacts
  <1>2. PICK l : l = AddInstance(m, x)
    OBVIOUS
  <1>3. /\ l \in Machines /\ Grows(m, l, x)
        /\ l.ex.status = m.ex.status /\ l.ex.var = m.ex.var /\ l.ended = m.ended
        /\ l.pc = m.pc /\ l.todo = m.todo /\ l.skips = m.skips
    BY <1>1, <1>2, AddFacts
  <1>4. PICK a \in Nat : a = def.task[x.node].attempts
    BY <1>1, TaskFacts
  <1>5. PICK k : k = HandleFailure(l, x, a)
    OBVIOUS
  <1>6. /\ m.rows \in Seq(Sound) /\ m.ex.inst \in Seq(Sound) /\ Numbered(m.ex.inst, m.rows)
        /\ l.rows \in Seq(Sound) /\ l.ex.inst \in Seq(Sound) /\ Numbered(l.ex.inst, l.rows)
    BY <1>1, <1>3, MachineFields
  <1>7. /\ l.ex.inst = Append(m.ex.inst, x) /\ l.rows = Append(m.rows, x)
        /\ x.id \in 1..(Len(l.rows) + 1)
    BY <1>3, <1>6 DEF Grows
  <1>18. l.rows[x.id] = x
    BY <1>6, <1>7
  <1>8. a <= def.task[x.node].attempts
    BY <1>4
  <1>9. k \in Machines /\ \E j : Handled(l, k, x, j, a)
    BY <1>3, <1>5, <1>7, <1>8, <1>18, HandleFacts
  <1>10. PICK j : Handled(l, k, x, j, a)
    BY <1>9
  <1>11. /\ j \in Sound /\ j.id = x.id /\ j.node = x.node /\ j.st = x.st /\ j.child = x.child
         /\ k.ex.inst = Sync(l.ex.inst, j) /\ k.rows = Put(l.rows, j) /\ k.pc = "silent"
         /\ k.ex.var = l.ex.var /\ k.todo = l.todo /\ k.skips = l.skips
    BY <1>10 DEF Handled
  <1>12. /\ Len(m.ex.inst) + 1 \in DOMAIN l.ex.inst /\ l.ex.inst[Len(m.ex.inst) + 1] = x
    BY <1>6, <1>7
  <1>13. /\ Sync(l.ex.inst, j) = [l.ex.inst EXCEPT ![Len(m.ex.inst) + 1] = j]
         /\ Put(l.rows, j) = [l.rows EXCEPT ![j.id] = j]
    <2>1. PICK p \in DOMAIN l.ex.inst : p = Len(m.ex.inst) + 1
      BY <1>12
    <2>2. l.ex.inst[p].id = j.id
      BY <1>11, <1>12, <2>1
    <2>3. PICK q \in Seq(Sound) : q = l.ex.inst
      BY <1>6
    <2>4. PICK r \in Seq(Sound) : r = l.rows
      BY <1>6
    <2>5. Numbered(q, r) /\ p \in DOMAIN q /\ q[p].id = j.id /\ r[j.id].node = j.node
      BY <1>6, <1>11, <1>18, <2>1, <2>2, <2>3, <2>4
    <2>6. Sync(q, j) = [q EXCEPT ![p] = j] /\ Put(r, j) = [r EXCEPT ![j.id] = j]
      BY <1>11, <2>5, SyncHeld
    <2> QED
      BY <2>1, <2>3, <2>4, <2>6
  <1>14. k.ex.inst = Append(m.ex.inst, j) /\ k.rows = Append(m.rows, j)
    <2>1. PICK q \in Seq(Sound) : q = m.ex.inst
      BY <1>6
    <2>2. PICK r \in Seq(Sound) : r = m.rows
      BY <1>6
    <2>3. [Append(q, x) EXCEPT ![Len(q) + 1] = j] = Append(q, j)
      BY <1>11, AppendReplaced
    <2>4. [Append(r, x) EXCEPT ![Len(r) + 1] = j] = Append(r, j)
      BY <1>11, AppendReplaced
    <2>5. j.id = Len(r) + 1
      BY <1>11, <2>2
    <2> QED
      BY <1>7, <1>11, <1>13, <2>1, <2>2, <2>3, <2>4, <2>5
  <1>15. Grows(m, k, j)
    BY <1>11, <1>14 DEF Grows
  <1>16. Fails(m, k, j)
    <2>1. x.tries + 1 < a => 1 < def.task[j.node].attempts
      BY <1>4, <1>11
    <2>2. j = x => ~j.armed
      OBVIOUS
    <2> QED
      BY <1>3, <1>10, <1>11, <2>1, <2>2 DEF Fails, Handled
  <1>17. Spawns(m, k, j)
    BY <1>1, <1>3, <1>11, <1>15, <1>16 DEF Spawns
  <1> QED
    BY <1>2, <1>4, <1>5, <1>9, <1>17 DEF Turns

LEMMA FailsNew ==
  ASSUME def \in Defs, NEW m, Spawning(m), NEW x \in Sound, x.id = Len(m.rows) + 1, x.node = Turn(m), ~x.armed,
         x.child = "none", x.st = "FAILED", x.tries = 0
  PROVE  LET k == HandleFailure(m, x, 1)
         IN  k \in Machines /\ Turns(m, k)
  <1>1. m \in Machines /\ m.pc = "spawn" /\ m.todo # {} /\ Turn(m) \in Nodes
    BY SpawningFacts
  <1>2. PICK k : k = HandleFailure(m, x, 1)
    OBVIOUS
  <1>3. m.rows \in Seq(Sound) /\ m.ex.inst \in Seq(Sound) /\ Numbered(m.ex.inst, m.rows)
    BY <1>1, MachineFields
  <1>4. /\ x.id \in 1..(Len(m.rows) + 1) /\ 1 \in Nat /\ 1 <= def.task[x.node].attempts
        /\ x.id \notin DOMAIN m.rows
    BY <1>1, <1>3, TaskFacts
  <1>5. k \in Machines /\ \E j : Handled(m, k, x, j, 1)
    <2>1. PICK a \in Nat : a = 1
      OBVIOUS
    <2>2. a <= def.task[x.node].attempts
      BY <1>4, <2>1
    <2>3. HandleFailure(m, x, a) \in Machines /\ \E j : Handled(m, HandleFailure(m, x, a), x, j, a)
      BY <1>1, <1>4, <2>2, HandleFacts
    <2> QED
      BY <1>2, <2>1, <2>3
  <1>6. PICK j : Handled(m, k, x, j, 1)
    BY <1>5
  <1>7. /\ j = x /\ k.ex.status = "FAILED" /\ k.ended = m.ended + 1
        /\ k.ex.inst = Sync(m.ex.inst, j) /\ k.rows = Put(m.rows, j) /\ k.pc = "silent"
        /\ k.ex.var = m.ex.var /\ k.todo = m.todo /\ k.skips = m.skips
    <2>1. ~(x.tries + 1 < 1)
      OBVIOUS
    <2> QED
      BY <1>6, <2>1 DEF Handled
  <1>8. \A p \in DOMAIN m.ex.inst : m.ex.inst[p].id # x.id
    BY <1>3 DEF Numbered
  <1>9. k.ex.inst = Append(m.ex.inst, x) /\ k.rows = Append(m.rows, x)
    BY <1>3, <1>4, <1>7, <1>8, SyncOther
  <1>10. Grows(m, k, x)
    BY <1>9 DEF Grows
  <1>11. Fails(m, k, x)
    BY <1>7 DEF Fails
  <1>12. Spawns(m, k, x)
    BY <1>1, <1>7, <1>10, <1>11 DEF Spawns
  <1> QED
    BY <1>2, <1>5, <1>12 DEF Turns

LEMMA SpawnWaitingMoves ==
  ASSUME def \in Defs, NEW m, Spawning(m), Kind(Turn(m)) \in {"HUMAN", "WAIT", "WAIT_SIGNAL"}
  PROVE  LET k == SpawnWaiting(m, Turn(m), def.task[Turn(m)]) IN k \in Machines /\ Turns(m, k)
  <1>1. m \in Machines /\ Turn(m) \in Nodes
    BY SpawningFacts
  <1>2. PICK b \in BOOLEAN : b = (def.task[Turn(m)].kind = "WAIT")
    OBVIOUS
  <1>3. PICK x : x = [NewInstance(m, Turn(m), "IN_PROGRESS") EXCEPT !.due = b]
    OBVIOUS
  <1>4. /\ x \in Sound /\ x.id = Len(m.rows) + 1 /\ x.node = Turn(m) /\ x.st = "IN_PROGRESS" /\ ~x.armed
    BY <1>1, <1>3, NewWaiting
  <1>5. Next1(AddInstance(m, x)) \in Machines /\ Turns(m, Next1(AddInstance(m, x)))
    BY <1>4, WaitsFacts
  <1> QED
    BY <1>2, <1>3, <1>5 DEF SpawnWaiting

LEMMA SpawnStartWorkflowMoves ==
  ASSUME def \in Defs, NEW m, Spawning(m), Kind(Turn(m)) = "START_WORKFLOW"
  PROVE  LET k == SpawnStartWorkflow(m, Turn(m), def.task[Turn(m)]) IN k \in Machines /\ Turns(m, k)
  <1>1. m \in Machines /\ Turn(m) \in Nodes
    BY SpawningFacts
  <1>2. CASE def.task[Turn(m)].input = "bad"
    BY <1>2, PassesFacts DEF SpawnStartWorkflow
  <1>3. CASE def.task[Turn(m)].input # "bad" /\ def.task[Turn(m)].child = "silent"
    BY <1>3, LosesFacts DEF SpawnStartWorkflow
  <1>4. CASE def.task[Turn(m)].input # "bad" /\ def.task[Turn(m)].child # "silent"
    <2>1. PICK st : st = IF def.task[Turn(m)].child = "unknown" THEN "FAILED" ELSE "COMPLETED"
      OBVIOUS
    <2>2. st \in TaskStatus /\ st # "IN_PROGRESS" /\ st \in {"COMPLETED", "FAILED"}
      BY <2>1 DEF TaskStatus
    <2>3. PICK x : x = NewInstance(m, Turn(m), st)
      OBVIOUS
    <2>4. /\ x \in Sound /\ x.id = Len(m.rows) + 1 /\ x.node = Turn(m) /\ x.st = st /\ ~x.armed
          /\ x.child = "none"
      BY <1>1, <2>2, <2>3, NewSound
    <2>5. Again(AddInstance(m, x)) \in Machines /\ Turns(m, Again(AddInstance(m, x)))
      BY <2>2, <2>4, AnswersFacts
    <2> QED
      BY <1>4, <2>1, <2>3, <2>5 DEF SpawnStartWorkflow
  <1> QED
    BY <1>2, <1>3, <1>4

LEMMA SpawnSubWorkflowMoves ==
  ASSUME def \in Defs, NEW m, Spawning(m), Kind(Turn(m)) = "SUB_WORKFLOW"
  PROVE  LET k == SpawnSubWorkflow(m, Turn(m), def.task[Turn(m)]) IN k \in Machines /\ Turns(m, k)
  <1>1. m \in Machines /\ Turn(m) \in Nodes
    BY SpawningFacts
  <1> DEFINE t == def.task[Turn(m)]
  <1>0. t.child \in {"runs", "ended", "unknown", "silent"}
    BY <1>1, TaskFacts
  <1>2. CASE t.input = "bad"
    BY <1>2, PassesFacts DEF SpawnSubWorkflow
  <1>3. CASE t.input # "bad" /\ t.child = "silent"
    BY <1>3, LosesFacts DEF SpawnSubWorkflow
  <1>4. CASE t.input # "bad" /\ t.child = "unknown"
    <2>1. "FAILED" \in TaskStatus /\ "FAILED" # "IN_PROGRESS"
      BY DEF TaskStatus
    <2>2. PICK x : x = NewInstance(m, Turn(m), "FAILED")
      OBVIOUS
    <2>3. /\ x \in Sound /\ x.id = Len(m.rows) + 1 /\ x.node = Turn(m) /\ x.st = "FAILED" /\ ~x.armed
          /\ x.tries = 0 /\ x.child = "none"
      BY <1>1, <2>1, <2>2, NewSound
    <2>4. HandleFailure(m, x, 1) \in Machines /\ Turns(m, HandleFailure(m, x, 1))
      BY <2>3, FailsNew
    <2> QED
      BY <1>4, <2>2, <2>4 DEF SpawnSubWorkflow
  <1>5. CASE t.input # "bad" /\ t.child \in {"runs", "ended"}
    <2>1. PICK c \in {"runs", "ended"} : c = t.child
      BY <1>5
    <2>2. PICK x : x = [NewInstance(m, Turn(m), "IN_PROGRESS") EXCEPT !.child = c]
      OBVIOUS
    <2>3. x \in Sound /\ x.id = Len(m.rows) + 1 /\ x.node = Turn(m) /\ x.st = "IN_PROGRESS" /\ ~x.armed
      <3>1. PICK n \in Nodes : n = Turn(m)
        BY <1>1
      <3>2. Kind(n) = "SUB_WORKFLOW" /\ c = def.task[n].child
        BY <2>1, <3>1
      <3>3. x = Parent(m, n, c)
        BY <2>2, <3>1 DEF Parent
      <3> HIDE DEF t
      <3>4. x \in Sound /\ x.id = Len(m.rows) + 1 /\ x.node = n /\ x.st = "IN_PROGRESS" /\ ~x.armed
        BY <1>1, <3>2, <3>3, NewParent
      <3> QED
        BY <3>1, <3>4
    <2>4. Next1(AddInstance(m, x)) \in Machines /\ Turns(m, Next1(AddInstance(m, x)))
      BY <2>3, WaitsFacts
    <2> QED
      BY <1>5, <2>1, <2>2, <2>4 DEF SpawnSubWorkflow
  <1> QED
    BY <1>0, <1>2, <1>3, <1>4, <1>5

LEMMA SpawnForWorkerMoves ==
  ASSUME def \in Defs, NEW m, Spawning(m)
  PROVE  LET k == SpawnForWorker(m, Turn(m), def.task[Turn(m)]) IN k \in Machines /\ Turns(m, k)
  <1>1. m \in Machines /\ Turn(m) \in Nodes
    BY SpawningFacts
  <1>2. CASE def.task[Turn(m)].input = "bad"
    <2>1. "FAILED" \in TaskStatus /\ "FAILED" # "IN_PROGRESS"
      BY DEF TaskStatus
    <2>2. PICK x : x = NewInstance(m, Turn(m), "FAILED")
      OBVIOUS
    <2>3. /\ x \in Sound /\ x.id = Len(m.rows) + 1 /\ x.node = Turn(m) /\ x.st = "FAILED" /\ ~x.armed
          /\ x.tries = 0 /\ x.child = "none"
      BY <1>1, <2>1, <2>2, NewSound
    <2>4. LET k == HandleFailure(AddInstance(m, x), x, def.task[x.node].attempts)
          IN  k \in Machines /\ Turns(m, k)
      BY <2>3, FailsAdded
    <2>5. SpawnForWorker(m, Turn(m), def.task[Turn(m)])
            = HandleFailure(AddInstance(m, x), x, def.task[Turn(m)].attempts)
      BY <1>2, <2>2 DEF SpawnForWorker
    <2> QED
      BY <2>3, <2>4, <2>5
  <1>3. CASE def.task[Turn(m)].input # "bad" /\ WithinLimit(m, def.task[Turn(m)])
    <2>1. "SCHEDULED" \in TaskStatus /\ "SCHEDULED" # "IN_PROGRESS"
      BY DEF TaskStatus
    <2>2. PICK x : x = NewInstance(m, Turn(m), "SCHEDULED")
      OBVIOUS
    <2>3. /\ x \in Sound /\ x.id = Len(m.rows) + 1 /\ x.node = Turn(m) /\ x.st = "SCHEDULED" /\ ~x.armed
          /\ x.child = "none"
      BY <1>1, <2>1, <2>2, NewSound
    <2>4. Next1(AddInstance(m, x)) \in Machines /\ Turns(m, Next1(AddInstance(m, x)))
      BY <1>3, <2>3, WaitsFacts
    <2> QED
      BY <1>3, <2>2, <2>4 DEF SpawnForWorker
  <1>4. CASE def.task[Turn(m)].input # "bad" /\ ~WithinLimit(m, def.task[Turn(m)])
    BY <1>4, PassesFacts DEF SpawnForWorker
  <1> QED
    BY <1>2, <1>3, <1>4

LEMMA SpawnInProcessMoves ==
  ASSUME def \in Defs, NEW m, Spawning(m),
         Kind(Turn(m)) \in {"EVENT", "NOOP", "SET_VARIABLE", "TERMINATE"}
  PROVE  LET k == SpawnInProcess(m, Turn(m), def.task[Turn(m)]) IN k \in Machines /\ Turns(m, k)
  <1>1. m \in Machines /\ m.pc = "spawn" /\ m.todo # {} /\ Turn(m) \in Nodes
    BY SpawningFacts
  <1>2. PICK input \in Outs : input = GatheredInput(m.ex, Turn(m))
    BY <1>1, GatheredFacts
  <1>3. PICK x : x = [NewInstance(m, Turn(m), "COMPLETED") EXCEPT !.out = input]
    OBVIOUS
  <1>4. /\ x \in Sound /\ x.id = Len(m.rows) + 1 /\ x.node = Turn(m) /\ x.st = "COMPLETED" /\ ~x.armed
        /\ x.child = "none"
    BY <1>1, <1>3, NewAnswered
  <1>5. PICK l : l = AddInstance(m, x)
    OBVIOUS
  <1>6. /\ l \in Machines /\ Grows(m, l, x)
        /\ l.ex.status = m.ex.status /\ l.ex.var = m.ex.var /\ l.ended = m.ended
        /\ l.pc = m.pc /\ l.todo = m.todo /\ l.skips = m.skips
    BY <1>1, <1>4, <1>5, AddFacts
  <1>7. l \in Records /\ l.ex \in Execs /\ l.ended \in Nat
    BY <1>6, MachineFields
  <1> DEFINE t == def.task[Turn(m)]
             k == SpawnInProcess(m, Turn(m), t)
  <1>8. CASE t.kind = "TERMINATE"
    <2>1. k = [l EXCEPT !.ex.status = t.ends, !.ended = @ + 1, !.pc = "done"]
      BY <1>2, <1>3, <1>5, <1>8 DEF SpawnInProcess
    <2>2. PICK s \in Statuses : s = t.ends /\ IsTerminal(s)
      BY <1>1, TaskFacts DEF IsTerminal, Statuses
    <2>3. PICK e \in Execs : e = [l.ex EXCEPT !.status = s]
      BY <1>7 DEF Execs
    <2>4. PICK c \in Nat : c = l.ended + 1
      BY <1>7
    <2> DEFINE j == [l EXCEPT !.ex = e, !.ended = c, !.pc = "done"]
    <2>5. k = j
      BY <1>7, <2>1, <2>2, <2>3, <2>4 DEF Records
    <2>6. j \in Records /\ j.ex = e /\ j.ended = c /\ j.pc = "done" /\ j.rows = l.rows /\ j.skips = l.skips
      BY <1>7 DEF Records
    <2>7. e.inst = l.ex.inst /\ e.var = l.ex.var /\ e.status = s
      BY <1>7, <2>3 DEF Execs
    <2> HIDE DEF j, k
    <2>8. Grows(m, k, x)
      BY <1>6, <2>5, <2>6, <2>7 DEF Grows
    <2>9. Terminates(m, k, x)
      BY <1>4, <1>6, <1>8, <2>2, <2>4, <2>5, <2>6, <2>7 DEF Terminates, Kind
    <2>10. Spawns(m, k, x)
      BY <1>1, <1>4, <1>6, <2>5, <2>6, <2>8, <2>9 DEF Spawns
    <2>11. k \in Machines
      BY <1>1, <2>5, <2>6, <2>8, GrownIsMachine
    <2> QED
      BY <2>10, <2>11 DEF Turns, k
  <1>9. CASE t.kind = "SET_VARIABLE" /\ input # NoValue
    <2>1. k = Again([l EXCEPT !.ex.var = input])
      BY <1>2, <1>3, <1>5, <1>9 DEF SpawnInProcess
    <2>2. PICK e \in Execs : e = [l.ex EXCEPT !.var = input]
      BY <1>7 DEF Execs
    <2>3. PICK j : j = [l EXCEPT !.ex = e]
      OBVIOUS
    <2>4. j = [l EXCEPT !.ex.var = input]
      BY <1>7, <2>2, <2>3 DEF Records
    <2>5. /\ j \in Records /\ j.ex = e /\ j.ended = l.ended /\ j.pc = l.pc /\ j.rows = l.rows
          /\ j.skips = l.skips /\ j.todo = l.todo
      BY <1>7, <2>3 DEF Records
    <2>6. e.inst = l.ex.inst /\ e.status = l.ex.status
      BY <1>7, <2>2 DEF Execs
    <2>7. Grows(m, j, x)
      BY <1>6, <2>5, <2>6 DEF Grows
    <2>8. j \in Machines
      BY <1>1, <2>5, <2>7, GrownIsMachine
    <2>9. PICK g : g = Again(j)
      OBVIOUS
    <2>10. g \in Machines /\ Same(j, g) /\ g.pc = "advance" /\ g.todo = j.todo /\ g.skips = j.skips
      BY <2>8, <2>9, AgainFacts
    <2>11. Grows(m, g, x)
      BY <2>7, <2>10 DEF Grows, Same
    <2>12. Answers(m, g, x)
      BY <1>4, <1>6, <1>9, <2>5, <2>6, <2>10 DEF Answers, Same, Kind
    <2>13. Spawns(m, g, x)
      BY <1>1, <1>4, <1>6, <2>5, <2>10, <2>11, <2>12 DEF Spawns
    <2> QED
      BY <2>1, <2>4, <2>9, <2>10, <2>13 DEF Turns
  <1>10. CASE t.kind # "TERMINATE" /\ ~(t.kind = "SET_VARIABLE" /\ input # NoValue)
    <2>1. k = Again(AddInstance(m, x))
      BY <1>2, <1>3, <1>10 DEF SpawnInProcess
    <2>2. Again(AddInstance(m, x)) \in Machines /\ Turns(m, Again(AddInstance(m, x)))
      BY <1>4, AnswersFacts
    <2> QED
      BY <2>1, <2>2
  <1> QED
    BY <1>8, <1>9, <1>10

LEMMA SpawnMoves ==
  ASSUME def \in Defs, NEW m, Spawning(m)
  PROVE  LET k == SpawnWithDef(m, Turn(m)) IN k \in Machines /\ Turns(m, k)
  <1>1. CASE Kind(Turn(m)) \in {"HUMAN", "WAIT", "WAIT_SIGNAL"}
    <2>1. SpawnWithDef(m, Turn(m)) = SpawnWaiting(m, Turn(m), def.task[Turn(m)])
      BY <1>1 DEF SpawnWithDef, Kind
    <2> QED
      BY <1>1, <2>1, SpawnWaitingMoves
  <1>2. CASE Kind(Turn(m)) = "START_WORKFLOW"
    <2>1. SpawnWithDef(m, Turn(m)) = SpawnStartWorkflow(m, Turn(m), def.task[Turn(m)])
      BY <1>2 DEF SpawnWithDef, Kind
    <2> QED
      BY <1>2, <2>1, SpawnStartWorkflowMoves
  <1>3. CASE Kind(Turn(m)) = "SUB_WORKFLOW"
    <2>1. SpawnWithDef(m, Turn(m)) = SpawnSubWorkflow(m, Turn(m), def.task[Turn(m)])
      BY <1>3 DEF SpawnWithDef, Kind
    <2> QED
      BY <1>3, <2>1, SpawnSubWorkflowMoves
  <1>4. CASE Kind(Turn(m)) \in {"EVENT", "NOOP", "SET_VARIABLE", "TERMINATE"}
    <2>1. SpawnWithDef(m, Turn(m)) = SpawnInProcess(m, Turn(m), def.task[Turn(m)])
      BY <1>4 DEF SpawnWithDef, Kind
    <2> QED
      BY <1>4, <2>1, SpawnInProcessMoves
  <1>5. CASE Kind(Turn(m)) \notin {"HUMAN", "WAIT", "WAIT_SIGNAL", "START_WORKFLOW", "SUB_WORKFLOW",
                                   "EVENT", "NOOP", "SET_VARIABLE", "TERMINATE"}
    <2>1. SpawnWithDef(m, Turn(m)) = SpawnForWorker(m, Turn(m), def.task[Turn(m)])
      BY <1>5 DEF SpawnWithDef, Kind
    <2> QED
      BY <2>1, SpawnForWorkerMoves
  <1> QED
    BY <1>1, <1>2, <1>3, <1>4, <1>5

LEMMA CompleteMoves ==
  ASSUME def \in Defs, NEW m \in Machines, m.pc \in {"advance", "spawn"}, m.pc = "advance" => Live(m)
  PROVE  LET k == [MaybeComplete(m) EXCEPT !.pc = "done"] IN k \in Machines /\ Ends(m, k)
  <1>1. m \in Records /\ m.ex \in Execs /\ m.ended \in Nat /\ m.ex.inst \in Seq(Sound) /\ m.ex.var \in Outs
    BY MachineFields
  <1> DEFINE full == /\ ~IsTerminal(m.ex.status)
                     /\ Len(m.ex.inst) >= Len(def.nodes)
                     /\ \A i \in ToSet(m.ex.inst) : Done(i.st)
             k == [MaybeComplete(m) EXCEPT !.pc = "done"]
  <1>2. CASE ~full
    <2>1. MaybeComplete(m) = m
      BY <1>2 DEF MaybeComplete
    <2>2. k = [m EXCEPT !.pc = "done"]
      BY <2>1
    <2> HIDE DEF k
    <2>3. k \in Machines /\ Same(m, k) /\ k.pc = "done"
      BY <2>2, PcFacts
    <2>4. Ends(m, k)
      BY <2>3 DEF Ends, Same
    <2> QED
      BY <2>3, <2>4 DEF k
  <1>3. CASE full
    <2>1. PICK v : v = IF def.mapsOutput /\ m.ex.inst # <<>> /\ Last(m.ex.inst).out # NoValue
                       THEN Last(m.ex.inst).out ELSE m.ex.var
      OBVIOUS
    <2>2. v \in Outs /\ (v = m.ex.var \/ def.mapsOutput)
      <3>1. m.ex.inst # <<>> => Last(m.ex.inst) \in Sound
        BY <1>1 DEF Last
      <3>2. m.ex.inst # <<>> => Last(m.ex.inst).out \in Outs
        BY <3>1 DEF Sound, Record
      <3> QED
        BY <1>1, <2>1, <3>2
    <2>3. PICK c \in Nat : c = m.ended + 1
      BY <1>1
    <2>4. PICK e \in Execs : e = [m.ex EXCEPT !.status = "COMPLETED", !.var = v]
      BY <1>1, <2>2 DEF Execs, Statuses
    <2> DEFINE j == [m EXCEPT !.ex = e, !.ended = c, !.pc = "done"]
    <2>5. MaybeComplete(m) = [m EXCEPT !.ex.status = "COMPLETED", !.ended = @ + 1, !.ex.var = v]
      BY <1>3, <2>1, <1>1 DEF MaybeComplete, Records, Execs
    <2>6. k = j
      BY <1>1, <2>3, <2>4, <2>5 DEF Records, Execs
    <2>7. j \in Records /\ j.ex = e /\ j.ended = c /\ j.pc = "done" /\ j.rows = m.rows
      BY <1>1 DEF Records
    <2>8. e.inst = m.ex.inst /\ e.status = "COMPLETED" /\ e.var = v
      BY <1>1, <2>4 DEF Execs
    <2> HIDE DEF j, k
    <2>9. k \in Machines
      BY <2>6, <2>7, <2>8, SameIsMachine
    <2>10. \A q \in DOMAIN m.ex.inst : Done(m.ex.inst[q].st)
      BY <1>3 DEF ToSet
    <2>11. Ends(m, k)
      BY <1>3, <2>2, <2>3, <2>6, <2>7, <2>8, <2>10 DEF Ends
    <2> QED
      BY <2>9, <2>11 DEF k
  <1> QED
    BY <1>2, <1>3

LEMMA PassMoves ==
  ASSUME def \in Defs, NEW m \in Machines, m.pc = "advance"
  PROVE  AdvancePass(m) \in Machines /\ Moves(m, AdvancePass(m))
  <1>1. m \in Records /\ Places = DOMAIN def.nodes
    BY MachineFields, NodesFacts DEF Places
  <1>2. PICK el \in SUBSET Places : el = {p \in Places : Eligible(m.ex, def.nodes[p])}
    OBVIOUS
  <1>3. PICK sk \in SUBSET Places : sk = {p \in Places : Skippable(m.ex, def.nodes[p])}
    OBVIOUS
  <1>4. AdvancePass(m) = CASE ~Live(m) -> [m EXCEPT !.pc = "done"]
                           [] Live(m) /\ el = {} /\ sk = {} -> [MaybeComplete(m) EXCEPT !.pc = "done"]
                           [] OTHER -> [m EXCEPT !.skips = sk, !.todo = el, !.pc = "skip"]
    BY <1>1, <1>2, <1>3 DEF AdvancePass, Live
  <1>5. PICK k : k = AdvancePass(m)
    OBVIOUS
  <1>6. CASE ~Live(m)
    <2>1. k = [m EXCEPT !.pc = "done"]
      BY <1>4, <1>5, <1>6
    <2>2. k \in Machines /\ Same(m, k) /\ k.pc = "done"
      BY <2>1, PcFacts
    <2>3. Stops(m, k)
      BY <1>6, <2>2 DEF Stops
    <2> QED
      BY <1>5, <2>2, <2>3 DEF Moves
  <1>7. CASE Live(m) /\ el = {} /\ sk = {}
    <2>1. k = [MaybeComplete(m) EXCEPT !.pc = "done"]
      BY <1>4, <1>5, <1>7
    <2>2. k \in Machines /\ Ends(m, k)
      BY <1>7, <2>1, CompleteMoves
    <2> QED
      BY <1>5, <2>2 DEF Moves
  <1>8. CASE Live(m) /\ ~(el = {} /\ sk = {})
    <2>1. k = [m EXCEPT !.skips = sk, !.todo = el, !.pc = "skip"]
      BY <1>4, <1>5, <1>8
    <2>2. /\ k \in Records /\ k.ex = m.ex /\ k.rows = m.rows /\ k.ended = m.ended
          /\ k.skips = sk /\ k.todo = el /\ k.pc = "skip"
      BY <1>1, <2>1 DEF Records
    <2>3. k \in Machines
      BY <2>2, SameIsMachine
    <2>4. Plans(m, k)
      BY <1>2, <1>3, <1>8, <2>2 DEF Plans, Same
    <2> QED
      BY <1>5, <2>3, <2>4 DEF Moves
  <1> QED
    BY <1>6, <1>7, <1>8

LEMMA SkipMoves ==
  ASSUME def \in Defs, NEW m \in Machines, m.pc = "skip"
  PROVE  SkipNext(m) \in Machines /\ Moves(m, SkipNext(m))
  <1>1. PICK k : k = SkipNext(m)
    OBVIOUS
  <1>2. CASE m.skips = {}
    <2>1. PICK p \in {"advance", "skip", "spawn", "done", "silent", "lost"} :
             p = (IF m.todo = {} THEN "advance" ELSE "spawn") /\ p \in {"advance", "spawn"}
      OBVIOUS
    <2>2. k = [m EXCEPT !.pc = p]
      BY <1>1, <1>2, <2>1 DEF SkipNext
    <2>3. k \in Machines /\ Same(m, k) /\ k.pc = p /\ k.todo = m.todo /\ k.skips = m.skips
      BY <2>2, PcFacts
    <2>4. SkipsEnd(m, k)
      BY <1>2, <2>1, <2>3 DEF SkipsEnd
    <2> QED
      BY <1>1, <2>3, <2>4 DEF Moves
  <1>3. CASE m.skips # {}
    <2>1. PICK n \in Nodes : n = def.nodes[Min(m.skips)]
      BY <1>3, MachineFields, TurnFacts
    <2>2. "SKIPPED" \in TaskStatus /\ "SKIPPED" # "IN_PROGRESS"
      BY DEF TaskStatus
    <2>3. PICK x : x = NewInstance(m, n, "SKIPPED")
      OBVIOUS
    <2>4. /\ x \in Sound /\ x.id = Len(m.rows) + 1 /\ x.node = n /\ x.st = "SKIPPED" /\ ~x.armed
          /\ x.child = "none"
      BY <2>2, <2>3, NewSound
    <2>5. PICK l : l = AddInstance(m, x)
      OBVIOUS
    <2>6. /\ l \in Machines /\ Grows(m, l, x)
          /\ l.ex.status = m.ex.status /\ l.ex.var = m.ex.var /\ l.ended = m.ended
          /\ l.pc = m.pc /\ l.todo = m.todo /\ l.skips = m.skips
      BY <2>4, <2>5, AddFacts
    <2>7. PICK S \in SUBSET Places : S = m.skips \ {Min(m.skips)}
      BY MachineFields
    <2>8. k = [l EXCEPT !.skips = S]
      BY <1>1, <1>3, <2>1, <2>3, <2>5, <2>6, <2>7 DEF SkipNext
    <2>9. l \in Records
      BY <2>6, MachineFields
    <2>10. /\ k \in Records /\ k.ex = l.ex /\ k.rows = l.rows /\ k.ended = l.ended
           /\ k.skips = S /\ k.todo = l.todo /\ k.pc = l.pc
      BY <2>8, <2>9 DEF Records
    <2>11. Grows(m, k, x)
      BY <2>6, <2>10 DEF Grows
    <2>12. k \in Machines
      BY <2>10, <2>11, GrownIsMachine
    <2>13. Skips(m, k, x)
      BY <1>3, <2>1, <2>4, <2>6, <2>7, <2>10, <2>11 DEF Skips
    <2> QED
      BY <1>1, <2>12, <2>13 DEF Moves
  <1> QED
    BY <1>2, <1>3

(* Every step of advance() is one of the Moves. *)
LEMMA StepMoves ==
  ASSUME def \in Defs, NEW m \in Machines
  PROVE  AdvanceStep(m) \in Machines /\ Moves(m, AdvanceStep(m))
  <1>1. CASE m.pc = "advance"
    <2>1. AdvanceStep(m) = AdvancePass(m)
      BY <1>1 DEF AdvanceStep
    <2> QED
      BY <1>1, <2>1, PassMoves
  <1>2. CASE m.pc = "skip"
    <2>1. AdvanceStep(m) = SkipNext(m)
      BY <1>2 DEF AdvanceStep
    <2> QED
      BY <1>2, <2>1, SkipMoves
  <1>3. CASE m.pc = "spawn" /\ m.todo = {}
    <2>1. AdvanceStep(m) = [MaybeComplete(m) EXCEPT !.pc = "done"]
      BY <1>3 DEF AdvanceStep, SpawnNext
    <2> QED
      BY <1>3, <2>1, CompleteMoves DEF Moves
  <1>4. CASE m.pc = "spawn" /\ m.todo # {}
    <2>1. AdvanceStep(m) = SpawnWithDef(m, Turn(m))
      BY <1>4 DEF AdvanceStep, SpawnNext, Turn
    <2>2. Spawning(m)
      BY <1>4 DEF Spawning
    <2> QED
      BY <2>1, <2>2, SpawnMoves DEF Moves, Turns
  <1>5. CASE m.pc \notin {"advance", "skip", "spawn"}
    <2>1. AdvanceStep(m) = m /\ m.pc \in {"done", "silent", "lost"}
      BY <1>5, MachineFields DEF AdvanceStep
    <2> QED
      BY <2>1 DEF Moves
  <1> QED
    BY <1>1, <1>2, <1>3, <1>4, <1>5

-----------------------------------------------------------------------------
(* What a step of the system does: nothing to the execution, one row of it, *)
(* a failed, canceled or completed task, or a call of advance().            *)

Stored(ex, rs) == ex \in Execs /\ rs \in Seq(Sound) /\ Numbered(ex.inst, rs)

Shape ==
    /\ def \in Defs /\ Stored(exec, rows) /\ started \in Nat /\ finished \in Nat
    /\ started = 0 => exec.status = "none"
    /\ exec.status = "none" => finished = 0 /\ exec.inst = <<>>

Quiet == exec' = exec /\ finished' = finished /\ started' = started

(* An instance that takes the place of a row; a retry it has armed was armed *)
(* in that row or in its nested copy.                                        *)
Named(i) == i \in Sound /\ i.id \in DOMAIN rows /\ i.node = rows[i.id].node
WasArmed(i) ==
    \/ rows[i.id].armed
    \/ \E k \in DOMAIN exec.inst : exec.inst[k].id = i.id /\ exec.inst[k].armed
Known(i) == Named(i) /\ (i.armed => WasArmed(i))
Replaces(r) == Known(r) /\ rows' = [rows EXCEPT ![r.id] = r]

Queues(r) ==
    /\ Quiet /\ Replaces(r) /\ ~IsTerminalTask(r.st)
    /\ ~IsTerminalTask(rows[r.id].st) \/ rows[r.id].armed
Drops(r) == Over /\ Quiet /\ Replaces(r) /\ IsTerminalTask(r.st)

FailsTask(j) ==
    /\ ~Over /\ Named(j) /\ Failed(j.st) /\ started' = started
    /\ exec' \in Execs /\ exec'.inst = Sync(exec.inst, j) /\ exec'.var = exec.var
    /\ rows' = Put(rows, j)
    /\ \/ /\ j.armed /\ 1 < def.task[j.node].attempts
          /\ exec'.status = exec.status /\ finished' = finished
       \/ exec'.status = "FAILED" /\ finished' = finished + 1 /\ (j.armed => WasArmed(j))

Parks(i) ==
    /\ ~Over /\ Known(i) /\ i.st = "CANCELED" /\ "CANCELED" \in Results
    /\ exec' = SyncInstance(exec, i) /\ rows' = Put(rows, i)
    /\ finished' = finished /\ started' = started

Advances(ex, rs) == Stored(ex, rs) /\ Commit(Advance(Machine(ex, rs)))

Looks == exec.status # "none" /\ started' = started /\ Advances(exec, rows)
Completes(ex, rs, i) ==
    /\ ~Over /\ Known(i) /\ Done(i.st) /\ i.st \in Results \cup {"COMPLETED"}
    /\ ex = SyncInstance(exec, i) /\ started' = started /\ Advances(ex, rs)
    /\ \/ rs = Put(rows, i)
       \/ /\ rs = rows /\ Kind(i.node) = "WAIT" /\ rows[i.id].st = "IN_PROGRESS"
          /\ i.st = "COMPLETED" /\ i.out = rows[i.id].out

Settles(i) == Drops(i) \/ Parks(i) \/ (\E j : FailsTask(j)) \/ (\E ex, rs : Completes(ex, rs, i))

(* Who settles a task: a report, the end of its child, a signal, a deadline. *)
Reported(j) ==
    /\ held[j.id] > 0 \/ (Kind(j.node) = "HUMAN" /\ rows[j.id].st = "IN_PROGRESS")
    /\ held' = [held EXCEPT ![j.id] = IF @ > 0 THEN @ - 1 ELSE @]
    /\ j.st \in Results /\ j.child = rows[j.id].child
ChildEnded(j) ==
    /\ rows[j.id].child = "runs" /\ j.child = "ended" /\ j.out = rows[j.id].out
    /\ j.st \in {"COMPLETED", "FAILED"} /\ held' = held
Signalled(j) ==
    /\ \E k \in DOMAIN exec.inst : exec.inst[k].id = j.id /\ exec.inst[k].st = "IN_PROGRESS"
    /\ j.st = "COMPLETED" /\ held' = held
Elapsed(j) ==
    /\ Kind(j.node) = "WAIT" /\ rows[j.id].st = "IN_PROGRESS"
    /\ j.st = "COMPLETED" /\ j.out = rows[j.id].out /\ held' = held

LEMMA MachineIs ==
  ASSUME NEW ex, NEW rs, Stored(ex, rs)
  PROVE  LET m == Machine(ex, rs)
         IN  /\ m \in Machines /\ m.ex = ex /\ m.rows = rs /\ m.ended = 0 /\ m.pc = "advance"
             /\ m.todo = {} /\ m.skips = {}
  <1>1. ex \in Execs /\ rs \in Seq(Sound) /\ Numbered(ex.inst, rs)
    BY DEF Stored
  <1>2. PICK m : m = Machine(ex, rs)
    OBVIOUS
  <1>3. /\ m.ex = ex /\ m.rows = rs /\ m.ended = 0 /\ m.pc = "advance" /\ m.todo = {} /\ m.skips = {}
    BY <1>2 DEF Machine
  <1>4. m \in Records
    BY <1>1, <1>2 DEF Machine, Records
  <1>5. m \in Machines
    BY <1>1, <1>3, <1>4 DEF Machines
  <1> QED
    BY <1>2, <1>3, <1>5

LEMMA SyncTwice ==
  ASSUME NEW q \in Seq(Sound), NEW i \in Sound, NEW j \in Sound, j.id = i.id
  PROVE  Sync(Sync(q, i), j) = Sync(q, j)
  <1> DEFINE at == {k \in DOMAIN q : q[k].id = i.id}
  <1>1. CASE at = {}
    <2>1. Sync(q, i) = Append(q, i) /\ Sync(q, j) = Append(q, j)
      BY <1>1 DEF Sync
    <2>8. Append(q, i) \in Seq(Sound)
      OBVIOUS
    <2>2. PICK Q \in Seq(Sound) : Q = Append(q, i)
      BY <2>8
    <2>3. /\ DOMAIN Q = 1..(Len(q) + 1) /\ DOMAIN q = 1..Len(q) /\ Len(q) \in Nat
          /\ Q[Len(q) + 1] = i /\ \A k \in 1..Len(q) : Q[k] = q[k]
      BY <2>2
    <2>4. {k \in DOMAIN Q : Q[k].id = j.id} = {Len(q) + 1}
      BY <1>1, <2>3
    <2>5. Min({Len(q) + 1}) = Len(q) + 1
      <3>1. {Len(q) + 1} \subseteq Nat /\ {Len(q) + 1} # {}
        BY <2>3
      <3> QED
        BY <3>1, MinIn
    <2>6. Sync(Q, j) = [Q EXCEPT ![Len(q) + 1] = j]
      BY <2>4, <2>5 DEF Sync
    <2>7. [Append(q, i) EXCEPT ![Len(q) + 1] = j] = Append(q, j)
      BY AppendReplaced
    <2> QED
      BY <2>1, <2>2, <2>6, <2>7
  <1>2. CASE at # {}
    <2>1. at \subseteq Nat
      OBVIOUS
    <2>2. PICK p \in DOMAIN q : p = Min(at) /\ q[p].id = i.id
      BY <1>2, <2>1, MinIn
    <2>3. Sync(q, i) = [q EXCEPT ![p] = i] /\ Sync(q, j) = [q EXCEPT ![p] = j]
      BY <1>2, <2>2 DEF Sync
    <2>4. PICK Q : Q = [q EXCEPT ![p] = i]
      OBVIOUS
    <2>5. Q \in Seq(Sound) /\ DOMAIN Q = DOMAIN q /\ \A k \in DOMAIN q : Q[k] = IF k = p THEN i ELSE q[k]
      BY <2>4
    <2>6. {k \in DOMAIN Q : Q[k].id = j.id} = at
      BY <2>2, <2>5
    <2>7. Sync(Q, j) = [Q EXCEPT ![p] = j]
      BY <1>2, <2>2, <2>6 DEF Sync
    <2>8. [Q EXCEPT ![p] = j] = [q EXCEPT ![p] = j]
      BY <2>4, <2>5
    <2> QED
      BY <2>3, <2>4, <2>7, <2>8
  <1> QED
    BY <1>1, <1>2

(* The copies of one instance after sync_instance(). *)
LEMMA SyncNamed ==
  ASSUME Shape, NEW i, Named(i), NEW rs \in {rows, Put(rows, i)}
  PROVE  /\ Stored(SyncInstance(exec, i), rs) /\ Put(rows, i) = [rows EXCEPT ![i.id] = i]
         /\ SyncInstance(exec, i).inst = Sync(exec.inst, i)
         /\ SyncInstance(exec, i).status = exec.status /\ SyncInstance(exec, i).var = exec.var
  <1>1. /\ exec \in Execs /\ rows \in Seq(Sound) /\ exec.inst \in Seq(Sound) /\ Numbered(exec.inst, rows)
        /\ i \in Sound /\ i.id \in DOMAIN rows /\ i.node = rows[i.id].node
    BY DEF Shape, Stored, Execs, Named
  <1>2. Put(rows, i) = [rows EXCEPT ![i.id] = i]
    BY <1>1 DEF Put
  <1>3. PICK q \in Seq(Sound) : q = exec.inst
    BY <1>1
  <1>4. PICK r \in Seq(Sound) : r = rows
    BY <1>1
  <1>5. i.id \in 1..(Len(r) + 1)
    BY <1>1, <1>4
  <1>6. Sync(q, i) \in Seq(Sound) /\ Put(r, i) \in Seq(Sound) /\ Numbered(Sync(q, i), Put(r, i))
    <2>1. CASE \E p \in DOMAIN q : q[p].id = i.id
      BY <1>1, <1>3, <1>4, <2>1, SyncHeld
    <2>2. CASE ~\E p \in DOMAIN q : q[p].id = i.id
      BY <1>1, <1>3, <1>4, <1>5, <2>2, SyncOther
    <2> QED
      BY <2>1, <2>2
  <1>7. Numbered(Sync(q, i), r)
    <2>1. PICK R : R = Put(r, i)
      OBVIOUS
    <2>2. /\ DOMAIN R = DOMAIN r /\ \A k \in DOMAIN r : R[k].node = r[k].node
      BY <1>1, <1>2, <1>4, <2>1
    <2> QED
      BY <1>1, <1>4, <1>6, <2>1, <2>2 DEF Numbered
  <1>8. LET e == SyncInstance(exec, i)
        IN  e.inst = Sync(exec.inst, i) /\ e.status = exec.status /\ e.var = exec.var /\ e \in Execs
    BY <1>1, <1>3, <1>6, SyncFields
  <1> QED
    BY <1>2, <1>3, <1>4, <1>6, <1>7, <1>8 DEF Stored

(* handle_failure() on the stored execution, for a row that has failed. *)
LEMMA FailsNamed ==
  ASSUME Shape, ~Over, NEW i, Known(i), Failed(i.st), started' = started, NEW m \in Machines,
         m.ex.inst \in {exec.inst, Sync(exec.inst, i)}, m.rows \in {rows, Put(rows, i)},
         m.ex.status = exec.status, m.ex.var = exec.var, m.ended = 0,
         Commit(HandleFailure(m, i, def.task[i.node].attempts))
  PROVE  \E j : FailsTask(j)
  <1>1. /\ i \in Sound /\ i.id \in DOMAIN rows /\ i.node = rows[i.id].node /\ i.node \in Nodes
        /\ def \in Defs /\ rows \in Seq(Sound) /\ exec.inst \in Seq(Sound) /\ finished \in Nat
    BY DEF Shape, Known, Named, Sound, Record, Stored, Execs
  <1>2. Put(rows, i) = [rows EXCEPT ![i.id] = i]
    BY <1>1 DEF Put
  <1>3. DOMAIN m.rows = DOMAIN rows /\ m.rows[i.id].node = i.node /\ i.id \in 1..(Len(m.rows) + 1)
    <2>1. PICK R : R = [rows EXCEPT ![i.id] = i]
      OBVIOUS
    <2>2. R \in Seq(Sound) /\ DOMAIN R = DOMAIN rows /\ R[i.id] = i
      BY <1>1, <2>1
    <2>3. DOMAIN m.rows = DOMAIN rows /\ m.rows[i.id].node = i.node /\ m.rows \in Seq(Sound)
      BY <1>1, <1>2, <2>1, <2>2
    <2> QED
      BY <1>1, <2>3
  <1>4. PICK a \in Nat : a = def.task[i.node].attempts
    BY <1>1, TaskFacts
  <1>5. PICK k : k = HandleFailure(m, i, a)
    OBVIOUS
  <1>6. k \in Machines /\ \E j : Handled(m, k, i, j, a)
    <2>1. a <= def.task[i.node].attempts
      BY <1>4
    <2> QED
      BY <1>1, <1>3, <1>5, <2>1, HandleFacts
  <1>7. PICK j : Handled(m, k, i, j, a)
    BY <1>6
  <1>8. /\ j \in Sound /\ j.id = i.id /\ j.node = i.node /\ j.st = i.st
        /\ k.ex.inst = Sync(m.ex.inst, j) /\ k.rows = Put(m.rows, j) /\ k.pc = "silent"
        /\ k.ex.var = m.ex.var
    BY <1>7 DEF Handled
  <1>9. exec' = k.ex /\ rows' = k.rows /\ finished' = finished + k.ended
    BY <1>4, <1>5, <1>8 DEF Commit
  <1>10. Sync(m.ex.inst, j) = Sync(exec.inst, j)
    <2>1. PICK q \in Seq(Sound) : q = exec.inst
      BY <1>1
    <2>2. Sync(Sync(q, i), j) = Sync(q, j)
      BY <1>1, <1>8, SyncTwice
    <2> QED
      BY <2>1, <2>2
  <1>11. Put(m.rows, j) = Put(rows, j)
    <2>1. Put(m.rows, j) = [m.rows EXCEPT ![j.id] = j] /\ Put(rows, j) = [rows EXCEPT ![j.id] = j]
      BY <1>1, <1>3, <1>8 DEF Put
    <2>2. [[rows EXCEPT ![i.id] = i] EXCEPT ![i.id] = j] = [rows EXCEPT ![i.id] = j]
      BY <1>1
    <2> QED
      BY <1>2, <1>8, <2>1, <2>2
  <1>12. k.ex \in Execs /\ k.ended \in Nat
    BY <1>6, MachineFields
  <1>13. Named(j)
    BY <1>1, <1>8 DEF Named
  <1>14. \/ j.armed /\ 1 < def.task[j.node].attempts /\ k.ex.status = exec.status /\ k.ended = 0
         \/ k.ex.status = "FAILED" /\ k.ended = 1 /\ (j.armed => WasArmed(j))
    <2>1. CASE i.tries + 1 < a
      <3>1. i.tries \in Nat
        BY <1>1 DEF Sound, Record
      <3>2. 1 < def.task[j.node].attempts
        BY <1>4, <1>8, <2>1, <3>1
      <3> QED
        BY <1>7, <2>1, <3>2 DEF Handled
    <2>2. CASE ~(i.tries + 1 < a)
      <3>1. j = i /\ k.ex.status = "FAILED" /\ k.ended = 1
        BY <1>7, <2>2 DEF Handled
      <3> QED
        BY <3>1 DEF Known
    <2> QED
      BY <2>1, <2>2
  <1>15. finished + 0 = finished
    BY <1>1
  <1>16. FailsTask(j)
    BY <1>8, <1>9, <1>10, <1>11, <1>12, <1>13, <1>14, <1>15 DEF FailsTask
  <1> QED
    BY <1>16

(* on_task_terminal() for a row that has been written first. *)
LEMMA TaskTerminal ==
  ASSUME Shape, NEW i, Known(i), IsTerminalTask(i.st), i.st \in Results \cup {"COMPLETED", "FAILED"},
         started' = started, Commit(OnTaskTerminal(Put(rows, i), i))
  PROVE  Settles(i)
  <1>1. Named(i)
    BY DEF Known
  <1>2. PICK rs \in {rows, Put(rows, i)} : rs = Put(rows, i)
    OBVIOUS
  <1>3. /\ Stored(SyncInstance(exec, i), rs) /\ rs = [rows EXCEPT ![i.id] = i]
        /\ SyncInstance(exec, i).inst = Sync(exec.inst, i)
        /\ SyncInstance(exec, i).status = exec.status /\ SyncInstance(exec, i).var = exec.var
    BY <1>1, <1>2, SyncNamed
  <1>4. finished \in Nat
    BY DEF Shape
  <1>5. CASE Over
    <2>1. PICK k : k = [Machine(exec, rs) EXCEPT !.pc = "done"]
      OBVIOUS
    <2>2. k.ex = exec /\ k.rows = rs /\ k.ended = 0 /\ k.pc = "done"
      BY <2>1 DEF Machine
    <2>3. Commit(k)
      BY <1>2, <1>5, <2>1 DEF OnTaskTerminal
    <2>4. exec' = exec /\ rows' = rs /\ finished' = finished
      BY <1>4, <2>2, <2>3 DEF Commit
    <2>5. Drops(i)
      BY <1>3, <1>5, <2>4 DEF Drops, Quiet, Replaces
    <2> QED
      BY <2>5 DEF Settles
  <1>6. CASE ~Over
    <2>1. PICK ex : ex = SyncInstance(exec, i)
      OBVIOUS
    <2>2. PICK m : m = Machine(ex, rs)
      OBVIOUS
    <2>3. m \in Machines /\ m.ex = ex /\ m.rows = rs /\ m.ended = 0
      BY <1>3, <2>1, <2>2, MachineIs
    <2>4. Commit(ProcessTerminal(exec, rs, i))
      BY <1>2, <1>6 DEF OnTaskTerminal
    <2>5. CASE Failed(i.st)
      <3>1. Commit(HandleFailure(m, i, def.task[i.node].attempts))
        BY <2>1, <2>2, <2>4, <2>5 DEF ProcessTerminal, Failed, Done
      <3>2. /\ m.ex.inst \in {exec.inst, Sync(exec.inst, i)} /\ m.rows \in {rows, Put(rows, i)}
            /\ m.ex.status = exec.status /\ m.ex.var = exec.var
        BY <1>2, <1>3, <2>1, <2>3
      <3>3. \E j : FailsTask(j)
        BY <1>6, <2>3, <2>5, <3>1, <3>2, FailsNamed
      <3> QED
        BY <3>3 DEF Settles
    <2>6. CASE Done(i.st)
      <3>1. Commit(Advance(m))
        BY <2>1, <2>2, <2>4, <2>6 DEF ProcessTerminal, Failed, Done
      <3>2. i.st \in Results \cup {"COMPLETED"}
        BY <2>6 DEF Done
      <3>3. Completes(ex, rs, i)
        BY <1>2, <1>3, <1>6, <2>1, <2>2, <2>6, <3>1, <3>2 DEF Completes, Advances
      <3> QED
        BY <3>3 DEF Settles
    <2>7. CASE ~Failed(i.st) /\ ~Done(i.st)
      <3>1. PICK k : k = [m EXCEPT !.pc = "done"]
        OBVIOUS
      <3>2. Commit(k)
        BY <2>1, <2>2, <2>4, <2>7, <3>1 DEF ProcessTerminal
      <3>3. k.ex = ex /\ k.rows = rs /\ k.ended = 0 /\ k.pc = "done"
        BY <2>3, <3>1, PcFacts DEF Same
      <3>4. exec' = ex /\ rows' = rs /\ finished' = finished
        BY <1>4, <3>2, <3>3 DEF Commit
      <3>5. i.st = "CANCELED" /\ "CANCELED" \in Results
        BY <2>7, WorkflowAssumption DEF Failed, Done
      <3>6. Parks(i)
        BY <1>2, <1>6, <2>1, <3>4, <3>5 DEF Parks
      <3> QED
        BY <3>6 DEF Settles
    <2> QED
      BY <2>5, <2>6, <2>7
  <1> QED
    BY <1>5, <1>6

-----------------------------------------------------------------------------
(* The actions, one by one. *)

Idle == Quiet /\ rows' = rows
Starts(ex) ==
    /\ started = 0 /\ started' = 1 /\ Advances(ex, rows)
    /\ ex = [status |-> "RUNNING", inst |-> <<>>, var |-> NoValue]
Resumes(ex) ==
    /\ exec.status = "PAUSED" /\ ex = [exec EXCEPT !.status = "RUNNING"]
    /\ started' = started /\ Advances(ex, rows)

(* retry() and rerun() keep the instances, restart() drops the nested ones. *)
Aligned(ex, rs) ==
    /\ DOMAIN ex.inst = DOMAIN exec.inst /\ DOMAIN rs = DOMAIN rows
    /\ \A k \in DOMAIN exec.inst : ex.inst[k].id = exec.inst[k].id /\ ex.inst[k].node = exec.inst[k].node
Covers(r, rs) == \A i \in DOMAIN r : i \in DOMAIN rs /\ rs[i].node = r[i].node
Revives(ex, rs) ==
    /\ Covers(rows, rs) /\ exec.status # "none" /\ ex.status = "RUNNING" /\ Advances(ex, rs)
    /\ Ops[def] \cap {"retry", "restart", "rerun"} # {}
    /\ started' = IF IsTerminal(exec.status) /\ Advance(Machine(ex, rs)).pc # "lost"
                  THEN started + 1 ELSE started
    /\ "restart" \notin Ops[def] => Aligned(ex, rs)

Steps ==
    \/ Idle \/ Pause \/ Terminate \/ Looks
    \/ \E r : Queues(r) \/ Settles(r)
    \/ \E ex : Starts(ex) \/ Resumes(ex)
    \/ \E ex, rs : Revives(ex, rs)

LEMMA RowFacts ==
  ASSUME Shape, NEW i \in DOMAIN rows
  PROVE  /\ rows[i] \in Sound /\ rows[i] \in Record /\ InBudget(rows[i]) /\ rows[i].id = i
         /\ rows[i].node \in Nodes /\ rows \in Seq(Sound) /\ def \in Defs
  BY DEF Shape, Stored, Numbered, Sound, Record

LEMMA CopyFacts ==
  ASSUME Shape, NEW k \in DOMAIN exec.inst
  PROVE  LET i == exec.inst[k]
         IN  /\ i \in Sound /\ i \in Record /\ InBudget(i) /\ i.id \in DOMAIN rows
             /\ i.node = rows[i.id].node /\ i.node \in Nodes /\ exec.inst \in Seq(Sound) /\ exec \in Execs
  BY DEF Shape, Stored, Numbered, Sound, Record, Execs

(* A row with another status, as the workers and the sweep make them. *)
LEMMA QueueStep ==
  ASSUME Shape, NEW i \in DOMAIN rows, NEW r \in Sound, Quiet, r.id = i, r.node = rows[i].node,
         r.armed => rows[i].armed, ~IsTerminalTask(r.st), rows' = [rows EXCEPT ![i] = r],
         ~IsTerminalTask(rows[i].st) \/ rows[i].armed
  PROVE  Queues(r)
  BY DEF Queues, Replaces, Known, Named, WasArmed

LEMMA ClaimStep ==
  ASSUME Shape, NEW i \in DOMAIN rows, Claim(i)
  PROVE  Steps
  <1>1. /\ rows[i] \in Sound /\ rows[i] \in Record /\ InBudget(rows[i]) /\ rows[i].id = i
        /\ rows \in Seq(Sound)
    BY RowFacts
  <1>2. PICK r : r = [rows[i] EXCEPT !.st = "IN_PROGRESS", !.due = TRUE]
    OBVIOUS
  <1>3. /\ r \in Record /\ r.id = i /\ r.node = rows[i].node /\ r.armed = rows[i].armed
        /\ r.st = "IN_PROGRESS" /\ r.child = rows[i].child /\ r.tries = rows[i].tries
    BY <1>1, <1>2 DEF Record, TaskStatus
  <1>4. Kind(r.node) = "SIMPLE" /\ rows[i].st = "SCHEDULED" /\ Quiet
    BY <1>3 DEF Claim, Kind, Quiet
  <1>5. r \in Sound
    BY <1>1, <1>3, <1>4 DEF Sound, InBudget, Kind
  <1>6. rows' = [rows EXCEPT ![i] = r]
    BY <1>1, <1>2 DEF Claim
  <1>7. Queues(r)
    BY <1>3, <1>4, <1>5, <1>6, QueueStep DEF IsTerminalTask
  <1> QED
    BY <1>7 DEF Steps

LEMMA RequeueStep ==
  ASSUME Shape, NEW i \in DOMAIN rows, Requeue(i)
  PROVE  Steps
  <1>1. /\ rows[i] \in Sound /\ rows[i] \in Record /\ InBudget(rows[i]) /\ rows[i].id = i
        /\ rows \in Seq(Sound)
    BY RowFacts
  <1>2. PICK r : r = [rows[i] EXCEPT !.st = "SCHEDULED", !.due = FALSE]
    OBVIOUS
  <1>3. /\ r \in Record /\ r.id = i /\ r.node = rows[i].node /\ r.armed = rows[i].armed
        /\ r.st = "SCHEDULED" /\ r.child = rows[i].child /\ r.tries = rows[i].tries
    BY <1>1, <1>2 DEF Record, TaskStatus
  <1>4. rows[i].st = "IN_PROGRESS" /\ Quiet
    BY DEF Requeue, Quiet
  <1>5. r \in Sound
    BY <1>1, <1>3 DEF Sound, InBudget
  <1>6. rows' = [rows EXCEPT ![i] = r]
    BY <1>1, <1>2 DEF Requeue
  <1>7. Queues(r)
    BY <1>3, <1>4, <1>5, <1>6, QueueStep DEF IsTerminalTask
  <1> QED
    BY <1>7 DEF Steps

LEMMA SweepRetriesStep ==
  ASSUME Shape, NEW i \in DOMAIN rows, SweepRetries(i)
  PROVE  Steps
  <1>1. /\ rows[i] \in Sound /\ rows[i] \in Record /\ InBudget(rows[i]) /\ rows[i].id = i
        /\ rows \in Seq(Sound)
    BY RowFacts
  <1>2. PICK r : r = [rows[i] EXCEPT !.st = "SCHEDULED", !.armed = FALSE, !.out = NoValue]
    OBVIOUS
  <1>3. /\ r \in Record /\ r.id = i /\ r.node = rows[i].node /\ r.armed = FALSE
        /\ r.st = "SCHEDULED" /\ r.child = rows[i].child /\ r.tries = rows[i].tries
    BY <1>1, <1>2 DEF Record, TaskStatus, Outs
  <1>4. rows[i].armed /\ Quiet
    BY DEF SweepRetries, Quiet
  <1>5. r \in Sound
    BY <1>1, <1>3 DEF Sound, InBudget
  <1>6. rows' = [rows EXCEPT ![i] = r]
    BY <1>1, <1>2 DEF SweepRetries
  <1>7. Queues(r)
    BY <1>3, <1>4, <1>5, <1>6, QueueStep DEF IsTerminalTask
  <1> QED
    BY <1>7 DEF Steps

(* A result: the row is written, then the execution is told. *)
LEMMA SubmitResultStep ==
  ASSUME Shape, NEW i \in DOMAIN rows, NEW st \in Results, NEW out \in Outs, SubmitResult(i, st, out)
  PROVE  \E j : Settles(j) /\ Reported(j)
  <1>1. /\ rows[i] \in Sound /\ rows[i] \in Record /\ InBudget(rows[i]) /\ rows[i].id = i
    BY RowFacts
  <1>2. PICK j : j = [rows[i] EXCEPT !.st = st, !.out = out]
    OBVIOUS
  <1>3. st \in TaskStatus /\ IsTerminalTask(st)
    BY WorkflowAssumption DEF TaskStatus, IsTerminalTask
  <1>4. /\ j \in Record /\ j.id = i /\ j.node = rows[i].node /\ j.armed = rows[i].armed
        /\ j.st = st /\ j.child = rows[i].child /\ j.tries = rows[i].tries
    BY <1>1, <1>2, <1>3 DEF Record
  <1>5. j \in Sound
    BY <1>1, <1>3, <1>4 DEF Sound, InBudget, IsTerminalTask
  <1>6. Known(j)
    BY <1>4, <1>5 DEF Known, Named, WasArmed
  <1>7. Commit(OnTaskTerminal(Put(rows, j), j)) /\ started' = started
    BY <1>2 DEF SubmitResult
  <1>8. Settles(j)
    BY <1>3, <1>4, <1>6, <1>7, TaskTerminal
  <1>9. Reported(j)
    BY <1>4 DEF SubmitResult, Reported, Kind
  <1> QED
    BY <1>8, <1>9

LEMMA ChildEndsStep ==
  ASSUME Shape, NEW i \in DOMAIN rows, NEW st \in {"COMPLETED", "FAILED"}, ChildEnds(i, st)
  PROVE  \E j : Settles(j) /\ ChildEnded(j)
  <1>1. /\ rows[i] \in Sound /\ rows[i] \in Record /\ InBudget(rows[i]) /\ rows[i].id = i
    BY RowFacts
  <1>2. PICK j : j = [rows[i] EXCEPT !.st = st, !.child = "ended"]
    OBVIOUS
  <1>3. st \in TaskStatus /\ IsTerminalTask(st)
    BY DEF TaskStatus, IsTerminalTask
  <1>4. /\ j \in Record /\ j.id = i /\ j.node = rows[i].node /\ j.armed = rows[i].armed
        /\ j.st = st /\ j.tries = rows[i].tries /\ j.child = "ended" /\ j.out = rows[i].out
    BY <1>1, <1>2, <1>3 DEF Record
  <1>5. rows[i].child = "runs"
    BY DEF ChildEnds
  <1>6. j \in Sound
    BY <1>1, <1>3, <1>4, <1>5 DEF Sound, InBudget, IsTerminalTask
  <1>7. Known(j)
    BY <1>4, <1>6 DEF Known, Named, WasArmed
  <1>8. Commit(OnTaskTerminal(Put(rows, j), j)) /\ started' = started
    BY <1>2 DEF ChildEnds
  <1>9. Settles(j)
    BY <1>3, <1>4, <1>7, <1>8, TaskTerminal
  <1>10. ChildEnded(j)
    BY <1>4, <1>5 DEF ChildEnds, ChildEnded
  <1> QED
    BY <1>9, <1>10

(* A nested copy that an operator completes. *)
LEMMA SettlesCopy ==
  ASSUME Shape, NEW k \in DOMAIN exec.inst, NEW j \in Record, j.id = exec.inst[k].id,
         j.node = exec.inst[k].node, j.armed = exec.inst[k].armed, j.child = exec.inst[k].child,
         j.tries = exec.inst[k].tries, IsTerminalTask(j.st), j.st \in Results \cup {"COMPLETED", "FAILED"},
         Commit(OnTaskTerminal(Put(rows, j), j)), started' = started
  PROVE  Settles(j)
  <1>1. /\ InBudget(exec.inst[k]) /\ exec.inst[k].id \in DOMAIN rows
        /\ exec.inst[k].node = rows[exec.inst[k].id].node
    BY CopyFacts
  <1>2. j \in Sound
    BY <1>1 DEF Sound, InBudget, IsTerminalTask
  <1>3. Known(j)
    BY <1>1, <1>2 DEF Known, Named, WasArmed
  <1> QED
    BY <1>3, TaskTerminal

LEMMA SignalStep ==
  ASSUME Shape, NEW n, Signal(n)
  PROVE  \E j : Settles(j) /\ Signalled(j)
  <1>1. PICK at : at = {k \in DOMAIN exec.inst : exec.inst[k].node = n /\ exec.inst[k].st = "IN_PROGRESS"}
    OBVIOUS
  <1>2. exec.inst \in Seq(Sound)
    BY DEF Shape, Stored, Execs
  <1>3. at # {} /\ at \subseteq Nat
    BY <1>1, <1>2 DEF Signal
  <1>4. PICK k \in DOMAIN exec.inst : k = Min(at)
    BY <1>1, <1>3, MinIn
  <1>5. PICK j : j = [exec.inst[k] EXCEPT !.st = "COMPLETED"]
    OBVIOUS
  <1>6. Commit(OnTaskTerminal(Put(rows, j), j)) /\ started' = started
    BY <1>1, <1>4, <1>5 DEF Signal
  <1>7. exec.inst[k] \in Record
    BY CopyFacts
  <1>8. /\ j \in Record /\ j.id = exec.inst[k].id /\ j.node = exec.inst[k].node
        /\ j.armed = exec.inst[k].armed /\ j.child = exec.inst[k].child
        /\ j.tries = exec.inst[k].tries /\ j.st = "COMPLETED"
    BY <1>5, <1>7 DEF Record, TaskStatus
  <1>9. Settles(j)
    BY <1>6, <1>8, SettlesCopy DEF IsTerminalTask
  <1>10. exec.inst[k].st = "IN_PROGRESS"
    BY <1>1, <1>3, <1>4, MinIn
  <1>11. Signalled(j)
    BY <1>8, <1>10 DEF Signal, Signalled
  <1> QED
    BY <1>9, <1>11

LEMMA QueueUpdateStep ==
  ASSUME Shape, NEW n, NEW st \in Results, NEW out \in Outs, QueueUpdate(n, st, out)
  PROVE  \E j : Settles(j)
  <1>1. PICK i \in FindInstance(exec, n) :
             Commit(OnTaskTerminal(Put(rows, [i EXCEPT !.st = st, !.out = out]),
                                   [i EXCEPT !.st = st, !.out = out]))
    BY DEF QueueUpdate
  <1>2. PICK k \in DOMAIN exec.inst : i = exec.inst[k]
    BY DEF FindInstance
  <1>3. PICK j : j = [exec.inst[k] EXCEPT !.st = st, !.out = out]
    OBVIOUS
  <1>4. Commit(OnTaskTerminal(Put(rows, j), j)) /\ started' = started
    BY <1>1, <1>2, <1>3 DEF QueueUpdate
  <1>5. exec.inst[k] \in Record
    BY CopyFacts
  <1>6. st \in TaskStatus /\ IsTerminalTask(st)
    BY WorkflowAssumption DEF TaskStatus, IsTerminalTask
  <1>7. /\ j \in Record /\ j.id = exec.inst[k].id /\ j.node = exec.inst[k].node
        /\ j.armed = exec.inst[k].armed /\ j.child = exec.inst[k].child
        /\ j.tries = exec.inst[k].tries /\ j.st = st
    BY <1>3, <1>5, <1>6 DEF Record
  <1> QED
    BY <1>4, <1>6, <1>7, SettlesCopy

(* The deadline of a timed WAIT completes its nested copy, not its row. *)
LEMMA WaitTimeoutStep ==
  ASSUME Shape, NEW i \in DOMAIN rows, SweepTimeouts(i), Kind(rows[i].node) = "WAIT"
  PROVE  Idle \/ \E j : Settles(j) /\ Elapsed(j)
  <1>1. rows[i] \in Sound /\ rows[i] \in Record /\ InBudget(rows[i]) /\ rows[i].id = i
    BY RowFacts
  <1>2. PICK j : j = [rows[i] EXCEPT !.st = "COMPLETED"]
    OBVIOUS
  <1>3. /\ j \in Record /\ j.id = i /\ j.node = rows[i].node /\ j.armed = rows[i].armed
        /\ j.st = "COMPLETED" /\ j.child = rows[i].child /\ j.tries = rows[i].tries
        /\ j.out = rows[i].out
    BY <1>1, <1>2 DEF Record, TaskStatus
  <1>4. j \in Sound
    BY <1>1, <1>3 DEF Sound, InBudget
  <1>5. Known(j)
    BY <1>3, <1>4 DEF Known, Named, WasArmed
  <1>6. /\ Commit(OnTaskTerminal(rows, j)) /\ started' = started /\ rows[i].st = "IN_PROGRESS"
        /\ finished \in Nat
    BY <1>2 DEF SweepTimeouts, HandleTimeout, Kind, Shape
  <1>7. CASE Over
    <2>1. PICK k : k = [Machine(exec, rows) EXCEPT !.pc = "done"]
      OBVIOUS
    <2>2. k.ex = exec /\ k.rows = rows /\ k.ended = 0 /\ k.pc = "done"
      BY <2>1 DEF Machine
    <2>3. Commit(k)
      BY <1>6, <1>7, <2>1 DEF OnTaskTerminal
    <2>4. Idle
      BY <1>6, <2>2, <2>3 DEF Commit, Idle, Quiet
    <2> QED
      BY <2>4
  <1>8. CASE ~Over
    <2>1. PICK rs \in {rows, Put(rows, j)} : rs = rows
      OBVIOUS
    <2>2. PICK ex : ex = SyncInstance(exec, j)
      OBVIOUS
    <2>3. Stored(ex, rs)
      BY <1>5, <2>1, <2>2, SyncNamed DEF Known
    <2>4. Commit(Advance(Machine(ex, rs)))
      BY <1>3, <1>6, <1>8, <2>1, <2>2 DEF OnTaskTerminal, ProcessTerminal, Failed, Done
    <2>5. Completes(ex, rs, j)
      BY <1>3, <1>5, <1>6, <1>8, <2>1, <2>2, <2>3, <2>4 DEF Completes, Advances, Done
    <2>6. Settles(j)
      BY <2>5 DEF Settles
    <2>7. Elapsed(j)
      BY <1>3, <1>6 DEF SweepTimeouts, Elapsed, Kind
    <2> QED
      BY <2>6, <2>7
  <1> QED
    BY <1>7, <1>8

LEMMA TimeoutStep ==
  ASSUME Shape, NEW i \in DOMAIN rows, SweepTimeouts(i), Kind(rows[i].node) # "WAIT"
  PROVE  Idle \/ \E j : Drops(j) \/ FailsTask(j)
  <1>1. /\ rows[i] \in Sound /\ rows[i] \in Record /\ InBudget(rows[i]) /\ rows[i].id = i
        /\ rows[i].node \in Nodes /\ def \in Defs
    BY RowFacts
  <1>2. PICK j : j = [rows[i] EXCEPT !.st = "TIMED_OUT"]
    OBVIOUS
  <1>3. /\ j \in Record /\ j.id = i /\ j.node = rows[i].node /\ j.armed = rows[i].armed
        /\ j.st = "TIMED_OUT" /\ j.child = rows[i].child /\ j.tries = rows[i].tries
    BY <1>1, <1>2 DEF Record, TaskStatus
  <1>4. j \in Sound
    BY <1>1, <1>3 DEF Sound, InBudget
  <1>5. Known(j) /\ Named(j)
    BY <1>3, <1>4 DEF Known, Named, WasArmed
  <1>6. PICK s : s = [Machine(exec, rows) EXCEPT !.pc = "done"]
    OBVIOUS
  <1>7. PICK t : t = def.task[rows[i].node]
    OBVIOUS
  <1>8. PICK k : k = HandleTimeout(i)
    OBVIOUS
  <1>9. k = CASE t.timeout = "ALERT_ONLY" -> s
              [] t.timeout # "ALERT_ONLY" /\ Over -> [s EXCEPT !.rows = Put(rows, j)]
              [] t.timeout = "RETRY" /\ ~Over -> HandleFailure(Machine(exec, rows), j, t.attempts)
              [] OTHER -> FailWorkflow(j)
    BY <1>2, <1>6, <1>7, <1>8 DEF HandleTimeout, Kind
  <1>10. Commit(k) /\ started' = started /\ finished \in Nat
    BY <1>8 DEF SweepTimeouts, Shape
  <1>11. /\ s.ex = exec /\ s.rows = rows /\ s.ended = 0 /\ s.pc = "done"
         /\ DOMAIN s = {"ex", "rows", "skips", "todo", "ended", "pc"}
    BY <1>6 DEF Machine
  <1>12. Put(rows, j) = [rows EXCEPT ![j.id] = j]
    BY <1>5 DEF Named, Put
  <1>13. CASE t.timeout = "ALERT_ONLY"
    <2>1. k = s
      BY <1>9, <1>13
    <2>2. Idle
      BY <1>10, <1>11, <2>1 DEF Commit, Idle, Quiet
    <2> QED
      BY <2>2
  <1>14. CASE t.timeout # "ALERT_ONLY" /\ Over
    <2>1. k = [s EXCEPT !.rows = Put(rows, j)]
      BY <1>9, <1>14
    <2>2. k.ex = exec /\ k.rows = Put(rows, j) /\ k.ended = 0 /\ k.pc = "done"
      BY <1>11, <2>1
    <2>3. Quiet /\ rows' = [rows EXCEPT ![j.id] = j]
      BY <1>10, <1>12, <2>2 DEF Commit, Quiet
    <2>4. Drops(j)
      BY <1>3, <1>5, <1>14, <2>3 DEF Drops, Replaces, IsTerminalTask
    <2> QED
      BY <2>4
  <1>15. CASE t.timeout = "RETRY" /\ ~Over
    <2>1. k = HandleFailure(Machine(exec, rows), j, def.task[j.node].attempts)
      BY <1>3, <1>7, <1>9, <1>15
    <2>2. PICK m : m = Machine(exec, rows)
      OBVIOUS
    <2>3. m \in Machines /\ m.ex = exec /\ m.rows = rows /\ m.ended = 0
      BY <2>2, MachineIs DEF Shape
    <2>4. Commit(HandleFailure(m, j, def.task[j.node].attempts))
      BY <1>10, <2>1, <2>2
    <2>5. Failed(j.st)
      BY <1>3 DEF Failed
    <2>6. \E l : FailsTask(l)
      BY <1>5, <1>10, <1>15, <2>3, <2>4, <2>5, FailsNamed
    <2> QED
      BY <2>6
  <1>16. CASE t.timeout \notin {"ALERT_ONLY", "RETRY"} /\ ~Over
    <2>1. k = FailWorkflow(j)
      BY <1>9, <1>16
    <2>2. PICK f : f = [exec EXCEPT !.status = "FAILED"]
      OBVIOUS
    <2>3. f \in Execs /\ f.inst = exec.inst /\ f.var = exec.var /\ f.status = "FAILED" /\ exec.inst \in Seq(Sound)
      BY <2>2 DEF Shape, Stored, Execs, Statuses
    <2>4. PICK e : e = SyncInstance(f, j)
      OBVIOUS
    <2>5. /\ e.inst = Sync(exec.inst, j) /\ e.var = exec.var /\ e.status = "FAILED"
          /\ (Sync(exec.inst, j) \in Seq(Sound) => e \in Execs)
      BY <1>4, <2>3, <2>4, SyncFields
    <2>6. Sync(exec.inst, j) \in Seq(Sound)
      <3>1. PICK rs \in {rows, Put(rows, j)} : rs = rows
        OBVIOUS
      <3>2. Stored(SyncInstance(exec, j), rs) /\ SyncInstance(exec, j).inst = Sync(exec.inst, j)
        BY <1>5, SyncNamed
      <3> QED
        BY <3>2 DEF Stored, Execs
    <2>7. k = [Machine(e, Put(rows, j)) EXCEPT !.pc = "done", !.ended = 1]
      BY <2>1, <2>2, <2>4 DEF FailWorkflow
    <2>8. k.ex = e /\ k.rows = Put(rows, j) /\ k.ended = 1 /\ k.pc = "done"
      BY <2>7 DEF Machine
    <2>9. exec' = e /\ rows' = Put(rows, j) /\ finished' = finished + 1
      BY <1>10, <2>8 DEF Commit
    <2>10. FailsTask(j)
      BY <1>3, <1>5, <1>10, <1>16, <2>5, <2>6, <2>9 DEF FailsTask, Failed, Known
    <2> QED
      BY <2>10
  <1> QED
    BY <1>13, <1>14, <1>15, <1>16

LEMMA StartStep ==
  ASSUME Shape, Start
  PROVE  Steps
  <1>1. PICK ex : ex = [status |-> "RUNNING", inst |-> <<>>, var |-> NoValue]
    OBVIOUS
  <1>2. ex \in Execs /\ ex.inst = <<>>
    BY <1>1 DEF Execs, Statuses, Outs
  <1>3. Stored(ex, rows)
    BY <1>2 DEF Shape, Stored, Numbered
  <1>4. Commit(Advance(Machine(ex, rows))) /\ started = 0 /\ started' = 1
    BY <1>1 DEF Start
  <1>5. Starts(ex)
    BY <1>1, <1>3, <1>4 DEF Starts, Advances
  <1> QED
    BY <1>5 DEF Steps

LEMMA LooksStep ==
  ASSUME Shape, SweepAdvance \/ Reconcile
  PROVE  Steps
  <1>1. Commit(Advance(Machine(exec, rows))) /\ started' = started /\ exec.status # "none"
    BY DEF SweepAdvance, Reconcile, Call
  <1>2. Looks
    BY <1>1 DEF Looks, Advances, Shape
  <1> QED
    BY <1>2 DEF Steps

LEMMA ResumeStep ==
  ASSUME Shape, Resume
  PROVE  Steps
  <1>1. PICK ex : ex = [exec EXCEPT !.status = "RUNNING"]
    OBVIOUS
  <1>2. ex \in Execs /\ ex.inst = exec.inst
    BY <1>1 DEF Shape, Stored, Execs, Statuses
  <1>3. Stored(ex, rows)
    BY <1>2 DEF Shape, Stored
  <1>4. exec.status = "PAUSED" /\ Commit(Advance(Machine(ex, rows)))
    BY <1>1 DEF Resume, Revive
  <1>5. started' = started
    BY <1>4 DEF Resume, Revive, IsTerminal
  <1>6. Resumes(ex)
    BY <1>1, <1>3, <1>4, <1>5 DEF Resumes, Advances
  <1> QED
    BY <1>6 DEF Steps

(* The callers that bring an execution back. *)
LEMMA ReviveStep ==
  ASSUME Shape, NEW ex \in Execs, NEW rs, Revive(ex, rs), exec.status # "none",
         Ops[def] \cap {"retry", "restart", "rerun"} # {}, rs \in Seq(Sound), Numbered(ex.inst, rs),
         Covers(rows, rs),
         "restart" \notin Ops[def] => Aligned(ex, rs)
  PROVE  Steps
  <1>1. PICK e : e = [ex EXCEPT !.status = "RUNNING"]
    OBVIOUS
  <1>2. e \in Execs /\ e.inst = ex.inst /\ e.status = "RUNNING"
    BY <1>1 DEF Execs, Statuses
  <1>3. Stored(e, rs)
    BY <1>2 DEF Stored
  <1>4. PICK m : m = Advance(Machine(e, rs))
    OBVIOUS
  <1>5. /\ Commit(m)
        /\ started' = IF IsTerminal(exec.status) /\ m.pc # "lost" THEN started + 1 ELSE started
    BY <1>1, <1>4 DEF Revive
  <1>6. "restart" \notin Ops[def] => Aligned(e, rs)
    BY <1>2 DEF Aligned
  <1>7. Advances(e, rs)
    BY <1>3, <1>4, <1>5 DEF Advances
  <1>8. Revives(e, rs)
    BY <1>2, <1>4, <1>5, <1>6, <1>7 DEF Revives
  <1> QED
    BY <1>8 DEF Steps

LEMMA RestartStep ==
  ASSUME Shape, Restart
  PROVE  Steps
  <1>1. PICK ex : ex = [exec EXCEPT !.inst = <<>>]
    OBVIOUS
  <1>2. ex \in Execs /\ ex.inst = <<>> /\ rows \in Seq(Sound) /\ Numbered(exec.inst, rows)
    <2>1. <<>> \in Seq(Sound)
      OBVIOUS
    <2> QED
      BY <1>1, <2>1 DEF Shape, Stored, Execs
  <1>3. Numbered(ex.inst, rows)
    BY <1>2 DEF Numbered
  <1>4. Revive(ex, rows) /\ "restart" \in Ops[def] /\ exec.status # "none"
    BY <1>1 DEF Restart, Call
  <1>5. Ops[def] \cap {"retry", "restart", "rerun"} # {}
    BY <1>4
  <1>6. Covers(rows, rows)
    BY DEF Covers
  <1> QED
    BY <1>2, <1>3, <1>4, <1>5, <1>6, ReviveStep

LEMMA ResetFacts ==
  ASSUME Shape, NEW k \in DOMAIN exec.inst
  PROVE  LET i == Reset(exec.inst[k])
         IN  /\ i \in Sound /\ i.id = exec.inst[k].id /\ i.node = exec.inst[k].node /\ ~i.armed
  <1>1. exec.inst[k] \in Record /\ InBudget(exec.inst[k]) /\ exec.inst[k].node \in Nodes /\ def \in Defs
    BY CopyFacts DEF Shape
  <1>2. PICK i : i = Reset(exec.inst[k])
    OBVIOUS
  <1>3. /\ i \in Record /\ i.id = exec.inst[k].id /\ i.node = exec.inst[k].node /\ i.armed = FALSE
        /\ i.tries = 0 /\ i.st = "SCHEDULED" /\ i.child = exec.inst[k].child
    BY <1>1, <1>2 DEF Reset, Record, TaskStatus, Outs
  <1>4. 0 < def.task[i.node].attempts
    BY <1>1, <1>3, TaskFacts
  <1>5. InBudget(i)
    BY <1>1, <1>3, <1>4 DEF InBudget
  <1> QED
    BY <1>2, <1>3, <1>5 DEF Sound

LEMMA RerunStep ==
  ASSUME Shape, NEW n, Rerun(n)
  PROVE  Steps
  <1>1. PICK c \in FindInstance(exec, n) : Revive(SyncInstance(exec, Reset(c)), Put(rows, Reset(c)))
    BY DEF Rerun
  <1>2. PICK k \in DOMAIN exec.inst : c = exec.inst[k]
    BY DEF FindInstance
  <1>3. PICK i : i = Reset(c)
    OBVIOUS
  <1>4. i \in Sound /\ i.id = exec.inst[k].id /\ i.node = exec.inst[k].node
    BY <1>2, <1>3, ResetFacts
  <1>5. /\ exec.inst[k].id \in DOMAIN rows /\ exec.inst[k].node = rows[exec.inst[k].id].node
        /\ exec.inst \in Seq(Sound) /\ exec \in Execs
    BY CopyFacts
  <1>6. Named(i)
    BY <1>4, <1>5 DEF Named
  <1>7. PICK rs \in {rows, Put(rows, i)} : rs = Put(rows, i)
    OBVIOUS
  <1>8. PICK ex : ex = SyncInstance(exec, i)
    OBVIOUS
  <1>9. Stored(ex, rs) /\ rs = [rows EXCEPT ![i.id] = i] /\ ex.inst = Sync(exec.inst, i)
    BY <1>6, <1>7, <1>8, SyncNamed
  <1>10. PICK q \in Seq(Sound) : q = exec.inst
    BY <1>5
  <1>11. PICK r \in Seq(Sound) : r = rows
    BY DEF Shape, Stored
  <1>12. Sync(q, i) = [q EXCEPT ![k] = i]
    <2>1. Numbered(q, r) /\ k \in DOMAIN q /\ q[k].id = i.id /\ r[i.id].node = i.node
      BY <1>4, <1>5, <1>10, <1>11 DEF Shape, Stored
    <2> QED
      BY <1>4, <2>1, SyncHeld
  <1>13. Aligned(ex, rs)
    <2>1. PICK Q : Q = [q EXCEPT ![k] = i]
      OBVIOUS
    <2>2. DOMAIN Q = DOMAIN q /\ \A l \in DOMAIN q : Q[l] = IF l = k THEN i ELSE q[l]
      BY <1>10, <2>1
    <2>3. \A l \in DOMAIN q : Q[l].id = q[l].id /\ Q[l].node = q[l].node
      BY <1>4, <1>10, <2>2
    <2>4. DOMAIN rs = DOMAIN rows
      BY <1>9
    <2> QED
      BY <1>9, <1>10, <1>12, <2>1, <2>2, <2>3, <2>4 DEF Aligned
  <1>14. Revive(ex, rs) /\ "rerun" \in Ops[def] /\ exec.status # "none"
    BY <1>1, <1>3, <1>7, <1>8 DEF Rerun, Call
  <1>15. Ops[def] \cap {"retry", "restart", "rerun"} # {}
    BY <1>14
  <1>16. Covers(rows, rs)
    BY <1>4, <1>5, <1>9, <1>11 DEF Covers
  <1> QED
    BY <1>9, <1>13, <1>14, <1>15, <1>16, ReviveStep DEF Stored

LEMMA RetryStep ==
  ASSUME Shape, Retry
  PROVE  Steps
  <1> DEFINE q == exec.inst
             reset == [k \in DOMAIN q |-> IF Failed(q[k].st) THEN Reset(q[k]) ELSE q[k]]
             written == {reset[k] : k \in {k \in DOMAIN q : Failed(q[k].st)}}
             put == [i \in DOMAIN rows |-> IF \E w \in written : w.id = i
                                           THEN CHOOSE w \in written : w.id = i ELSE rows[i]]
  <1>1. Revive([exec EXCEPT !.inst = reset], put) /\ "retry" \in Ops[def] /\ exec.status # "none"
    BY DEF Retry, Call
  <1>2. q \in Seq(Sound) /\ rows \in Seq(Sound) /\ exec \in Execs /\ Numbered(q, rows)
    BY DEF Shape, Stored, Execs
  <1>3. ASSUME NEW k \in DOMAIN q
        PROVE  /\ reset[k] \in Sound /\ reset[k].id = q[k].id /\ reset[k].node = q[k].node
               /\ q[k].id \in DOMAIN rows /\ q[k].node = rows[q[k].id].node
    <2>1. /\ q[k] \in Sound /\ q[k].id \in DOMAIN rows /\ q[k].node = rows[q[k].id].node
      BY CopyFacts
    <2>2. Reset(q[k]) \in Sound /\ Reset(q[k]).id = q[k].id /\ Reset(q[k]).node = q[k].node
      BY ResetFacts
    <2>3. reset[k] = IF Failed(q[k].st) THEN Reset(q[k]) ELSE q[k]
      OBVIOUS
    <2> HIDE DEF reset, q
    <2> QED
      BY <2>1, <2>2, <2>3
  <1>4. DOMAIN reset = DOMAIN q /\ DOMAIN put = DOMAIN rows
    OBVIOUS
  <1>5. reset \in Seq(Sound)
    <2>1. DOMAIN q = 1..Len(q) /\ Len(q) \in Nat
      BY <1>2
    <2>2. reset \in [1..Len(q) -> Sound]
      <3>1. \A k \in DOMAIN q : (IF Failed(q[k].st) THEN Reset(q[k]) ELSE q[k]) \in Sound
        BY <1>3
      <3> QED
        BY <2>1, <3>1
    <2> HIDE DEF reset, q
    <2> QED
      BY <2>1, <2>2
  <1>6. ASSUME NEW w \in written
        PROVE  w \in Sound /\ w.id \in DOMAIN rows /\ w.node = rows[w.id].node
    <2>1. PICK k \in DOMAIN q : w = reset[k]
      OBVIOUS
    <2> HIDE DEF reset, q, written
    <2> QED
      BY <2>1, <1>3
  <1>7. ASSUME NEW i \in DOMAIN rows
        PROVE  put[i] \in Sound /\ put[i].id = i /\ put[i].node = rows[i].node
    <2>1. rows[i] \in Sound /\ rows[i].id = i
      BY RowFacts
    <2>2. CASE \E w \in written : w.id = i
      <3>1. put[i] \in written /\ put[i].id = i
        BY <2>2
      <3> HIDE DEF put, written
      <3> QED
        BY <3>1, <1>6
    <2>3. CASE ~\E w \in written : w.id = i
      <3>1. put[i] = rows[i]
        BY <2>3
      <3> HIDE DEF put, written
      <3> QED
        BY <2>1, <3>1
    <2> QED
      BY <2>2, <2>3
  <1>8. put \in Seq(Sound)
    <2>1. DOMAIN rows = 1..Len(rows) /\ Len(rows) \in Nat
      BY <1>2
    <2>2. put = [i \in 1..Len(rows) |-> put[i]]
      BY <2>1
    <2>3. put \in [1..Len(rows) -> Sound]
      <3> HIDE DEF put
      <3> QED
        BY <2>1, <2>2, <1>7
    <2> HIDE DEF put
    <2> QED
      BY <2>1, <2>3
  <1> HIDE DEF reset, put, written
  <1>9. Numbered(reset, put)
    <2>1. \A i \in DOMAIN put : put[i].id = i
      BY <1>4, <1>7
    <2>2. \A k \in DOMAIN reset : reset[k].id \in DOMAIN put /\ put[reset[k].id].node = reset[k].node
      BY <1>3, <1>4, <1>7
    <2>3. \A j, k \in DOMAIN reset : reset[j].id = reset[k].id => j = k
      BY <1>2, <1>3, <1>4 DEF Numbered
    <2> QED
      BY <2>1, <2>2, <2>3 DEF Numbered
  <1>10. PICK ex : ex = [exec EXCEPT !.inst = reset]
    OBVIOUS
  <1>11. ex \in Execs /\ ex.inst = reset
    BY <1>2, <1>5, <1>10 DEF Execs
  <1>12. Aligned(ex, put)
    BY <1>3, <1>4, <1>11 DEF Aligned
  <1>13. Ops[def] \cap {"retry", "restart", "rerun"} # {}
    BY <1>1
  <1>14. Covers(rows, put)
    BY <1>4, <1>7 DEF Covers
  <1> QED
    BY <1>1, <1>8, <1>9, <1>10, <1>11, <1>12, <1>13, <1>14, ReviveStep

(* Every step of the system, as one of the Steps. *)
LEMMA NextSteps ==
  ASSUME Shape, [Next]_vars
  PROVE  Steps /\ def' = def
  <1>1. CASE UNCHANGED vars
    BY <1>1 DEF vars, Steps, Idle, Quiet
  <1>2. CASE Next
    <2>1. def' = def
      <3>1. CASE Start \/ Worker \/ Child \/ Sweep
        BY <3>1 DEF Start, Worker, Child, Sweep, Claim, WorkerDies, SubmitResult, ChildEnds,
                    SweepTimeouts, SweepRetries, SweepAdvance
      <3>2. CASE Operator
        BY <3>2 DEF Operator, Pause, Resume, Retry, Restart, Terminate, Reconcile, Rerun, Signal,
                    QueueUpdate, Requeue, Revive
      <3> QED
        BY <1>2, <3>1, <3>2 DEF Next
    <2>2. CASE Start
      BY <2>1, <2>2, StartStep
    <2>3. CASE Worker
      <3>1. PICK i \in DOMAIN rows : \/ Claim(i) \/ WorkerDies(i)
                                     \/ \E st \in Results, out \in Outs : SubmitResult(i, st, out)
        BY <2>3 DEF Worker
      <3>2. CASE WorkerDies(i)
        BY <2>1, <3>2 DEF WorkerDies, Steps, Idle, Quiet
      <3>3. ASSUME NEW st \in Results, NEW out \in Outs, SubmitResult(i, st, out) PROVE Steps
        BY <3>3, SubmitResultStep DEF Steps
      <3> QED
        BY <2>1, <3>1, <3>2, <3>3, ClaimStep
    <2>4. CASE Child
      BY <2>1, <2>4, ChildEndsStep DEF Child, Steps
    <2>5. CASE Sweep
      <3>1. CASE SweepAdvance
        BY <2>1, <3>1, LooksStep
      <3>2. ASSUME NEW i \in DOMAIN rows, SweepTimeouts(i) PROVE Steps
        <4>1. CASE Kind(rows[i].node) = "WAIT"
          BY <3>2, <4>1, WaitTimeoutStep DEF Steps
        <4>2. CASE Kind(rows[i].node) # "WAIT"
          BY <3>2, <4>2, TimeoutStep DEF Steps, Settles
        <4> QED
          BY <4>1, <4>2
      <3> QED
        BY <2>1, <2>5, <3>1, <3>2, SweepRetriesStep DEF Sweep
    <2>6. CASE Operator
      <3>1. CASE Pause \/ Terminate
        BY <2>1, <3>1 DEF Steps
      <3>2. CASE Resume \/ Reconcile
        BY <2>1, <3>2, ResumeStep, LooksStep
      <3>3. CASE Retry \/ Restart
        BY <2>1, <3>3, RetryStep, RestartStep
      <3>4. CASE \E n \in Nodes : Rerun(n) \/ Signal(n)
                        \/ \E st \in Results, out \in Outs : QueueUpdate(n, st, out)
        <4>1. PICK n \in Nodes : Rerun(n) \/ Signal(n)
                                 \/ \E st \in Results, out \in Outs : QueueUpdate(n, st, out)
          BY <3>4
        <4>2. CASE Rerun(n)
          BY <2>1, <4>2, RerunStep
        <4>3. CASE Signal(n)
          BY <2>1, <4>3, SignalStep DEF Steps
        <4>4. ASSUME NEW st \in Results, NEW out \in Outs, QueueUpdate(n, st, out) PROVE Steps
          BY <4>4, QueueUpdateStep DEF Steps
        <4> QED
          BY <2>1, <4>1, <4>2, <4>3, <4>4
      <3>5. CASE \E i \in DOMAIN rows : Requeue(i)
        BY <2>1, <3>5, RequeueStep
      <3> QED
        BY <2>1, <2>6, <3>1, <3>2, <3>3, <3>4, <3>5 DEF Operator
    <2> QED
      BY <1>2, <2>1, <2>2, <2>3, <2>4, <2>5, <2>6 DEF Next
  <1> QED
    BY <1>1, <1>2

-----------------------------------------------------------------------------
(* A run of the execution ends once, and retries stay within the policy. *)

(* An execution that is over or paused is left as it is. *)
LEMMA Fixed ==
  ASSUME def \in Defs, NEW m \in Machines, m.pc = "advance", ~Live(m)
  PROVE  LET k == Advance(m) IN k \in Machines /\ Same(m, k) /\ k.pc \in {"advance", "done"}
  <1> DEFINE X == {k \in Machines : Same(m, k) /\ k.pc \in {"advance", "done"}}
  <1>1. m \in X
    BY DEF Same
  <1>2. ASSUME NEW k \in X PROVE AdvanceStep(k) \in X
    <2>1. PICK s : s = AdvanceStep(k)
      OBVIOUS
    <2>2. k \in Machines /\ s \in Machines /\ Moves(k, s)
      BY <2>1, StepMoves
    <2>3. ~Live(k)
      BY DEF Same, Live
    <2>4. (k = s /\ k.pc = "done") \/ Stops(k, s)
      BY <2>2, <2>3 DEF Moves, Ends, Plans, SkipsEnd, Passes, Loses, Skips, Spawns
    <2>5. Same(m, s) /\ s.pc \in {"advance", "done"}
      BY <2>4 DEF Stops, Same
    <2> QED
      BY <2>1, <2>2, <2>5
  <1> HIDE DEF X
  <1>3. Advance(m) \in X
    BY <1>1, <1>2, AdvanceIn
  <1> QED
    BY <1>3 DEF X

(* While advance() works on an execution, the execution is not over; what it  *)
(* ends is counted once.  The rows the call started with are still there.     *)
Count(m) == IF IsTerminal(m.ex.status) THEN 1 ELSE 0
Counted(r) ==
    {m \in Machines : /\ m.ex.status # "none" /\ m.ended = Count(m) /\ Covers(r, m.rows)
                      /\ m.pc \in {"skip", "spawn", "lost"} => ~IsTerminal(m.ex.status)}

LEMMA CoversGrows ==
  ASSUME NEW r, NEW m \in Machines, NEW k, NEW x, Covers(r, m.rows), Grows(m, k, x)
  PROVE  Covers(r, k.rows)
  <1>1. m.rows \in Seq(Sound) /\ k.rows = Append(m.rows, x)
    BY MachineFields DEF Grows
  <1>2. \A i \in DOMAIN m.rows : i \in DOMAIN k.rows /\ k.rows[i] = m.rows[i]
    BY <1>1
  <1> QED
    BY <1>2 DEF Covers

LEMMA CountedStep ==
  ASSUME def \in Defs, NEW r, NEW m \in Counted(r)
  PROVE  AdvanceStep(m) \in Counted(r)
  <1>1. PICK k : k = AdvanceStep(m)
    OBVIOUS
  <1>2. m \in Machines /\ k \in Machines /\ Moves(m, k)
    BY <1>1, StepMoves DEF Counted
  <1>3. /\ m.ex.status # "none" /\ m.ended = Count(m) /\ Covers(r, m.rows)
        /\ m.pc \in {"skip", "spawn", "lost"} => ~IsTerminal(m.ex.status)
    BY DEF Counted
  <1>4. CASE k = m
    BY <1>1, <1>4
  <1>5. CASE Same(m, k) /\ (Stops(m, k) \/ Plans(m, k) \/ SkipsEnd(m, k) \/ Passes(m, k) \/ Loses(m, k))
    BY <1>1, <1>2, <1>3, <1>5 DEF Counted, Count, Same, Stops, Plans, SkipsEnd, Passes, Loses, Live
  <1>6. CASE Ends(m, k)
    <2>1. k.rows = m.rows /\ k.pc = "done"
      BY <1>6 DEF Ends
    <2>2. k.ex.status # "none" /\ k.ended = Count(k)
      BY <1>3, <1>6 DEF Ends, Count, Same, IsTerminal
    <2> QED
      BY <1>1, <1>2, <1>3, <2>1, <2>2 DEF Counted
  <1>7. ASSUME NEW x, Skips(m, k, x) PROVE k \in Counted(r)
    <2>1. Covers(r, k.rows)
      BY <1>2, <1>3, <1>7, CoversGrows DEF Skips
    <2> QED
      BY <1>2, <1>3, <1>7, <2>1 DEF Counted, Count, Skips
  <1>8. ASSUME NEW x, Spawns(m, k, x) PROVE k \in Counted(r)
    <2>1. Covers(r, k.rows)
      BY <1>2, <1>3, <1>8, CoversGrows DEF Spawns
    <2>2. m.ended = 0 /\ ~IsTerminal(m.ex.status) /\ m.pc = "spawn"
      BY <1>3, <1>8 DEF Spawns, Count
    <2>3. k.ex.status # "none" /\ k.ended = Count(k)
      BY <1>3, <1>8, <2>2 DEF Spawns, Waits, Answers, Fails, Terminates, Count, IsTerminal
    <2>4. k.pc \in {"spawn", "lost", "skip"} => ~IsTerminal(k.ex.status)
      BY <1>8, <2>2 DEF Spawns, Waits, Answers, Fails, Terminates
    <2> QED
      BY <1>2, <2>1, <2>3, <2>4 DEF Counted
  <1> QED
    BY <1>1, <1>2, <1>4, <1>5, <1>6, <1>7, <1>8
       DEF Moves, Stops, Plans, SkipsEnd, Passes, Loses

LEMMA CountedAdvance ==
  ASSUME def \in Defs, NEW r, NEW m \in Counted(r)
  PROVE  Advance(m) \in Counted(r)
  <1>1. \A k \in Counted(r) : AdvanceStep(k) \in Counted(r)
    BY CountedStep
  <1>2. PICK X : X = Counted(r)
    OBVIOUS
  <1> QED
    BY <1>1, <1>2, AdvanceIn

LEMMA ShapeNext ==
  ASSUME Shape, def' = def, exec' \in Execs, rows' \in Seq(Sound), Numbered(exec'.inst, rows'),
         started' \in Nat, finished' \in Nat, started' = 0 => exec'.status = "none",
         exec'.status = "none" => finished' = 0 /\ exec'.inst = <<>>
  PROVE  Shape'
  <1>1. Sound' = Sound
    BY DEF Sound, InBudget, Kind, Record, Nodes
  <1>2. Execs' = Execs
    BY <1>1 DEF Execs
  <1>3. Stored(exec, rows)'
    BY <1>1, <1>2 DEF Stored, Numbered
  <1> QED
    BY <1>3 DEF Shape

(* What is stored when advance() has been called on an execution not over. *)
LEMMA Advanced ==
  ASSUME Shape, NEW ex, NEW rs, Advances(ex, rs), Covers(rows, rs), ex.status # "none",
         ~IsTerminal(ex.status)
  PROVE  LET m == Advance(Machine(ex, rs))
         IN  /\ m \in Machines /\ rows' = m.rows /\ exec' \in Execs /\ rows' \in Seq(Sound)
             /\ Numbered(exec'.inst, rows')
             /\ m.pc = "lost" => exec' = exec /\ finished' = finished
             /\ m.pc # "lost" => /\ exec' = m.ex /\ exec'.status # "none"
                                 /\ finished' = finished + IF IsTerminal(exec'.status) THEN 1 ELSE 0
  <1>1. PICK b : b = Machine(ex, rs)
    OBVIOUS
  <1>2. b \in Machines /\ b.ex = ex /\ b.rows = rs /\ b.ended = 0 /\ b.pc = "advance"
    BY <1>1, MachineIs DEF Advances
  <1>3. b \in Counted(rows)
    BY <1>2 DEF Counted, Count
  <1>4. PICK m : m = Advance(b)
    OBVIOUS
  <1>5. m \in Counted(rows)
    BY <1>3, <1>4, CountedAdvance DEF Shape
  <1>6. /\ m \in Machines /\ m.ex \in Execs /\ m.rows \in Seq(Sound) /\ Numbered(m.ex.inst, m.rows)
        /\ m.ex.status # "none" /\ m.ended = Count(m) /\ Covers(rows, m.rows)
        /\ m.pc = "lost" => ~IsTerminal(m.ex.status)
    BY <1>5, MachineFields DEF Counted
  <1>7. /\ rows' = m.rows /\ exec' = IF m.pc = "lost" THEN exec ELSE m.ex
        /\ finished' = finished + m.ended /\ finished \in Nat /\ exec \in Execs
    BY <1>1, <1>4 DEF Advances, Commit, Shape, Stored
  <1>8. CASE m.pc = "lost"
    <2>1. m.ended = 0
      BY <1>6, <1>8 DEF Count
    <2>2. Numbered(exec.inst, m.rows)
      BY <1>6 DEF Shape, Stored, Numbered, Covers
    <2> QED
      BY <1>1, <1>4, <1>6, <1>7, <1>8, <2>1, <2>2
  <1>9. CASE m.pc # "lost"
    <2>1. m.ended = IF IsTerminal(m.ex.status) THEN 1 ELSE 0
      BY <1>6 DEF Count
    <2> QED
      BY <1>1, <1>4, <1>6, <1>7, <1>9, <2>1
  <1> QED
    BY <1>8, <1>9

(* And on one that is over or paused. *)
LEMMA NotAdvanced ==
  ASSUME Shape, NEW ex, NEW rs, Advances(ex, rs), IsTerminal(ex.status) \/ ex.status = "PAUSED"
  PROVE  exec' = ex /\ rows' = rs /\ finished' = finished
  <1>1. PICK b : b = Machine(ex, rs)
    OBVIOUS
  <1>2. b \in Machines /\ b.ex = ex /\ b.rows = rs /\ b.ended = 0 /\ b.pc = "advance"
    BY <1>1, MachineIs DEF Advances
  <1>3. PICK m : m = Advance(b)
    OBVIOUS
  <1>4. Same(b, m) /\ m.pc \in {"advance", "done"}
    BY <1>2, <1>3, Fixed DEF Shape, Live
  <1>5. finished \in Nat
    BY DEF Shape
  <1> QED
    BY <1>1, <1>2, <1>3, <1>4, <1>5 DEF Advances, Commit, Same

Accounts == Shape /\ FinishedOnce

LEMMA PutCovers ==
  ASSUME Shape, NEW i, Named(i)
  PROVE  Covers(rows, Put(rows, i)) /\ Covers(rows, rows)
  <1>1. i \in Sound /\ i.id \in DOMAIN rows /\ i.node = rows[i.id].node /\ rows \in Seq(Sound)
    BY DEF Named, Shape, Stored
  <1>2. Put(rows, i) = [rows EXCEPT ![i.id] = i]
    BY <1>1 DEF Put
  <1> QED
    BY <1>1, <1>2 DEF Covers

LEMMA AccountsStep ==
  ASSUME Accounts, [Next]_vars
  PROVE  Accounts'
  <1>1. Shape /\ Steps /\ def' = def
    BY NextSteps DEF Accounts
  <1>2. /\ def \in Defs /\ Stored(exec, rows) /\ exec \in Execs /\ rows \in Seq(Sound)
        /\ Numbered(exec.inst, rows) /\ started \in Nat /\ finished \in Nat
        /\ started = 0 => exec.status = "none"
        /\ exec.status = "none" => finished = 0 /\ exec.inst = <<>>
        /\ exec.status # "none" =>
               finished = IF IsTerminal(exec.status) THEN started ELSE started - 1
    BY <1>1 DEF Shape, Stored, Accounts, FinishedOnce
  <1>3. ASSUME Quiet, rows' \in Seq(Sound), Numbered(exec.inst, rows') PROVE Accounts'
    <2>1. Shape'
      BY <1>1, <1>2, <1>3, ShapeNext DEF Quiet
    <2> QED
      BY <1>2, <1>3, <2>1 DEF Accounts, FinishedOnce, Quiet
  <1>4. ASSUME NEW r, Quiet, Replaces(r) PROVE Accounts'
    <2>1. Named(r)
      BY <1>4 DEF Replaces, Known
    <2>2. PICK rs \in {rows, Put(rows, r)} : rs = Put(rows, r)
      OBVIOUS
    <2>3. rs = [rows EXCEPT ![r.id] = r] /\ Stored(SyncInstance(exec, r), rs) /\ Covers(rows, rs)
      BY <1>1, <2>1, <2>2, SyncNamed, PutCovers
    <2>4. rs \in Seq(Sound) /\ Numbered(exec.inst, rs)
      BY <1>2, <2>3 DEF Stored, Numbered, Covers
    <2> QED
      BY <1>3, <1>4, <2>3, <2>4 DEF Replaces
  <1>5. CASE Pause
    <2>1. /\ exec.status = "RUNNING" /\ exec' = [exec EXCEPT !.status = "PAUSED"]
          /\ rows' = rows /\ finished' = finished /\ started' = started
      BY <1>5 DEF Pause
    <2>2. exec' \in Execs /\ exec'.status = "PAUSED" /\ exec'.inst = exec.inst
      BY <1>2, <2>1 DEF Execs, Statuses
    <2>3. Shape'
      BY <1>1, <1>2, <2>1, <2>2, ShapeNext
    <2> QED
      BY <1>2, <2>1, <2>2, <2>3 DEF Accounts, FinishedOnce, IsTerminal
  <1>6. CASE Terminate
    <2>1. /\ exec.status # "none" /\ ~IsTerminal(exec.status)
          /\ exec' = [exec EXCEPT !.status = "TERMINATED"]
          /\ rows' = rows /\ finished' = finished + 1 /\ started' = started
      BY <1>6 DEF Terminate, Call
    <2>2. exec' \in Execs /\ exec'.status = "TERMINATED" /\ exec'.inst = exec.inst
      BY <1>2, <2>1 DEF Execs, Statuses
    <2>3. Shape'
      BY <1>1, <1>2, <2>1, <2>2, ShapeNext
    <2> QED
      BY <1>2, <2>1, <2>2, <2>3 DEF Accounts, FinishedOnce, IsTerminal
  <1>7. ASSUME NEW j, FailsTask(j) PROVE Accounts'
    <2>1. /\ Named(j) /\ started' = started /\ exec' \in Execs /\ exec'.inst = Sync(exec.inst, j)
          /\ rows' = Put(rows, j) /\ exec.status # "none" /\ ~IsTerminal(exec.status)
          /\ \/ exec'.status = exec.status /\ finished' = finished
             \/ exec'.status = "FAILED" /\ finished' = finished + 1
      BY <1>7 DEF FailsTask, Over
    <2>2. PICK rs \in {rows, Put(rows, j)} : rs = Put(rows, j)
      OBVIOUS
    <2>3. Stored(SyncInstance(exec, j), rs) /\ SyncInstance(exec, j).inst = Sync(exec.inst, j)
      BY <1>1, <2>1, <2>2, SyncNamed
    <2>4. rows' \in Seq(Sound) /\ Numbered(exec'.inst, rows')
      BY <2>1, <2>2, <2>3 DEF Stored
    <2>5. finished' \in Nat /\ exec'.status # "none" /\ started # 0
      BY <1>2, <2>1
    <2>6. Shape'
      BY <1>1, <1>2, <2>1, <2>4, <2>5, ShapeNext
    <2>7. FinishedOnce'
      BY <1>2, <2>1 DEF FinishedOnce, IsTerminal
    <2> QED
      BY <2>6, <2>7 DEF Accounts
  <1>8. ASSUME NEW i, Parks(i) PROVE Accounts'
    <2>1. /\ Named(i) /\ started' = started /\ exec' = SyncInstance(exec, i)
          /\ rows' = Put(rows, i) /\ exec.status # "none" /\ ~IsTerminal(exec.status) /\ finished' = finished
      BY <1>8 DEF Parks, Over, Known
    <2>2. PICK rs \in {rows, Put(rows, i)} : rs = Put(rows, i)
      OBVIOUS
    <2>3. Stored(SyncInstance(exec, i), rs) /\ SyncInstance(exec, i).status = exec.status
      BY <1>1, <2>1, <2>2, SyncNamed
    <2>4. Stored(exec', rows') /\ exec'.status = exec.status
      BY <2>1, <2>2, <2>3
    <2>5. Shape'
      BY <1>1, <1>2, <2>1, <2>4, ShapeNext DEF Stored
    <2>6. FinishedOnce'
      BY <1>2, <2>1, <2>4 DEF FinishedOnce
    <2> QED
      BY <2>5, <2>6 DEF Accounts
  <1>9. ASSUME NEW ex, NEW rs, Advances(ex, rs), Covers(rows, rs), ex.status # "none", ~IsTerminal(ex.status),
               \/ started' = started /\ exec.status # "none" /\ ~IsTerminal(exec.status)
               \/ started = 0 /\ started' = 1
               \/ /\ exec.status # "none"
                  /\ started' = IF IsTerminal(exec.status) /\ Advance(Machine(ex, rs)).pc # "lost"
                                THEN started + 1 ELSE started
        PROVE  Accounts'
    <2>1. PICK m : m = Advance(Machine(ex, rs))
      OBVIOUS
    <2>2. /\ exec' \in Execs /\ rows' \in Seq(Sound) /\ Numbered(exec'.inst, rows')
          /\ m.pc = "lost" => exec' = exec /\ finished' = finished
          /\ m.pc # "lost" => /\ exec'.status # "none"
                              /\ finished' = finished + IF IsTerminal(exec'.status) THEN 1 ELSE 0
      BY <1>1, <1>9, <2>1, Advanced
    <2>3. started' \in Nat /\ finished' \in Nat /\ started' # 0
      BY <1>2, <1>9, <2>2
    <2>4. exec'.status = "none" => finished' = 0 /\ exec'.inst = <<>>
      BY <1>2, <2>2
    <2>5. Shape'
      BY <1>1, <2>2, <2>3, <2>4, ShapeNext
    <2>6. FinishedOnce'
      BY <1>2, <1>9, <2>1, <2>2 DEF FinishedOnce
    <2> QED
      BY <2>5, <2>6 DEF Accounts
  <1>10. CASE Looks
    <2>1. CASE IsTerminal(exec.status)
      <3>1. exec' = exec /\ rows' = rows /\ finished' = finished /\ started' = started
        BY <1>1, <1>10, <2>1, NotAdvanced DEF Looks
      <3> QED
        BY <1>2, <1>3, <3>1 DEF Quiet
    <2>2. CASE ~IsTerminal(exec.status)
      BY <1>9, <1>10, <2>2 DEF Looks, Covers
    <2> QED
      BY <2>1, <2>2
  <1>11. ASSUME NEW ex, Starts(ex) PROVE Accounts'
    <2>1. ex.status = "RUNNING" /\ Advances(ex, rows) /\ started = 0 /\ started' = 1
      BY <1>11 DEF Starts
    <2> QED
      BY <1>9, <2>1 DEF Covers, IsTerminal
  <1>12. ASSUME NEW ex, Resumes(ex) PROVE Accounts'
    <2>1. /\ ex.status = "RUNNING" /\ Advances(ex, rows) /\ exec.status = "PAUSED"
          /\ started' = started
      BY <1>2, <1>12 DEF Resumes, Execs
    <2> QED
      BY <1>9, <2>1 DEF Covers, IsTerminal
  <1>13. ASSUME NEW ex, NEW rs, NEW i, Completes(ex, rs, i) PROVE Accounts'
    <2>1. /\ Named(i) /\ Advances(ex, rs) /\ exec.status # "none" /\ ~IsTerminal(exec.status)
          /\ started' = started /\ rs \in {rows, Put(rows, i)} /\ ex = SyncInstance(exec, i)
      BY <1>13 DEF Completes, Known, Over
    <2>2. ex.status = exec.status /\ Covers(rows, rs)
      BY <1>1, <2>1, SyncNamed, PutCovers
    <2> QED
      BY <1>9, <2>1, <2>2
  <1>14. ASSUME NEW ex, NEW rs, Revives(ex, rs) PROVE Accounts'
    <2>1. ~IsTerminal(ex.status) /\ ex.status # "none" /\ Advances(ex, rs) /\ Covers(rows, rs)
      BY <1>14 DEF Revives, IsTerminal
    <2> QED
      BY <1>9, <1>14, <2>1 DEF Revives
  <1>15. CASE Idle
    BY <1>2, <1>3, <1>15 DEF Idle
  <1> QED
    BY <1>1, <1>4, <1>5, <1>6, <1>7, <1>8, <1>10, <1>11, <1>12, <1>13, <1>14, <1>15
       DEF Steps, Queues, Settles, Drops

LEMMA AccountsInit ==
  ASSUME Init
  PROVE  Accounts
  <1>1. /\ def \in Defs /\ exec = [status |-> "none", inst |-> <<>>, var |-> NoValue] /\ rows = <<>>
        /\ finished = 0 /\ started = 0
    BY DEF Init
  <1>2. exec \in Execs /\ rows \in Seq(Sound)
    BY <1>1 DEF Execs, Statuses, Outs
  <1>3. exec.status = "none" /\ exec.inst = <<>>
    BY <1>1
  <1>4. Numbered(exec.inst, rows)
    BY <1>1, <1>3 DEF Numbered
  <1> QED
    BY <1>1, <1>2, <1>3, <1>4 DEF Accounts, Shape, Stored, FinishedOnce

LEMMA AccountsAlways == Spec => []Accounts
  <1>1. Init => Accounts
    BY AccountsInit
  <1>2. Accounts /\ [Next]_vars => Accounts'
    BY AccountsStep
  <1> QED
    BY <1>1, <1>2, PTL DEF Spec

(* Whatever workers, timeouts, sweeps, children and operators do: each run of *)
(* an execution reports its end to on_execution_terminal() exactly once, when *)
(* it ends, and handle_failure() never spends more attempts than a TaskDef's  *)
(* RetryPolicy has.                                                           *)
THEOREM EndsOnceInBudget == Spec => [](FinishedOnce /\ RetryBudget)
  <1>1. Accounts => FinishedOnce /\ RetryBudget
    <2> SUFFICES ASSUME Accounts PROVE FinishedOnce /\ RetryBudget
      OBVIOUS
    <2>1. Shape /\ FinishedOnce
      BY DEF Accounts
    <2>2. \A i \in DOMAIN rows : InBudget(rows[i])
      BY <2>1, RowFacts
    <2> QED
      BY <2>1, <2>2 DEF RetryBudget, InBudget
  <1> QED
    BY <1>1, AccountsAlways, PTL

(* A late result, timeout, child or sweep never changes an execution that is  *)
(* over: it changes only when retry(), restart() or rerun() starts it again.  *)
THEOREM OverIsFinal == Spec => OverStaysOver
  <1>1. Accounts /\ [Next]_vars
            => [IsTerminal(exec.status) /\ exec' # exec => started' = started + 1]_vars
    <2> SUFFICES ASSUME Accounts, [Next]_vars, IsTerminal(exec.status), exec' # exec
                 PROVE  started' = started + 1
      OBVIOUS
    <2>1. Shape /\ Steps
      BY NextSteps DEF Accounts
    <2>2. /\ exec.status \notin {"none", "RUNNING", "PAUSED"} /\ Over /\ started # 0
      BY <2>1 DEF Shape, IsTerminal, Over
    <2>3. CASE Looks
      BY <2>1, <2>3, NotAdvanced DEF Looks
    <2>4. ASSUME NEW ex, NEW rs, Revives(ex, rs) PROVE started' = started + 1
      <3>1. PICK m : m = Advance(Machine(ex, rs))
        OBVIOUS
      <3>2. ex.status # "none" /\ ~IsTerminal(ex.status) /\ Advances(ex, rs) /\ Covers(rows, rs)
        BY <2>4 DEF Revives, IsTerminal
      <3>3. m.pc = "lost" => exec' = exec
        BY <2>1, <3>1, <3>2, Advanced
      <3> QED
        BY <2>4, <3>1, <3>3 DEF Revives
    <2> QED
      BY <2>1, <2>2, <2>3, <2>4 DEF Steps, Idle, Quiet, Pause, Terminate, Queues, Settles, Drops, Parks,
         FailsTask, Completes, Starts, Resumes
  <1> QED
    BY <1>1, AccountsAlways, PTL DEF Spec, OverStaysOver

-----------------------------------------------------------------------------
(* Nothing is forgotten, when every child execution runs on or is unknown    *)
(* and no task is canceled: one that never calls back loses an advance(),    *)
(* one that ends inside its own start() cannot find its parent, and a        *)
(* CANCELED task is neither retried nor passed on.                           *)

ChildrenRun == \A n \in Nodes : def.task[n].child \in {"runs", "unknown"}

Moving(i, r) ==
    \/ ~IsTerminalTask(r.st)
    \/ Failed(r.st) /\ r.armed
    \/ Kind(i.node) = "START_WORKFLOW"
AllMove(inst, rs) == \A k \in DOMAIN inst : Done(inst[k].st) \/ Moving(inst[k], rs[inst[k].id])

Movement == Unrevived /\ exec.status \in {"RUNNING", "PAUSED"} => AllMove(exec.inst, rows)

(* The instances of both, after one has been added. *)
LEMMA GrownFacts ==
  ASSUME NEW m \in Machines, NEW k, NEW x, Grows(m, k, x)
  PROVE  /\ x \in Sound /\ x.id \in DOMAIN k.rows /\ k.rows[x.id] = x
         /\ \A q \in DOMAIN k.ex.inst : k.ex.inst[q] = x \/ (q \in DOMAIN m.ex.inst /\ k.ex.inst[q] = m.ex.inst[q])
         /\ \A q \in DOMAIN m.ex.inst : q \in DOMAIN k.ex.inst /\ k.ex.inst[q] = m.ex.inst[q]
         /\ \A i \in DOMAIN m.rows : i \in DOMAIN k.rows /\ k.rows[i] = m.rows[i] /\ i # x.id
         /\ \A i \in DOMAIN k.rows : i = x.id \/ i \in DOMAIN m.rows
         /\ \E q \in DOMAIN k.ex.inst : k.ex.inst[q] = x /\ q \notin DOMAIN m.ex.inst
  <1>1. /\ m.rows \in Seq(Sound) /\ m.ex.inst \in Seq(Sound) /\ x \in Sound /\ x.id = Len(m.rows) + 1
        /\ k.rows = Append(m.rows, x) /\ k.ex.inst = Append(m.ex.inst, x)
    BY MachineFields DEF Grows
  <1>2. PICK s \in Seq(Sound) : s = m.ex.inst
    BY <1>1
  <1>3. PICK r \in Seq(Sound) : r = m.rows
    BY <1>1
  <1>4. PICK S : S = Append(s, x)
    OBVIOUS
  <1>5. PICK R : R = Append(r, x)
    OBVIOUS
  <1>6. /\ DOMAIN S = 1..(Len(s) + 1) /\ DOMAIN s = 1..Len(s) /\ Len(s) \in Nat
        /\ S[Len(s) + 1] = x /\ \A q \in 1..Len(s) : S[q] = s[q]
    BY <1>4
  <1>7. /\ DOMAIN R = 1..(Len(r) + 1) /\ DOMAIN r = 1..Len(r) /\ Len(r) \in Nat
        /\ R[Len(r) + 1] = x /\ \A q \in 1..Len(r) : R[q] = r[q]
    BY <1>5
  <1>8. /\ \A q \in DOMAIN S : S[q] = x \/ (q \in DOMAIN s /\ S[q] = s[q])
        /\ \A q \in DOMAIN s : q \in DOMAIN S /\ S[q] = s[q]
        /\ \E q \in DOMAIN S : S[q] = x /\ q \notin DOMAIN s
    BY <1>6
  <1>9. /\ \A i \in DOMAIN r : i \in DOMAIN R /\ R[i] = r[i] /\ i # Len(r) + 1
        /\ \A i \in DOMAIN R : i = Len(r) + 1 \/ i \in DOMAIN r
        /\ Len(r) + 1 \in DOMAIN R /\ R[Len(r) + 1] = x
    BY <1>7
  <1> QED
    BY <1>1, <1>2, <1>3, <1>4, <1>5, <1>8, <1>9

(* The nested copies, after one has been synchronised. *)
LEMMA SyncElements ==
  ASSUME Shape, NEW i, Named(i)
  PROVE  /\ \A k \in DOMAIN Sync(exec.inst, i) :
                \/ Sync(exec.inst, i)[k] = i
                \/ k \in DOMAIN exec.inst /\ Sync(exec.inst, i)[k] = exec.inst[k] /\ exec.inst[k].id # i.id
         /\ \A k \in DOMAIN exec.inst : k \in DOMAIN Sync(exec.inst, i)
                /\ Sync(exec.inst, i)[k] = IF exec.inst[k].id = i.id THEN i ELSE exec.inst[k]
         /\ (\E k \in DOMAIN exec.inst : exec.inst[k].id = i.id)
                => DOMAIN Sync(exec.inst, i) = DOMAIN exec.inst
  <1>1. PICK q \in Seq(Sound) : q = exec.inst
    BY DEF Shape, Stored, Execs
  <1>2. PICK rs \in Seq(Sound) : rs = rows
    BY DEF Shape, Stored
  <1>3. Numbered(q, rs) /\ i \in Sound /\ i.id \in DOMAIN rs /\ rs[i.id].node = i.node
    BY <1>1, <1>2 DEF Shape, Stored, Named
  <1>4. PICK Q : Q = Sync(q, i)
    OBVIOUS
  <1>5. CASE \E p \in DOMAIN q : q[p].id = i.id
    <2>1. PICK p \in DOMAIN q : q[p].id = i.id
      BY <1>5
    <2>2. Q = [q EXCEPT ![p] = i]
      BY <1>3, <1>4, <2>1, SyncHeld
    <2>3. DOMAIN Q = DOMAIN q /\ \A k \in DOMAIN q : Q[k] = IF k = p THEN i ELSE q[k]
      BY <2>2
    <2>4. \A k \in DOMAIN q : q[k].id = i.id <=> k = p
      BY <1>3, <2>1 DEF Numbered
    <2> QED
      BY <1>1, <1>4, <2>3, <2>4
  <1>6. CASE ~\E p \in DOMAIN q : q[p].id = i.id
    <2>1. i.id \in 1..(Len(rs) + 1)
      BY <1>3
    <2>2. Q = Append(q, i)
      BY <1>3, <1>4, <1>6, <2>1, SyncOther
    <2>3. /\ DOMAIN Q = 1..(Len(q) + 1) /\ DOMAIN q = 1..Len(q) /\ Len(q) \in Nat
          /\ Q[Len(q) + 1] = i /\ \A k \in 1..Len(q) : Q[k] = q[k]
      BY <1>3, <2>2
    <2>4. \A k \in DOMAIN Q : Q[k] = i \/ (k \in DOMAIN q /\ Q[k] = q[k] /\ q[k].id # i.id)
      BY <1>6, <2>3
    <2>5. \A k \in DOMAIN q : k \in DOMAIN Q /\ Q[k] = q[k] /\ q[k].id # i.id
      BY <1>6, <2>3
    <2> QED
      BY <1>1, <1>4, <1>6, <2>4, <2>5
  <1> QED
    BY <1>5, <1>6

MovingMachines ==
    {m \in Machines : m.pc # "lost" /\ (~IsTerminal(m.ex.status) => AllMove(m.ex.inst, m.rows))}

LEMMA MovingGrows ==
  ASSUME NEW m \in Machines, NEW k, NEW x, Grows(m, k, x), AllMove(m.ex.inst, m.rows),
         Done(x.st) \/ Moving(x, x)
  PROVE  AllMove(k.ex.inst, k.rows)
  <1>1. ASSUME NEW q \in DOMAIN k.ex.inst
        PROVE  Done(k.ex.inst[q].st) \/ Moving(k.ex.inst[q], k.rows[k.ex.inst[q].id])
    <2>1. CASE k.ex.inst[q] = x
      <3>1. k.rows[x.id] = x
        BY GrownFacts
      <3> QED
        BY <2>1, <3>1
    <2>2. CASE q \in DOMAIN m.ex.inst /\ k.ex.inst[q] = m.ex.inst[q]
      <3>1. m.ex.inst[q].id \in DOMAIN m.rows
        BY <2>2, MachineFields DEF Numbered
      <3>2. k.rows[m.ex.inst[q].id] = m.rows[m.ex.inst[q].id]
        BY <3>1, GrownFacts
      <3> QED
        BY <2>2, <3>2 DEF AllMove
    <2> QED
      BY <2>1, <2>2, GrownFacts
  <1> QED
    BY <1>1 DEF AllMove

LEMMA MovingStep ==
  ASSUME def \in Defs, ChildrenRun, NEW m \in MovingMachines
  PROVE  AdvanceStep(m) \in MovingMachines
  <1>1. PICK k : k = AdvanceStep(m)
    OBVIOUS
  <1>2. m \in Machines /\ k \in Machines /\ Moves(m, k)
    BY <1>1, StepMoves DEF MovingMachines
  <1>3. m.pc # "lost" /\ (~IsTerminal(m.ex.status) => AllMove(m.ex.inst, m.rows))
    BY DEF MovingMachines
  <1>4. ~Loses(m, k)
    <2> SUFFICES ASSUME Loses(m, k) PROVE FALSE
      OBVIOUS
    <2>1. Turn(m) \in Nodes /\ def.task[Turn(m)].child = "silent"
      BY <1>2, MachineFields, TurnFacts DEF Loses, Turn
    <2> QED
      BY <2>1 DEF ChildrenRun, Nodes
  <1>5. CASE k = m
    BY <1>1, <1>5
  <1>6. CASE Same(m, k) /\ (Stops(m, k) \/ Plans(m, k) \/ SkipsEnd(m, k) \/ Passes(m, k))
    BY <1>1, <1>2, <1>3, <1>6 DEF MovingMachines, Same, Stops, Plans, SkipsEnd, Passes
  <1>7. CASE Ends(m, k)
    BY <1>1, <1>2, <1>3, <1>7 DEF MovingMachines, Ends, Same, IsTerminal
  <1>8. ASSUME NEW x, Skips(m, k, x) PROVE k \in MovingMachines
    <2>1. Grows(m, k, x) /\ x.st = "SKIPPED" /\ k.ex.status = m.ex.status /\ k.pc = "skip"
      BY <1>8 DEF Skips
    <2>2. AllMove(m.ex.inst, m.rows) => AllMove(k.ex.inst, k.rows)
      BY <1>2, <2>1, MovingGrows DEF Done
    <2> QED
      BY <1>2, <1>3, <2>1, <2>2 DEF MovingMachines
  <1>9. ASSUME NEW x, Spawns(m, k, x) PROVE k \in MovingMachines
    <2>1. Grows(m, k, x) /\ k.pc # "lost"
      BY <1>9 DEF Spawns, Waits, Answers, Fails, Terminates
    <2>2. CASE IsTerminal(k.ex.status)
      BY <1>2, <2>1, <2>2 DEF MovingMachines
    <2>3. CASE ~IsTerminal(k.ex.status)
      <3>1. k.ex.status = m.ex.status /\ (Done(x.st) \/ Moving(x, x))
        BY <1>9, <2>3 DEF Spawns, Waits, Answers, Fails, Terminates, IsTerminal, Moving, Done, Failed,
                          IsTerminalTask
      <3>2. AllMove(k.ex.inst, k.rows)
        BY <1>2, <1>3, <2>1, <2>3, <3>1, MovingGrows
      <3> QED
        BY <1>2, <2>1, <3>2 DEF MovingMachines
    <2> QED
      BY <2>2, <2>3
  <1> QED
    BY <1>1, <1>2, <1>4, <1>5, <1>6, <1>7, <1>8, <1>9 DEF Moves, Stops, Plans, SkipsEnd, Passes

LEMMA MovingAdvance ==
  ASSUME Shape, ChildrenRun, NEW ex, NEW rs, Advances(ex, rs), AllMove(ex.inst, rs)
  PROVE  rows' = Advance(Machine(ex, rs)).rows /\ (~IsTerminal(exec'.status) => AllMove(exec'.inst, rows'))
  <1>1. PICK b : b = Machine(ex, rs)
    OBVIOUS
  <1>2. b \in Machines /\ b.ex = ex /\ b.rows = rs /\ b.pc = "advance"
    BY <1>1, MachineIs DEF Advances
  <1>3. b \in MovingMachines
    BY <1>2 DEF MovingMachines
  <1>4. \A k \in MovingMachines : AdvanceStep(k) \in MovingMachines
    BY MovingStep DEF Shape
  <1>5. Advance(b) \in MovingMachines
    <2>1. PICK X : X = MovingMachines
      OBVIOUS
    <2> QED
      BY <1>3, <1>4, <2>1, AdvanceIn DEF Shape
  <1> QED
    BY <1>1, <1>5 DEF MovingMachines, Advances, Commit

LEMMA MovementStep ==
  ASSUME Shape, ChildrenRun, "CANCELED" \notin Results, Movement, [Next]_vars
  PROVE  Movement'
  <1>1. Steps /\ def' = def
    BY NextSteps
  <1>2. /\ exec \in Execs /\ exec.inst \in Seq(Sound) /\ rows \in Seq(Sound) /\ Numbered(exec.inst, rows)
        /\ started = 0 => exec.status = "none"
    BY DEF Shape, Stored, Execs
  <1> SUFFICES ASSUME Unrevived, exec'.status \in {"RUNNING", "PAUSED"} PROVE AllMove(exec'.inst, rows')
    BY <1>1 DEF Movement, Unrevived, AllMove, Moving, Kind
  <1>3. ~IsTerminal(exec'.status)
    BY DEF IsTerminal
  <1>4. exec.status \in {"RUNNING", "PAUSED"} => AllMove(exec.inst, rows)
    BY DEF Movement
  <1>5. ASSUME NEW ex, NEW rs, Advances(ex, rs), AllMove(ex.inst, rs) PROVE AllMove(exec'.inst, rows')
    BY <1>3, <1>5, MovingAdvance
  <1>6. CASE Idle
    BY <1>4, <1>6 DEF Idle, Quiet
  <1>7. CASE Pause
    <2>1. exec.status = "RUNNING" /\ exec'.inst = exec.inst /\ rows' = rows
      BY <1>2, <1>7 DEF Pause, Execs
    <2> QED
      BY <1>4, <2>1
  <1>8. CASE Terminate
    <2>1. exec'.status = "TERMINATED"
      BY <1>2, <1>8 DEF Terminate, Execs
    <2> QED
      BY <2>1
  <1>9. CASE Looks
    <2>1. CASE exec.status \in {"RUNNING", "PAUSED"}
      BY <1>4, <1>5, <1>9, <2>1 DEF Looks
    <2>2. CASE exec.status \notin {"RUNNING", "PAUSED"}
      <3>1. IsTerminal(exec.status)
        BY <1>2, <1>9, <2>2 DEF Looks, Execs, Statuses, IsTerminal
      <3>2. exec' = exec
        BY <1>9, <3>1, NotAdvanced DEF Looks
      <3> QED
        BY <1>3, <3>1, <3>2
    <2> QED
      BY <2>1, <2>2
  <1>10. ASSUME NEW r, Queues(r) PROVE AllMove(exec'.inst, rows')
    <2>1. exec' = exec /\ rows' = [rows EXCEPT ![r.id] = r] /\ ~IsTerminalTask(r.st)
      BY <1>10 DEF Queues, Quiet, Replaces
    <2>2. \A i \in DOMAIN rows : rows'[i] = IF i = r.id THEN r ELSE rows[i]
      BY <1>2, <2>1
    <2>3. AllMove(exec.inst, rows)
      BY <1>4, <2>1
    <2>4. ASSUME NEW k \in DOMAIN exec.inst
          PROVE  Done(exec.inst[k].st) \/ Moving(exec.inst[k], rows'[exec.inst[k].id])
      <3>1. exec.inst[k].id \in DOMAIN rows
        BY <1>2 DEF Numbered
      <3>2. Done(exec.inst[k].st) \/ Moving(exec.inst[k], rows[exec.inst[k].id])
        BY <2>3 DEF AllMove
      <3> QED
        BY <2>1, <2>2, <3>1, <3>2 DEF Moving
    <2> QED
      BY <2>1, <2>4 DEF AllMove
  <1>11. ASSUME NEW r, Drops(r) PROVE AllMove(exec'.inst, rows')
    BY <1>3, <1>11 DEF Drops, Over, Quiet
  <1>12. ASSUME NEW i, Named(i), ~Over, NEW rs \in {rows, Put(rows, i)},
                Done(i.st) \/ (Moving(i, i) /\ rs = Put(rows, i))
         PROVE  AllMove(Sync(exec.inst, i), rs)
    <2>1. AllMove(exec.inst, rows)
      BY <1>2, <1>4, <1>12 DEF Over, Execs, Statuses, IsTerminal
    <2>2. i.id \in DOMAIN rows /\ Put(rows, i) = [rows EXCEPT ![i.id] = i]
      BY <1>12 DEF Named, Put
    <2>3. rs[i.id] \in {rows[i.id], i} /\ (rs = Put(rows, i) => rs[i.id] = i)
      BY <1>2, <1>12, <2>2
    <2>4. \A o \in DOMAIN rows : o # i.id => rs[o] = rows[o]
      BY <1>2, <1>12, <2>2
    <2>5. PICK Q : Q = Sync(exec.inst, i)
      OBVIOUS
    <2>6. ASSUME NEW k \in DOMAIN Q PROVE Done(Q[k].st) \/ Moving(Q[k], rs[Q[k].id])
      <3>1. CASE Q[k] = i
        BY <1>12, <2>3, <3>1
      <3>2. CASE k \in DOMAIN exec.inst /\ Q[k] = exec.inst[k] /\ exec.inst[k].id # i.id
        <4>1. exec.inst[k].id \in DOMAIN rows
          BY <1>2, <3>2 DEF Numbered
        <4>2. rs[Q[k].id] = rows[exec.inst[k].id]
          BY <2>4, <3>2, <4>1
        <4> QED
          BY <2>1, <3>2, <4>2 DEF AllMove
      <3> QED
        BY <1>12, <2>5, <3>1, <3>2, SyncElements
    <2> QED
      BY <2>5, <2>6 DEF AllMove
  <1>13. ASSUME NEW j, FailsTask(j) PROVE AllMove(exec'.inst, rows')
    <2>1. ~Over /\ Named(j) /\ exec'.inst = Sync(exec.inst, j) /\ rows' = Put(rows, j)
      BY <1>13 DEF FailsTask
    <2>2. Moving(j, j)
      BY <1>13 DEF FailsTask, Moving
    <2>3. PICK rs \in {rows, Put(rows, j)} : rs = Put(rows, j)
      OBVIOUS
    <2> QED
      BY <1>12, <2>1, <2>2, <2>3
  <1>14. ASSUME NEW ex, NEW rs, NEW i, Completes(ex, rs, i) PROVE AllMove(exec'.inst, rows')
    <2>1. /\ ~Over /\ Named(i) /\ Done(i.st) /\ rs \in {rows, Put(rows, i)} /\ Advances(ex, rs)
          /\ ex = SyncInstance(exec, i)
      BY <1>14 DEF Completes, Known
    <2>2. ex.inst = Sync(exec.inst, i)
      BY <2>1, SyncNamed
    <2> QED
      BY <1>5, <1>12, <2>1, <2>2
  <1>15. ASSUME NEW ex, Starts(ex) PROVE AllMove(exec'.inst, rows')
    <2>1. ex.inst = <<>> /\ Advances(ex, rows)
      BY <1>15 DEF Starts
    <2> QED
      BY <1>5, <2>1 DEF AllMove
  <1>16. ASSUME NEW ex, Resumes(ex) PROVE AllMove(exec'.inst, rows')
    <2>1. ex.inst = exec.inst /\ Advances(ex, rows) /\ exec.status = "PAUSED"
      BY <1>2, <1>16 DEF Resumes, Execs
    <2> QED
      BY <1>4, <1>5, <2>1
  <1>17. ASSUME NEW ex, NEW rs, Revives(ex, rs) PROVE AllMove(exec'.inst, rows')
    BY <1>17 DEF Revives, Unrevived
  <1>18. \A i : ~Parks(i)
    BY DEF Parks
  <1> QED
    BY <1>1, <1>6, <1>7, <1>8, <1>9, <1>10, <1>11, <1>13, <1>14, <1>15, <1>16, <1>17, <1>18
       DEF Steps, Settles

(* No execution is left waiting for something that already happened: while it *)
(* runs unrevived, every instance it waits for has a row that a worker, the   *)
(* sweep or a signal still moves, and a SUB_WORKFLOW whose child has ended is *)
(* not IN_PROGRESS.  Pauses, timeouts, retries and late results included.     *)
THEOREM NothingIsStuck == ChildrenRun /\ "CANCELED" \notin Results /\ Spec => []NothingStuck
  <1> SUFFICES ASSUME "CANCELED" \notin Results PROVE ChildrenRun /\ Spec => []NothingStuck
    OBVIOUS
  <1>1. Init => Movement
    BY DEF Init, Movement
  <1>2. Accounts /\ ChildrenRun /\ Movement /\ [Next]_vars => (ChildrenRun /\ Movement)'
    <2> SUFFICES ASSUME Accounts, ChildrenRun, Movement, [Next]_vars PROVE (ChildrenRun /\ Movement)'
      OBVIOUS
    <2>1. def' = def /\ Movement'
      BY NextSteps, MovementStep DEF Accounts
    <2> QED
      BY <2>1 DEF ChildrenRun, Nodes
  <1>3. Accounts /\ ChildrenRun /\ Movement => NothingStuck
    <2> SUFFICES ASSUME Accounts, ChildrenRun, Movement PROVE NothingStuck
      OBVIOUS
    <2>1. Shape
      BY DEF Accounts
    <2>2. StillMoving
      BY DEF StillMoving, Movement, AllMove, Moving, Kind, ToSet
    <2>3. ASSUME NEW i \in DOMAIN rows, rows[i].child = "ended", rows[i].st = "IN_PROGRESS" PROVE FALSE
      <3>1. InBudget(rows[i]) /\ rows[i].node \in Nodes /\ def \in Defs
        BY <2>1, RowFacts
      <3> QED
        BY <2>3, <3>1 DEF InBudget, ChildrenRun, Nodes
    <2> QED
      BY <2>2, <2>3 DEF NothingStuck, ChildEndReachesParent
  <1> QED
    BY <1>1, <1>2, <1>3, AccountsAlways, PTL DEF Spec

-----------------------------------------------------------------------------
(* A node is spawned when it is due, when every child execution calls back   *)
(* and no execution is restarted: restart() leaves rows without a nested     *)
(* copy, and a late result of such a row is appended as it arrives.          *)

ChildrenAnswer == \A n \in Nodes : def.task[n].child # "silent"
NoRestarts == "restart" \notin Ops[def]

AllNested(inst, rs) == \A i \in DOMAIN rs : \E k \in DOMAIN inst : inst[k].id = i

(* What a node depends on has ended in these instances. *)
Due(inst, n) ==
    IF def.join[n] # {}
    THEN \A p \in def.join[n] : n \in def.any
             \/ \E k \in DOMAIN inst : inst[k].node = p /\ IsTerminalTask(inst[k].st)
    ELSE Incoming(n) # {} =>
             \E e \in Incoming(n) : \E k \in DOMAIN inst : inst[k].node = e.from /\ Done(inst[k].st)

IsNew(B, i) == ~\E k \in DOMAIN B : B[k].id = i.id
NewAreDue(B, inst) ==
    \A q \in DOMAIN inst :
        IsNew(B, inst[q]) /\ inst[q].st # "SKIPPED" => Due(inst, inst[q].node)

DueMachines(B) ==
    {m \in Machines : /\ m.pc # "lost" /\ m.ex.status # "PAUSED" /\ AllNested(m.ex.inst, m.rows)
                      /\ NewAreDue(B, m.ex.inst)
                      /\ m.pc \in {"skip", "spawn"} => \A p \in m.todo : Due(m.ex.inst, def.nodes[p])}

LEMMA EligibleIsDue ==
  ASSUME NEW ex, NEW n, Eligible(ex, n)
  PROVE  Due(ex.inst, n)
  <1>1. \A p : \A i \in FindInstance(ex, p) : \E k \in DOMAIN ex.inst : ex.inst[k] = i /\ i.node = p
    BY DEF FindInstance
  <1>2. CASE def.join[n] # {}
    <2>1. JoinReady(ex, n)
      BY <1>2 DEF Eligible
    <2> QED
      BY <1>1, <1>2, <2>1 DEF JoinReady, Due
  <1>3. CASE def.join[n] = {}
    <2>1. Incoming(n) = {} \/ \E e \in Incoming(n) : Satisfied(ex, e)
      BY <1>3 DEF Eligible
    <2> QED
      BY <1>1, <1>3, <2>1 DEF Satisfied, Due
  <1> QED
    BY <1>2, <1>3

(* More instances make no node less due. *)
LEMMA DueGrows ==
  ASSUME NEW m \in Machines, NEW k, NEW x, Grows(m, k, x), NEW n, Due(m.ex.inst, n)
  PROVE  Due(k.ex.inst, n)
  <1>1. \A q \in DOMAIN m.ex.inst : q \in DOMAIN k.ex.inst /\ k.ex.inst[q] = m.ex.inst[q]
    BY GrownFacts
  <1>2. \A p : (\E q \in DOMAIN m.ex.inst : m.ex.inst[q].node = p /\ IsTerminalTask(m.ex.inst[q].st))
            => \E q \in DOMAIN k.ex.inst : k.ex.inst[q].node = p /\ IsTerminalTask(k.ex.inst[q].st)
    BY <1>1
  <1>3. \A p : (\E q \in DOMAIN m.ex.inst : m.ex.inst[q].node = p /\ Done(m.ex.inst[q].st))
            => \E q \in DOMAIN k.ex.inst : k.ex.inst[q].node = p /\ Done(k.ex.inst[q].st)
    BY <1>1
  <1>4. CASE def.join[n] # {}
    BY <1>2, <1>4 DEF Due
  <1>5. CASE def.join[n] = {}
    BY <1>3, <1>5 DEF Due
  <1> QED
    BY <1>4, <1>5

LEMMA NestedGrows ==
  ASSUME NEW m \in Machines, NEW k, NEW x, Grows(m, k, x), AllNested(m.ex.inst, m.rows)
  PROVE  AllNested(k.ex.inst, k.rows)
  <1>1. ASSUME NEW i \in DOMAIN k.rows PROVE \E q \in DOMAIN k.ex.inst : k.ex.inst[q].id = i
    <2>1. CASE i = x.id
      <3>1. PICK q \in DOMAIN k.ex.inst : k.ex.inst[q] = x
        BY GrownFacts
      <3> QED
        BY <2>1, <3>1
    <2>2. CASE i \in DOMAIN m.rows
      <3>1. PICK q \in DOMAIN m.ex.inst : m.ex.inst[q].id = i
        BY <2>2 DEF AllNested
      <3>2. q \in DOMAIN k.ex.inst /\ k.ex.inst[q] = m.ex.inst[q]
        BY GrownFacts
      <3> QED
        BY <3>1, <3>2
    <2> QED
      BY <2>1, <2>2, GrownFacts
  <1> QED
    BY <1>1 DEF AllNested

LEMMA NewGrows ==
  ASSUME NEW B, NEW m \in Machines, NEW k, NEW x, Grows(m, k, x), NewAreDue(B, m.ex.inst),
         x.st = "SKIPPED" \/ Due(m.ex.inst, x.node)
  PROVE  NewAreDue(B, k.ex.inst)
  <1>1. ASSUME NEW q \in DOMAIN k.ex.inst, IsNew(B, k.ex.inst[q]), k.ex.inst[q].st # "SKIPPED"
        PROVE  Due(k.ex.inst, k.ex.inst[q].node)
    <2>1. CASE k.ex.inst[q] = x
      BY <1>1, <2>1, DueGrows
    <2>2. CASE q \in DOMAIN m.ex.inst /\ k.ex.inst[q] = m.ex.inst[q]
      <3>1. Due(m.ex.inst, m.ex.inst[q].node)
        BY <1>1, <2>2 DEF NewAreDue
      <3>2. PICK n : n = m.ex.inst[q].node
        OBVIOUS
      <3>3. Due(k.ex.inst, n)
        BY <3>1, <3>2, DueGrows
      <3> QED
        BY <2>2, <3>2, <3>3
    <2> QED
      BY <2>1, <2>2, GrownFacts
  <1> QED
    BY <1>1 DEF NewAreDue

LEMMA NoLoss ==
  ASSUME def \in Defs, ChildrenAnswer, NEW m \in Machines, NEW k
  PROVE  ~Loses(m, k)
  <1> SUFFICES ASSUME Loses(m, k) PROVE FALSE
    OBVIOUS
  <1>1. Turn(m) \in Nodes /\ def.task[Turn(m)].child = "silent"
    BY MachineFields, TurnFacts DEF Loses, Turn
  <1> QED
    BY <1>1 DEF ChildrenAnswer, Nodes

LEMMA DueStep ==
  ASSUME def \in Defs, ChildrenAnswer, NEW B, NEW m \in DueMachines(B)
  PROVE  AdvanceStep(m) \in DueMachines(B)
  <1>1. PICK k : k = AdvanceStep(m)
    OBVIOUS
  <1>2. m \in Machines /\ k \in Machines /\ Moves(m, k)
    BY <1>1, StepMoves DEF DueMachines
  <1>3. /\ m.pc # "lost" /\ m.ex.status # "PAUSED" /\ AllNested(m.ex.inst, m.rows)
        /\ NewAreDue(B, m.ex.inst)
        /\ m.pc \in {"skip", "spawn"} => \A p \in m.todo : Due(m.ex.inst, def.nodes[p])
    BY DEF DueMachines
  <1>4. CASE k = m
    BY <1>1, <1>4
  <1>5. CASE Stops(m, k) \/ Ends(m, k)
    <2>1. /\ k.pc = "done" /\ k.rows = m.rows /\ k.ex.inst = m.ex.inst /\ k.ex.status # "PAUSED"
      BY <1>3, <1>5 DEF Stops, Ends, Same
    <2> QED
      BY <1>1, <1>2, <1>3, <2>1 DEF DueMachines
  <1>6. CASE Plans(m, k)
    <2>1. k.pc = "skip" /\ k.ex = m.ex /\ k.rows = m.rows
      BY <1>6 DEF Plans, Same
    <2>2. \A p \in k.todo : Due(k.ex.inst, def.nodes[p])
      BY <1>6, <2>1, EligibleIsDue DEF Plans
    <2> QED
      BY <1>1, <1>2, <1>3, <2>1, <2>2 DEF DueMachines
  <1>7. CASE SkipsEnd(m, k) \/ Passes(m, k)
    <2>1. /\ k.pc # "lost" /\ k.rows = m.rows /\ k.ex = m.ex /\ k.todo \subseteq m.todo
          /\ m.pc \in {"skip", "spawn"}
      BY <1>7 DEF SkipsEnd, Passes, Same
    <2> QED
      BY <1>1, <1>2, <1>3, <2>1 DEF DueMachines
  <1>8. ASSUME NEW x, Grows(m, k, x), m.pc \in {"skip", "spawn"}, k.pc # "lost", k.ex.status # "PAUSED",
               x.st = "SKIPPED" \/ Due(m.ex.inst, x.node), k.todo \subseteq m.todo \/ k.pc \in {"done", "silent", "advance"}
        PROVE  k \in DueMachines(B)
    <2>1. AllNested(k.ex.inst, k.rows) /\ NewAreDue(B, k.ex.inst)
      BY <1>2, <1>3, <1>8, NestedGrows, NewGrows
    <2>2. \A p \in m.todo : Due(k.ex.inst, def.nodes[p])
      BY <1>2, <1>3, <1>8, DueGrows
    <2> QED
      BY <1>2, <1>8, <2>1, <2>2 DEF DueMachines
  <1>9. ASSUME NEW x, Skips(m, k, x) PROVE k \in DueMachines(B)
    <2>1. /\ Grows(m, k, x) /\ m.pc = "skip" /\ k.pc = "skip" /\ k.ex.status # "PAUSED"
          /\ x.st = "SKIPPED" /\ k.todo = m.todo
      BY <1>3, <1>9 DEF Skips
    <2> QED
      BY <1>8, <2>1
  <1>10. ASSUME NEW x, Spawns(m, k, x) PROVE k \in DueMachines(B)
    <2>1. /\ Grows(m, k, x) /\ m.pc = "spawn" /\ m.todo # {} /\ x.node = def.nodes[Min(m.todo)]
      BY <1>10 DEF Spawns, Turn
    <2>2. Min(m.todo) \in m.todo
      BY <1>2, <2>1, MachineFields, TurnFacts
    <2>3. Due(m.ex.inst, x.node)
      BY <1>3, <2>1, <2>2
    <2>4. k.pc # "lost" /\ k.ex.status # "PAUSED"
      BY <1>3, <1>10 DEF Spawns, Waits, Answers, Fails, Terminates, IsTerminal
    <2>5. k.todo \subseteq m.todo \/ k.pc \in {"done", "silent", "advance"}
      BY <1>10 DEF Spawns, Waits, Answers, Fails, Terminates
    <2> QED
      BY <1>8, <2>1, <2>3, <2>4, <2>5
  <1>11. ~Loses(m, k)
    BY <1>2, NoLoss
  <1> QED
    BY <1>1, <1>2, <1>4, <1>5, <1>6, <1>7, <1>9, <1>10, <1>11 DEF Moves

LEMMA DueAdvance ==
  ASSUME Shape, ChildrenAnswer, NEW ex, NEW rs, Advances(ex, rs), AllNested(ex.inst, rs),
         ex.status = "RUNNING"
  PROVE  exec'.status # "PAUSED" /\ AllNested(exec'.inst, rows') /\ NewAreDue(ex.inst, exec'.inst)
  <1>1. PICK b : b = Machine(ex, rs)
    OBVIOUS
  <1>2. b \in Machines /\ b.ex = ex /\ b.rows = rs /\ b.pc = "advance"
    BY <1>1, MachineIs DEF Advances
  <1>3. NewAreDue(ex.inst, ex.inst)
    BY DEF NewAreDue, IsNew
  <1>4. PICK X : X = DueMachines(ex.inst)
    OBVIOUS
  <1>5. b \in X
    BY <1>2, <1>3, <1>4 DEF DueMachines
  <1>6. \A k \in X : AdvanceStep(k) \in X
    BY <1>4, DueStep DEF Shape
  <1>7. Advance(b) \in X
    BY <1>5, <1>6, AdvanceIn DEF Shape
  <1>8. PICK m \in DueMachines(ex.inst) : m = Advance(b)
    BY <1>4, <1>7
  <1>9. m.pc # "lost" /\ m.ex.status # "PAUSED" /\ AllNested(m.ex.inst, m.rows) /\ NewAreDue(ex.inst, m.ex.inst)
    BY DEF DueMachines
  <1>10. exec' = m.ex /\ rows' = m.rows
    BY <1>1, <1>8, <1>9 DEF Advances, Commit
  <1> QED
    BY <1>9, <1>10

(* Without restarts a step keeps the instances there are, or calls advance() *)
(* on a running execution that has the same ones.                            *)
LEMMA AlignedSteps ==
  ASSUME Shape, AllNested(exec.inst, rows), NoRestarts, [Next]_vars
  PROVE  \/ Aligned(exec', rows') /\ (exec' = exec \/ exec'.status # "COMPLETED")
         \/ \E ex, rs : Advances(ex, rs) /\ ex.status = "RUNNING" /\ Aligned(ex, rs)
  <1> DEFINE Goal == \/ Aligned(exec', rows') /\ (exec' = exec \/ exec'.status # "COMPLETED")
                     \/ \E ex, rs : Advances(ex, rs) /\ ex.status = "RUNNING" /\ Aligned(ex, rs)
  <1> HIDE DEF Goal
  <1> SUFFICES Goal
    BY DEF Goal
  <1>1. Steps
    BY NextSteps
  <1>2. /\ exec \in Execs /\ exec.inst \in Seq(Sound) /\ rows \in Seq(Sound) /\ Numbered(exec.inst, rows)
        /\ started = 0 => exec.status = "none" /\ exec.inst = <<>>
        /\ def \in Defs
    BY DEF Shape, Stored, Execs
  <1>3. ASSUME NEW i, Named(i), NEW rs \in {rows, Put(rows, i)}
        PROVE  /\ Aligned(SyncInstance(exec, i), rs) /\ DOMAIN Put(rows, i) = DOMAIN rows
               /\ DOMAIN Sync(exec.inst, i) = DOMAIN exec.inst
               /\ \A k \in DOMAIN exec.inst : /\ Sync(exec.inst, i)[k].id = exec.inst[k].id
                                              /\ Sync(exec.inst, i)[k].node = exec.inst[k].node
    <2>1. i.id \in DOMAIN rows /\ i.node = rows[i.id].node
      BY <1>3 DEF Named
    <2>2. \E k \in DOMAIN exec.inst : exec.inst[k].id = i.id
      BY <2>1 DEF AllNested
    <2>3. PICK Q : Q = Sync(exec.inst, i)
      OBVIOUS
    <2>4. DOMAIN Q = DOMAIN exec.inst
          /\ \A k \in DOMAIN exec.inst : Q[k] = IF exec.inst[k].id = i.id THEN i ELSE exec.inst[k]
      BY <1>3, <2>2, <2>3, SyncElements
    <2>5. \A k \in DOMAIN exec.inst : exec.inst[k].id = i.id => exec.inst[k].node = i.node
      BY <1>2, <2>1 DEF Numbered
    <2>6. \A k \in DOMAIN exec.inst : Q[k].id = exec.inst[k].id /\ Q[k].node = exec.inst[k].node
      BY <2>4, <2>5
    <2>7. SyncInstance(exec, i).inst = Q
      BY <1>3, <2>3, SyncNamed
    <2>8. DOMAIN Put(rows, i) = DOMAIN rows
      BY <1>2, <2>1 DEF Put
    <2>9. Aligned(SyncInstance(exec, i), rs)
      BY <1>3, <2>4, <2>6, <2>7, <2>8 DEF Aligned
    <2> QED
      BY <2>3, <2>4, <2>6, <2>8, <2>9
  <1>4. CASE Idle
    BY <1>4 DEF Goal, Idle, Quiet, Aligned
  <1>5. CASE Pause \/ Terminate
    <2>1. exec'.inst = exec.inst /\ rows' = rows /\ exec'.status # "COMPLETED"
      BY <1>2, <1>5 DEF Pause, Terminate, Execs
    <2> QED
      BY <2>1 DEF Goal, Aligned
  <1>6. CASE Looks
    <2>1. CASE exec.status = "RUNNING"
      BY <1>6, <2>1 DEF Goal, Looks, Aligned
    <2>2. CASE exec.status # "RUNNING"
      <3>1. IsTerminal(exec.status) \/ exec.status = "PAUSED"
        BY <1>2, <1>6, <2>2 DEF Looks, Execs, Statuses, IsTerminal
      <3>2. exec' = exec /\ rows' = rows
        BY <1>6, <3>1, NotAdvanced DEF Looks
      <3> QED
        BY <3>2 DEF Goal, Aligned
    <2> QED
      BY <2>1, <2>2
  <1>7. ASSUME NEW r, Queues(r) \/ Drops(r) PROVE Goal
    <2>1. exec' = exec /\ rows' = [rows EXCEPT ![r.id] = r]
      BY <1>7 DEF Queues, Drops, Quiet, Replaces
    <2>2. DOMAIN rows' = DOMAIN rows
      BY <2>1
    <2> QED
      BY <2>1, <2>2 DEF Goal, Aligned
  <1>8. ASSUME NEW j, FailsTask(j) PROVE Goal
    <2>1. Named(j) /\ exec'.inst = Sync(exec.inst, j) /\ rows' = Put(rows, j) /\ exec'.status # "COMPLETED"
      BY <1>8 DEF FailsTask, Over, IsTerminal
    <2> QED
      BY <1>3, <2>1 DEF Goal, Aligned
  <1>9. ASSUME NEW i, Parks(i) PROVE Goal
    <2>1. /\ Named(i) /\ exec' = SyncInstance(exec, i) /\ rows' = Put(rows, i)
          /\ exec.status # "COMPLETED"
      BY <1>9 DEF Parks, Known, Over, IsTerminal
    <2>2. exec'.status = exec.status
      BY <2>1, SyncNamed
    <2> QED
      BY <1>3, <2>1, <2>2 DEF Goal
  <1>10. ASSUME NEW ex, NEW rs, NEW i, Completes(ex, rs, i) PROVE Goal
    <2>1. /\ ~Over /\ Named(i) /\ rs \in {rows, Put(rows, i)} /\ Advances(ex, rs) /\ ex = SyncInstance(exec, i)
      BY <1>10 DEF Completes, Known
    <2>2. Aligned(ex, rs) /\ ex.status = exec.status
      BY <1>3, <2>1, SyncNamed
    <2>3. CASE exec.status = "RUNNING"
      BY <2>1, <2>2, <2>3 DEF Goal
    <2>4. CASE exec.status # "RUNNING"
      <3>1. ex.status = "PAUSED"
        BY <1>2, <2>1, <2>2, <2>4 DEF Over, Execs, Statuses, IsTerminal
      <3>2. exec' = ex /\ rows' = rs
        BY <2>1, <3>1, NotAdvanced
      <3> QED
        BY <2>2, <3>1, <3>2 DEF Goal
    <2> QED
      BY <2>3, <2>4
  <1>11. ASSUME NEW ex, Starts(ex) PROVE Goal
    <2>1. ex.status = "RUNNING" /\ ex.inst = exec.inst /\ Advances(ex, rows)
      BY <1>2, <1>11 DEF Starts
    <2> QED
      BY <2>1 DEF Goal, Aligned
  <1>12. ASSUME NEW ex, Resumes(ex) PROVE Goal
    <2>1. ex.status = "RUNNING" /\ ex.inst = exec.inst /\ Advances(ex, rows)
      BY <1>2, <1>12 DEF Resumes, Execs
    <2> QED
      BY <2>1 DEF Goal, Aligned
  <1>13. ASSUME NEW ex, NEW rs, Revives(ex, rs) PROVE Goal
    BY <1>2, <1>13 DEF Goal, Revives, NoRestarts
  <1> QED
    BY <1>1, <1>4, <1>5, <1>6, <1>7, <1>8, <1>9, <1>10, <1>11, <1>12, <1>13 DEF Steps, Settles

LEMMA AlignedNested ==
  ASSUME AllNested(exec.inst, rows), NEW ex, NEW rs, Aligned(ex, rs)
  PROVE  AllNested(ex.inst, rs) /\ \A i : IsNew(exec.inst, i) <=> IsNew(ex.inst, i)
  BY DEF Aligned, AllNested, IsNew

LEMMA DueSteps ==
  ASSUME Shape, AllNested(exec.inst, rows), ChildrenAnswer, NoRestarts, [Next]_vars
  PROVE  /\ AllNested(exec'.inst, rows') /\ NewAreDue(exec.inst, exec'.inst)
         /\ exec'.status = "PAUSED" => DOMAIN rows' = DOMAIN rows /\ DOMAIN exec'.inst = DOMAIN exec.inst
  <1>1. CASE Aligned(exec', rows')
    <2>1. AllNested(exec'.inst, rows') /\ \A q \in DOMAIN exec'.inst : ~IsNew(exec'.inst, exec'.inst[q])
      BY <1>1, AlignedNested DEF IsNew
    <2>2. \A q \in DOMAIN exec'.inst : ~IsNew(exec.inst, exec'.inst[q])
      BY <1>1, <2>1, AlignedNested
    <2> QED
      BY <1>1, <2>1, <2>2 DEF NewAreDue, Aligned
  <1>2. ASSUME NEW ex, NEW rs, Advances(ex, rs), ex.status = "RUNNING", Aligned(ex, rs)
        PROVE  AllNested(exec'.inst, rows') /\ NewAreDue(exec.inst, exec'.inst) /\ exec'.status # "PAUSED"
    <2>1. AllNested(ex.inst, rs) /\ \A i : IsNew(exec.inst, i) <=> IsNew(ex.inst, i)
      BY <1>2, AlignedNested
    <2>2. exec'.status # "PAUSED" /\ AllNested(exec'.inst, rows') /\ NewAreDue(ex.inst, exec'.inst)
      BY <1>2, <2>1, DueAdvance
    <2> QED
      BY <2>1, <2>2 DEF NewAreDue
  <1> QED
    BY <1>1, <1>2, AlignedSteps

Twins == Accounts /\ AllNested(exec.inst, rows) /\ ChildrenAnswer /\ NoRestarts

LEMMA TwinsAlways == ChildrenAnswer /\ NoRestarts /\ Spec => []Twins
  <1>1. ChildrenAnswer /\ NoRestarts /\ Init => Twins
    <2> SUFFICES ASSUME ChildrenAnswer, NoRestarts, Init PROVE Twins
      OBVIOUS
    <2>1. rows = <<>>
      BY DEF Init
    <2> QED
      BY <2>1, AccountsInit DEF Twins, AllNested
  <1>2. Twins /\ [Next]_vars => Twins'
    <2> SUFFICES ASSUME Twins, [Next]_vars PROVE Twins'
      OBVIOUS
    <2>1. AllNested(exec'.inst, rows')
      BY DueSteps DEF Twins, Accounts
    <2>2. AllNested(exec.inst, rows)'
      BY <2>1 DEF AllNested
    <2>3. def' = def
      BY NextSteps DEF Twins, Accounts
    <2>4. (ChildrenAnswer /\ NoRestarts)'
      BY <2>3 DEF Twins, ChildrenAnswer, NoRestarts, Nodes
    <2> QED
      BY <2>2, <2>4, AccountsStep DEF Twins
  <1> QED
    BY <1>1, <1>2, PTL DEF Spec

(* A node starts only after what it depends on: when its instance appears, an *)
(* edge into it has a done source or its join is ready; and a paused          *)
(* execution spawns nothing, whatever completes in the meantime.              *)
THEOREM SpawnsAreDue == ChildrenAnswer /\ NoRestarts /\ Spec => SpawnsWhenDue
  <1> DEFINE
       InOrder == Unrevived => \A i \in ToSet(exec'.inst) :
           (i.st # "SKIPPED" /\ ~\E j \in ToSet(exec.inst) : j.id = i.id) =>
               IF def.join[i.node] # {}
               THEN \A p \in def.join[i.node] : i.node \in def.any
                        \/ \E k \in ToSet(exec'.inst) : k.node = p /\ IsTerminalTask(k.st)
               ELSE Incoming(i.node) # {} =>
                        \E e \in Incoming(i.node) : \E k \in ToSet(exec'.inst) :
                            k.node = e.from /\ Done(k.st)
       Nothing == exec.status = "PAUSED" /\ exec'.status = "PAUSED"
           => Len(rows') = Len(rows) /\ Len(exec'.inst) = Len(exec.inst)
  <1>1. Twins /\ Accounts' /\ [Next]_vars => InOrder
    <2> SUFFICES ASSUME Twins, [Next]_vars, NEW i \in ToSet(exec'.inst), i.st # "SKIPPED",
                        ~\E j \in ToSet(exec.inst) : j.id = i.id
                 PROVE  IF def.join[i.node] # {}
                        THEN \A p \in def.join[i.node] : i.node \in def.any
                                 \/ \E k \in ToSet(exec'.inst) : k.node = p /\ IsTerminalTask(k.st)
                        ELSE Incoming(i.node) # {} =>
                                 \E e \in Incoming(i.node) : \E k \in ToSet(exec'.inst) :
                                     k.node = e.from /\ Done(k.st)
      OBVIOUS
    <2>1. NewAreDue(exec.inst, exec'.inst)
      BY DueSteps DEF Twins, Accounts
    <2>2. PICK q \in DOMAIN exec'.inst : i = exec'.inst[q]
      BY DEF ToSet
    <2>3. IsNew(exec.inst, i)
      BY DEF IsNew, ToSet
    <2>4. Due(exec'.inst, i.node)
      BY <2>1, <2>2, <2>3 DEF NewAreDue
    <2>5. \A k \in DOMAIN exec'.inst : exec'.inst[k] \in ToSet(exec'.inst)
      BY DEF ToSet
    <2>6. CASE def.join[i.node] # {}
      BY <2>4, <2>5, <2>6 DEF Due
    <2>7. CASE def.join[i.node] = {}
      BY <2>4, <2>5, <2>7 DEF Due
    <2> QED
      BY <2>6, <2>7
  <1>2. Twins /\ Accounts' /\ [Next]_vars => Nothing
    <2> SUFFICES ASSUME Twins, Accounts', [Next]_vars, exec'.status = "PAUSED"
                 PROVE  Len(rows') = Len(rows) /\ Len(exec'.inst) = Len(exec.inst)
      OBVIOUS
    <2>1. DOMAIN rows' = DOMAIN rows /\ DOMAIN exec'.inst = DOMAIN exec.inst
      BY DueSteps DEF Twins, Accounts
    <2>2. rows \in Seq(Sound) /\ exec.inst \in Seq(Sound) /\ rows' \in Seq(Sound') /\ exec'.inst \in Seq(Sound')
      BY DEF Twins, Accounts, Shape, Stored, Execs
    <2>3. /\ DOMAIN rows = 1..Len(rows) /\ Len(rows) \in Nat
          /\ DOMAIN exec.inst = 1..Len(exec.inst) /\ Len(exec.inst) \in Nat
      BY <2>2
    <2>4. /\ DOMAIN rows' = 1..Len(rows') /\ Len(rows') \in Nat
          /\ DOMAIN exec'.inst = 1..Len(exec'.inst) /\ Len(exec'.inst) \in Nat
      BY <2>2
    <2>5. \A a, b \in Nat : 1..a = 1..b => a = b
      OBVIOUS
    <2> QED
      BY <2>1, <2>3, <2>4, <2>5
  <1> QED
    BY <1>1, <1>2, TwinsAlways, AccountsAlways, PTL
       DEF Spec, SpawnsWhenDue, SpawnsInOrder, PausedSpawnsNothing

-----------------------------------------------------------------------------
(* One instance per node, and COMPLETED only on the whole DAG: for nodes     *)
(* whose references differ (TaskNode::validate() leaves that to the caller). *)

DistinctNodes == \A p, q \in DOMAIN def.nodes : def.nodes[p] = def.nodes[q] => p = q

OneEach(inst) == \A j, k \in DOMAIN inst : inst[j].node = inst[k].node => j = k
Unspawned(inst, S) == \A p \in S : \A k \in DOMAIN inst : inst[k].node # def.nodes[p]
Covered(ex) ==
    ex.status = "COMPLETED" /\ (\A n \in Nodes : Kind(n) # "TERMINATE")
        => \A n \in Nodes : \E k \in DOMAIN ex.inst : ex.inst[k].node = n /\ Done(ex.inst[k].st)

OneMachines ==
    {m \in Machines : /\ OneEach(m.ex.inst) /\ Covered(m.ex)
                      /\ m.pc = "skip" => Unspawned(m.ex.inst, m.skips) /\ m.skips \cap m.todo = {}
                      /\ m.pc \in {"skip", "spawn"} => Unspawned(m.ex.inst, m.todo)}

(* As many instances as nodes, no two of one node: every node has one. *)
LEMMA EveryNode ==
  ASSUME def \in Defs, NEW q \in Seq(Sound), OneEach(q), Len(q) >= Len(def.nodes), NEW n \in Nodes
  PROVE  \E k \in DOMAIN q : q[k].node = n
  <1> SUFFICES ASSUME \A k \in DOMAIN q : q[k].node # n PROVE FALSE
    OBVIOUS
  <1>1. PICK l \in Nat : l = Len(def.nodes)
    BY NodesFacts
  <1>2. \A o \in Nodes : \E p \in 1..l : def.nodes[p] = o
    BY <1>1, NodesFacts
  <1>3. PICK c \in 1..l : def.nodes[c] = n
    BY <1>2
  <1>4. DOMAIN q = 1..Len(q) /\ Len(q) \in Nat /\ \A k \in DOMAIN q : q[k].node \in Nodes
    BY DEF Sound, Record
  <1> DEFINE T == (1..l) \ {c}
             f == [k \in 1..Len(q) |-> CHOOSE p \in 1..l : def.nodes[p] = q[k].node]
  <1>5. \A k \in 1..Len(q) : f[k] \in 1..l /\ def.nodes[f[k]] = q[k].node
    <2> SUFFICES ASSUME NEW k \in 1..Len(q) PROVE f[k] \in 1..l /\ def.nodes[f[k]] = q[k].node
      OBVIOUS
    <2>1. \E p \in 1..l : def.nodes[p] = q[k].node
      BY <1>2, <1>4
    <2> QED
      BY <2>1
  <1>6. f \in [1..Len(q) -> T]
    <2>1. \A k \in 1..Len(q) : f[k] \in T
      BY <1>3, <1>4, <1>5
    <2>2. f = [k \in 1..Len(q) |-> f[k]]
      OBVIOUS
    <2> HIDE DEF f, T
    <2> QED
      BY <2>1, <2>2
  <1>7. IsFiniteSet(1..l) /\ Cardinality(1..l) = l
    BY FS_Interval
  <1>8. IsFiniteSet(T) /\ Cardinality(T) = l - 1
    BY <1>7, FS_RemoveElement
  <1>9. IsFiniteSet(1..Len(q)) /\ Cardinality(1..Len(q)) = Len(q)
    <2>1. PICK h \in Nat : h = Len(q)
      BY <1>4
    <2>2. IsFiniteSet(1..h) /\ Cardinality(1..h) = h
      BY FS_Interval
    <2> QED
      BY <2>1, <2>2
  <1> HIDE DEF f, T
  <1>10. Cardinality(T) < Cardinality(1..Len(q))
    BY <1>1, <1>4, <1>8, <1>9
  <1>11. PICK x, y \in 1..Len(q) : x # y /\ f[x] = f[y]
    <2>1. PICK S : S = 1..Len(q)
      OBVIOUS
    <2> QED
      BY <1>6, <1>8, <1>9, <1>10, <2>1, FS_PigeonHole
  <1>12. q[x].node = q[y].node
    BY <1>5, <1>11
  <1> QED
    BY <1>4, <1>11, <1>12 DEF OneEach

LEMMA OneGrows ==
  ASSUME NEW m \in Machines, NEW k, NEW x, Grows(m, k, x), OneEach(m.ex.inst),
         \A q \in DOMAIN m.ex.inst : m.ex.inst[q].node # x.node
  PROVE  OneEach(k.ex.inst)
  <1>1. /\ \A q \in DOMAIN k.ex.inst : k.ex.inst[q] = x \/ (q \in DOMAIN m.ex.inst /\ k.ex.inst[q] = m.ex.inst[q])
        /\ \A q \in DOMAIN m.ex.inst : q \in DOMAIN k.ex.inst /\ k.ex.inst[q] = m.ex.inst[q]
    BY GrownFacts
  <1>2. \A q \in DOMAIN k.ex.inst : q \notin DOMAIN m.ex.inst => q = Len(m.ex.inst) + 1
    <2>1. m.ex.inst \in Seq(Sound) /\ k.ex.inst = Append(m.ex.inst, x)
      BY MachineFields DEF Grows
    <2> QED
      BY <2>1
  <1> QED
    BY <1>1, <1>2 DEF OneEach

LEMMA CoveredGrows ==
  ASSUME NEW m \in Machines, NEW k, NEW x, Grows(m, k, x), Covered(m.ex), k.ex.status = m.ex.status
  PROVE  Covered(k.ex)
  <1>1. \A q \in DOMAIN m.ex.inst : q \in DOMAIN k.ex.inst /\ k.ex.inst[q] = m.ex.inst[q]
    BY GrownFacts
  <1> QED
    BY <1>1 DEF Covered

LEMMA UnspawnedGrows ==
  ASSUME NEW m \in Machines, NEW k, NEW x, Grows(m, k, x), NEW S, Unspawned(m.ex.inst, S),
         \A p \in S : def.nodes[p] # x.node
  PROVE  Unspawned(k.ex.inst, S)
  <1>1. \A q \in DOMAIN k.ex.inst : k.ex.inst[q] = x \/ (q \in DOMAIN m.ex.inst /\ k.ex.inst[q] = m.ex.inst[q])
    BY GrownFacts
  <1> QED
    BY <1>1 DEF Unspawned

(* Nothing is both eligible and skippable, nor spawned yet when planned. *)
LEMMA PlannedFacts ==
  ASSUME NEW ex, ex.inst \in Seq(Sound), NEW n
  PROVE  /\ ~(Eligible(ex, n) /\ Skippable(ex, n))
         /\ Eligible(ex, n) \/ Skippable(ex, n) => \A k \in DOMAIN ex.inst : ex.inst[k].node # n
  <1>1. ~(Eligible(ex, n) /\ Skippable(ex, n))
    BY DEF Eligible, Skippable
  <1>2. ASSUME ~Spawned(ex, n), NEW k \in DOMAIN ex.inst, ex.inst[k].node = n PROVE FALSE
    <2> DEFINE S == {j \in DOMAIN ex.inst : ex.inst[j].node = n}
    <2>1. DOMAIN ex.inst = 1..Len(ex.inst) /\ Len(ex.inst) \in Nat
      OBVIOUS
    <2>2. S \subseteq Nat /\ k \in S
      BY <1>2, <2>1
    <2>3. PICK f \in S : \A j \in S : f <= j
      BY <2>2, Least
    <2>4. f \in DOMAIN ex.inst /\ ex.inst[f].node = n /\ \A j \in 1..(f - 1) : ex.inst[j].node # n
      BY <2>1, <2>3
    <2>5. ex.inst[f] \in FindInstance(ex, n)
      BY <2>4 DEF FindInstance
    <2> QED
      BY <1>2, <2>5 DEF Spawned
  <1> QED
    BY <1>1, <1>2 DEF Eligible, Skippable

LEMMA OneStep ==
  ASSUME def \in Defs, DistinctNodes, NEW m \in OneMachines
  PROVE  AdvanceStep(m) \in OneMachines
  <1>1. PICK k : k = AdvanceStep(m)
    OBVIOUS
  <1>2. m \in Machines /\ k \in Machines /\ Moves(m, k)
    BY <1>1, StepMoves DEF OneMachines
  <1>3. /\ OneEach(m.ex.inst) /\ Covered(m.ex)
        /\ m.pc = "skip" => Unspawned(m.ex.inst, m.skips) /\ m.skips \cap m.todo = {}
        /\ m.pc \in {"skip", "spawn"} => Unspawned(m.ex.inst, m.todo)
    BY DEF OneMachines
  <1>4. m.ex \in Execs /\ m.ex.inst \in Seq(Sound) /\ m.skips \subseteq Places /\ m.todo \subseteq Places
    BY <1>2, MachineFields
  <1>5. \A p, q \in Places : def.nodes[p] = def.nodes[q] => p = q
    BY NodesFacts DEF DistinctNodes, Places
  <1>6. CASE k = m
    BY <1>1, <1>6
  <1>7. CASE Stops(m, k) \/ Loses(m, k)
    BY <1>1, <1>2, <1>3, <1>7 DEF Stops, Loses, Same, OneMachines
  <1>8. CASE Ends(m, k)
    <2>1. k.pc = "done" /\ k.ex.inst = m.ex.inst
      BY <1>8 DEF Ends
    <2>2. Covered(k.ex)
      <3>1. CASE Same(m, k)
        BY <1>3, <3>1 DEF Same
      <3>2. CASE ~Same(m, k)
        <4>1. Len(m.ex.inst) >= Len(def.nodes) /\ \A q \in DOMAIN m.ex.inst : Done(m.ex.inst[q].st)
          BY <1>8, <3>2 DEF Ends
        <4>2. ASSUME NEW n \in Nodes PROVE \E q \in DOMAIN m.ex.inst : m.ex.inst[q].node = n
          BY <1>3, <1>4, <4>1, EveryNode
        <4> QED
          BY <2>1, <4>1, <4>2 DEF Covered
      <3> QED
        BY <3>1, <3>2
    <2> QED
      BY <1>1, <1>2, <1>3, <2>1, <2>2 DEF OneMachines
  <1>9. CASE Plans(m, k)
    <2>1. /\ k.pc = "skip" /\ k.ex = m.ex
          /\ k.skips = {p \in Places : Skippable(m.ex, def.nodes[p])}
          /\ k.todo = {p \in Places : Eligible(m.ex, def.nodes[p])}
      BY <1>9 DEF Plans, Same
    <2>2. \A p \in k.skips : \A q \in DOMAIN m.ex.inst : m.ex.inst[q].node # def.nodes[p]
      BY <1>4, <2>1, PlannedFacts
    <2>3. \A p \in k.todo : \A q \in DOMAIN m.ex.inst : m.ex.inst[q].node # def.nodes[p]
      BY <1>4, <2>1, PlannedFacts
    <2>4. k.skips \cap k.todo = {}
      BY <1>4, <2>1, PlannedFacts
    <2> QED
      BY <1>1, <1>2, <1>3, <2>1, <2>2, <2>3, <2>4 DEF OneMachines, Unspawned
  <1>10. CASE SkipsEnd(m, k) \/ Passes(m, k)
    <2>1. k.pc \in {"advance", "spawn"} /\ k.ex = m.ex /\ k.todo \subseteq m.todo /\ m.pc \in {"skip", "spawn"}
      BY <1>10 DEF SkipsEnd, Passes, Same
    <2>2. Unspawned(k.ex.inst, k.todo)
      BY <1>3, <2>1 DEF Unspawned
    <2> QED
      BY <1>1, <1>2, <1>3, <2>1, <2>2 DEF OneMachines
  <1>11. ASSUME NEW x, Skips(m, k, x) PROVE k \in OneMachines
    <2>1. PICK p : p = Min(m.skips)
      OBVIOUS
    <2>2. /\ Grows(m, k, x) /\ m.pc = "skip" /\ k.pc = "skip" /\ k.ex.status = m.ex.status
          /\ m.skips # {} /\ k.skips = m.skips \ {p} /\ k.todo = m.todo /\ x.node = def.nodes[p]
      BY <1>11, <2>1 DEF Skips
    <2>3. p \in m.skips /\ p \in Places
      BY <1>4, <2>1, <2>2, TurnFacts
    <2>4. \A q \in DOMAIN m.ex.inst : m.ex.inst[q].node # x.node
      BY <1>3, <2>2, <2>3 DEF Unspawned
    <2>5. OneEach(k.ex.inst) /\ Covered(k.ex)
      BY <1>2, <1>3, <2>2, <2>4, OneGrows, CoveredGrows
    <2>6. \A r \in (m.skips \cup m.todo) : r # p => def.nodes[r] # x.node
      BY <1>4, <1>5, <2>2, <2>3
    <2>7. p \notin m.todo /\ k.skips \cap k.todo = {}
      BY <1>3, <2>2, <2>3
    <2>8. Unspawned(m.ex.inst, k.skips) /\ Unspawned(m.ex.inst, k.todo)
      BY <1>3, <2>2 DEF Unspawned
    <2>9. \A r \in k.skips : def.nodes[r] # x.node
      BY <2>2, <2>6
    <2>10. \A r \in k.todo : def.nodes[r] # x.node
      BY <2>2, <2>6, <2>7
    <2>11. Unspawned(k.ex.inst, k.skips)
      BY <1>2, <2>2, <2>8, <2>9, UnspawnedGrows
    <2>12. Unspawned(k.ex.inst, k.todo)
      BY <1>2, <2>2, <2>8, <2>10, UnspawnedGrows
    <2> QED
      BY <1>2, <2>2, <2>5, <2>7, <2>11, <2>12 DEF OneMachines
  <1>12. ASSUME NEW x, Spawns(m, k, x) PROVE k \in OneMachines
    <2>1. PICK p : p = Min(m.todo)
      OBVIOUS
    <2>2. Grows(m, k, x) /\ m.pc = "spawn" /\ m.todo # {} /\ x.node = def.nodes[p]
      BY <1>12, <2>1 DEF Spawns, Turn
    <2>3. p \in m.todo /\ p \in Places
      BY <1>4, <2>1, <2>2, TurnFacts
    <2>4. \A q \in DOMAIN m.ex.inst : m.ex.inst[q].node # x.node
      BY <1>3, <2>2, <2>3 DEF Unspawned
    <2>5. OneEach(k.ex.inst)
      BY <1>2, <1>3, <2>2, <2>4, OneGrows
    <2>6. Covered(k.ex)
      <3>1. CASE k.ex.status = m.ex.status
        BY <1>2, <1>3, <2>2, <3>1, CoveredGrows
      <3>2. CASE k.ex.status # m.ex.status
        <4>1. k.ex.status = "FAILED" \/ Kind(x.node) = "TERMINATE"
          BY <1>12, <3>2 DEF Spawns, Waits, Answers, Fails, Terminates
        <4>2. x.node \in Nodes
          BY <2>2, <2>3, NodesFacts DEF Places
        <4> QED
          BY <4>1, <4>2 DEF Covered
      <3> QED
        BY <3>1, <3>2
    <2>7. k.pc \notin {"skip", "spawn"} \/ (k.pc = "spawn" /\ k.todo = m.todo \ {p})
      BY <1>12, <2>1 DEF Spawns, Waits, Answers, Fails, Terminates
    <2>8. ASSUME k.pc = "spawn", k.todo = m.todo \ {p} PROVE Unspawned(k.ex.inst, k.todo)
      <3>1. Unspawned(m.ex.inst, k.todo)
        BY <1>3, <2>2, <2>8 DEF Unspawned
      <3>2. \A r \in k.todo : def.nodes[r] # x.node
        BY <1>4, <1>5, <2>2, <2>3, <2>8
      <3> QED
        BY <1>2, <2>2, <3>1, <3>2, UnspawnedGrows
    <2> QED
      BY <1>2, <2>5, <2>6, <2>7, <2>8 DEF OneMachines
  <1> QED
    BY <1>1, <1>2, <1>6, <1>7, <1>8, <1>9, <1>10, <1>11, <1>12 DEF Moves

LEMMA OneAdvance ==
  ASSUME Shape, ChildrenAnswer, DistinctNodes, NEW ex, NEW rs, Advances(ex, rs),
         AllNested(ex.inst, rs), ex.status = "RUNNING", OneEach(ex.inst)
  PROVE  OneEach(exec'.inst) /\ Covered(exec')
  <1>1. PICK b : b = Machine(ex, rs)
    OBVIOUS
  <1>2. b \in Machines /\ b.ex = ex /\ b.rows = rs /\ b.pc = "advance"
    BY <1>1, MachineIs DEF Advances
  <1>3. PICK X : X = OneMachines \cap DueMachines(ex.inst)
    OBVIOUS
  <1>4. NewAreDue(ex.inst, ex.inst) /\ Covered(ex)
    BY DEF NewAreDue, IsNew, Covered
  <1>5. b \in X
    BY <1>2, <1>3, <1>4 DEF OneMachines, DueMachines
  <1>6. \A k \in X : AdvanceStep(k) \in X
    BY <1>3, OneStep, DueStep DEF Shape
  <1>7. Advance(b) \in X
    BY <1>5, <1>6, AdvanceIn DEF Shape
  <1>8. PICK m \in OneMachines : m = Advance(b) /\ m \in DueMachines(ex.inst)
    BY <1>3, <1>7
  <1>9. m.pc # "lost" /\ OneEach(m.ex.inst) /\ Covered(m.ex)
    BY <1>8 DEF DueMachines, OneMachines
  <1>10. exec' = m.ex
    BY <1>1, <1>8, <1>9 DEF Advances, Commit
  <1> QED
    BY <1>9, <1>10

Exact == Twins /\ DistinctNodes /\ OneEach(exec.inst) /\ Covered(exec)

LEMMA ExactAlways == ChildrenAnswer /\ NoRestarts /\ DistinctNodes /\ Spec => []Exact
  <1>1. Init => OneEach(exec.inst) /\ Covered(exec)
    BY DEF Init, OneEach, Covered
  <1>2. Exact /\ [Next]_vars => (DistinctNodes /\ OneEach(exec.inst) /\ Covered(exec))'
    <2> SUFFICES ASSUME Twins, DistinctNodes, OneEach(exec.inst), Covered(exec), [Next]_vars
                 PROVE  (DistinctNodes /\ OneEach(exec.inst) /\ Covered(exec))'
      BY DEF Exact
    <2>1. Shape /\ AllNested(exec.inst, rows) /\ ChildrenAnswer /\ NoRestarts
      BY DEF Twins, Accounts
    <2>2. def' = def
      BY <2>1, NextSteps
    <2>3. OneEach(exec'.inst) /\ Covered(exec')
      <3>1. CASE Aligned(exec', rows') /\ (exec' = exec \/ exec'.status # "COMPLETED")
        <4>1. OneEach(exec'.inst)
          BY <3>1 DEF Aligned, OneEach
        <4>2. Covered(exec')
          BY <3>1 DEF Covered
        <4> QED
          BY <4>1, <4>2
      <3>2. ASSUME NEW ex, NEW rs, Advances(ex, rs), ex.status = "RUNNING", Aligned(ex, rs)
            PROVE  OneEach(exec'.inst) /\ Covered(exec')
        <4>1. OneEach(ex.inst)
          BY <3>2 DEF Aligned, OneEach
        <4>2. AllNested(ex.inst, rs)
          BY <2>1, <3>2, AlignedNested
        <4> QED
          BY <2>1, <3>2, <4>1, <4>2, OneAdvance
      <3> QED
        BY <2>1, <3>1, <3>2, AlignedSteps
    <2> QED
      BY <2>2, <2>3 DEF OneEach, Covered, Kind, Nodes, DistinctNodes
  <1> QED
    BY <1>1, <1>2, TwinsAlways, PTL DEF Spec, Exact

(* "Every node spawns exactly one instance", and maybe_complete(), which     *)
(* compares counts, is right: a COMPLETED execution without a TERMINATE has  *)
(* a done instance of every node of its definition.  For definitions whose   *)
(* node references differ, without restart() and children that never answer. *)
THEOREM NodesRunOnce ==
  ChildrenAnswer /\ NoRestarts /\ DistinctNodes /\ Spec => [](OneInstancePerNode /\ CompletedCoversDag)
  <1>1. Exact => OneInstancePerNode /\ CompletedCoversDag
    <2> SUFFICES ASSUME Exact PROVE OneInstancePerNode /\ CompletedCoversDag
      OBVIOUS
    <2>1. OneInstancePerNode
      BY DEF Exact, OneEach, OneInstancePerNode
    <2>2. \A k \in DOMAIN exec.inst : exec.inst[k] \in ToSet(exec.inst)
      BY DEF ToSet
    <2>3. CompletedCoversDag
      BY <2>2 DEF Exact, Covered, CompletedCoversDag, Kind
    <2> QED
      BY <2>1, <2>3
  <1> QED
    BY <1>1, ExactAlways, PTL

-----------------------------------------------------------------------------
(* The rate limit.  spawn_with_def() counts the nested copies, and only for   *)
(* worker tasks; a row it does not count is one that waits for a retry, that  *)
(* an operator brings back, or that an advance() never answered has left.     *)

LimitsOnWorkers ==
    \A n, o \in Nodes :
        def.task[n].limit > 0 /\ def.task[o].name = def.task[n].name =>
            /\ def.task[o].limit = def.task[n].limit /\ def.task[o].attempts = 1
            /\ Kind(o) \notin {"HUMAN", "WAIT", "WAIT_SIGNAL", "SUB_WORKFLOW"}
NoRevivals == Ops[def] \cap {"retry", "restart", "rerun"} = {}

Queued(rs, t) == {i \in DOMAIN rs : def.task[rs[i].node].name = t.name /\ ~IsTerminalTask(rs[i].st)}
Within(rs) ==
    \A n \in Nodes : def.task[n].limit > 0 => Cardinality(Queued(rs, def.task[n])) <= def.task[n].limit

(* A row of a limited task that is not terminal has a nested copy that is     *)
(* not, and a retry is armed only where there are attempts for one.           *)
Paired(inst, rs) ==
    \A i \in DOMAIN rs : def.task[rs[i].node].limit > 0 /\ ~IsTerminalTask(rs[i].st)
        => \E k \in DOMAIN inst : inst[k].id = i /\ ~IsTerminalTask(inst[k].st)
Armable(q) == \A k \in DOMAIN q : q[k].armed => 1 < def.task[q[k].node].attempts

PairedMachines ==
    {m \in Machines : /\ m.pc # "lost" /\ Within(m.rows) /\ Paired(m.ex.inst, m.rows)
                      /\ Armable(m.rows) /\ Armable(m.ex.inst)}

LEMMA QueuedFinite ==
  ASSUME NEW rs \in Seq(Sound), NEW t
  PROVE  IsFiniteSet(Queued(rs, t)) /\ Cardinality(Queued(rs, t)) \in Nat
  <1>1. PICK h \in Nat : h = Len(rs)
    OBVIOUS
  <1>2. IsFiniteSet(1..h)
    BY FS_Interval
  <1>3. Queued(rs, t) \subseteq 1..h
    BY <1>1 DEF Queued
  <1>4. IsFiniteSet(Queued(rs, t))
    BY <1>2, <1>3, FS_Subset
  <1> QED
    BY <1>4, FS_CardinalityType

(* Rows that change no more than between SCHEDULED and IN_PROGRESS, or end.  *)
LEMMA WithinShrinks ==
  ASSUME NEW r \in Seq(Sound), NEW s \in Seq(Sound), Within(r), \A n \in Nodes : def.task[n].limit \in Nat,
         \A n \in Nodes : def.task[n].limit > 0 => Queued(s, def.task[n]) \subseteq Queued(r, def.task[n])
  PROVE  Within(s)
  <1>1. ASSUME NEW n \in Nodes, def.task[n].limit > 0
        PROVE  Cardinality(Queued(s, def.task[n])) <= def.task[n].limit
    <2>1. PICK A : A = Queued(r, def.task[n])
      OBVIOUS
    <2>2. PICK B : B = Queued(s, def.task[n])
      OBVIOUS
    <2>3. IsFiniteSet(A) /\ Cardinality(A) \in Nat /\ Cardinality(B) \in Nat
      BY <2>1, <2>2, QueuedFinite
    <2>4. Cardinality(B) <= Cardinality(A)
      BY <1>1, <2>1, <2>2, <2>3, FS_Subset
    <2>5. Cardinality(A) <= def.task[n].limit /\ def.task[n].limit \in Nat
      BY <1>1, <2>1 DEF Within
    <2> QED
      BY <2>2, <2>3, <2>4, <2>5
  <1> QED
    BY <1>1 DEF Within

(* The limit counts at least the rows that are queued or running. *)
LEMMA QueuedAreCounted ==
  ASSUME def \in Defs, LimitsOnWorkers, NEW m \in Machines, Paired(m.ex.inst, m.rows),
         NEW n \in Nodes, def.task[n].limit > 0
  PROVE  InFlight(m, def.task[n]) \in Nat /\ Cardinality(Queued(m.rows, def.task[n])) <= InFlight(m, def.task[n])
  <1>1. PICK t : t = def.task[n]
    OBVIOUS
  <1>2. PICK q \in Seq(Sound) : q = m.ex.inst
    BY MachineFields
  <1>3. PICK rs \in Seq(Sound) : rs = m.rows
    BY MachineFields
  <1>4. Numbered(q, rs)
    BY <1>2, <1>3, MachineFields
  <1>5. PICK S : S = Queued(rs, t)
    OBVIOUS
  <1>6. PICK T : T = {k \in DOMAIN q : def.task[q[k].node].name = t.name /\ ~IsTerminalTask(q[k].st)}
    OBVIOUS
  <1>7. InFlight(m, def.task[n]) = Cardinality(T)
    BY <1>1, <1>2, <1>6 DEF InFlight
  <1>8. IsFiniteSet(S) /\ Cardinality(S) \in Nat
    BY <1>5, QueuedFinite
  <1>9. IsFiniteSet(T) /\ Cardinality(T) \in Nat
    <2>1. PICK h \in Nat : h = Len(q)
      OBVIOUS
    <2>2. IsFiniteSet(1..h) /\ T \subseteq 1..h
      BY <1>6, <2>1, FS_Interval
    <2>3. IsFiniteSet(T)
      BY <2>2, FS_Subset
    <2> QED
      BY <2>3, FS_CardinalityType
  <1>10. \A i \in S : \E k \in T : q[k].id = i
    <2> SUFFICES ASSUME NEW i \in S PROVE \E k \in T : q[k].id = i
      OBVIOUS
    <2>1. i \in DOMAIN rs /\ def.task[rs[i].node].name = t.name /\ ~IsTerminalTask(rs[i].st)
      BY <1>5 DEF Queued
    <2>2. rs[i].node \in Nodes
      BY <2>1 DEF Sound, Record
    <2>3. def.task[rs[i].node].limit = def.task[n].limit
      BY <1>1, <2>1, <2>2 DEF LimitsOnWorkers, Nodes
    <2>4. PICK k \in DOMAIN q : q[k].id = i /\ ~IsTerminalTask(q[k].st)
      BY <1>2, <1>3, <2>1, <2>3 DEF Paired
    <2>5. q[k].node = rs[i].node
      BY <1>4, <2>4 DEF Numbered
    <2> QED
      BY <1>6, <2>1, <2>4, <2>5
  <1> DEFINE f == [i \in S |-> CHOOSE k \in T : q[k].id = i]
  <1>11. f \in [S -> T] /\ \A i \in S : q[f[i]].id = i
    BY <1>10
  <1> HIDE DEF f
  <1>12. ~(Cardinality(T) < Cardinality(S))
    <2> SUFFICES ASSUME Cardinality(T) < Cardinality(S) PROVE FALSE
      OBVIOUS
    <2>1. PICK x, y \in S : x # y /\ f[x] = f[y]
      BY <1>8, <1>9, <1>11, FS_PigeonHole
    <2> QED
      BY <1>11, <2>1
  <1> QED
    BY <1>1, <1>3, <1>5, <1>7, <1>8, <1>9, <1>12

(* One more instance, which is terminal, not limited or within its limit. *)
LEMMA WithinGrows ==
  ASSUME def \in Defs, LimitsOnWorkers, NEW m \in Machines, NEW k \in Machines, NEW x, Grows(m, k, x),
         Within(m.rows), Paired(m.ex.inst, m.rows),
         IsTerminalTask(x.st) \/ WithinLimit(m, def.task[x.node])
         \/ Kind(x.node) \in {"HUMAN", "WAIT", "WAIT_SIGNAL", "SUB_WORKFLOW"}
  PROVE  Within(k.rows)
  <1>1. ASSUME NEW n \in Nodes, def.task[n].limit > 0
        PROVE  Cardinality(Queued(k.rows, def.task[n])) <= def.task[n].limit
    <2>1. PICK A : A = Queued(m.rows, def.task[n])
      OBVIOUS
    <2>2. PICK B : B = Queued(k.rows, def.task[n])
      OBVIOUS
    <2>3. IsFiniteSet(A) /\ Cardinality(A) \in Nat /\ Cardinality(B) \in Nat
      BY <2>1, <2>2, MachineFields, QueuedFinite
    <2>4. Cardinality(A) <= def.task[n].limit /\ def.task[n].limit \in Nat
      BY <1>1, <2>1, TaskFacts DEF Within
    <2>5. /\ x \in Sound /\ x.id \in DOMAIN k.rows /\ k.rows[x.id] = x
          /\ \A i \in DOMAIN k.rows : i = x.id \/ (i \in DOMAIN m.rows /\ k.rows[i] = m.rows[i])
      BY GrownFacts
    <2>6. B \subseteq A \cup {x.id} /\ (x.id \in B => ~IsTerminalTask(x.st) /\ def.task[x.node].name = def.task[n].name)
      BY <2>1, <2>2, <2>5 DEF Queued
    <2>7. CASE x.id \notin B
      <3>1. B \subseteq A
        BY <2>6, <2>7
      <3>2. Cardinality(B) <= Cardinality(A)
        BY <2>3, <3>1, FS_Subset
      <3> QED
        BY <2>2, <2>3, <2>4, <3>2
    <2>8. CASE x.id \in B
      <3>1. x.node \in Nodes /\ def.task[x.node].name = def.task[n].name /\ ~IsTerminalTask(x.st)
        BY <2>5, <2>6, <2>8 DEF Sound, Record
      <3>2. /\ def.task[x.node].limit = def.task[n].limit
            /\ Kind(x.node) \notin {"HUMAN", "WAIT", "WAIT_SIGNAL", "SUB_WORKFLOW"}
        BY <1>1, <3>1 DEF LimitsOnWorkers, Nodes, Kind
      <3>3. WithinLimit(m, def.task[x.node])
        BY <3>1, <3>2
      <3>4. InFlight(m, def.task[x.node]) < def.task[n].limit
        BY <1>1, <2>4, <3>2, <3>3 DEF WithinLimit
      <3>5. InFlight(m, def.task[x.node]) = InFlight(m, def.task[n])
        BY <3>1 DEF InFlight
      <3>6. InFlight(m, def.task[n]) \in Nat /\ Cardinality(A) <= InFlight(m, def.task[n])
        BY <1>1, <2>1, QueuedAreCounted
      <3>7. PICK v : v = x.id
        OBVIOUS
      <3>8. IsFiniteSet(A \cup {v}) /\ Cardinality(A \cup {v}) <= Cardinality(A) + 1 /\ Cardinality(A \cup {v}) \in Nat
        <4>1. /\ IsFiniteSet(A \cup {v})
              /\ Cardinality(A \cup {v}) = IF v \in A THEN Cardinality(A) ELSE Cardinality(A) + 1
          BY <2>3, FS_AddElement
        <4> QED
          BY <2>3, <4>1
      <3>9. Cardinality(B) <= Cardinality(A \cup {v})
        BY <2>6, <3>7, <3>8, FS_Subset
      <3> QED
        BY <2>2, <2>3, <2>4, <3>4, <3>5, <3>6, <3>8, <3>9
    <2> QED
      BY <2>7, <2>8
  <1> QED
    BY <1>1 DEF Within

LEMMA PairedGrows ==
  ASSUME NEW m \in Machines, NEW k, NEW x, Grows(m, k, x), Paired(m.ex.inst, m.rows)
  PROVE  Paired(k.ex.inst, k.rows)
  <1>1. ASSUME NEW i \in DOMAIN k.rows, def.task[k.rows[i].node].limit > 0, ~IsTerminalTask(k.rows[i].st)
        PROVE  \E q \in DOMAIN k.ex.inst : k.ex.inst[q].id = i /\ ~IsTerminalTask(k.ex.inst[q].st)
    <2>1. CASE i = x.id
      <3>1. PICK q \in DOMAIN k.ex.inst : k.ex.inst[q] = x
        BY GrownFacts
      <3>2. k.rows[i] = x
        BY <2>1, GrownFacts
      <3> QED
        BY <1>1, <2>1, <3>1, <3>2
    <2>2. CASE i \in DOMAIN m.rows
      <3>1. k.rows[i] = m.rows[i]
        BY <2>2, GrownFacts
      <3>2. PICK q \in DOMAIN m.ex.inst : m.ex.inst[q].id = i /\ ~IsTerminalTask(m.ex.inst[q].st)
        BY <1>1, <2>2, <3>1 DEF Paired
      <3>3. q \in DOMAIN k.ex.inst /\ k.ex.inst[q] = m.ex.inst[q]
        BY GrownFacts
      <3> QED
        BY <3>2, <3>3
    <2> QED
      BY <2>1, <2>2, GrownFacts
  <1> QED
    BY <1>1 DEF Paired

LEMMA ArmableGrows ==
  ASSUME NEW m \in Machines, NEW k, NEW x, Grows(m, k, x), Armable(m.ex.inst), Armable(m.rows),
         x.armed => 1 < def.task[x.node].attempts
  PROVE  Armable(k.ex.inst) /\ Armable(k.rows)
  <1>1. \A q \in DOMAIN k.ex.inst : k.ex.inst[q] = x \/ (q \in DOMAIN m.ex.inst /\ k.ex.inst[q] = m.ex.inst[q])
    BY GrownFacts
  <1>2. \A q \in DOMAIN k.rows : k.rows[q] = x \/ (q \in DOMAIN m.rows /\ k.rows[q] = m.rows[q])
    BY GrownFacts
  <1>3. Armable(k.ex.inst)
    BY <1>1 DEF Armable
  <1>4. Armable(k.rows)
    BY <1>2 DEF Armable
  <1> QED
    BY <1>3, <1>4

LEMMA PairedStep ==
  ASSUME def \in Defs, ChildrenAnswer, LimitsOnWorkers, NEW m \in PairedMachines
  PROVE  AdvanceStep(m) \in PairedMachines
  <1>1. PICK k : k = AdvanceStep(m)
    OBVIOUS
  <1>2. m \in Machines /\ k \in Machines /\ Moves(m, k)
    BY <1>1, StepMoves DEF PairedMachines
  <1>3. /\ Within(m.rows) /\ Paired(m.ex.inst, m.rows) /\ Armable(m.rows) /\ Armable(m.ex.inst)
    BY DEF PairedMachines
  <1>4. CASE k = m
    BY <1>1, <1>4
  <1>5. CASE Stops(m, k) \/ Ends(m, k) \/ Plans(m, k) \/ SkipsEnd(m, k) \/ Passes(m, k)
    <2>1. k.pc # "lost" /\ k.rows = m.rows /\ k.ex.inst = m.ex.inst
      BY <1>5 DEF Stops, Ends, Plans, SkipsEnd, Passes, Same
    <2> QED
      BY <1>1, <1>2, <1>3, <2>1 DEF PairedMachines
  <1>6. ASSUME NEW x, Grows(m, k, x), k.pc # "lost", x.armed => 1 < def.task[x.node].attempts,
               IsTerminalTask(x.st) \/ WithinLimit(m, def.task[x.node])
               \/ Kind(x.node) \in {"HUMAN", "WAIT", "WAIT_SIGNAL", "SUB_WORKFLOW"}
        PROVE  k \in PairedMachines
    <2>1. Within(k.rows)
      BY <1>2, <1>3, <1>6, WithinGrows
    <2>2. Paired(k.ex.inst, k.rows) /\ Armable(k.rows) /\ Armable(k.ex.inst)
      BY <1>2, <1>3, <1>6, PairedGrows, ArmableGrows
    <2> QED
      BY <1>2, <1>6, <2>1, <2>2 DEF PairedMachines
  <1>7. ASSUME NEW x, Skips(m, k, x) PROVE k \in PairedMachines
    <2>1. Grows(m, k, x) /\ k.pc # "lost" /\ ~x.armed /\ IsTerminalTask(x.st)
      BY <1>7 DEF Skips, IsTerminalTask
    <2> QED
      BY <1>6, <2>1
  <1>8. ASSUME NEW x, Spawns(m, k, x) PROVE k \in PairedMachines
    <2>1. Grows(m, k, x) /\ k.pc # "lost" /\ (x.armed => 1 < def.task[x.node].attempts)
      BY <1>8 DEF Spawns, Waits, Answers, Fails, Terminates
    <2>2. IsTerminalTask(x.st) \/ WithinLimit(m, def.task[x.node])
          \/ Kind(x.node) \in {"HUMAN", "WAIT", "WAIT_SIGNAL", "SUB_WORKFLOW"}
      BY <1>8 DEF Spawns, Waits, Answers, Fails, Terminates, IsTerminalTask
    <2> QED
      BY <1>6, <2>1, <2>2
  <1>9. ~Loses(m, k)
    BY <1>2, NoLoss
  <1> QED
    BY <1>1, <1>2, <1>4, <1>5, <1>7, <1>8, <1>9 DEF Moves

LEMMA PairedAdvance ==
  ASSUME Shape, ChildrenAnswer, LimitsOnWorkers, NEW ex, NEW rs, Advances(ex, rs), Within(rs),
         Paired(ex.inst, rs), Armable(rs), Armable(ex.inst)
  PROVE  Within(rows') /\ Paired(exec'.inst, rows') /\ Armable(rows') /\ Armable(exec'.inst)
  <1>1. PICK b : b = Machine(ex, rs)
    OBVIOUS
  <1>2. b \in Machines /\ b.ex = ex /\ b.rows = rs /\ b.pc = "advance"
    BY <1>1, MachineIs DEF Advances
  <1>3. PICK X : X = PairedMachines
    OBVIOUS
  <1>4. b \in X
    BY <1>2, <1>3 DEF PairedMachines
  <1>5. \A k \in X : AdvanceStep(k) \in X
    BY <1>3, PairedStep DEF Shape
  <1>6. Advance(b) \in X
    BY <1>4, <1>5, AdvanceIn DEF Shape
  <1>7. PICK m \in PairedMachines : m = Advance(b)
    BY <1>3, <1>6
  <1>8. m.pc # "lost" /\ Within(m.rows) /\ Paired(m.ex.inst, m.rows) /\ Armable(m.rows) /\ Armable(m.ex.inst)
    BY DEF PairedMachines
  <1>9. exec' = m.ex /\ rows' = m.rows
    BY <1>1, <1>7, <1>8 DEF Advances, Commit
  <1> QED
    BY <1>8, <1>9

Throttled ==
    /\ NoRevivals /\ LimitsOnWorkers /\ Within(rows) /\ Armable(rows) /\ Armable(exec.inst)
    /\ ~Over => Paired(exec.inst, rows)

LEMMA KnownArmable ==
  ASSUME Shape, Armable(rows), Armable(exec.inst), NEW i, Named(i), i.armed => WasArmed(i), i.armed
  PROVE  1 < def.task[i.node].attempts
  <1>1. Numbered(exec.inst, rows) /\ i.id \in DOMAIN rows /\ i.node = rows[i.id].node
    BY DEF Shape, Stored, Named
  <1>2. CASE rows[i.id].armed
    BY <1>1, <1>2 DEF Armable
  <1>3. CASE ~rows[i.id].armed
    <2>1. PICK k \in DOMAIN exec.inst : exec.inst[k].id = i.id /\ exec.inst[k].armed
      BY <1>3 DEF WasArmed
    <2>2. exec.inst[k].node = i.node
      BY <1>1, <2>1 DEF Numbered
    <2> QED
      BY <2>1, <2>2 DEF Armable
  <1> QED
    BY <1>2, <1>3

(* A row that ends, or an elapsed WAIT, whose row does not. *)
LEMMA PairedSync ==
  ASSUME Shape, LimitsOnWorkers, Within(rows), Armable(rows), Armable(exec.inst), ~Over => Paired(exec.inst, rows),
         NEW i, Named(i), i.armed => 1 < def.task[i.node].attempts, IsTerminalTask(i.st),
         NEW rs \in {rows, Put(rows, i)}, rs = Put(rows, i) \/ Kind(i.node) = "WAIT"
  PROVE  /\ Within(rs) /\ Armable(rs) /\ Armable(Sync(exec.inst, i))
         /\ ~Over => Paired(Sync(exec.inst, i), rs)
  <1>1. /\ rows \in Seq(Sound) /\ exec.inst \in Seq(Sound) /\ def \in Defs
        /\ i \in Sound /\ i.id \in DOMAIN rows /\ i.node = rows[i.id].node /\ i.node \in Nodes
    BY DEF Shape, Stored, Execs, Named, Sound, Record
  <1>2. rs \in Seq(Sound) /\ Put(rows, i) = [rows EXCEPT ![i.id] = i]
    BY SyncNamed DEF Stored
  <1>3. DOMAIN rs = DOMAIN rows /\ \A o \in DOMAIN rows : o # i.id => rs[o] = rows[o]
    BY <1>1, <1>2
  <1>4. rs[i.id] = i \/ rs[i.id] = rows[i.id]
    BY <1>1, <1>2
  <1>5. \A o \in DOMAIN rs : rs[o].node = rows[o].node
    BY <1>1, <1>3, <1>4
  <1>6. \A o \in DOMAIN rs : ~IsTerminalTask(rs[o].st) => ~IsTerminalTask(rows[o].st)
    BY <1>3, <1>4
  <1>7. \A t : Queued(rs, t) \subseteq Queued(rows, t)
    BY <1>3, <1>5, <1>6 DEF Queued
  <1>8. Within(rs)
    BY <1>1, <1>2, <1>7, WithinShrinks, TaskFacts
  <1>9. Armable(rs)
    BY <1>1, <1>3, <1>4 DEF Armable
  <1>10. PICK Q : Q = Sync(exec.inst, i)
    OBVIOUS
  <1>11. /\ \A k \in DOMAIN Q : Q[k] = i \/ (k \in DOMAIN exec.inst /\ Q[k] = exec.inst[k])
         /\ \A k \in DOMAIN exec.inst : k \in DOMAIN Q /\ Q[k] = IF exec.inst[k].id = i.id THEN i ELSE exec.inst[k]
    BY <1>10, SyncElements
  <1>12. Armable(Q)
    BY <1>11 DEF Armable
  <1>13. ASSUME ~Over, NEW o \in DOMAIN rs, def.task[rs[o].node].limit > 0, ~IsTerminalTask(rs[o].st)
         PROVE  \E k \in DOMAIN Q : Q[k].id = o /\ ~IsTerminalTask(Q[k].st)
    <2>1. PICK k \in DOMAIN exec.inst : exec.inst[k].id = o /\ ~IsTerminalTask(exec.inst[k].st)
      BY <1>3, <1>5, <1>6, <1>13 DEF Paired
    <2>2. o # i.id
      <3> SUFFICES ASSUME o = i.id PROVE FALSE
        OBVIOUS
      <3>1. rs # Put(rows, i)
        BY <1>1, <1>2, <1>13
      <3>2. Kind(i.node) = "WAIT" /\ def.task[i.node].limit > 0
        BY <1>1, <1>5, <1>13, <3>1
      <3> QED
        BY <1>1, <3>2 DEF LimitsOnWorkers, Kind, Nodes
    <2> QED
      BY <1>11, <2>1, <2>2
  <1>14. ~Over => Paired(Q, rs)
    BY <1>13 DEF Paired
  <1> QED
    BY <1>8, <1>9, <1>10, <1>12, <1>14

LEMMA ThrottledStep ==
  ASSUME Twins, Throttled, [Next]_vars
  PROVE  Throttled'
  <1>1. Shape /\ AllNested(exec.inst, rows) /\ ChildrenAnswer /\ NoRevivals /\ LimitsOnWorkers
    BY DEF Twins, Accounts, Throttled
  <1>2. Steps /\ def' = def
    BY <1>1, NextSteps
  <1>3. /\ exec \in Execs /\ exec.inst \in Seq(Sound) /\ rows \in Seq(Sound) /\ Numbered(exec.inst, rows)
        /\ started = 0 => exec.status = "none" /\ exec.inst = <<>>
        /\ def \in Defs
    BY <1>1 DEF Shape, Stored, Execs
  <1> DEFINE Goal == /\ Within(rows') /\ Armable(rows') /\ Armable(exec'.inst)
                     /\ (exec'.status = "none" \/ IsTerminal(exec'.status)) \/ Paired(exec'.inst, rows')
  <1>4. Within(rows) /\ Armable(rows) /\ Armable(exec.inst) /\ (~Over => Paired(exec.inst, rows))
    BY DEF Throttled
  <1> HIDE DEF Goal
  <1> SUFFICES Goal
    BY <1>1, <1>2 DEF Goal, Throttled, Over, Within, Queued, Armable, Paired, Nodes, Kind,
                      NoRevivals, LimitsOnWorkers
  <1>5. ASSUME NEW ex, NEW rs, Advances(ex, rs), Within(rs), Paired(ex.inst, rs), Armable(rs), Armable(ex.inst)
        PROVE  Goal
    BY <1>1, <1>5, PairedAdvance DEF Goal
  <1>6. CASE Idle
    BY <1>4, <1>6 DEF Idle, Quiet, Goal, Over
  <1>7. CASE Pause
    <2>1. exec.status = "RUNNING" /\ exec'.inst = exec.inst /\ rows' = rows
      BY <1>3, <1>7 DEF Pause, Execs
    <2> QED
      BY <1>4, <2>1 DEF Goal, Over, IsTerminal
  <1>8. CASE Terminate
    <2>1. exec'.status = "TERMINATED" /\ exec'.inst = exec.inst /\ rows' = rows
      BY <1>3, <1>8 DEF Terminate, Execs
    <2> QED
      BY <1>4, <2>1 DEF Goal, IsTerminal
  <1>9. CASE Looks
    <2>1. CASE ~Over
      BY <1>4, <1>5, <1>9, <2>1 DEF Looks
    <2>2. CASE Over
      <3>1. IsTerminal(exec.status)
        BY <1>9, <2>2 DEF Looks, Over
      <3>2. exec' = exec /\ rows' = rows
        BY <1>1, <1>9, <3>1, NotAdvanced DEF Looks
      <3> QED
        BY <1>4, <3>1, <3>2 DEF Goal
    <2> QED
      BY <2>1, <2>2
  <1>10. ASSUME NEW r, Queues(r) PROVE Goal
    <2>1. /\ exec' = exec /\ rows' = [rows EXCEPT ![r.id] = r] /\ ~IsTerminalTask(r.st) /\ Named(r)
          /\ r.armed => WasArmed(r)
          /\ ~IsTerminalTask(rows[r.id].st) \/ rows[r.id].armed
      BY <1>10 DEF Queues, Quiet, Replaces, Known
    <2>2. r \in Sound /\ r.id \in DOMAIN rows /\ r.node = rows[r.id].node /\ r.node \in Nodes
      BY <2>1 DEF Named, Sound, Record
    <2>3. DOMAIN rows' = DOMAIN rows /\ \A i \in DOMAIN rows : rows'[i] = IF i = r.id THEN r ELSE rows[i]
      BY <1>3, <2>1, <2>2
    <2>4. rows' \in Seq(Sound)
      BY <1>3, <2>1, <2>2
    <2>5. Armable(rows')
      BY <1>1, <1>4, <2>1, <2>3, KnownArmable DEF Armable
    <2>6. ASSUME NEW n \in Nodes, def.task[n].limit > 0, def.task[r.node].name = def.task[n].name
          PROVE  ~IsTerminalTask(rows[r.id].st)
      <3>1. def.task[r.node].attempts = 1
        BY <1>1, <2>2, <2>6 DEF LimitsOnWorkers
      <3>2. ~rows[r.id].armed
        BY <1>4, <2>2, <3>1 DEF Armable
      <3> QED
        BY <2>1, <3>2
    <2>7. \A n \in Nodes : def.task[n].limit > 0 => Queued(rows', def.task[n]) \subseteq Queued(rows, def.task[n])
      <3> SUFFICES ASSUME NEW n \in Nodes, def.task[n].limit > 0, NEW i \in Queued(rows', def.task[n])
                   PROVE  i \in Queued(rows, def.task[n])
        OBVIOUS
      <3>1. i \in DOMAIN rows /\ def.task[rows'[i].node].name = def.task[n].name /\ ~IsTerminalTask(rows'[i].st)
        BY <2>3 DEF Queued
      <3>2. CASE i = r.id
        BY <2>2, <2>3, <2>6, <3>1, <3>2 DEF Queued
      <3>3. CASE i # r.id
        BY <2>3, <3>1, <3>3 DEF Queued
      <3> QED
        BY <3>2, <3>3
    <2>8. Within(rows')
      BY <1>3, <1>4, <2>4, <2>7, WithinShrinks, TaskFacts
    <2>9. ASSUME ~Over PROVE Paired(exec.inst, rows')
      <3>1. ASSUME NEW i \in DOMAIN rows', def.task[rows'[i].node].limit > 0, ~IsTerminalTask(rows'[i].st)
            PROVE  \E k \in DOMAIN exec.inst : exec.inst[k].id = i /\ ~IsTerminalTask(exec.inst[k].st)
        <4>1. i \in DOMAIN rows /\ rows[i].node = rows'[i].node
          BY <2>2, <2>3, <3>1
        <4>2. ~IsTerminalTask(rows[i].st)
          BY <2>2, <2>3, <2>6, <3>1, <4>1
        <4> QED
          BY <1>4, <2>9, <3>1, <4>1, <4>2 DEF Paired
      <3> QED
        BY <3>1 DEF Paired
    <2> QED
      BY <1>4, <2>1, <2>5, <2>8, <2>9 DEF Goal, Over
  <1>11. ASSUME NEW i, Named(i), i.armed => 1 < def.task[i.node].attempts, IsTerminalTask(i.st),
                NEW rs \in {rows, Put(rows, i)}, rs = Put(rows, i) \/ Kind(i.node) = "WAIT"
         PROVE  /\ Within(rs) /\ Armable(rs) /\ Armable(Sync(exec.inst, i))
                /\ ~Over => Paired(Sync(exec.inst, i), rs)
    BY <1>1, <1>4, <1>11, PairedSync
  <1>12. ASSUME NEW i, Named(i), i.armed => WasArmed(i), i.armed PROVE 1 < def.task[i.node].attempts
    BY <1>1, <1>4, <1>12, KnownArmable
  <1>13. ASSUME NEW i, Drops(i) PROVE Goal
    <2>1. /\ Over /\ exec' = exec /\ Named(i) /\ (i.armed => WasArmed(i)) /\ IsTerminalTask(i.st)
          /\ rows' = [rows EXCEPT ![i.id] = i]
      BY <1>13 DEF Drops, Quiet, Replaces, Known
    <2>2. PICK rs \in {rows, Put(rows, i)} : rs = Put(rows, i)
      OBVIOUS
    <2>3. rows' = rs
      BY <1>1, <2>1, <2>2, SyncNamed
    <2>4. Within(rs) /\ Armable(rs)
      BY <1>11, <1>12, <2>1, <2>2
    <2> QED
      BY <1>4, <2>1, <2>3, <2>4 DEF Goal, Over
  <1>14. ASSUME NEW j, FailsTask(j) PROVE Goal
    <2>1. /\ ~Over /\ Named(j) /\ exec'.inst = Sync(exec.inst, j) /\ rows' = Put(rows, j) /\ IsTerminalTask(j.st)
      BY <1>14 DEF FailsTask, Failed, IsTerminalTask
    <2>2. j.armed => 1 < def.task[j.node].attempts
      BY <1>12, <1>14, <2>1 DEF FailsTask
    <2>3. PICK rs \in {rows, Put(rows, j)} : rs = Put(rows, j)
      OBVIOUS
    <2> QED
      BY <1>11, <2>1, <2>2, <2>3 DEF Goal
  <1>15. ASSUME NEW i, Parks(i) PROVE Goal
    <2>1. /\ ~Over /\ Named(i) /\ (i.armed => WasArmed(i)) /\ exec' = SyncInstance(exec, i)
          /\ rows' = Put(rows, i) /\ IsTerminalTask(i.st)
      BY <1>15 DEF Parks, Known, IsTerminalTask
    <2>2. PICK rs \in {rows, Put(rows, i)} : rs = Put(rows, i)
      OBVIOUS
    <2>3. exec'.inst = Sync(exec.inst, i)
      BY <1>1, <2>1, <2>2, SyncNamed
    <2> QED
      BY <1>11, <1>12, <2>1, <2>2, <2>3 DEF Goal
  <1>16. ASSUME NEW ex, NEW rs, NEW i, Completes(ex, rs, i) PROVE Goal
    <2>1. /\ ~Over /\ Named(i) /\ (i.armed => WasArmed(i)) /\ IsTerminalTask(i.st)
          /\ rs \in {rows, Put(rows, i)} /\ Advances(ex, rs)
          /\ rs = Put(rows, i) \/ Kind(i.node) = "WAIT"
          /\ ex = SyncInstance(exec, i)
      BY <1>16 DEF Completes, Known, Done, IsTerminalTask
    <2>2. ex.inst = Sync(exec.inst, i)
      BY <1>1, <2>1, SyncNamed
    <2>3. Within(rs) /\ Armable(rs) /\ Armable(ex.inst) /\ Paired(ex.inst, rs)
      BY <1>11, <1>12, <2>1, <2>2
    <2> QED
      BY <1>5, <2>1, <2>3
  <1>17. ASSUME NEW ex, Starts(ex) PROVE Goal
    <2>1. ex.inst = <<>> /\ Advances(ex, rows) /\ started = 0
      BY <1>17 DEF Starts
    <2>2. \A i \in DOMAIN rows : FALSE
      BY <1>1, <1>3, <2>1 DEF AllNested
    <2>3. Paired(ex.inst, rows) /\ Armable(ex.inst)
      BY <2>1, <2>2 DEF Paired, Armable
    <2> QED
      BY <1>4, <1>5, <2>1, <2>3
  <1>18. ASSUME NEW ex, Resumes(ex) PROVE Goal
    <2>1. ex.inst = exec.inst /\ Advances(ex, rows) /\ exec.status = "PAUSED"
      BY <1>3, <1>18 DEF Resumes, Execs
    <2> QED
      BY <1>4, <1>5, <2>1 DEF Over, IsTerminal
  <1>19. ASSUME NEW ex, NEW rs, Revives(ex, rs) PROVE Goal
    BY <1>1, <1>19 DEF Revives, NoRevivals
  <1> QED
    BY <1>2, <1>6, <1>7, <1>8, <1>9, <1>10, <1>13, <1>14, <1>15, <1>16, <1>17, <1>18, <1>19
       DEF Steps, Settles

(* "The max number of concurrent in-flight executions allowed": at no time    *)
(* are more rows of one TaskDef SCHEDULED or IN_PROGRESS than its limit,      *)
(* whatever workers, requeues, late results, timeouts and pauses do.  For     *)
(* limits on worker tasks without retries, executions nobody revives and      *)
(* children that answer; the code breaks the limit where one of them fails.   *)
THEOREM RateIsLimited ==
  ChildrenAnswer /\ NoRevivals /\ LimitsOnWorkers /\ Spec => []RateLimited
  <1>1. NoRevivals => NoRestarts
    BY DEF NoRevivals, NoRestarts
  <1>2. NoRevivals /\ LimitsOnWorkers /\ Init => Throttled
    <2> SUFFICES ASSUME NoRevivals, LimitsOnWorkers, Init PROVE Throttled
      OBVIOUS
    <2>1. rows = <<>> /\ exec.inst = <<>> /\ exec.status = "none" /\ def \in Defs
      BY DEF Init
    <2>2. ASSUME NEW n \in Nodes, def.task[n].limit > 0
          PROVE  Cardinality(Queued(rows, def.task[n])) <= def.task[n].limit
      <3>1. Queued(rows, def.task[n]) = {}
        BY <2>1 DEF Queued
      <3>2. Cardinality(Queued(rows, def.task[n])) = 0
        BY <3>1, FS_EmptySet
      <3>3. def.task[n].limit \in Nat
        BY <2>1, TaskFacts
      <3> QED
        BY <3>2, <3>3
    <2> QED
      BY <2>1, <2>2 DEF Throttled, Within, Armable, Over
  <1>3. Twins /\ Throttled /\ [Next]_vars => Throttled'
    BY ThrottledStep
  <1>4. Throttled => RateLimited
    BY DEF Throttled, Within, Queued, RateLimited
  <1> QED
    BY <1>1, <1>2, <1>3, <1>4, TwinsAlways, PTL DEF Spec

-----------------------------------------------------------------------------
(* Skipped for good, and with it the exact run.  Nothing settles a task twice *)
(* with another outcome: one worker holds it at a time, no retry brings it    *)
(* back, no caller settles it by hand or reports it SKIPPED; and no condition *)
(* changes its mind: nothing writes the variable, or none reads it.           *)

Unswayed ==
    \/ \A e \in ToSet(def.edges) : e.when = Always
    \/ ~def.mapsOutput /\ \A n \in Nodes : Kind(n) # "SET_VARIABLE"
Steady ==
    /\ Unrevived /\ Unswayed /\ "SKIPPED" \notin Results
    /\ MaxHeld[def] <= 1 /\ Len(def.nodes) <= MaxIds
    /\ \A n \in Nodes : def.task[n].attempts = 1

(* The instance an edge looks at has ended and does not satisfy the edge. *)
First(q, n, k) == k \in DOMAIN q /\ q[k].node = n /\ \A j \in 1..(k - 1) : q[j].node # n
Blocked(ex, e) ==
    \E k \in DOMAIN ex.inst :
        /\ First(ex.inst, e.from, k) /\ IsTerminalTask(ex.inst[k].st)
        /\ ~(Done(ex.inst[k].st) /\ EdgeConditionOk(ex, e, ex.inst[k]))
Blocks(ex, n) == \A e \in Incoming(n) : Blocked(ex, e)
SkipsHold(ex) == \A k \in DOMAIN ex.inst : ex.inst[k].st = "SKIPPED" => Blocks(ex, ex.inst[k].node)

(* No worker has a task that has ended; its row is not offered again; and     *)
(* where a deadline or a child can still end it, that ends it the same way.   *)
Frozen(H, inst, rs) ==
    \A k \in DOMAIN inst : IsTerminalTask(inst[k].st) =>
        /\ inst[k].id \in DOMAIN H => H[inst[k].id] = 0
        /\ rs[inst[k].id].st # "SCHEDULED"
        /\ rs[inst[k].id].st = "IN_PROGRESS" => Kind(inst[k].node) = "WAIT"
        /\ rs[inst[k].id].st = "IN_PROGRESS" \/ rs[inst[k].id].child = "runs"
               => inst[k].st = "COMPLETED" /\ inst[k].out = rs[inst[k].id].out

Busy(H, rs) == \A i \in DOMAIN H : H[i] # 0 => i \in DOMAIN rs /\ Kind(rs[i].node) = "SIMPLE"
Unarmed(q) == \A k \in DOMAIN q : ~q[k].armed
Waiting(q) ==
    \A k \in DOMAIN q : q[k].st = "IN_PROGRESS"
        => Kind(q[k].node) \in {"HUMAN", "WAIT", "WAIT_SIGNAL", "SUB_WORKFLOW"}
Calm(H, ex, rs) ==
    /\ Busy(H, rs) /\ Unarmed(rs) /\ Unarmed(ex.inst) /\ Waiting(ex.inst) /\ SkipsHold(ex)
    /\ ex.status = "none" \/ IsTerminal(ex.status) \/ Frozen(H, ex.inst, rs)

LEMMA SegmentSize ==
  ASSUME NEW h \in Nat
  PROVE  IsFiniteSet(1..h) /\ Cardinality(1..h) = h
  BY FS_Interval

(* As many rows as nodes at most: held has a place for each of them. *)
LEMMA RowsFit ==
  ASSUME def \in Defs, NEW q \in Seq(Sound), NEW rs \in Seq(Sound), Numbered(q, rs), OneEach(q),
         AllNested(q, rs)
  PROVE  Len(rs) <= Len(def.nodes)
  <1> SUFFICES ASSUME ~(Len(rs) <= Len(def.nodes)) PROVE FALSE
    OBVIOUS
  <1>1. PICK l \in Nat : l = Len(def.nodes)
    BY NodesFacts
  <1>2. PICK h \in Nat : h = Len(rs)
    OBVIOUS
  <1>3. \A o \in Nodes : \E p \in 1..l : def.nodes[p] = o
    BY <1>1, NodesFacts
  <1>4. DOMAIN rs = 1..h /\ \A i \in 1..h : rs[i].node \in Nodes
    BY <1>2 DEF Sound, Record
  <1> DEFINE f == [i \in 1..h |-> CHOOSE p \in 1..l : def.nodes[p] = rs[i].node]
  <1>5. f \in [1..h -> 1..l] /\ \A i \in 1..h : def.nodes[f[i]] = rs[i].node
    BY <1>3, <1>4
  <1> HIDE DEF f
  <1>6. IsFiniteSet(1..l) /\ Cardinality(1..l) = l /\ IsFiniteSet(1..h) /\ Cardinality(1..h) = h
    BY SegmentSize
  <1>7. Cardinality(1..l) < Cardinality(1..h)
    BY <1>1, <1>2, <1>6
  <1>8. PICK x, y \in 1..h : x # y /\ f[x] = f[y]
    <2>1. PICK S : S = 1..h
      OBVIOUS
    <2>2. PICK T : T = 1..l
      OBVIOUS
    <2>3. /\ f \in [S -> T] /\ IsFiniteSet(S) /\ IsFiniteSet(T)
          /\ Cardinality(T) < Cardinality(S)
      BY <1>5, <1>6, <1>7, <2>1, <2>2
    <2>4. \E x, y \in S : x # y /\ f[x] = f[y]
      BY <2>3, FS_PigeonHole
    <2> QED
      BY <2>1, <2>4
  <1>9. rs[x].node = rs[y].node
    BY <1>5, <1>8
  <1>10. PICK a \in DOMAIN q : q[a].id = x
    BY <1>4 DEF AllNested
  <1>11. PICK b \in DOMAIN q : q[b].id = y
    BY <1>4 DEF AllNested
  <1>12. q[a].node = rs[x].node /\ q[b].node = rs[y].node
    BY <1>10, <1>11 DEF Numbered
  <1>13. a = b
    BY <1>9, <1>12 DEF OneEach
  <1> QED
    BY <1>8, <1>10, <1>11, <1>13

LEMMA FindIsFirst ==
  ASSUME NEW ex, NEW n, NEW p
  PROVE  p \in FindInstance(ex, n) <=> \E k \in DOMAIN ex.inst : First(ex.inst, n, k) /\ p = ex.inst[k]
  BY DEF FindInstance, First

LEMMA FirstIsOne ==
  ASSUME NEW q \in Seq(Sound), NEW n, NEW j, NEW k, First(q, n, j), First(q, n, k)
  PROVE  j = k
  <1>1. j \in Nat /\ k \in Nat /\ j >= 1 /\ k >= 1
    BY DEF First
  <1>2. ~(j < k)
    BY <1>1 DEF First
  <1>3. ~(k < j)
    BY <1>1 DEF First
  <1> QED
    BY <1>1, <1>2, <1>3

LEMMA BlockedFails ==
  ASSUME NEW ex, ex.inst \in Seq(Sound), NEW e, Blocked(ex, e)
  PROVE  ~Satisfied(ex, e)
  <1> SUFFICES ASSUME Satisfied(ex, e) PROVE FALSE
    OBVIOUS
  <1>1. PICK q \in Seq(Sound) : q = ex.inst
    OBVIOUS
  <1>2. PICK k \in DOMAIN q : /\ First(q, e.from, k)
                              /\ ~(Done(q[k].st) /\ EdgeConditionOk(ex, e, q[k]))
    BY <1>1 DEF Blocked
  <1>3. PICK p \in FindInstance(ex, e.from) : Done(p.st) /\ EdgeConditionOk(ex, e, p)
    BY DEF Satisfied
  <1>4. PICK j \in DOMAIN q : First(q, e.from, j) /\ p = q[j]
    BY <1>1, <1>3, FindIsFirst
  <1>5. j = k
    BY <1>2, <1>4, FirstIsOne
  <1> QED
    BY <1>2, <1>3, <1>4, <1>5

LEMMA SkippableBlocks ==
  ASSUME NEW ex, NEW n, Skippable(ex, n)
  PROVE  Blocks(ex, n)
  <1> SUFFICES ASSUME NEW e \in Incoming(n) PROVE Blocked(ex, e)
    BY DEF Blocks
  <1>1. ~Satisfied(ex, e) /\ \E p \in FindInstance(ex, e.from) : IsTerminalTask(p.st)
    BY DEF Skippable
  <1>2. PICK p \in FindInstance(ex, e.from) : IsTerminalTask(p.st)
    BY <1>1
  <1>3. ~(Done(p.st) /\ EdgeConditionOk(ex, e, p))
    BY <1>1, <1>2 DEF Satisfied
  <1>4. PICK k \in DOMAIN ex.inst : First(ex.inst, e.from, k) /\ p = ex.inst[k]
    BY <1>2, FindIsFirst
  <1> QED
    BY <1>2, <1>3, <1>4 DEF Blocked

(* What keeps an edge blocked: its source keeps its place, and its outcome or *)
(* an outcome that satisfies nothing.                                         *)
KeepsEnds(q, s) ==
    \A k \in DOMAIN q :
        /\ k \in DOMAIN s /\ s[k].node = q[k].node
        /\ IsTerminalTask(q[k].st) =>
               \/ s[k].st = q[k].st /\ s[k].out = q[k].out
               \/ IsTerminalTask(s[k].st) /\ ~Done(s[k].st)

LEMMA BlocksKept ==
  ASSUME Unswayed, NEW ex, NEW new, ex.inst \in Seq(Sound), KeepsEnds(ex.inst, new.inst), NEW n,
         Blocks(ex, n), new.var = ex.var \/ def.mapsOutput \/ \E o \in Nodes : Kind(o) = "SET_VARIABLE"
  PROVE  Blocks(new, n)
  <1> SUFFICES ASSUME NEW e \in Incoming(n) PROVE Blocked(new, e)
    BY DEF Blocks
  <1>1. PICK q \in Seq(Sound) : q = ex.inst
    OBVIOUS
  <1>2. PICK s : s = new.inst
    OBVIOUS
  <1>3. PICK k \in DOMAIN q : /\ First(q, e.from, k) /\ IsTerminalTask(q[k].st)
                              /\ ~(Done(q[k].st) /\ EdgeConditionOk(ex, e, q[k]))
    BY <1>1 DEF Blocks, Blocked
  <1>4. KeepsEnds(q, s)
    BY <1>1, <1>2
  <1>5. First(s, e.from, k)
    <2>1. \A j \in 1..(k - 1) : j \in DOMAIN q
      BY <1>3
    <2> QED
      BY <1>3, <1>4, <2>1 DEF First, KeepsEnds
  <1>6. \/ s[k].st = q[k].st /\ s[k].out = q[k].out
        \/ IsTerminalTask(s[k].st) /\ ~Done(s[k].st)
    BY <1>3, <1>4 DEF KeepsEnds
  <1>7. e.when = Always \/ new.var = ex.var
    BY DEF Unswayed, Incoming
  <1>8. IsTerminalTask(s[k].st) /\ ~(Done(s[k].st) /\ EdgeConditionOk(new, e, s[k]))
    <2>1. CASE e.when = Always
      BY <1>3, <1>6, <2>1 DEF EdgeConditionOk
    <2>2. CASE new.var = ex.var
      BY <1>3, <1>6, <2>2 DEF EdgeConditionOk
    <2> QED
      BY <1>7, <2>1, <2>2
  <1> QED
    BY <1>2, <1>3, <1>4, <1>5, <1>8 DEF Blocked, KeepsEnds

SteadyMachines(H) ==
    {m \in Machines : /\ m.pc # "lost" /\ Calm(H, m.ex, m.rows)
                      /\ m.pc = "skip" => \A p \in m.skips : Blocks(m.ex, def.nodes[p])}

LEMMA GrownKeepsEnds ==
  ASSUME NEW m \in Machines, NEW k, NEW x, Grows(m, k, x)
  PROVE  KeepsEnds(m.ex.inst, k.ex.inst)
  <1>1. \A q \in DOMAIN m.ex.inst : q \in DOMAIN k.ex.inst /\ k.ex.inst[q] = m.ex.inst[q]
    BY GrownFacts
  <1> QED
    BY <1>1 DEF KeepsEnds

(* One more instance: new, so that no worker has it. *)
LEMMA CalmGrows ==
  ASSUME Unswayed, NEW H, NEW m \in Machines, NEW k, NEW x, Grows(m, k, x), Calm(H, m.ex, m.rows),
         ~x.armed, x.st = "SKIPPED" => Blocks(m.ex, x.node),
         x.st = "IN_PROGRESS" => Kind(x.node) \in {"HUMAN", "WAIT", "WAIT_SIGNAL", "SUB_WORKFLOW"},
         k.ex.var = m.ex.var \/ \E o \in Nodes : Kind(o) = "SET_VARIABLE",
         \/ IsTerminal(k.ex.status)
         \/ k.ex.status = m.ex.status /\ (IsTerminalTask(x.st) => x.child = "none")
  PROVE  Calm(H, k.ex, k.rows)
  <1>1. /\ Busy(H, m.rows) /\ Unarmed(m.rows) /\ Unarmed(m.ex.inst) /\ Waiting(m.ex.inst) /\ SkipsHold(m.ex)
        /\ m.ex.status = "none" \/ IsTerminal(m.ex.status) \/ Frozen(H, m.ex.inst, m.rows)
    BY DEF Calm
  <1>2. /\ m.ex.inst \in Seq(Sound) /\ Numbered(m.ex.inst, m.rows)
    BY MachineFields
  <1>3. /\ k.rows[x.id] = x /\ x.id \in DOMAIN k.rows
        /\ \A q \in DOMAIN k.ex.inst : k.ex.inst[q] = x \/ (q \in DOMAIN m.ex.inst /\ k.ex.inst[q] = m.ex.inst[q])
    BY GrownFacts
  <1>4. /\ \A i \in DOMAIN m.rows : i \in DOMAIN k.rows /\ k.rows[i] = m.rows[i] /\ i # x.id
        /\ \A i \in DOMAIN k.rows : i = x.id \/ i \in DOMAIN m.rows
    BY GrownFacts
  <1>5. Busy(H, k.rows)
    BY <1>1, <1>4 DEF Busy
  <1>6. Unarmed(k.rows)
    BY <1>1, <1>3, <1>4 DEF Unarmed
  <1>7. Unarmed(k.ex.inst)
    BY <1>1, <1>3 DEF Unarmed
  <1>8. Waiting(k.ex.inst)
    BY <1>1, <1>3 DEF Waiting
  <1>9. ASSUME NEW n, Blocks(m.ex, n) PROVE Blocks(k.ex, n)
    <2>1. KeepsEnds(m.ex.inst, k.ex.inst)
      BY GrownKeepsEnds
    <2>2. PICK a : a = m.ex
      OBVIOUS
    <2>3. PICK b : b = k.ex
      OBVIOUS
    <2>4. Blocks(b, n)
      BY <1>2, <1>9, <2>1, <2>2, <2>3, BlocksKept
    <2> QED
      BY <2>3, <2>4
  <1>10. SkipsHold(k.ex)
    <2> SUFFICES ASSUME NEW q \in DOMAIN k.ex.inst, k.ex.inst[q].st = "SKIPPED"
                 PROVE  Blocks(k.ex, k.ex.inst[q].node)
      BY DEF SkipsHold
    <2>1. PICK n : n = k.ex.inst[q].node
      OBVIOUS
    <2>2. Blocks(m.ex, n)
      BY <1>1, <1>3, <2>1 DEF SkipsHold
    <2> QED
      BY <1>9, <2>1, <2>2
  <1>11. ASSUME k.ex.status # "none", ~IsTerminal(k.ex.status) PROVE Frozen(H, k.ex.inst, k.rows)
    <2>1. Frozen(H, m.ex.inst, m.rows) /\ (IsTerminalTask(x.st) => x.child = "none")
      BY <1>1, <1>11
    <2>2. x.id \in DOMAIN H => H[x.id] = 0
      BY <1>1, <1>4 DEF Busy
    <2>3. ASSUME NEW q \in DOMAIN k.ex.inst, IsTerminalTask(k.ex.inst[q].st)
          PROVE  LET c == k.ex.inst[q]
                     r == k.rows[k.ex.inst[q].id]
                 IN  /\ c.id \in DOMAIN H => H[c.id] = 0
                     /\ r.st # "SCHEDULED" /\ (r.st = "IN_PROGRESS" => Kind(c.node) = "WAIT")
                     /\ r.st = "IN_PROGRESS" \/ r.child = "runs" => c.st = "COMPLETED" /\ c.out = r.out
      <3>1. CASE k.ex.inst[q] = x
        BY <1>3, <2>1, <2>2, <2>3, <3>1 DEF IsTerminalTask
      <3>2. CASE q \in DOMAIN m.ex.inst /\ k.ex.inst[q] = m.ex.inst[q]
        <4>1. m.ex.inst[q].id \in DOMAIN m.rows
          BY <1>2, <3>2 DEF Numbered
        <4>2. k.rows[k.ex.inst[q].id] = m.rows[m.ex.inst[q].id]
          BY <1>4, <3>2, <4>1
        <4> QED
          BY <2>1, <2>3, <3>2, <4>2 DEF Frozen
      <3> QED
        BY <1>3, <3>1, <3>2
    <2> QED
      BY <2>3 DEF Frozen
  <1> QED
    BY <1>5, <1>6, <1>7, <1>8, <1>10, <1>11 DEF Calm

LEMMA SteadyStep ==
  ASSUME def \in Defs, ChildrenAnswer, Steady, NEW H, NEW m \in SteadyMachines(H)
  PROVE  AdvanceStep(m) \in SteadyMachines(H)
  <1>1. PICK k : k = AdvanceStep(m)
    OBVIOUS
  <1>2. m \in Machines /\ k \in Machines /\ Moves(m, k)
    BY <1>1, StepMoves DEF SteadyMachines
  <1>3. /\ Calm(H, m.ex, m.rows) /\ Unswayed
        /\ m.pc = "skip" => \A p \in m.skips : Blocks(m.ex, def.nodes[p])
    BY DEF SteadyMachines, Steady
  <1>4. m.ex \in Execs /\ m.ex.inst \in Seq(Sound) /\ m.skips \subseteq Places /\ m.todo \subseteq Places
    BY <1>2, MachineFields
  <1>5. CASE k = m
    BY <1>1, <1>5
  <1>6. CASE Stops(m, k) \/ Passes(m, k) \/ SkipsEnd(m, k)
    <2>1. k.pc \notin {"skip", "lost"} /\ k.ex = m.ex /\ k.rows = m.rows
      BY <1>6 DEF Stops, Passes, SkipsEnd, Same
    <2> QED
      BY <1>1, <1>2, <1>3, <2>1 DEF SteadyMachines
  <1>7. CASE Ends(m, k)
    <2>1. k.pc = "done" /\ k.ex.inst = m.ex.inst /\ k.rows = m.rows
      BY <1>7 DEF Ends
    <2>2. Calm(H, k.ex, k.rows)
      <3>1. CASE Same(m, k)
        BY <1>3, <3>1 DEF Same
      <3>2. CASE ~Same(m, k)
        <4>1. k.ex.status = "COMPLETED" /\ (k.ex.var = m.ex.var \/ def.mapsOutput)
          BY <1>7, <3>2 DEF Ends
        <4>2. PICK a : a = m.ex
          OBVIOUS
        <4>3. PICK b : b = k.ex
          OBVIOUS
        <4>4. KeepsEnds(a.inst, b.inst)
          BY <2>1, <4>2, <4>3 DEF KeepsEnds
        <4>5. \A n : Blocks(a, n) => Blocks(b, n)
          BY <1>3, <1>4, <4>1, <4>2, <4>3, <4>4, BlocksKept
        <4>6. SkipsHold(b)
          BY <1>3, <2>1, <4>2, <4>3, <4>5 DEF Calm, SkipsHold
        <4> QED
          BY <1>3, <2>1, <4>1, <4>3, <4>6 DEF Calm, IsTerminal
      <3> QED
        BY <3>1, <3>2
    <2> QED
      BY <1>1, <1>2, <2>1, <2>2 DEF SteadyMachines
  <1>8. CASE Plans(m, k)
    <2>1. /\ k.pc = "skip" /\ k.ex = m.ex /\ k.rows = m.rows
          /\ k.skips = {p \in Places : Skippable(m.ex, def.nodes[p])}
      BY <1>8 DEF Plans, Same
    <2>2. \A p \in k.skips : Blocks(m.ex, def.nodes[p])
      BY <2>1, SkippableBlocks
    <2> QED
      BY <1>1, <1>2, <1>3, <2>1, <2>2 DEF SteadyMachines
  <1>9. ASSUME NEW x, Skips(m, k, x) PROVE k \in SteadyMachines(H)
    <2>1. PICK p : p = Min(m.skips)
      OBVIOUS
    <2>2. /\ Grows(m, k, x) /\ m.pc = "skip" /\ k.pc = "skip" /\ k.ex.status = m.ex.status
          /\ m.skips # {} /\ k.skips = m.skips \ {p} /\ x.node = def.nodes[p] /\ x.st = "SKIPPED"
          /\ ~x.armed /\ x.child = "none" /\ k.ex.var = m.ex.var
      BY <1>9, <2>1 DEF Skips
    <2>3. p \in m.skips
      BY <1>4, <2>1, <2>2, TurnFacts
    <2>4. Blocks(m.ex, x.node)
      BY <1>3, <2>2, <2>3
    <2>5. Calm(H, k.ex, k.rows)
      BY <1>2, <1>3, <2>2, <2>4, CalmGrows
    <2>6. PICK a : a = m.ex
      OBVIOUS
    <2>7. PICK b : b = k.ex
      OBVIOUS
    <2>8. \A n : Blocks(a, n) => Blocks(b, n)
      BY <1>2, <1>3, <1>4, <2>2, <2>6, <2>7, GrownKeepsEnds, BlocksKept
    <2>9. \A r \in k.skips : Blocks(k.ex, def.nodes[r])
      BY <1>3, <2>2, <2>6, <2>7, <2>8
    <2> QED
      BY <1>2, <2>2, <2>5, <2>9 DEF SteadyMachines
  <1>10. ASSUME NEW x, Spawns(m, k, x) PROVE k \in SteadyMachines(H)
    <2>1. Grows(m, k, x) /\ m.pc = "spawn" /\ x \in Sound /\ x.node \in Nodes
      BY <1>10 DEF Spawns, Grows, Sound, Record
    <2>2. k.pc \notin {"skip", "lost"} /\ x.st # "SKIPPED"
      BY <1>10 DEF Spawns, Waits, Answers, Fails, Terminates
    <2>3. ~(1 < def.task[x.node].attempts)
      BY <2>1 DEF Steady
    <2>4. ~x.armed
      BY <1>10, <2>3 DEF Spawns, Waits, Answers, Fails, Terminates
    <2>5. x.st = "IN_PROGRESS" => Kind(x.node) \in {"HUMAN", "WAIT", "WAIT_SIGNAL", "SUB_WORKFLOW"}
      BY <1>10 DEF Spawns, Waits, Answers, Fails, Terminates
    <2>6. k.ex.var = m.ex.var \/ \E o \in Nodes : Kind(o) = "SET_VARIABLE"
      BY <1>10, <2>1 DEF Spawns, Waits, Answers, Fails, Terminates
    <2>7. \/ IsTerminal(k.ex.status)
          \/ k.ex.status = m.ex.status /\ (IsTerminalTask(x.st) => x.child = "none")
      BY <1>10, <2>4 DEF Spawns, Waits, Answers, Fails, Terminates, IsTerminal, IsTerminalTask
    <2>8. Calm(H, k.ex, k.rows)
      BY <1>2, <1>3, <2>1, <2>2, <2>4, <2>5, <2>6, <2>7, CalmGrows
    <2> QED
      BY <1>2, <2>2, <2>8 DEF SteadyMachines
  <1>11. ~Loses(m, k)
    BY <1>2, NoLoss
  <1> QED
    BY <1>1, <1>2, <1>5, <1>6, <1>7, <1>8, <1>9, <1>10, <1>11 DEF Moves

LEMMA SteadyAdvance ==
  ASSUME Shape, ChildrenAnswer, Steady, NEW H, NEW ex, NEW rs, Advances(ex, rs), Calm(H, ex, rs)
  PROVE  Calm(H, exec', rows')
  <1>1. PICK b : b = Machine(ex, rs)
    OBVIOUS
  <1>2. b \in Machines /\ b.ex = ex /\ b.rows = rs /\ b.pc = "advance"
    BY <1>1, MachineIs DEF Advances
  <1>3. PICK X : X = SteadyMachines(H)
    OBVIOUS
  <1>4. b \in X
    BY <1>2, <1>3 DEF SteadyMachines
  <1>5. \A k \in X : AdvanceStep(k) \in X
    BY <1>3, SteadyStep DEF Shape
  <1>6. Advance(b) \in X
    BY <1>4, <1>5, AdvanceIn DEF Shape
  <1>7. PICK m \in SteadyMachines(H) : m = Advance(b)
    BY <1>3, <1>6
  <1>8. m.pc # "lost" /\ Calm(H, m.ex, m.rows)
    BY DEF SteadyMachines
  <1>9. exec' = m.ex /\ rows' = m.rows
    BY <1>1, <1>7, <1>8 DEF Advances, Commit
  <1> QED
    BY <1>8, <1>9

(* A task that is settled, the first time or as it was settled before. *)
Agrees(j) ==
    \A k \in DOMAIN exec.inst : exec.inst[k].id = j.id /\ IsTerminalTask(exec.inst[k].st)
        => (exec.inst[k].st = j.st /\ exec.inst[k].out = j.out) \/ ~Done(j.st)

LEMMA SyncKept ==
  ASSUME Shape, AllNested(exec.inst, rows), Unswayed, Calm(held, exec, rows), NEW j, Named(j),
         IsTerminalTask(j.st), ~j.armed, j.st # "SKIPPED", Agrees(j), NEW rs \in {rows, Put(rows, j)},
         NEW H, Busy(H, rows), NEW ex, ex.inst = Sync(exec.inst, j), ex.var = exec.var
  PROVE  Busy(H, rs) /\ Unarmed(rs) /\ Unarmed(ex.inst) /\ Waiting(ex.inst) /\ SkipsHold(ex)
  <1>1. /\ rows \in Seq(Sound) /\ exec.inst \in Seq(Sound) /\ Numbered(exec.inst, rows)
        /\ j \in Sound /\ j.id \in DOMAIN rows /\ j.node = rows[j.id].node
    BY DEF Shape, Stored, Execs, Named
  <1>2. /\ Unarmed(rows) /\ Unarmed(exec.inst) /\ Waiting(exec.inst) /\ SkipsHold(exec)
    BY DEF Calm
  <1>3. Put(rows, j) = [rows EXCEPT ![j.id] = j]
    BY SyncNamed
  <1>4. DOMAIN rs = DOMAIN rows /\ \A i \in DOMAIN rows : rs[i] = rows[i] \/ (i = j.id /\ rs[i] = j)
    BY <1>1, <1>3
  <1>5. Busy(H, rs)
    BY <1>1, <1>4 DEF Busy
  <1>6. Unarmed(rs)
    BY <1>2, <1>4 DEF Unarmed
  <1>7. PICK Q : Q = ex.inst
    OBVIOUS
  <1>8. /\ \A k \in DOMAIN Q : Q[k] = j \/ (k \in DOMAIN exec.inst /\ Q[k] = exec.inst[k])
        /\ \A k \in DOMAIN exec.inst : k \in DOMAIN Q /\ Q[k] = IF exec.inst[k].id = j.id THEN j ELSE exec.inst[k]
    BY <1>7, SyncElements
  <1>9. Unarmed(Q)
    BY <1>2, <1>8 DEF Unarmed
  <1>10. Waiting(Q)
    BY <1>2, <1>8 DEF Waiting, IsTerminalTask
  <1>11. KeepsEnds(exec.inst, Q)
    <2> SUFFICES ASSUME NEW k \in DOMAIN exec.inst
                 PROVE  /\ k \in DOMAIN Q /\ Q[k].node = exec.inst[k].node
                        /\ IsTerminalTask(exec.inst[k].st) =>
                               \/ Q[k].st = exec.inst[k].st /\ Q[k].out = exec.inst[k].out
                               \/ IsTerminalTask(Q[k].st) /\ ~Done(Q[k].st)
      BY DEF KeepsEnds
    <2>1. CASE exec.inst[k].id = j.id
      <3>1. k \in DOMAIN Q /\ Q[k] = j
        BY <1>8, <2>1
      <3>2. j.node = exec.inst[k].node
        BY <1>1, <2>1 DEF Numbered
      <3> QED
        BY <2>1, <3>1, <3>2 DEF Agrees
    <2>2. CASE exec.inst[k].id # j.id
      BY <1>8, <2>2
    <2> QED
      BY <2>1, <2>2
  <1>12. \A n : Blocks(exec, n) => Blocks(ex, n)
    <2>1. PICK a : a = exec
      OBVIOUS
    <2> QED
      BY <1>1, <1>7, <1>11, <2>1, BlocksKept
  <1>13. SkipsHold(ex)
    BY <1>2, <1>7, <1>8, <1>12 DEF SkipsHold
  <1> QED
    BY <1>5, <1>6, <1>7, <1>9, <1>10, <1>13

LEMMA SyncFrozen ==
  ASSUME Shape, Frozen(held, exec.inst, rows), NEW j, Named(j), IsTerminalTask(j.st),
         NEW H, DOMAIN H = DOMAIN held, j.id \in DOMAIN H => H[j.id] = 0,
         \A i \in DOMAIN H : i # j.id => H[i] = held[i], NEW rs \in {rows, Put(rows, j)},
         \/ rs = Put(rows, j) /\ (j.child = "runs" => j.st = "COMPLETED")
         \/ /\ rs = rows /\ Kind(j.node) = "WAIT" /\ rows[j.id].st = "IN_PROGRESS"
            /\ j.st = "COMPLETED" /\ j.out = rows[j.id].out
  PROVE  Frozen(H, Sync(exec.inst, j), rs)
  <1>1. /\ rows \in Seq(Sound) /\ exec.inst \in Seq(Sound) /\ Numbered(exec.inst, rows)
        /\ j \in Sound /\ j.id \in DOMAIN rows /\ j.node = rows[j.id].node
    BY DEF Shape, Stored, Execs, Named
  <1>2. Put(rows, j) = [rows EXCEPT ![j.id] = j]
    BY SyncNamed
  <1>3. /\ \A i \in DOMAIN rows : i # j.id => rs[i] = rows[i]
        /\ rs = Put(rows, j) => rs[j.id] = j
    BY <1>1, <1>2
  <1>4. PICK Q : Q = Sync(exec.inst, j)
    OBVIOUS
  <1>5. \A k \in DOMAIN Q : Q[k] = j \/ (k \in DOMAIN exec.inst /\ Q[k] = exec.inst[k] /\ exec.inst[k].id # j.id)
    BY <1>4, SyncElements
  <1>6. ASSUME NEW k \in DOMAIN Q, IsTerminalTask(Q[k].st)
        PROVE  LET c == Q[k]
                   r == rs[Q[k].id]
               IN  /\ c.id \in DOMAIN H => H[c.id] = 0
                   /\ r.st # "SCHEDULED" /\ (r.st = "IN_PROGRESS" => Kind(c.node) = "WAIT")
                   /\ r.st = "IN_PROGRESS" \/ r.child = "runs" => c.st = "COMPLETED" /\ c.out = r.out
    <2>1. CASE Q[k] = j
      <3>1. CASE rs = Put(rows, j) /\ (j.child = "runs" => j.st = "COMPLETED")
        BY <1>3, <2>1, <3>1 DEF IsTerminalTask
      <3>2. CASE /\ rs = rows /\ Kind(j.node) = "WAIT" /\ rows[j.id].st = "IN_PROGRESS"
                 /\ j.st = "COMPLETED" /\ j.out = rows[j.id].out
        BY <2>1, <3>2
      <3> QED
        BY <3>1, <3>2
    <2>2. CASE k \in DOMAIN exec.inst /\ Q[k] = exec.inst[k] /\ exec.inst[k].id # j.id
      <3>1. exec.inst[k].id \in DOMAIN rows
        BY <1>1, <2>2 DEF Numbered
      <3>2. rs[Q[k].id] = rows[exec.inst[k].id]
        BY <1>3, <2>2, <3>1
      <3>3. Q[k].id \in DOMAIN H => H[Q[k].id] = 0
        BY <1>6, <2>2 DEF Frozen
      <3> QED
        BY <1>6, <2>2, <3>2, <3>3 DEF Frozen
    <2> QED
      BY <1>5, <2>1, <2>2
  <1> QED
    BY <1>4, <1>6 DEF Frozen

(* What holds of a steady execution. *)
Composed ==
    /\ Exact /\ Steady /\ held \in [1..MaxIds -> {0, 1}] /\ Calm(held, exec, rows)

LEMMA ComposedFacts ==
  ASSUME Composed
  PROVE  /\ Shape /\ AllNested(exec.inst, rows) /\ ChildrenAnswer /\ Steady /\ Unswayed
         /\ held \in [1..MaxIds -> {0, 1}] /\ Calm(held, exec, rows) /\ def \in Defs
         /\ exec \in Execs /\ exec.inst \in Seq(Sound) /\ rows \in Seq(Sound) /\ Numbered(exec.inst, rows)
         /\ \A i \in DOMAIN rows : i \in 1..MaxIds /\ rows[i] \in Sound /\ rows[i].node \in Nodes
  <1>1. /\ Shape /\ AllNested(exec.inst, rows) /\ ChildrenAnswer /\ Steady /\ OneEach(exec.inst)
        /\ held \in [1..MaxIds -> {0, 1}] /\ Calm(held, exec, rows)
    BY DEF Composed, Exact, Twins, Accounts
  <1>2. /\ def \in Defs /\ exec \in Execs /\ exec.inst \in Seq(Sound) /\ rows \in Seq(Sound)
        /\ Numbered(exec.inst, rows)
    BY <1>1 DEF Shape, Stored, Execs
  <1>3. Len(rows) <= Len(def.nodes) /\ Len(def.nodes) <= MaxIds
    BY <1>1, <1>2, RowsFit DEF Steady
  <1>4. Len(def.nodes) \in Nat /\ MaxIds \in Nat
    BY <1>2, NodesFacts, WorkflowAssumption
  <1>5. DOMAIN rows = 1..Len(rows) /\ Len(rows) \in Nat
    BY <1>2
  <1>6. \A i \in DOMAIN rows : i \in 1..MaxIds
    BY <1>3, <1>4, <1>5
  <1> QED
    BY <1>1, <1>2, <1>6 DEF Steady, Sound, Record

(* A report, a child's end, a signal or a deadline: the worker has let go,    *)
(* and what it says agrees with what has been said before.                    *)
LEMMA SourceAgrees ==
  ASSUME Composed, ~Over, NEW j, Known(j), Reported(j) \/ ChildEnded(j) \/ Signalled(j) \/ Elapsed(j)
  PROVE  /\ held' \in [1..MaxIds -> {0, 1}] /\ Busy(held', rows) /\ held'[j.id] = 0
         /\ \A i \in 1..MaxIds : i # j.id => held'[i] = held[i]
         /\ Agrees(j) /\ ~j.armed /\ j.st # "SKIPPED" /\ (j.child = "runs" => j.st = "COMPLETED")
  <1>1. /\ Shape /\ Steady /\ held \in [1..MaxIds -> {0, 1}] /\ Calm(held, exec, rows)
        /\ Numbered(exec.inst, rows)
    BY ComposedFacts
  <1>2. Busy(held, rows) /\ Unarmed(rows) /\ Unarmed(exec.inst) /\ Waiting(exec.inst) /\ Frozen(held, exec.inst, rows)
    BY <1>1 DEF Calm, Over
  <1>3. j \in Sound /\ j.id \in DOMAIN rows /\ j.node = rows[j.id].node /\ rows[j.id] \in Sound /\ j.id \in 1..MaxIds
    BY ComposedFacts DEF Known, Named
  <1>4. ~j.armed
    BY <1>2, <1>3 DEF Known, WasArmed, Unarmed
  <1>5. held[j.id] \in {0, 1} /\ (Kind(j.node) # "SIMPLE" => held[j.id] = 0)
    BY <1>1, <1>2, <1>3 DEF Busy
  <1>6. j.child # "none" => Kind(j.node) = "SUB_WORKFLOW"
    BY <1>3 DEF Sound, InBudget
  <1>7. \A k \in DOMAIN exec.inst : exec.inst[k].id = j.id => exec.inst[k].node = j.node
    BY <1>1, <1>3 DEF Numbered
  <1>8. CASE Reported(j)
    <2>1. held' = [held EXCEPT ![j.id] = IF @ > 0 THEN @ - 1 ELSE @]
      BY <1>8 DEF Reported
    <2>2. held'[j.id] = 0
      BY <1>1, <1>3, <1>5, <2>1
    <2>3. /\ held' \in [1..MaxIds -> {0, 1}]
          /\ \A i \in 1..MaxIds : i # j.id => held'[i] = held[i]
      BY <1>1, <1>3, <1>5, <2>1
    <2>4. Busy(held', rows)
      BY <1>1, <1>2, <2>2, <2>3 DEF Busy
    <2>5. Agrees(j)
      <3> SUFFICES ASSUME NEW k \in DOMAIN exec.inst, exec.inst[k].id = j.id, IsTerminalTask(exec.inst[k].st)
                   PROVE  FALSE
        BY DEF Agrees
      <3>1. held[j.id] = 0 /\ (rows[j.id].st = "IN_PROGRESS" => Kind(j.node) = "WAIT")
        BY <1>1, <1>2, <1>3, <1>7 DEF Frozen
      <3> QED
        BY <1>8, <3>1 DEF Reported
    <2>6. j.st # "SKIPPED"
      BY <1>1, <1>8 DEF Reported, Steady
    <2>7. j.child # "runs"
      <3>1. Kind(j.node) \in {"SIMPLE", "HUMAN"}
        BY <1>5, <1>8 DEF Reported
      <3> QED
        BY <1>6, <3>1
    <2> QED
      BY <1>4, <2>2, <2>3, <2>4, <2>5, <2>6, <2>7
  <1>9. CASE ChildEnded(j)
    <2>1. held' = held /\ j.child = "ended" /\ j.st \in {"COMPLETED", "FAILED"} /\ j.out = rows[j.id].out
          /\ rows[j.id].child = "runs"
      BY <1>9 DEF ChildEnded
    <2>2. held[j.id] = 0
      BY <1>5, <1>6, <2>1
    <2>3. Agrees(j)
      <3> SUFFICES ASSUME NEW k \in DOMAIN exec.inst, exec.inst[k].id = j.id, IsTerminalTask(exec.inst[k].st)
                   PROVE  (exec.inst[k].st = j.st /\ exec.inst[k].out = j.out) \/ ~Done(j.st)
        BY DEF Agrees
      <3>1. exec.inst[k].st = "COMPLETED" /\ exec.inst[k].out = rows[j.id].out
        BY <1>2, <2>1 DEF Frozen
      <3> QED
        BY <2>1, <3>1 DEF Done
    <2> QED
      BY <1>1, <1>2, <1>4, <2>1, <2>2, <2>3
  <1>10. CASE Signalled(j)
    <2>1. held' = held /\ j.st = "COMPLETED"
      BY <1>10 DEF Signalled
    <2>2. PICK k \in DOMAIN exec.inst : exec.inst[k].id = j.id /\ exec.inst[k].st = "IN_PROGRESS"
      BY <1>10 DEF Signalled
    <2>3. held[j.id] = 0
      BY <1>2, <1>5, <1>7, <2>2 DEF Waiting
    <2>4. Agrees(j)
      BY <1>1, <2>2 DEF Agrees, Numbered, IsTerminalTask
    <2> QED
      BY <1>1, <1>2, <1>4, <2>1, <2>3, <2>4
  <1>11. CASE Elapsed(j)
    <2>1. /\ held' = held /\ j.st = "COMPLETED" /\ j.out = rows[j.id].out
          /\ rows[j.id].st = "IN_PROGRESS" /\ Kind(j.node) = "WAIT"
      BY <1>11 DEF Elapsed
    <2>2. held[j.id] = 0
      BY <1>5, <2>1
    <2>3. Agrees(j)
      <3> SUFFICES ASSUME NEW k \in DOMAIN exec.inst, exec.inst[k].id = j.id, IsTerminalTask(exec.inst[k].st)
                   PROVE  exec.inst[k].st = j.st /\ exec.inst[k].out = j.out
        BY DEF Agrees
      <3>1. exec.inst[k].st = "COMPLETED" /\ exec.inst[k].out = rows[j.id].out
        BY <1>2, <2>1 DEF Frozen
      <3> QED
        BY <2>1, <3>1
    <2> QED
      BY <1>1, <1>2, <1>4, <2>1, <2>2, <2>3
  <1> QED
    BY <1>8, <1>9, <1>10, <1>11

LEMMA HeldLess ==
  ASSUME held \in [1..MaxIds -> {0, 1}], Busy(held, rows), NEW j, Reported(j) \/ held' = held
  PROVE  held' \in [1..MaxIds -> {0, 1}] /\ Busy(held', rows)
  <1>1. CASE held' = held
    BY <1>1
  <1>2. CASE Reported(j)
    <2>1. held' = [held EXCEPT ![j.id] = IF @ > 0 THEN @ - 1 ELSE @]
      BY <1>2 DEF Reported
    <2>2. DOMAIN held' = 1..MaxIds /\ held' = [x \in 1..MaxIds |-> held'[x]]
      BY <2>1
    <2>3. \A i \in 1..MaxIds : held'[i] \in {0, 1} /\ (held'[i] # 0 => held[i] # 0)
      BY <2>1
    <2>4. held' \in [1..MaxIds -> {0, 1}]
      BY <2>2, <2>3
    <2>5. Busy(held', rows)
      BY <2>2, <2>3 DEF Busy
    <2> QED
      BY <2>4, <2>5
  <1> QED
    BY <1>1, <1>2

(* A result for an execution that is over: only its row is written. *)
LEMMA CalmDrops ==
  ASSUME Composed, NEW j, Drops(j), NEW H, Busy(H, rows)
  PROVE  Calm(H, exec', rows')
  <1>1. /\ rows \in Seq(Sound) /\ Numbered(exec.inst, rows) /\ Calm(held, exec, rows) /\ Shape
    BY ComposedFacts
  <1>2. /\ Over /\ exec' = exec /\ Known(j) /\ rows' = [rows EXCEPT ![j.id] = j]
    BY DEF Drops, Quiet, Replaces
  <1>3. j.id \in DOMAIN rows /\ j.node = rows[j.id].node
    BY <1>2 DEF Known, Named
  <1>4. Unarmed(rows) /\ Unarmed(exec.inst) /\ Waiting(exec.inst) /\ SkipsHold(exec)
    BY <1>1 DEF Calm
  <1>5. ~j.armed
    BY <1>2, <1>3, <1>4 DEF Known, WasArmed, Unarmed
  <1>6. DOMAIN rows' = DOMAIN rows /\ \A i \in DOMAIN rows : rows'[i] = IF i = j.id THEN j ELSE rows[i]
    BY <1>1, <1>2, <1>3
  <1>7. Busy(H, rows')
    BY <1>3, <1>6 DEF Busy
  <1>8. Unarmed(rows')
    BY <1>4, <1>5, <1>6 DEF Unarmed
  <1> QED
    BY <1>2, <1>4, <1>7, <1>8 DEF Calm, Over

(* Without retries a failed task ends the execution. *)
LEMMA CalmFails ==
  ASSUME Composed, NEW j, FailsTask(j), NEW H, Busy(H, rows)
  PROVE  Calm(H, exec', rows')
  <1>1. /\ Shape /\ AllNested(exec.inst, rows) /\ Unswayed /\ Steady /\ Calm(held, exec, rows)
    BY ComposedFacts
  <1>2. /\ Named(j) /\ Failed(j.st) /\ exec'.inst = Sync(exec.inst, j) /\ exec'.var = exec.var
        /\ rows' = Put(rows, j)
    BY DEF FailsTask
  <1>3. j.node \in Nodes /\ j.id \in DOMAIN rows
    BY <1>2 DEF Named, Sound, Record
  <1>4. exec'.status = "FAILED" /\ (j.armed => WasArmed(j))
    BY <1>1, <1>3 DEF FailsTask, Steady
  <1>5. ~j.armed
    BY <1>1, <1>3, <1>4 DEF Calm, Unarmed, WasArmed
  <1>6. IsTerminalTask(j.st) /\ j.st # "SKIPPED" /\ Agrees(j)
    BY <1>2 DEF Agrees, Failed, Done, IsTerminalTask
  <1>7. PICK rs \in {rows, Put(rows, j)} : rs = Put(rows, j)
    OBVIOUS
  <1>8. PICK ex : ex = exec'
    OBVIOUS
  <1>9. ex.inst = Sync(exec.inst, j) /\ ex.var = exec.var
    BY <1>2, <1>8
  <1>10. Busy(H, rs) /\ Unarmed(rs) /\ Unarmed(ex.inst) /\ Waiting(ex.inst) /\ SkipsHold(ex)
    BY <1>1, <1>2, <1>5, <1>6, <1>9, SyncKept
  <1>11. Calm(H, ex, rs)
    BY <1>4, <1>8, <1>10 DEF Calm, IsTerminal
  <1> QED
    BY <1>2, <1>7, <1>8, <1>11

(* A task that is settled while the execution goes on. *)
LEMMA CalmSettles ==
  ASSUME Composed, NEW j, Settles(j), Reported(j) \/ ChildEnded(j) \/ Signalled(j) \/ Elapsed(j)
  PROVE  held' \in [1..MaxIds -> {0, 1}] /\ Calm(held', exec', rows')
  <1>1. /\ Shape /\ AllNested(exec.inst, rows) /\ Unswayed /\ Steady /\ ChildrenAnswer /\ Calm(held, exec, rows)
        /\ held \in [1..MaxIds -> {0, 1}] /\ exec \in Execs
    BY ComposedFacts
  <1>2. Reported(j) \/ held' = held
    BY DEF ChildEnded, Signalled, Elapsed
  <1>3. Busy(held, rows)
    BY <1>1 DEF Calm
  <1>4. PICK H : H = held'
    OBVIOUS
  <1>5. H \in [1..MaxIds -> {0, 1}] /\ Busy(H, rows)
    BY <1>1, <1>2, <1>3, <1>4, HeldLess
  <1>6. CASE Drops(j)
    BY <1>4, <1>5, <1>6, CalmDrops
  <1>7. ASSUME NEW f, FailsTask(f) PROVE Calm(H, exec', rows')
    BY <1>5, <1>7, CalmFails
  <1>8. ASSUME ~Over, Known(j), IsTerminalTask(j.st), NEW rs \in {rows, Put(rows, j)},
               NEW ex, ex = SyncInstance(exec, j),
               \/ rs = Put(rows, j)
               \/ /\ rs = rows /\ Kind(j.node) = "WAIT" /\ rows[j.id].st = "IN_PROGRESS"
                  /\ j.st = "COMPLETED" /\ j.out = rows[j.id].out
        PROVE  Calm(H, ex, rs)
    <2>1. /\ held'[j.id] = 0 /\ (\A i \in 1..MaxIds : i # j.id => held'[i] = held[i])
          /\ Agrees(j) /\ ~j.armed /\ j.st # "SKIPPED" /\ (j.child = "runs" => j.st = "COMPLETED")
      BY <1>8, SourceAgrees
    <2>2. DOMAIN H = DOMAIN held /\ H[j.id] = 0 /\ \A i \in DOMAIN H : i # j.id => H[i] = held[i]
      BY <1>1, <1>4, <1>5, <2>1
    <2>3. Named(j)
      BY <1>8 DEF Known
    <2>4. ex.inst = Sync(exec.inst, j) /\ ex.var = exec.var
      BY <1>1, <1>8, <2>3, SyncNamed
    <2>5. Busy(H, rs) /\ Unarmed(rs) /\ Unarmed(ex.inst) /\ Waiting(ex.inst) /\ SkipsHold(ex)
      BY <1>1, <1>5, <1>8, <2>1, <2>3, <2>4, SyncKept
    <2>6. Frozen(held, exec.inst, rows)
      BY <1>1, <1>8 DEF Calm, Over
    <2>7. Frozen(H, Sync(exec.inst, j), rs)
      BY <1>1, <1>8, <2>1, <2>2, <2>3, <2>6, SyncFrozen
    <2> QED
      BY <2>4, <2>5, <2>7 DEF Calm
  <1>9. CASE Parks(j)
    <2>1. PICK rs \in {rows, Put(rows, j)} : rs = Put(rows, j)
      OBVIOUS
    <2>2. PICK ex : ex = SyncInstance(exec, j)
      OBVIOUS
    <2>3. ~Over /\ Known(j) /\ IsTerminalTask(j.st) /\ exec' = ex /\ rows' = rs
      BY <1>9, <2>1, <2>2 DEF Parks, IsTerminalTask
    <2>4. Calm(H, ex, rs)
      BY <1>8, <2>1, <2>2, <2>3
    <2> QED
      BY <1>4, <1>5, <2>3, <2>4
  <1>10. ASSUME NEW ex, NEW rs, Completes(ex, rs, j) PROVE Calm(H, exec', rows')
    <2>1. /\ ~Over /\ Known(j) /\ IsTerminalTask(j.st) /\ rs \in {rows, Put(rows, j)}
          /\ ex = SyncInstance(exec, j) /\ Advances(ex, rs)
          /\ \/ rs = Put(rows, j)
             \/ /\ rs = rows /\ Kind(j.node) = "WAIT" /\ rows[j.id].st = "IN_PROGRESS"
                /\ j.st = "COMPLETED" /\ j.out = rows[j.id].out
      BY <1>10 DEF Completes, Done, IsTerminalTask
    <2>2. Calm(H, ex, rs)
      BY <1>8, <2>1
    <2> QED
      BY <1>1, <2>1, <2>2, SteadyAdvance
  <1> QED
    BY <1>4, <1>5, <1>6, <1>7, <1>9, <1>10 DEF Settles

(* A row that is claimed or taken back: its task has not ended. *)
LEMMA CalmQueues ==
  ASSUME Composed, NEW i \in DOMAIN rows, exec' = exec, rows[i].st \in {"SCHEDULED", "IN_PROGRESS"},
         Kind(rows[i].node) = "SIMPLE", DOMAIN rows' = DOMAIN rows,
         \A o \in DOMAIN rows : o # i => rows'[o] = rows[o],
         rows'[i].node = rows[i].node, rows'[i].armed = rows[i].armed,
         NEW H \in [1..MaxIds -> {0, 1}], \A o \in 1..MaxIds : o # i => H[o] = held[o]
  PROVE  Calm(H, exec', rows')
  <1>1. /\ Calm(held, exec, rows) /\ Numbered(exec.inst, rows) /\ held \in [1..MaxIds -> {0, 1}]
    BY ComposedFacts
  <1>2. /\ Busy(held, rows) /\ Unarmed(rows) /\ Unarmed(exec.inst) /\ Waiting(exec.inst) /\ SkipsHold(exec)
        /\ ~Over => Frozen(held, exec.inst, rows)
    BY <1>1 DEF Calm, Over
  <1>3. Busy(H, rows')
    BY <1>1, <1>2 DEF Busy
  <1>4. Unarmed(rows')
    BY <1>2 DEF Unarmed
  <1>5. ASSUME ~Over PROVE Frozen(H, exec.inst, rows')
    <2>1. ASSUME NEW k \in DOMAIN exec.inst, IsTerminalTask(exec.inst[k].st)
          PROVE  LET c == exec.inst[k]
                     r == rows'[exec.inst[k].id]
                 IN  /\ c.id \in DOMAIN H => H[c.id] = 0
                     /\ r.st # "SCHEDULED" /\ (r.st = "IN_PROGRESS" => Kind(c.node) = "WAIT")
                     /\ r.st = "IN_PROGRESS" \/ r.child = "runs" => c.st = "COMPLETED" /\ c.out = r.out
      <3>1. exec.inst[k].id \in DOMAIN rows /\ exec.inst[k].node = rows[exec.inst[k].id].node
        BY <1>1 DEF Numbered
      <3>2. exec.inst[k].id # i
        BY <1>2, <1>5, <2>1, <3>1 DEF Frozen
      <3>3. rows'[exec.inst[k].id] = rows[exec.inst[k].id]
        BY <3>1, <3>2
      <3>4. exec.inst[k].id \in DOMAIN H => H[exec.inst[k].id] = 0
        BY <1>1, <1>2, <1>5, <2>1, <3>2 DEF Frozen
      <3> QED
        BY <1>2, <1>5, <2>1, <3>3, <3>4 DEF Frozen
    <2> QED
      BY <2>1 DEF Frozen
  <1> QED
    BY <1>2, <1>3, <1>4, <1>5 DEF Calm, Over

LEMMA CalmWorker ==
  ASSUME Composed, Worker
  PROVE  held' \in [1..MaxIds -> {0, 1}] /\ Calm(held', exec', rows')
  <1>1. /\ Calm(held, exec, rows) /\ Numbered(exec.inst, rows) /\ held \in [1..MaxIds -> {0, 1}]
        /\ Shape /\ Steady /\ rows \in Seq(Sound) /\ def \in Defs
        /\ \A i \in DOMAIN rows : i \in 1..MaxIds /\ rows[i] \in Sound
    BY ComposedFacts
  <1>2. PICK H : H = held'
    OBVIOUS
  <1>3. ASSUME NEW i \in DOMAIN rows, Claim(i)
        PROVE  H \in [1..MaxIds -> {0, 1}] /\ Calm(H, exec', rows')
    <2>1. /\ rows[i].st = "SCHEDULED" /\ Kind(rows[i].node) = "SIMPLE" /\ held[i] < MaxHeld[def]
          /\ rows' = [rows EXCEPT ![i].st = "IN_PROGRESS", ![i].due = TRUE]
          /\ held' = [held EXCEPT ![i] = @ + 1] /\ exec' = exec
      BY <1>3 DEF Claim, Kind
    <2>2. MaxHeld[def] \in Nat /\ MaxHeld[def] <= 1
      BY <1>1, WorkflowAssumption DEF Steady
    <2>3. held[i] = 0 /\ i \in 1..MaxIds
      BY <1>1, <2>1, <2>2
    <2>4. H \in [1..MaxIds -> {0, 1}] /\ \A o \in 1..MaxIds : o # i => H[o] = held[o]
      BY <1>1, <1>2, <2>1, <2>3
    <2>5. DOMAIN rows' = DOMAIN rows /\ \A o \in DOMAIN rows : o # i => rows'[o] = rows[o]
      BY <1>1, <2>1
    <2>6. rows'[i].node = rows[i].node /\ rows'[i].armed = rows[i].armed
      BY <1>1, <2>1 DEF Sound, Record
    <2>7. Calm(H, exec', rows')
      BY <2>1, <2>4, <2>5, <2>6, CalmQueues
    <2> QED
      BY <2>4, <2>7
  <1>4. ASSUME NEW i \in DOMAIN rows, WorkerDies(i)
        PROVE  H \in [1..MaxIds -> {0, 1}] /\ Calm(H, exec', rows')
    <2>1. /\ held[i] > 0 /\ held' = [held EXCEPT ![i] = @ - 1] /\ exec' = exec /\ rows' = rows
      BY <1>4 DEF WorkerDies
    <2>2. H \in [1..MaxIds -> {0, 1}] /\ \A o \in 1..MaxIds : H[o] # 0 => held[o] # 0
      BY <1>1, <1>2, <2>1
    <2>3. Busy(H, rows)
      BY <1>1, <2>2 DEF Calm, Busy
    <2>4. Frozen(held, exec.inst, rows) => Frozen(H, exec.inst, rows)
      BY <1>1, <2>2 DEF Frozen
    <2> QED
      BY <1>1, <2>1, <2>2, <2>3, <2>4 DEF Calm
  <1>5. ASSUME NEW i \in DOMAIN rows, NEW st \in Results, NEW out \in Outs, SubmitResult(i, st, out)
        PROVE  H \in [1..MaxIds -> {0, 1}] /\ Calm(H, exec', rows')
    <2>1. \E j : Settles(j) /\ Reported(j)
      BY <1>1, <1>5, SubmitResultStep
    <2> QED
      BY <1>2, <2>1, CalmSettles
  <1> QED
    BY <1>2, <1>3, <1>4, <1>5 DEF Worker

LEMMA CalmSweep ==
  ASSUME Composed, Sweep \/ Child
  PROVE  held' \in [1..MaxIds -> {0, 1}] /\ Calm(held', exec', rows')
  <1>1. /\ Calm(held, exec, rows) /\ held \in [1..MaxIds -> {0, 1}] /\ Shape /\ Steady /\ ChildrenAnswer
    BY ComposedFacts
  <1> DEFINE Goal == held' \in [1..MaxIds -> {0, 1}] /\ Calm(held', exec', rows')
  <1> HIDE DEF Goal
  <1> SUFFICES Goal
    BY DEF Goal
  <1>2. CASE Idle /\ held' = held
    BY <1>1, <1>2 DEF Idle, Quiet, Goal
  <1>3. ASSUME NEW i \in DOMAIN rows, SweepTimeouts(i) PROVE Goal
    <2>1. held' = held
      BY <1>3 DEF SweepTimeouts
    <2>2. CASE Kind(rows[i].node) = "WAIT"
      <3>1. Idle \/ \E j : Settles(j) /\ Elapsed(j)
        BY <1>1, <1>3, <2>2, WaitTimeoutStep
      <3>2. ASSUME NEW j, Settles(j), Elapsed(j) PROVE Goal
        BY <3>2, CalmSettles DEF Goal
      <3> QED
        BY <1>2, <2>1, <3>1, <3>2
    <2>3. CASE Kind(rows[i].node) # "WAIT"
      <3>1. Idle \/ \E j : Drops(j) \/ FailsTask(j)
        BY <1>1, <1>3, <2>3, TimeoutStep
      <3>2. PICK H : H = held
        OBVIOUS
      <3>3. Busy(H, rows)
        BY <1>1, <3>2 DEF Calm
      <3>4. ASSUME NEW j, Drops(j) \/ FailsTask(j) PROVE Calm(H, exec', rows')
        BY <3>3, <3>4, CalmDrops, CalmFails
      <3>5. ASSUME NEW j, Drops(j) \/ FailsTask(j) PROVE Goal
        BY <1>1, <2>1, <3>2, <3>4, <3>5 DEF Goal
      <3> QED
        BY <1>2, <2>1, <3>1, <3>5
    <2> QED
      BY <2>2, <2>3
  <1>4. ASSUME NEW i \in DOMAIN rows, SweepRetries(i) PROVE Goal
    BY <1>1, <1>4 DEF SweepRetries, Calm, Unarmed
  <1>5. CASE SweepAdvance
    <2>1. Advances(exec, rows) /\ held' = held
      BY <1>1, <1>5 DEF SweepAdvance, Advances, Shape
    <2>2. PICK H : H = held
      OBVIOUS
    <2>3. PICK ex : ex = exec
      OBVIOUS
    <2>4. PICK rs : rs = rows
      OBVIOUS
    <2>5. Calm(H, exec', rows')
      BY <1>1, <2>1, <2>2, <2>3, <2>4, SteadyAdvance
    <2> QED
      BY <1>1, <2>1, <2>2, <2>5 DEF Goal
  <1>6. ASSUME NEW i \in DOMAIN rows, NEW st \in {"COMPLETED", "FAILED"}, ChildEnds(i, st) PROVE Goal
    <2>1. \E j : Settles(j) /\ ChildEnded(j)
      BY <1>1, <1>6, ChildEndsStep
    <2> QED
      BY <2>1, CalmSettles DEF Goal
  <1> QED
    BY <1>3, <1>4, <1>5, <1>6 DEF Sweep, Child

(* Another status of the same execution. *)
LEMMA CalmStatus ==
  ASSUME Composed, NEW ex, ex.inst = exec.inst, ex.var = exec.var, ~Over \/ IsTerminal(ex.status)
  PROVE  Calm(held, ex, rows)
  <1>1. Calm(held, exec, rows) /\ Unswayed /\ exec.inst \in Seq(Sound)
    BY ComposedFacts
  <1>2. PICK a : a = exec
    OBVIOUS
  <1>3. KeepsEnds(a.inst, ex.inst)
    BY <1>2 DEF KeepsEnds
  <1>4. \A n : Blocks(a, n) => Blocks(ex, n)
    BY <1>1, <1>2, <1>3, BlocksKept
  <1>5. SkipsHold(ex)
    BY <1>1, <1>2, <1>4 DEF Calm, SkipsHold
  <1> QED
    BY <1>1, <1>5 DEF Calm, Over

LEMMA CalmOperator ==
  ASSUME Composed, Start \/ Operator
  PROVE  held' \in [1..MaxIds -> {0, 1}] /\ Calm(held', exec', rows')
  <1>1. /\ Calm(held, exec, rows) /\ held \in [1..MaxIds -> {0, 1}] /\ Shape /\ Steady /\ ChildrenAnswer
        /\ AllNested(exec.inst, rows) /\ exec \in Execs /\ exec.inst \in Seq(Sound) /\ rows \in Seq(Sound)
        /\ Numbered(exec.inst, rows)
        /\ \A i \in DOMAIN rows : rows[i] \in Sound
    BY ComposedFacts
  <1> DEFINE Goal == held' \in [1..MaxIds -> {0, 1}] /\ Calm(held', exec', rows')
  <1> HIDE DEF Goal
  <1> SUFFICES Goal
    BY DEF Goal
  <1>2. PICK H : H = held
    OBVIOUS
  <1>3. ASSUME NEW ex, Advances(ex, rows), Calm(H, ex, rows), held' = held PROVE Goal
    <2>1. PICK rs : rs = rows
      OBVIOUS
    <2>2. Calm(H, exec', rows')
      BY <1>1, <1>3, <2>1, SteadyAdvance
    <2> QED
      BY <1>1, <1>2, <1>3, <2>2 DEF Goal
  <1>4. CASE Start
    <2>1. PICK ex : ex = [status |-> "RUNNING", inst |-> <<>>, var |-> NoValue]
      OBVIOUS
    <2>2. ex \in Execs /\ ex.inst = <<>> /\ ex.status = "RUNNING"
      BY <2>1 DEF Execs, Statuses, Outs
    <2>3. Stored(ex, rows)
      BY <1>1, <2>2 DEF Stored, Numbered
    <2>4. Advances(ex, rows) /\ held' = held
      BY <1>4, <2>1, <2>3 DEF Start, Advances
    <2>5. Unarmed(ex.inst) /\ Waiting(ex.inst) /\ SkipsHold(ex) /\ Frozen(H, ex.inst, rows)
      BY <2>2 DEF Unarmed, Waiting, SkipsHold, Frozen
    <2>6. Calm(H, ex, rows)
      BY <1>1, <1>2, <2>5 DEF Calm
    <2> QED
      BY <1>3, <2>4, <2>6
  <1>5. CASE Resume
    <2>1. PICK ex : ex = [exec EXCEPT !.status = "RUNNING"]
      OBVIOUS
    <2>2. ex \in Execs /\ ex.inst = exec.inst /\ ex.var = exec.var /\ ex.status = "RUNNING"
      BY <1>1, <2>1 DEF Execs, Statuses
    <2>3. Stored(ex, rows)
      BY <1>1, <2>2 DEF Stored
    <2>4. Advances(ex, rows) /\ held' = held /\ exec.status = "PAUSED"
      BY <1>5, <2>1, <2>3 DEF Resume, Revive, Advances
    <2>5. ~Over
      BY <2>4 DEF Over, IsTerminal
    <2>6. Calm(H, ex, rows)
      BY <1>2, <2>2, <2>5, CalmStatus
    <2> QED
      BY <1>3, <2>4, <2>6
  <1>6. CASE Reconcile
    <2>1. PICK ex : ex = exec
      OBVIOUS
    <2>2. Advances(ex, rows) /\ held' = held
      BY <1>1, <1>6, <2>1 DEF Reconcile, Advances, Shape
    <2> QED
      BY <1>1, <1>2, <1>3, <2>1, <2>2
  <1>7. CASE Pause \/ Terminate
    <2>1. PICK ex : ex = exec'
      OBVIOUS
    <2>2. /\ ex.inst = exec.inst /\ ex.var = exec.var /\ rows' = rows /\ held' = held
          /\ exec.status = "RUNNING" \/ ex.status = "TERMINATED"
      BY <1>1, <1>7, <2>1 DEF Pause, Terminate, Execs
    <2>3. ~Over \/ IsTerminal(ex.status)
      BY <2>2 DEF Over, IsTerminal
    <2>4. Calm(held, ex, rows)
      BY <2>2, <2>3, CalmStatus
    <2> QED
      BY <1>1, <2>1, <2>2, <2>4 DEF Goal
  <1>8. ASSUME NEW n, Signal(n) PROVE Goal
    <2>1. \E j : Settles(j) /\ Signalled(j)
      BY <1>1, <1>8, SignalStep
    <2> QED
      BY <2>1, CalmSettles DEF Goal
  <1>9. ASSUME NEW i \in DOMAIN rows, Requeue(i) PROVE Goal
    <2>1. /\ rows[i].st = "IN_PROGRESS" /\ Kind(rows[i].node) = "SIMPLE" /\ held' = held /\ exec' = exec
          /\ rows' = [rows EXCEPT ![i].st = "SCHEDULED", ![i].due = FALSE]
      BY <1>9 DEF Requeue, Kind
    <2>2. H \in [1..MaxIds -> {0, 1}] /\ \A o \in 1..MaxIds : o # i => H[o] = held[o]
      BY <1>1, <1>2
    <2>3. DOMAIN rows' = DOMAIN rows /\ \A o \in DOMAIN rows : o # i => rows'[o] = rows[o]
      BY <1>1, <2>1
    <2>4. rows'[i].node = rows[i].node /\ rows'[i].armed = rows[i].armed
      BY <1>1, <2>1 DEF Sound, Record
    <2>5. Calm(H, exec', rows')
      BY <2>1, <2>2, <2>3, <2>4, CalmQueues
    <2> QED
      BY <1>1, <1>2, <2>1, <2>5 DEF Goal
  <1>10. ~(\E name \in {"retry", "restart", "rerun", "queue_update"} : Call(name))
    BY <1>1 DEF Call, Steady, Unrevived
  <1>11. ~Retry /\ ~Restart /\ (\A n : ~Rerun(n)) /\ \A n, st, out : ~QueueUpdate(n, st, out)
    BY <1>10 DEF Retry, Restart, Rerun, QueueUpdate
  <1> QED
    BY <1>4, <1>5, <1>6, <1>7, <1>8, <1>9, <1>11 DEF Operator

LEMMA CalmStep ==
  ASSUME Composed, [Next]_vars
  PROVE  held' \in [1..MaxIds -> {0, 1}] /\ Calm(held', exec', rows')
  <1>1. CASE UNCHANGED vars
    <2>1. held' = held /\ exec' = exec /\ rows' = rows
      BY <1>1 DEF vars
    <2> QED
      BY <2>1, ComposedFacts
  <1> QED
    BY <1>1, CalmWorker, CalmSweep, CalmOperator DEF Next

LEMMA ComposedAlways == ChildrenAnswer /\ DistinctNodes /\ Steady /\ Spec => []Composed
  <1> DEFINE Rest == Steady /\ held \in [1..MaxIds -> {0, 1}] /\ Calm(held, exec, rows)
  <1>1. Init /\ Steady => Rest
    <2> SUFFICES ASSUME Init, Steady PROVE Rest
      OBVIOUS
    <2>1. /\ exec.status = "none" /\ exec.inst = <<>> /\ rows = <<>> /\ held = [i \in 1..MaxIds |-> 0]
      BY DEF Init
    <2>2. Busy(held, rows)
      BY <2>1 DEF Busy
    <2>3. Unarmed(rows) /\ Unarmed(exec.inst) /\ Waiting(exec.inst) /\ SkipsHold(exec)
      BY <2>1 DEF Unarmed, Waiting, SkipsHold
    <2> QED
      BY <2>1, <2>2, <2>3 DEF Calm
  <1>2. Exact /\ Rest /\ [Next]_vars => Rest'
    <2> SUFFICES ASSUME Composed, [Next]_vars PROVE Rest'
      BY DEF Composed
    <2>1. held' \in [1..MaxIds -> {0, 1}] /\ Calm(held', exec', rows')
      BY CalmStep
    <2>2. def' = def
      BY ComposedFacts, NextSteps
    <2>3. Steady'
      BY <2>2, ComposedFacts DEF Steady, Unswayed, Unrevived, Nodes, Kind
    <2>4. Calm(held, exec, rows)'
      BY <2>1, <2>2 DEF Calm, Busy, Unarmed, Waiting, SkipsHold, Frozen, Blocks, Blocked, Incoming, Kind
    <2> QED
      BY <2>1, <2>3, <2>4
  <1>3. Steady => NoRestarts
    BY DEF Steady, Unrevived, NoRestarts
  <1>4. Exact /\ Rest => Composed
    BY DEF Composed
  <1> HIDE DEF Rest
  <1> QED
    BY <1>1, <1>2, <1>3, <1>4, ExactAlways, PTL DEF Spec

(* A branch that advance() has SKIPPED was "never going to fire": no edge     *)
(* into it is satisfied, then or later, whatever workers, requeues, signals,  *)
(* deadlines, children and sweeps still report.  The hypotheses are the ones  *)
(* the code needs: a second report of a task, or an armed retry, changes the  *)
(* outcome an edge has already been refused on.                               *)
THEOREM SkipsAreFinal == ChildrenAnswer /\ DistinctNodes /\ Steady /\ Spec => []SkippedForGood
  <1>1. Composed => SkippedForGood
    <2> SUFFICES ASSUME Composed, NEW i \in ToSet(exec.inst), i.st = "SKIPPED", NEW e \in Incoming(i.node)
                 PROVE  ~Satisfied(exec, e)
      BY DEF SkippedForGood
    <2>1. exec.inst \in Seq(Sound) /\ SkipsHold(exec)
      BY ComposedFacts DEF Calm
    <2>2. PICK k \in DOMAIN exec.inst : i = exec.inst[k]
      BY DEF ToSet
    <2>3. Blocked(exec, e)
      BY <2>1, <2>2 DEF SkipsHold, Blocks
    <2>4. PICK ex : ex = exec
      OBVIOUS
    <2> QED
      BY <2>1, <2>3, <2>4, BlockedFails
  <1> QED
    BY <1>1, ComposedAlways, PTL

(* The run is exact: one instance per node, nothing skipped that could still  *)
(* fire, COMPLETED only on the whole DAG, ended once, and within the rate     *)
(* limit and the retry budget.                                                *)
THEOREM ExactRuns ==
    ChildrenAnswer /\ DistinctNodes /\ LimitsOnWorkers /\ Steady /\ Spec => []RunsAreExact
  <1>1. Steady => NoRestarts /\ NoRevivals
    BY DEF Steady, Unrevived, NoRestarts, NoRevivals
  <1>2. /\ FinishedOnce /\ RetryBudget /\ OneInstancePerNode /\ CompletedCoversDag
        /\ RateLimited /\ SkippedForGood
        => RunsAreExact
    BY DEF RunsAreExact
  <1> QED
    BY <1>1, <1>2, EndsOnceInBudget, NodesRunOnce, RateIsLimited, SkipsAreFinal, PTL
=============================================================================
