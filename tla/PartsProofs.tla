---------------------------- MODULE PartsProofs ----------------------------
(***************************************************************************)
(* The parts that MCParts and MCProcess check side by side, each for every *)
(* value of its constants: Storage, Workers, Migration, WorkerProcess and  *)
(* Telemetry.  They share no state, and no lemma of one is used for        *)
(* another.                                                                *)
(***************************************************************************)
EXTENDS Storage, Workers, Migration, Telemetry, WorkerProcess, FiniteSetTheorems, TLAPS

-----------------------------------------------------------------------------
(***************************************************************************)
(* Storage for any keys, documents, values and number of operations. With  *)
(* any number of processes an acknowledged write stays until the next one; *)
(* with one process, whose connector runs one operation at a time, the     *)
(* cache never disagrees with the row behind it but after a partial        *)
(* failure.                                                                *)
(***************************************************************************)
AnyRow  == Row \cup {NoRow}
RowOps  == [kind : Single \cup Many \cup Whole, on : SUBSET Keys, value : Values, step : {"cache", "store"}]
DocWork == [kind : DocOps, on : {{d} : d \in Docs}, value : Values, step : {"store"}]
AnyOp   == {NoOp} \cup RowOps \cup DocWork

(* What the state looks like; an operation is about keys or about one        *)
(* document, never both.                                                     *)
Shape ==
    /\ hasDb \in BOOLEAN /\ elastic \in BOOLEAN /\ redis \in BOOLEAN
    /\ cache \in [Keys -> AnyRow]
    /\ store \in [Keys -> AnyRow]
    /\ docs \in [Docs -> Nat]
    /\ op \in [Procs -> AnyOp]
    /\ acked \in [Keys \cup Docs -> Nat]

-----------------------------------------------------------------------------
(* Rows and operations. *)

LEMMA RowFacts ==
    /\ NoRow \in AnyRow /\ NoRow.v = 0
    /\ \A x \in Values : NewRow(x) \in AnyRow /\ NewRow(x).v = x /\ NewRow(x) # NoRow
    /\ \A r \in AnyRow : r.v \in Nat /\ (r = NoRow <=> r.v = 0)
    /\ \A x \in Values : \A r \in AnyRow : r # NoRow =>
          [NewRow(x) EXCEPT !.fixed = r.fixed] \in AnyRow /\ [NewRow(x) EXCEPT !.fixed = r.fixed].v = x
  <1> USE StorageAssumption DEF AnyRow, Row, NoRow, NewRow
  <1>1. NoRow \in AnyRow /\ NoRow.v = 0
    OBVIOUS
  <1>2. \A x \in Values : NewRow(x) \in AnyRow /\ NewRow(x).v = x /\ NewRow(x) # NoRow
    OBVIOUS
  <1>3. ASSUME NEW r \in AnyRow
        PROVE  r.v \in Nat /\ (r = NoRow <=> r.v = 0)
    <2>1. CASE r \in [v : Values, fixed : Values]
      <3>1. r.v \in Values
        BY <2>1
      <3>2. r.v \in Nat /\ r.v # 0
        BY <3>1
      <3> HIDE DEF NoRow
      <3> QED
        BY <3>2, <1>1
    <2>2. CASE r = NoRow
      BY <2>2, <1>1
    <2> QED
      BY <2>1, <2>2
  <1>4. \A x \in Values : \A r \in AnyRow : r # NoRow =>
          [NewRow(x) EXCEPT !.fixed = r.fixed] \in AnyRow /\ [NewRow(x) EXCEPT !.fixed = r.fixed].v = x
    OBVIOUS
  <1> QED
    BY <1>1, <1>2, <1>3, <1>4

LEMMA OpFacts ==
    /\ NoOp \in AnyOp /\ NoOp.kind = "idle" /\ NoOp.step = "none" /\ NoOp.on = {}
    /\ \A o \in RowOps : /\ o.kind \notin DocOps /\ o.on \subseteq Keys /\ o.value \in Values
                         /\ o.kind \in Single \cup Many \cup Whole
                         /\ [o EXCEPT !.step = "store"] \in RowOps
                         /\ [o EXCEPT !.step = "store"].step = "store"
                         /\ [o EXCEPT !.step = "store"].kind = o.kind
                         /\ [o EXCEPT !.step = "store"].on = o.on
                         /\ [o EXCEPT !.step = "store"].value = o.value
    /\ \A o \in DocWork : /\ o.kind \in DocOps /\ o.value \in Values /\ o.on \subseteq Docs
                          /\ o.kind \notin RowWrites /\ o.kind \notin Through
                          /\ \E d \in Docs : o.on = {d}
    /\ \A o \in AnyOp : o.step \in {"cache", "store"} /\ o.kind \notin DocOps => o \in RowOps
    /\ \A o \in AnyOp : o.kind \in DocOps => o \in DocWork
  <1> USE DEF AnyOp, RowOps, DocWork, NoOp, DocOps, Single, Many, Whole, RowWrites, Through, Removes
  <1>1. NoOp \in AnyOp /\ NoOp.kind = "idle" /\ NoOp.step = "none" /\ NoOp.on = {}
    OBVIOUS
  <1>2. ASSUME NEW o \in RowOps
        PROVE  /\ o.kind \notin DocOps /\ o.on \subseteq Keys /\ o.value \in Values
               /\ o.kind \in Single \cup Many \cup Whole
    OBVIOUS
  <1>3. ASSUME NEW o \in RowOps
        PROVE  /\ [o EXCEPT !.step = "store"] \in RowOps
               /\ [o EXCEPT !.step = "store"].step = "store"
               /\ [o EXCEPT !.step = "store"].kind = o.kind
               /\ [o EXCEPT !.step = "store"].on = o.on
               /\ [o EXCEPT !.step = "store"].value = o.value
    OBVIOUS
  <1>4. ASSUME NEW o \in DocWork
        PROVE  /\ o.kind \in DocOps /\ o.value \in Values /\ o.on \subseteq Docs
               /\ o.kind \notin RowWrites /\ o.kind \notin Through
               /\ \E d \in Docs : o.on = {d}
    OBVIOUS
  <1>5. ASSUME NEW o \in AnyOp, o.step \in {"cache", "store"}, o.kind \notin DocOps PROVE o \in RowOps
    BY <1>5
  <1>6. ASSUME NEW o \in AnyOp, o.kind \in DocOps PROVE o \in DocWork
    BY <1>6
  <1> QED
    BY <1>1, <1>2, <1>3, <1>4, <1>5, <1>6

(* What the server makes of the statement of an operation it does not refuse. *)
LEMMA StatementEffect ==
    ASSUME Shape, NEW o \in RowOps, ~Refused(Encode(o))
    PROVE  LET new == After(Encode(o))
           IN  /\ new \in [Keys -> AnyRow]
               /\ \A k \in Keys \ o.on : new[k] = store[k]
               /\ o.kind \notin RowWrites => new = store
               /\ o.kind \in {"insert", "insert_many", "upsert"} => \A k \in o.on : new[k] = NewRow(o.value)
               /\ o.kind \in {"insert", "insert_many"} => \A k \in o.on : store[k] = NoRow
               /\ o.kind \in Removes => \A k \in o.on : new[k] = NoRow
               /\ o.kind = "update" => \A k \in o.on :
                     new[k] = IF store[k] = NoRow THEN NoRow ELSE [NewRow(o.value) EXCEPT !.fixed = store[k].fixed]
  <1> DEFINE s == Encode(o)
  <1>t. o.on \subseteq Keys /\ o.value \in Values /\ o.kind \in Single \cup Many \cup Whole
        /\ store \in [Keys -> AnyRow]
    BY OpFacts DEF Shape
  <1>1. CASE o.kind \in {"insert", "insert_many"}
    <2>1. s.verb = "insert" /\ s.on = o.on /\ s.row = NewRow(o.value)
      BY <1>1 DEF Encode, BuildInsert, BuildInsertMany
    <2>2. \A k \in Keys : After(s)[k] = IF k \in o.on THEN NewRow(o.value) ELSE store[k]
      BY <2>1 DEF After, Carried
    <2>9. \A k \in o.on : store[k] = NoRow
      BY <2>1 DEF Refused
    <2> HIDE DEF s
    <2>3. NewRow(o.value) \in AnyRow
      BY <1>t, RowFacts
    <2>4. \A k \in Keys : After(s)[k] \in AnyRow
      BY <2>2, <2>3, <1>t
    <2>5. After(s) \in [Keys -> AnyRow]
      BY <2>4 DEF After
    <2> QED
      BY <2>2, <2>5, <1>1, <1>t, <2>9 DEF RowWrites, Removes, s
  <1>2. CASE o.kind = "upsert"
    <2>1. s.verb = "upsert" /\ s.on = o.on /\ s.row = NewRow(o.value)
      BY <1>2 DEF Encode, BuildUpsert
    <2>2. \A k \in Keys : After(s)[k] = IF k \in o.on THEN NewRow(o.value) ELSE store[k]
      BY <2>1 DEF After, Carried
    <2> HIDE DEF s
    <2>3. NewRow(o.value) \in AnyRow
      BY <1>t, RowFacts
    <2>4. \A k \in Keys : After(s)[k] \in AnyRow
      BY <2>2, <2>3, <1>t
    <2>5. After(s) \in [Keys -> AnyRow]
      BY <2>4 DEF After
    <2> QED
      BY <2>2, <2>5, <1>2, <1>t DEF RowWrites, Removes, s
  <1>3. CASE o.kind = "update"
    <2>1. s.verb = "update" /\ s.on = o.on /\ s.row = NewRow(o.value)
      BY <1>3 DEF Encode, BuildUpdate
    <2>2. \A k \in Keys : After(s)[k] = IF k \in o.on
               THEN IF store[k] = NoRow THEN NoRow ELSE [NewRow(o.value) EXCEPT !.fixed = store[k].fixed]
               ELSE store[k]
      BY <2>1, <1>t DEF After, Carried
    <2> HIDE DEF s
    <2>3. ASSUME NEW k \in Keys PROVE After(s)[k] \in AnyRow
      <3>1. store[k] \in AnyRow /\ o.value \in Values
        BY <1>t
      <3>2. store[k] # NoRow => [NewRow(o.value) EXCEPT !.fixed = store[k].fixed] \in AnyRow
        BY <3>1, RowFacts
      <3> QED
        BY <2>2, <3>1, <3>2, RowFacts
    <2>4. After(s) \in [Keys -> AnyRow]
      BY <2>3 DEF After
    <2> QED
      BY <2>2, <2>4, <1>3, <1>t DEF RowWrites, Removes, s
  <1>4. CASE o.kind \in Removes
    <2>1. s.verb = "delete" /\ s.on = o.on
      BY <1>4 DEF Encode, BuildDelete, BuildDeleteMany, Removes
    <2>2. \A k \in Keys : After(s)[k] = IF k \in o.on THEN NoRow ELSE store[k]
      BY <2>1 DEF After, Carried
    <2> HIDE DEF s
    <2>3. NoRow \in AnyRow
      BY <1>t, RowFacts
    <2>4. \A k \in Keys : After(s)[k] \in AnyRow
      BY <2>2, <2>3, <1>t
    <2>5. After(s) \in [Keys -> AnyRow]
      BY <2>4 DEF After
    <2> QED
      BY <2>2, <2>5, <1>4, <1>t DEF RowWrites, Removes, s
  <1>5. CASE o.kind \notin RowWrites
    <2>1. s.verb \in {"read", "create"}
      BY <1>5, <1>t DEF Encode, BuildSelect, BuildSelectMany, BuildSelectAll, BuildQuery, BuildQueryFirst,
            BuildInnerQuery, BuildCreate, RowWrites, Removes, Single, Many, Whole
    <2>2. \A k \in Keys : After(s)[k] = store[k]
      BY <2>1 DEF After, Carried
    <2>3. DOMAIN After(s) = Keys /\ DOMAIN store = Keys
      BY <1>t DEF After
    <2>4. After(s) = [k \in Keys |-> After(s)[k]]
      BY DEF After
    <2>5. store = [k \in Keys |-> store[k]]
      BY <1>t
    <2> HIDE DEF s
    <2>6. After(s) = store
      BY <2>2, <2>4, <2>5
    <2> QED
      BY <2>6, <1>5, <1>t DEF RowWrites, Removes, s
  <1> QED
    BY <1>1, <1>2, <1>3, <1>4, <1>5 DEF RowWrites
-----------------------------------------------------------------------------
(* Acknowledged writes stay. *)

AckInv == Shape /\ AckedWritesKept

LEMMA AckTypes ==
    ASSUME Shape, NEW o \in RowOps \cup DocWork, Acknowledge(o)
    PROVE  /\ acked' \in [Keys \cup Docs -> Nat]
           /\ \A k \in (Keys \cup Docs) \ o.on : acked'[k] = acked[k]
           /\ \A k \in (Keys \cup Docs) \cap o.on : acked'[k] = Promise(o, k)
           /\ unsure \subseteq unsure' \cup o.on
           /\ o.kind = "update" => unsure' = unsure
  <1>1. o.value \in Nat
    BY OpFacts, StorageAssumption
  <1>2. \A k \in Keys \cup Docs : Promise(o, k) \in Nat
    BY <1>1 DEF Promise
  <1>3. DOMAIN acked = Keys \cup Docs
    BY DEF Shape
  <1>4. acked' = [k \in Keys \cup Docs |-> IF k \in o.on THEN Promise(o, k) ELSE acked[k]]
    BY <1>3 DEF Acknowledge
  <1>5. \A k \in Keys \cup Docs : acked[k] \in Nat
    BY DEF Shape
  <1>6. acked' \in [Keys \cup Docs -> Nat]
    BY <1>2, <1>4, <1>5
  <1>7. unsure \subseteq unsure' \cup o.on /\ (o.kind = "update" => unsure' = unsure)
    BY DEF Acknowledge
  <1> QED
    BY <1>4, <1>6, <1>7

(* The operations of a process change to operations. *)
LEMMA OpSteps ==
    ASSUME Shape, NEW p \in Procs
    PROVE  /\ Finish(p) => op' \in [Procs -> AnyOp] /\ op'[p] = NoOp
           /\ (op[p] \in RowOps /\ ToStore(p)) =>
                 op' \in [Procs -> AnyOp] /\ op'[p] = [op[p] EXCEPT !.step = "store"]
  <1>1. op \in [Procs -> AnyOp]
    BY DEF Shape
  <1>2. Finish(p) => op' \in [Procs -> AnyOp] /\ op'[p] = NoOp
    BY <1>1, OpFacts DEF Finish
  <1>3. ASSUME op[p] \in RowOps, ToStore(p)
        PROVE  op' \in [Procs -> AnyOp] /\ op'[p] = [op[p] EXCEPT !.step = "store"]
    <2>1. PICK o \in RowOps : o = op[p]
      BY <1>3
    <2>2. PICK u \in RowOps : u = [o EXCEPT !.step = "store"]
      BY OpFacts
    <2>3. op' = [op EXCEPT ![p] = u]
      BY <1>3, <2>1, <2>2 DEF ToStore
    <2>4. u \in AnyOp
      BY DEF AnyOp
    <2> QED
      BY <1>1, <2>1, <2>2, <2>3, <2>4
  <1> QED
    BY <1>2, <1>3

(* A statement on rows that is carried out and acknowledged. *)
LEMMA RowsAcknowledged ==
    ASSUME AckInv, NEW o \in RowOps, o.kind \in RowWrites, Acknowledge(o), docs' = docs,
           store' \in [Keys -> AnyRow], \A k \in Keys \ o.on : store'[k] = store[k],
           \A k \in o.on :
               \/ o.kind \in Removes /\ store'[k] = NoRow
               \/ o.kind \notin Removes \cup {"update"} /\ store'[k] = NewRow(o.value)
               \/ o.kind = "update" /\ ~hasDb /\ store'[k] = NewRow(o.value)
               \/ o.kind = "update" /\ hasDb /\ store[k] = NoRow /\ store'[k] = NoRow
               \/ o.kind = "update" /\ hasDb /\ store[k] # NoRow /\ store'[k].v = o.value
    PROVE  AckedWritesKept'
  <1> USE DEF AckInv
  <1>a. /\ o.on \subseteq Keys /\ o.on \cap Docs = {} /\ o.value \in Values /\ o.value \in Nat
        /\ o.kind \notin DocOps
    BY OpFacts, StorageAssumption
  <1>b. /\ \A k \in (Keys \cup Docs) \ o.on : acked'[k] = acked[k]
        /\ \A k \in o.on : acked'[k] = Promise(o, k)
        /\ unsure \subseteq unsure' \cup o.on
        /\ o.kind = "update" => unsure' = unsure
    BY AckTypes, <1>a
  <1>1. ASSUME NEW d \in Docs \ unsure' PROVE docs'[d] = acked'[d]
    BY <1>1, <1>a, <1>b DEF AckedWritesKept
  <1>2. ASSUME NEW k \in Keys \ unsure' PROVE store'[k].v = acked'[k]
    <2>1. CASE k \notin o.on
      BY <2>1, <1>b, <1>2 DEF AckedWritesKept
    <2>2. CASE k \in o.on /\ o.kind # "update"
      <3>1. store'[k] = IF o.kind \in Removes THEN NoRow ELSE NewRow(o.value)
        BY <2>2
      <3>2. Promise(o, k) = IF o.kind \in Removes THEN 0 ELSE o.value
        BY <2>2, <1>a DEF Promise, DocOps
      <3> QED
        BY <2>2, <3>1, <3>2, <1>a, <1>b, RowFacts
    <2>3. CASE k \in o.on /\ o.kind = "update"
      <3>1. store[k].v = acked[k] /\ store[k] \in AnyRow
        BY <2>3, <1>b DEF AckedWritesKept, Shape
      <3>2. Promise(o, k) = IF hasDb /\ acked[k] = 0 THEN 0 ELSE o.value
        BY <2>3 DEF Promise, Removes
      <3>3. store[k] = NoRow <=> acked[k] = 0
        BY <3>1, RowFacts
      <3>4. \/ ~hasDb /\ store'[k] = NewRow(o.value)
            \/ hasDb /\ store[k] = NoRow /\ store'[k] = NoRow
            \/ hasDb /\ store[k] # NoRow /\ store'[k].v = o.value
        BY <2>3 DEF Removes
      <3> QED
        BY <2>3, <3>2, <3>3, <3>4, <1>a, <1>b, RowFacts
    <2> QED
      BY <2>1, <2>2, <2>3
  <1> QED
    BY <1>1, <1>2 DEF AckedWritesKept

(* index() or remove() of a document. *)
LEMMA DocEffect ==
    ASSUME Shape, NEW o \in DocWork
    PROVE  /\ WriteDoc(o) \in [Docs -> Nat]
           /\ \A d \in Docs \ o.on : WriteDoc(o)[d] = docs[d]
           /\ \A d \in o.on : WriteDoc(o)[d] = IF o.kind = "unindex" THEN 0 ELSE o.value
  <1>1. o.value \in Nat /\ o.on \subseteq Docs
    BY OpFacts, StorageAssumption
  <1>2. \A d \in Docs : docs[d] \in Nat
    BY DEF Shape
  <1> QED
    BY <1>1, <1>2 DEF WriteDoc

LEMMA DocAcknowledged ==
    ASSUME AckInv, NEW o \in DocWork, Acknowledge(o), store' = store, docs' \in [Docs -> Nat],
           \A d \in Docs \ o.on : docs'[d] = docs[d],
           \A d \in o.on : docs'[d] = IF o.kind = "unindex" THEN 0 ELSE o.value
    PROVE  AckedWritesKept'
  <1> USE DEF AckInv
  <1>a. o.on \subseteq Docs /\ o.on \cap Keys = {} /\ o.kind \in DocOps
    BY OpFacts, StorageAssumption
  <1>b. /\ \A k \in (Keys \cup Docs) \ o.on : acked'[k] = acked[k]
        /\ \A k \in o.on : acked'[k] = Promise(o, k)
        /\ unsure \subseteq unsure' \cup o.on
    BY AckTypes, <1>a
  <1>c. \A d \in o.on : Promise(o, d) = IF o.kind = "unindex" THEN 0 ELSE o.value
    BY <1>a DEF Promise, DocOps, Removes
  <1>1. ASSUME NEW d \in Docs \ unsure' PROVE docs'[d] = acked'[d]
    BY <1>1, <1>a, <1>b, <1>c DEF AckedWritesKept
  <1>2. ASSUME NEW k \in Keys \ unsure' PROVE store'[k].v = acked'[k]
    BY <1>2, <1>a, <1>b DEF AckedWritesKept
  <1> QED
    BY <1>1, <1>2 DEF AckedWritesKept

LEMMA InitAck == StorageInit => AckInv
  <1> SUFFICES ASSUME StorageInit PROVE AckInv
    OBVIOUS
  <1>1. cache \in [Keys -> AnyRow] /\ store \in [Keys -> AnyRow] /\ \A k \in Keys : store[k].v = 0
    BY RowFacts DEF StorageInit
  <1>2. op \in [Procs -> AnyOp]
    BY OpFacts DEF StorageInit
  <1>3. acked \in [Keys \cup Docs -> Nat] /\ docs \in [Docs -> Nat]
    BY DEF StorageInit
  <1> QED
    BY <1>1, <1>2, <1>3 DEF StorageInit, AckInv, Shape, AckedWritesKept

LEMMA BeginsAck == ASSUME AckInv, NEW p \in Procs, Begins(p) PROVE AckInv'
  <1>1. PICK o \in RowOps \cup DocWork : op' = [op EXCEPT ![p] = o]
    <2>1. PICK x \in Values :
              \/ \E k \in Keys, what \in Single : Begin(p, what, {k}, x)
              \/ \E ks \in SUBSET Keys \ {{}}, what \in Many : Begin(p, what, ks, x)
              \/ \E what \in Whole : Begin(p, what, Keys, x)
              \/ \E d \in Docs, what \in DocOps : (elastic \/ hasDb) /\ Begin(p, what, {d}, x)
      BY DEF Begins
    <2>2. CASE \E d \in Docs, what \in DocOps : (elastic \/ hasDb) /\ Begin(p, what, {d}, x)
      <3>1. PICK d \in Docs, what \in DocOps : Begin(p, what, {d}, x)
        BY <2>2
      <3>2. op' = [op EXCEPT ![p] = [kind |-> what, on |-> {d}, value |-> x, step |-> "store"]]
        BY <3>1 DEF Begin, DocOps, Through, Removes
      <3>3. [kind |-> what, on |-> {d}, value |-> x, step |-> "store"] \in DocWork
        BY DEF DocWork
      <3> QED
        BY <3>2, <3>3
    <2>3. CASE ~ \E d \in Docs, what \in DocOps : (elastic \/ hasDb) /\ Begin(p, what, {d}, x)
      <3>1. PICK ks \in SUBSET Keys, what \in Single \cup Many \cup Whole : Begin(p, what, ks, x)
        BY <2>1, <2>3
      <3>2. PICK s \in {"cache", "store"} :
                op' = [op EXCEPT ![p] = [kind |-> what, on |-> ks, value |-> x, step |-> s]]
        BY <3>1 DEF Begin
      <3>3. [kind |-> what, on |-> ks, value |-> x, step |-> s] \in RowOps
        BY DEF RowOps
      <3> QED
        BY <3>2, <3>3
    <2> QED
      BY <2>2, <2>3
  <1>2. op' \in [Procs -> AnyOp]
    BY <1>1 DEF AckInv, Shape, AnyOp
  <1>3. UNCHANGED <<config, conns, cache, store, docs, found, ledger>>
    BY DEF Begins, Begin
  <1> QED
    BY <1>2, <1>3 DEF AckInv, Shape, AckedWritesKept, config, ledger

(* An operation that leaves rows, documents and the ledger as they are. *)
LEMMA QuietAck ==
    ASSUME AckInv, cache' \in [Keys -> AnyRow], op' \in [Procs -> AnyOp],
           UNCHANGED <<config, store, docs, acked>>, unsure \subseteq unsure'
    PROVE  AckInv'
  BY DEF AckInv, Shape, AckedWritesKept, config

LEMMA CachedType ==
    ASSUME Shape, NEW o \in RowOps, NEW ks
    PROVE  Cached(o, ks) \in [Keys -> AnyRow]
  <1>1. NoRow \in AnyRow /\ NewRow(o.value) \in AnyRow
    BY RowFacts, OpFacts
  <1>2. \A k \in Keys : cache[k] \in AnyRow
    BY DEF Shape
  <1> QED
    BY <1>1, <1>2 DEF Cached

LEMMA CacheStepsAck ==
    ASSUME AckInv, NEW p \in Procs, FindHits(p) \/ FindMisses(p) \/ WriteCache(p) \/ WriteCacheFails(p)
    PROVE  AckInv'
  <1>s. Shape /\ op[p] \in AnyOp
    BY DEF AckInv, Shape
  <1>r. op[p] \in RowOps
    BY <1>s, OpFacts DEF FindHits, FindMisses, WriteCache, WriteCacheFails, DocOps, Through, Removes
  <1>1. op' \in [Procs -> AnyOp]
    BY <1>s, <1>r, OpSteps DEF FindHits, FindMisses, WriteCache, WriteCacheFails
  <1>2. cache' \in [Keys -> AnyRow]
    <2>1. cache' = cache \/ \E ks : cache' = Cached(op[p], ks)
      BY DEF FindHits, FindMisses, WriteCache, WriteCacheFails
    <2> QED
      BY <2>1, <1>s, <1>r, CachedType DEF Shape
  <1>3. UNCHANGED <<config, store, docs, acked>> /\ unsure' = unsure
    BY DEF FindHits, FindMisses, WriteCache, WriteCacheFails, ledger
  <1> QED
    BY <1>1, <1>2, <1>3, QuietAck

LEMMA LocalStoreAck == ASSUME AckInv, NEW p \in Procs, LocalStore(p) PROVE AckInv'
  <1>s. Shape /\ op[p] \in AnyOp
    BY DEF AckInv, Shape
  <1>r. PICK o \in RowOps : o = op[p]
    BY <1>s, OpFacts DEF LocalStore
  <1>1. op' \in [Procs -> AnyOp]
    BY <1>s, OpSteps DEF LocalStore
  <1>2. CASE o.kind \in RowWrites
    <2>1. Acknowledge(o) /\ docs' = docs /\ ~hasDb
      BY <1>2, <1>r DEF LocalStore
    <2>2. store' = [k \in Keys |-> IF k \notin o.on THEN store[k]
                                   ELSE IF o.kind \in Removes THEN NoRow ELSE NewRow(o.value)]
      BY <1>2, <1>r DEF LocalStore
    <2>3. NoRow \in AnyRow /\ NewRow(o.value) \in AnyRow /\ o.on \subseteq Keys
      BY RowFacts, OpFacts
    <2>4. store' \in [Keys -> AnyRow]
      BY <2>2, <2>3, <1>s DEF Shape
    <2>5. /\ \A k \in Keys \ o.on : store'[k] = store[k]
          /\ \A k \in o.on : store'[k] = IF o.kind \in Removes THEN NoRow ELSE NewRow(o.value)
      BY <2>2, <2>3
    <2>6. AckedWritesKept'
      BY <1>2, <2>1, <2>4, <2>5, RowsAcknowledged
    <2>7. acked' \in [Keys \cup Docs -> Nat]
      BY <1>s, <2>1, AckTypes
    <2> QED
      BY <1>s, <1>1, <2>4, <2>6, <2>7 DEF AckInv, Shape, LocalStore, config
  <1>3. CASE o.kind \notin RowWrites
    <2>1. UNCHANGED <<config, store, docs, acked, unsure, cache>>
      BY <1>3, <1>r DEF LocalStore
    <2> QED
      BY <1>s, <1>1, <2>1, QuietAck DEF Shape
  <1> QED
    BY <1>2, <1>3

LEMMA ExecAck == ASSUME AckInv, NEW p \in Procs, Exec(p) PROVE AckInv'
  <1>s. Shape /\ op[p] \in AnyOp
    BY DEF AckInv, Shape
  <1>r. PICK o \in RowOps : o = op[p]
    BY <1>s, OpFacts DEF Exec
  <1>1. op' \in [Procs -> AnyOp]
    BY <1>s, OpSteps DEF Exec
  <1>2. cache' = cache
    BY DEF Exec, DecodesAsRow, RowsToJson
  <1>3. ~Refused(Encode(o)) /\ store' = After(Encode(o)) /\ UNCHANGED <<config, docs>> /\ hasDb
    BY <1>r DEF Exec
  <1>e. /\ store' \in [Keys -> AnyRow]
        /\ \A k \in Keys \ o.on : store'[k] = store[k]
        /\ o.kind \notin RowWrites => store' = store
        /\ o.kind \in {"insert", "insert_many", "upsert"} => \A k \in o.on : store'[k] = NewRow(o.value)
        /\ o.kind \in Removes => \A k \in o.on : store'[k] = NoRow
        /\ o.kind = "update" => \A k \in o.on :
              store'[k] = IF store[k] = NoRow THEN NoRow ELSE [NewRow(o.value) EXCEPT !.fixed = store[k].fixed]
    BY <1>s, <1>3, StatementEffect
  <1>4. CASE o.kind \in RowWrites
    <2>1. Acknowledge(o)
      BY <1>4, <1>r DEF Exec
    <2>2. ASSUME NEW k \in o.on, o.kind = "update", store[k] # NoRow PROVE store'[k].v = o.value
      <3>1. store[k] \in AnyRow /\ o.value \in Values
        BY <1>s, OpFacts DEF Shape
      <3>2. PICK r \in AnyRow : r = store[k]
        BY <3>1
      <3>3. store'[k] = [NewRow(o.value) EXCEPT !.fixed = r.fixed]
        BY <2>2, <3>2, <1>e
      <3> QED
        BY <2>2, <3>1, <3>2, <3>3, RowFacts
    <2>3. AckedWritesKept'
      BY <1>4, <1>3, <1>e, <2>1, <2>2, RowsAcknowledged DEF RowWrites, Removes
    <2>4. acked' \in [Keys \cup Docs -> Nat]
      BY <1>s, <2>1, AckTypes
    <2> QED
      BY <1>s, <1>1, <1>2, <1>3, <1>e, <2>3, <2>4 DEF AckInv, Shape, config
  <1>5. CASE o.kind \notin RowWrites
    <2>1. UNCHANGED <<acked, unsure>>
      BY <1>5, <1>r DEF Exec
    <2>2. store' = store
      BY <1>5, <1>e
    <2> QED
      BY <1>s, <1>1, <1>2, <1>3, <2>1, <2>2, QuietAck DEF Shape
  <1> QED
    BY <1>4, <1>5

(* A write that may have been carried out, on keys that are unsure from then on. *)
LEMMA UnsureAck ==
    ASSUME AckInv, NEW on, unsure' = unsure \cup on, UNCHANGED <<config, acked, cache>>,
           op' \in [Procs -> AnyOp], store' \in [Keys -> AnyRow], docs' \in [Docs -> Nat],
           \A k \in Keys \ on : store'[k] = store[k], \A d \in Docs \ on : docs'[d] = docs[d]
    PROVE  AckInv'
  BY DEF AckInv, Shape, AckedWritesKept, config

LEMMA ExecFailsAck == ASSUME AckInv, NEW p \in Procs, ExecFails(p) PROVE AckInv'
  <1>s. Shape /\ op[p] \in AnyOp
    BY DEF AckInv, Shape
  <1>r. PICK o \in RowOps : o = op[p]
    BY <1>s, OpFacts DEF ExecFails
  <1>1. op' \in [Procs -> AnyOp] /\ UNCHANGED <<config, docs, acked, cache>>
    BY <1>s, OpSteps DEF ExecFails
  <1>2. CASE UNCHANGED <<store, unsure>>
    BY <1>s, <1>1, <1>2, QuietAck DEF Shape
  <1>3. CASE /\ ~Refused(Encode(o)) /\ store' \in {store, After(Encode(o))}
             /\ unsure' = IF o.kind \in RowWrites THEN unsure \cup o.on ELSE unsure
    <2>1. /\ After(Encode(o)) \in [Keys -> AnyRow]
          /\ \A k \in Keys \ o.on : After(Encode(o))[k] = store[k]
          /\ o.kind \notin RowWrites => After(Encode(o)) = store
      BY <1>s, <1>3, StatementEffect
    <2>2. CASE o.kind \in RowWrites
      BY <1>s, <1>1, <1>3, <2>1, <2>2, UnsureAck DEF Shape
    <2>3. CASE o.kind \notin RowWrites
      BY <1>s, <1>1, <1>3, <2>1, <2>3, QuietAck DEF Shape
    <2> QED
      BY <2>2, <2>3
  <1> QED
    BY <1>r, <1>2, <1>3 DEF ExecFails

LEMMA DocsAck == ASSUME AckInv, NEW p \in Procs, PgIndex(p) \/ PgIndexFails(p) \/ EsIndex(p) PROVE AckInv'
  <1>s. Shape /\ op[p] \in AnyOp
    BY DEF AckInv, Shape
  <1>r. PICK o \in DocWork : o = op[p]
    BY <1>s, OpFacts DEF PgIndex, PgIndexFails, EsIndex
  <1>d. PICK x \in Docs : o.on = {x}
    BY OpFacts
  <1>1. op' \in [Procs -> AnyOp] /\ UNCHANGED <<config, store, cache>>
    BY <1>s, OpSteps DEF PgIndex, PgIndexFails, EsIndex
  <1>e. /\ WriteDoc(o) \in [Docs -> Nat] /\ \A d \in Docs \ o.on : WriteDoc(o)[d] = docs[d]
        /\ \A d \in o.on : WriteDoc(o)[d] = IF o.kind = "unindex" THEN 0 ELSE o.value
    BY <1>s, DocEffect
  <1>2. \/ Acknowledge(o) /\ docs' = WriteDoc(o)
        \/ Acknowledge(o) /\ docs' = docs /\ o.kind = "unindex" /\ docs[CHOOSE d \in o.on : TRUE] = 0
        \/ acked' = acked /\ unsure' = unsure \cup o.on /\ docs' \in {docs, WriteDoc(o)}
        \/ acked' = acked /\ unsure' = unsure /\ docs' = docs
    <2>1. CASE PgIndex(p)
      BY <2>1, <1>r DEF PgIndex
    <2>2. CASE PgIndexFails(p)
      BY <2>2, <1>r DEF PgIndexFails
    <2>3. CASE EsIndex(p)
      <3>1. PICK status \in EsStatuses(o) :
              /\ CASE status = "2xx" -> docs' = WriteDoc(o)
                   [] status = "404" -> docs[CHOOSE d \in o.on : TRUE] = 0 /\ UNCHANGED docs
                   [] status = "4xx" -> UNCHANGED docs
                   [] OTHER -> docs' \in {docs, WriteDoc(o)}
              /\ IF EsAcks(o, status) THEN Acknowledge(o)
                 ELSE /\ UNCHANGED acked
                      /\ unsure' = IF status = "0" THEN unsure \cup o.on ELSE unsure
        BY <2>3, <1>r DEF EsIndex
      <3>2. CASE status = "2xx"
        BY <3>1, <3>2 DEF EsAcks
      <3>3. CASE status = "404"
        BY <3>1, <3>3 DEF EsAcks, EsStatuses
      <3>4. CASE status = "4xx"
        BY <3>1, <3>4 DEF EsAcks
      <3>5. CASE status = "0"
        BY <3>1, <3>5 DEF EsAcks
      <3> QED
        BY <3>2, <3>3, <3>4, <3>5 DEF EsStatuses
    <2> QED
      BY <2>1, <2>2, <2>3
  <1>3. CASE Acknowledge(o) /\ docs' = WriteDoc(o)
    <2>1. AckedWritesKept'
      BY <1>1, <1>3, <1>e, DocAcknowledged
    <2>2. acked' \in [Keys \cup Docs -> Nat]
      BY <1>s, <1>3, AckTypes
    <2> QED
      BY <1>s, <1>1, <1>3, <1>e, <2>1, <2>2 DEF AckInv, Shape, config
  <1>4. CASE Acknowledge(o) /\ docs' = docs /\ o.kind = "unindex" /\ docs[CHOOSE d \in o.on : TRUE] = 0
    <2>1. (CHOOSE d \in o.on : TRUE) = x
      BY <1>d
    <2>2. docs' \in [Docs -> Nat] /\ \A d \in o.on : docs'[d] = 0
      BY <1>4, <1>d, <2>1, <1>s DEF Shape
    <2>3. AckedWritesKept'
      BY <1>1, <1>4, <2>2, DocAcknowledged
    <2>4. acked' \in [Keys \cup Docs -> Nat]
      BY <1>s, <1>4, AckTypes
    <2> QED
      BY <1>s, <1>1, <2>2, <2>3, <2>4 DEF AckInv, Shape, config
  <1>5. CASE acked' = acked /\ unsure' = unsure \cup o.on /\ docs' \in {docs, WriteDoc(o)}
    BY <1>s, <1>1, <1>5, <1>e, UnsureAck DEF Shape
  <1>6. CASE acked' = acked /\ unsure' = unsure /\ docs' = docs
    BY <1>s, <1>1, <1>6, QuietAck DEF Shape
  <1> QED
    BY <1>2, <1>3, <1>4, <1>5, <1>6

LEMMA RestartAck == ASSUME AckInv, NEW p \in Procs, Restart(p) PROVE AckInv'
  <1>s. Shape
    BY DEF AckInv
  <1>1. op' \in [Procs -> AnyOp] /\ UNCHANGED <<config, docs, unsure>>
    BY <1>s, OpSteps DEF Restart, Finish
  <1>2. cache' \in [Keys -> AnyRow]
    BY <1>s, RowFacts DEF Restart, Shape
  <1>3. CASE hasDb
    BY <1>1, <1>2, <1>3, QuietAck DEF Restart
  <1>4. CASE ~hasDb
    <2>1. store' = [k \in Keys |-> NoRow] /\ store' \in [Keys -> AnyRow] /\ \A k \in Keys : store'[k].v = 0
      BY <1>4, RowFacts DEF Restart
    <2>2. acked' = [x \in Keys \cup Docs |-> IF x \in Keys THEN 0 ELSE acked[x]]
      BY <1>4, <1>s DEF Restart, Shape
    <2>3. acked' \in [Keys \cup Docs -> Nat]
      BY <2>2, <1>s DEF Shape
    <2>4. AckedWritesKept'
      BY <1>1, <2>1, <2>2, StorageAssumption DEF AckInv, AckedWritesKept
    <2> QED
      BY <1>s, <1>1, <1>2, <2>1, <2>3, <2>4 DEF AckInv, Shape, config
  <1> QED
    BY <1>3, <1>4

LEMMA AckStep == AckInv /\ [StorageNext]_storageVars => AckInv'
  <1>1. ASSUME AckInv, NEW p \in Procs,
               \/ Begins(p)
               \/ FindHits(p) \/ FindMisses(p) \/ WriteCache(p) \/ WriteCacheFails(p)
               \/ LocalStore(p) \/ Exec(p) \/ ExecFails(p)
               \/ PgIndex(p) \/ PgIndexFails(p) \/ EsIndex(p)
               \/ Restart(p)
        PROVE  AckInv'
    BY <1>1, BeginsAck, CacheStepsAck, LocalStoreAck, ExecAck, ExecFailsAck, DocsAck, RestartAck
  <1>2. ASSUME AckInv, UNCHANGED storageVars PROVE AckInv'
    <2>1. UNCHANGED <<config, store, docs, acked, unsure, cache, op>>
      BY <1>2 DEF storageVars, ledger
    <2> QED
      BY <1>2, <2>1, QuietAck DEF AckInv, Shape
  <1> QED
    BY <1>1, <1>2 DEF StorageNext

(* Whatever a write whose callback got true has put there is there until the *)
(* next one: for any number of processes on the same servers, through        *)
(* refused statements, broken connections and restarts.                      *)
THEOREM AcknowledgedIsDurable == StorageSpec => []AckedWritesKept
  <1>1. AckInv => AckedWritesKept
    BY DEF AckInv
  <1> QED
    BY InitAck, AckStep, <1>1, PTL DEF StorageSpec

-----------------------------------------------------------------------------
(* One process: the cache agrees with the rows, and while a write is on its  *)
(* way to the database the cache already has what it wrote.                  *)

InFlight(o, k) == k \in o.on /\ o.step = "store" /\ o.kind \in Through
Ahead(o, k)    == cache[k] = IF o.kind \in Removes THEN NoRow ELSE NewRow(o.value)

InStep(p) ==
    \A k \in Keys \ mishap :
        IF InFlight(op[p], k) THEN Ahead(op[p], k) ELSE cache[k] \in {NoRow, store[k]}

LEMMA IdleNotInFlight == \A k : ~InFlight(NoOp, k)
  BY OpFacts DEF InFlight

(* Neither the cache nor the rows change, and no write was in flight. *)
LEMMA QuietInStep ==
    ASSUME NEW p \in Procs, InStep(p), UNCHANGED <<cache, store>>, mishap \subseteq mishap',
           \A k : ~InFlight(op[p], k), \A k : ~InFlight(op'[p], k)
    PROVE  InStep(p)'
  BY DEF InStep, InFlight

LEMMA BeginsInStep == ASSUME Shape, NEW p \in Procs, InStep(p), Begins(p) PROVE InStep(p)'
  <1>1. op[p] = NoOp
    BY DEF Begins, Begin
  <1>2. PICK what, on, x : Begin(p, what, on, x)
    BY DEF Begins
  <1>3. op'[p] = [kind |-> what, on |-> on, value |-> x,
                  step |-> IF what \in Through \cup {"find"} THEN "cache" ELSE "store"]
    BY <1>2 DEF Begin, Shape
  <1>4. \A k : ~InFlight(op'[p], k)
    BY <1>3 DEF InFlight
  <1> QED
    BY <1>1, <1>2, <1>4, IdleNotInFlight, QuietInStep DEF Begin, ledger

LEMMA FindInStep == ASSUME Shape, NEW p \in Procs, InStep(p), FindHits(p) \/ FindMisses(p) PROVE InStep(p)'
  <1>1. op[p].kind = "find" /\ op[p].step = "cache" /\ op[p] \in AnyOp
    BY DEF FindHits, FindMisses, Shape
  <1>2. PICK o \in RowOps : o = op[p]
    BY <1>1, OpFacts DEF DocOps
  <1>3. op'[p] = NoOp \/ op'[p] = [o EXCEPT !.step = "store"]
    BY <1>2, OpSteps DEF FindHits, FindMisses
  <1>4. [o EXCEPT !.step = "store"].kind = "find"
    BY <1>1, <1>2, OpFacts
  <1>5. \A k : ~InFlight(op'[p], k)
    BY <1>3, <1>4, IdleNotInFlight DEF InFlight, Through, Removes
  <1>6. \A k : ~InFlight(op[p], k)
    BY <1>1 DEF InFlight
  <1> QED
    BY <1>5, <1>6, QuietInStep DEF FindHits, FindMisses, ledger

(* The cache is written, wholly, or partly with the keys marked. *)
LEMMA WriteCacheInStep ==
    ASSUME Shape, NEW p \in Procs, InStep(p), WriteCache(p) \/ WriteCacheFails(p)
    PROVE  InStep(p)'
  <1>1. op[p].kind \in Through /\ op[p].step = "cache" /\ op[p] \in AnyOp
    BY DEF WriteCache, WriteCacheFails, Shape
  <1>2. PICK o \in RowOps : o = op[p]
    BY <1>1, OpFacts DEF DocOps, Through, Removes
  <1>3. op'[p] = [o EXCEPT !.step = "store"]
    BY <1>2, OpSteps DEF WriteCache, WriteCacheFails
  <1>4. op'[p].kind = o.kind /\ op'[p].on = o.on /\ op'[p].value = o.value
    BY <1>3, OpFacts
  <1>5. \A k \in Keys \ mishap : cache[k] \in {NoRow, store[k]}
    BY <1>1 DEF InStep, InFlight
  <1>6. store' = store
    BY DEF WriteCache, WriteCacheFails
  <1>7. ASSUME NEW k \in Keys \ mishap', k \notin o.on PROVE cache'[k] = cache[k] /\ k \notin mishap
    BY <1>2, <1>7 DEF WriteCache, WriteCacheFails, Cached, ledger
  <1>8. ASSUME NEW k \in Keys \ mishap', k \in o.on
        PROVE  cache'[k] = IF o.kind \in Removes THEN NoRow ELSE NewRow(o.value)
    BY <1>2, <1>8 DEF WriteCache, WriteCacheFails, Cached, ledger
  <1>9. ASSUME NEW k \in Keys \ mishap'
        PROVE  IF InFlight(op'[p], k) THEN Ahead(op[p], k)' ELSE cache'[k] \in {NoRow, store'[k]}
    <2>1. CASE k \in o.on
      <3>1. InFlight(op'[p], k)
        BY <1>1, <1>2, <1>3, <1>4, <2>1, OpFacts DEF InFlight
      <3>2. Ahead(op[p], k)'
        BY <2>1, <1>4, <1>8 DEF Ahead
      <3> QED
        BY <3>1, <3>2
    <2>2. CASE k \notin o.on
      BY <2>2, <1>4, <1>5, <1>6, <1>7 DEF InFlight
    <2> QED
      BY <2>1, <2>2
  <1> QED
    BY <1>9 DEF InStep, InFlight

(* A write to the local store, or the statement of one that is answered:     *)
(* the rows get what the cache has, or the keys are marked.                  *)
LEMMA StoreInStep ==
    ASSUME Shape, NEW p \in Procs, InStep(p), NEW o \in RowOps, o = op[p], o.step = "store",
           op'[p] = NoOp, cache' = cache, mishap \subseteq mishap',
           \A k \in Keys \ o.on : store'[k] = store[k],
           o.kind \notin RowWrites => store' = store,
           \A k \in o.on \ mishap' :
               \/ o.kind \notin RowWrites
               \/ o.kind \in Removes /\ store'[k] = NoRow
               \/ o.kind \in {"insert", "update", "upsert"} /\ store'[k] = NewRow(o.value)
               \/ o.kind = "insert_many" /\ store[k] = NoRow
    PROVE  InStep(p)'
  <1>1. ASSUME NEW k \in Keys \ mishap' PROVE cache'[k] \in {NoRow, store'[k]}
    <2>1. CASE k \notin o.on \/ o.kind \notin RowWrites
      BY <2>1, <1>1 DEF InStep, InFlight, RowWrites, Through
    <2>2. CASE k \in o.on /\ o.kind = "insert_many"
      BY <2>2, <1>1 DEF InStep, InFlight, Through, Removes, RowWrites
    <2>3. CASE k \in o.on /\ o.kind \in Through
      BY <2>3, <1>1 DEF InStep, InFlight, Through, Removes, Ahead, RowWrites
    <2> QED
      BY <2>1, <2>2, <2>3 DEF RowWrites, Through
  <1> QED
    BY <1>1, IdleNotInFlight DEF InStep

LEMMA LocalStoreInStep == ASSUME Shape, NEW p \in Procs, InStep(p), LocalStore(p) PROVE InStep(p)'
  <1>1. op[p] \in AnyOp
    BY DEF Shape
  <1>2. PICK o \in RowOps : o = op[p]
    BY <1>1, OpFacts DEF LocalStore
  <1>3. op'[p] = NoOp
    BY OpSteps DEF LocalStore
  <1>4. o.kind \notin RowWrites => store' = store
    BY <1>2 DEF LocalStore
  <1>5. o.kind \in RowWrites =>
           \A k \in Keys : store'[k] = IF k \notin o.on THEN store[k]
                                       ELSE IF o.kind \in Removes THEN NoRow ELSE NewRow(o.value)
    BY <1>2 DEF LocalStore
  <1>6. o.on \subseteq Keys /\ o.step = "store" /\ cache' = cache /\ mishap \subseteq mishap'
    BY <1>2, OpFacts DEF LocalStore
  <1>7. o.kind = "insert_many" => o.on \subseteq mishap'
    BY <1>2 DEF LocalStore
  <1>8. \A k \in Keys \ o.on : store'[k] = store[k]
    BY <1>4, <1>5
  <1>9. ASSUME NEW k \in o.on \ mishap', o.kind \in RowWrites
        PROVE  \/ o.kind \in Removes /\ store'[k] = NoRow
               \/ o.kind \in {"insert", "update", "upsert"} /\ store'[k] = NewRow(o.value)
    BY <1>5, <1>6, <1>7, <1>9 DEF RowWrites
  <1> QED
    BY <1>2, <1>3, <1>4, <1>6, <1>8, <1>9, StoreInStep

LEMMA ExecInStep == ASSUME Shape, NEW p \in Procs, InStep(p), Exec(p) PROVE InStep(p)'
  <1>1. op[p] \in AnyOp
    BY DEF Shape
  <1>2. PICK o \in RowOps : o = op[p]
    BY <1>1, OpFacts DEF Exec
  <1>3. op'[p] = NoOp
    BY OpSteps DEF Exec
  <1>4. o.step = "store" /\ cache' = cache /\ mishap \subseteq mishap'
    BY <1>2 DEF Exec, DecodesAsRow, RowsToJson
  <1>5. ~Refused(Encode(o)) /\ store' = After(Encode(o))
    BY <1>2 DEF Exec
  <1>6. /\ \A k \in Keys \ o.on : store'[k] = store[k]
        /\ o.kind \notin RowWrites => store' = store
        /\ o.kind \in {"insert", "insert_many", "upsert"} => \A k \in o.on : store'[k] = NewRow(o.value)
        /\ o.kind \in {"insert", "insert_many"} => \A k \in o.on : store[k] = NoRow
        /\ o.kind \in Removes => \A k \in o.on : store'[k] = NoRow
    BY <1>5, StatementEffect
  <1>7. o.kind = "update" => \A k \in o.on \ mishap' : store'[k] = NewRow(o.value)
    BY <1>2 DEF Exec
  <1>8. ASSUME NEW k \in o.on \ mishap', o.kind \in RowWrites
        PROVE  \/ o.kind \in Removes /\ store'[k] = NoRow
               \/ o.kind \in {"insert", "update", "upsert"} /\ store'[k] = NewRow(o.value)
               \/ o.kind = "insert_many" /\ store[k] = NoRow
    BY <1>6, <1>7, <1>8 DEF RowWrites
  <1> QED
    BY <1>2, <1>3, <1>4, <1>6, <1>8, StoreInStep

LEMMA ExecFailsInStep == ASSUME Shape, NEW p \in Procs, InStep(p), ExecFails(p) PROVE InStep(p)'
  <1>1. op[p] \in AnyOp
    BY DEF Shape
  <1>2. PICK o \in RowOps : o = op[p]
    BY <1>1, OpFacts DEF ExecFails
  <1>3. op'[p] = NoOp
    BY OpSteps DEF ExecFails
  <1>4. o.step = "store" /\ cache' = cache /\ mishap \subseteq mishap'
    BY <1>2 DEF ExecFails
  <1>5. o.kind \in RowWrites => o.on \subseteq mishap'
    BY <1>2 DEF ExecFails
  <1>6. store' = store \/ (~Refused(Encode(o)) /\ store' = After(Encode(o)))
    BY <1>2 DEF ExecFails
  <1>7. /\ \A k \in Keys \ o.on : store'[k] = store[k]
        /\ o.kind \notin RowWrites => store' = store
    BY <1>6, StatementEffect
  <1> QED
    BY <1>2, <1>3, <1>4, <1>5, <1>7, StoreInStep

LEMMA DocsInStep ==
    ASSUME Shape, NEW p \in Procs, InStep(p), PgIndex(p) \/ PgIndexFails(p) \/ EsIndex(p)
    PROVE  InStep(p)'
  <1>1. op[p].kind \in DocOps
    BY DEF PgIndex, PgIndexFails, EsIndex
  <1>2. op'[p] = NoOp
    BY OpSteps DEF PgIndex, PgIndexFails, EsIndex
  <1>3. UNCHANGED <<cache, store, mishap>>
    BY DEF PgIndex, PgIndexFails, EsIndex
  <1>4. \A k : ~InFlight(op[p], k)
    BY <1>1 DEF InFlight, DocOps, Through, Removes
  <1> QED
    BY <1>2, <1>3, <1>4, IdleNotInFlight, QuietInStep

(* A restart that cuts a write short marks its keys. *)
LEMMA RestartInStep == ASSUME Shape, NEW p \in Procs, InStep(p), Restart(p) PROVE InStep(p)'
  <1>1. op'[p] = NoOp
    BY OpSteps DEF Restart, Finish
  <1>2. ASSUME NEW k \in Keys \ mishap' PROVE cache'[k] \in {NoRow, store'[k]}
    <2>1. CASE ~redis
      BY <2>1 DEF Restart
    <2>2. CASE redis /\ ~hasDb
      BY <2>2, <1>2 DEF Restart
    <2>3. CASE redis /\ hasDb
      <3>1. UNCHANGED <<cache, store>> /\ k \notin mishap /\ ~InFlight(op[p], k)
        BY <2>3, <1>2 DEF Restart, InFlight
      <3> QED
        BY <3>1 DEF InStep
    <2> QED
      BY <2>1, <2>2, <2>3
  <1> QED
    BY <1>1, <1>2, IdleNotInFlight DEF InStep

(* With one process on the backends, a cache entry is the row in the         *)
(* database or the local store, on every key no partial failure has touched: *)
(* between operations a find() that hits the cache returns the stored row.   *)
THEOREM CacheIsCoherent ==
    ASSUME NEW p, Procs = {p}
    PROVE  StorageSpec => []CacheAgrees
  <1>1. StorageInit => InStep(p)
    BY DEF StorageInit, InStep, InFlight, NoOp
  <1>2. AckInv /\ InStep(p) /\ [StorageNext]_storageVars => InStep(p)'
    <2>1. ASSUME AckInv, InStep(p),
                 \/ Begins(p)
                 \/ FindHits(p) \/ FindMisses(p) \/ WriteCache(p) \/ WriteCacheFails(p)
                 \/ LocalStore(p) \/ Exec(p) \/ ExecFails(p)
                 \/ PgIndex(p) \/ PgIndexFails(p) \/ EsIndex(p)
                 \/ Restart(p)
          PROVE  InStep(p)'
      BY <2>1, BeginsInStep, FindInStep, WriteCacheInStep, LocalStoreInStep, ExecInStep,
         ExecFailsInStep, DocsInStep, RestartInStep DEF AckInv
    <2>2. ASSUME InStep(p), UNCHANGED storageVars PROVE InStep(p)'
      BY <2>2 DEF InStep, InFlight, Ahead, storageVars, ledger
    <2> QED
      BY <2>1, <2>2 DEF StorageNext
  <1>3. InStep(p) => CacheAgrees
    BY DEF InStep, InFlight, CacheAgrees, Writing
  <1> QED
    BY InitAck, AckStep, <1>1, <1>2, <1>3, PTL DEF StorageSpec

-----------------------------------------------------------------------------
(***************************************************************************)
(* The worker plugins.                                                     *)
(***************************************************************************)
Places == {"new", "queued", "upsert", "query", "find", "sent", "timer", "blocked", "done"}

\* What the state looks like.
WorkersShape ==
    /\ kind \in DOMAIN Takes
    /\ \A j \in Jobs : input[j].limit \in Nat
    /\ lane \in Seq(Jobs) /\ writes \in Seq(Jobs)
    /\ at \in [Jobs -> Places]
    /\ tries \in [Jobs -> Nat] /\ requests \in [Jobs -> Nat]
    /\ DOMAIN out = Jobs /\ fired \in [Jobs -> Nat]

\* The queue has each task once, and only tasks that wait for their turn.
LaneHolds ==
    /\ \A i \in 1..Len(lane) : at[lane[i]] = "queued"
    /\ \A i, k \in 1..Len(lane) : lane[i] = lane[k] => i = k

\* What on_load has handed on stays as it was, and comes before any task.
BoundOnce ==
    /\ bound = {} \/ bound = (Takes[kind] \cap offers) \cup {"loaded"}
    /\ \A j \in Jobs : at[j] # "new" => bound # {}

\* The RetryState of a task: while a request is out there is one more of them
\* than replies, and a timer only runs below the limit.
AttemptsOf(j) ==
    /\ at[j] \in {"new", "queued"} => requests[j] = 0 /\ tries[j] = 0
    /\ at[j] = "sent" => requests[j] = tries[j] + 1 /\ (tries[j] = 0 \/ tries[j] < input[j].limit)
    /\ at[j] = "timer" => requests[j] = tries[j] /\ tries[j] < input[j].limit

\* A task is answered when it is done, and never again.
AnswerOf(j) ==
    /\ fired[j] = IF at[j] = "done" THEN 1 ELSE 0
    /\ at[j] # "done" => out[j] = Pending
    /\ out[j].status \in {"ok", "timeout"} =>
          /\ out[j].attempts = requests[j]
          /\ out[j].attempts >= 1
          /\ out[j].attempts <= IF input[j].limit = 0 THEN 1 ELSE input[j].limit
          /\ out[j].status = "timeout" => out[j].attempts >= input[j].limit

\* Between the upsert and the find the row is there; what was read is not newer.
RowOf(j) ==
    /\ at[j] = "find" => \E i \in 1..Len(writes) : writes[i] = j
    /\ out[j].row \in 0..Len(writes)
    /\ out[j].row > 0 => \E i \in 1..out[j].row : writes[i] = j

WorkersInv ==
    /\ WorkersShape /\ LaneHolds /\ BoundOnce
    /\ \A j \in Jobs : AttemptsOf(j) /\ AnswerOf(j) /\ RowOf(j)

LEMMA ResultFacts ==
    /\ Failure.status = "none" /\ Failure.row = 0
    /\ Pending.status = "pending" /\ Pending.row = 0
  BY DEF Failure, Pending

LEMMA OkFacts ==
  ASSUME NEW names, NEW n
  PROVE  /\ Ok(names).status = "none" /\ Ok(names).row = 0
         /\ [Ok(names) EXCEPT !.row = n].status = "none" /\ [Ok(names) EXCEPT !.row = n].row = n
  BY DEF Failure, Ok

LEMMA OutcomeFacts ==
  ASSUME NEW j, NEW status, NEW n
  PROVE  /\ Outcome(j, status, n).status = status
         /\ Outcome(j, status, n).attempts = n /\ Outcome(j, status, n).row = 0
  BY DEF Failure, Ok, Outcome

LEMMA KindFacts ==
    /\ \A k \in DOMAIN Takes : "group" \in Takes[k]
    /\ \A k \in DOMAIN Waits : Waits[k] \in {"upsert", "query", "sent", "blocked"}
    /\ \A k \in DOMAIN Takes \ DOMAIN Waits :
          k \in {"echo", "transform", "pw_hash", "jwt_sign", "jwt", "hash", "events"}
  BY DEF Takes, Waits, EchoPlugin, TransformPlugin, PasswordHashPlugin, JwtSignPlugin, DbQueryPlugin,
         DatabasePlugin, ClientPlugin, ClientPoolPlugin, EmailPlugin, LlmPlugin, HashPlugin, JwtPlugin, EventsPlugin

\* What a worker answers at once is not the outcome of a poll.
LEMMA AtOnceFacts ==
  ASSUME kind \in {"echo", "transform", "pw_hash", "jwt_sign", "jwt", "hash", "events"}, NEW in
  PROVE  AtOnce(in).status = "none" /\ AtOnce(in).row = 0
  <1>1. CASE kind = "echo"
    BY <1>1, ResultFacts, OkFacts DEF AtOnce, Echo
  <1>2. CASE kind = "transform"
    BY <1>2, ResultFacts, OkFacts DEF AtOnce, Transform
  <1>3. CASE kind = "pw_hash"
    BY <1>3, ResultFacts, OkFacts DEF AtOnce, PasswordHash
  <1>4. CASE kind = "jwt_sign"
    BY <1>4, ResultFacts, OkFacts DEF AtOnce, JwtSign
  <1>5. CASE kind = "jwt"
    BY <1>5, ResultFacts, OkFacts DEF AtOnce, Jwt
  <1>6. CASE kind = "hash"
    BY <1>6, ResultFacts, OkFacts DEF AtOnce, Hash
  <1>7. CASE kind = "events"
    BY <1>7, ResultFacts, OkFacts DEF AtOnce, Events
  <1> QED
    BY <1>1, <1>2, <1>3, <1>4, <1>5, <1>6, <1>7

LEMMA WorkersStart == WorkersInit => WorkersInv
  <1> SUFFICES ASSUME WorkersInit PROVE WorkersInv
    OBVIOUS
  <1>1. ASSUME NEW j \in Jobs PROVE input[j].limit \in Nat
    <2>1. input[j] \in SomeInputs(kind)
      BY DEF WorkersInit
    <2>2. PICK lim : lim = (IF kind = "client_pool" THEN Limits ELSE {0})
      OBVIOUS
    <2>3. ASSUME NEW F, NEW B, input[j] \in [fields : F, blank : B, limit : lim]
          PROVE  input[j].limit \in lim
      BY <2>3
    <2>4. input[j].limit \in lim
      BY <2>1, <2>2, <2>3, Zenon DEF SomeInputs
    <2>5. CASE lim = Limits
      BY <2>4, <2>5, WorkersAssumption
    <2>6. CASE lim = {0}
      BY <2>4, <2>6
    <2> QED
      BY <2>2, <2>5, <2>6
  <1>2. WorkersShape
    BY <1>1 DEF WorkersInit, WorkersShape, Places
  <1>3. LaneHolds /\ BoundOnce
    BY DEF WorkersInit, LaneHolds, BoundOnce
  <1>4. ASSUME NEW j \in Jobs PROVE AttemptsOf(j) /\ AnswerOf(j) /\ RowOf(j)
    <2>1. at[j] = "new" /\ requests[j] = 0 /\ tries[j] = 0 /\ fired[j] = 0 /\ out[j] = Pending
      BY DEF WorkersInit
    <2>2. out[j].status = "pending" /\ out[j].row = 0
      BY <2>1, ResultFacts
    <2>3. writes = <<>> /\ Len(writes) \in Nat
      BY DEF WorkersInit
    <2> QED
      BY <2>1, <2>2, <2>3 DEF AttemptsOf, AnswerOf, RowOf
  <1> QED
    BY <1>2, <1>3, <1>4 DEF WorkersInv

TaskOf(j) == AttemptsOf(j) /\ AnswerOf(j) /\ RowOf(j)

\* A write is appended, or there is none.
Writes == writes' = writes \/ \E x \in Jobs : writes' = Append(writes, x)

LEMMA WritesKeep ==
  ASSUME WorkersShape, Writes
  PROVE  /\ writes' \in Seq(Jobs) /\ Len(writes) \in Nat /\ Len(writes') \in Nat
         /\ Len(writes) <= Len(writes')
         /\ \A i \in 1..Len(writes) : writes'[i] = writes[i]
  <1>1. CASE writes' = writes
    BY <1>1 DEF WorkersShape
  <1>2. ASSUME NEW x \in Jobs, writes' = Append(writes, x)
        PROVE  /\ writes' \in Seq(Jobs) /\ Len(writes) \in Nat /\ Len(writes') \in Nat
               /\ Len(writes) <= Len(writes')
               /\ \A i \in 1..Len(writes) : writes'[i] = writes[i]
    <2>1. writes \in Seq(Jobs) /\ Len(writes) \in Nat
      BY DEF WorkersShape
    <2>2. Len(writes') = Len(writes) + 1 /\ writes' \in Seq(Jobs)
      BY <1>2, <2>1
    <2>3. \A i \in 1..Len(writes) : writes'[i] = writes[i]
      BY <1>2, <2>1
    <2> QED
      BY <2>1, <2>2, <2>3
  <1> QED
    BY <1>1, <1>2 DEF Writes

\* What a row read back shows stays shown.
LEMMA RowKeeps ==
  ASSUME WorkersShape, Writes, NEW j \in Jobs, RowOf(j)
  PROVE  /\ out[j].row \in 0..Len(writes')
         /\ out[j].row > 0 => \E i \in 1..out[j].row : writes'[i] = j
         /\ at[j] = "find" => \E i \in 1..Len(writes') : writes'[i] = j
  <1>1. PICK n : n = out[j].row
    OBVIOUS
  <1>2. n \in 0..Len(writes) /\ (n > 0 => \E i \in 1..n : writes[i] = j)
    BY <1>1 DEF RowOf
  <1>3. /\ Len(writes) \in Nat /\ Len(writes') \in Nat /\ Len(writes) <= Len(writes')
        /\ \A i \in 1..Len(writes) : writes'[i] = writes[i]
    BY WritesKeep
  <1>4. n \in 0..Len(writes') /\ (n > 0 => \E i \in 1..n : writes'[i] = j)
    BY <1>2, <1>3
  <1>5. at[j] = "find" => \E i \in 1..Len(writes') : writes'[i] = j
    BY <1>3 DEF RowOf
  <1> QED
    BY <1>1, <1>4, <1>5

\* A step of one task leaves the others as they were.
LEMMA OthersKeep ==
  ASSUME WorkersShape, Writes, input' = input, NEW k \in Jobs, TaskOf(k),
         at'[k] = at[k], tries'[k] = tries[k], requests'[k] = requests[k],
         out'[k] = out[k], fired'[k] = fired[k]
  PROVE  TaskOf(k)'
  <1>1. AttemptsOf(k)' /\ AnswerOf(k)'
    BY DEF TaskOf, AttemptsOf, AnswerOf
  <1>2. RowOf(k)
    BY DEF TaskOf
  <1>3. RowOf(k)'
    BY <1>2, RowKeeps DEF RowOf
  <1> QED
    BY <1>1, <1>3 DEF TaskOf

\* The queue and the binding, in a step of a task that is past the queue.
LEMMA PastTheQueue ==
  ASSUME WorkersInv, UNCHANGED <<kind, offers, bound, lane>>, NEW j \in Jobs, NEW q,
         at[j] \notin {"new", "queued"}, at' = [at EXCEPT ![j] = q]
  PROVE  LaneHolds' /\ BoundOnce'
  <1>1. /\ at \in [Jobs -> Places] /\ lane \in Seq(Jobs)
        /\ LaneHolds /\ BoundOnce
    BY DEF WorkersInv, WorkersShape
  <1>2. LaneHolds'
    BY <1>1 DEF LaneHolds
  <1>3. BoundOnce'
    BY <1>1 DEF BoundOnce
  <1> QED
    BY <1>2, <1>3

\* What an answer says of the task's attempts, and of the row it read.
Counts(j, r) ==
    r.status \in {"ok", "timeout"} =>
       /\ r.attempts = requests[j] /\ r.attempts >= 1
       /\ r.attempts <= IF input[j].limit = 0 THEN 1 ELSE input[j].limit
       /\ r.status = "timeout" => r.attempts >= input[j].limit
Shows(j, r) == r.row \in 0..Len(writes) /\ (r.row > 0 => \E i \in 1..r.row : writes[i] = j)

\* A task that gets its answer.
LEMMA AnswerStep ==
  ASSUME WorkersInv, Writes, UNCHANGED <<kind, offers, bound, input, lane>>,
         NEW j \in Jobs, at[j] \notin {"new", "queued", "done"}, at' = [at EXCEPT ![j] = "done"],
         requests' = requests, \A k \in Jobs \ {j} : tries'[k] = tries[k], tries' \in [Jobs -> Nat],
         NEW r, Complete(j, r),
         Shows(j, r)', Counts(j, r)
  PROVE  WorkersInv'
  <1>1. WorkersShape /\ LaneHolds /\ BoundOnce /\ \A k \in Jobs : TaskOf(k)
    BY DEF WorkersInv, TaskOf
  <1>2. fired[j] = 0 /\ fired \in [Jobs -> Nat] /\ DOMAIN out = Jobs /\ at \in [Jobs -> Places]
        /\ requests \in [Jobs -> Nat] /\ \A k \in Jobs : input[k].limit \in Nat
    BY <1>1 DEF TaskOf, AnswerOf, WorkersShape
  <1>3. out' = [out EXCEPT ![j] = r] /\ fired' = [fired EXCEPT ![j] = 1]
    BY <1>2 DEF Complete
  <1>4. at'[j] = "done" /\ out'[j] = r /\ fired'[j] = 1
    BY <1>2, <1>3
  <1>5. WorkersShape'
    <2>1. writes' \in Seq(Jobs)
      BY <1>1, WritesKeep
    <2>2. at' \in [Jobs -> Places] /\ fired' \in [Jobs -> Nat] /\ DOMAIN out' = Jobs
      BY <1>2, <1>3 DEF Places
    <2> QED
      BY <1>1, <1>2, <2>1, <2>2 DEF WorkersShape
  <1>6. LaneHolds' /\ BoundOnce'
    BY PastTheQueue
  <1>7. TaskOf(j)'
    <2>1. AttemptsOf(j)'
      BY <1>4 DEF AttemptsOf
    <2>2. AnswerOf(j)'
      BY <1>4 DEF AnswerOf, Counts
    <2>3. RowOf(j)'
      BY <1>4 DEF RowOf, Shows
    <2> QED
      BY <2>1, <2>2, <2>3 DEF TaskOf
  <1>8. ASSUME NEW k \in Jobs, k # j PROVE TaskOf(k)'
    <2>1. at'[k] = at[k] /\ out'[k] = out[k] /\ fired'[k] = fired[k] /\ tries'[k] = tries[k]
      BY <1>2, <1>3, <1>8
    <2> QED
      BY <1>1, <2>1, OthersKeep
  <1> QED
    BY <1>5, <1>6, <1>7, <1>8 DEF WorkersInv, TaskOf

\* A task that goes on waiting, for something else.
LEMMA Waiting ==
  ASSUME WorkersInv, Writes, UNCHANGED <<kind, offers, bound, input, lane>>, Stay,
         NEW j \in Jobs, at[j] \notin {"new", "queued", "done"},
         NEW q \in Places \ {"new", "queued", "done"}, at' = [at EXCEPT ![j] = q],
         tries' \in [Jobs -> Nat], requests' \in [Jobs -> Nat],
         \A k \in Jobs \ {j} : tries'[k] = tries[k] /\ requests'[k] = requests[k],
         AttemptsOf(j)',
         q = "find" => \E i \in 1..Len(writes') : writes'[i] = j
  PROVE  WorkersInv'
  <1>1. WorkersShape /\ LaneHolds /\ BoundOnce /\ \A k \in Jobs : TaskOf(k)
    BY DEF WorkersInv, TaskOf
  <1>2. at \in [Jobs -> Places] /\ at' \in [Jobs -> Places] /\ at'[j] = q
    BY <1>1 DEF WorkersShape
  <1>3. WorkersShape'
    <2>1. writes' \in Seq(Jobs)
      BY <1>1, WritesKeep
    <2> QED
      BY <1>1, <1>2, <2>1 DEF WorkersShape, Stay
  <1>4. LaneHolds' /\ BoundOnce'
    BY PastTheQueue
  <1>5. TaskOf(j)'
    <2>1. AnswerOf(j) /\ RowOf(j)
      BY <1>1 DEF TaskOf
    <2>2. AnswerOf(j)'
      <3>1. out'[j] = Pending /\ fired'[j] = 0
        BY <2>1 DEF AnswerOf, Stay
      <3> QED
        BY <1>2, <3>1, ResultFacts DEF AnswerOf
    <2>3. RowOf(j)'
      BY <1>1, <1>2, <2>1, RowKeeps DEF RowOf, Stay
    <2> QED
      BY <2>2, <2>3 DEF TaskOf
  <1>6. ASSUME NEW k \in Jobs, k # j PROVE TaskOf(k)'
    <2>1. at'[k] = at[k] /\ out'[k] = out[k] /\ fired'[k] = fired[k]
      BY <1>2, <1>6 DEF Stay
    <2> QED
      BY <1>1, <1>6, <2>1, OthersKeep
  <1> QED
    BY <1>3, <1>4, <1>5, <1>6 DEF WorkersInv, TaskOf

LEMMA BindingSteps == WorkersInv /\ (OnLoadWorker \/ Connected) => WorkersInv'
  <1> SUFFICES ASSUME WorkersInv, OnLoadWorker \/ Connected PROVE WorkersInv'
    OBVIOUS
  <1>1. UNCHANGED <<kind, offers, input, lane, at, tries, requests, writes, out, fired>>
    BY DEF OnLoadWorker, Connected
  <1>2. WorkersShape' /\ LaneHolds'
    BY <1>1 DEF WorkersInv, WorkersShape, LaneHolds
  <1>3. BoundOnce'
    <2>1. CASE OnLoadWorker
      BY <1>1, <2>1 DEF OnLoadWorker, WorkersInv, BoundOnce
    <2>2. CASE Connected
      BY <1>1, <2>2 DEF Connected, WorkersInv, BoundOnce
    <2> QED
      BY <2>1, <2>2
  <1>4. \A j \in Jobs : AttemptsOf(j)' /\ AnswerOf(j)' /\ RowOf(j)'
    BY <1>1 DEF WorkersInv, AttemptsOf, AnswerOf, RowOf
  <1> QED
    BY <1>2, <1>3, <1>4 DEF WorkersInv

LEMMA ExecuteAsyncStep ==
  ASSUME WorkersInv, NEW j \in Jobs, ExecuteAsync(j)
  PROVE  WorkersInv'
  <1>1. WorkersShape /\ LaneHolds /\ BoundOnce /\ \A k \in Jobs : TaskOf(k)
    BY DEF WorkersInv, TaskOf
  <1>2. /\ at \in [Jobs -> Places] /\ lane \in Seq(Jobs) /\ Len(lane) \in Nat
        /\ at[j] = "new" /\ at' = [at EXCEPT ![j] = "queued"] /\ at' \in [Jobs -> Places]
    BY <1>1 DEF WorkersShape, ExecuteAsync, Places
  <1>3. /\ lane' \in Seq(Jobs) /\ Len(lane') = Len(lane) + 1 /\ lane'[Len(lane) + 1] = j
        /\ \A i \in 1..Len(lane) : lane'[i] = lane[i]
    BY <1>2 DEF ExecuteAsync
  <1>4. UNCHANGED <<kind, offers, bound, input, tries, requests, writes, out, fired>> /\ bound # {}
    BY DEF ExecuteAsync, Loaded
  <1>5. WorkersShape'
    BY <1>1, <1>2, <1>3, <1>4 DEF WorkersShape
  <1>6. LaneHolds'
    <2>1. \A i \in 1..Len(lane) : lane[i] \in Jobs /\ lane[i] # j /\ at[lane[i]] = "queued"
      BY <1>1, <1>2 DEF LaneHolds
    <2>2. \A i \in 1..Len(lane') : i \in 1..Len(lane) \/ i = Len(lane) + 1
      BY <1>2, <1>3
    <2>3. \A i \in 1..Len(lane) : at'[lane'[i]] = "queued" /\ lane'[i] # j
      BY <1>2, <1>3, <2>1
    <2>4. at'[j] = "queued"
      BY <1>2
    <2>5. \A i, k \in 1..Len(lane) : lane'[i] = lane'[k] => i = k
      BY <1>1, <1>3 DEF LaneHolds
    <2> QED
      BY <1>3, <2>2, <2>3, <2>4, <2>5 DEF LaneHolds
  <1>7. BoundOnce'
    BY <1>1, <1>4 DEF BoundOnce
  <1>8. ASSUME NEW k \in Jobs PROVE TaskOf(k)'
    <2>1. CASE k = j
      <3>1. at'[j] = "queued"
        BY <1>2
      <3>2. AttemptsOf(j)' /\ AnswerOf(j)' /\ RowOf(j)'
        BY <1>1, <1>2, <1>4, <3>1 DEF TaskOf, AttemptsOf, AnswerOf, RowOf
      <3> QED
        BY <2>1, <3>2 DEF TaskOf
    <2>2. CASE k # j
      <3>1. at'[k] = at[k]
        BY <1>2, <2>2
      <3> QED
        BY <1>1, <1>4, <3>1, OthersKeep DEF Writes
    <2> QED
      BY <2>1, <2>2
  <1> QED
    BY <1>5, <1>6, <1>7, <1>8 DEF WorkersInv, TaskOf

\* run() takes the task off the queue: no other entry is about it.
LEMMA RunStep ==
  ASSUME WorkersInv, NEW j \in Jobs, Run(j)
  PROVE  WorkersInv'
  <1>1. WorkersShape /\ LaneHolds /\ BoundOnce /\ \A k \in Jobs : TaskOf(k)
    BY DEF WorkersInv, TaskOf
  <1>2. /\ at \in [Jobs -> Places] /\ lane \in Seq(Jobs) /\ lane # <<>> /\ j = lane[1] /\ lane' = Tail(lane)
        /\ fired \in [Jobs -> Nat] /\ DOMAIN out = Jobs /\ requests \in [Jobs -> Nat]
    BY <1>1 DEF WorkersShape, Run
  <1>3. /\ Len(lane) \in Nat /\ 1 \in 1..Len(lane) /\ lane' \in Seq(Jobs) /\ Len(lane') = Len(lane) - 1
        /\ \A i \in 1..Len(lane') : i + 1 \in 1..Len(lane) /\ lane'[i] = lane[i + 1]
    BY <1>2
  <1>4. at[j] = "queued"
    BY <1>1, <1>2, <1>3 DEF LaneHolds
  <1>5. /\ UNCHANGED <<kind, offers, bound, input, tries, writes>>
        /\ requests' = [requests EXCEPT ![j] = IF at'[j] = "sent" THEN @ + 1 ELSE @]
    BY DEF Run
  <1>6. PICK q \in {"upsert", "query", "sent", "blocked", "done"} :
          /\ at' = [at EXCEPT ![j] = q]
          /\ q # "done" => Stay
          /\ q = "done" => \E r : Complete(j, r) /\ r.status = "none" /\ r.row = 0
    <2>1. CASE kind \notin DOMAIN Waits
      <3>1. kind \in DOMAIN Takes \ DOMAIN Waits
        BY <1>1, <2>1 DEF WorkersShape
      <3>2. AtOnce(input[j]).status = "none" /\ AtOnce(input[j]).row = 0
        BY <3>1, KindFacts, AtOnceFacts
      <3>3. at' = [at EXCEPT ![j] = "done"] /\ Complete(j, AtOnce(input[j]))
        BY <2>1 DEF Run
      <3> QED
        BY <3>2, <3>3
    <2>2. CASE kind \in DOMAIN Waits /\ Refuses(input[j])
      <3>1. at' = [at EXCEPT ![j] = "done"] /\ Complete(j, Failure)
        BY <2>2 DEF Run
      <3> QED
        BY <3>1, ResultFacts
    <2>3. CASE kind \in DOMAIN Waits /\ ~Refuses(input[j])
      <3>1. at' = [at EXCEPT ![j] = Waits[kind]] /\ Stay
        BY <2>3 DEF Run
      <3>2. Waits[kind] \in {"upsert", "query", "sent", "blocked"}
        BY <2>3, KindFacts
      <3> QED
        BY <3>1, <3>2
    <2> QED
      BY <2>1, <2>2, <2>3
  <1>7. at'[j] = q /\ at' \in [Jobs -> Places] /\ q \notin {"new", "queued", "find", "timer"}
    BY <1>2, <1>6 DEF Places
  <1>8. /\ requests' \in [Jobs -> Nat] /\ requests'[j] = IF q = "sent" THEN requests[j] + 1 ELSE requests[j]
        /\ \A k \in Jobs : k # j => requests'[k] = requests[k]
    BY <1>2, <1>5, <1>7
  <1>9. /\ DOMAIN out' = Jobs /\ fired' \in [Jobs -> Nat]
        /\ \A k \in Jobs : k # j => out'[k] = out[k] /\ fired'[k] = fired[k]
        /\ q # "done" => out'[j] = out[j] /\ fired'[j] = fired[j]
        /\ q = "done" => out'[j].status = "none" /\ out'[j].row = 0 /\ fired'[j] = fired[j] + 1
    <2>1. CASE q # "done"
      BY <1>2, <1>6, <2>1 DEF Stay
    <2>2. CASE q = "done"
      <3>1. PICK r : Complete(j, r) /\ r.status = "none" /\ r.row = 0
        BY <1>6, <2>2
      <3>2. out' = [out EXCEPT ![j] = r] /\ fired' = [fired EXCEPT ![j] = fired[j] + 1]
        BY <3>1 DEF Complete
      <3>3. fired[j] + 1 \in Nat
        BY <1>2
      <3> QED
        BY <1>2, <2>2, <3>1, <3>2, <3>3
    <2> QED
      BY <2>1, <2>2
  <1>10. WorkersShape'
    BY <1>1, <1>3, <1>5, <1>7, <1>8, <1>9 DEF WorkersShape
  <1>11. LaneHolds'
    <2>1. \A i \in 1..Len(lane') : i + 1 # 1 /\ lane[i + 1] # j /\ lane'[i] \in Jobs
      BY <1>1, <1>2, <1>3 DEF LaneHolds
    <2>2. \A i \in 1..Len(lane') : at'[lane'[i]] = "queued"
      <3> SUFFICES ASSUME NEW i \in 1..Len(lane') PROVE at'[lane'[i]] = "queued"
        OBVIOUS
      <3>1. lane'[i] \in Jobs /\ lane'[i] = lane[i + 1] /\ lane[i + 1] # j /\ i + 1 \in 1..Len(lane)
        BY <1>3, <2>1
      <3>2. at[lane[i + 1]] = "queued"
        BY <1>1, <3>1 DEF LaneHolds
      <3>3. PICK k \in Jobs : k = lane'[i]
        BY <3>1
      <3>4. k # j /\ at[k] = "queued"
        BY <3>1, <3>2, <3>3
      <3> QED
        BY <1>2, <1>6, <3>3, <3>4
    <2>3. \A i, k \in 1..Len(lane') : lane'[i] = lane'[k] => i = k
      <3> SUFFICES ASSUME NEW i \in 1..Len(lane'), NEW k \in 1..Len(lane'), lane'[i] = lane'[k]
                   PROVE  i = k
        OBVIOUS
      <3>1. i + 1 = k + 1
        BY <1>1, <1>3 DEF LaneHolds
      <3> QED
        BY <3>1
    <2> QED
      BY <2>2, <2>3 DEF LaneHolds
  <1>12. BoundOnce'
    BY <1>1, <1>2, <1>4, <1>5, <1>6 DEF BoundOnce
  <1>13. TaskOf(j)'
    <2>1. AttemptsOf(j) /\ AnswerOf(j) /\ RowOf(j)
      BY <1>1 DEF TaskOf
    <2>2. requests[j] = 0 /\ tries[j] = 0 /\ fired[j] = 0 /\ out[j] = Pending
      BY <1>4, <2>1 DEF AttemptsOf, AnswerOf
    <2>3. AttemptsOf(j)'
      BY <1>5, <1>7, <1>8, <2>2 DEF AttemptsOf
    <2>4. AnswerOf(j)'
      <3>1. CASE q # "done"
        BY <1>7, <1>9, <2>2, <3>1, ResultFacts DEF AnswerOf
      <3>2. CASE q = "done"
        <4>1. out'[j].status \notin {"ok", "timeout"}
          BY <1>9, <3>2
        <4>2. fired'[j] = 1 /\ at'[j] = "done"
          <5>1. fired'[j] = fired[j] + 1
            BY <1>9, <3>2
          <5> QED
            BY <1>7, <2>2, <3>2, <5>1
        <4> QED
          BY <4>1, <4>2 DEF AnswerOf
      <3> QED
        BY <3>1, <3>2
    <2>5. RowOf(j)'
      <3>1. out'[j].row = 0
        BY <1>9, <2>2, ResultFacts
      <3>2. Len(writes) \in Nat /\ at'[j] # "find"
        BY <1>1, <1>7 DEF WorkersShape
      <3> QED
        BY <1>5, <3>1, <3>2 DEF RowOf
    <2> QED
      BY <2>3, <2>4, <2>5 DEF TaskOf
  <1>14. ASSUME NEW k \in Jobs, k # j PROVE TaskOf(k)'
    <2>1. at'[k] = at[k]
      BY <1>2, <1>6, <1>14
    <2> QED
      BY <1>1, <1>5, <1>8, <1>9, <1>14, <2>1, OthersKeep DEF Writes
  <1> QED
    BY <1>10, <1>11, <1>12, <1>13, <1>14 DEF WorkersInv, TaskOf

\* An answer that is neither a poll's outcome nor a row.
LEMMA PlainAnswer ==
  ASSUME NEW j, NEW r, r.status = "none", r.row = 0, Len(writes') \in Nat
  PROVE  Shows(j, r)' /\ Counts(j, r)
  <1>1. Counts(j, r)
    <2>1. r.status \notin {"ok", "timeout"}
      OBVIOUS
    <2> QED
      BY <2>1 DEF Counts
  <1>2. PICK n \in Nat : n = Len(writes')
    OBVIOUS
  <1>3. r.row \in 0..n /\ ~(r.row > 0)
    <2>1. 0 \in 0..n /\ ~(0 > 0)
      OBVIOUS
    <2> QED
      BY <2>1
  <1>4. Shows(j, r)'
    BY <1>2, <1>3 DEF Shows
  <1> QED
    BY <1>1, <1>4

\* A callback that only reports: send_blocking(), the query, the reply.
LEMMA ReportSteps ==
  ASSUME WorkersInv, NEW j \in Jobs,
         \/ \E good \in BOOLEAN : SendReturns(j, good)
         \/ RowsReturn(j) \/ ReplyArrives(j)
  PROVE  WorkersInv'
  <1>1. PICK r : Complete(j, r) /\ r.status = "none" /\ r.row = 0
    <2>1. Complete(j, Failure) \/ \E names : Complete(j, Ok(names))
      BY DEF SendReturns, RowsReturn, ReplyArrives
    <2>2. CASE Complete(j, Failure)
      BY <2>2, ResultFacts
    <2>3. ASSUME NEW names, Complete(j, Ok(names)) PROVE \E r : Complete(j, r) /\ r.status = "none" /\ r.row = 0
      BY <2>3, OkFacts
    <2> QED
      BY <2>1, <2>2, <2>3
  <1>2. /\ UNCHANGED <<kind, offers, bound, input, lane, tries, requests, writes>>
        /\ at[j] \notin {"new", "queued", "done"} /\ at' = [at EXCEPT ![j] = "done"]
    BY DEF SendReturns, RowsReturn, ReplyArrives
  <1>3. tries' \in [Jobs -> Nat] /\ Len(writes') \in Nat
    BY <1>2 DEF WorkersInv, WorkersShape
  <1>4. Shows(j, r)' /\ Counts(j, r)
    BY <1>1, <1>3, PlainAnswer
  <1> QED
    BY <1>1, <1>2, <1>3, <1>4, AnswerStep DEF Writes

LEMMA StoreStep ==
  ASSUME WorkersInv, NEW j \in Jobs, NEW good \in BOOLEAN, StoreReturns(j, good)
  PROVE  WorkersInv'
  <1>1. UNCHANGED <<kind, offers, bound, input, lane, tries, requests>> /\ at[j] = "upsert"
    BY DEF StoreReturns
  <1>2. Writes
    BY DEF StoreReturns, Writes
  <1>3. tries \in [Jobs -> Nat] /\ requests \in [Jobs -> Nat] /\ writes \in Seq(Jobs) /\ at \in [Jobs -> Places]
    BY DEF WorkersInv, WorkersShape
  <1>4. CASE ~good
    <2>1. at' = [at EXCEPT ![j] = "done"] /\ Complete(j, Failure) /\ writes' = writes
      BY <1>4 DEF StoreReturns
    <2>2. Len(writes') \in Nat
      BY <1>3, <2>1
    <2>3. PICK r : r = Failure
      OBVIOUS
    <2>4. Shows(j, r)' /\ Counts(j, r)
      BY <2>2, <2>3, ResultFacts, PlainAnswer
    <2> QED
      BY <1>1, <1>2, <1>3, <2>1, <2>3, <2>4, AnswerStep
  <1>5. CASE good
    <2>1. at' = [at EXCEPT ![j] = "find"] /\ Stay /\ writes' = Append(writes, j)
      BY <1>5 DEF StoreReturns
    <2>2. Len(writes) + 1 \in 1..Len(writes') /\ writes'[Len(writes) + 1] = j
      BY <1>3, <2>1
    <2>3. at'[j] = "find"
      BY <1>3, <2>1
    <2>4. AttemptsOf(j)'
      BY <2>3 DEF AttemptsOf
    <2>5. "find" \in Places \ {"new", "queued", "done"}
      BY DEF Places
    <2> QED
      BY <1>1, <1>2, <1>3, <2>1, <2>2, <2>4, <2>5, Waiting
  <1> QED
    BY <1>4, <1>5

LEMMA FindStep ==
  ASSUME WorkersInv, NEW j \in Jobs, NEW good \in BOOLEAN, FindReturns(j, good)
  PROVE  WorkersInv'
  <1>1. /\ UNCHANGED <<kind, offers, bound, input, lane, tries, requests, writes>>
        /\ at[j] = "find" /\ at' = [at EXCEPT ![j] = "done"]
    BY DEF FindReturns
  <1>2. tries \in [Jobs -> Nat] /\ Len(writes) \in Nat /\ RowOf(j)
    BY DEF WorkersInv, WorkersShape
  <1>3. PICK r : Complete(j, r) /\ r.status = "none" /\ r.row \in {0, Len(writes)}
    <2>1. CASE good
      <3>1. Complete(j, [Ok({"db_status", "stored_username", "stored_hash"}) EXCEPT !.row = Len(writes)])
        BY <2>1 DEF FindReturns
      <3> QED
        BY <3>1, OkFacts
    <2>2. CASE ~good
      BY <2>2, ResultFacts DEF FindReturns
    <2> QED
      BY <2>1, <2>2
  <1>4. \E i \in 1..Len(writes) : writes[i] = j
    BY <1>1, <1>2 DEF RowOf
  <1>5. Shows(j, r)' /\ Counts(j, r)
    <2>1. CASE r.row = 0
      BY <1>1, <1>2, <1>3, <2>1, PlainAnswer
    <2>2. CASE r.row = Len(writes)
      <3>1. PICK n \in Nat : n = Len(writes)
        BY <1>2
      <3>2. n \in 0..n /\ \E i \in 1..n : writes[i] = j
        BY <1>4, <3>1
      <3>3. r.row = n
        BY <2>2, <3>1
      <3>4. Shows(j, r)
        BY <3>1, <3>2, <3>3 DEF Shows
      <3>5. Counts(j, r)
        BY <1>3, Zenon DEF Counts
      <3> QED
        BY <1>1, <3>4, <3>5 DEF Shows
    <2> QED
      BY <1>3, <2>1, <2>2
  <1> QED
    BY <1>1, <1>2, <1>3, <1>5, AnswerStep DEF Writes

\* handle_response() with the attempts of its own RetryState.
LEMMA ResponseStep ==
  ASSUME WorkersInv, NEW j \in Jobs, NEW matches \in BOOLEAN, HandleResponse(j, matches)
  PROVE  WorkersInv'
  <1>1. PICK n : n = tries[j] + 1
    OBVIOUS
  <1>2. /\ UNCHANGED <<kind, offers, bound, input, lane, requests, writes>>
        /\ at[j] = "sent" /\ tries' = [tries EXCEPT ![j] = n]
    BY <1>1 DEF HandleResponse
  <1>3. /\ tries \in [Jobs -> Nat] /\ requests \in [Jobs -> Nat] /\ Len(writes) \in Nat
        /\ input[j].limit \in Nat /\ AttemptsOf(j) /\ at \in [Jobs -> Places]
    BY DEF WorkersInv, WorkersShape
  <1>4. n = requests[j] /\ n \in Nat /\ n >= 1 /\ n <= IF input[j].limit = 0 THEN 1 ELSE input[j].limit
    BY <1>1, <1>2, <1>3 DEF AttemptsOf
  <1>5. tries' \in [Jobs -> Nat] /\ tries'[j] = n /\ \A k \in Jobs \ {j} : tries'[k] = tries[k]
    BY <1>2, <1>3, <1>4
  <1>6. CASE matches
    <2>1. PICK r : r = Outcome(j, "ok", n)
      OBVIOUS
    <2>2. Complete(j, r) /\ at' = [at EXCEPT ![j] = "done"]
      BY <1>1, <1>6, <2>1 DEF HandleResponse
    <2>3. r.status = "ok" /\ r.attempts = n /\ r.row = 0
      BY <2>1, OutcomeFacts
    <2>4. Shows(j, r)' /\ Counts(j, r)
      BY <1>2, <1>3, <1>4, <2>3 DEF Shows, Counts
    <2> QED
      BY <1>2, <1>5, <2>2, <2>4, AnswerStep DEF Writes
  <1>7. CASE ~matches /\ n >= input[j].limit
    <2>1. PICK r : r = Outcome(j, "timeout", n)
      OBVIOUS
    <2>2. Complete(j, r) /\ at' = [at EXCEPT ![j] = "done"]
      BY <1>1, <1>7, <2>1 DEF HandleResponse
    <2>3. r.status = "timeout" /\ r.attempts = n /\ r.row = 0
      BY <2>1, OutcomeFacts
    <2>4. Shows(j, r)' /\ Counts(j, r)
      BY <1>2, <1>3, <1>4, <1>7, <2>3 DEF Shows, Counts
    <2> QED
      BY <1>2, <1>5, <2>2, <2>4, AnswerStep DEF Writes
  <1>8. CASE ~matches /\ ~(n >= input[j].limit)
    <2>1. at' = [at EXCEPT ![j] = "timer"] /\ Stay
      BY <1>1, <1>8 DEF HandleResponse
    <2>2. at'[j] = "timer" /\ "timer" \in Places \ {"new", "queued", "done"}
      BY <1>3, <2>1 DEF Places
    <2>3. AttemptsOf(j)'
      BY <1>2, <1>3, <1>4, <1>5, <1>8, <2>2 DEF AttemptsOf
    <2> QED
      BY <1>2, <1>3, <1>5, <2>1, <2>2, <2>3, Waiting DEF Writes
  <1> QED
    BY <1>6, <1>7, <1>8

LEMMA AttemptStep ==
  ASSUME WorkersInv, NEW j \in Jobs, IssueAttempt(j)
  PROVE  WorkersInv'
  <1>1. /\ UNCHANGED <<kind, offers, bound, input, lane, tries, writes>> /\ Stay
        /\ at[j] = "timer" /\ at' = [at EXCEPT ![j] = "sent"]
        /\ requests' = [requests EXCEPT ![j] = requests[j] + 1]
    BY DEF IssueAttempt
  <1>2. tries \in [Jobs -> Nat] /\ requests \in [Jobs -> Nat] /\ AttemptsOf(j) /\ at \in [Jobs -> Places]
    BY DEF WorkersInv, WorkersShape
  <1>3. /\ requests' \in [Jobs -> Nat] /\ requests'[j] = requests[j] + 1
        /\ \A k \in Jobs \ {j} : requests'[k] = requests[k]
    BY <1>1, <1>2
  <1>4. at'[j] = "sent" /\ "sent" \in Places \ {"new", "queued", "done"}
    BY <1>1, <1>2 DEF Places
  <1>5. AttemptsOf(j)'
    BY <1>1, <1>2, <1>3, <1>4 DEF AttemptsOf
  <1> QED
    BY <1>1, <1>2, <1>3, <1>4, <1>5, Waiting DEF Writes

LEMMA WorkersKeep == WorkersSpec => []WorkersInv
  <1>1. WorkersInv /\ [WorkersNext]_workersVars => WorkersInv'
    <2> SUFFICES ASSUME WorkersInv, [WorkersNext]_workersVars PROVE WorkersInv'
      OBVIOUS
    <2>1. CASE UNCHANGED workersVars
      BY <2>1 DEF workersVars, WorkersInv, WorkersShape, LaneHolds, BoundOnce, AttemptsOf, AnswerOf, RowOf
    <2>2. CASE WorkersNext
      BY <2>2, BindingSteps, ExecuteAsyncStep, RunStep, ReportSteps, StoreStep, FindStep, ResponseStep, AttemptStep
         DEF WorkersNext
    <2> QED
      BY <2>1, <2>2
  <1> QED
    BY <1>1, WorkersStart, PTL DEF WorkersSpec

\* A task that a worker has accepted is answered exactly once, whatever order
\* the callbacks, replies and timers of the tasks come in; a client_pool task
\* reports its own attempts, within its own limit; and none waits in a queue
\* that on_load forgot to bind.
THEOREM TasksAreAnsweredOnce == WorkersSpec => []AnsweredOnce
  <1>1. WorkersInv => AnsweredOnce
    <2> SUFFICES ASSUME WorkersInv PROVE AnsweredOnce
      OBVIOUS
    <2>1. CompletesOnce
      BY DEF WorkersInv, AnswerOf, CompletesOnce
    <2>2. NoTaskForgotten
      BY KindFacts DEF WorkersInv, WorkersShape, BoundOnce, NoTaskForgotten
    <2> QED
      BY <2>1, <2>2 DEF AnsweredOnce
  <1> QED
    BY <1>1, WorkersKeep, PTL

\* db_query's find, which its upsert's callback asks for, never returns the row
\* as it was before that upsert, however many tasks write the same user.
THEOREM FindSeesTheUpsert == WorkersSpec => []ReadsBackOwnWrite
  <1>1. WorkersInv => ReadsBackOwnWrite
    BY DEF WorkersInv, RowOf, ReadsBackOwnWrite
  <1> QED
    BY <1>1, WorkersKeep, PTL

-----------------------------------------------------------------------------
(***************************************************************************)
(* Schema migrations.                                                      *)
(***************************************************************************)
Versions == Nat \X Nat
Stages == {"down", "ensure", "load", "baselines", "baselines record", "files", "files record", "ready"}
IsPass(p) == p = [at |-> p.at, applied |-> p.applied, todo |-> p.todo, saw |-> p.saw] /\ p.at \in Stages

\* The directory: nothing in it is newer than the clock, one file is the last.
DirOk ==
    /\ second \in Nat /\ second >= 1
    /\ \A v \in DOMAIN dir : v \in Versions /\ v[1] >= 1 /\ v[1] <= second /\ v[2] \in {1, 2} /\ dir[v] # NoChecksum
    /\ \E last \in DOMAIN dir : \A w \in DOMAIN dir : w = last \/ Lower(w, last)

\* What precedes the file of this second is not the schema of this second.
FreshFile ==
    <<second, 2>> \in DOMAIN dir =>
        \A v \in DOMAIN dir : Lower(v, <<second, 2>>) /\ dir[v] = Generated(schema) =>
            \E u \in DOMAIN dir : Lower(v, u) /\ Lower(u, <<second, 2>>) /\ dir[u] # dir[v]

DirInv == DirOk /\ FreshFile /\ GeneratesOnChange

\* The ledger and the counters.
LedgerOk ==
    /\ faults \in Nat /\ apart \in BOOLEAN
    /\ \A v \in DOMAIN ran : ran[v] \in Nat
    /\ \A v \in DOMAIN recorded : Times(v) >= 1 /\ (v[1] # 0 => recorded[v] # NoChecksum)

InBaselines(p) == p.at \in {"baselines", "baselines record"}
InFiles(p)     == p.at \in {"files", "files record"}
Busy(p)        == p.at \in {"baselines record", "files record"}
Recorded(f)    == f.v \in DOMAIN recorded /\ recorded[f.v] = f.body
HasBaselines   == \A i \in 1..Baselines : <<0, i>> \in DOMAIN recorded

\* A pass: what it has left to run is told apart by the versions, what it has
\* behind it is in the ledger, and what it is about to record has run.
PassOk(p) ==
    /\ IsPass(p)
    /\ \A f \in p.todo : f.v \in Versions
    /\ \A f, g \in p.todo : f.v = g.v => f = g
    /\ Busy(p) => \A job \in NextOf(p.todo) : Times(job.v) >= 1
    /\ InBaselines(p) =>
          /\ \A v \in DOMAIN p.applied : v \in DOMAIN recorded /\ recorded[v] = p.applied[v]
          /\ \A i \in 1..Baselines : <<0, i>> \in DOMAIN recorded \/ \E b \in p.todo : b.v = <<0, i>>
          /\ \A b \in p.todo : b.v[1] = 0
    /\ InFiles(p) =>
          /\ HasBaselines
          /\ \A f \in p.saw : f.v \in Versions /\ (f \in p.todo \/ Recorded(f))
          /\ \A f \in p.todo : f.v[1] # 0 /\ f.body # NoChecksum
    /\ p.at = "ready" => HasBaselines /\ \A f \in p.saw : Recorded(f)

\* How often a migration may have run, while passes do not overlap: what is not
\* recorded, or what a pass that could not read the ledger still has before it,
\* has only run in passes that failed.
Active(p)  == p.at \notin {"down", "ready"}
Left(p, v) ==
    \/ (InBaselines(p) \/ InFiles(p)) /\ \E f \in p.todo : f.v = v
    \/ InBaselines(p) /\ v[1] # 0 /\ v \notin DOMAIN p.applied
Held(p, v) == Busy(p) /\ \E job \in NextOf(p.todo) : job.v = v

Alone == \A g, h \in Hosts : Active(pass[g]) /\ Active(pass[h]) => g = h
CountOk(v) ==
    /\ Times(v) <= 1 + faults
    /\ \/ v \in DOMAIN recorded /\ \A h \in Hosts : ~Left(pass[h], v)
       \/ \E h \in Hosts : Held(pass[h], v)
       \/ Times(v) <= faults

PassesOk == DOMAIN pass = Hosts /\ \A h \in Hosts : PassOk(pass[h])
CountsOk == apart => Alone /\ \A v \in DOMAIN ran : CountOk(v)

MigrationInv == LedgerOk /\ PassesOk /\ CountsOk

-----------------------------------------------------------------------------
(* The order of versions. *)

LEMMA VersionOrder ==
    /\ \A v, w \in Versions : v = w \/ Lower(v, w) \/ Lower(w, v)
    /\ \A v, w \in Versions : ~(Lower(v, w) /\ Lower(w, v)) /\ ~Lower(v, v)
    /\ \A u, v, w \in Versions : Lower(u, v) /\ Lower(v, w) => Lower(u, w)
  <1>1. ASSUME NEW v \in Versions, NEW w \in Versions PROVE v = w \/ Lower(v, w) \/ Lower(w, v)
    <2>1. PICK a \in Nat, b \in Nat : v = <<a, b>>
      BY DEF Versions
    <2>2. PICK c \in Nat, d \in Nat : w = <<c, d>>
      BY DEF Versions
    <2> QED
      BY <2>1, <2>2 DEF Lower
  <1>2. \A v, w \in Versions : ~(Lower(v, w) /\ Lower(w, v)) /\ ~Lower(v, v)
    BY DEF Versions, Lower
  <1>3. \A u, v, w \in Versions : Lower(u, v) /\ Lower(v, w) => Lower(u, w)
    BY DEF Versions, Lower
  <1> QED
    BY <1>1, <1>2, <1>3

-----------------------------------------------------------------------------
(* The developer and the migrate command. *)

LEMMA DirStart == MigrationInit => DirInv
  <1> SUFFICES ASSUME MigrationInit PROVE DirInv
    OBVIOUS
  <1>1. /\ second = 1 /\ DOMAIN dir = {<<1, 1>>} /\ dir[<<1, 1>>] = Hand(0)
        /\ <<1, 1>> # <<1, 2>> /\ <<1, 1>> \in Versions
    BY DEF MigrationInit, Versions
  <1>2. Hand(0) # NoChecksum /\ Hand(0).what = "hand"
    BY DEF Hand, NoChecksum
  <1>3. DirOk
    BY <1>1, <1>2 DEF DirOk
  <1>4. FreshFile
    BY <1>1 DEF FreshFile
  <1>5. GeneratesOnChange
    BY <1>1, <1>2 DEF GeneratesOnChange
  <1> QED
    BY <1>3, <1>4, <1>5 DEF DirInv

\* A new second has no file yet.
LEMMA TickStep ==
  ASSUME DirInv, second' = second + 1, dir' = dir
  PROVE  DirInv'
  <1>1. DirOk'
    <2>1. /\ second \in Nat /\ second >= 1
          /\ \A v \in DOMAIN dir : v \in Versions /\ v[1] \in Nat /\ v[1] >= 1 /\ v[1] <= second /\ v[2] \in {1, 2} /\ dir[v] # NoChecksum
      BY DEF DirInv, DirOk, Versions
    <2>2. /\ second' \in Nat /\ second' >= 1
          /\ \A v \in DOMAIN dir : v[1] <= second'
      BY <2>1
    <2>3. \E last \in DOMAIN dir : \A w \in DOMAIN dir : w = last \/ Lower(w, last)
      BY DEF DirInv, DirOk
    <2> QED
      BY <2>1, <2>2, <2>3 DEF DirOk
  <1>2. <<second', 2>> \notin DOMAIN dir'
    <2>1. \A v \in DOMAIN dir : v[1] <= second /\ second \in Nat
      BY DEF DirInv, DirOk
    <2> QED
      BY <2>1
  <1>3. FreshFile'
    BY <1>2 DEF FreshFile
  <1>4. GeneratesOnChange'
    BY DEF DirInv, GeneratesOnChange
  <1> QED
    BY <1>1, <1>3, <1>4 DEF DirInv

\* The last file, once one more is there.
LEMMA LastStays ==
  ASSUME DirOk, second' = second, NEW v \in Versions, NEW x, dir' = Set(dir, v, x),
         v[1] >= 1, v[1] <= second, v[2] \in {1, 2}, x # NoChecksum
  PROVE  DirOk'
  <1>1. PICK last \in DOMAIN dir : \A w \in DOMAIN dir : w = last \/ Lower(w, last)
    BY DEF DirOk
  <1>2. DOMAIN dir' = DOMAIN dir \cup {v} /\ dir'[v] = x /\ \A i \in DOMAIN dir : i # v => dir'[i] = dir[i]
    BY DEF Set
  <1>3. \A w \in DOMAIN dir : w \in Versions
    BY DEF DirOk
  <1>4. \E l \in DOMAIN dir' : \A w \in DOMAIN dir' : w = l \/ Lower(w, l)
    <2>1. CASE v = last \/ Lower(v, last)
      BY <1>1, <1>2, <2>1
    <2>2. CASE Lower(last, v)
      BY <1>1, <1>2, <1>3, <2>2, VersionOrder
    <2> QED
      BY <1>3, <2>1, <2>2, VersionOrder
  <1> QED
    BY <1>2, <1>4 DEF DirOk

LEMMA HandStep ==
  ASSUME DirInv, NEW v, WriteByHand(v)
  PROVE  DirInv'
  <1>1. PICK x : x = Hand(hands + 1)
    OBVIOUS
  <1>2. x.what # "schema" /\ x # Generated(schema) /\ x # NoChecksum
    BY <1>1 DEF Hand, Generated, NoChecksum
  <1>3. dir' = Set(dir, v, x) /\ UNCHANGED <<second, schema>>
    BY <1>1 DEF WriteByHand
  <1>4. DOMAIN dir' = DOMAIN dir \cup {v} /\ dir'[v] = x /\ \A i \in DOMAIN dir : i # v => dir'[i] = dir[i]
    BY <1>3 DEF Set
  <1>5. v \in Versions /\ v[1] >= 1 /\ v[1] <= second /\ v[2] = 1
    <2>1. CASE v = <<second, 1>>
      BY <2>1 DEF DirInv, DirOk, Versions
    <2>2. CASE v \in DOMAIN dir /\ v[2] = 1
      BY <2>2 DEF DirInv, DirOk
    <2> QED
      BY <2>1, <2>2 DEF WriteByHand
  <1>6. DirOk'
    BY <1>2, <1>3, <1>5, LastStays DEF DirInv
  <1>7. FreshFile'
    <2> SUFFICES ASSUME <<second, 2>> \in DOMAIN dir', NEW w \in DOMAIN dir',
                        Lower(w, <<second, 2>>), dir'[w] = Generated(schema)
                 PROVE  \E u \in DOMAIN dir' : Lower(w, u) /\ Lower(u, <<second, 2>>) /\ dir'[u] # dir'[w]
      BY <1>3 DEF FreshFile, Generated
    <2>1. w # v /\ w \in DOMAIN dir /\ dir[w] = Generated(schema)
      BY <1>2, <1>4
    <2>2. <<second, 2>> \in DOMAIN dir
      BY <1>4, <1>5
    <2>3. PICK u \in DOMAIN dir : Lower(w, u) /\ Lower(u, <<second, 2>>) /\ dir[u] # dir[w]
      BY <2>1, <2>2 DEF DirInv, FreshFile
    <2> QED
      BY <1>2, <1>4, <2>1, <2>3
  <1>8. GeneratesOnChange'
    <2> SUFFICES ASSUME NEW a \in DOMAIN dir', NEW b \in DOMAIN dir', Lower(a, b), dir'[a] = dir'[b], dir'[a].what = "schema"
                 PROVE  \E u \in DOMAIN dir' : Lower(a, u) /\ Lower(u, b) /\ dir'[u] # dir'[a]
      BY DEF GeneratesOnChange
    <2>1. a # v /\ b # v /\ a \in DOMAIN dir /\ b \in DOMAIN dir /\ dir[a] = dir'[a] /\ dir[b] = dir'[b]
      BY <1>2, <1>4
    <2>2. PICK u \in DOMAIN dir : Lower(a, u) /\ Lower(u, b) /\ dir[u] # dir[a]
      BY <2>1 DEF DirInv, GeneratesOnChange
    <2> QED
      BY <1>2, <1>4, <2>1, <2>2
  <1> QED
    BY <1>6, <1>7, <1>8 DEF DirInv

\* migrate: the file of this second is written after the last one was seen to
\* hold another schema; a second attempt of the same second finds the same before it.
LEMMA MigrateStep ==
  ASSUME DirInv, NEW written \in {BuildSchemaDump, Cut, Empty}, Migrate(written)
  PROVE  DirInv'
  <1>1. PICK g : g = Generated(schema)
    OBVIOUS
  <1>2. PICK x : x = written
    OBVIOUS
  <1>3. x # NoChecksum /\ (x.what = "schema" => x = g) /\ UNCHANGED <<second, schema>>
    BY <1>1, <1>2 DEF Migrate, BuildSchemaDump, Generated, Cut, Empty, NoChecksum
  <1>4. CASE dir' = dir
    BY <1>3, <1>4 DEF DirInv, DirOk, FreshFile, GeneratesOnChange, Generated
  <1>5. CASE ~(\E v \in FindLastMigration(DOMAIN dir) : dir[v] = g)
    <2>1. PICK v : v = <<second, 2>>
      OBVIOUS
    <2>2. dir' = Set(dir, v, x)
      BY <1>1, <1>2, <1>5, <2>1 DEF Migrate, BuildSchemaDump
    <2>3. DOMAIN dir' = DOMAIN dir \cup {v} /\ dir'[v] = x /\ \A i \in DOMAIN dir : i # v => dir'[i] = dir[i]
      BY <2>2 DEF Set
    <2>4. v \in Versions /\ v[1] = second /\ v[1] >= 1 /\ v[1] <= second /\ v[2] = 2 /\ second \in Nat
      BY <2>1 DEF DirInv, DirOk, Versions
    <2>5. DirOk'
      BY <1>3, <2>2, <2>4, LastStays DEF DirInv
    <2>6. \A w \in DOMAIN dir : w \in Versions /\ (w = v \/ Lower(w, v))
      <3>1. ASSUME NEW w \in DOMAIN dir PROVE w \in Versions /\ (w = v \/ Lower(w, v))
        <4>1. w \in Versions /\ w[1] <= second /\ w[2] <= 2
          BY DEF DirInv, DirOk
        <4>2. ~Lower(v, w)
          BY <2>4, <4>1 DEF Lower, Versions
        <4> QED
          BY <2>4, <4>1, <4>2, VersionOrder
      <3> QED
        BY <3>1
    \* What the new file comes after: not the schema it would hold.
    <2>7. ASSUME NEW a \in DOMAIN dir, Lower(a, v), dir[a] = g
          PROVE  \E u \in DOMAIN dir : Lower(a, u) /\ Lower(u, v) /\ dir[u] # dir[a]
      <3>1. CASE v \in DOMAIN dir
        BY <1>1, <2>1, <2>7, <3>1 DEF DirInv, FreshFile
      <3>2. CASE v \notin DOMAIN dir
        <4>1. PICK last \in DOMAIN dir : \A w \in DOMAIN dir : w = last \/ Lower(w, last)
          BY DEF DirInv, DirOk
        <4>2. last \in FindLastMigration(DOMAIN dir)
          BY <4>1 DEF FindLastMigration
        <4>3. dir[last] # g /\ a # last /\ Lower(last, v)
          BY <1>5, <2>6, <2>7, <3>2, <4>2
        <4> QED
          BY <2>7, <4>1, <4>3
      <3> QED
        BY <3>1, <3>2
    <2>8. ASSUME NEW a \in DOMAIN dir', Lower(a, v), dir'[a] = g
          PROVE  \E u \in DOMAIN dir' : Lower(a, u) /\ Lower(u, v) /\ dir'[u] # dir'[a]
      <3>1. a # v /\ a \in DOMAIN dir /\ dir[a] = g
        BY <2>3, <2>4, <2>8, VersionOrder
      <3>2. PICK u \in DOMAIN dir : Lower(a, u) /\ Lower(u, v) /\ dir[u] # dir[a]
        BY <2>7, <2>8, <3>1
      <3>3. u # v
        BY <2>4, <3>2, VersionOrder
      <3> QED
        BY <2>3, <3>1, <3>2, <3>3
    <2>9. FreshFile'
      BY <1>1, <1>3, <2>1, <2>8 DEF FreshFile, Generated
    <2>10. GeneratesOnChange'
      <3> SUFFICES ASSUME NEW a \in DOMAIN dir', NEW b \in DOMAIN dir', Lower(a, b), dir'[a] = dir'[b], dir'[a].what = "schema"
                   PROVE  \E u \in DOMAIN dir' : Lower(a, u) /\ Lower(u, b) /\ dir'[u] # dir'[a]
        BY DEF GeneratesOnChange
      <3>1. a # v
        <4>1. a \in Versions /\ b \in Versions /\ (b = v \/ Lower(b, v))
          BY <2>3, <2>4, <2>6
        <4> QED
          BY <2>4, <4>1, VersionOrder
      <3>2. CASE b = v
        <4>1. dir'[a] = g
          BY <1>3, <2>3, <3>2
        <4> QED
          BY <2>8, <3>2, <4>1
      <3>3. CASE b # v
        <4>1. a \in DOMAIN dir /\ b \in DOMAIN dir /\ dir[a] = dir'[a] /\ dir[b] = dir'[b]
          BY <2>3, <3>1, <3>3
        <4>2. PICK u \in DOMAIN dir : Lower(a, u) /\ Lower(u, b) /\ dir[u] # dir[a]
          BY <4>1 DEF DirInv, GeneratesOnChange
        <4>3. u # v
          BY <2>4, <2>6, <3>3, <4>1, <4>2, VersionOrder
        <4> QED
          BY <2>3, <4>1, <4>2, <4>3
      <3> QED
        BY <3>2, <3>3
    <2> QED
      BY <2>5, <2>9, <2>10 DEF DirInv
  <1> QED
    BY <1>1, <1>4, <1>5 DEF Migrate, BuildSchemaDump

LEMMA DirKeeps == MigrationSpec => []DirInv
  <1>1. DirInv /\ [MigrationNext]_migrationVars => DirInv'
    <2> SUFFICES ASSUME DirInv, [MigrationNext]_migrationVars PROVE DirInv'
      OBVIOUS
    <2>1. CASE Clock \/ EditModel
      BY <2>1, TickStep DEF Clock, EditModel
    <2>2. CASE \E v \in DOMAIN dir \cup {<<second, 1>>} : WriteByHand(v)
      BY <2>2, HandStep
    <2>3. CASE \E written \in {BuildSchemaDump, Cut, Empty} : Migrate(written)
      BY <2>3, MigrateStep
    <2>4. CASE UNCHANGED devVars
      BY <2>4 DEF devVars, DirInv, DirOk, FreshFile, GeneratesOnChange, Generated
    <2>5. (\E h \in Hosts : RunnerStep(h) \/ Dies(h)) => UNCHANGED devVars
      BY DEF RunnerStep, Dies, RunAll, RunSqlFiles, MarkReady, EnsureSchemaMigrations, LoadApplied, Apply, RecordApplied
    <2>6. UNCHANGED migrationVars => UNCHANGED devVars
      BY DEF migrationVars
    <2> QED
      BY <2>1, <2>2, <2>3, <2>4, <2>5, <2>6 DEF MigrationNext, Developer
  <1> QED
    BY <1>1, DirStart, PTL DEF MigrationSpec

\* `congelado migrate` never writes the schema that is already the newest file,
\* however hand-written files, failed writes and model edits interleave with it:
\* no two neighbours in the directory are the same generated schema.
THEOREM MigrateWritesChanges == MigrationSpec => []GeneratesOnChange
  <1>1. DirInv => GeneratesOnChange
    BY DEF DirInv
  <1> QED
    BY <1>1, DirKeeps, PTL

-----------------------------------------------------------------------------
(* The runner. *)

LEMMA TimesNat == LedgerOk => \A v : Times(v) \in Nat
  BY DEF LedgerOk, Times

LEMMA DownOk == PassOk(Down) /\ PassOk([Down EXCEPT !.at = "ensure"])
  <1>1. IsPass(Down) /\ Down.at = "down" /\ Down.todo = {}
    BY DEF Down, IsPass, Stages
  <1>2. PICK q : q = [Down EXCEPT !.at = "ensure"]
    OBVIOUS
  <1>3. IsPass(q) /\ q.at = "ensure" /\ q.todo = {}
    BY <1>2 DEF Down, IsPass, Stages
  <1>4. PassOk(Down)
    BY <1>1 DEF PassOk, Busy, InBaselines, InFiles
  <1>5. PassOk(q)
    BY <1>3 DEF PassOk, Busy, InBaselines, InFiles
  <1> QED
    BY <1>2, <1>4, <1>5

\* The ledger and the database only ever gain.
LedgerGrows ==
    /\ \A v \in DOMAIN recorded : v \in DOMAIN recorded' /\ recorded'[v] = recorded[v]
    /\ \A v : Times(v) >= 1 => Times(v)' >= 1

LEMMA PassStays ==
  ASSUME LedgerGrows, NEW p, PassOk(p)
  PROVE  PassOk(p)'
  <1>1. Busy(p) => \A job \in NextOf(p.todo) : Times(job.v)' >= 1
    BY DEF PassOk, LedgerGrows
  <1>2. HasBaselines => HasBaselines'
    BY DEF HasBaselines, LedgerGrows
  <1>3. \A f : Recorded(f) => Recorded(f)'
    BY DEF Recorded, LedgerGrows
  <1>4. InBaselines(p) =>
          /\ \A v \in DOMAIN p.applied : v \in DOMAIN recorded' /\ recorded'[v] = p.applied[v]
          /\ \A i \in 1..Baselines : <<0, i>> \in DOMAIN recorded' \/ \E b \in p.todo : b.v = <<0, i>>
          /\ \A b \in p.todo : b.v[1] = 0
    BY DEF PassOk, LedgerGrows
  <1> QED
    BY <1>1, <1>2, <1>3, <1>4 DEF PassOk

\* While one pass is under way the counts are about that one.
NumOk(p, v) ==
    /\ Times(v) <= 1 + faults
    /\ (v \in DOMAIN recorded /\ ~Left(p, v)) \/ Held(p, v) \/ Times(v) <= faults

LEMMA Sole ==
  ASSUME NEW P, NEW h \in Hosts, NEW v, \A g \in Hosts : g # h => ~Active(P[g])
  PROVE  /\ (\A g \in Hosts : ~Left(P[g], v)) <=> ~Left(P[h], v)
         /\ (\E g \in Hosts : Held(P[g], v)) <=> Held(P[h], v)
  <1>1. \A g \in Hosts : g # h => ~Left(P[g], v) /\ ~Held(P[g], v)
    BY DEF Active, Left, Held, InBaselines, InFiles, Busy
  <1> QED
    BY <1>1

LEMMA StepKeeps ==
  ASSUME MigrationInv, NEW h \in Hosts, NEW q, pass' = [pass EXCEPT ![h] = q],
         LedgerOk', PassOk(q)', LedgerGrows,
         apart' => apart /\ \A g \in Hosts : g # h => ~Active(pass[g]),
         apart' => \A v : NumOk(pass[h], v) => NumOk(q, v)'
  PROVE  MigrationInv'
  <1>1. LedgerOk /\ PassesOk /\ CountsOk
    BY DEF MigrationInv
  <1>2. DOMAIN pass' = Hosts /\ pass'[h] = q /\ \A g \in Hosts : g # h => pass'[g] = pass[g]
    BY <1>1 DEF PassesOk
  <1>3. PassesOk'
    <2>1. ASSUME NEW g \in Hosts, g # h PROVE PassOk(pass[g])'
      <3>1. PICK p : p = pass[g]
        OBVIOUS
      <3>2. PassOk(p)'
        BY <1>1, <3>1, PassStays DEF PassesOk
      <3> QED
        BY <1>2, <2>1, <3>1, <3>2
    <2>2. PassOk(pass[h])'
      BY <1>2
    <2> QED
      BY <1>2, <2>1, <2>2 DEF PassesOk
  <1>4. ASSUME apart' PROVE Alone' /\ \A v \in DOMAIN ran' : CountOk(v)'
    <2>1. PICK P : P = pass
      OBVIOUS
    <2>2. PICK Q : Q = pass'
      OBVIOUS
    <2>3. /\ \A g \in Hosts : g # h => ~Active(P[g]) /\ Q[g] = P[g] /\ ~Active(Q[g])
          /\ Q[h] = q
      BY <1>2, <1>4, <2>1, <2>2
    <2>4. Alone'
      BY <2>2, <2>3 DEF Alone
    <2>5. ASSUME NEW v \in DOMAIN ran' PROVE CountOk(v)'
      <3>1. NumOk(P[h], v)
        <4>1. CASE v \in DOMAIN ran
          <5>1. CountOk(v)
            BY <1>1, <1>4, <4>1 DEF CountsOk
          <5>2. /\ (\A g \in Hosts : ~Left(P[g], v)) <=> ~Left(P[h], v)
                /\ (\E g \in Hosts : Held(P[g], v)) <=> Held(P[h], v)
            BY <2>3, Sole
          <5> QED
            BY <2>1, <5>1, <5>2 DEF CountOk, NumOk
        <4>2. CASE v \notin DOMAIN ran
          <5>1. Times(v) = 0 /\ faults \in Nat
            BY <1>1, <4>2 DEF Times, LedgerOk
          <5> QED
            BY <5>1 DEF NumOk
        <4> QED
          BY <4>1, <4>2
      <3>2. NumOk(q, v)'
        BY <1>4, <2>1, <3>1
      <3>3. /\ (\A g \in Hosts : ~Left(Q[g], v)) <=> ~Left(Q[h], v)
            /\ (\E g \in Hosts : Held(Q[g], v)) <=> Held(Q[h], v)
        BY <2>3, Sole
      <3> QED
        BY <2>2, <2>3, <3>2, <3>3 DEF CountOk, NumOk
    <2> QED
      BY <2>4, <2>5
  <1> QED
    BY <1>3, <1>4 DEF MigrationInv, CountsOk

\* Nothing changes in the database.
LEMMA SameLedger ==
  ASSUME LedgerOk, UNCHANGED <<recorded, ran>>, faults' \in Nat, apart' \in BOOLEAN
  PROVE  LedgerOk' /\ LedgerGrows /\ \A v : Times(v)' = Times(v) /\ Times(v) \in Nat
  <1>1. \A v : Times(v)' = Times(v)
    BY DEF Times
  <1> QED
    BY <1>1, TimesNat DEF LedgerOk, LedgerGrows

\* A pass that is under way is the only one, as long as none have overlapped.
LEMMA OnlyOne ==
  ASSUME MigrationInv, NEW h \in Hosts, Active(pass[h]), apart
  PROVE  \A g \in Hosts : g # h => ~Active(pass[g])
  BY DEF MigrationInv, CountsOk, Alone

\* A pass that ends without an answer to its last call, or that had none out.
LEMMA AbortStep ==
  ASSUME MigrationInv, NEW h \in Hosts, Active(pass[h]), pass' = [pass EXCEPT ![h] = Down],
         UNCHANGED <<recorded, ran, apart>>,
         (faults' = faults /\ ~Busy(pass[h])) \/ faults' = faults + 1
  PROVE  MigrationInv'
  <1>1. LedgerOk /\ faults \in Nat /\ apart \in BOOLEAN
    BY DEF MigrationInv, LedgerOk
  <1>2. faults' \in Nat
    BY <1>1
  <1>3. LedgerOk' /\ LedgerGrows /\ \A v : Times(v)' = Times(v) /\ Times(v) \in Nat
    BY <1>1, <1>2, SameLedger
  <1>4. PassOk(Down)'
    BY <1>3, DownOk, PassStays
  <1>5. apart => \A g \in Hosts : g # h => ~Active(pass[g])
    BY OnlyOne
  <1>6. ASSUME NEW v, NumOk(pass[h], v) PROVE NumOk(Down, v)'
    <2>1. ~Left(Down, v)
      BY DEF Left, Down, InBaselines, InFiles
    <2>2. CASE faults' = faults + 1
      <3>1. Times(v) <= 1 + faults
        BY <1>6 DEF NumOk
      <3>2. Times(v)' <= faults'
        BY <1>1, <1>3, <2>2, <3>1
      <3>3. Times(v)' <= 1 + faults'
        BY <1>2, <1>3, <3>2
      <3> QED
        BY <3>2, <3>3 DEF NumOk
    <2>3. CASE faults' = faults /\ ~Busy(pass[h])
      <3>1. ~Held(pass[h], v)
        BY <2>3 DEF Held
      <3>2. Times(v) <= 1 + faults /\ (v \in DOMAIN recorded \/ Times(v) <= faults)
        BY <1>6, <3>1 DEF NumOk
      <3> QED
        BY <1>3, <2>1, <2>3, <3>2 DEF NumOk
    <2> QED
      BY <2>2, <2>3
  <1>7. apart' => \A v : NumOk(pass[h], v) => NumOk(Down, v)'
    BY <1>6
  <1>8. PICK q : q = Down
    OBVIOUS
  <1> QED
    BY <1>3, <1>4, <1>5, <1>7, <1>8, StepKeeps

\* A step that touches neither the ledger nor the database.
LEMMA QuietStep ==
  ASSUME MigrationInv, NEW h \in Hosts, NEW q, pass' = [pass EXCEPT ![h] = q],
         UNCHANGED <<recorded, ran>>, faults' = faults \/ faults' = faults + 1, apart' \in BOOLEAN,
         apart' => apart /\ \A g \in Hosts : g # h => ~Active(pass[g]),
         PassOk(q), ~Busy(pass[h]),
         \A v : Left(q, v) => Left(pass[h], v) \/ v \notin DOMAIN recorded \/ faults' = faults + 1
  PROVE  MigrationInv'
  <1>1. LedgerOk /\ faults \in Nat
    BY DEF MigrationInv, LedgerOk
  <1>2. faults' \in Nat
    BY <1>1
  <1>3. LedgerOk' /\ LedgerGrows /\ \A v : Times(v)' = Times(v) /\ Times(v) \in Nat
    BY <1>1, <1>2, SameLedger
  <1>4. PassOk(q)'
    BY <1>3, PassStays
  <1>5. ASSUME NEW v, NumOk(pass[h], v) PROVE NumOk(q, v)'
    <2>1. ~Held(pass[h], v)
      BY DEF Held
    <2>2. Times(v) <= 1 + faults /\ ((v \in DOMAIN recorded /\ ~Left(pass[h], v)) \/ Times(v) <= faults)
      BY <1>5, <2>1 DEF NumOk
    <2>3. CASE faults' = faults + 1
      <3>1. Times(v)' <= faults'
        BY <1>1, <1>3, <2>2, <2>3
      <3>2. Times(v)' <= 1 + faults'
        BY <1>2, <1>3, <3>1
      <3> QED
        BY <3>1, <3>2 DEF NumOk
    <2>4. CASE faults' = faults /\ faults' # faults + 1
      BY <1>3, <2>2, <2>4 DEF NumOk
    <2> QED
      BY <1>1, <2>3, <2>4
  <1>6. apart' => \A v : NumOk(pass[h], v) => NumOk(q, v)'
    BY <1>5
  <1> QED
    BY <1>3, <1>4, <1>6, StepKeeps

\* The fields of a pass, one of them replaced.
LEMMA PassOne ==
  ASSUME NEW a, NEW s, NEW t, NEW w, NEW x, NEW p, p = [at |-> a, applied |-> s, todo |-> t, saw |-> w]
  PROVE  /\ [p EXCEPT !.at = x] = [at |-> x, applied |-> s, todo |-> t, saw |-> w]
         /\ [p EXCEPT !.applied = x] = [at |-> a, applied |-> x, todo |-> t, saw |-> w]
         /\ [p EXCEPT !.todo = x] = [at |-> a, applied |-> s, todo |-> x, saw |-> w]
         /\ [p EXCEPT !.saw = x] = [at |-> a, applied |-> s, todo |-> t, saw |-> x]
  OBVIOUS

LEMMA PassAt ==
  ASSUME NEW p, IsPass(p), NEW a
  PROVE  [p EXCEPT !.at = a] = [at |-> a, applied |-> p.applied, todo |-> p.todo, saw |-> p.saw]
  BY PassOne DEF IsPass

LEMMA PassRecorded ==
  ASSUME NEW p, IsPass(p), NEW a, NEW t
  PROVE  [p EXCEPT !.at = a, !.todo = t] = [at |-> a, applied |-> p.applied, todo |-> t, saw |-> p.saw]
  <1>1. PICK q : q = [p EXCEPT !.at = a]
    OBVIOUS
  <1>2. q = [at |-> a, applied |-> p.applied, todo |-> p.todo, saw |-> p.saw]
    BY <1>1, PassAt
  <1>3. [q EXCEPT !.todo = t] = [at |-> a, applied |-> p.applied, todo |-> t, saw |-> p.saw]
    BY <1>2, PassOne
  <1>4. [p EXCEPT !.at = a, !.todo = t] = [q EXCEPT !.todo = t]
    BY <1>1
  <1> QED
    BY <1>3, <1>4

LEMMA PassLoaded ==
  ASSUME NEW p, IsPass(p), NEW a, NEW s, NEW t
  PROVE  [p EXCEPT !.at = a, !.applied = s, !.todo = t] = [at |-> a, applied |-> s, todo |-> t, saw |-> p.saw]
  <1>1. PICK q : q = [p EXCEPT !.at = a]
    OBVIOUS
  <1>2. q = [at |-> a, applied |-> p.applied, todo |-> p.todo, saw |-> p.saw]
    BY <1>1, PassAt
  <1>3. PICK r : r = [q EXCEPT !.applied = s]
    OBVIOUS
  <1>4. r = [at |-> a, applied |-> s, todo |-> p.todo, saw |-> p.saw]
    BY <1>2, <1>3, PassOne
  <1>5. [r EXCEPT !.todo = t] = [at |-> a, applied |-> s, todo |-> t, saw |-> p.saw]
    BY <1>4, PassOne
  <1>6. [p EXCEPT !.at = a, !.applied = s, !.todo = t] = [r EXCEPT !.todo = t]
    BY <1>1, <1>3
  <1> QED
    BY <1>5, <1>6

LEMMA PassScanned ==
  ASSUME NEW p, IsPass(p), NEW t, NEW w
  PROVE  [p EXCEPT !.at = "files", !.applied = <<>>, !.saw = w, !.todo = t] = [at |-> "files", applied |-> <<>>, todo |-> t, saw |-> w]
  <1>1. PICK q : q = [p EXCEPT !.at = "files"]
    OBVIOUS
  <1>2. q = [at |-> "files", applied |-> p.applied, todo |-> p.todo, saw |-> p.saw]
    BY <1>1, PassAt
  <1>3. PICK r : r = [q EXCEPT !.applied = <<>>]
    OBVIOUS
  <1>4. r = [at |-> "files", applied |-> <<>>, todo |-> p.todo, saw |-> p.saw]
    BY <1>2, <1>3, PassOne
  <1>5. PICK u : u = [r EXCEPT !.saw = w]
    OBVIOUS
  <1>6. u = [at |-> "files", applied |-> <<>>, todo |-> p.todo, saw |-> w]
    BY <1>4, <1>5, PassOne
  <1>7. [u EXCEPT !.todo = t] = [at |-> "files", applied |-> <<>>, todo |-> t, saw |-> w]
    BY <1>6, PassOne
  <1>8. [p EXCEPT !.at = "files", !.applied = <<>>, !.saw = w, !.todo = t] = [u EXCEPT !.todo = t]
    BY <1>1, <1>3, <1>5
  <1> QED
    BY <1>7, <1>8

LEMMA IsPassMade ==
  ASSUME NEW a \in Stages, NEW s, NEW t, NEW w, NEW q, q = [at |-> a, applied |-> s, todo |-> t, saw |-> w]
  PROVE  IsPass(q) /\ q.at = a /\ q.applied = s /\ q.todo = t /\ q.saw = w
  BY DEF IsPass

LEMMA RunAllStep ==
  ASSUME MigrationInv, NEW h \in Hosts, RunAll(h)
  PROVE  MigrationInv'
  <1>1. PICK q : q = [Down EXCEPT !.at = "ensure"]
    OBVIOUS
  <1>2. /\ pass[h].at = "down" /\ pass' = [pass EXCEPT ![h] = q] /\ UNCHANGED <<recorded, ran, faults>>
        /\ apart' = (apart /\ \A g \in Hosts : pass[g].at \in {"down", "ready"})
    BY <1>1 DEF RunAll, Goes, dbVars
  <1>3. apart' \in BOOLEAN /\ (apart' => apart /\ \A g \in Hosts : g # h => ~Active(pass[g]))
    BY <1>2 DEF Active
  <1>4. q.at = "ensure"
    BY <1>1 DEF Down
  <1>5. PassOk(q) /\ ~Busy(pass[h]) /\ \A v : ~Left(q, v)
    BY <1>1, <1>2, <1>4, DownOk DEF Busy, Left, InBaselines, InFiles
  <1> QED
    BY <1>2, <1>3, <1>5, QuietStep

LEMMA EnsureStep ==
  ASSUME MigrationInv, NEW h \in Hosts, NEW good \in BOOLEAN, EnsureSchemaMigrations(h, good)
  PROVE  MigrationInv'
  <1>1. pass[h].at = "ensure" /\ UNCHANGED <<recorded, ran, apart>>
    BY DEF EnsureSchemaMigrations, dbVars
  <1>2. Active(pass[h]) /\ ~Busy(pass[h]) /\ PassOk(pass[h]) /\ apart \in BOOLEAN
    BY <1>1 DEF Active, Busy, MigrationInv, PassesOk, LedgerOk
  <1>3. CASE good
    <2>1. PICK p : p = pass[h]
      OBVIOUS
    <2>2. PICK q : q = [p EXCEPT !.at = "load"]
      OBVIOUS
    <2>3. pass' = [pass EXCEPT ![h] = q] /\ faults' = faults
      BY <1>3, <2>1, <2>2 DEF EnsureSchemaMigrations, Goes
    <2>4. IsPass(q) /\ q.at = "load" /\ q.todo = p.todo
      <3>1. IsPass(p)
        BY <1>2, <2>1 DEF PassOk
      <3>2. q = [at |-> "load", applied |-> p.applied, todo |-> p.todo, saw |-> p.saw]
        BY <2>2, <3>1, PassAt
      <3>3. "load" \in Stages
        BY DEF Stages
      <3> QED
        BY <3>2, <3>3, IsPassMade
    <2>5. PassOk(q) /\ \A v : ~Left(q, v)
      BY <1>2, <2>1, <2>4 DEF PassOk, Busy, InBaselines, InFiles, Left
    <2> QED
      BY <1>1, <1>2, <2>3, <2>5, QuietStep, OnlyOne
  <1>4. CASE ~good
    BY <1>1, <1>2, <1>4, AbortStep DEF EnsureSchemaMigrations, Aborts, Goes, Fault
  <1> QED
    BY <1>3, <1>4

\* load_applied(): with the ledger unread everything is before the pass again,
\* and the fault that left it unread pays for that.
LEMMA LoadStep ==
  ASSUME MigrationInv, NEW h \in Hosts, NEW good \in BOOLEAN, LoadApplied(h, good)
  PROVE  MigrationInv'
  <1>1. pass[h].at = "load" /\ UNCHANGED <<recorded, ran, apart>>
    BY DEF LoadApplied, dbVars
  <1>2. Active(pass[h]) /\ ~Busy(pass[h]) /\ PassOk(pass[h]) /\ apart \in BOOLEAN
    BY <1>1 DEF Active, Busy, MigrationInv, PassesOk, LedgerOk
  <1>3. PICK p : p = pass[h]
    OBVIOUS
  <1>4. PICK s : s = IF good THEN recorded ELSE <<>>
    OBVIOUS
  <1>5. PICK t : t = {b \in BaselineVersions : b.v \notin DOMAIN s}
    OBVIOUS
  <1>6. PICK q : q = [p EXCEPT !.at = "baselines", !.applied = s, !.todo = t]
    OBVIOUS
  <1>7. pass' = [pass EXCEPT ![h] = q]
    BY <1>3, <1>4, <1>5, <1>6 DEF LoadApplied, Goes
  <1>8. IsPass(q) /\ q.at = "baselines" /\ q.applied = s /\ q.todo = t
    <2>1. IsPass(p)
      BY <1>2, <1>3 DEF PassOk
    <2>2. q = [at |-> "baselines", applied |-> s, todo |-> t, saw |-> p.saw]
      BY <1>6, <2>1, PassLoaded
    <2>3. "baselines" \in Stages
      BY DEF Stages
    <2> QED
      BY <2>2, <2>3, IsPassMade
  <1>9. /\ \A v \in DOMAIN s : v \in DOMAIN recorded /\ recorded[v] = s[v]
        /\ good => s = recorded
        /\ ~good => faults' = faults + 1
        /\ good => faults' = faults
    BY <1>4 DEF LoadApplied, Fault
  <1>10. /\ \A b \in BaselineVersions : b.v \in Versions /\ b.v[1] = 0 /\ b = [v |-> b.v, body |-> NoChecksum]
         /\ \A i \in 1..Baselines : \E b \in BaselineVersions : b.v = <<0, i>>
    <2>1. ASSUME NEW b \in BaselineVersions
          PROVE  b.v \in Versions /\ b.v[1] = 0 /\ b = [v |-> b.v, body |-> NoChecksum]
      <3>1. PICK i \in 1..Baselines : b = [v |-> <<0, i>>, body |-> NoChecksum]
        BY DEF BaselineVersions
      <3>2. b.v = <<0, i>> /\ i \in Nat
        BY <3>1, MigrationAssumption
      <3> QED
        BY <3>1, <3>2 DEF Versions
    <2>2. \A i \in 1..Baselines : [v |-> <<0, i>>, body |-> NoChecksum] \in BaselineVersions
      BY DEF BaselineVersions
    <2> QED
      BY <2>1, <2>2
  <1>11. PassOk(q)
    <2>1. \A f \in t : f.v \in Versions /\ f.v[1] = 0 /\ f \in BaselineVersions
      BY <1>5, <1>10
    <2>2. \A f, g \in t : f.v = g.v => f = g
      BY <1>10, <2>1
    <2>3. \A i \in 1..Baselines : <<0, i>> \in DOMAIN recorded \/ \E b \in t : b.v = <<0, i>>
      BY <1>5, <1>9, <1>10
    <2>4. ~Busy(q) /\ ~InFiles(q) /\ q.at # "ready"
      BY <1>8 DEF Busy, InFiles
    <2> QED
      BY <1>8, <1>9, <2>1, <2>2, <2>3, <2>4 DEF PassOk
  <1>12. ASSUME NEW v, Left(q, v) PROVE v \notin DOMAIN recorded \/ faults' = faults + 1
    <2>1. v \notin DOMAIN s
      BY <1>5, <1>8, <1>12 DEF Left
    <2> QED
      BY <1>9, <2>1
  <1> QED
    BY <1>1, <1>2, <1>7, <1>9, <1>11, <1>12, QuietStep, OnlyOne

\* run_sql_files(): what the ledger read by this pass does not have is left to
\* run; what it has is as it was applied, or the pass ends here.
LEMMA FilesStep ==
  ASSUME MigrationInv, DirInv, NEW h \in Hosts, RunSqlFiles(h)
  PROVE  MigrationInv'
  <1>1. pass[h].at = "baselines" /\ pass[h].todo = {} /\ UNCHANGED <<recorded, ran, apart, faults>>
    BY DEF RunSqlFiles, dbVars
  <1>2. Active(pass[h]) /\ ~Busy(pass[h]) /\ PassOk(pass[h]) /\ apart \in BOOLEAN /\ LedgerOk
    BY <1>1 DEF Active, Busy, MigrationInv, PassesOk, LedgerOk
  <1>3. PICK p : p = pass[h]
    OBVIOUS
  <1>4. PICK files : files = ScanMigrations(dir)
    OBVIOUS
  <1>5. CASE \E f \in files : f.v \in DOMAIN p.applied /\ p.applied[f.v] \notin {NoChecksum, f.body}
    <2>1. pass' = [pass EXCEPT ![h] = Down]
      BY <1>3, <1>4, <1>5 DEF RunSqlFiles, Aborts, Goes
    <2> QED
      BY <1>1, <1>2, <2>1, AbortStep
  <1>6. CASE ~\E f \in files : f.v \in DOMAIN p.applied /\ p.applied[f.v] \notin {NoChecksum, f.body}
    <2>1. PICK t : t = {f \in files : f.v \notin DOMAIN p.applied}
      OBVIOUS
    <2>2. PICK q : q = [p EXCEPT !.at = "files", !.applied = <<>>, !.saw = files, !.todo = t]
      OBVIOUS
    <2>3. pass' = [pass EXCEPT ![h] = q]
      BY <1>3, <1>4, <1>6, <2>1, <2>2 DEF RunSqlFiles, Goes
    <2>4. IsPass(q) /\ q.at = "files" /\ q.todo = t /\ q.saw = files
      <3>1. IsPass(p)
        BY <1>2, <1>3 DEF PassOk
      <3>2. q = [at |-> "files", applied |-> <<>>, todo |-> t, saw |-> files]
        BY <2>2, <3>1, PassScanned
      <3>3. "files" \in Stages
        BY DEF Stages
      <3> QED
        BY <3>2, <3>3, IsPassMade
    <2>5. ASSUME NEW f \in files
          PROVE  /\ f.v \in Versions /\ f.v[1] # 0 /\ f.body # NoChecksum
                 /\ f = [v |-> f.v, body |-> dir[f.v]]
      <3>1. PICK v \in DOMAIN dir : f = [v |-> v, body |-> dir[v]]
        BY <1>4 DEF ScanMigrations
      <3>2. f.v = v /\ f.body = dir[v]
        BY <3>1
      <3>3. v \in Versions /\ v[1] >= 1 /\ dir[v] # NoChecksum
        BY DEF DirInv, DirOk
      <3>4. v[1] # 0
        BY <3>3
      <3> QED
        BY <3>1, <3>2, <3>3, <3>4
    <2>6. ASSUME NEW f \in files, f \notin t PROVE Recorded(f)
      <3>1. f.v \in DOMAIN p.applied /\ p.applied[f.v] \in {NoChecksum, f.body}
        BY <1>6, <2>1, <2>6
      <3>2. f.v \in DOMAIN recorded /\ recorded[f.v] = p.applied[f.v]
        BY <1>1, <1>2, <1>3, <3>1 DEF PassOk, InBaselines
      <3>3. recorded[f.v] # NoChecksum
        BY <1>2, <2>5, <3>2 DEF LedgerOk
      <3> QED
        BY <3>1, <3>2, <3>3 DEF Recorded
    <2>7. HasBaselines
      <3>1. InBaselines(p) /\ p.todo = {} /\ PassOk(p)
        BY <1>1, <1>2, <1>3 DEF InBaselines
      <3> QED
        BY <3>1 DEF PassOk, HasBaselines
    <2>8. PassOk(q)
      <3>1. \A f \in t : f \in files
        BY <2>1
      <3>2. \A f, g \in t : f.v = g.v => f = g
        BY <2>5, <3>1
      <3>3. ~Busy(q) /\ ~InBaselines(q) /\ q.at # "ready"
        BY <2>4 DEF Busy, InBaselines
      <3> QED
        BY <2>4, <2>5, <2>6, <2>7, <3>1, <3>2, <3>3 DEF PassOk
    <2>9. ASSUME NEW v, Left(q, v) PROVE Left(pass[h], v)
      <3>1. PICK f \in t : f.v = v
        BY <2>4, <2>9 DEF Left, InBaselines
      <3>2. v \notin DOMAIN p.applied /\ v[1] # 0
        BY <2>1, <2>5, <3>1
      <3> QED
        BY <1>1, <1>3, <3>2 DEF Left, InBaselines
    <2> QED
      BY <1>1, <1>2, <2>3, <2>8, <2>9, QuietStep, OnlyOne
  <1> QED
    BY <1>5, <1>6

LEMMA ReadyStep ==
  ASSUME MigrationInv, NEW h \in Hosts, MarkReady(h)
  PROVE  MigrationInv'
  <1>1. pass[h].at = "files" /\ pass[h].todo = {} /\ UNCHANGED <<recorded, ran, apart, faults>>
    BY DEF MarkReady, dbVars
  <1>2. Active(pass[h]) /\ ~Busy(pass[h]) /\ PassOk(pass[h]) /\ apart \in BOOLEAN
    BY <1>1 DEF Active, Busy, MigrationInv, PassesOk, LedgerOk
  <1>3. PICK p : p = pass[h]
    OBVIOUS
  <1>4. PICK q : q = [p EXCEPT !.at = "ready"]
    OBVIOUS
  <1>5. pass' = [pass EXCEPT ![h] = q]
    BY <1>3, <1>4 DEF MarkReady, Goes
  <1>6. IsPass(q) /\ q.at = "ready" /\ q.todo = {} /\ q.saw = p.saw
    <2>1. IsPass(p) /\ p.todo = {}
      BY <1>1, <1>2, <1>3 DEF PassOk
    <2>2. q = [at |-> "ready", applied |-> p.applied, todo |-> p.todo, saw |-> p.saw]
      BY <1>4, <2>1, PassAt
    <2>3. "ready" \in Stages
      BY DEF Stages
    <2> QED
      BY <2>1, <2>2, <2>3, IsPassMade
  <1>7. HasBaselines /\ \A f \in p.saw : Recorded(f)
    BY <1>1, <1>2, <1>3 DEF PassOk, InFiles
  <1>8. PassOk(q) /\ \A v : ~Left(q, v)
    BY <1>6, <1>7 DEF PassOk, Busy, InBaselines, InFiles, Left
  <1> QED
    BY <1>1, <1>2, <1>5, <1>8, QuietStep, OnlyOne

\* The loop is at one job.
LEMMA NextUnique ==
  ASSUME NEW T, \A f \in T : f.v \in Versions, NEW j \in NextOf(T), NEW k \in NextOf(T)
  PROVE  j = k
  BY VersionOrder DEF NextOf

\* One more run of one migration.
LEMMA Executed ==
  ASSUME LedgerOk, NEW job, Executes(job), faults' \in Nat, apart' \in BOOLEAN
  PROVE  /\ LedgerOk' /\ LedgerGrows
         /\ \A v : Times(v) \in Nat
         /\ Times(job.v)' = Times(job.v) + 1
         /\ \A v : v # job.v => Times(v)' = Times(v)
  <1>1. PICK v : v = job.v
    OBVIOUS
  <1>2. PICK n : n = Times(v)
    OBVIOUS
  <1>3. n \in Nat /\ \A w : Times(w) \in Nat
    BY <1>2, TimesNat
  <1>4. /\ DOMAIN ran' = DOMAIN ran \cup {v} /\ ran'[v] = n + 1
        /\ \A w \in DOMAIN ran : w # v => ran'[w] = ran[w]
        /\ recorded' = recorded
    BY <1>1, <1>2 DEF Executes, Set
  <1>5. Times(v)' = n + 1
    BY <1>4 DEF Times
  <1>6. \A w : w # v => Times(w)' = Times(w)
    BY <1>4 DEF Times
  <1>7. \A w : Times(w) >= 1 => Times(w)' >= 1
    BY <1>2, <1>3, <1>5, <1>6
  <1>8. LedgerGrows
    BY <1>4, <1>7 DEF LedgerGrows
  <1>9. \A w \in DOMAIN ran' : ran'[w] \in Nat
    BY <1>3, <1>4 DEF LedgerOk
  <1>10. LedgerOk'
    BY <1>4, <1>7, <1>9 DEF LedgerOk
  <1> QED
    BY <1>1, <1>2, <1>3, <1>5, <1>6, <1>8, <1>10

\* Where a pass may run a migration, and which one.
LEMMA AtAJob ==
  ASSUME MigrationInv, NEW h \in Hosts, pass[h].at \in {"baselines", "files"}, NEW job \in NextOf(pass[h].todo)
  PROVE  /\ PassOk(pass[h]) /\ Active(pass[h]) /\ ~Busy(pass[h]) /\ Left(pass[h], job.v)
         /\ LedgerOk /\ faults \in Nat /\ apart \in BOOLEAN /\ job \in pass[h].todo
  <1>1. job \in pass[h].todo
    BY DEF NextOf
  <1> QED
    BY <1>1 DEF MigrationInv, PassesOk, LedgerOk, Active, Busy, Left, InBaselines, InFiles

\* The migration is carried out and the pass goes on to record it.
LEMMA ApplyGoesOn ==
  ASSUME MigrationInv, NEW h \in Hosts, pass[h].at \in {"baselines", "files"}, NEW job \in NextOf(pass[h].todo),
         Executes(job), Goes(h, [pass[h] EXCEPT !.at = Recording(@)]), UNCHANGED <<faults, apart>>
  PROVE  MigrationInv'
  <1>1. /\ PassOk(pass[h]) /\ Active(pass[h]) /\ ~Busy(pass[h]) /\ Left(pass[h], job.v)
        /\ LedgerOk /\ faults \in Nat /\ apart \in BOOLEAN /\ job \in pass[h].todo
    BY AtAJob
  <1>2. PICK p : p = pass[h]
    OBVIOUS
  <1>3. PICK v : v = job.v
    OBVIOUS
  <1>4. PICK q : q = [p EXCEPT !.at = Recording(p.at)]
    OBVIOUS
  <1>5. pass' = [pass EXCEPT ![h] = q] /\ recorded' = recorded
    BY <1>2, <1>4 DEF Goes, Executes
  <1>6. /\ IsPass(q) /\ q.at = Recording(p.at) /\ q.applied = p.applied /\ q.todo = p.todo /\ q.saw = p.saw
        /\ (InBaselines(q) <=> InBaselines(p)) /\ (InFiles(q) <=> InFiles(p)) /\ Busy(q) /\ q.at # "ready"
    <2>1. IsPass(p) /\ Recording(p.at) \in Stages
      BY <1>1, <1>2 DEF PassOk, Recording, Stages
    <2>2. q = [at |-> Recording(p.at), applied |-> p.applied, todo |-> p.todo, saw |-> p.saw]
      BY <1>4, <2>1, PassAt
    <2>3. IsPass(q) /\ q.at = Recording(p.at) /\ q.applied = p.applied /\ q.todo = p.todo /\ q.saw = p.saw
      BY <2>1, <2>2, IsPassMade
    <2>4. (p.at = "files" /\ q.at = "files record") \/ (p.at = "baselines" /\ q.at = "baselines record")
      BY <1>2, <2>3 DEF Recording
    <2> QED
      BY <2>3, <2>4 DEF InBaselines, InFiles, Busy
  <1>7. /\ LedgerOk' /\ LedgerGrows /\ \A w : Times(w) \in Nat
        /\ Times(v)' = Times(v) + 1 /\ \A w : w # v => Times(w)' = Times(w)
    BY <1>1, <1>3, Executed
  <1>8. PassOk(q)'
    <2>1. PassOk(p)' /\ PassOk(p)
      BY <1>1, <1>2, <1>7, PassStays
    <2>2. \A j \in NextOf(q.todo) : Times(j.v)' >= 1
      <3>1. ASSUME NEW j \in NextOf(q.todo) PROVE j.v = v
        <4>1. \A f \in q.todo : f.v \in Versions
          BY <1>6, <2>1 DEF PassOk
        <4>2. j = job
          BY <1>2, <1>6, <4>1, NextUnique
        <4> QED
          BY <1>3, <4>2
      <3>2. Times(v)' >= 1
        BY <1>7
      <3> QED
        BY <3>1, <3>2
    <2> QED
      BY <1>6, <2>1, <2>2 DEF PassOk
  <1>9. ASSUME NEW w, NumOk(p, w) PROVE NumOk(q, w)'
    <2>1. ~Held(p, w)
      BY <1>1, <1>2 DEF Held
    <2>2. (Left(q, w) <=> Left(p, w))
      BY <1>6 DEF Left
    <2>3. Times(w) <= 1 + faults /\ ((w \in DOMAIN recorded /\ ~Left(p, w)) \/ Times(w) <= faults)
      BY <1>9, <2>1 DEF NumOk
    <2>4. CASE w = v
      <3>1. Left(p, v)
        BY <1>1, <1>2, <1>3
      <3>2. Times(v) <= faults
        BY <2>3, <2>4, <3>1
      <3>3. Times(v)' <= 1 + faults'
        BY <1>1, <1>7, <3>2
      <3>4. Held(q, v)
        BY <1>2, <1>3, <1>6 DEF Held
      <3> QED
        BY <2>4, <3>3, <3>4 DEF NumOk
    <2>5. CASE w # v
      BY <1>5, <1>7, <2>2, <2>3, <2>5 DEF NumOk
    <2> QED
      BY <2>4, <2>5
  <1>10. apart' => apart /\ \A g \in Hosts : g # h => ~Active(pass[g])
    BY <1>1, OnlyOne
  <1>11. apart' => \A w : NumOk(pass[h], w) => NumOk(q, w)'
    BY <1>2, <1>9
  <1> QED
    BY <1>5, <1>7, <1>8, <1>10, <1>11, StepKeeps

\* The migration is carried out and the answer is lost.
LEMMA ApplyIsLost ==
  ASSUME MigrationInv, NEW h \in Hosts, pass[h].at \in {"baselines", "files"}, NEW job \in NextOf(pass[h].todo),
         Executes(job), Aborts(h), Fault, UNCHANGED apart
  PROVE  MigrationInv'
  <1>1. /\ PassOk(pass[h]) /\ Active(pass[h]) /\ ~Busy(pass[h]) /\ Left(pass[h], job.v)
        /\ LedgerOk /\ faults \in Nat /\ apart \in BOOLEAN
    BY AtAJob
  <1>2. faults' = faults + 1 /\ faults' \in Nat /\ pass' = [pass EXCEPT ![h] = Down]
    BY <1>1 DEF Fault, Aborts, Goes
  <1>3. PICK v : v = job.v
    OBVIOUS
  <1>4. /\ LedgerOk' /\ LedgerGrows /\ \A w : Times(w) \in Nat
        /\ Times(v)' = Times(v) + 1 /\ \A w : w # v => Times(w)' = Times(w)
    BY <1>1, <1>2, <1>3, Executed
  <1>5. PassOk(Down)'
    BY <1>4, DownOk, PassStays
  <1>6. ASSUME NEW w, NumOk(pass[h], w) PROVE NumOk(Down, w)'
    <2>1. ~Held(pass[h], w)
      BY <1>1 DEF Held
    <2>2. Times(w) <= 1 + faults /\ ((w \in DOMAIN recorded /\ ~Left(pass[h], w)) \/ Times(w) <= faults)
      BY <1>6, <2>1 DEF NumOk
    <2>3. Times(w)' <= faults'
      <3>1. CASE w = v
        <4>1. Times(v) <= faults
          BY <1>1, <1>3, <2>2, <3>1
        <4> QED
          BY <1>1, <1>2, <1>4, <3>1, <4>1
      <3>2. CASE w # v
        BY <1>1, <1>2, <1>4, <2>2, <3>2
      <3> QED
        BY <3>1, <3>2
    <2>4. Times(w)' \in Nat
      BY <1>4
    <2>5. Times(w)' <= 1 + faults'
      BY <1>2, <2>3, <2>4
    <2> QED
      BY <2>3, <2>5 DEF NumOk
  <1>7. apart' => apart /\ \A g \in Hosts : g # h => ~Active(pass[g])
    BY <1>1, OnlyOne
  <1>8. PICK q : q = Down
    OBVIOUS
  <1>9. apart' => \A w : NumOk(pass[h], w) => NumOk(q, w)'
    BY <1>6, <1>8
  <1> QED
    BY <1>2, <1>4, <1>5, <1>7, <1>8, <1>9, StepKeeps

LEMMA ApplyStep ==
  ASSUME MigrationInv, NEW h \in Hosts, NEW outcome \in {"ok", "refused", "lost"}, Apply(h, outcome)
  PROVE  MigrationInv'
  <1>1. PICK job \in NextOf(pass[h].todo) :
          /\ pass[h].at \in {"baselines", "files"}
          /\ CASE outcome = "ok" /\ job.body # Cut ->
                    Executes(job) /\ Goes(h, [pass[h] EXCEPT !.at = Recording(@)]) /\ UNCHANGED faults
               [] outcome = "ok" /\ job.body = Cut -> UNCHANGED <<dbVars, faults>> /\ Aborts(h)
               [] outcome = "refused" -> UNCHANGED dbVars /\ Aborts(h) /\ Fault
               [] outcome = "lost" -> job.body # Cut /\ Executes(job) /\ Aborts(h) /\ Fault
          /\ UNCHANGED <<devVars, apart>>
    BY DEF Apply
  <1>2. Active(pass[h]) /\ ~Busy(pass[h])
    BY <1>1, AtAJob
  <1>3. CASE outcome = "ok" /\ job.body # Cut
    BY <1>1, <1>3, ApplyGoesOn
  <1>4. CASE outcome = "ok" /\ job.body = Cut
    BY <1>1, <1>2, <1>4, AbortStep DEF Aborts, Goes, dbVars
  <1>5. CASE outcome = "refused"
    BY <1>1, <1>2, <1>5, AbortStep DEF Aborts, Goes, Fault, dbVars
  <1>6. CASE outcome = "lost"
    BY <1>1, <1>6, ApplyIsLost
  <1> QED
    BY <1>3, <1>4, <1>5, <1>6

\* Where a pass has run a migration and has it to record.
LEMMA AtARecord ==
  ASSUME MigrationInv, NEW h \in Hosts, Busy(pass[h]), NEW job \in NextOf(pass[h].todo)
  PROVE  /\ PassOk(pass[h]) /\ Active(pass[h]) /\ LedgerOk /\ faults \in Nat /\ apart \in BOOLEAN
         /\ job \in pass[h].todo /\ Times(job.v) >= 1
         /\ InBaselines(pass[h]) \/ InFiles(pass[h])
         /\ job.v[1] # 0 => job.body # NoChecksum
         /\ \A w : Held(pass[h], w) => w = job.v
  <1>1. job \in pass[h].todo
    BY DEF NextOf
  <1>2. PassOk(pass[h]) /\ Active(pass[h]) /\ LedgerOk /\ faults \in Nat /\ apart \in BOOLEAN
    BY DEF MigrationInv, PassesOk, LedgerOk, Active, Busy
  <1>3. InBaselines(pass[h]) \/ InFiles(pass[h])
    BY DEF Busy, InBaselines, InFiles
  <1>4. Times(job.v) >= 1 /\ (job.v[1] # 0 => job.body # NoChecksum)
    BY <1>1, <1>2, <1>3 DEF PassOk
  <1>5. ASSUME NEW w, Held(pass[h], w) PROVE w = job.v
    <2>1. PICK j \in NextOf(pass[h].todo) : j.v = w
      BY <1>5 DEF Held
    <2>2. \A f \in pass[h].todo : f.v \in Versions
      BY <1>2 DEF PassOk
    <2>3. PICK T : T = pass[h].todo
      OBVIOUS
    <2>4. j = job
      BY <2>2, <2>3, NextUnique
    <2> QED
      BY <2>1, <2>4
  <1> QED
    BY <1>1, <1>2, <1>3, <1>4, <1>5

\* One more entry in the ledger, of a migration that has run.
LEMMA Entered ==
  ASSUME LedgerOk, NEW job, job.v \notin DOMAIN recorded, recorded' = Set(recorded, job.v, job.body), ran' = ran,
         faults' \in Nat, apart' \in BOOLEAN, Times(job.v) >= 1, job.v[1] # 0 => job.body # NoChecksum
  PROVE  /\ LedgerOk' /\ LedgerGrows /\ Recorded(job)'
         /\ \A v : Times(v)' = Times(v) /\ Times(v) \in Nat
  <1>1. PICK v : v = job.v
    OBVIOUS
  <1>2. /\ DOMAIN recorded' = DOMAIN recorded \cup {v} /\ recorded'[v] = job.body
        /\ \A w \in DOMAIN recorded : recorded'[w] = recorded[w]
    BY <1>1 DEF Set
  <1>3. \A w : Times(w)' = Times(w)
    BY DEF Times
  <1>4. LedgerOk'
    BY <1>1, <1>2, <1>3 DEF LedgerOk
  <1>5. LedgerGrows
    BY <1>2, <1>3 DEF LedgerGrows
  <1>6. Recorded(job)'
    BY <1>1, <1>2 DEF Recorded
  <1> QED
    BY <1>3, <1>4, <1>5, <1>6, TimesNat

\* record_applied() succeeds and the loop goes on.
LEMMA RecordGoesOn ==
  ASSUME MigrationInv, NEW h \in Hosts, Busy(pass[h]), NEW job \in NextOf(pass[h].todo),
         job.v \notin DOMAIN recorded, recorded' = Set(recorded, job.v, job.body),
         Goes(h, [pass[h] EXCEPT !.at = IF @ = "files record" THEN "files" ELSE "baselines", !.todo = @ \ {job}]),
         UNCHANGED <<ran, faults, apart>>
  PROVE  MigrationInv'
  <1>1. /\ PassOk(pass[h]) /\ Active(pass[h]) /\ LedgerOk /\ faults \in Nat /\ apart \in BOOLEAN
        /\ job \in pass[h].todo /\ Times(job.v) >= 1
        /\ InBaselines(pass[h]) \/ InFiles(pass[h])
        /\ job.v[1] # 0 => job.body # NoChecksum
        /\ \A w : Held(pass[h], w) => w = job.v
    BY AtARecord
  <1>2. PICK p : p = pass[h]
    OBVIOUS
  <1>3. PICK a : a = IF p.at = "files record" THEN "files" ELSE "baselines"
    OBVIOUS
  <1>4. PICK t : t = p.todo \ {job}
    OBVIOUS
  <1>5. PICK q : q = [p EXCEPT !.at = a, !.todo = t]
    OBVIOUS
  <1>6. pass' = [pass EXCEPT ![h] = q]
    BY <1>2, <1>3, <1>4, <1>5 DEF Goes
  <1>7. /\ IsPass(q) /\ q.at = a /\ q.applied = p.applied /\ q.todo = t /\ q.saw = p.saw
        /\ (InBaselines(q) <=> InBaselines(p)) /\ (InFiles(q) <=> InFiles(p)) /\ ~Busy(q) /\ q.at # "ready"
    <2>1. IsPass(p) /\ a \in Stages
      BY <1>1, <1>2, <1>3 DEF PassOk, Stages
    <2>2. q = [at |-> a, applied |-> p.applied, todo |-> t, saw |-> p.saw]
      BY <1>5, <2>1, PassRecorded
    <2>3. IsPass(q) /\ q.at = a /\ q.applied = p.applied /\ q.todo = t /\ q.saw = p.saw
      BY <2>1, <2>2, IsPassMade
    <2>4. (p.at = "files record" /\ q.at = "files") \/ (p.at = "baselines record" /\ q.at = "baselines")
      BY <1>2, <1>3, <2>3 DEF Busy
    <2> QED
      BY <2>3, <2>4 DEF InBaselines, InFiles, Busy
  <1>8. LedgerOk' /\ LedgerGrows /\ Recorded(job)' /\ \A v : Times(v)' = Times(v) /\ Times(v) \in Nat
    BY <1>1, Entered
  <1>9. PassOk(p)' /\ PassOk(p)
    BY <1>1, <1>2, <1>8, PassStays
  <1>10. PassOk(q)'
    <2>1. \A f \in t : f \in p.todo
      BY <1>4
    <2>2. \A f \in p.todo : f \in t \/ Recorded(f)'
      BY <1>4, <1>8
    <2>3. job.v \in DOMAIN recorded'
      BY <1>8 DEF Recorded
    <2>4. InBaselines(q) => \A i \in 1..Baselines : <<0, i>> \in DOMAIN recorded' \/ \E b \in t : b.v = <<0, i>>
      <3>1. ASSUME InBaselines(p), NEW i \in 1..Baselines
            PROVE  <<0, i>> \in DOMAIN recorded' \/ \E b \in t : b.v = <<0, i>>
        <4>1. <<0, i>> \in DOMAIN recorded' \/ \E b \in p.todo : b.v = <<0, i>>
          BY <1>9, <3>1 DEF PassOk
        <4>2. \A b \in p.todo : b \in t \/ b = job
          BY <1>4
        <4> QED
          BY <2>3, <4>1, <4>2
      <3> QED
        BY <1>7, <3>1
    <2>5. InFiles(q) => \A f \in p.saw : f.v \in Versions /\ (f \in t \/ Recorded(f)')
      BY <1>7, <1>9, <2>2 DEF PassOk
    <2> QED
      BY <1>7, <1>9, <2>1, <2>4, <2>5 DEF PassOk
  <1>11. ASSUME NEW w, NumOk(p, w) PROVE NumOk(q, w)'
    <2>1. Left(q, w) => Left(p, w)
      BY <1>4, <1>7 DEF Left
    <2>2. CASE w = job.v
      <3>1. \A f \in t : f.v # w
        BY <1>1, <1>2, <1>4, <1>9, <2>2 DEF PassOk
      <3>2. InBaselines(p) => w[1] = 0
        BY <1>1, <1>2, <1>9, <2>2 DEF PassOk
      <3>3. ~Left(q, w)
        BY <1>7, <3>1, <3>2 DEF Left
      <3>4. w \in DOMAIN recorded'
        BY <1>8, <2>2 DEF Recorded
      <3>5. Times(w)' <= 1 + faults'
        BY <1>8, <1>11 DEF NumOk
      <3> QED
        BY <3>3, <3>4, <3>5 DEF NumOk
    <2>3. CASE w # job.v
      <3>1. ~Held(p, w)
        BY <1>1, <1>2, <2>3
      <3>2. Times(w) <= 1 + faults /\ ((w \in DOMAIN recorded /\ ~Left(p, w)) \/ Times(w) <= faults)
        BY <1>11, <3>1 DEF NumOk
      <3>3. w \in DOMAIN recorded => w \in DOMAIN recorded'
        BY <1>8 DEF LedgerGrows
      <3> QED
        BY <1>8, <2>1, <3>2, <3>3 DEF NumOk
    <2> QED
      BY <2>2, <2>3
  <1>12. apart' => apart /\ \A g \in Hosts : g # h => ~Active(pass[g])
    BY <1>1, OnlyOne
  <1>13. apart' => \A w : NumOk(pass[h], w) => NumOk(q, w)'
    BY <1>2, <1>11
  <1> QED
    BY <1>6, <1>8, <1>10, <1>12, <1>13, StepKeeps

\* record_applied() enters the version and the answer is lost, or the version
\* is there already.
LEMMA RecordEnds ==
  ASSUME MigrationInv, NEW h \in Hosts, Busy(pass[h]), NEW job \in NextOf(pass[h].todo),
         Aborts(h), UNCHANGED <<ran, apart>>,
         \/ /\ job.v \notin DOMAIN recorded /\ recorded' = Set(recorded, job.v, job.body) /\ faults' = faults + 1
         \/ /\ job.v \in DOMAIN recorded /\ recorded' = recorded /\ faults' = faults
  PROVE  MigrationInv'
  <1>1. /\ PassOk(pass[h]) /\ Active(pass[h]) /\ LedgerOk /\ faults \in Nat /\ apart \in BOOLEAN
        /\ job \in pass[h].todo /\ Times(job.v) >= 1
        /\ job.v[1] # 0 => job.body # NoChecksum
        /\ \A w : Held(pass[h], w) => w = job.v
    BY AtARecord
  <1>2. faults' \in Nat /\ pass' = [pass EXCEPT ![h] = Down]
    BY <1>1 DEF Aborts, Goes
  <1>3. LedgerOk' /\ LedgerGrows /\ \A v : Times(v)' = Times(v) /\ Times(v) \in Nat
    BY <1>1, <1>2, Entered, SameLedger
  <1>4. PassOk(Down)'
    BY <1>3, DownOk, PassStays
  <1>5. ASSUME NEW w, NumOk(pass[h], w) PROVE NumOk(Down, w)'
    <2>1. ~Left(Down, w)
      BY DEF Left, Down, InBaselines, InFiles
    <2>2. CASE faults' = faults + 1
      <3>1. Times(w) <= 1 + faults
        BY <1>5 DEF NumOk
      <3>2. Times(w)' <= faults'
        BY <1>1, <1>3, <2>2, <3>1
      <3>3. Times(w)' <= 1 + faults'
        BY <1>2, <1>3, <3>2
      <3> QED
        BY <3>2, <3>3 DEF NumOk
    <2>3. CASE job.v \in DOMAIN recorded /\ recorded' = recorded /\ faults' = faults
      <3>1. Times(w) <= 1 + faults /\ (w \in DOMAIN recorded \/ Times(w) <= faults)
        BY <1>1, <1>5, <2>3 DEF NumOk
      <3> QED
        BY <1>3, <2>1, <2>3, <3>1 DEF NumOk
    <2> QED
      BY <2>2, <2>3
  <1>6. apart' => apart /\ \A g \in Hosts : g # h => ~Active(pass[g])
    BY <1>1, OnlyOne
  <1>7. PICK q : q = Down
    OBVIOUS
  <1>8. apart' => \A w : NumOk(pass[h], w) => NumOk(q, w)'
    BY <1>5, <1>7
  <1> QED
    BY <1>2, <1>3, <1>4, <1>6, <1>7, <1>8, StepKeeps

LEMMA RecordStep ==
  ASSUME MigrationInv, NEW h \in Hosts, NEW outcome \in {"ok", "refused", "lost"}, RecordApplied(h, outcome)
  PROVE  MigrationInv'
  <1>1. PICK job \in NextOf(pass[h].todo) :
          /\ pass[h].at \in {"baselines record", "files record"}
          /\ IF outcome = "refused" \/ job.v \in DOMAIN recorded THEN UNCHANGED recorded
             ELSE recorded' = Set(recorded, job.v, job.body)
          /\ IF outcome = "ok" THEN UNCHANGED faults ELSE Fault
          /\ IF outcome = "ok" /\ job.v \notin DOMAIN recorded
             THEN Goes(h, [pass[h] EXCEPT !.at = IF @ = "files record" THEN "files" ELSE "baselines",
                                          !.todo = @ \ {job}])
             ELSE Aborts(h)
          /\ UNCHANGED <<devVars, ran, apart>>
    BY DEF RecordApplied
  <1>2. Busy(pass[h])
    BY <1>1 DEF Busy
  <1>3. Active(pass[h])
    BY <1>2, AtARecord
  <1>4. CASE outcome = "ok" /\ job.v \notin DOMAIN recorded
    BY <1>1, <1>2, <1>4, RecordGoesOn
  <1>5. CASE outcome = "ok" /\ job.v \in DOMAIN recorded
    BY <1>1, <1>2, <1>5, RecordEnds
  <1>6. CASE outcome = "lost" /\ job.v \notin DOMAIN recorded
    BY <1>1, <1>2, <1>6, RecordEnds DEF Fault
  <1>7. CASE outcome = "refused" \/ (outcome = "lost" /\ job.v \in DOMAIN recorded)
    <2>1. UNCHANGED <<recorded, ran, apart>> /\ faults' = faults + 1 /\ pass' = [pass EXCEPT ![h] = Down]
      BY <1>1, <1>7 DEF Fault, Aborts, Goes
    <2> QED
      BY <1>3, <2>1, AbortStep
  <1> QED
    BY <1>4, <1>5, <1>6, <1>7

LEMMA DiesStep ==
  ASSUME MigrationInv, NEW h \in Hosts, Dies(h)
  PROVE  MigrationInv'
  <1>1. UNCHANGED <<recorded, ran, apart>> /\ pass' = [pass EXCEPT ![h] = Down] /\ pass[h].at # "down"
    BY DEF Dies, dbVars, Aborts, Goes
  <1>2. CASE pass[h].at # "ready"
    <2>1. Active(pass[h]) /\ faults' = faults + 1
      BY <1>1, <1>2 DEF Active, Dies, Fault
    <2> QED
      BY <1>1, <2>1, AbortStep
  <1>3. CASE pass[h].at = "ready"
    <2>1. LedgerOk /\ PassesOk /\ CountsOk /\ faults' = faults /\ faults \in Nat /\ apart \in BOOLEAN
      BY <1>3 DEF Dies, MigrationInv, LedgerOk
    <2>2. LedgerOk' /\ LedgerGrows /\ \A v : Times(v)' = Times(v) /\ Times(v) \in Nat
      BY <1>1, <2>1, SameLedger
    <2>3. DOMAIN pass' = Hosts /\ pass'[h] = Down /\ \A g \in Hosts : g # h => pass'[g] = pass[g]
      BY <1>1, <2>1 DEF PassesOk
    <2>4. PassesOk'
      <3>1. PassOk(Down)'
        BY <2>2, DownOk, PassStays
      <3>2. ASSUME NEW g \in Hosts, g # h PROVE PassOk(pass[g])'
        <4>1. PICK p : p = pass[g]
          OBVIOUS
        <4>2. PassOk(p)'
          BY <2>1, <2>2, <4>1, PassStays DEF PassesOk
        <4> QED
          BY <2>3, <3>2, <4>1, <4>2
      <3> QED
        BY <2>3, <3>1, <3>2 DEF PassesOk
    <2>5. Down.at = "down"
      BY DEF Down
    <2>6. /\ ~Active(Down)
          /\ \A v : ~Left(Down, v) /\ ~Held(Down, v) /\ ~Left(pass[h], v) /\ ~Held(pass[h], v)
      BY <1>3, <2>5 DEF Active, Left, Held, InBaselines, InFiles, Busy
    <2>7. ASSUME apart, Alone PROVE Alone'
      BY <2>3, <2>6, <2>7 DEF Alone
    <2>8. ASSUME NEW v, CountOk(v) PROVE CountOk(v)'
      <3>1. (\A g \in Hosts : ~Left(pass[g], v)) => \A g \in Hosts : ~Left(pass'[g], v)
        BY <2>3, <2>6
      <3>2. (\E g \in Hosts : Held(pass[g], v)) => \E g \in Hosts : Held(pass'[g], v)
        BY <2>3, <2>6
      <3> QED
        BY <1>1, <2>1, <2>2, <2>8, <3>1, <3>2 DEF CountOk
    <2>9. CountsOk'
      BY <1>1, <2>1, <2>7, <2>8 DEF CountsOk
    <2> QED
      BY <2>2, <2>4, <2>9 DEF MigrationInv
  <1> QED
    BY <1>2, <1>3

\* The developer touches files, never the database.
LEMMA DeveloperStep ==
  ASSUME MigrationInv, UNCHANGED <<dbVars, pass, apart>>, faults' = faults \/ faults' = faults + 1
  PROVE  MigrationInv'
  <1>1. LedgerOk /\ PassesOk /\ CountsOk /\ faults \in Nat /\ apart \in BOOLEAN /\ UNCHANGED <<recorded, ran>>
    BY DEF MigrationInv, LedgerOk, dbVars
  <1>2. faults' \in Nat
    BY <1>1
  <1>3. LedgerOk' /\ LedgerGrows /\ \A v : Times(v)' = Times(v) /\ Times(v) \in Nat
    BY <1>1, <1>2, SameLedger
  <1>4. PassesOk'
    <2>1. ASSUME NEW g \in Hosts PROVE PassOk(pass[g])'
      <3>1. PICK p : p = pass[g]
        OBVIOUS
      <3>2. PassOk(p)'
        BY <1>1, <1>3, <3>1, PassStays DEF PassesOk
      <3> QED
        BY <3>1, <3>2
    <2> QED
      BY <1>1, <2>1 DEF PassesOk
  <1>5. ASSUME NEW v, CountOk(v) PROVE CountOk(v)'
    <2>1. Times(v)' <= 1 + faults' /\ (Times(v) <= faults => Times(v)' <= faults')
      BY <1>1, <1>3, <1>5 DEF CountOk
    <2> QED
      BY <1>1, <1>5, <2>1 DEF CountOk
  <1>6. CountsOk'
    BY <1>1, <1>5 DEF CountsOk, Alone
  <1> QED
    BY <1>3, <1>4, <1>6 DEF MigrationInv

LEMMA MigrationKeeps == MigrationSpec => []MigrationInv
  <1>1. MigrationInit => MigrationInv
    <2> SUFFICES ASSUME MigrationInit PROVE MigrationInv
      OBVIOUS
    <2>1. recorded = <<>> /\ ran = <<>> /\ apart = TRUE /\ faults = 0 /\ pass = [h \in Hosts |-> Down]
      BY DEF MigrationInit
    <2>2. LedgerOk
      BY <2>1 DEF LedgerOk
    <2>3. PassesOk
      BY <2>1, DownOk DEF PassesOk
    <2>4. ~Active(Down)
      BY DEF Active, Down
    <2>5. CountsOk
      BY <2>1, <2>4 DEF CountsOk, Alone
    <2> QED
      BY <2>2, <2>3, <2>5 DEF MigrationInv
  <1>2. MigrationInv /\ DirInv /\ [MigrationNext]_migrationVars => MigrationInv'
    <2> SUFFICES ASSUME MigrationInv, DirInv, [MigrationNext]_migrationVars PROVE MigrationInv'
      OBVIOUS
    <2>1. CASE Developer
      BY <2>1, DeveloperStep DEF Developer, Clock, EditModel, WriteByHand, Migrate, Fault
    <2>2. CASE UNCHANGED migrationVars
      BY <2>2, DeveloperStep DEF migrationVars
    <2>3. ASSUME NEW h \in Hosts, RunnerStep(h) PROVE MigrationInv'
      BY <2>3, RunAllStep, FilesStep, ReadyStep, EnsureStep, LoadStep, ApplyStep, RecordStep DEF RunnerStep
    <2>4. ASSUME NEW h \in Hosts, Dies(h) PROVE MigrationInv'
      BY <2>4, DiesStep
    <2> QED
      BY <2>1, <2>2, <2>3, <2>4 DEF MigrationNext
  <1> QED
    BY <1>1, <1>2, DirKeeps, PTL DEF MigrationSpec

\* schema_migrations never names a migration that was not carried out, whatever
\* is refused, lost or dies; and while passes do not overlap a migration is
\* carried out at most once more than there were faults.
THEOREM LedgerStaysTrue == MigrationSpec => []LedgerIsTrue
  <1>1. MigrationInv => LedgerIsTrue
    BY DEF MigrationInv, LedgerOk, CountsOk, CountOk, LedgerIsTrue
  <1> QED
    BY <1>1, MigrationKeeps, PTL

\* A process that goes ready, among any number that run their passes over one
\* another, has every baseline and every file it saw in the ledger with the
\* contents it saw, and files are recorded in the order of their versions.
THEOREM ReadyMeansCurrent == MigrationSpec => []ReadyIsCurrent
  <1>1. MigrationInv => ReadyIsCurrent
    <2> SUFFICES ASSUME MigrationInv, NEW h \in Hosts
                 PROVE  /\ pass[h].at = "ready" =>
                              /\ \A i \in 1..Baselines : <<0, i>> \in DOMAIN recorded
                              /\ \A f \in pass[h].saw : f.v \in DOMAIN recorded /\ recorded[f.v] = f.body
                        /\ pass[h].at \in {"files", "files record"} =>
                              \A f \in pass[h].saw, job \in NextOf(pass[h].todo) :
                                 Lower(f.v, job.v) => f.v \in DOMAIN recorded
      BY DEF ReadyIsCurrent
    <2>1. PassOk(pass[h])
      BY DEF MigrationInv, PassesOk
    <2>2. ASSUME pass[h].at \in {"files", "files record"}, NEW f \in pass[h].saw, NEW job \in NextOf(pass[h].todo),
                 Lower(f.v, job.v)
          PROVE  f.v \in DOMAIN recorded
      <3>1. f.v \in Versions /\ job.v \in Versions /\ (f \in pass[h].todo \/ Recorded(f))
        BY <2>1, <2>2 DEF PassOk, InFiles, NextOf
      <3>2. f \notin pass[h].todo
        BY <2>2, <3>1, VersionOrder DEF NextOf
      <3> QED
        BY <3>1, <3>2 DEF Recorded
    <2> QED
      BY <2>1, <2>2 DEF PassOk, HasBaselines, Recorded
  <1> QED
    BY <1>1, MigrationKeeps, PTL

-----------------------------------------------------------------------------
(***************************************************************************)
(* A process's link to the engine (WorkerProcess), for any number of       *)
(* slots, pool threads, connection attempts and calls.                     *)
(***************************************************************************)

(* Where main is: with the Registers bound; making its own calls; and from   *)
(* the first poll slot on.                                                   *)
Bound == {"server", "defs", "tasks", "slots", "run"}
Registering == {"defs", "tasks"}
Polling == {"slots", "run", "destroy", "client", "join", "exited"}

Kinds == {"none", "taskdef", "workflowdef", "task", "poll"}
EngineCalls == [st : {"idle", "sent", "insert", "waiting", "answered"},
                kind : Kinds, stream : Nat, got : Nat]
Requests == [stream : Nat, kind : Kinds, answered : BOOLEAN]

LinkTypeOK ==
    /\ todo \in Seq(Kinds) /\ polling \subseteq Slots
    /\ starting \subseteq [who : Attempts \cup {0}, attempt : Attempts]
    /\ releasing \subseteq Attempts
    /\ promises \in Nat /\ runtimeSet \in BOOLEAN
    /\ call \in [Callers -> EngineCalls] /\ wire \subseteq Requests /\ calls \in Nat

(* The runtime is there before anyone calls: main waits for the promise and  *)
(* creates the slots later.  Only main's own attempt brings main back into   *)
(* the wait loop.                                                            *)
BootInv ==
    /\ promises > 0 => runtimeSet
    /\ pc \in Bound => runtimeSet
    /\ polling # {} => runtimeSet /\ pc \in Polling
    /\ \A s \in starting : s.who = 0 => pc = "started"
    /\ \A s, t \in starting : s.who = 0 /\ t.who = 0 => s = t

(* A call under way has a stream of its own, and its caller is where that    *)
(* call is made.                                                             *)
CallInv ==
    /\ call["main"].st # "idle" => pc \in Registering
    /\ \A s \in Slots : call[s].st # "idle" => call[s].kind = "poll" /\ pc \in Polling
    /\ \A c \in Callers : call[c].st # "idle" => call[c].stream <= calls
    /\ \A c, d \in Callers :
        call[c].st # "idle" /\ call[d].st # "idle" /\ call[c].stream = call[d].stream => c = d
    /\ AnswersMatch

(* A request of the engine is that of a call which is still open, and the    *)
(* only one on its stream.                                                   *)
Open(r, c) ==
    /\ call[c].st \in {"sent", "insert", "waiting"}
    /\ call[c].stream = r.stream /\ call[c].kind = r.kind
WireInv ==
    /\ \A r \in wire : \E c \in Callers : Open(r, c)
    /\ \A r, q \in wire : r.stream = q.stream => r = q

LinkInv == LinkTypeOK /\ BootInv /\ CallInv /\ WireInv /\ CallsHaveRuntime


(* What the steps of a call do to the calls: one is replaced, or some go on  *)
(* to their next state.                                                      *)
LEMMA Replaced ==
    ASSUME LinkTypeOK, NEW c \in Callers, NEW x \in EngineCalls, call' = [call EXCEPT ![c] = x]
    PROVE  /\ call' \in [Callers -> EngineCalls] /\ call'[c] = x
           /\ \A d \in Callers : d # c => call'[d] = call[d]
BY DEF LinkTypeOK

CallGoes(c, from, to) ==
    /\ call[c].st = from /\ call'[c].st = to
    /\ call'[c].kind = call[c].kind /\ call'[c].stream = call[c].stream

(* A call is made. *)
LEMMA Sent ==
    ASSUME LinkTypeOK, NEW c \in Callers, NEW k \in Kinds, Send(c, k)
    PROVE  /\ call' \in [Callers -> EngineCalls]
           /\ call'[c].st = "sent" /\ call'[c].kind = k /\ call'[c].stream = calls + 1
           /\ \A d \in Callers : d # c => call'[d] = call[d]
           /\ calls \in Nat /\ calls' = calls + 1
           /\ wire' \subseteq Requests
           /\ \A r \in wire' : r \in wire \/ r = [stream |-> calls + 1, kind |-> k, answered |-> FALSE]
<1> DEFINE x == [st |-> "sent", kind |-> k, stream |-> calls + 1, got |-> 0]
<1>1. x \in EngineCalls
  BY DEF EngineCalls, LinkTypeOK
<1>2. call' = [call EXCEPT ![c] = x]
  BY DEF Send
<1> HIDE DEF x
<1>3. call' \in [Callers -> EngineCalls] /\ call'[c] = x /\ \A d \in Callers : d # c => call'[d] = call[d]
  BY <1>1, <1>2, Replaced
<1>4. calls \in Nat /\ calls' = calls + 1
  BY DEF Send, LinkTypeOK
<1>5. \A r \in wire' : r \in wire \/ r = [stream |-> calls + 1, kind |-> k, answered |-> FALSE]
  <2>1. CASE linkUp
    BY <2>1 DEF Send
  <2>2. CASE ~linkUp
    BY <2>2 DEF Send
  <2>3. QED
    BY <2>1, <2>2
<1>6. wire' \subseteq Requests
  <2>1. [stream |-> calls + 1, kind |-> k, answered |-> FALSE] \in Requests
    BY <1>4 DEF Requests
  <2>2. QED
    BY <1>5, <2>1 DEF LinkTypeOK
<1>7. QED
  BY <1>3, <1>4, <1>5, <1>6 DEF x

(* Its callback is being stored. *)
LEMMA Stored ==
    ASSUME LinkTypeOK, NEW c \in Callers, StoreCallback(c)
    PROVE  /\ call' \in [Callers -> EngineCalls] /\ CallGoes(c, "sent", "insert")
           /\ \A d \in Callers : d # c => call'[d] = call[d]
<1> DEFINE x == [call[c] EXCEPT !.st = "insert"]
<1>1. x \in EngineCalls
  BY DEF EngineCalls, LinkTypeOK
<1>2. call' = [call EXCEPT ![c] = x] /\ call[c].st = "sent"
  BY DEF StoreCallback
<1>3. x.st = "insert" /\ x.kind = call[c].kind /\ x.stream = call[c].stream
  BY DEF EngineCalls, LinkTypeOK
<1> HIDE DEF x
<1>4. call' \in [Callers -> EngineCalls] /\ call'[c] = x /\ \A d \in Callers : d # c => call'[d] = call[d]
  BY <1>1, <1>2, Replaced
<1>5. QED
  BY <1>2, <1>3, <1>4 DEF CallGoes

(* A response reaches the call that waits on its stream, and no other. *)
LEMMA Dispatched ==
    ASSUME LinkTypeOK, NEW r \in wire, Dispatch(r)
    PROVE  /\ call' \in [Callers -> EngineCalls]
           /\ \A c \in Callers :
                IF call[c].st = "waiting" /\ call[c].stream = r.stream
                THEN CallGoes(c, "waiting", "answered") /\ call'[c].got = r.stream
                ELSE call'[c] = call[c]
<1>1. r.stream \in Nat
  BY DEF LinkTypeOK, Requests
<1>2. call' = [c \in Callers |-> IF call[c].st = "waiting" /\ call[c].stream = r.stream
                                 THEN [call[c] EXCEPT !.st = "answered", !.got = r.stream]
                                 ELSE call[c]]
  BY DEF Dispatch, Match
<1>3. \A c \in Callers : call[c] \in EngineCalls
  BY DEF LinkTypeOK
<1>4. ASSUME NEW c \in Callers
      PROVE  LET x == [call[c] EXCEPT !.st = "answered", !.got = r.stream]
             IN  /\ x \in EngineCalls /\ x.st = "answered" /\ x.got = r.stream
                 /\ x.kind = call[c].kind /\ x.stream = call[c].stream
  BY <1>1, <1>3 DEF EngineCalls
<1>5. QED
  BY <1>2, <1>3, <1>4 DEF CallGoes


(* Types are kept. *)
LEMMA LinkTypeStep ==
    ASSUME LinkInv, [ProcessNext]_processVars
    PROVE LinkTypeOK'
<1>0. LinkTypeOK /\ BootInv /\ CallInv /\ WireInv /\ CallsHaveRuntime
  BY DEF LinkInv
<1> USE WorkerProcessAssumption DEF LinkTypeOK, Kinds, bootVars, linkVars, callVars
<1>1. CASE OpenPlugins
  BY <1>1, <1>0 DEF OpenPlugins, Main
<1>2. CASE BuildPlugins
  BY <1>2, <1>0 DEF BuildPlugins, Return
<1>3. CASE LoadConfig
  BY <1>3, <1>0 DEF LoadConfig, Return
<1>4. CASE LoadWorkers
  <2>1. <<>> \in Seq(Kinds) /\ <<"taskdef">> \in Seq(Kinds) /\ <<"workflowdef">> \in Seq(Kinds)
    OBVIOUS
  <2>2. <<"taskdef", "workflowdef">> \in Seq(Kinds)
    OBVIOUS
  <2>3. \A defs \in CollectDefs : defs \in Seq(Kinds)
    BY <2>1, <2>2 DEF CollectDefs, Definitions
  <2>4. QED
    BY <1>4, <1>0, <2>3 DEF LoadWorkers, Main
<1>5. CASE Connect
  BY <1>5, <1>0 DEF Connect, Return, Helper
<1>6. CASE WaitConnected
  BY <1>6, <1>0 DEF WaitConnected, Main
<1>7. CASE GiveUp
  BY <1>7, <1>0 DEF GiveUp, Return
<1>8. CASE WaitTimesOut
  BY <1>8, <1>0 DEF WaitTimesOut, Main
<1>9. CASE Retry
  BY <1>9, <1>0 DEF Retry, Return, Helper
<1>10. CASE StartServer
  BY <1>10, <1>0 DEF StartServer, Main
<1>11. CASE MainCalls
  <2>1. Head(todo) \in Kinds /\ Tail(todo) \in Seq(Kinds) /\ "main" \in Callers
    BY <1>11, <1>0 DEF MainCalls, Callers
  <2>2. call' \in [Callers -> EngineCalls] /\ wire' \subseteq Requests /\ calls' \in Nat
    BY <1>11, <1>0, <2>1, Sent DEF MainCalls
  <2>3. QED
    BY <1>11, <1>0, <2>1, <2>2 DEF MainCalls
<1>12. CASE DefsDone
  BY <1>12, <1>0 DEF DefsDone, Main, OwnTasks
<1>13. CASE TasksDone
  BY <1>13, <1>0 DEF TasksDone, Main
<1>14. CASE DestroyHandlers
  BY <1>14, <1>0 DEF DestroyHandlers, Main
<1>15. CASE DestroyClient
  BY <1>15, <1>0 DEF DestroyClient, Main
<1>16. CASE JoinPool
  BY <1>16, <1>0 DEF JoinPool, Main
<1>17. CASE RequestShutdown
  BY <1>17, <1>0 DEF RequestShutdown, Return
<1>18. CASE EngineStarts
  BY <1>18, <1>0 DEF EngineStarts
<1>19. CASE LinkDrops
  BY <1>19, <1>0 DEF LinkDrops
<1>20. ASSUME NEW x \in starting, Emplace(x) PROVE LinkTypeOK'
  BY <1>20, <1>0 DEF Emplace
<1>21. ASSUME NEW x \in Attempts, HandshakeLands(x) PROVE LinkTypeOK'
  <2>1. runtimeSet' = TRUE /\ promises' = promises + 1
    BY <1>21 DEF HandshakeLands, SetPromise
  <2>2. promises' \in Nat /\ runtimeSet' \in BOOLEAN
    BY <1>0, <2>1
  <2>3. QED
    BY <1>21, <1>0, <2>2 DEF HandshakeLands
<1>22. ASSUME NEW x \in Attempts, HandshakeFails(x) PROVE LinkTypeOK'
  BY <1>22, <1>0 DEF HandshakeFails
<1>23. ASSUME NEW x \in Attempts, StoreWorker(x) PROVE LinkTypeOK'
  BY <1>23, <1>0 DEF StoreWorker
<1>24. ASSUME NEW x \in Attempts, Released(x) PROVE LinkTypeOK'
  BY <1>24, <1>0 DEF Released
<1>25. ASSUME NEW x \in Attempts, DeferredRetry(x) PROVE LinkTypeOK'
  BY <1>25, <1>0 DEF DeferredRetry, Helper
<1>26. ASSUME NEW x \in Slots, CreateSlot(x) PROVE LinkTypeOK'
  BY <1>26, <1>0 DEF CreateSlot
<1>27. ASSUME NEW x \in Slots, SlotCalls(x) PROVE LinkTypeOK'
  <2>1. x \in Callers /\ "poll" \in Kinds
    BY DEF Callers
  <2>2. call' \in [Callers -> EngineCalls] /\ wire' \subseteq Requests /\ calls' \in Nat
    BY <1>27, <1>0, <2>1, Sent DEF SlotCalls
  <2>3. QED
    BY <1>27, <1>0, <2>2 DEF SlotCalls
<1>28. ASSUME NEW x \in Slots, LateTurn(x) PROVE LinkTypeOK'
  BY <1>28, <1>0 DEF LateTurn
<1>29. ASSUME NEW x \in Attempts, LateConnector(x) PROVE LinkTypeOK'
  BY <1>29, <1>0 DEF LateConnector
<1>30. ASSUME NEW x \in Callers, StoreCallback(x) PROVE LinkTypeOK'
  BY Stored, <1>30, <1>0 DEF StoreCallback
<1>31. ASSUME NEW x \in Callers, CallbackStored(x) PROVE LinkTypeOK'
  BY <1>31, <1>0 DEF CallbackStored, EngineCalls, Idle
<1>32. ASSUME NEW x \in Callers, Answered(x) PROVE LinkTypeOK'
  BY <1>32, <1>0 DEF Answered, EngineCalls, Idle
<1>33. ASSUME NEW x \in wire, Dispatch(x) PROVE LinkTypeOK'
  <2>1. call' \in [Callers -> EngineCalls] /\ wire' \subseteq Requests
    BY <1>33, <1>0, Dispatched DEF Dispatch
  <2>2. QED
    BY <1>33, <1>0, <2>1 DEF Dispatch
<1>34. ASSUME NEW x \in wire, EngineAnswers(x) PROVE LinkTypeOK'
  BY <1>34, <1>0 DEF EngineAnswers, Requests
<1>35. CASE UNCHANGED processVars
  BY <1>35, <1>0 DEF processVars
<1>36. QED
  BY <1>1, <1>2, <1>3, <1>4, <1>5, <1>6, <1>7, <1>8, <1>9, <1>10, <1>11, <1>12, <1>13,
     <1>14, <1>15, <1>16, <1>17, <1>18, <1>19, <1>20, <1>21, <1>22, <1>23, <1>24, <1>25,
     <1>26, <1>27, <1>28, <1>29, <1>30, <1>31, <1>32, <1>33, <1>34, <1>35
     DEF ProcessNext, Boot, Loop, Rest, Exit, Pool, CallStep

(* Main, the promise and the attempts. *)
LEMMA BootStep ==
    ASSUME LinkInv, [ProcessNext]_processVars
    PROVE BootInv'
<1>0. LinkTypeOK /\ BootInv /\ CallInv /\ WireInv /\ CallsHaveRuntime
  BY DEF LinkInv
<1> USE WorkerProcessAssumption DEF BootInv, LinkTypeOK, Bound, Polling, Callers, bootVars, linkVars, callVars
<1>1. CASE OpenPlugins
  BY <1>1, <1>0 DEF OpenPlugins, Main
<1>2. CASE BuildPlugins
  BY <1>2, <1>0 DEF BuildPlugins, Return
<1>3. CASE LoadConfig
  BY <1>3, <1>0 DEF LoadConfig, Return
<1>4. CASE LoadWorkers
  BY <1>4, <1>0 DEF LoadWorkers, Main, CollectDefs, Definitions
<1>5. CASE Connect
  BY <1>5, <1>0 DEF Connect, Return, Helper
<1>6. CASE WaitConnected
  BY <1>6, <1>0 DEF WaitConnected, Main
<1>7. CASE GiveUp
  BY <1>7, <1>0 DEF GiveUp, Return
<1>8. CASE WaitTimesOut
  BY <1>8, <1>0 DEF WaitTimesOut, Main
<1>9. CASE Retry
  BY <1>9, <1>0 DEF Retry, Return, Helper
<1>10. CASE StartServer
  BY <1>10, <1>0 DEF StartServer, Main
<1>11. CASE MainCalls
  BY <1>11, <1>0 DEF MainCalls, Send
<1>12. CASE DefsDone
  BY <1>12, <1>0 DEF DefsDone, Main, OwnTasks
<1>13. CASE TasksDone
  BY <1>13, <1>0 DEF TasksDone, Main
<1>14. CASE DestroyHandlers
  BY <1>14, <1>0 DEF DestroyHandlers, Main
<1>15. CASE DestroyClient
  BY <1>15, <1>0 DEF DestroyClient, Main
<1>16. CASE JoinPool
  BY <1>16, <1>0 DEF JoinPool, Main
<1>17. CASE RequestShutdown
  BY <1>17, <1>0 DEF RequestShutdown, Return
<1>18. CASE EngineStarts
  BY <1>18, <1>0 DEF EngineStarts
<1>19. CASE LinkDrops
  BY <1>19, <1>0 DEF LinkDrops
<1>20. ASSUME NEW x \in starting, Emplace(x) PROVE BootInv'
  BY <1>20, <1>0 DEF Emplace
<1>21. ASSUME NEW x \in Attempts, HandshakeLands(x) PROVE BootInv'
  BY <1>21, <1>0 DEF HandshakeLands, SetPromise
<1>22. ASSUME NEW x \in Attempts, HandshakeFails(x) PROVE BootInv'
  BY <1>22, <1>0 DEF HandshakeFails
<1>23. ASSUME NEW x \in Attempts, StoreWorker(x) PROVE BootInv'
  BY <1>23, <1>0 DEF StoreWorker
<1>24. ASSUME NEW x \in Attempts, Released(x) PROVE BootInv'
  BY <1>24, <1>0 DEF Released
<1>25. ASSUME NEW x \in Attempts, DeferredRetry(x) PROVE BootInv'
  <2>1. \A s \in starting' : s \in starting \/ s.who # 0
    BY <1>25, <1>0 DEF DeferredRetry, Helper, Attempts
  <2>2. QED
    BY <1>25, <1>0, <2>1 DEF DeferredRetry
<1>26. ASSUME NEW x \in Slots, CreateSlot(x) PROVE BootInv'
  BY <1>26, <1>0 DEF CreateSlot
<1>27. ASSUME NEW x \in Slots, SlotCalls(x) PROVE BootInv'
  BY <1>27, <1>0 DEF SlotCalls, Send
<1>28. ASSUME NEW x \in Slots, LateTurn(x) PROVE BootInv'
  BY <1>28, <1>0 DEF LateTurn
<1>29. ASSUME NEW x \in Attempts, LateConnector(x) PROVE BootInv'
  BY <1>29, <1>0 DEF LateConnector
<1>30. ASSUME NEW x \in Callers, StoreCallback(x) PROVE BootInv'
  BY <1>30, <1>0 DEF StoreCallback
<1>31. ASSUME NEW x \in Callers, CallbackStored(x) PROVE BootInv'
  BY <1>31, <1>0 DEF CallbackStored
<1>32. ASSUME NEW x \in Callers, Answered(x) PROVE BootInv'
  BY <1>32, <1>0 DEF Answered
<1>33. ASSUME NEW x \in wire, Dispatch(x) PROVE BootInv'
  BY <1>33, <1>0 DEF Dispatch
<1>34. ASSUME NEW x \in wire, EngineAnswers(x) PROVE BootInv'
  BY <1>34, <1>0 DEF EngineAnswers
<1>35. CASE UNCHANGED processVars
  BY <1>35, <1>0 DEF processVars
<1>36. QED
  BY <1>1, <1>2, <1>3, <1>4, <1>5, <1>6, <1>7, <1>8, <1>9, <1>10, <1>11, <1>12, <1>13,
     <1>14, <1>15, <1>16, <1>17, <1>18, <1>19, <1>20, <1>21, <1>22, <1>23, <1>24, <1>25,
     <1>26, <1>27, <1>28, <1>29, <1>30, <1>31, <1>32, <1>33, <1>34, <1>35
     DEF ProcessNext, Boot, Loop, Rest, Exit, Pool, CallStep

(* Calls and their streams. *)
LEMMA CallsStep ==
    ASSUME LinkInv, [ProcessNext]_processVars
    PROVE CallInv'
<1>0. LinkTypeOK /\ BootInv /\ CallInv /\ WireInv /\ CallsHaveRuntime
  BY DEF LinkInv
<1> USE WorkerProcessAssumption DEF CallInv, AnswersMatch, bootVars, linkVars, callVars
<1>1. CASE OpenPlugins
  BY <1>1, <1>0 DEF OpenPlugins, Main, Registering, Polling
<1>2. CASE BuildPlugins
  BY <1>2, <1>0 DEF BuildPlugins, Return, Registering, Polling
<1>3. CASE LoadConfig
  BY <1>3, <1>0 DEF LoadConfig, Return, Registering, Polling
<1>4. CASE LoadWorkers
  BY <1>4, <1>0 DEF LoadWorkers, Main, CollectDefs, Definitions, Registering, Polling
<1>5. CASE Connect
  BY <1>5, <1>0 DEF Connect, Return, Helper, Registering, Polling
<1>6. CASE WaitConnected
  BY <1>6, <1>0 DEF WaitConnected, Main, Registering, Polling
<1>7. CASE GiveUp
  BY <1>7, <1>0 DEF GiveUp, Return, Registering, Polling
<1>8. CASE WaitTimesOut
  BY <1>8, <1>0 DEF WaitTimesOut, Main, Registering, Polling
<1>9. CASE Retry
  BY <1>9, <1>0 DEF Retry, Return, Helper, Registering, Polling
<1>10. CASE StartServer
  BY <1>10, <1>0 DEF StartServer, Main, Registering, Polling
<1>11. CASE MainCalls
  <2>1. Head(todo) \in Kinds /\ "main" \in Callers
    BY <1>11, <1>0 DEF MainCalls, Callers, LinkTypeOK
  <2>2. /\ call'["main"].st = "sent" /\ call'["main"].stream = calls + 1
        /\ \A d \in Callers : d # "main" => call'[d] = call[d]
    BY <1>11, <1>0, <2>1, Sent DEF MainCalls
  <2>3. \A c \in Callers : call[c].stream \in Nat
    BY <1>0 DEF LinkTypeOK, EngineCalls
  <2>4. \A s \in Slots : s \in Callers /\ s # "main"
    BY DEF Callers
  <2>5. calls' = calls + 1 /\ calls \in Nat /\ pc' = pc /\ pc \in Registering
    BY <1>11, <1>0 DEF MainCalls, Send, Registering, LinkTypeOK
  <2>6. QED
    BY <1>0, <2>2, <2>3, <2>4, <2>5
<1>12. CASE DefsDone
  BY <1>12, <1>0 DEF DefsDone, Main, OwnTasks, Registering, Polling
<1>13. CASE TasksDone
  BY <1>13, <1>0 DEF TasksDone, Main, Registering, Polling
<1>14. CASE DestroyHandlers
  BY <1>14, <1>0 DEF DestroyHandlers, Main, Registering, Polling
<1>15. CASE DestroyClient
  BY <1>15, <1>0 DEF DestroyClient, Main, Registering, Polling
<1>16. CASE JoinPool
  BY <1>16, <1>0 DEF JoinPool, Main, Registering, Polling
<1>17. CASE RequestShutdown
  BY <1>17, <1>0 DEF RequestShutdown, Return, Registering, Polling
<1>18. CASE EngineStarts
  BY <1>18, <1>0 DEF EngineStarts
<1>19. CASE LinkDrops
  BY <1>19, <1>0 DEF LinkDrops
<1>20. ASSUME NEW x \in starting, Emplace(x) PROVE CallInv'
  BY <1>20, <1>0 DEF Emplace, BootInv, Registering, Polling
<1>21. ASSUME NEW x \in Attempts, HandshakeLands(x) PROVE CallInv'
  BY <1>21, <1>0 DEF HandshakeLands, SetPromise
<1>22. ASSUME NEW x \in Attempts, HandshakeFails(x) PROVE CallInv'
  BY <1>22, <1>0 DEF HandshakeFails
<1>23. ASSUME NEW x \in Attempts, StoreWorker(x) PROVE CallInv'
  BY <1>23, <1>0 DEF StoreWorker
<1>24. ASSUME NEW x \in Attempts, Released(x) PROVE CallInv'
  BY <1>24, <1>0 DEF Released
<1>25. ASSUME NEW x \in Attempts, DeferredRetry(x) PROVE CallInv'
  BY <1>25, <1>0 DEF DeferredRetry, Helper
<1>26. ASSUME NEW x \in Slots, CreateSlot(x) PROVE CallInv'
  BY <1>26, <1>0 DEF CreateSlot, BootInv, Registering, Polling
<1>27. ASSUME NEW x \in Slots, SlotCalls(x) PROVE CallInv'
  <2>1. x \in Callers /\ "poll" \in Kinds /\ x # "main" /\ "main" \in Callers
    BY DEF Callers, Kinds
  <2>2. /\ call'[x].st = "sent" /\ call'[x].stream = calls + 1 /\ call'[x].kind = "poll"
        /\ \A d \in Callers : d # x => call'[d] = call[d]
    BY <1>27, <1>0, <2>1, Sent DEF SlotCalls
  <2>3. \A c \in Callers : call[c].stream \in Nat
    BY <1>0 DEF LinkTypeOK, EngineCalls
  <2>4. \A s \in Slots : s \in Callers
    BY DEF Callers
  <2>5. calls' = calls + 1 /\ calls \in Nat /\ pc' = pc /\ pc \in Polling
    BY <1>27, <1>0 DEF SlotCalls, Send, BootInv, LinkTypeOK
  <2>6. QED
    BY <1>0, <2>1, <2>2, <2>3, <2>4, <2>5
<1>28. ASSUME NEW x \in Slots, LateTurn(x) PROVE CallInv'
  BY <1>28, <1>0 DEF LateTurn
<1>29. ASSUME NEW x \in Attempts, LateConnector(x) PROVE CallInv'
  BY <1>29, <1>0 DEF LateConnector
<1>30. ASSUME NEW x \in Callers, StoreCallback(x) PROVE CallInv'
  <2>1. "main" \in Callers /\ \A s \in Slots : s \in Callers
    BY DEF Callers
  <2>2. CallGoes(x, "sent", "insert") /\ \A d \in Callers : d # x => call'[d] = call[d]
    BY <1>30, <1>0, Stored
  <2>3. calls' = calls /\ pc' = pc
    BY <1>30 DEF StoreCallback
  <2>4. QED
    BY <1>0, <2>1, <2>2, <2>3 DEF CallGoes
<1>31. ASSUME NEW x \in Callers, CallbackStored(x) PROVE CallInv'
  BY <1>31, <1>0 DEF CallbackStored, LinkTypeOK, EngineCalls, Idle
<1>32. ASSUME NEW x \in Callers, Answered(x) PROVE CallInv'
  BY <1>32, <1>0 DEF Answered, LinkTypeOK, EngineCalls, Idle
<1>33. ASSUME NEW x \in wire, Dispatch(x) PROVE CallInv'
  <2>1. "main" \in Callers /\ \A s \in Slots : s \in Callers
    BY DEF Callers
  <2>2. \A c \in Callers :
            IF call[c].st = "waiting" /\ call[c].stream = x.stream
            THEN CallGoes(c, "waiting", "answered") /\ call'[c].got = x.stream
            ELSE call'[c] = call[c]
    BY <1>33, <1>0, Dispatched
  <2>3. calls' = calls /\ pc' = pc
    BY <1>33 DEF Dispatch
  <2>4. QED
    BY <1>0, <2>1, <2>2, <2>3 DEF CallGoes
<1>34. ASSUME NEW x \in wire, EngineAnswers(x) PROVE CallInv'
  BY <1>34, <1>0 DEF EngineAnswers
<1>35. CASE UNCHANGED processVars
  BY <1>35, <1>0 DEF processVars
<1>36. QED
  BY <1>1, <1>2, <1>3, <1>4, <1>5, <1>6, <1>7, <1>8, <1>9, <1>10, <1>11, <1>12, <1>13,
     <1>14, <1>15, <1>16, <1>17, <1>18, <1>19, <1>20, <1>21, <1>22, <1>23, <1>24, <1>25,
     <1>26, <1>27, <1>28, <1>29, <1>30, <1>31, <1>32, <1>33, <1>34, <1>35
     DEF ProcessNext, Boot, Loop, Rest, Exit, Pool, CallStep

(* Requests and their calls. *)
LEMMA WireStep ==
    ASSUME LinkInv, [ProcessNext]_processVars
    PROVE WireInv'
<1>0. LinkTypeOK /\ BootInv /\ CallInv /\ WireInv /\ CallsHaveRuntime
  BY DEF LinkInv
<1> USE WorkerProcessAssumption DEF WireInv, Open, bootVars, linkVars, callVars
<1>1. CASE OpenPlugins
  BY <1>1, <1>0 DEF OpenPlugins, Main
<1>2. CASE BuildPlugins
  BY <1>2, <1>0 DEF BuildPlugins, Return
<1>3. CASE LoadConfig
  BY <1>3, <1>0 DEF LoadConfig, Return
<1>4. CASE LoadWorkers
  BY <1>4, <1>0 DEF LoadWorkers, Main, CollectDefs, Definitions
<1>5. CASE Connect
  BY <1>5, <1>0 DEF Connect, Return, Helper
<1>6. CASE WaitConnected
  BY <1>6, <1>0 DEF WaitConnected, Main
<1>7. CASE GiveUp
  BY <1>7, <1>0 DEF GiveUp, Return
<1>8. CASE WaitTimesOut
  BY <1>8, <1>0 DEF WaitTimesOut, Main
<1>9. CASE Retry
  BY <1>9, <1>0 DEF Retry, Return, Helper
<1>10. CASE StartServer
  BY <1>10, <1>0 DEF StartServer, Main
<1>11. CASE MainCalls
  <2>1. Head(todo) \in Kinds /\ "main" \in Callers
    BY <1>11, <1>0 DEF MainCalls, Callers, LinkTypeOK
  <2>2. /\ call'["main"].st = "sent" /\ call'["main"].stream = calls + 1 /\ call'["main"].kind = Head(todo)
        /\ \A d \in Callers : d # "main" => call'[d] = call[d]
    BY <1>11, <1>0, <2>1, Sent DEF MainCalls
  <2>3. call["main"].st = "idle"
    BY <1>11 DEF MainCalls
  <2>4. \A r \in wire : r.stream <= calls /\ r.stream \in Nat
    BY <1>0 DEF LinkTypeOK, CallInv, Requests
  <2>5. calls \in Nat /\ \A r \in wire' :
            r \in wire \/ r = [stream |-> calls + 1, kind |-> Head(todo), answered |-> FALSE]
    BY <1>11, <1>0, <2>1, Sent DEF MainCalls
  <2>6. ASSUME NEW r \in wire' PROVE \E c \in Callers : Open(r, c)'
    BY <1>0, <2>1, <2>2, <2>3, <2>5
  <2>7. ASSUME NEW r \in wire', NEW q \in wire', r.stream = q.stream PROVE r = q
    <3>1. \A p \in wire' \ wire : p.stream = calls + 1
      BY <2>5
    <3>2. r \in wire <=> q \in wire
      BY <2>4, <2>5, <2>7, <3>1
    <3>3. QED
      BY <1>0, <2>5, <2>7, <3>2
  <2>8. QED
    BY <2>6, <2>7
<1>12. CASE DefsDone
  BY <1>12, <1>0 DEF DefsDone, Main, OwnTasks
<1>13. CASE TasksDone
  BY <1>13, <1>0 DEF TasksDone, Main
<1>14. CASE DestroyHandlers
  BY <1>14, <1>0 DEF DestroyHandlers, Main
<1>15. CASE DestroyClient
  BY <1>15, <1>0 DEF DestroyClient, Main
<1>16. CASE JoinPool
  BY <1>16, <1>0 DEF JoinPool, Main
<1>17. CASE RequestShutdown
  BY <1>17, <1>0 DEF RequestShutdown, Return
<1>18. CASE EngineStarts
  BY <1>18, <1>0 DEF EngineStarts
<1>19. CASE LinkDrops
  BY <1>19, <1>0 DEF LinkDrops
<1>20. ASSUME NEW x \in starting, Emplace(x) PROVE WireInv'
  BY <1>20, <1>0 DEF Emplace
<1>21. ASSUME NEW x \in Attempts, HandshakeLands(x) PROVE WireInv'
  BY <1>21, <1>0 DEF HandshakeLands, SetPromise
<1>22. ASSUME NEW x \in Attempts, HandshakeFails(x) PROVE WireInv'
  BY <1>22, <1>0 DEF HandshakeFails
<1>23. ASSUME NEW x \in Attempts, StoreWorker(x) PROVE WireInv'
  BY <1>23, <1>0 DEF StoreWorker
<1>24. ASSUME NEW x \in Attempts, Released(x) PROVE WireInv'
  BY <1>24, <1>0 DEF Released
<1>25. ASSUME NEW x \in Attempts, DeferredRetry(x) PROVE WireInv'
  BY <1>25, <1>0 DEF DeferredRetry, Helper
<1>26. ASSUME NEW x \in Slots, CreateSlot(x) PROVE WireInv'
  BY <1>26, <1>0 DEF CreateSlot
<1>27. ASSUME NEW x \in Slots, SlotCalls(x) PROVE WireInv'
  <2>1. x \in Callers /\ "poll" \in Kinds
    BY DEF Callers, Kinds
  <2>2. /\ call'[x].st = "sent" /\ call'[x].stream = calls + 1 /\ call'[x].kind = "poll"
        /\ \A d \in Callers : d # x => call'[d] = call[d]
    BY <1>27, <1>0, <2>1, Sent DEF SlotCalls
  <2>3. call[x].st = "idle"
    BY <1>27 DEF SlotCalls
  <2>4. \A r \in wire : r.stream <= calls /\ r.stream \in Nat
    BY <1>0 DEF LinkTypeOK, CallInv, Requests
  <2>5. calls \in Nat /\ \A r \in wire' :
            r \in wire \/ r = [stream |-> calls + 1, kind |-> "poll", answered |-> FALSE]
    BY <1>27, <1>0, <2>1, Sent DEF SlotCalls
  <2>6. ASSUME NEW r \in wire' PROVE \E c \in Callers : Open(r, c)'
    BY <1>0, <2>1, <2>2, <2>3, <2>5
  <2>7. ASSUME NEW r \in wire', NEW q \in wire', r.stream = q.stream PROVE r = q
    <3>1. \A p \in wire' \ wire : p.stream = calls + 1
      BY <2>5
    <3>2. r \in wire <=> q \in wire
      BY <2>4, <2>5, <2>7, <3>1
    <3>3. QED
      BY <1>0, <2>5, <2>7, <3>2
  <2>8. QED
    BY <2>6, <2>7
<1>28. ASSUME NEW x \in Slots, LateTurn(x) PROVE WireInv'
  BY <1>28, <1>0 DEF LateTurn
<1>29. ASSUME NEW x \in Attempts, LateConnector(x) PROVE WireInv'
  BY <1>29, <1>0 DEF LateConnector
<1>30. ASSUME NEW x \in Callers, StoreCallback(x) PROVE WireInv'
  <2>1. CallGoes(x, "sent", "insert") /\ \A d \in Callers : d # x => call'[d] = call[d]
    BY <1>30, <1>0, Stored
  <2>2. wire' = wire
    BY <1>30 DEF StoreCallback
  <2>3. QED
    BY <1>0, <2>1, <2>2 DEF CallGoes
<1>31. ASSUME NEW x \in Callers, CallbackStored(x) PROVE WireInv'
  BY <1>31, <1>0 DEF CallbackStored, LinkTypeOK, EngineCalls, Idle, CallInv
<1>32. ASSUME NEW x \in Callers, Answered(x) PROVE WireInv'
  BY <1>32, <1>0 DEF Answered, LinkTypeOK, EngineCalls, Idle, CallInv
<1>33. ASSUME NEW x \in wire, Dispatch(x) PROVE WireInv'
  <2>1. \A c \in Callers :
            IF call[c].st = "waiting" /\ call[c].stream = x.stream
            THEN CallGoes(c, "waiting", "answered")
            ELSE call'[c] = call[c]
    BY <1>33, <1>0, Dispatched
  <2>2. \A r \in wire' : r \in wire /\ r # x
    BY <1>33 DEF Dispatch
  <2>3. \A r \in wire' : r.stream # x.stream
    BY <1>0, <2>2
  <2>4. QED
    BY <1>0, <2>1, <2>2, <2>3
<1>34. ASSUME NEW x \in wire, EngineAnswers(x) PROVE WireInv'
  <2> DEFINE y == [x EXCEPT !.answered = TRUE]
  <2>1. y.stream = x.stream /\ y.kind = x.kind
    BY <1>0 DEF LinkTypeOK, Requests
  <2>2. wire' = (wire \ {x}) \cup {y} /\ call' = call
    BY <1>34 DEF EngineAnswers
  <2> HIDE DEF y
  <2>3. QED
    BY <1>0, <2>1, <2>2
<1>35. CASE UNCHANGED processVars
  BY <1>35, <1>0 DEF processVars
<1>36. QED
  BY <1>1, <1>2, <1>3, <1>4, <1>5, <1>6, <1>7, <1>8, <1>9, <1>10, <1>11, <1>12, <1>13,
     <1>14, <1>15, <1>16, <1>17, <1>18, <1>19, <1>20, <1>21, <1>22, <1>23, <1>24, <1>25,
     <1>26, <1>27, <1>28, <1>29, <1>30, <1>31, <1>32, <1>33, <1>34, <1>35
     DEF ProcessNext, Boot, Loop, Rest, Exit, Pool, CallStep

(* No call without a runtime. *)
LEMMA RuntimeStep ==
    ASSUME LinkInv, [ProcessNext]_processVars
    PROVE CallsHaveRuntime'
<1>0. LinkTypeOK /\ BootInv /\ CallInv /\ WireInv /\ CallsHaveRuntime
  BY DEF LinkInv
<1> USE WorkerProcessAssumption DEF CallsHaveRuntime, LinkTypeOK, BootInv, Bound, bootVars, linkVars, callVars
<1>1. CASE OpenPlugins
  BY <1>1, <1>0 DEF OpenPlugins, Main
<1>2. CASE BuildPlugins
  BY <1>2, <1>0 DEF BuildPlugins, Return
<1>3. CASE LoadConfig
  BY <1>3, <1>0 DEF LoadConfig, Return
<1>4. CASE LoadWorkers
  BY <1>4, <1>0 DEF LoadWorkers, Main, CollectDefs, Definitions
<1>5. CASE Connect
  BY <1>5, <1>0 DEF Connect, Return, Helper
<1>6. CASE WaitConnected
  BY <1>6, <1>0 DEF WaitConnected, Main
<1>7. CASE GiveUp
  BY <1>7, <1>0 DEF GiveUp, Return
<1>8. CASE WaitTimesOut
  BY <1>8, <1>0 DEF WaitTimesOut, Main
<1>9. CASE Retry
  BY <1>9, <1>0 DEF Retry, Return, Helper
<1>10. CASE StartServer
  BY <1>10, <1>0 DEF StartServer, Main
<1>11. CASE MainCalls
  BY <1>11, <1>0 DEF MainCalls, Send
<1>12. CASE DefsDone
  BY <1>12, <1>0 DEF DefsDone, Main, OwnTasks
<1>13. CASE TasksDone
  BY <1>13, <1>0 DEF TasksDone, Main
<1>14. CASE DestroyHandlers
  BY <1>14, <1>0 DEF DestroyHandlers, Main
<1>15. CASE DestroyClient
  BY <1>15, <1>0 DEF DestroyClient, Main
<1>16. CASE JoinPool
  BY <1>16, <1>0 DEF JoinPool, Main
<1>17. CASE RequestShutdown
  BY <1>17, <1>0 DEF RequestShutdown, Return
<1>18. CASE EngineStarts
  BY <1>18, <1>0 DEF EngineStarts
<1>19. CASE LinkDrops
  BY <1>19, <1>0 DEF LinkDrops
<1>20. ASSUME NEW x \in starting, Emplace(x) PROVE CallsHaveRuntime'
  BY <1>20, <1>0 DEF Emplace
<1>21. ASSUME NEW x \in Attempts, HandshakeLands(x) PROVE CallsHaveRuntime'
  BY <1>21, <1>0 DEF HandshakeLands, SetPromise
<1>22. ASSUME NEW x \in Attempts, HandshakeFails(x) PROVE CallsHaveRuntime'
  BY <1>22, <1>0 DEF HandshakeFails
<1>23. ASSUME NEW x \in Attempts, StoreWorker(x) PROVE CallsHaveRuntime'
  BY <1>23, <1>0 DEF StoreWorker
<1>24. ASSUME NEW x \in Attempts, Released(x) PROVE CallsHaveRuntime'
  BY <1>24, <1>0 DEF Released
<1>25. ASSUME NEW x \in Attempts, DeferredRetry(x) PROVE CallsHaveRuntime'
  BY <1>25, <1>0 DEF DeferredRetry, Helper
<1>26. ASSUME NEW x \in Slots, CreateSlot(x) PROVE CallsHaveRuntime'
  BY <1>26, <1>0 DEF CreateSlot
<1>27. ASSUME NEW x \in Slots, SlotCalls(x) PROVE CallsHaveRuntime'
  BY <1>27, <1>0 DEF SlotCalls, Send
<1>28. ASSUME NEW x \in Slots, LateTurn(x) PROVE CallsHaveRuntime'
  BY <1>28, <1>0 DEF LateTurn
<1>29. ASSUME NEW x \in Attempts, LateConnector(x) PROVE CallsHaveRuntime'
  BY <1>29, <1>0 DEF LateConnector
<1>30. ASSUME NEW x \in Callers, StoreCallback(x) PROVE CallsHaveRuntime'
  BY <1>30, <1>0 DEF StoreCallback
<1>31. ASSUME NEW x \in Callers, CallbackStored(x) PROVE CallsHaveRuntime'
  BY <1>31, <1>0 DEF CallbackStored
<1>32. ASSUME NEW x \in Callers, Answered(x) PROVE CallsHaveRuntime'
  BY <1>32, <1>0 DEF Answered
<1>33. ASSUME NEW x \in wire, Dispatch(x) PROVE CallsHaveRuntime'
  BY <1>33, <1>0 DEF Dispatch
<1>34. ASSUME NEW x \in wire, EngineAnswers(x) PROVE CallsHaveRuntime'
  BY <1>34, <1>0 DEF EngineAnswers
<1>35. CASE UNCHANGED processVars
  BY <1>35, <1>0 DEF processVars
<1>36. QED
  BY <1>1, <1>2, <1>3, <1>4, <1>5, <1>6, <1>7, <1>8, <1>9, <1>10, <1>11, <1>12, <1>13,
     <1>14, <1>15, <1>16, <1>17, <1>18, <1>19, <1>20, <1>21, <1>22, <1>23, <1>24, <1>25,
     <1>26, <1>27, <1>28, <1>29, <1>30, <1>31, <1>32, <1>33, <1>34, <1>35
     DEF ProcessNext, Boot, Loop, Rest, Exit, Pool, CallStep

(* LinkInv holds at the start of the process. *)
LEMMA LinkInit == ProcessInit => LinkInv
<1> SUFFICES ASSUME ProcessInit PROVE LinkInv
  OBVIOUS
<1>1. "main" \in Callers /\ \A c \in Callers : call[c] = Idle
  BY DEF ProcessInit, Callers
<1>2. Idle \in EngineCalls /\ Idle.st = "idle"
  BY DEF Idle, EngineCalls, Kinds
<1>3. call \in [Callers -> EngineCalls] /\ todo \in Seq(Kinds)
  BY <1>2 DEF ProcessInit
<1>3a. LinkTypeOK
  BY <1>3 DEF ProcessInit, LinkTypeOK
<1>4. CallInv
  BY <1>1, <1>2 DEF CallInv, AnswersMatch, Callers
<1>5. BootInv /\ WireInv /\ CallsHaveRuntime
  BY DEF ProcessInit, BootInv, WireInv, CallsHaveRuntime, Bound
<1>6. QED
  BY <1>3a, <1>4, <1>5 DEF LinkInv

(* One open call per stream, and main has none while slots poll. *)
LEMMA LinkSound == LinkInv => LinkIsSound
<1> SUFFICES ASSUME LinkInv PROVE RegisteredBeforeUse
  BY DEF LinkInv, CallInv, LinkIsSound
<1> SUFFICES ASSUME NEW r \in wire, NEW q \in wire, r.kind # "poll", r.kind # q.kind
             PROVE FALSE
  BY DEF RegisteredBeforeUse
<1>1. PICK c \in Callers, d \in Callers : Open(r, c) /\ Open(q, d)
  BY DEF LinkInv, WireInv
<1>2. c = "main" /\ c # d
  BY <1>1 DEF LinkInv, CallInv, Open, Callers
<1>3. QED
  BY <1>1, <1>2 DEF LinkInv, CallInv, Open, Callers, Registering, Polling

(* The link between worker and engine, for any number of slots, threads,    *)
(* attempts and calls: no call before the Registers have their runtimeSet, each *)
(* caller gets the response of its own request, whatever the order of the    *)
(* answers, and the engine has no definition and no poll at once.            *)
THEOREM LinkStaysSound == ProcessSpec => []LinkIsSound
<1>1. LinkInv /\ [ProcessNext]_processVars => LinkInv'
  BY LinkTypeStep, BootStep, CallsStep, WireStep, RuntimeStep DEF LinkInv
<1>2. QED
  BY LinkInit, LinkSound, <1>1, PTL DEF ProcessSpec

(***************************************************************************)
(* Telemetry in the engine                                                 *)
(***************************************************************************)

(* The exporter is the last plugin loaded and so the first one unloaded. *)
OtelLast == Order[Len(Order)] = "otel"

TelemetryTypeOK ==
    /\ stage \in {"load", "up", "unload", "down", "aborted"}
    /\ step \in Nat /\ sig \in 1..4 /\ flushed \in BOOLEAN
    /\ url \in [Signal -> Urls] /\ levels \in [min : Nat, stdout : Nat]
    /\ inst \in [Plugins -> {"made", "loaded", "gone"}]
    /\ backend \in [Signal -> {"none", "live", "freed"}]
    /\ queue \in [Signal -> Nat]
    /\ wired \in BOOLEAN

AllLoaded == \A p \in Plugins : inst[p] = "loaded"

(* What each stage of the host has behind it.  While a pipeline is live, all *)
(* plugins are loaded; while the exporter is torn down, no line reaches a    *)
(* pipeline, so what a flush has emptied stays empty.                        *)
StageInv ==
    /\ stage = "load" =>
        /\ step \in 1..(Len(Order) + 1) /\ sig = 1 /\ ~flushed
        /\ \A i \in 1..Len(Order) : i < step => inst[Order[i]] = "loaded"
    /\ stage = "up" => AllLoaded /\ sig = 1 /\ ~flushed
    /\ stage \in {"load", "up"} => backend["logs"] # "freed"
    /\ stage = "unload" =>
        /\ "logs" \notin registered /\ inst["otel"] # "made"
        /\ step <= Len(Order)
        /\ IF step = Len(Order) THEN AllLoaded ELSE sig = 4
        /\ \A i \in 1..3 : i < sig => backend[Signals[i]] # "live"
        /\ flushed => sig <= 3 /\ queue[Signals[sig]] = 0

ProbeInv ==
    /\ inst["otel"] = "loaded" => \A s \in Signal : HasReceiver(url[s])
    /\ stage = "aborted" /\ Order[step] = "otel" => \E s \in Signal : ~HasReceiver(url[s])

TelemetryInv ==
    /\ TelemetryTypeOK /\ StageInv /\ ProbeInv
    /\ stale = {} /\ ~dropped /\ FailureVisible

(* The signals by their place in setup and teardown. *)
LEMMA ThreeSignals ==
    /\ Signal = {"traces", "metrics", "logs"}
    /\ Signals[1] = "traces" /\ Signals[2] = "metrics" /\ Signals[3] = "logs"
<1>1. Signals = <<"traces", "metrics", "logs">> /\ DOMAIN Signals = {1, 2, 3}
  BY DEF Signals
<1>2. QED
  BY <1>1 DEF Signal, ToSet

(* The plugins by their place in the load order. *)
LEMMA OrderPlaces ==
    /\ Len(Order) \in Nat /\ Plugins = {Order[i] : i \in 1..Len(Order)}
    /\ {"otel", "logger"} \subseteq Plugins /\ Plugins \subseteq {"otel", "logger", "events"}
    /\ OtelLast => Len(Order) # 0 /\ \A i \in 1..Len(Order) : Order[i] = "otel" <=> i = Len(Order)
<1>1. Order \in Seq({"otel", "logger", "events"}) /\ DOMAIN Order = 1..Len(Order) /\ Len(Order) \in Nat
  BY OrderAssumption
<1>2. Plugins = {Order[i] : i \in 1..Len(Order)} /\ {"otel", "logger"} \subseteq Plugins
  BY <1>1, OrderAssumption DEF Plugins, ToSet
<1>3. Plugins \subseteq {"otel", "logger", "events"}
  BY <1>1, <1>2
<1>4. Len(Order) # 0
  BY <1>1, <1>2
<1>5. OtelLast => \A i \in 1..Len(Order) : Order[i] = "otel" <=> i = Len(Order)
  <2>1. \A a, b \in 1..Len(Order) : Order[a] = Order[b] => a = b
    BY <1>1, OrderAssumption, Zenon DEF IsInjective
  <2>2. Len(Order) \in 1..Len(Order)
    BY <1>1, <1>4
  <2>3. QED
    BY <2>1, <2>2, Zenon DEF OtelLast
<1>6. QED
  BY <1>1, <1>2, <1>3, <1>4, <1>5

(* The probe of an endpoint finds exactly the urls that have a receiver. *)
LEMMA ProbeIsExact == \A u \in Urls : Reachable(u) <=> HasReceiver(u)
<1> SUFFICES ASSUME NEW u \in Urls PROVE Reachable(u) <=> HasReceiver(u)
  OBVIOUS
<1> DEFINE e == ""
<1>1. e # "host" /\ e # "4318" /\ e # "80" /\ e # "443"
  BY Zenon
<1>2. /\ u.https \in BOOLEAN
      /\ u.authority \in {<<"host">>, <<"host", "4318">>, <<e, "80">>}
      /\ u.addrs \in {<<>>, <<"refused", "200">>} \cup {<<p>> : p \in Peers}
  BY DEF Urls
<1>3. /\ Reachable(u) <=>
            /\ ParseUrl(u).host # e /\ ParseUrl(u).port # e
            /\ \E i \in DOMAIN u.addrs :
                  ConnectWithTimeout(u.addrs[i]) /\ (ParseUrl(u).is_https \/ HttpOk(u.addrs[i]))
      /\ HasReceiver(u) <=>
            /\ u.authority[1] # e
            /\ "200" \in ToSet(u.addrs) \/ (u.https /\ ToSet(u.addrs) \cap {"silent", "garbled", "404"} # {})
  BY Zenon DEF Reachable, HasReceiver
<1> HIDE DEF e
<1>4. ParseUrl(u).host = u.authority[1] /\ ParseUrl(u).is_https = u.https /\ ParseUrl(u).port # e
  BY <1>1, <1>2 DEF ParseUrl
<1>5. (\E i \in DOMAIN u.addrs : ConnectWithTimeout(u.addrs[i]) /\ (u.https \/ HttpOk(u.addrs[i])))
       <=> "200" \in ToSet(u.addrs) \/ (u.https /\ ToSet(u.addrs) \cap {"silent", "garbled", "404"} # {})
  <2>1. CASE u.addrs = <<>>
    BY <2>1 DEF ToSet
  <2>2. CASE u.addrs = <<"refused", "200">>
    <3>1. DOMAIN u.addrs = {1, 2} /\ u.addrs[1] = "refused" /\ u.addrs[2] = "200"
      BY <2>2
    <3>2. QED
      BY <3>1 DEF ToSet, ConnectWithTimeout, HttpOk
  <2>3. ASSUME NEW p \in Peers, u.addrs = <<p>>
        PROVE  (\E i \in DOMAIN u.addrs : ConnectWithTimeout(u.addrs[i]) /\ (u.https \/ HttpOk(u.addrs[i])))
               <=> "200" \in ToSet(u.addrs) \/ (u.https /\ ToSet(u.addrs) \cap {"silent", "garbled", "404"} # {})
    <3>1. DOMAIN u.addrs = {1} /\ u.addrs[1] = p
      BY <2>3
    <3>2. QED
      BY <3>1 DEF ToSet, ConnectWithTimeout, HttpOk, Peers
  <2>4. QED
    BY <1>2, <2>1, <2>2, <2>3
<1>6. QED
  BY <1>3, <1>4, <1>5

(* Levels are numbers; a warning is 3. *)
LEMMA Thresholds ==
    /\ \A w : ParseLevel(w) \in Nat
    /\ ParseLevel("warning") = 3
BY DEF ParseLevel

(* No line becomes a record once the log providers are detached. *)
LEMMA Unforwarded ==
    ASSUME "logs" \notin registered, NEW lines
    PROVE  Forwarded(lines) = 0
<1>1. {l \in lines : BridgeForwards(l)} = {}
  BY DEF BridgeForwards
<1>2. QED
  BY <1>1, FS_EmptySet DEF Forwarded

(* An export writes finitely many lines, so they can be counted. *)
LEMMA FewLines ==
    ASSUME NEW ok, NEW sdk \in Handle
    PROVE  Forwarded(ExportLines(ok, sdk)) \in Nat
<1> DEFINE a == {Line("debug", "otel")}
           b == IF ok THEN {} ELSE {Line("warning", "otel")}
           c == IF ~ok /\ NoSink THEN {Line("debug", "events")} ELSE {}
<1>1. IsFiniteSet(a) /\ IsFiniteSet(b) /\ IsFiniteSet(c) /\ IsFiniteSet(sdk)
  <2>1. IsFiniteSet({}) /\ \A x : IsFiniteSet({x})
    BY FS_EmptySet, FS_Singleton
  <2>2. IsFiniteSet(a) /\ IsFiniteSet(b) /\ IsFiniteSet(c)
    BY <2>1, Zenon
  <2>3. IsFiniteSet(sdk)
    BY <2>1, Zenon DEF Handle
  <2>4. QED
    BY <2>2, <2>3
<1>2. IsFiniteSet(((a \cup b) \cup c) \cup sdk)
  BY <1>1, FS_Union
<1>3. IsFiniteSet(ExportLines(ok, sdk))
  BY <1>2 DEF ExportLines
<1>4. IsFiniteSet({l \in ExportLines(ok, sdk) : BridgeForwards(l)})
  BY <1>3, FS_Subset
<1>5. QED
  BY <1>4, FS_CardinalityType DEF Forwarded

(* While a pipeline is live an export leaves the plugins as they are, calls  *)
(* nothing that is gone, and fills no queue once the host shuts down.        *)
LEMMA Exported ==
    ASSUME TelemetryInv, OtelLast, stage \in {"up", "unload"}, AllLoaded,
           NEW s \in Signal, NEW ok, Export(s, ok),
           stage = "up" => backend["logs"] # "freed", UNCHANGED levels
    PROVE  /\ inst' = inst /\ stale' = {} /\ FailureVisible'
           /\ queue' \in [Signal -> Nat]
           /\ stage = "unload" =>
                /\ queue'[s] = 0
                /\ \A t \in Signal : queue[t] = 0 => queue'[t] = 0
<1> DEFINE left == [queue EXCEPT ![s] = 0]
<1>1. PICK sdk \in IF ok THEN {{}} ELSE Handle :
        /\ queue' = [left EXCEPT !["logs"] =
               IF backend["logs"] = "live" THEN Enqueue(left["logs"], Forwarded(ExportLines(ok, sdk)))
               ELSE left["logs"]]
        /\ inst' = [inst EXCEPT !["logger"] = LoggerAfterLine]
        /\ stale' = stale \cup LogBackendCalls(ExportLines(ok, sdk)) \cup SinkCalls(ok)
        /\ unseen' = (unseen \/ (~ok /\ ~\E l \in ExportLines(ok, sdk) :
                         l.level # "debug" /\ LineVisible(l, LoggerAfterLine)))
  BY DEF Export
<1>2. sdk \in Handle
  BY DEF Handle
<1>3. "logger" \in Plugins /\ inst["logger"] = "loaded" /\ LoggerAfterLine = "loaded"
  BY OrderPlaces DEF AllLoaded, LoggerAfterLine
<1>4. inst' = inst
  BY <1>1, <1>3 DEF TelemetryInv, TelemetryTypeOK
<1>5. stage = "unload" => Forwarded(ExportLines(ok, sdk)) = 0
  BY Unforwarded DEF TelemetryInv, StageInv
<1>6. LogBackendCalls(ExportLines(ok, sdk)) = {}
  <2>1. CASE stage = "up"
    BY <2>1 DEF LogBackendCalls
  <2>2. CASE stage = "unload"
    BY <2>2, <1>5 DEF LogBackendCalls
  <2>3. QED
    BY <2>1, <2>2
<1>7. SinkCalls(ok) = {}
  BY DEF SinkCalls, NoSink, AllLoaded
<1>8. stale' = {}
  BY <1>1, <1>6, <1>7 DEF TelemetryInv
<1>9. FailureVisible'
  <2>1. CASE unseen
    BY <2>1 DEF TelemetryInv, FailureVisible
  <2>2. CASE ~unseen /\ unseen'
    <3>1. ~ok /\ ~\E l \in ExportLines(ok, sdk) : l.level # "debug" /\ LineVisible(l, LoggerAfterLine)
      BY <1>1, <2>2
    <3>2. Line("warning", "otel") \in ExportLines(ok, sdk)
      BY <3>1 DEF ExportLines
    <3>3. Line("warning", "otel").level = "warning"
      BY DEF Line
    <3>4. ~LineVisible(Line("warning", "otel"), "loaded")
      BY <1>3, <3>1, <3>2, <3>3
    <3>5. levels.min \in Nat /\ levels.stdout \in Nat
      BY DEF TelemetryInv, TelemetryTypeOK
    <3>6. QED
      BY <3>3, <3>4, <3>5, Thresholds DEF LineVisible, FailureVisible
  <2>3. QED
    BY <2>1, <2>2 DEF FailureVisible
<1>10. left \in [Signal -> Nat] /\ left[s] = 0 /\ \A t \in Signal : queue[t] = 0 => left[t] = 0
  BY DEF TelemetryInv, TelemetryTypeOK
<1>11. Forwarded(ExportLines(ok, sdk)) \in Nat
  BY <1>2, FewLines
<1>12. PICK n : n = IF backend["logs"] = "live" THEN Enqueue(left["logs"], Forwarded(ExportLines(ok, sdk)))
                    ELSE left["logs"]
  OBVIOUS
<1>13. n \in Nat /\ (Forwarded(ExportLines(ok, sdk)) = 0 /\ left["logs"] = 0 => n = 0)
  BY <1>10, <1>11, <1>12, BoundAssumption, ThreeSignals DEF Enqueue
<1>14. queue' = [left EXCEPT !["logs"] = n]
  BY <1>1, <1>12
<1> HIDE DEF left
<1>15. QED
  BY <1>4, <1>5, <1>8, <1>9, <1>10, <1>13, <1>14, ThreeSignals

(* The export of a signal is an export with some outcome. *)
LEMMA ExportOne ==
    ASSUME NEW s \in Signal, ExportOf(s)
    PROVE  \E ok : Export(s, ok)
BY ThreeSignals DEF ExportOf, ExportSpans, ExportMetrics, ExportLogs

(* TelemetryInv is an inductive invariant, and it implies the property. *)
LEMMA TelemetryInitially == OtelLast /\ TelemetryInit => TelemetryInv
<1> SUFFICES ASSUME OtelLast, TelemetryInit PROVE TelemetryInv
  OBVIOUS
<1>1. GoodUrl \in Urls
  BY DEF GoodUrl, Urls, Peers
<1>2. PICK v \in Signal, u \in Urls : url = [t \in Signal |-> IF t = v THEN u ELSE GoodUrl]
  BY DEF TelemetryInit
<1>3. url \in [Signal -> Urls]
  BY <1>1, <1>2
<1>4. levels \in [min : Nat, stdout : Nat]
  <2>1. {ParseLevel(w) : w \in {"debug", "unknown", "error"}} \subseteq Nat
    BY Thresholds
  <2>2. {ParseLevel(w) : w \in {"important", "fatal"}} \subseteq Nat
    BY Thresholds
  <2>3. levels \in [min : {ParseLevel(w) : w \in {"debug", "unknown", "error"}},
                   stdout : {ParseLevel(w) : w \in {"important", "fatal"}}]
    BY DEF TelemetryInit
  <2>4. QED
    BY <2>1, <2>2, <2>3
<1>5. TelemetryTypeOK
  <2>1. /\ stage = "load" /\ step = 1 /\ sig = 1 /\ flushed = FALSE /\ wired = FALSE
        /\ inst = [p \in Plugins |-> "made"] /\ backend = [s \in Signal |-> "none"]
        /\ queue = [s \in Signal |-> 0]
    BY DEF TelemetryInit
  <2>2. step \in Nat /\ sig \in 1..4
    BY <2>1
  <2>3. flushed \in BOOLEAN /\ wired \in BOOLEAN /\ stage \in {"load", "up", "unload", "down", "aborted"}
    BY <2>1, Zenon
  <2>4. /\ inst \in [Plugins -> {"made", "loaded", "gone"}]
        /\ backend \in [Signal -> {"none", "live", "freed"}] /\ queue \in [Signal -> Nat]
    BY <2>1
  <2>5. QED
    BY <1>3, <1>4, <2>2, <2>3, <2>4 DEF TelemetryTypeOK
<1>6. Len(Order) \in Nat /\ "otel" \in Plugins /\ "logs" \in Signal
  BY OrderPlaces, ThreeSignals
<1>7. StageInv
  BY <1>6 DEF TelemetryInit, StageInv
<1>8. ProbeInv
  BY <1>6 DEF TelemetryInit, ProbeInv
<1>9. stale = {} /\ ~dropped /\ FailureVisible
  BY DEF TelemetryInit, FailureVisible
<1>10. QED
  BY <1>5, <1>7, <1>8, <1>9 DEF TelemetryInv

(* Every step of the host, the plugins and the SDK keeps TelemetryInv. *)
LEMMA TelemetryStep ==
    ASSUME TelemetryInv, OtelLast, Host = "engine", [TelemetryNext]_telemetryVars
    PROVE  TelemetryInv'
<1>0. /\ TelemetryTypeOK /\ StageInv /\ ProbeInv /\ stale = {} /\ ~dropped /\ FailureVisible
      /\ "logs" \in Signal /\ "traces" \in Signal /\ "metrics" \in Signal
      /\ "otel" \in Plugins /\ "logger" \in Plugins
  BY OrderPlaces, ThreeSignals DEF TelemetryInv
<1> USE BoundAssumption DEF static
<1>1. CASE OnLoadLogger
  <2>0. \/ /\ stage' = stage /\ step' = step + 1 /\ inst' = [inst EXCEPT !["logger"] = "loaded"]
        \/ stage' = "aborted" /\ step' = step /\ inst' = inst
    BY <1>1 DEF OnLoadLogger
  <2>1. TelemetryTypeOK'
    <3>1. step' \in Nat
      BY <1>0, <2>0 DEF TelemetryTypeOK
    <3>2. inst' \in [Plugins -> {"made", "loaded", "gone"}]
      BY <1>0, <2>0 DEF TelemetryTypeOK
    <3>3. stage' \in {"load", "up", "unload", "down", "aborted"}
      BY <1>0, <2>0 DEF TelemetryTypeOK
    <3>4. QED
      BY <1>1, <1>0, <3>1, <3>2, <3>3 DEF TelemetryTypeOK, OnLoadLogger
  <2>2. StageInv'
    <3>1. CASE stage' = stage
      <4>1. /\ stage' = "load" /\ step' = step + 1 /\ inst' = [inst EXCEPT !["logger"] = "loaded"]
            /\ step <= Len(Order) /\ Order[step] = "logger" /\ sig' = sig /\ flushed' = flushed
            /\ backend' = backend /\ stage = "load"
        BY <1>1, <2>0, <3>1 DEF OnLoadLogger
      <4>2. \A i \in 1..Len(Order) : i < step' => inst'[Order[i]] = "loaded"
        <5>1. ASSUME NEW i \in 1..Len(Order), i < step' PROVE i < step \/ i = step
          BY <1>0, <4>1, <5>1, OrderPlaces DEF TelemetryTypeOK
        <5>2. \A i \in 1..Len(Order) : inst'[Order[i]] = IF Order[i] = "logger" THEN "loaded" ELSE inst[Order[i]]
          BY <1>0, <4>1, OrderPlaces DEF TelemetryTypeOK
        <5>3. QED
          BY <1>0, <4>1, <5>1, <5>2 DEF StageInv
      <4>3. step' \in 1..(Len(Order) + 1)
        BY <1>0, <4>1, OrderPlaces DEF TelemetryTypeOK
      <4>4. QED
        BY <1>0, <4>1, <4>2, <4>3 DEF StageInv
    <3>2. CASE stage' = "aborted"
      BY <3>2 DEF StageInv
    <3>3. QED
      BY <2>0, <3>1, <3>2
  <2>3. ProbeInv'
    <3>1. inst'["otel"] = inst["otel"]
      BY <1>0, <2>0 DEF TelemetryTypeOK
    <3>2. Order[step] = "logger" /\ url' = url /\ stage = "load"
      BY <1>1 DEF OnLoadLogger
    <3>3. QED
      BY <1>0, <2>0, <3>1, <3>2 DEF ProbeInv
  <2>4. stale' = {} /\ ~dropped' /\ FailureVisible'
    BY <1>1, <1>0 DEF FailureVisible, OnLoadLogger
  <2>5. QED
    BY <2>1, <2>2, <2>3, <2>4 DEF TelemetryInv
<1>2. CASE OnLoadEvents
  <2>1. TelemetryTypeOK'
    <3>1. step' \in Nat
      BY <1>2, <1>0 DEF TelemetryTypeOK, OnLoadEvents
    <3>2. inst' \in [Plugins -> {"made", "loaded", "gone"}]
      BY <1>2, <1>0 DEF TelemetryTypeOK, OnLoadEvents
    <3>3. QED
      BY <1>2, <1>0, <3>1, <3>2 DEF TelemetryTypeOK, OnLoadEvents
  <2>2. StageInv'
    BY <1>2, <1>0, OrderPlaces DEF TelemetryTypeOK, StageInv, AllLoaded, OnLoadEvents
  <2>3. ProbeInv'
    BY <1>2, <1>0, OrderPlaces DEF TelemetryTypeOK, StageInv, AllLoaded, ProbeInv, OnLoadEvents
  <2>4. stale' = {} /\ ~dropped' /\ FailureVisible'
    BY <1>2, <1>0 DEF FailureVisible, OnLoadEvents
  <2>5. QED
    BY <2>1, <2>2, <2>3, <2>4 DEF TelemetryInv
<1>3. CASE Wire
  <2>1. TelemetryTypeOK'
    BY <1>3, <1>0 DEF TelemetryTypeOK, Wire
  <2>2. StageInv'
    BY <1>3, <1>0, OrderPlaces DEF TelemetryTypeOK, StageInv, AllLoaded, Wire
  <2>3. ProbeInv'
    BY <1>3, <1>0 DEF ProbeInv, Wire
  <2>4. stale' = {} /\ ~dropped' /\ FailureVisible'
    BY <1>3, <1>0 DEF FailureVisible, Wire
  <2>5. QED
    BY <2>1, <2>2, <2>3, <2>4 DEF TelemetryInv
<1>4. CASE StartSpan
  <2>1. TelemetryTypeOK'
    BY <1>4, <1>0 DEF TelemetryTypeOK, StartSpan
  <2>2. StageInv'
    BY <1>4, <1>0 DEF StageInv, AllLoaded, StartSpan
  <2>3. ProbeInv'
    BY <1>4, <1>0 DEF ProbeInv, StartSpan
  <2>4. stale' = {} /\ ~dropped' /\ FailureVisible'
    BY <1>4, <1>0 DEF FailureVisible, StartSpan
  <2>5. QED
    BY <2>1, <2>2, <2>3, <2>4 DEF TelemetryInv
<1>5. CASE EndSpan
  <2>1. TelemetryTypeOK'
    <3>1. queue' \in [Signal -> Nat]
      BY <1>5, <1>0 DEF TelemetryTypeOK, EndSpan, Enqueue
    <3>2. QED
      BY <1>5, <1>0, <3>1 DEF TelemetryTypeOK, EndSpan
  <2>2. StageInv'
    BY <1>5, <1>0 DEF StageInv, AllLoaded, EndSpan
  <2>3. ProbeInv'
    BY <1>5, <1>0 DEF ProbeInv, EndSpan
  <2>4. stale' = {} /\ ~dropped' /\ FailureVisible'
    BY <1>5, <1>0 DEF FailureVisible, EndSpan
  <2>5. QED
    BY <2>1, <2>2, <2>3, <2>4 DEF TelemetryInv
<1>6. CASE RecordMetric
  <2>1. TelemetryTypeOK'
    <3>1. queue' \in [Signal -> Nat]
      BY <1>6, <1>0 DEF TelemetryTypeOK, RecordMetric, Record
    <3>2. QED
      BY <1>6, <1>0, <3>1 DEF TelemetryTypeOK, RecordMetric
  <2>2. StageInv'
    BY <1>6, <1>0 DEF StageInv, AllLoaded, RecordMetric, Record
  <2>3. ProbeInv'
    BY <1>6, <1>0 DEF ProbeInv, RecordMetric
  <2>4. stale' = {} /\ ~dropped' /\ FailureVisible'
    BY <1>6, <1>0 DEF FailureVisible, RecordMetric
  <2>5. QED
    BY <2>1, <2>2, <2>3, <2>4 DEF TelemetryInv
<1>7. CASE LogLine
  <2>1. TelemetryTypeOK'
    <3>1. inst' = inst
      BY <1>7, <1>0 DEF TelemetryTypeOK, StageInv, AllLoaded, LogLine, LoggerAfterLine
    <3>2. queue' \in [Signal -> Nat]
      BY <1>7, <1>0 DEF TelemetryTypeOK, LogLine, Record, Enqueue
    <3>3. QED
      BY <1>7, <1>0, <3>1, <3>2 DEF TelemetryTypeOK, LogLine
  <2>2. StageInv'
    BY <1>7, <1>0 DEF TelemetryTypeOK, StageInv, AllLoaded, LogLine, LoggerAfterLine
  <2>3. ProbeInv'
    BY <1>7, <1>0 DEF TelemetryTypeOK, StageInv, AllLoaded, ProbeInv, LogLine, LoggerAfterLine
  <2>4. stale' = {} /\ ~dropped' /\ FailureVisible'
    BY <1>7, <1>0 DEF FailureVisible, LogLine
  <2>5. QED
    BY <2>1, <2>2, <2>3, <2>4 DEF TelemetryInv
<1>8. CASE CollectorFlips
  <2>1. TelemetryTypeOK'
    BY <1>8, <1>0 DEF TelemetryTypeOK, CollectorFlips
  <2>2. StageInv'
    BY <1>8, <1>0 DEF StageInv, AllLoaded, CollectorFlips
  <2>3. ProbeInv'
    BY <1>8, <1>0 DEF ProbeInv, CollectorFlips
  <2>4. stale' = {} /\ ~dropped' /\ FailureVisible'
    BY <1>8, <1>0 DEF FailureVisible, CollectorFlips
  <2>5. QED
    BY <2>1, <2>2, <2>3, <2>4 DEF TelemetryInv
<1>9. CASE Shutdown
  <2>1. TelemetryTypeOK'
    BY <1>9, <1>0, OrderPlaces DEF TelemetryTypeOK, Shutdown
  <2>2. StageInv'
    <3>1. /\ stage = "up" /\ stage' = "unload" /\ step' = Len(Order)
          /\ sig' = sig /\ flushed' = flushed /\ inst' = inst
      BY <1>9 DEF Shutdown
    <3>2. "logs" \notin registered'
      BY <1>9 DEF Shutdown, DetachLogProviders
    <3>3. AllLoaded /\ AllLoaded' /\ sig' = 1 /\ ~flushed'
      BY <1>0, <3>1 DEF StageInv, AllLoaded
    <3>4. QED
      BY <1>0, <3>1, <3>2, <3>3, OrderPlaces DEF StageInv, AllLoaded
  <2>3. ProbeInv'
    BY <1>9, <1>0 DEF ProbeInv, Shutdown
  <2>4. stale' = {} /\ ~dropped' /\ FailureVisible'
    BY <1>9, <1>0 DEF FailureVisible, Shutdown
  <2>5. QED
    BY <2>1, <2>2, <2>3, <2>4 DEF TelemetryInv
<1>10. CASE OnUnloadSimple
  <2>1. TelemetryTypeOK'
    <3>1. step' \in Nat
      BY <1>10, <1>0 DEF TelemetryTypeOK, OnUnloadSimple
    <3>2. inst' \in [Plugins -> {"made", "loaded", "gone"}]
      BY <1>10, <1>0 DEF TelemetryTypeOK, OnUnloadSimple
    <3>3. QED
      BY <1>10, <1>0, <3>1, <3>2 DEF TelemetryTypeOK, OnUnloadSimple
  <2>2. StageInv'
    BY <1>10, <1>0, OrderPlaces DEF TelemetryTypeOK, StageInv, AllLoaded, OnUnloadSimple
  <2>3. ProbeInv'
    BY <1>10, <1>0, OrderPlaces DEF TelemetryTypeOK, StageInv, AllLoaded, ProbeInv, OnUnloadSimple
  <2>4. stale' = {} /\ ~dropped' /\ FailureVisible'
    BY <1>10, <1>0 DEF FailureVisible, OnUnloadSimple
  <2>5. QED
    BY <2>1, <2>2, <2>3, <2>4 DEF TelemetryInv
<1>11. CASE OnUnloadOtelEnds
  <2>1. TelemetryTypeOK'
    BY <1>11, <1>0, OrderPlaces DEF TelemetryTypeOK, OnUnloadOtelEnds
  <2>2. StageInv'
    BY <1>11, <1>0, OrderPlaces DEF TelemetryTypeOK, StageInv, AllLoaded, OnUnloadOtelEnds
  <2>3. ProbeInv'
    BY <1>11, <1>0, OrderPlaces DEF TelemetryTypeOK, StageInv, AllLoaded, ProbeInv, OnUnloadOtelEnds
  <2>4. stale' = {} /\ ~dropped' /\ FailureVisible'
    BY <1>11, <1>0 DEF FailureVisible, OnUnloadOtelEnds
  <2>5. QED
    BY <2>1, <2>2, <2>3, <2>4 DEF TelemetryInv
<1>12. CASE ClosedAll
  <2>1. TelemetryTypeOK'
    BY <1>12, <1>0 DEF TelemetryTypeOK, ClosedAll
  <2>2. StageInv'
    BY <1>12, <1>0 DEF StageInv, AllLoaded, ClosedAll
  <2>3. ProbeInv'
    BY <1>12, <1>0 DEF ProbeInv, ClosedAll
  <2>4. stale' = {} /\ ~dropped' /\ FailureVisible'
    BY <1>12, <1>0 DEF FailureVisible, ClosedAll
  <2>5. QED
    BY <2>1, <2>2, <2>3, <2>4 DEF TelemetryInv
<1>13. CASE Stopped
  <2>1. TelemetryTypeOK'
    BY <1>13, <1>0 DEF TelemetryTypeOK, Stopped, telemetryVars
  <2>2. StageInv'
    BY <1>13, <1>0 DEF StageInv, AllLoaded, Stopped, telemetryVars
  <2>3. ProbeInv'
    BY <1>13, <1>0 DEF ProbeInv, Stopped, telemetryVars
  <2>4. stale' = {} /\ ~dropped' /\ FailureVisible'
    BY <1>13, <1>0 DEF FailureVisible, Stopped, telemetryVars
  <2>5. QED
    BY <2>1, <2>2, <2>3, <2>4 DEF TelemetryInv
<1>14. CASE OnLoadOtel
  <2>0. (\A s \in Signal : Reachable(url[s])) <=> \A s \in Signal : HasReceiver(url[s])
    BY <1>0, ProbeIsExact DEF TelemetryTypeOK
  <2>1. CASE \A s \in Signal : Reachable(url[s])
    <3>1. /\ stage = "load" /\ stage' = "load" /\ step' = step + 1
          /\ step <= Len(Order) /\ Order[step] = "otel"
          /\ inst' = [inst EXCEPT !["otel"] = "loaded"]
          /\ backend' = SetupLogs(SetupMetrics(SetupTraces(backend)))
      BY <1>14, <2>1 DEF OnLoadOtel
    <3>2. backend' \in [Signal -> {"none", "live", "freed"}] /\ backend'["logs"] = "live"
      BY <1>0, <3>1 DEF TelemetryTypeOK, SetupTraces, SetupMetrics, SetupLogs
    <3>3. TelemetryTypeOK'
      <4>1. step' \in Nat
        BY <1>0, <3>1 DEF TelemetryTypeOK
      <4>2. inst' \in [Plugins -> {"made", "loaded", "gone"}]
        BY <1>0, <3>1 DEF TelemetryTypeOK
      <4>3. QED
        BY <1>14, <1>0, <3>1, <3>2, <4>1, <4>2 DEF TelemetryTypeOK, OnLoadOtel
    <3>4. StageInv'
      BY <1>14, <1>0, <3>1, <3>2, OrderPlaces DEF TelemetryTypeOK, StageInv, OnLoadOtel
    <3>5. ProbeInv'
      BY <1>14, <1>0, <2>0, <2>1, <3>1 DEF ProbeInv, OnLoadOtel
    <3>6. stale' = {} /\ ~dropped' /\ FailureVisible'
      BY <1>14, <1>0 DEF FailureVisible, OnLoadOtel
    <3>7. QED
      BY <3>3, <3>4, <3>5, <3>6 DEF TelemetryInv
  <2>2. CASE ~\A s \in Signal : Reachable(url[s])
    <3>1. stage' = "aborted" /\ step' = step /\ backend' = backend /\ inst' = inst
      BY <1>14, <2>2 DEF OnLoadOtel, BuildFails
    <3>2. TelemetryTypeOK' /\ StageInv'
      BY <1>14, <1>0, <3>1 DEF TelemetryTypeOK, StageInv, OnLoadOtel
    <3>3. ProbeInv'
      BY <1>14, <1>0, <2>0, <2>2, <3>1 DEF ProbeInv, OnLoadOtel
    <3>4. stale' = {} /\ ~dropped' /\ FailureVisible'
      BY <1>14, <1>0 DEF FailureVisible, OnLoadOtel
    <3>5. QED
      BY <3>2, <3>3, <3>4 DEF TelemetryInv
  <2>3. QED
    BY <2>1, <2>2
<1>15. ASSUME NEW s \in Signal, BatchThread(s)
       PROVE  TelemetryInv'
  <2>1. stage \in {"up", "unload"} /\ backend[s] = "live" /\ levels' = levels
    BY <1>15 DEF BatchThread
  <2>2. AllLoaded /\ (stage = "up" => backend["logs"] # "freed")
    BY <1>0, <2>1, ThreeSignals DEF StageInv
  <2>3. PICK ok : Export(s, ok)
    BY <1>15, ExportOne DEF BatchThread
  <2>4. /\ inst' = inst /\ stale' = {} /\ FailureVisible' /\ queue' \in [Signal -> Nat]
        /\ stage = "unload" => \A t \in Signal : queue[t] = 0 => queue'[t] = 0
    BY <2>1, <2>2, <2>3, Exported
  <2>5. TelemetryTypeOK'
    BY <1>15, <1>0, <2>4 DEF TelemetryTypeOK, BatchThread
  <2>6. StageInv'
    <3>1. stage = "unload" /\ flushed => queue'[Signals[sig]] = 0
      BY <1>0, <2>4, ThreeSignals DEF TelemetryTypeOK, StageInv
    <3>2. QED
      BY <1>15, <1>0, <2>4, <3>1 DEF StageInv, AllLoaded, BatchThread
  <2>7. ProbeInv' /\ ~dropped'
    BY <1>15, <1>0, <2>4 DEF ProbeInv, BatchThread
  <2>8. QED
    BY <2>4, <2>5, <2>6, <2>7 DEF TelemetryInv
<1>16. CASE OnUnloadFlush
  <2>1. /\ stage = "unload" /\ sig \in 1..3 /\ step = Len(Order) /\ Signals[sig] \in Signal
        /\ levels' = levels
    BY <1>16, <1>0, OrderPlaces, ThreeSignals DEF OnUnloadFlush, TelemetryTypeOK, StageInv
  <2>2. AllLoaded
    BY <1>0, <2>1 DEF StageInv
  <2>3. /\ inst' = inst /\ stale' = {} /\ FailureVisible' /\ queue' \in [Signal -> Nat]
        /\ queue'[Signals[sig]] = 0
    <3>1. CASE ExportOf(Signals[sig])
      <4>1. PICK ok : Export(Signals[sig], ok)
        BY <2>1, <3>1, ExportOne
      <4>2. QED
        BY <2>1, <2>2, <4>1, Exported
    <3>2. CASE queue[Signals[sig]] = 0 /\ UNCHANGED <<queue, inst, stale, unseen>>
      BY <1>0, <2>1, <3>2 DEF TelemetryTypeOK, FailureVisible
    <3>3. QED
      BY <1>16, <3>1, <3>2 DEF OnUnloadFlush
  <2>4. TelemetryTypeOK'
    BY <1>16, <1>0, <2>3 DEF TelemetryTypeOK, OnUnloadFlush
  <2>5. StageInv'
    BY <1>16, <1>0, <2>1, <2>3 DEF StageInv, AllLoaded, OnUnloadFlush
  <2>6. ProbeInv' /\ ~dropped'
    BY <1>16, <1>0, <2>3 DEF ProbeInv, OnUnloadFlush
  <2>7. QED
    BY <2>3, <2>4, <2>5, <2>6 DEF TelemetryInv
<1>17. CASE OnUnloadReset
  <2> DEFINE s == Signals[sig]
             f == Forwarded({Line("warning", "otel_sdk")})
  <2>1. /\ stage = "unload" /\ sig \in 1..3 /\ step = Len(Order) /\ s \in Signal
        /\ stage' = stage /\ step' = step /\ sig' = sig + 1 /\ flushed' = FALSE
    <3>1. /\ stage = "unload" /\ step > 0 /\ Order[step] = "otel" /\ sig <= 3
          /\ stage' = stage /\ step' = step /\ sig' = sig + 1 /\ flushed' = FALSE
      BY <1>17 DEF OnUnloadReset
    <3>2. step = Len(Order) /\ sig \in 1..3
      BY <1>0, <3>1, OrderPlaces DEF TelemetryTypeOK, StageInv
    <3>3. QED
      BY <3>1, <3>2, ThreeSignals
  <2>2. AllLoaded /\ f = 0
    BY <1>0, <2>1, Unforwarded DEF StageInv
  <2>3. /\ inst' = inst /\ stale' = {} /\ ~dropped' /\ queue' \in [Signal -> Nat]
        /\ backend' \in [Signal -> {"none", "live", "freed"}]
        /\ backend'[s] # "live" /\ \A t \in Signal : t # s => backend'[t] = backend[t]
    <3>1. CASE backend[s] = "none"
      BY <1>17, <1>0, <2>1, <3>1 DEF OnUnloadReset, TelemetryTypeOK
    <3>2. CASE backend[s] # "none"
      <4>1. /\ flushed /\ backend' = [backend EXCEPT ![s] = "freed"]
            /\ dropped' = (dropped \/ queue[s] > 0)
            /\ queue' = [queue EXCEPT ![s] = 0, !["logs"] = IF s = "logs" THEN 0 ELSE Enqueue(@, f)]
            /\ inst' = [inst EXCEPT !["logger"] = LoggerAfterLine]
            /\ stale' = stale \cup (IF s = "logs" /\ f > 0 THEN {"log backend"} ELSE {})
        BY <1>17, <3>2 DEF OnUnloadReset, FlushFirst
      <4>2. queue[s] = 0
        BY <1>0, <2>1, <4>1 DEF StageInv
      <4>3. inst' = inst
        BY <1>0, <2>2, <4>1 DEF AllLoaded, LoggerAfterLine, TelemetryTypeOK
      <4>4. stale' = {} /\ ~dropped'
        <5>0. ~(f > 0) /\ ~(queue[s] > 0)
          BY <2>2, <4>2
        <5>1. stale' = stale \cup {}
          BY <4>1, <5>0, Zenon
        <5>2. ~dropped'
          BY <1>0, <4>1, <5>0, Zenon
        <5>3. QED
          BY <1>0, <5>1, <5>2
      <4>5. queue' \in [Signal -> Nat]
        BY <1>0, <2>1, <2>2, <4>1 DEF TelemetryTypeOK, Enqueue
      <4>6. QED
        BY <1>0, <2>1, <4>1, <4>3, <4>4, <4>5 DEF TelemetryTypeOK
    <3>3. QED
      BY <3>1, <3>2
  <2>4. TelemetryTypeOK'
    <3>1. sig' \in 1..4
      BY <2>1
    <3>2. QED
      BY <1>17, <1>0, <2>1, <2>3, <3>1 DEF TelemetryTypeOK, OnUnloadReset
  <2>5. StageInv'
    <3>1. \A i \in 1..3 : i < sig' => backend'[Signals[i]] # "live"
      BY <1>0, <2>1, <2>3, ThreeSignals DEF StageInv
    <3>2. registered' = registered
      BY <1>17 DEF OnUnloadReset
    <3>3. QED
      BY <1>0, <2>1, <2>2, <2>3, <3>1, <3>2 DEF StageInv, AllLoaded
  <2>6. ProbeInv' /\ FailureVisible'
    BY <1>17, <1>0, <2>1, <2>3 DEF ProbeInv, FailureVisible, OnUnloadReset
  <2>7. QED
    BY <2>3, <2>4, <2>5, <2>6 DEF TelemetryInv
<1>18. CASE UNCHANGED telemetryVars
  <2>1. TelemetryTypeOK' /\ ProbeInv' /\ stale' = {} /\ ~dropped' /\ FailureVisible'
    BY <1>18, <1>0 DEF telemetryVars, TelemetryTypeOK, ProbeInv, FailureVisible
  <2>2. StageInv'
    BY <1>18, <1>0 DEF telemetryVars, StageInv, AllLoaded
  <2>3. QED
    BY <2>1, <2>2 DEF TelemetryInv
<1>19. QED
  BY <1>1, <1>2, <1>3, <1>4, <1>5, <1>6, <1>7, <1>8, <1>9, <1>10, <1>11, <1>12, <1>13, <1>14,
     <1>15, <1>16, <1>17, <1>18 DEF TelemetryNext

(* TelemetryInv says what the host is promised. *)
LEMMA TelemetrySound == OtelLast /\ TelemetryInv => TelemetryIsSound
<1> SUFFICES ASSUME OtelLast, TelemetryInv PROVE TelemetryIsSound
  OBVIOUS
<1>1. inst["logger"] # "fresh" /\ "otel" \in Plugins
  BY OrderPlaces DEF TelemetryInv, TelemetryTypeOK
<1>2. ProbeDecides
  BY <1>1 DEF TelemetryInv, StageInv, ProbeInv, AllLoaded, ProbeDecides
<1>3. QED
  BY <1>1, <1>2 DEF TelemetryInv, TelemetryIsSound, NoStaleCall, NothingDropped

(* In the engine, with the exporter loaded last, for any configuration of    *)
(* the endpoints and any size of the queues: the pipelines start exactly     *)
(* when every signal has a receiver, the teardown enters nothing that is     *)
(* gone, on_unload() exports what was recorded before it resets a pipeline,  *)
(* and the warning of a failed export is seen unless both thresholds hide it.*)
THEOREM TelemetryStaysSound ==
    ASSUME Host = "engine", OtelLast
    PROVE  TelemetrySpec => []TelemetryIsSound
<1>1. TelemetryInv /\ [TelemetryNext]_telemetryVars => TelemetryInv'
  BY TelemetryStep
<1>2. TelemetryInit => TelemetryInv
  BY TelemetryInitially
<1>3. TelemetryInv => TelemetryIsSound
  BY TelemetrySound
<1>4. QED
  BY <1>1, <1>2, <1>3, PTL DEF TelemetrySpec
=============================================================================
