------------------------------ MODULE Storage ------------------------------
(***************************************************************************)
(* What lies behind the connector: the cache plugins (cache/local,         *)
(* cache/redis), the database plugin (database/postgres), the statements   *)
(* of the SQL dialect plugin (serde/sql_postgres), the search backends     *)
(* (postgres, search/elasticsearch), and the connector's operations over   *)
(* them: cache first, then the database, or the connector's own in-memory  *)
(* store when no database plugin is loaded.                                *)
(*                                                                         *)
(* Within a process the connector runs one operation at a time (module     *)
(* WorkQueue); every call to a backend blocks. Two processes that share    *)
(* the backends interleave between the calls. The servers are external: a  *)
(* call succeeds, is refused, or breaks the connection, with or without    *)
(* having been carried out.                                                *)
(***************************************************************************)
EXTENDS Naturals, FiniteSets

CONSTANTS Procs,     \* processes with a connector on the same servers
          Keys,      \* primary keys of the table
          Values,    \* values of its columns, and of documents
          Docs,      \* document ids of a search collection
          MaxOps     \* bound on the operations and restarts

ASSUME StorageAssumption ==
    /\ IsFiniteSet(Procs) /\ IsFiniteSet(Keys) /\ IsFiniteSet(Docs)
    /\ Keys \cap Docs = {}    \* a key and a document are never the same thing
    /\ Values \subseteq Nat \ {0} /\ MaxOps \in Nat

Row == [v : Values, fixed : Values]    \* fixed is a column with m_skip_update
NoRow == [v |-> 0, fixed |-> 0]
NewRow(x) == [v |-> x, fixed |-> x]

VARIABLES
    hasDb,     \* a database plugin is loaded (m_database is set)
    redis,     \* the cache is redis; otherwise the in-process cache
    elastic,   \* the search provider is elasticsearch; otherwise postgres
    cacheConn, dbConn,  \* per process: "up", "none" (never made), "broken"
    cache,     \* key -> row or NoRow
    store,     \* key -> row or NoRow: the table, or the connector's local store
    docs,      \* document -> value or 0: the search index
    op,        \* per process, the operation that runs and its next step
    found,     \* per process, what the last find() returned
    acked,     \* keys and documents as acknowledged writes left them (0: none)
    unsure,    \* those whose last write may or may not have been carried out
    mishap,    \* keys whose cache and row may differ since a partial failure
    ops        \* operations and restarts so far

config == <<hasDb, redis, elastic>>
conns == <<cacheConn, dbConn>>
ledger == <<acked, unsure, mishap>>
storageVars == <<config, conns, cache, store, docs, op, found, ledger, ops>>

NoOp == [kind |-> "idle", on |-> {}, value |-> 0, step |-> "none"]

(* on_load(): a refused connection is logged and the plugin stays loaded     *)
(* without one.                                                              *)
RedisOnLoad(conn) == conn = "up" \/ (redis /\ conn = "none")
PostgresOnLoad(conn) == IF hasDb THEN conn \in {"up", "none"} ELSE conn = "none"

StorageInit ==
    /\ hasDb \in BOOLEAN /\ redis \in BOOLEAN /\ elastic \in BOOLEAN
    /\ Cardinality(Procs) > 1 => hasDb /\ redis
    /\ cacheConn \in [Procs -> {"up", "none"}] /\ \A p \in Procs : RedisOnLoad(cacheConn[p])
    /\ dbConn \in [Procs -> {"up", "none"}] /\ \A p \in Procs : PostgresOnLoad(dbConn[p])
    /\ cache = [k \in Keys |-> NoRow] /\ store = [k \in Keys |-> NoRow]
    /\ docs = [d \in Docs |-> 0]
    /\ op = [p \in Procs |-> NoOp] /\ found = [p \in Procs |-> NoRow]
    /\ acked = [x \in Keys \cup Docs |-> 0] /\ unsure = {} /\ mishap = {} /\ ops = 0

-----------------------------------------------------------------------------
(* The statements of the dialect, by what they ask the server for. A read    *)
(* wraps its rows in one JSON column; a write populates rows from JSON.      *)

BuildSelect(ks) == [verb |-> "read", on |-> ks, column |-> "row_to_json", limits |-> 0]
BuildSelectMany(ks) == [verb |-> "read", on |-> ks, column |-> "json_agg", limits |-> 0]
BuildSelectAll == [verb |-> "read", on |-> Keys, column |-> "json_agg", limits |-> 0]
BuildInnerQuery(column, limits) == [verb |-> "read", on |-> Keys, column |-> column, limits |-> limits]
BuildQuery(limited) == BuildInnerQuery("json_agg", IF limited THEN 1 ELSE 0)
BuildQueryFirst(limited) == BuildInnerQuery("row_to_json", (IF limited THEN 1 ELSE 0) + 1)
BuildInsert(k, x) == [verb |-> "insert", on |-> k, row |-> NewRow(x)]
BuildInsertMany(ks, x) == [verb |-> "insert", on |-> ks, row |-> NewRow(x)]
BuildUpdate(k, x) == [verb |-> "update", on |-> k, row |-> NewRow(x)]
(* Mutant: a conflicting row is left as it is. *)
BuildUpsertKeeps(k, x) == [verb |-> "upsert", on |-> {j \in k : store[j] = NoRow}, row |-> NewRow(x)]
BuildUpsert(k, x) == [verb |-> "upsert", on |-> k, row |-> NewRow(x)]
BuildDelete(k) == [verb |-> "delete", on |-> k]
BuildDeleteMany(ks) == [verb |-> "delete", on |-> ks]
(* The columns of a new table, by the kind of the field each one holds. *)
ValueKinds == {"STRING", "BOOLEAN", "INT32", "UINT32", "INT64", "UINT64", "TIMESTAMP",
               "FLOAT", "DOUBLE", "UUID", "OTHER"}
PostgresTypeOf(kind) ==
    CASE kind = "STRING" -> "TEXT"
      [] kind = "BOOLEAN" -> "BOOLEAN"
      [] kind \in {"INT64", "UINT64", "TIMESTAMP"} -> "BIGINT"
      [] kind \in {"INT32", "UINT32"} -> "INTEGER"
      [] kind = "DOUBLE" -> "DOUBLE PRECISION"
      [] kind = "FLOAT" -> "REAL"
      [] kind = "UUID" -> "UUID"
      [] OTHER -> "JSONB"
BuildCreate == [verb |-> "create", on |-> {},
                columns |-> {PostgresTypeOf(kind) : kind \in ValueKinds}]

(* encode(): the operation names the statement. *)
Encode(o) ==
    CASE o.kind = "find" -> BuildSelect(o.on)
      [] o.kind = "find_many" -> BuildSelectMany(o.on)
      [] o.kind = "find_all" -> BuildSelectAll
      [] o.kind = "query" -> BuildQuery(TRUE)
      [] o.kind = "find_first" -> BuildQueryFirst(FALSE)
      [] o.kind = "insert" -> BuildInsert(o.on, o.value)
      [] o.kind = "insert_many" -> BuildInsertMany(o.on, o.value)
      [] o.kind = "update" -> BuildUpdate(o.on, o.value)
      [] o.kind = "upsert" -> BuildUpsert(o.on, o.value)
      [] o.kind = "remove" -> BuildDelete(o.on)
      [] o.kind = "remove_many" -> BuildDeleteMany(o.on)
      [] OTHER -> BuildCreate

(* What the server does with a statement. An insert of a row that exists is  *)
(* refused as a whole, an update of one that does not exist is not; a second *)
(* LIMIT is a syntax error.                                                  *)
Refused(s) ==
    \/ s.verb = "insert" /\ \E k \in s.on : store[k] # NoRow
    \/ s.verb = "read" /\ s.limits > 1
Carried(s, k) ==
    CASE s.verb \in {"insert", "upsert"} -> s.row
      [] s.verb = "update" -> IF store[k] = NoRow THEN NoRow ELSE [s.row EXCEPT !.fixed = store[k].fixed]
      [] s.verb = "delete" -> NoRow
      [] OTHER -> store[k]
After(s) == [k \in Keys |-> IF k \in s.on THEN Carried(s, k) ELSE store[k]]

(* rows_to_json(): a read comes back as an array of objects with the         *)
(* statement's one column, its value the JSON text of the row as a string.   *)
RowsToJson(s) == [shape |-> "array of objects", field |-> s.column]

(* Ser::deserialize<T>: the text must be the row object itself. *)
DecodesAsRow(reply) == reply.shape = "row object"

-----------------------------------------------------------------------------
(* The connector's operations.                                               *)

Single == {"insert", "update", "upsert", "remove", "find"}
Many == {"find_many", "insert_many", "remove_many"}
Whole == {"find_all", "find_first", "query", "create_table"}
DocOps == {"index", "unindex"}
Removes == {"remove", "remove_many"}
RowWrites == {"insert", "update", "upsert", "insert_many"} \cup Removes
Through == {"insert", "update", "upsert"} \cup Removes    \* the cache is written first

Begin(p, kind, on, value) ==
    /\ op[p] = NoOp /\ ops < MaxOps
    /\ op' = [op EXCEPT ![p] = [kind |-> kind, on |-> on, value |-> value,
                     step |-> IF kind \in Through \cup {"find"} THEN "cache" ELSE "store"]]
    /\ ops' = ops + 1
    /\ UNCHANGED <<config, conns, cache, store, docs, found, ledger>>
Begins(p) ==
    \E x \in Values :
        \/ \E k \in Keys, kind \in Single : Begin(p, kind, {k}, x)
        \/ \E ks \in SUBSET Keys \ {{}}, kind \in Many : Begin(p, kind, ks, x)
        \/ \E kind \in Whole : Begin(p, kind, Keys, x)
        \/ \E d \in Docs, kind \in DocOps : (elastic \/ hasDb) /\ Begin(p, kind, {d}, x)

Finish(p) == op' = [op EXCEPT ![p] = NoOp]
ToStore(p) == op' = [op EXCEPT ![p].step = "store"]

(* get(), set() and remove() of a cache. A redis command without a           *)
(* connection, or that redis refuses, yields the empty text; after a broken  *)
(* connection every command fails, none reconnects.                          *)
CacheFails(p) ==
    /\ redis
    /\ cacheConn' \in [Procs -> {"up", "none", "broken"}]
    /\ \A q \in Procs \ {p} : cacheConn'[q] = cacheConn[q]
    /\ cacheConn'[p] \in (IF cacheConn[p] = "up" THEN {"up", "broken"} ELSE {cacheConn[p]})

(* find(): a hit is decoded and returned. *)
FindHits(p) ==
    /\ op[p].kind = "find" /\ op[p].step = "cache" /\ cacheConn[p] = "up"
    /\ \E k \in op[p].on : cache[k] # NoRow /\ found' = [found EXCEPT ![p] = cache[k]]
    /\ Finish(p)
    /\ UNCHANGED <<config, conns, cache, store, docs, ledger, ops>>

FindMisses(p) ==
    /\ op[p].kind = "find" /\ op[p].step = "cache"
    /\ \/ cacheConn[p] = "up" /\ (\A k \in op[p].on : cache[k] = NoRow) /\ UNCHANGED cacheConn
       \/ CacheFails(p)
    /\ ToStore(p)
    /\ UNCHANGED <<config, dbConn, cache, store, docs, found, ledger, ops>>

Cached(o, ks) == [k \in Keys |-> IF k \notin ks THEN cache[k]
                                 ELSE IF o.kind \in Removes THEN NoRow ELSE NewRow(o.value)]

(* Mutant: a removed row keeps its cache entry. *)
WriteCacheKeepsRemoved(p) ==
    /\ op[p].kind \in Through /\ op[p].step = "cache" /\ cacheConn[p] = "up"
    /\ cache' = IF op[p].kind \in Removes THEN cache ELSE Cached(op[p], op[p].on)
    /\ ToStore(p)
    /\ UNCHANGED <<config, conns, store, docs, found, ledger, ops>>

(* write_through(), remove() and remove_many() write the cache first and     *)
(* ignore how that went.                                                     *)
WriteCache(p) ==
    /\ op[p].kind \in Through /\ op[p].step = "cache" /\ cacheConn[p] = "up"
    /\ cache' = Cached(op[p], op[p].on)
    /\ ToStore(p)
    /\ UNCHANGED <<config, conns, store, docs, found, ledger, ops>>

WriteCacheFails(p) ==
    /\ op[p].kind \in Through /\ op[p].step = "cache"
    /\ CacheFails(p)
    /\ cache' = cache \/ (cacheConn[p] = "up" /\ \E done \in SUBSET op[p].on : cache' = Cached(op[p], done))
    /\ mishap' = mishap \cup op[p].on
    /\ ToStore(p)
    /\ UNCHANGED <<config, dbConn, store, docs, found, acked, unsure, ops>>

(* What an acknowledged write promises of a key it names. *)
Promise(o, k) ==
    IF o.kind \in Removes \cup {"unindex"} THEN 0
    ELSE IF o.kind = "update" /\ hasDb /\ acked[k] = 0 THEN 0 ELSE o.value
Acknowledge(o) ==
    /\ acked' = [k \in DOMAIN acked |-> IF k \in o.on THEN Promise(o, k) ELSE acked[k]]
    /\ unsure' = IF o.kind = "update" THEN unsure ELSE unsure \ o.on

(* Without a database the local store is read and written, and never fails.  *)
(* insert_many() does not touch the cache.                                   *)
LocalStore(p) ==
    /\ ~hasDb /\ op[p].step = "store" /\ op[p].kind \notin DocOps
    /\ IF op[p].kind \in RowWrites
       THEN /\ store' = [k \in Keys |-> IF k \notin op[p].on THEN store[k]
                                      ELSE IF op[p].kind \in Removes THEN NoRow ELSE NewRow(op[p].value)]
            /\ Acknowledge(op[p])
       ELSE UNCHANGED <<store, acked, unsure>>
    /\ mishap' = IF op[p].kind = "insert_many" THEN mishap \cup op[p].on ELSE mishap
    /\ found' = IF op[p].kind = "find"
                THEN [found EXCEPT ![p] = store[CHOOSE k \in op[p].on : TRUE]] ELSE found
    /\ Finish(p)
    /\ UNCHANGED <<config, conns, cache, docs, ops>>

(* exec(): the statement is carried out and answered. The callback of a      *)
(* write gets true; a find() gets what the reply decodes to, and warms the   *)
(* cache with it. An update() changes no missing row and no skipped column,  *)
(* though the cache has it whole.                                            *)
Exec(p) ==
    /\ hasDb /\ op[p].step = "store" /\ dbConn[p] = "up" /\ op[p].kind \notin DocOps
    /\ ~Refused(Encode(op[p]))
    /\ store' = After(Encode(op[p]))
    /\ IF op[p].kind \in RowWrites THEN Acknowledge(op[p]) ELSE UNCHANGED <<acked, unsure>>
    /\ mishap' = IF op[p].kind = "update" /\ \E k \in op[p].on : store'[k] # NewRow(op[p].value)
                 THEN mishap \cup op[p].on ELSE mishap
    /\ LET k == CHOOSE j \in op[p].on : TRUE
           decoded == store[k] # NoRow /\ DecodesAsRow(RowsToJson(Encode(op[p])))
       IN IF op[p].kind = "find"
          THEN /\ found' = [found EXCEPT ![p] = IF decoded THEN store[k] ELSE NoRow]
               /\ cache' = IF decoded /\ cacheConn[p] = "up" THEN [cache EXCEPT ![k] = store[k]] ELSE cache
          ELSE UNCHANGED <<found, cache>>
    /\ Finish(p)
    /\ UNCHANGED <<config, conns, docs, ops>>

(* exec(): no connection, a refusal, or a connection that breaks before or   *)
(* after the server has carried the statement out. The callback gets false.  *)
(* No later statement finds out whether the connection can be made again.    *)
ExecFails(p) ==
    /\ hasDb /\ op[p].step = "store" /\ op[p].kind \notin DocOps
    /\ \/ /\ dbConn[p] # "up" \/ Refused(Encode(op[p]))
          /\ UNCHANGED <<dbConn, store, unsure>>
       \/ /\ dbConn[p] = "up" /\ ~Refused(Encode(op[p]))
          /\ dbConn' = [dbConn EXCEPT ![p] = "broken"]
          /\ store' \in {store, After(Encode(op[p]))}
          /\ unsure' = IF op[p].kind \in RowWrites THEN unsure \cup op[p].on ELSE unsure
    /\ mishap' = IF op[p].kind \in RowWrites THEN mishap \cup op[p].on ELSE mishap
    /\ found' = IF op[p].kind = "find" THEN [found EXCEPT ![p] = NoRow] ELSE found
    /\ Finish(p)
    /\ UNCHANGED <<config, cacheConn, cache, docs, acked, ops>>

-----------------------------------------------------------------------------
(* index() and remove() of a document: on postgres one statement over the    *)
(* same connection, on elasticsearch one HTTP request.                       *)

WriteDoc(o) == [d \in Docs |-> IF d \notin o.on THEN docs[d]
                               ELSE IF o.kind = "unindex" THEN 0 ELSE o.value]

PgIndex(p) ==
    /\ ~elastic /\ op[p].kind \in DocOps /\ dbConn[p] = "up"
    /\ docs' = WriteDoc(op[p]) /\ Acknowledge(op[p])
    /\ Finish(p)
    /\ UNCHANGED <<config, conns, cache, store, found, mishap, ops>>

PgIndexFails(p) ==
    /\ ~elastic /\ op[p].kind \in DocOps
    /\ IF dbConn[p] = "up"
       THEN /\ dbConn' = [dbConn EXCEPT ![p] = "broken"]
            /\ docs' \in {docs, WriteDoc(op[p])} /\ unsure' = unsure \cup op[p].on
       ELSE UNCHANGED <<dbConn, docs, unsure>>
    /\ Finish(p)
    /\ UNCHANGED <<config, cacheConn, cache, store, found, acked, mishap, ops>>

(* request() answers a status, 0 when the transport failed: the request was  *)
(* then lost, or only its response was.                                      *)
EsAcks(o, status) == status = "2xx" \/ (o.kind = "unindex" /\ status = "404")
EsStatuses(o) == {"2xx", "4xx", "0"} \cup (IF o.kind = "unindex" THEN {"404"} ELSE {})

EsIndex(p) ==
    /\ elastic /\ op[p].kind \in DocOps
    /\ \E status \in EsStatuses(op[p]) :
          /\ CASE status = "2xx" -> docs' = WriteDoc(op[p])
               [] status = "404" -> docs[CHOOSE d \in op[p].on : TRUE] = 0 /\ UNCHANGED docs
               [] status = "4xx" -> UNCHANGED docs
               [] OTHER -> docs' \in {docs, WriteDoc(op[p])}
          /\ IF EsAcks(op[p], status) THEN Acknowledge(op[p])
             ELSE /\ UNCHANGED acked
                  /\ unsure' = IF status = "0" THEN unsure \cup op[p].on ELSE unsure
    /\ Finish(p)
    /\ UNCHANGED <<config, conns, cache, store, found, mishap, ops>>

-----------------------------------------------------------------------------
(* A process ends, in the middle of an operation or not, and starts again:   *)
(* on_unload() and on_load() of the plugins. The in-process cache and the    *)
(* local store start empty. A document write in flight may have arrived.     *)
Restart(p) ==
    /\ ops < MaxOps /\ ops' = ops + 1
    /\ \E c, d \in {"up", "none"} :
          /\ RedisOnLoad(c) /\ cacheConn' = [cacheConn EXCEPT ![p] = c]
          /\ PostgresOnLoad(d) /\ dbConn' = [dbConn EXCEPT ![p] = d]
    /\ cache' = IF redis THEN cache ELSE [k \in Keys |-> NoRow]
    /\ store' = IF hasDb THEN store ELSE [k \in Keys |-> NoRow]
    /\ acked' = IF hasDb THEN acked ELSE [x \in DOMAIN acked |-> IF x \in Keys THEN 0 ELSE acked[x]]
    /\ unsure' = unsure
    /\ mishap' = IF ~redis THEN {} ELSE IF ~hasDb THEN Keys
                 ELSE mishap \cup (IF op[p].kind \in Through /\ op[p].step = "store" THEN op[p].on ELSE {})
    /\ op' = [op EXCEPT ![p] = NoOp] /\ found' = [found EXCEPT ![p] = NoRow]
    /\ UNCHANGED <<config, docs>>

StorageNext ==
    \E p \in Procs :
        \/ Begins(p)
        \/ FindHits(p) \/ FindMisses(p) \/ WriteCache(p) \/ WriteCacheFails(p)
        \/ LocalStore(p) \/ Exec(p) \/ ExecFails(p)
        \/ PgIndex(p) \/ PgIndexFails(p) \/ EsIndex(p)
        \/ Restart(p)

StorageSpec == StorageInit /\ [][StorageNext]_storageVars

-----------------------------------------------------------------------------

Writing(k) == \E p \in Procs : k \in op[p].on /\ op[p].step = "store" /\ op[p].kind \in Through

(* Between operations the cache never disagrees with the row behind it, on a *)
(* key no partial failure has touched: a cache command that failed, a        *)
(* statement that failed after the cache was written, an update() that       *)
(* matches no row or skips a column, an insert_many() into the local store,  *)
(* a restart that loses the local store under redis. A find() that hits the  *)
(* cache then returns the stored row.                                        *)
CacheAgrees ==
    \A k \in Keys \ mishap : ~Writing(k) => cache[k] \in {NoRow, store[k]}

(* What a write, remove or index whose callback got true has put there stays *)
(* until the next one, through refused statements, broken connections and    *)
(* restarts.                                                                 *)
AckedWritesKept ==
    /\ \A k \in Keys \ unsure : store[k].v = acked[k]
    /\ \A d \in Docs \ unsure : docs[d] = acked[d]

-----------------------------------------------------------------------------
(* What the code says of itself and does not keep.                           *)

(* A find() whose statement the server answers returns the stored row ("gets *)
(* the decoded value if found").                                             *)
StoredRowsAreFound ==
    [][\A p \in Procs : (Exec(p) /\ op[p].kind = "find") =>
          \A k \in op[p].on : found'[p] = store[k]]_storageVars

=============================================================================
