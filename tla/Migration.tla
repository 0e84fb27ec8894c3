----------------------------- MODULE Migration -----------------------------
(***************************************************************************)
(* Schema migrations: `congelado migrate` (cli_main.cc), which writes      *)
(* files, and migration::Runner (include/migration/runner.cppm), which every *)
(* process of the engine runs against the shared database when it starts.  *)
(*                                                                         *)
(* The runner asks the database one thing at a time: create the ledger,    *)
(* load it, run a baseline, record it, ..., run a file, record it.  Each   *)
(* call may be answered, refused, or carried out with the answer lost, and *)
(* the process may die between any two; what is on disk and in the         *)
(* database stays.  A pass that fails aborts its process.                  *)
(*                                                                         *)
(* A version is a pair <<second, n>>: n = 1 for a file somebody wrote by   *)
(* hand and 2 for a generated one, in the order of their names, and second *)
(* 0 for baseline n.  A checksum is the contents it is taken of.           *)
(***************************************************************************)
EXTENDS Naturals, FiniteSets

CONSTANTS
    Hosts,        \* processes that start against the same database
    Baselines,    \* number of registered baselines
    MaxSecond,    \* bound: the clock of the developer's machine
    MaxSchema,    \* bound: versions of the models
    MaxHand,      \* bound: hand-written files and edits of them
    MaxFaults     \* bound: failed calls and writes, lost answers and crashes

ASSUME MigrationAssumption ==
    {Baselines, MaxSecond, MaxSchema, MaxHand, MaxFaults} \subseteq Nat

VARIABLES
    second,     \* the developer's clock
    schema,     \* the models as they are now
    dir,        \* the migrations directory: version -> contents
    hands,      \* hand-written editions so far
    recorded,   \* schema_migrations: version -> checksum
    ran,        \* version -> how often it was carried out
    pass,       \* process -> its migration pass
    apart,      \* no two passes have overlapped so far
    faults

devVars == <<second, schema, dir, hands>>
dbVars  == <<recorded, ran>>
migrationVars == <<devVars, dbVars, pass, apart, faults>>

Generated(n) == [what |-> "schema", n |-> n]
Hand(n)      == [what |-> "hand", n |-> n]
Cut          == [what |-> "cut", n |-> 0]       \* a write that ran out of room
Empty        == [what |-> "empty", n |-> 0]
NoChecksum   == [what |-> "none", n |-> 0]

Down == [at |-> "down", applied |-> <<>>, todo |-> {}, saw |-> {}]

Lower(v, w) == v[1] < w[1] \/ (v[1] = w[1] /\ v[2] < w[2])
Set(f, k, x) == [i \in DOMAIN f \cup {k} |-> IF i = k THEN x ELSE f[i]]

\* The job a loop over them is at: they are run in the order of their versions.
NextOf(jobs) == {j \in jobs : \A k \in jobs : k = j \/ Lower(j.v, k.v)}

MigrationInit ==
    /\ second = 1 /\ schema = 1 /\ hands = 0
    /\ dir = [v \in {<<1, 1>>} |-> Hand(0)]      \* one migration is there
    /\ recorded = <<>> /\ ran = <<>>
    /\ pass = [h \in Hosts |-> Down]
    /\ apart = TRUE /\ faults = 0
-----------------------------------------------------------------------------
(* The developer and the CLI. *)

Clock ==
    /\ second < MaxSecond /\ second' = second + 1
    /\ UNCHANGED <<schema, dir, hands, dbVars, pass, apart, faults>>

\* A rebuild with other models takes longer than a second.
EditModel ==
    /\ schema < MaxSchema /\ schema' = schema + 1
    /\ second < MaxSecond /\ second' = second + 1
    /\ UNCHANGED <<dir, hands, dbVars, pass, apart, faults>>

\* Somebody adds a migration, or edits one that is there.
WriteByHand(v) ==
    /\ hands < MaxHand /\ hands' = hands + 1
    /\ v = <<second, 1>> \/ (v \in DOMAIN dir /\ v[2] = 1)
    /\ dir' = Set(dir, v, Hand(hands + 1))
    /\ UNCHANGED <<second, schema, dbVars, pass, apart, faults>>

\* build_schema_dump(): CREATE TABLE IF NOT EXISTS for every model.
BuildSchemaDump == Generated(schema)

\* A bug: the comparison keeps the oldest file.
FindFirstMigration(files) ==
    {v \in files : \A w \in files : w = v \/ Lower(v, w)}

\* find_last_migration(): the lexically last .sql file, whoever wrote it.
FindLastMigration(files) ==
    {v \in files : \A w \in files : w = v \/ Lower(w, v)}

Fault == faults < MaxFaults /\ faults' = faults + 1

\* migrate.  A newest file with the same checksum is "no schema changes";
\* otherwise a file named after the second is written.  Whether its contents
\* reached the disk is not looked at.
Migrate(written) ==
    /\ dir' = IF \E v \in FindLastMigration(DOMAIN dir) : dir[v] = BuildSchemaDump
              THEN dir
              ELSE Set(dir, <<second, 2>>, written)
    /\ IF written = BuildSchemaDump THEN UNCHANGED faults ELSE Fault
    /\ UNCHANGED <<second, schema, hands, dbVars, pass, apart>>

Developer ==
    \/ Clock \/ EditModel
    \/ \E v \in DOMAIN dir \cup {<<second, 1>>} : WriteByHand(v)
    \/ \E written \in {BuildSchemaDump, Cut, Empty} : Migrate(written)
-----------------------------------------------------------------------------
(* The runner.  Outcomes of a call: "ok", "refused", or "lost" (carried out). *)

Goes(h, to) == pass' = [pass EXCEPT ![h] = to]
Aborts(h) == Goes(h, Down)

\* run_all(): on a connected database the pass begins.  A process without one
\* skips it, touches nothing here, and is not followed.
RunAll(h) ==
    /\ pass[h].at = "down"
    /\ Goes(h, [Down EXCEPT !.at = "ensure"])
    /\ apart' = (apart /\ \A g \in Hosts : pass[g].at \in {"down", "ready"})
    /\ UNCHANGED <<devVars, dbVars, faults>>

EnsureSchemaMigrations(h, good) ==
    /\ pass[h].at = "ensure"
    /\ IF good THEN Goes(h, [pass[h] EXCEPT !.at = "load"]) /\ UNCHANGED faults
       ELSE Aborts(h) /\ Fault
    /\ UNCHANGED <<devVars, dbVars, apart>>

BaselineVersions == {[v |-> <<0, i>>, body |-> NoChecksum] : i \in 1..Baselines}

\* load_applied(): a failed or unreadable answer counts as an empty ledger.
\* run_baselines() then runs the ones the ledger does not have, in order.
LoadApplied(h, good) ==
    /\ pass[h].at = "load"
    /\ IF good THEN UNCHANGED faults ELSE Fault
    /\ LET applied == IF good THEN recorded ELSE <<>>
       IN  Goes(h, [pass[h] EXCEPT !.at = "baselines", !.applied = applied,
                        !.todo = {b \in BaselineVersions : b.v \notin DOMAIN applied}])
    /\ UNCHANGED <<devVars, dbVars, apart>>

\* scan_migrations(): the well-named, nonempty files with their contents.
ScanMigrations(files) ==
    {[v |-> v, body |-> files[v]] : v \in {w \in DOMAIN files : files[w] # Empty}}

\* A bug: a changed file counts as applied.
RunSqlFiles_NoChecksum(h) ==
    LET files == ScanMigrations(dir)
        mine  == pass[h].applied
    IN  /\ pass[h].at = "baselines" /\ pass[h].todo = {}
        /\ Goes(h, [pass[h] EXCEPT !.at = "files", !.applied = <<>>, !.saw = files,
                        !.todo = {f \in files : f.v \notin DOMAIN mine}])
        /\ UNCHANGED <<devVars, dbVars, apart, faults>>

\* run_sql_files(): a file that changed since it was applied ends the pass
\* before anything runs; the ones the ledger does not have are run in order.
RunSqlFiles(h) ==
    LET files == ScanMigrations(dir)
        mine  == pass[h].applied
    IN  /\ pass[h].at = "baselines" /\ pass[h].todo = {}
        /\ IF \E f \in files : f.v \in DOMAIN mine /\ mine[f.v] \notin {NoChecksum, f.body}
           THEN Aborts(h)
           ELSE Goes(h, [pass[h] EXCEPT !.at = "files", !.applied = <<>>, !.saw = files,
                            !.todo = {f \in files : f.v \notin DOMAIN mine}])
        /\ UNCHANGED <<devVars, dbVars, apart, faults>>

Times(v) == IF v \in DOMAIN ran THEN ran[v] ELSE 0
Recording(stage) == IF stage = "files" THEN "files record" ELSE "baselines record"
Executes(job) == ran' = Set(ran, job.v, Times(job.v) + 1) /\ UNCHANGED recorded

\* A bug: the version is recorded first.
Apply_RecordsFirst(h, outcome) ==
    /\ pass[h].at \in {"baselines", "files"} /\ outcome = "ok"
    /\ \E job \in NextOf(pass[h].todo) : recorded' = Set(recorded, job.v, job.body)
    /\ Goes(h, [pass[h] EXCEPT !.at = Recording(@)])
    /\ UNCHANGED <<devVars, ran, apart, faults>>

\* The baseline's callback, or run_sql_file()'s BEGIN; ...; COMMIT;.
Apply(h, outcome) ==
    \E job \in NextOf(pass[h].todo) :
        /\ pass[h].at \in {"baselines", "files"}
        /\ CASE outcome = "ok" /\ job.body # Cut ->
                  Executes(job) /\ Goes(h, [pass[h] EXCEPT !.at = Recording(@)]) /\ UNCHANGED faults
             [] outcome = "ok" /\ job.body = Cut ->
                  UNCHANGED <<dbVars, faults>> /\ Aborts(h)
             [] outcome = "refused" -> UNCHANGED dbVars /\ Aborts(h) /\ Fault
             [] outcome = "lost" -> job.body # Cut /\ Executes(job) /\ Aborts(h) /\ Fault
        /\ UNCHANGED <<devVars, apart>>

\* record_applied(): a version that is there already violates the primary key.
RecordApplied(h, outcome) ==
    \E job \in NextOf(pass[h].todo) :
        /\ pass[h].at \in {"baselines record", "files record"}
        /\ IF outcome = "refused" \/ job.v \in DOMAIN recorded THEN UNCHANGED recorded
           ELSE recorded' = Set(recorded, job.v, job.body)
        /\ IF outcome = "ok" THEN UNCHANGED faults ELSE Fault
        /\ IF outcome = "ok" /\ job.v \notin DOMAIN recorded
           THEN Goes(h, [pass[h] EXCEPT !.at = IF @ = "files record" THEN "files" ELSE "baselines",
                                        !.todo = @ \ {job}])
           ELSE Aborts(h)
        /\ UNCHANGED <<devVars, ran, apart>>

\* done(true): mark_ready(), and the engine goes on.
MarkReady(h) ==
    /\ pass[h].at = "files" /\ pass[h].todo = {}
    /\ Goes(h, [pass[h] EXCEPT !.at = "ready"])
    /\ UNCHANGED <<devVars, dbVars, apart, faults>>

\* The process dies, or is stopped once it is up.
Dies(h) ==
    /\ pass[h].at # "down"
    /\ Aborts(h)
    /\ IF pass[h].at = "ready" THEN UNCHANGED faults ELSE Fault
    /\ UNCHANGED <<devVars, dbVars, apart>>

RunnerStep(h) ==
    \/ RunAll(h) \/ RunSqlFiles(h) \/ MarkReady(h)
    \/ \E good \in BOOLEAN : EnsureSchemaMigrations(h, good) \/ LoadApplied(h, good)
    \/ \E outcome \in {"ok", "refused", "lost"} : Apply(h, outcome) \/ RecordApplied(h, outcome)

MigrationNext == Developer \/ \E h \in Hosts : RunnerStep(h) \/ Dies(h)

MigrationSpec == MigrationInit /\ [][MigrationNext]_migrationVars
-----------------------------------------------------------------------------
\* The ledger never runs ahead of the database, whatever is lost or dies: a
\* recorded version was carried out.  And it lags by at most the faults: as long
\* as passes do not overlap, each failure repeats a migration at most once, and
\* without one nothing runs twice.
LedgerIsTrue ==
    /\ \A v \in DOMAIN recorded : Times(v) >= 1
    /\ apart => \A v \in DOMAIN ran : Times(v) <= 1 + faults

\* A process goes ready only on a database that has every baseline and every
\* file it saw, with the contents it saw: a file edited after it was applied,
\* by this pass or by another process's, never passes for applied.  Files are
\* run in version order: what is older than the next one has been recorded.
ReadyIsCurrent ==
    \A h \in Hosts :
        LET p == pass[h]
        IN  /\ p.at = "ready" => /\ \A i \in 1..Baselines : <<0, i>> \in DOMAIN recorded
                                 /\ \A f \in p.saw : f.v \in DOMAIN recorded /\ recorded[f.v] = f.body
            /\ p.at \in {"files", "files record"} =>
                 \A f \in p.saw, job \in NextOf(p.todo) : Lower(f.v, job.v) => f.v \in DOMAIN recorded

\* migrate writes nothing when nothing changed: two neighbours in the directory
\* are never the same generated schema.
GeneratesOnChange ==
    \A v, w \in DOMAIN dir :
        (Lower(v, w) /\ dir[v] = dir[w] /\ dir[v].what = "schema") =>
            \E u \in DOMAIN dir : Lower(v, u) /\ Lower(u, w) /\ dir[u] # dir[v]

\* "Each baseline has a name and runs at most once" (Registry).
BaselinesRunOnce == \A i \in 1..Baselines : Times(<<0, i>>) <= 1
=============================================================================
