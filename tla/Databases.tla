----------------------------- MODULE Databases -----------------------------
(***************************************************************************)
(* The databases browser: saved connections (db_connections), the pool      *)
(* cached for each (dbx.Manager), and the requests that write through it:   *)
(* the SQL console and its classifier, row edits, schema changes, imports   *)
(* and dropping a database.  A request reads the connection row first and   *)
(* takes the pool later, so two requests interleave between the two.        *)
(* Database servers are external: one table each, and what a statement does *)
(* to it.                                                                   *)
(***************************************************************************)
EXTENDS Integers, Sequences, FiniteSets
LOCAL INSTANCE SequencesExt

CONSTANTS
  Dsns,             \* connection strings; each names one database
  ConnIds,          \* row ids of db_connections
  Drivers,          \* of "postgres", "mysql", "sqlite", "redis", "mongo"
  Queries,          \* texts for the console: sequences of statements
  DbRows,           \* primary keys of the table
  DbCalls,          \* requests that may be in flight together
  Caps,             \* whether callers hold the destructive capability
  MaxDbCalls        \* bound on requests begun

VARIABLES
  driver,           \* the engine the connections are of
  conn,             \* id -> the row: [name, dsn]; NoConn when there is none
  pool,             \* id -> the cached pool: [dsn, nr]; NoPool when there is none
  poolsOpened,      \* pools opened so far: a closed pool is never the same again
  data,             \* dsn -> the database: [there, table, rows]
  dbCall,           \* request -> its progress
  dbCalls

dbVars == <<driver, conn, pool, poolsOpened, data, dbCall, dbCalls>>

NoConn == [name |-> <<"", 0>>, dsn |-> "none"]
NoPool == [dsn |-> "none", nr |-> 0]
DbIdle == [at |-> "idle", kind |-> "none", id |-> 0, arg |-> <<>>, dsn |-> "none", pool |-> NoPool,
         can |-> FALSE, typed |-> FALSE, before |-> {}, known |-> {}, result |-> "none"]

DatabasesInit ==
  /\ driver \in Drivers
  /\ \E d \in Dsns : conn = [i \in ConnIds |-> IF i = 1 THEN [name |-> <<"db", 1>>, dsn |-> d] ELSE NoConn]
  /\ pool = [i \in ConnIds |-> NoPool] /\ poolsOpened = 0
  /\ data = [d \in Dsns |-> [there |-> TRUE, table |-> TRUE, rows |-> {}]]
  /\ dbCall = [q \in DbCalls |-> DbIdle] /\ dbCalls = 0

IsSQL == driver \notin {"redis", "mongo"}
Goto(q, c) == dbCall' = [dbCall EXCEPT ![q] = c]
DbEnds(q, result) == dbCall' = [dbCall EXCEPT ![q].at = "ended", ![q].result = result]

DbAsked(q, kind, id, arg) ==
  /\ dbCall[q].at \in {"idle", "ended"} /\ dbCalls < MaxDbCalls /\ dbCalls' = dbCalls + 1
  /\ \E can \in Caps, typed \in BOOLEAN :
       Goto(q, [DbIdle EXCEPT !.at = "asked", !.kind = kind, !.id = id, !.arg = arg,
                            !.can = can, !.typed = typed])
  /\ UNCHANGED <<conn, pool, poolsOpened, data>>

-----------------------------------------------------------------------------
(* What the console makes of a text.  A statement is [leader, words, where]; *)
(* the patterns look at the whole text, the leaders at each statement.       *)
Words(text) == UNION {text[i].words : i \in DOMAIN text}
HasWhere(text) == \E i \in DOMAIN text : text[i].where

unscoped(text, word) == word \in Words(text) /\ ~HasWhere(text)

Critical(text) == Words(text) \intersect {"drop", "truncate", "program"} # {}
                  \/ unscoped(text, "delete") \/ unscoped(text, "update")
High(text) == Words(text) \intersect {"delete", "update", "alter", "grant", "revoke"} # {}
Medium(text) == Words(text) \intersect {"insert", "replace", "create"} # {}

readOnlyLeaders == {"select", "with", "show", "describe", "desc", "explain", "table", "values"}
readOnly(text) == \A i \in DOMAIN text : text[i].leader \in readOnlyLeaders

(* Faulty variant: a text no pattern matches counts as a read.               *)
Classify_FailsOpen(text) ==
  IF Critical(text) THEN "critical" ELSE IF High(text) THEN "high"
  ELSE IF Medium(text) THEN "medium" ELSE "read"

Classify(text) ==
  IF Critical(text) THEN "critical" ELSE IF High(text) THEN "high"
  ELSE IF Medium(text) THEN "medium" ELSE IF readOnly(text) THEN "read" ELSE "high"

Destructive(text) == Classify(text) \in {"critical", "high"}

(* External: what a statement does to the table it names.                    *)
Effect(d, s) ==
  IF s.leader = "drop" THEN [d EXCEPT !.table = FALSE, !.rows = {}]
  ELSE IF s.leader \in {"truncate", "call"} \/ (s.leader = "delete" /\ ~s.where)
       THEN [d EXCEPT !.rows = {}]
  ELSE IF s.leader = "delete" THEN [d EXCEPT !.rows = @ \ {1}]
  ELSE IF s.leader = "insert" THEN [d EXCEPT !.rows = @ \union {1}]
  ELSE d
EmptiesTable(s) == s.leader \in {"drop", "truncate"} \/ (s.leader = "delete" /\ ~s.where)

-----------------------------------------------------------------------------
(* The row and the pool.                                                     *)

(* The guards a handler applies before it touches the connection.            *)
Refused(c) ==
  CASE c.kind = "query"    -> \/ Destructive(c.arg) /\ ~c.can
                              \/ Classify(c.arg) = "critical" /\ ~c.typed
    [] c.kind = "import"   -> c.arg.truncate /\ ~(c.can /\ c.typed)
    [] c.kind \in {"ddl_drop", "ddl_truncate"} -> ~c.can \/ ~c.typed
    [] c.kind = "row_delete" -> ~c.can
    [] OTHER -> FALSE

(* dbConnRow: gone, or the string as it is stored now.                       *)
dbConnRow(q) ==
  LET c == dbCall[q] IN
  /\ c.at = "asked" /\ c.kind \notin {"update", "remove", "adopt", "sync", "host", "create", "drop_database"}
  /\ IF Refused(c) THEN DbEnds(q, "refused")
     ELSE IF conn[c.id] = NoConn THEN DbEnds(q, "not_found")
     ELSE IF ~IsSQL THEN DbEnds(q, "bad_request")
     ELSE Goto(q, [c EXCEPT !.at = "row", !.dsn = conn[c.id].dsn])
  /\ UNCHANGED <<conn, pool, poolsOpened, data, dbCalls>>

(* Manager.Pool under its mutex: the pool cached under the id whatever       *)
(* string it was opened with, or a new one that answers a ping.              *)
Pool(q) ==
  LET c == dbCall[q] IN
  /\ c.at = "row"
  /\ IF pool[c.id] # NoPool
     THEN Goto(q, [c EXCEPT !.at = "run", !.pool = pool[c.id]]) /\ UNCHANGED <<pool, poolsOpened>>
     ELSE IF ~data[c.dsn].there THEN DbEnds(q, "connect_failed") /\ UNCHANGED <<pool, poolsOpened>>
     ELSE LET fresh == [dsn |-> c.dsn, nr |-> poolsOpened + 1] IN
          /\ pool' = [pool EXCEPT ![c.id] = fresh] /\ poolsOpened' = poolsOpened + 1
          /\ Goto(q, [c EXCEPT !.at = "run", !.pool = fresh])
  /\ UNCHANGED <<conn, data, dbCalls>>

ClosePool(id) == pool' = [pool EXCEPT ![id] = NoPool]

(* A pool closed by another request fails whatever still holds it.           *)
Usable(c) == pool[c.id] = c.pool /\ data[c.pool.dsn].there
Failing(q, kinds) ==
  /\ dbCall[q].at = "run" /\ dbCall[q].kind \in kinds /\ ~Usable(dbCall[q])
  /\ DbEnds(q, "failed")
  /\ UNCHANGED <<conn, pool, poolsOpened, data, dbCalls>>

Runs(q, kind) == dbCall[q].at = "run" /\ dbCall[q].kind = kind /\ Usable(dbCall[q])
Changed(q, d) == data' = [data EXCEPT ![dbCall[q].pool.dsn] = d]
Live(q) == data[dbCall[q].pool.dsn]

-----------------------------------------------------------------------------
(* Requests that write through the pool.                                     *)

(* RunQuery: the whole text goes to the engine in one call.                  *)
handleDBQuery(q) ==
  /\ Runs(q, "query")
  /\ \/ Changed(q, FoldLeft(Effect, Live(q), dbCall[q].arg)) /\ DbEnds(q, "ok")
     \/ UNCHANGED data /\ DbEnds(q, "failed")
  /\ UNCHANGED <<conn, pool, poolsOpened, dbCalls>>

(* One row, by its key; a whole table.  Each may be refused by the engine.   *)
NotApplied == [there |-> FALSE, table |-> FALSE, rows |-> {}]
InsertRow(d, r) == IF d.table /\ r \notin d.rows THEN [d EXCEPT !.rows = @ \union {r}] ELSE NotApplied
DeleteRow(d, r) == IF d.table THEN [d EXCEPT !.rows = @ \ {r}] ELSE NotApplied
(* The key may be changed too; a key that is taken is refused.               *)
UpdateRow(d, r, to) ==
  IF ~d.table \/ (r \in d.rows /\ to # r /\ to \in d.rows) THEN NotApplied
  ELSE IF r \in d.rows THEN [d EXCEPT !.rows = (@ \ {r}) \union {to}] ELSE d
CreateTable(d) == IF ~d.table THEN [d EXCEPT !.table = TRUE] ELSE NotApplied
DropTable(d) == IF d.table THEN [d EXCEPT !.table = FALSE, !.rows = {}] ELSE NotApplied
TruncateTable(d) == IF d.table THEN [d EXCEPT !.rows = {}] ELSE NotApplied

Applies(q, d) ==
  /\ IF d.there THEN Changed(q, d) /\ DbEnds(q, "ok") ELSE UNCHANGED data /\ DbEnds(q, "failed")
  /\ UNCHANGED <<conn, pool, poolsOpened, dbCalls>>

handleDBRowInsert(q) == Runs(q, "row_insert") /\ Applies(q, InsertRow(Live(q), dbCall[q].arg))
handleDBRowUpdate(q) ==
  Runs(q, "row_update") /\ Applies(q, UpdateRow(Live(q), dbCall[q].arg[1], dbCall[q].arg[2]))
handleDBRowDelete(q) == Runs(q, "row_delete") /\ Applies(q, DeleteRow(Live(q), dbCall[q].arg))
handleDDLCreateTable(q) == Runs(q, "ddl_create") /\ Applies(q, CreateTable(Live(q)))
handleDDLDropTable(q) == Runs(q, "ddl_drop") /\ Applies(q, DropTable(Live(q)))
handleDDLTruncate(q) == Runs(q, "ddl_truncate") /\ Applies(q, TruncateTable(Live(q)))

-----------------------------------------------------------------------------
(* runImport: one transaction.  It begins by emptying the table when asked,  *)
(* inserts row after row, and ends in Commit, or in the deferred Rollback.   *)
(* MySQL commits on TRUNCATE TABLE by itself; Postgres fails every statement *)
(* after a failed one, so its commit fails too.                              *)
handleDBImport(q) ==
  /\ Runs(q, "import")
  /\ IF Live(q).table
     THEN /\ Goto(q, [dbCall[q] EXCEPT !.at = "loading", !.before = Live(q).rows])
          /\ IF dbCall[q].arg.truncate /\ driver = "mysql"
             THEN Changed(q, [Live(q) EXCEPT !.rows = {}]) ELSE UNCHANGED data
     ELSE DbEnds(q, "failed") /\ UNCHANGED data
  /\ UNCHANGED <<conn, pool, poolsOpened, dbCalls>>

Landed(c) == (IF c.arg.truncate THEN {} ELSE c.before) \union c.arg.good
Clashes(c) == c.arg.bad \/ (~c.arg.truncate /\ c.arg.good \intersect c.before # {})

(* Faulty variant: the rows before the fatal one are kept.                   *)
ImportOutcomes_Commits(c) == {[rows |-> Landed(c), result |-> IF Clashes(c) THEN "failed" ELSE "ok"]}

(* How the load can end: a bad row stops it (StopOnError), or is counted and *)
(* skipped; the request's context may end before the commit.                 *)
ImportOutcomes(c) ==
  LET base == IF c.arg.truncate /\ driver = "mysql" THEN {} ELSE c.before
      fails == [rows |-> base, result |-> "failed"]
      lands == [rows |-> Landed(c), result |-> "ok"]
  IN IF Clashes(c) /\ (c.arg.stop \/ driver = "postgres") THEN {fails} ELSE {fails, lands}

runImport(q) ==
  /\ dbCall[q].at = "loading"
  /\ \E o \in ImportOutcomes(dbCall[q]) :
       /\ IF data[dbCall[q].pool.dsn].there /\ o.rows # dbCall[q].before
          THEN data' = [data EXCEPT ![dbCall[q].pool.dsn].rows = o.rows]
          ELSE UNCHANGED data
       /\ DbEnds(q, o.result)
  /\ UNCHANGED <<conn, pool, poolsOpened, dbCalls>>

-----------------------------------------------------------------------------
(* Connections.                                                              *)

(* handleDBConnUpdate: the row, then the pool.                               *)
handleDBConnUpdate(q) ==
  /\ dbCall[q].at = "asked" /\ dbCall[q].kind = "update"
  /\ IF conn[dbCall[q].id] = NoConn THEN DbEnds(q, "not_found") /\ UNCHANGED conn
     ELSE /\ conn' = [conn EXCEPT ![dbCall[q].id].dsn = dbCall[q].arg]
          /\ Goto(q, [dbCall[q] EXCEPT !.at = "close"])
  /\ UNCHANGED <<pool, poolsOpened, data, dbCalls>>

(* Faulty variant: the cached pool stays.                                    *)
UpdateCloses_Not(q) ==
  /\ dbCall[q].at = "close" /\ dbCall[q].kind = "update"
  /\ UNCHANGED pool /\ DbEnds(q, "ok")
  /\ UNCHANGED <<conn, poolsOpened, data, dbCalls>>

UpdateCloses(q) ==
  /\ dbCall[q].at = "close" /\ dbCall[q].kind = "update"
  /\ ClosePool(dbCall[q].id) /\ DbEnds(q, "ok")
  /\ UNCHANGED <<conn, poolsOpened, data, dbCalls>>

(* handleDBConnDelete: the pool, then the row.                               *)
handleDBConnDelete(q) ==
  /\ dbCall[q].at = "asked" /\ dbCall[q].kind = "remove"
  /\ IF conn[dbCall[q].id] = NoConn THEN DbEnds(q, "not_found") /\ UNCHANGED pool
     ELSE ClosePool(dbCall[q].id) /\ Goto(q, [dbCall[q] EXCEPT !.at = "close"])
  /\ UNCHANGED <<conn, poolsOpened, data, dbCalls>>

RowDeleted(q) ==
  /\ dbCall[q].at = "close" /\ dbCall[q].kind \in {"remove", "drop_database"}
  /\ conn' = [conn EXCEPT ![dbCall[q].id] = NoConn] /\ DbEnds(q, "ok")
  /\ UNCHANGED <<pool, poolsOpened, data, dbCalls>>

(* The addresses already covered are read first; a server whose address is   *)
(* not among them is saved later.  A database of the machine itself is       *)
(* dialled before anything is kept.                                          *)
existingDSNs(q) ==
  /\ dbCall[q].at = "asked" /\ dbCall[q].kind \in {"adopt", "sync"}
  /\ Goto(q, [dbCall[q] EXCEPT !.at = "save", !.known = {conn[i] : i \in ConnIds}])
  /\ UNCHANGED <<conn, pool, poolsOpened, data, dbCalls>>

handleDBConnectHost(q) ==
  /\ dbCall[q].at = "asked" /\ dbCall[q].kind = "host"
  /\ IF ~data[dbCall[q].arg].there THEN DbEnds(q, "bad_request")
     ELSE Goto(q, [dbCall[q] EXCEPT !.at = "save", !.known = {conn[i] : i \in ConnIds}])
  /\ UNCHANGED <<conn, pool, poolsOpened, data, dbCalls>>

NextConnId == CHOOSE i \in ConnIds : conn[i] = NoConn /\ \A j \in ConnIds : conn[j] = NoConn => i <= j

(* A suffix keeps a name free among the rows that were read.                 *)
uniqueConnectionName(base, known) ==
  CHOOSE n \in {<<base, k>> : k \in 1..(Cardinality(ConnIds) + 1)} :
    /\ \A c \in known : c.name # n
    /\ \A k \in 1..(n[2] - 1) : \E c \in known : c.name = <<base, k>>

(* The insert: a name that is taken is refused.                              *)
saveConnection(q, name) ==
  IF \E i \in ConnIds : conn[i].name = name THEN DbEnds(q, "refused") /\ UNCHANGED conn
  ELSE conn' = [conn EXCEPT ![NextConnId] = [name |-> name, dsn |-> dbCall[q].arg]] /\ DbEnds(q, "ok")

(* handleDBConnCreate: the operator names it.                                *)
handleDBConnCreate(q) ==
  /\ dbCall[q].at = "asked" /\ dbCall[q].kind = "create" /\ \E i \in ConnIds : conn[i] = NoConn
  /\ saveConnection(q, <<"chosen", 1>>)
  /\ UNCHANGED <<pool, poolsOpened, data, dbCalls>>

Covered(c) == \E k \in c.known : k.dsn = c.arg

(* A covered address answers with the row that is there.                     *)
handleDBAdopt(q) ==
  LET c == dbCall[q] IN
  /\ c.at = "save" /\ c.kind \in {"adopt", "host"} /\ \E i \in ConnIds : conn[i] = NoConn
  /\ IF Covered(c) THEN DbEnds(q, "already") /\ UNCHANGED conn
     ELSE saveConnection(q, uniqueConnectionName("chosen", c.known))
  /\ UNCHANGED <<pool, poolsOpened, data, dbCalls>>

handleDBSync(q) ==
  LET c == dbCall[q] IN
  /\ c.at = "save" /\ c.kind = "sync" /\ \E i \in ConnIds : conn[i] = NoConn
  /\ IF Covered(c) \/ ~data[c.arg].there THEN DbEnds(q, "already") /\ UNCHANGED conn
     ELSE saveConnection(q, uniqueConnectionName(c.arg, c.known))
  /\ UNCHANGED <<pool, poolsOpened, data, dbCalls>>

(* handleDBDropDatabase: typed, the pool let go, the database dropped, and   *)
(* the row removed when it was this connection's own.  Postgres refuses      *)
(* while anything is attached; Redis only empties a keyspace.                *)
handleDBDropDatabase(q) ==
  LET c == dbCall[q] IN
  /\ c.at = "asked" /\ c.kind = "drop_database"
  /\ IF conn[c.id] = NoConn THEN DbEnds(q, "not_found") /\ UNCHANGED pool
     ELSE IF ~c.typed THEN DbEnds(q, "refused") /\ UNCHANGED pool
     ELSE ClosePool(c.id) /\ Goto(q, [c EXCEPT !.at = "dropping", !.dsn = conn[c.id].dsn])
  /\ UNCHANGED <<conn, poolsOpened, data, dbCalls>>

Attached(d) == \E i \in ConnIds : pool[i].dsn = d

DropDatabase(q) ==
  LET c == dbCall[q] IN
  /\ c.at = "dropping"
  /\ IF ~data[c.dsn].there \/ (driver = "postgres" /\ Attached(c.dsn))
     THEN DbEnds(q, "drop_failed") /\ UNCHANGED data
     ELSE IF driver = "redis"
     THEN data' = [data EXCEPT ![c.dsn].rows = {}] /\ DbEnds(q, "ok")
     ELSE /\ data' = [data EXCEPT ![c.dsn] = [there |-> FALSE, table |-> FALSE, rows |-> {}]]
          /\ Goto(q, [c EXCEPT !.at = "close"])
  /\ UNCHANGED <<conn, pool, poolsOpened, dbCalls>>

-----------------------------------------------------------------------------
Imports == [truncate : BOOLEAN, stop : BOOLEAN, good : {DbRows}, bad : BOOLEAN]

DbRequests(q) ==
  \/ \E i \in ConnIds : \/ \E t \in Queries : DbAsked(q, "query", i, t)
                        \/ \E r \in DbRows : DbAsked(q, "row_insert", i, r) \/ DbAsked(q, "row_delete", i, r)
                                             \/ \E to \in DbRows : DbAsked(q, "row_update", i, <<r, to>>)
                        \/ DbAsked(q, "ddl_create", i, <<>>) \/ DbAsked(q, "ddl_drop", i, <<>>)
                        \/ DbAsked(q, "ddl_truncate", i, <<>>)
                        \/ \E m \in Imports : DbAsked(q, "import", i, m)
                        \/ DbAsked(q, "remove", i, <<>>) \/ DbAsked(q, "drop_database", i, <<>>)
                        \/ \E d \in Dsns : DbAsked(q, "update", i, d)
  \/ \E d \in Dsns : DbAsked(q, "adopt", 0, d) \/ DbAsked(q, "sync", 0, d) \/ DbAsked(q, "host", 0, d) \/ DbAsked(q, "create", 0, d)

DbSteps(q) ==
  \/ dbConnRow(q) \/ Pool(q)
  \/ Failing(q, {"query", "row_insert", "row_update", "row_delete", "ddl_create", "ddl_drop", "ddl_truncate", "import"})
  \/ handleDBQuery(q) \/ handleDBRowInsert(q) \/ handleDBRowUpdate(q) \/ handleDBRowDelete(q)
  \/ handleDDLCreateTable(q) \/ handleDDLDropTable(q) \/ handleDDLTruncate(q)
  \/ handleDBImport(q) \/ runImport(q)
  \/ handleDBConnUpdate(q) \/ UpdateCloses(q) \/ handleDBConnDelete(q) \/ RowDeleted(q)
  \/ existingDSNs(q) \/ handleDBConnectHost(q) \/ handleDBAdopt(q) \/ handleDBSync(q)
  \/ handleDBConnCreate(q)
  \/ handleDBDropDatabase(q) \/ DropDatabase(q)

DatabasesNext == UNCHANGED driver /\ \E q \in DbCalls : DbRequests(q) \/ DbSteps(q)

DatabasesSpec == DatabasesInit /\ [][DatabasesNext]_dbVars

-----------------------------------------------------------------------------
(* "The pool was opened against the old DSN; drop it so the next request     *)
(* dials the new one" (handleDBConnUpdate): when no request is in flight a   *)
(* cached pool dials what its row says, and a removed connection keeps none. *)
PoolFollowsRow ==
  (\A q \in DbCalls : dbCall[q].at \in {"idle", "ended"})
  => \A i \in ConnIds : pool[i] # NoPool => pool[i].dsn = conn[i].dsn

(* "the whole load runs inside one transaction and either commits or rolls   *)
(* back" (import.go): an import reported as failed leaves the table as the   *)
(* import found it.                                                          *)
ImportAllOrNothing ==
  [][\A q \in DbCalls : dbCall[q].at = "loading" /\ dbCall'[q].at = "ended" /\ dbCall'[q].result = "failed"
       => data'[dbCall[q].pool.dsn].rows = dbCall[q].before]_dbVars

(* The console runs nothing that changes what is stored for a caller who may *)
(* not destroy, unless it only adds (Classify fails closed).                 *)
OnlyAdds ==
  [][\A q \in DbCalls :
       dbCall[q].at = "run" /\ dbCall[q].kind = "query" /\ ~dbCall[q].can /\ dbCall'[q] # dbCall[q]
       => \A d \in Dsns : data[d].rows \subseteq data'[d].rows /\ (data[d].table => data'[d].table)]_dbVars

(* Stored data changes as the caller was told: pools follow their rows, a    *)
(* failed import changes nothing, an unprivileged statement only adds.       *)
DatabasesKept == []PoolFollowsRow /\ ImportAllOrNothing /\ OnlyAdds

(* "the statement that hits every row cannot go out on a single click"       *)
(* (handleDBQuery): no statement that empties the table runs untyped.        *)
NotOnOneClick ==
  \A q \in DbCalls : dbCall[q].at = "run" /\ dbCall[q].kind = "query" /\ ~dbCall[q].typed
                     => \A i \in DOMAIN dbCall[q].arg : ~EmptiesTable(dbCall[q].arg[i])
=============================================================================
