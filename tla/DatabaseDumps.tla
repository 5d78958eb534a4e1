--------------------------- MODULE DatabaseDumps ---------------------------
(***************************************************************************)
(* Backup and restore of a connected database (dbx/dump.go, dump_sql.go,    *)
(* dump_nosql.go and the two handlers).  A dump runs table by table beside  *)
(* the application that uses the database; a restore replays the statements *)
(* of a file one by one.  Database engines and their own dump tools are     *)
(* external and modelled by what the code asks of them.                     *)
(***************************************************************************)
EXTENDS Integers, Sequences, FiniteSets
LOCAL INSTANCE SequencesExt

CONSTANTS
  Engines,          \* drivers of the connection: "postgres", "mysql", "mongo", "sqlite"
  Listing,          \* tables in the order the catalogue lists them
  ForeignKeys(_),   \* the tables a table references, in order
  RowNumbers,       \* primary keys 1..n; row r of a child references row r of its parents
  Tools,            \* subset of BOOLEAN: is the native dump tool installed
  DumpCalls,        \* backup requests that may run together
  MaxAppWrites,     \* bound on application writes
  MaxSecond,        \* bound on the clock that names dump files
  MaxRestores       \* bound on restore requests

VARIABLES
  engine, native,
  table,            \* table -> [there, rows, serial]: the live database
  wal,              \* table -> rows committed to SQLite's log, not yet in the main file
  dumpSecond,       \* the clock dump files are named by
  dumps,            \* second -> the file of that name; NoFile when there is none
  dumping,          \* call -> progress of a backup request
  restoring,        \* the restore in progress
  appWrites, restores

dumpVars == <<engine, native, table, wal, dumpSecond, dumps, dumping, restoring, appWrites, restores>>

TableNames == {Listing[i] : i \in DOMAIN Listing}
Parents(t) == {ForeignKeys(t)[i] : i \in DOMAIN ForeignKeys(t)} \ {t}
Nothing == [t \in TableNames |-> {}]
Contents == [t \in TableNames |-> table[t].rows \union wal[t]]

(* A file: the statements this package wrote, or the tool's own snapshot.    *)
(* taken, quiet and cut are history: what the database held when the dump    *)
(* began, whether the application kept still, whether the request's context  *)
(* ended meanwhile.                                                          *)
NoFile == [kind |-> "none", stmts |-> <<>>, shot |-> Nothing, skipped |-> {}, by |-> {},
           taken |-> Nothing, quiet |-> TRUE, cut |-> FALSE]
NoDump == [at |-> "idle", plan |-> <<>>, name |-> 0, result |-> "none"]
NoRestore == [at |-> "idle", file |-> NoFile, left |-> <<>>, quiet |-> TRUE, result |-> "none"]

DumpsInit ==
  /\ engine \in Engines /\ native \in Tools
  /\ table = [t \in TableNames |-> [there |-> TRUE, rows |-> {}, serial |-> 1]]
  /\ wal = Nothing
  /\ dumpSecond = 1 /\ dumps = [n \in 1..MaxSecond |-> NoFile]
  /\ dumping = [c \in DumpCalls |-> NoDump]
  /\ restoring = NoRestore /\ appWrites = 0 /\ restores = 0

-----------------------------------------------------------------------------
(* The application that owns the database (external).  It draws keys from    *)
(* the serial; a SQLite commit lands in the log and is checkpointed later.   *)
Stirred == [n \in 1..MaxSecond |->
              IF \E c \in DumpCalls : dumping[c].at = "tables" /\ dumping[c].name = n
              THEN [dumps[n] EXCEPT !.quiet = FALSE] ELSE dumps[n]]

AppInserts(t) ==
  LET r == table[t].serial IN
  /\ appWrites < MaxAppWrites /\ appWrites' = appWrites + 1
  /\ table[t].there /\ r \in RowNumbers /\ r \notin Contents[t]
  /\ \A p \in Parents(t) : r \in Contents[p]
  /\ IF engine = "sqlite"
     THEN /\ wal' = [wal EXCEPT ![t] = @ \union {r}]
          /\ table' = [table EXCEPT ![t].serial = r + 1]
     ELSE /\ table' = [table EXCEPT ![t].rows = @ \union {r}, ![t].serial = r + 1]
          /\ wal' = wal
  /\ dumps' = Stirred
  /\ restoring' = [restoring EXCEPT !.quiet = FALSE]
  /\ UNCHANGED <<engine, native, dumpSecond, dumping, restores>>

Checkpoint ==
  /\ wal # Nothing
  /\ table' = [t \in TableNames |-> [table[t] EXCEPT !.rows = Contents[t]]]
  /\ wal' = Nothing
  /\ UNCHANGED <<engine, native, dumpSecond, dumps, dumping, restoring, appWrites, restores>>

ClockTicks ==
  /\ dumpSecond < MaxSecond /\ dumpSecond' = dumpSecond + 1
  /\ UNCHANGED <<engine, native, table, wal, dumps, dumping, restoring, appWrites, restores>>

-----------------------------------------------------------------------------
(* Ordering: depth first over the foreign keys, a cycle left where it is.    *)
RECURSIVE visit(_, _, _)
visit(t, known, acc) ==
  IF acc.state[t] # "unvisited" THEN acc
  ELSE LET seen == [acc EXCEPT !.state[t] = "visiting"]
           deep == FoldLeft(LAMBDA a, p : IF p \notin known \/ p = t \/ a.state[p] = "visiting"
                                          THEN a ELSE visit(p, known, a), seen, ForeignKeys(t))
       IN [state |-> [deep.state EXCEPT ![t] = "done"], out |-> Append(deep.out, t)]

(* Faulty variant: the catalogue's order is kept.                            *)
orderByDependency_AsListed(list) == list

orderByDependency(list) ==
  FoldLeft(LAMBDA a, t : visit(t, ToSet(list), a),
           [state |-> [t \in TableNames |-> "unvisited"], out |-> <<>>], list).out

Stmt(op, t, rows) == [op |-> op, table |-> t, rows |-> rows]

(* Every DROP first, parents last; a Mongo archive drops each collection as  *)
(* it names it.                                                              *)
dropTableStatement(t) == Stmt("drop", t, {})
Drops(plan) == IF engine = "mongo" THEN <<>>
               ELSE [i \in DOMAIN plan |-> dropTableStatement(plan[Len(plan) + 1 - i])]

(* A serial column's default draws from a sequence the table owns, and the   *)
(* rows come back with explicit keys: only Postgres needs it set again.      *)
sequencesBehind(t) == IF engine = "postgres" THEN <<Stmt("setval", t, {})>> ELSE <<>>

(* dumpOneTable: the structure is written before the rows are asked for, so  *)
(* a failing read leaves it in the file, with the batches already flushed.   *)
OneTable(t) == <<Stmt("create", t, {})>>
               \o (IF Contents[t] = {} THEN <<>> ELSE <<Stmt("insert", t, Contents[t])>>)
               \o sequencesBehind(t)
OneTableFailing(t, flushed) == <<Stmt("create", t, {})>>
               \o (IF flushed = {} THEN <<>> ELSE <<Stmt("insert", t, flushed)>>)

-----------------------------------------------------------------------------
(* A backup request.                                                         *)
Written(n, f) == dumps' = [dumps EXCEPT ![n] = f]

(* dumpSQLite: one VACUUM INTO.  It refuses a file that exists, and the      *)
(* refusal removes the file of that name.                                    *)
dumpSQLite(c) ==
  /\ engine = "sqlite" /\ dumping[c].at = "idle"
  /\ LET clash == dumps[dumpSecond].kind # "none" IN
     /\ Written(dumpSecond, IF clash THEN NoFile
                        ELSE [NoFile EXCEPT !.kind = "sqlite", !.shot = Contents,
                                            !.taken = Contents, !.by = {c}])
     /\ dumping' = [dumping EXCEPT ![c] = [@ EXCEPT !.at = "ended", !.name = dumpSecond,
                                           !.result = IF clash THEN "failed" ELSE "ok"]]
  /\ UNCHANGED <<engine, native, table, wal, dumpSecond, restoring, appWrites, restores>>

(* runDump with the engine's own tool: a consistent snapshot, or a refusal   *)
(* whose file is removed before the built-in dump is tried.                  *)
nativeDumpCommand(c) ==
  /\ engine # "sqlite" /\ native /\ dumping[c].at = "idle"
  /\ \/ /\ Written(dumpSecond, [NoFile EXCEPT !.kind = "native", !.shot = Contents,
                                          !.taken = Contents, !.by = {c}])
        /\ dumping' = [dumping EXCEPT ![c] = [@ EXCEPT !.at = "ended", !.name = dumpSecond, !.result = "ok"]]
     \/ /\ Written(dumpSecond, NoFile)
        /\ dumping' = [dumping EXCEPT ![c].at = "fallback"]
  /\ UNCHANGED <<engine, native, table, wal, dumpSecond, restoring, appWrites, restores>>

(* dumpGenericSQL and dumpMongoDriver begin: the file is created or emptied, *)
(* the structures are read and ordered, and the drops written.  A table      *)
(* whose structure cannot be read is left out of everything.                 *)
BeginGeneric(c) ==
  /\ engine # "sqlite"
  /\ dumping[c].at = "fallback" \/ (~native /\ dumping[c].at = "idle")
  /\ \E unread \in SUBSET {t \in TableNames : table[t].there} :
       LET list == SelectSeq(Listing, LAMBDA t : table[t].there /\ t \notin unread)
           plan == IF engine = "mongo" THEN list ELSE orderByDependency(list)
       IN /\ engine = "mongo" => unread = {}
          /\ Written(dumpSecond, [NoFile EXCEPT !.kind = "text", !.stmts = Drops(plan), !.by = {c},
                                            !.skipped = unread, !.taken = Contents])
          /\ dumping' = [dumping EXCEPT ![c] = [at |-> "tables", plan |-> plan, name |-> dumpSecond,
                                                result |-> "none"]]
  /\ UNCHANGED <<engine, native, table, wal, dumpSecond, restoring, appWrites, restores>>

(* The next table's rows, read on their own: there is no transaction around  *)
(* the tables.  Two dumps of one name write over each other.                 *)
dumpOneTable(c) ==
  LET d == dumping[c]
      t == Head(d.plan)
      f == dumps[d.name] IN
  /\ d.at = "tables" /\ d.plan # <<>>
  /\ Written(d.name, [f EXCEPT !.stmts = @ \o OneTable(t), !.by = @ \union {c}])
  /\ dumping' = [dumping EXCEPT ![c].plan = Tail(@)]
  /\ UNCHANGED <<engine, native, table, wal, dumpSecond, restoring, appWrites, restores>>

(* dumpMongoDriver: any error stops the dump and takes the file with it.     *)
MongoStops(c) ==
  /\ Written(dumping[c].name, NoFile)
  /\ dumping' = [dumping EXCEPT ![c].at = "ended", ![c].result = "failed"]

(* One unreadable table is marked SKIPPED and the others go on.              *)
TableUnreadable(c) ==
  LET d == dumping[c]
      t == Head(d.plan)
      f == dumps[d.name] IN
  /\ d.at = "tables" /\ d.plan # <<>>
  /\ IF engine = "mongo"
     THEN MongoStops(c)
     ELSE \E flushed \in {{}, Contents[t]} :
            /\ Written(d.name, [f EXCEPT !.stmts = @ \o OneTableFailing(t, flushed),
                                         !.skipped = @ \union {t}, !.by = @ \union {c}])
            /\ dumping' = [dumping EXCEPT ![c].plan = Tail(@)]
  /\ UNCHANGED <<engine, native, table, wal, dumpSecond, restoring, appWrites, restores>>

(* The request's context ends (thirty minutes, or the browser went): every   *)
(* table still to come fails to be read, which is not an error of the dump.  *)
DumpCut(c) ==
  LET d == dumping[c]
      f == dumps[d.name] IN
  /\ d.at = "tables" /\ d.plan # <<>>
  /\ IF engine = "mongo"
     THEN MongoStops(c)
     ELSE /\ Written(d.name, [f EXCEPT !.cut = TRUE, !.skipped = @ \union ToSet(d.plan),
                                       !.stmts = @ \o [i \in DOMAIN d.plan |-> Stmt("create", d.plan[i], {})]])
          /\ dumping' = [dumping EXCEPT ![c].plan = <<>>]
  /\ UNCHANGED <<engine, native, table, wal, dumpSecond, restoring, appWrites, restores>>

(* The file is synced and reported, or a failed write removes it.            *)
DumpEnds(c) ==
  LET d == dumping[c] IN
  /\ d.at = "tables" /\ d.plan = <<>>
  /\ \/ dumps' = dumps /\ dumping' = [dumping EXCEPT ![c].at = "ended", ![c].result = "ok"]
     \/ /\ Written(d.name, NoFile)
        /\ dumping' = [dumping EXCEPT ![c].at = "ended", ![c].result = "failed"]
  /\ UNCHANGED <<engine, native, table, wal, dumpSecond, restoring, appWrites, restores>>

-----------------------------------------------------------------------------
(* A restore request: the file decides the reader (dumpFormatOf).            *)
handleDBRestore(n) ==
  /\ restoring.at = "idle" /\ restores < MaxRestores
  /\ \E c \in DumpCalls : dumping[c].at = "ended" /\ dumping[c].result = "ok" /\ dumping[c].name = n
  /\ dumps[n].kind # "none"
  /\ restoring' = [at |-> dumps[n].kind, file |-> dumps[n], left |-> dumps[n].stmts,
                   quiet |-> \A c \in DumpCalls : dumping[c].at \in {"idle", "ended"},
                   result |-> "none"]
  /\ restores' = restores + 1
  /\ UNCHANGED <<engine, native, table, wal, dumpSecond, dumps, dumping, appWrites>>

RestoreEnds(result) == restoring' = [restoring EXCEPT !.at = "ended", !.result = result]

Cascades == engine = "postgres"
Children(t) == {x \in TableNames : t \in Parents(x) /\ table[x].there}

(* restoreMongoDriver drops a collection as it meets its name, and makes it  *)
(* again empty.                                                              *)
Recreated == [fails |-> FALSE, now |-> [there |-> TRUE, rows |-> {}, serial |-> 1]]

(* What a statement does in the engine: it fails, or the table it leaves.    *)
Outcome(s) ==
  LET t == s.table IN
  CASE s.op = "drop" -> [fails |-> ~table[t].there \/ (~Cascades /\ Children(t) # {}),
                         now |-> [there |-> FALSE, rows |-> {}, serial |-> 1]]
    [] s.op = "create" /\ engine = "mongo" -> Recreated
    [] s.op = "create" -> [fails |-> table[t].there \/ \E p \in Parents(t) : ~table[p].there,
                           now |-> [there |-> TRUE, rows |-> {}, serial |-> 1]]
    [] s.op = "insert" -> [fails |-> ~table[t].there \/ s.rows \intersect table[t].rows # {}
                                     \/ \E p \in Parents(t) : ~ s.rows \subseteq table[p].rows,
                           now |-> [table[t] EXCEPT !.rows = @ \union s.rows]]
    [] s.op = "setval" -> [fails |-> ~table[t].there,
                           now |-> [table[t] EXCEPT !.serial =
                                      1 + (IF table[t].rows = {} THEN 0
                                           ELSE CHOOSE m \in table[t].rows : \A r \in table[t].rows : r <= m)]]

(* Engines that number rows themselves move on past the keys they are given. *)
Numbered(now) ==
  IF engine = "postgres" THEN now
  ELSE [now EXCEPT !.serial = 1 + (IF now.rows = {} THEN 0
                                   ELSE CHOOSE m \in now.rows : \A r \in now.rows : r <= m)]

(* restoreGenericSQL: a failing DROP is taken for a table that is not there; *)
(* anything else stops the restore where it is.                              *)
restoreGenericSQL ==
  /\ restoring.at = "text"
  /\ IF restoring.left = <<>> THEN RestoreEnds("ok") /\ UNCHANGED table
     ELSE LET s == Head(restoring.left)
              o == Outcome(s)
          IN IF ~o.fails
             THEN /\ table' = [table EXCEPT ![s.table] = Numbered(o.now)]
                  /\ restoring' = [restoring EXCEPT !.left = Tail(@)]
             ELSE /\ UNCHANGED table
                  /\ IF s.op = "drop" THEN restoring' = [restoring EXCEPT !.left = Tail(@)]
                     ELSE RestoreEnds("failed")
  /\ UNCHANGED <<engine, native, wal, dumpSecond, dumps, dumping, appWrites, restores>>

(* The engine's own tool replaces every table, or stops after some.          *)
restoreNative ==
  /\ restoring.at = "native"
  /\ \E done \in SUBSET TableNames :
       /\ table' = [t \in TableNames |->
                      IF t \in done THEN [there |-> TRUE, rows |-> restoring.file.shot[t],
                                          serial |-> table[t].serial]
                      ELSE table[t]]
       /\ RestoreEnds(IF done = TableNames THEN "ok" ELSE "failed")
       /\ restoring.quiet => done = TableNames
  /\ UNCHANGED <<engine, native, wal, dumpSecond, dumps, dumping, appWrites, restores>>

(* restoreSQLite: the main file is copied over; the log beside it stays.     *)
restoreSQLite ==
  /\ restoring.at = "sqlite"
  /\ table' = [t \in TableNames |-> [table[t] EXCEPT !.rows = restoring.file.shot[t]]]
  /\ RestoreEnds("ok")
  /\ UNCHANGED <<engine, native, wal, dumpSecond, dumps, dumping, appWrites, restores>>

(* The restore's own context ends: an hour, or the browser went.             *)
RestoreCut ==
  /\ restoring.at = "text" /\ restoring.left # <<>>
  /\ restoring' = [restoring EXCEPT !.at = "ended", !.result = "failed", !.quiet = FALSE]
  /\ UNCHANGED <<engine, native, table, wal, dumpSecond, dumps, dumping, appWrites, restores>>

Closed ==
  /\ restoring.at = "ended" /\ restoring' = NoRestore
  /\ UNCHANGED <<engine, native, table, wal, dumpSecond, dumps, dumping, appWrites, restores>>

DumpsNext ==
  \/ \E t \in TableNames : AppInserts(t)
  \/ Checkpoint \/ ClockTicks
  \/ \E c \in DumpCalls : dumpSQLite(c) \/ nativeDumpCommand(c) \/ BeginGeneric(c) \/ dumpOneTable(c)
                          \/ TableUnreadable(c) \/ DumpCut(c) \/ DumpEnds(c)
  \/ \E n \in 1..MaxSecond : handleDBRestore(n)
  \/ restoreGenericSQL \/ restoreNative \/ restoreSQLite \/ RestoreCut \/ Closed

DumpsSpec == DumpsInit /\ [][DumpsNext]_dumpVars

-----------------------------------------------------------------------------
Acyclic == \E rank \in [TableNames -> 1..Cardinality(TableNames)] :
             \A t \in TableNames : \A p \in Parents(t) : rank[p] < rank[t]

(* A dump that skipped nothing, taken and replayed while the application     *)
(* kept still, brings the database back as it was when the dump began: no    *)
(* statement stops the restore on a foreign key, every row is there, and the *)
(* next key the application draws is free (orderByDependency, the reversed   *)
(* DROPs, sequencesBehind and setval in dumpOneTable).                       *)
RestoreReproduces ==
  restoring.at = "ended" /\ restoring.quiet /\ restoring.file.quiet /\ restoring.file.skipped = {}
  /\ Acyclic
  => /\ restoring.result = "ok"
     /\ Contents = restoring.file.taken
     /\ \A t \in TableNames : table[t].serial \notin Contents[t]

(* "A half-written dump is worse than none: it looks like a backup.          *)
(* Anything that goes wrong past this point takes the file with it"          *)
(* (dump_sql.go): no dump is reported as written whose context ended before  *)
(* its tables were read.                                                     *)
NoHalfWrittenDump ==
  \A c \in DumpCalls : dumping[c].result = "ok" => ~dumps[dumping[c].name].cut

(* A dump that was reported stays on disk as one call wrote it, whatever     *)
(* other dumps are taken (the name holds nothing finer than a second).       *)
ReportedDumpKept ==
  \A c \in DumpCalls : dumping[c].result = "ok" => dumps[dumping[c].name].by = {c}
=============================================================================
