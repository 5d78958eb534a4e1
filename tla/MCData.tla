------------------------------- MODULE MCData -------------------------------
(* Small instances of the parts that hold an operator's data and sessions:   *)
(* database connections and dumps, files, terminals and their folders,       *)
(* accounts and backups. Each behaviour is one part's; a part with several   *)
(* instances bounds one kind of step in each.                                *)
EXTENDS Databases, DatabaseDumps, Files, Terminals, TerminalFolders, Accounts, Backups, TLC

VARIABLE part

-----------------------------------------------------------------------------
(* Databases: statements the console tells apart.                            *)
Statement(l, w, h) == <<[leader |-> l, words |-> w, where |-> h]>>
MCQueries ==
  {Statement("select", {}, TRUE), Statement("delete", {"delete"}, FALSE),
   Statement("delete", {"delete"}, TRUE), Statement("insert", {"insert"}, FALSE),
   Statement("call", {}, FALSE), Statement("drop", {"drop"}, FALSE)}

\* One request at a time; or a second that removes a connection or a database
\* under one that already has its pool.
DatabaseStep ==
  /\ DatabasesNext
  /\ part = "databases" => dbCall'["r"] = DbIdle
  /\ part = "drivers" => dbCall'["r"] = DbIdle /\ dbCalls' <= 2
  /\ part = "closing" =>
       /\ dbCalls' <= 2 /\ dbCall'["r"].kind \in {"none", "remove", "drop_database"}
       /\ dbCall'["q"].kind \in {"none", "query", "import"}
       /\ dbCall'["r"] # DbIdle => dbCall'["q"].at \in {"run", "loading", "ended"}

(* Dumps: a table listed before the one it references. The application's     *)
(* writes to SQLite are checkpointed before they are dumped or replaced: the *)
(* log a restore leaves behind is a weakness the README describes.           *)
MCListing == <<"posts", "users">>
MCForeignKeys(t) == IF t = "posts" THEN <<"users">> ELSE <<>>

DumpStep ==
  /\ DumpsNext
  /\ part = "dumps" => dumpSecond' = 1
  /\ part = "sqlite" => wal = Nothing \/ (dumps' = dumps /\ restoring' = restoring) \/ wal' = Nothing

(* Files: a directory with a file and a link to it, beside another volume;   *)
(* archives with a directory, with files and with a link out of the way.     *)
MCOnVolume(p) == Len(p) > 0 /\ p[1] = "m"
MCTrees ==
  {[p \in FilePaths |->
      CASE p \in {<<>>, <<"a">>, <<"m">>} -> Dir
        [] p = <<"a", "b">> -> File("old", 1)
        [] p = <<"b">> -> Link(<<"a">>)
        [] OTHER -> NoNode]}
Packed(n, s) == [name |-> n, kind |-> "file", text |-> "packed", size |-> s, target |-> <<>>]
PackedLink(n, t) == [name |-> n, kind |-> "link", text |-> "", size |-> 0, target |-> t]
PackedDir(n) == [name |-> n, kind |-> "dir", text |-> "", size |-> 0, target |-> <<>>]
MCArchives ==
  {<<PackedDir(<<"a">>), Packed(<<"a">>, 2)>>, <<Packed(<<"b">>, 2), Packed(<<"a">>, 1)>>,
   <<PackedLink(<<"b">>, <<"a">>), Packed(<<"b", "a">>, 1)>>}
MCAskedPaths == {<<"b">>, <<"a", "b">>, <<"m">>}
MCRoots == {<<>>}

FileStep ==
  \/ part = "files" /\ (FileRequest("c1") \/ FileAction("c1"))
  \/ part = "archives" /\ \E c \in FileCalls : ExtractRequest(c) \/ Extraction(c)

(* Terminals: streams of one session, or images of two.                      *)
TerminalStep ==
  /\ TermNext
  /\ part = "streams" => upload' = upload /\ opening'[2] = "new"
  /\ part = "images" => browser' = browser /\ written' = written

(* Folders: filing, of one shell when two folder requests follow one another,*)
(* or windows of sessions that are not filed.                                *)
FolderStep ==
  \/ part = "filing" /\ FilingStep /\ (folderOps' > 1 => Cardinality(mine' \union inTmux') <= 1)
  \/ part = "windows" /\ WindowStep
  \/ /\ part = "windows" /\ FilingStep
     /\ folderOps' = 0 /\ \A s \in Shells : memory'[s] = Unfiled

(* Backups: runs and readers around one job, with restarts while nobody reads *)
(* (a restart ends every reader) and a third run without either; or changes   *)
(* of the job.                                                               *)
MCSanitise(n) == "web"
BackupStep ==
  /\ BackupsNext
  /\ part = "backups" => edits' <= 1 /\ (restarts' > 0 => reading' = [d \in Readers |-> NotReading])
  /\ part = "jobs" => restarts' = 0 /\ reading' = reading /\ second' = 0
  /\ runsMade' > 2 => part = "backups" /\ restarts' = 0 /\ reading' = [d \in Readers |-> NotReading]

-----------------------------------------------------------------------------
MCVars == <<part, dbVars, dumpVars, fileVars, termVars, folderVars, accountVars, backupVars>>

\* What a part's behaviours do not depend on starts in one state.
Rest ==
  /\ conn[1].dsn = "one"
  /\ IF part = "drivers" THEN driver # "postgres" ELSE driver = "postgres"
  /\ (engine = "sqlite") = (part = "sqlite")
  /\ part # "dumps" => native /\ engine \in {"sqlite", "postgres"}
  /\ part # "accounts" => account = (CHOOSE a \in {[u \in Users |-> IF u = f THEN Fresh("admin") ELSE Absent] : f \in Users} : TRUE)

MCInit ==
  /\ part \in {"databases", "drivers", "closing", "dumps", "sqlite", "files", "archives",
               "streams", "images", "filing", "windows", "accounts", "backups", "jobs"}
  /\ DatabasesInit /\ DumpsInit /\ FilesInit /\ TermInit /\ FoldersInit /\ AccountsInit
  /\ BackupsInit /\ Rest

MCNext ==
  /\ UNCHANGED part
  /\ \/ /\ part \in {"databases", "drivers", "closing"} /\ DatabaseStep
        /\ UNCHANGED <<dumpVars, fileVars, termVars, folderVars, accountVars, backupVars>>
     \/ /\ part \in {"dumps", "sqlite"} /\ DumpStep
        /\ UNCHANGED <<dbVars, fileVars, termVars, folderVars, accountVars, backupVars>>
     \/ /\ FileStep
        /\ UNCHANGED <<dbVars, dumpVars, termVars, folderVars, accountVars, backupVars>>
     \/ /\ part \in {"streams", "images"} /\ TerminalStep
        /\ UNCHANGED <<dbVars, dumpVars, fileVars, folderVars, accountVars, backupVars>>
     \/ /\ FolderStep
        /\ UNCHANGED <<dbVars, dumpVars, fileVars, termVars, accountVars, backupVars>>
     \/ /\ part = "accounts" /\ AccountsNext
        /\ UNCHANGED <<dbVars, dumpVars, fileVars, termVars, folderVars, backupVars>>
     \/ /\ part \in {"backups", "jobs"} /\ BackupStep
        /\ UNCHANGED <<dbVars, dumpVars, fileVars, termVars, folderVars, accountVars>>

MCSpec == MCInit /\ [][MCNext]_MCVars
=============================================================================
