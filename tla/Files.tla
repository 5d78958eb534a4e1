------------------------------- MODULE Files -------------------------------
(***************************************************************************)
(* The file manager: files/files.go, files/archive.go, safepath and the    *)
(* mutating handlers of api/handlers_files.go.                             *)
(*                                                                         *)
(* A path is the sequence of its names, cleaned.  A request first resolves *)
(* its paths against the tree as it stands and acts on the result in a     *)
(* later step, with other requests in between; Write, Copy and Extract    *)
(* take several steps of their own, and an upload of several files is one  *)
(* request each.  A file's bytes are one value, a size in units and        *)
(* whether all of it was written; its mode stands for its owner too.       *)
(* Archives lie outside the tree, and the names and link targets in one    *)
(* are cleaned: <<"..">> is one that leaves the destination.  What the     *)
(* kernel refuses (a missing parent, a directory where a file should be)   *)
(* is refused by the operators named after the system calls.               *)
(***************************************************************************)
EXTENDS Integers, Sequences, FiniteSets
LOCAL INSTANCE SequencesExt
LOCAL INSTANCE FiniteSetsExt

CONSTANTS
    PathNames,      \* the names of entries
    MaxDepth,       \* how deep the modelled tree goes
    Roots,          \* JD_FILE_ROOTS
    OnVolume(_),    \* whether a path lies on another filesystem
    FirstTree,      \* the trees the host may start with
    NewTexts,       \* what an editor may save
    AskedPaths,     \* the paths requests are about
    Archives,       \* archive files: sequences of entries
    DiskUnits, minExtractFreeBytes, maxExtractBytes, maxExtractEntries,
    FileCalls, MaxFileOps

FilePaths == UNION {[1..n -> PathNames] : n \in 0..MaxDepth}

NoNode == [kind |-> "none", text |-> "", whole |-> TRUE, size |-> 0,
            mode |-> "", target |-> <<>>]
Dir == [NoNode EXCEPT !.kind = "dir", !.mode = "0755"]
File(t, n) == [NoNode EXCEPT !.kind = "file", !.text = t, !.size = n, !.mode = "0644"]
Link(t) == [NoNode EXCEPT !.kind = "link", !.target = t]

VARIABLES
    tree,           \* the entry at every path
    fcall,          \* the requests under way
    extractMu,      \* which request holds Service.extractMu
    bookmarks,      \* the files.bookmarks setting
    fileOps

fileVars == <<tree, fcall, extractMu, bookmarks, fileOps>>

FreeCall == [op |-> "idle", asked |-> <<>>, src |-> <<>>, dst |-> <<>>, text |-> "",
             deep |-> FALSE, entry |-> <<>>, link |-> FALSE, todo |-> <<>>,
             pending |-> {}, limit |-> 0, entries |-> 0, end |-> ""]

FilesInit ==
    /\ tree \in FirstTree
    /\ fcall = [c \in FileCalls |-> FreeCall]
    /\ extractMu = {}
    /\ bookmarks = <<>>
    /\ fileOps = 0

-----------------------------------------------------------------------------
(* Resolving a path.                                                       *)

NodeAt(p) == IF p \in FilePaths THEN tree[p] ELSE NoNode
Parent(p) == IF p = <<>> THEN <<>> ELSE Front(p)
Inside(q, p) == IsPrefix(p, q)

(* filepath.EvalSymlinks: the physical path, "missing" with the entry that  *)
(* is when only the last is, or "error" (a loop, or a file where a          *)
(* directory is needed).                                                    *)
RECURSIVE Follow(_, _, _)
Follow(done, rest, fuel) ==
    IF rest = <<>> THEN [got |-> "path", path |-> done]
    ELSE LET next == Append(done, Head(rest))
             n == NodeAt(next)
         IN  CASE n.kind = "none" -> [got |-> "missing", path |-> IF Tail(rest) = <<>> THEN next ELSE <<>>]
               [] n.kind = "link" /\ fuel > 0 -> Follow(<<>>, n.target \o Tail(rest), fuel - 1)
               [] n.kind = "link" /\ fuel = 0 -> [got |-> "error", path |-> <<>>]
               [] n.kind = "file" /\ Tail(rest) # <<>> -> [got |-> "error", path |-> <<>>]
               [] OTHER -> Follow(next, Tail(rest), fuel)

EvalSymlinks(p) == Follow(<<>>, p, MaxDepth + 1)

Cannot == [ok |-> FALSE, path |-> <<>>]
ResolvedPath(p) == [ok |-> TRUE, path |-> p]

within(p) == \E r \in Roots : Inside(p, r)

(* The deepest ancestor that exists is resolved and the missing names are   *)
(* put back; a broken link on the way is an error, not a missing name.      *)
resolveFromExistingAncestor(p) ==
    LET k == Max({n \in 0..Len(p) : EvalSymlinks(SubSeq(p, 1, n)).got # "missing"})
        e == EvalSymlinks(SubSeq(p, 1, k))
    IN  IF e.got = "error" \/ (k < Len(p) /\ NodeAt(Append(e.path, p[k + 1])).kind # "none")
        THEN Cannot
        ELSE ResolvedPath(e.path \o SubSeq(p, k + 1, Len(p)))

(* Where the entry a path names lies, links above it followed; that entry   *)
(* (Lstat), and what it leads to (Stat).                                    *)
Place(p) ==
    LET up == resolveFromExistingAncestor(Parent(p))
    IN  IF p # <<>> /\ up.ok THEN Append(up.path, Last(p)) ELSE p
Lstat(p) == NodeAt(Place(p))
Stat(p) == LET e == EvalSymlinks(p) IN IF e.got = "path" THEN NodeAt(e.path) ELSE NoNode

(* The path an operation that goes through a link acts on.                  *)
Resolve(p) ==
    LET r == resolveFromExistingAncestor(p)
    IN  IF within(p) /\ r.ok /\ within(r.path) THEN r ELSE Cannot

(* As if every operation went through Resolve, as before ResolveEntry. *)
ResolveEntry_Follows(p) == Resolve(p)
(* The entry itself, for an operation that acts on a link.                  *)
ResolveEntry(p) ==
    LET up == resolveFromExistingAncestor(Parent(p))
    IN  IF ~within(p) THEN Cannot
        ELSE IF p \in Roots THEN ResolvedPath(p)
        ELSE IF up.ok /\ within(up.path) THEN ResolvedPath(Append(up.path, Last(p)))
        ELSE Cannot

-----------------------------------------------------------------------------
(* What the system calls do to a tree.                                     *)

IsDir(p) == Stat(p).kind = "dir"
Room(p) == p \in FilePaths
ChildrenOf(p) == {q \in FilePaths : q # p /\ Inside(q, p)}
Put(p, n) == [tree EXCEPT ![p] = n]
Without(p) == [q \in FilePaths |-> IF Inside(q, p) THEN NoNode ELSE tree[q]]

CanMkdirAll(p) ==
    LET at == resolveFromExistingAncestor(p)
    IN  at.ok /\ Room(at.path) /\ NodeAt(at.path).kind # "file"
MkdirAll(p, mode) ==
    LET at == resolveFromExistingAncestor(p).path
    IN  [q \in FilePaths |-> IF Inside(at, q) /\ tree[q].kind = "none"
                             THEN [Dir EXCEPT !.mode = mode] ELSE tree[q]]

(* open(2) with O_CREATE: through a link, broken ones included.             *)
OpenedAt(p) == EvalSymlinks(p).path
CanOpen(p) ==
    /\ EvalSymlinks(p).got # "error" /\ OpenedAt(p) # <<>> /\ Room(OpenedAt(p))
    /\ NodeAt(OpenedAt(p)).kind # "dir"
Overwritten(at) == IF NodeAt(at).kind = "file" THEN NodeAt(at).mode ELSE "0644"

Used == MapThenSumSet(LAMBDA p : tree[p].size, FilePaths)
FreeUnits == DiskUnits - Used
UsedIn(t) == MapThenSumSet(LAMBDA p : t[p].size, FilePaths)

Ends(c, how) == fcall' = [fcall EXCEPT ![c] = [@ EXCEPT !.end = how]]
Fails(c) == Ends(c, "error") /\ UNCHANGED <<tree, extractMu, bookmarks, fileOps>>
Becomes(c, t) == tree' = t /\ Ends(c, "ok") /\ UNCHANGED <<extractMu, bookmarks, fileOps>>
Asked(c, op) == fcall[c].op = op /\ fcall[c].end = ""

-----------------------------------------------------------------------------
(* The handlers: a request arrives and its paths are resolved.             *)

(* asked is what the client named, entry where that entry lies.             *)
Takes(c, op, p, src, dst, more) ==
    /\ fcall[c].op = "idle" /\ fileOps < MaxFileOps
    /\ fileOps' = fileOps + 1
    /\ fcall' = [fcall EXCEPT ![c] =
         [more EXCEPT !.op = op, !.asked = p, !.src = src.path, !.dst = dst.path,
                      !.entry = Place(p), !.link = Lstat(p).kind = "link",
                      !.end = IF src.ok /\ dst.ok THEN "" ELSE "error"]]
    /\ UNCHANGED <<tree, extractMu, bookmarks>>

handleFileWrite(c, p, t) ==
    Takes(c, "write", p, Resolve(p), Resolve(p), [FreeCall EXCEPT !.text = t])
(* Only the base name of the part is used, below the directory asked for.   *)
handleFileUpload(c, d, name, overwrite) ==
    LET p == Append(d, name)
    IN  Takes(c, "upload", p, Resolve(p), Resolve(p),
              [FreeCall EXCEPT !.text = "uploaded", !.deep = overwrite])
handleFileMkdir(c, p) == Takes(c, "mkdir", p, Resolve(p), Resolve(p), FreeCall)
handleFileTouch(c, p) == Takes(c, "touch", p, Resolve(p), Resolve(p), FreeCall)
handleFileMove(c, p, q) == Takes(c, "move", p, ResolveEntry(p), ResolveEntry(q), FreeCall)
handleFileCopy(c, p, q) == Takes(c, "copy", p, ResolveEntry(p), ResolveEntry(q), FreeCall)
handleFileSymlink(c, target, p) ==
    Takes(c, "symlink", p, ResolveEntry(p), Resolve(target), [FreeCall EXCEPT !.todo = target])
(* A recursive delete is typed for; the typed name is the client's business. *)
handleFileDelete(c, p, recursive) ==
    Takes(c, "delete", p, ResolveEntry(p), ResolveEntry(p), [FreeCall EXCEPT !.deep = recursive])
handleFileChmod(c, p, recursive) ==
    Takes(c, "chmod", p, ResolveEntry(p), ResolveEntry(p), [FreeCall EXCEPT !.deep = recursive])
handleFileChown(c, p, recursive) ==
    Takes(c, "chown", p, ResolveEntry(p), ResolveEntry(p), [FreeCall EXCEPT !.deep = recursive])

(* The whole list is sent; every path is resolved and repeats are dropped.  *)
MaxBookmarks == 60
handleFileBookmarks(c, list) ==
    LET found == [i \in DOMAIN list |-> Resolve(list[i])]
        kept(i) == \A j \in 1..(i - 1) : found[j].path # found[i].path
        clean == SelectSeq([i \in DOMAIN list |-> IF kept(i) THEN <<found[i].path>> ELSE <<>>],
                           LAMBDA x : x # <<>>)
    IN  /\ fileOps < MaxFileOps /\ fcall[c].op = "idle"
        /\ \A i \in DOMAIN list : found[i].ok
        /\ bookmarks' = [i \in 1..Min({Len(clean), MaxBookmarks}) |-> clean[i][1]]
        /\ fileOps' = fileOps + 1
        /\ UNCHANGED <<tree, fcall, extractMu>>

Answered(c) ==
    /\ fcall[c].end # ""
    /\ fcall' = [fcall EXCEPT ![c] = FreeCall]
    /\ UNCHANGED <<tree, extractMu, bookmarks, fileOps>>

-----------------------------------------------------------------------------
(* The operations, on the paths they were given.                           *)

(* Write: the new text goes to a temporary file beside the target under a   *)
(* name nobody else uses, with the target's mode...                         *)
WriteTemp(c) ==
    LET full == fcall[c].src
    IN  /\ Asked(c, "write")
        /\ IF IsDir(full) \/ ~IsDir(Parent(full)) \/ ~Room(full)
           THEN Fails(c)
           ELSE /\ fcall' = [fcall EXCEPT ![c] = [@ EXCEPT !.op = "rename",
                      !.todo = IF Stat(full).kind = "none" THEN <<"0644">> ELSE <<Stat(full).mode>>]]
                /\ UNCHANGED <<tree, extractMu, bookmarks, fileOps>>

(* ...and is renamed over it.                                               *)
WriteRename(c) ==
    LET full == fcall[c].src
    IN  /\ Asked(c, "rename")
        /\ IF Lstat(full).kind = "dir" \/ ~IsDir(Parent(full)) THEN Fails(c)
           ELSE Becomes(c, Put(Place(full), [File(fcall[c].text, 1) EXCEPT
                                             !.mode = Head(fcall[c].todo)]))

(* A write that fails, or is killed, before the rename.                     *)
WriteCut(c) == Asked(c, "rename") /\ Fails(c)

Mkdir(c) ==
    /\ Asked(c, "mkdir")
    /\ IF CanMkdirAll(fcall[c].src) THEN Becomes(c, MkdirAll(fcall[c].src, "0755")) ELSE Fails(c)

(* An existing file only gets a new time.                                   *)
Touch(c) ==
    LET full == fcall[c].src
    IN  /\ Asked(c, "touch")
        /\ IF Stat(full).kind # "none" THEN Becomes(c, tree)
           ELSE IF Lstat(full).kind = "none" /\ IsDir(Parent(full)) /\ Room(full)
           THEN Becomes(c, Put(Place(full), File("", 0)))
           ELSE Fails(c)

Delete(c) ==
    LET at == Place(fcall[c].src)
    IN  /\ Asked(c, "delete")
        /\ IF fcall[c].src \in Roots THEN Fails(c)
           ELSE IF fcall[c].deep THEN Becomes(c, Without(at))
           ELSE IF NodeAt(at).kind = "none" \/ \E q \in ChildrenOf(at) : tree[q].kind # "none"
           THEN Fails(c)
           ELSE Becomes(c, Put(at, NoNode))

(* A destination that is a directory receives the entry under its own name. *)
Destination(c) ==
    LET to == fcall[c].dst
    IN  IF IsDir(to) /\ fcall[c].src # <<>>
        THEN Append(EvalSymlinks(to).path, Last(fcall[c].src)) ELSE Place(to)

(* The places of an entry and everything below it, at the other end.        *)
Rebased(p, from, to) == to \o SubSeq(p, Len(from) + 1, Len(p))
Subtree(p) == {q \in FilePaths : Inside(q, p) /\ tree[q].kind # "none"}
Moved(from, to) ==
    [q \in FilePaths |->
        IF Inside(q, to) /\ Rebased(q, to, from) \in FilePaths THEN tree[Rebased(q, to, from)]
        ELSE IF Inside(q, from) \/ Inside(q, to) THEN NoNode ELSE tree[q]]

(* rename(2): not into itself, onto a directory only if both are and it is  *)
(* empty, never across filesystems.                                         *)
Renames(from, to) ==
    /\ NodeAt(from).kind # "none" /\ Room(to) /\ IsDir(Parent(to))
    /\ ~(to # from /\ Inside(to, from))
    /\ NodeAt(to).kind = "dir" => /\ NodeAt(from).kind = "dir"
                                 /\ \A q \in ChildrenOf(to) : tree[q].kind = "none"
    /\ NodeAt(from).kind = "dir" => NodeAt(to).kind \in {"none", "dir"}
    /\ \A q \in Subtree(from) : Room(Rebased(q, from, to))

Move(c) ==
    LET from == Place(fcall[c].src)
        to == Destination(c)
    IN  /\ Asked(c, "move")
        /\ IF NodeAt(from).kind # "none" /\ OnVolume(from) # OnVolume(to)
           THEN /\ fcall' = [fcall EXCEPT ![c] = [@ EXCEPT !.op = "moveCopy", !.dst = to,
                     !.pending = {fcall[c].src}]]
                /\ UNCHANGED <<tree, extractMu, bookmarks, fileOps>>
           ELSE IF from = to /\ NodeAt(from).kind # "none" THEN Becomes(c, tree)
           ELSE IF Renames(from, to) THEN Becomes(c, Moved(from, to)) ELSE Fails(c)

Copy(c) ==
    /\ Asked(c, "copy")
    /\ IF Lstat(fcall[c].src).kind = "none" THEN Fails(c)
       ELSE /\ fcall' = [fcall EXCEPT ![c] = [@ EXCEPT !.op = "copying", !.dst = Destination(c),
                 !.pending = {fcall[c].src}]]
            /\ UNCHANGED <<tree, extractMu, bookmarks, fileOps>>

(* copyPath for one entry of the tree being copied: a link is made again, a *)
(* file is opened with O_TRUNC, through a link at the destination, before   *)
(* its source is read, and the copy may be cut.                             *)
CopiedEntry(from, to, whole) ==
    LET n == Lstat(from)
        there == OpenedAt(to)
    IN  CASE n.kind = "link" -> Put(Place(to), Link(n.target))
          [] n.kind = "dir" -> MkdirAll(to, n.mode)
          [] OTHER -> Put(there, IF there = Place(from) THEN [n EXCEPT !.text = "", !.size = 0]
                                 ELSE [n EXCEPT !.text = IF whole THEN @ ELSE "copy",
                                       !.whole = whole /\ n.whole,
                                       !.mode = IF NodeAt(there).kind = "file"
                                                THEN NodeAt(there).mode ELSE n.mode])
CanCopy(from, to) ==
    CASE Lstat(from).kind = "link" -> Lstat(to).kind = "none" /\ IsDir(Parent(to)) /\ Room(Place(to))
      [] Lstat(from).kind = "dir" -> CanMkdirAll(to)
      [] Lstat(from).kind = "file" -> CanOpen(to)
      [] OTHER -> FALSE

(* A directory is read once its copy exists, and its entries come before    *)
(* its siblings.                                                            *)
copyPath(c) ==
    LET from == CHOOSE p \in fcall[c].pending : \A q \in fcall[c].pending : Len(p) >= Len(q)
        to == Rebased(from, fcall[c].src, fcall[c].dst)
        inside(x) == Append(Place(from), x)
        below == {x \in PathNames : Lstat(from).kind = "dir" /\ Room(inside(x))
                                     /\ tree'[inside(x)].kind # "none"}
    IN  /\ Asked(c, "copying") \/ Asked(c, "moveCopy")
        /\ fcall[c].pending # {}
        /\ \E whole \in BOOLEAN :
             IF CanCopy(from, to)
             THEN /\ tree' = CopiedEntry(from, to, whole)
                  /\ fcall' = [fcall EXCEPT ![c] = [@ EXCEPT
                                 !.pending = (@ \ {from}) \union {Append(from, x) : x \in below},
                                 !.end = IF whole THEN "" ELSE "error"]]
                  /\ UNCHANGED <<extractMu, bookmarks, fileOps>>
             ELSE Fails(c)

(* A move across filesystems removes its source when all of it is copied.   *)
CopyDone(c) ==
    /\ Asked(c, "copying") \/ Asked(c, "moveCopy")
    /\ fcall[c].pending = {}
    /\ Becomes(c, IF fcall[c].op = "moveCopy" THEN Without(Place(fcall[c].src)) ELSE tree)

(* A link's own mode cannot be changed; below a directory links are skipped. *)
Chmod(c) ==
    LET full == Place(fcall[c].src)
    IN  /\ Asked(c, "chmod")
        /\ IF NodeAt(full).kind = "none" \/ (~fcall[c].deep /\ NodeAt(full).kind = "link")
           THEN Fails(c)
           ELSE Becomes(c, [q \in FilePaths |->
                  IF /\ q = full \/ (fcall[c].deep /\ Inside(q, full))
                     /\ tree[q].kind \in {"file", "dir"}
                  THEN [tree[q] EXCEPT !.mode = "0600"] ELSE tree[q]])

(* Lchown: the link itself.                                                 *)
Chown(c) ==
    LET full == Place(fcall[c].src)
    IN  /\ Asked(c, "chown")
        /\ IF NodeAt(full).kind = "none" THEN Fails(c)
           ELSE Becomes(c, [q \in FilePaths |->
                  IF /\ q = full \/ (fcall[c].deep /\ Inside(q, full))
                     /\ tree[q].kind # "none"
                  THEN [tree[q] EXCEPT !.mode = "owned"] ELSE tree[q]])

Symlink(c) ==
    LET full == fcall[c].src
    IN  /\ Asked(c, "symlink")
        /\ IF Lstat(full).kind = "none" /\ Room(Place(full)) /\ IsDir(Parent(full))
           THEN Becomes(c, Put(Place(full), Link(fcall[c].todo)))
           ELSE Fails(c)

(* An upload truncates its target, or refuses an existing one, and leaves   *)
(* what had arrived when the stream ends early.                             *)
Upload(c) ==
    LET full == fcall[c].src
    IN  /\ Asked(c, "upload")
        /\ IF ~CanOpen(full) \/ (~fcall[c].deep /\ Lstat(full).kind # "none") THEN Fails(c)
           ELSE \E w \in BOOLEAN :
                  /\ tree' = Put(OpenedAt(full), [File(fcall[c].text, 1) EXCEPT
                                !.whole = w, !.mode = Overwritten(OpenedAt(full))])
                  /\ Ends(c, IF w THEN "ok" ELSE "error")
                  /\ UNCHANGED <<extractMu, bookmarks, fileOps>>

-----------------------------------------------------------------------------
(* Extraction, one request at a time.                                      *)

handleFileExtract(c, d, a) ==
    Takes(c, "extract", d, ResolvedPath(d), ResolvedPath(d), [FreeCall EXCEPT !.todo = a])

(* What may be written: what is free above the reserve, and never more than *)
(* the fixed limit.                                                         *)
extractByteLimit == Min({FreeUnits - minExtractFreeBytes, maxExtractBytes})

(* The lock is held until the request ends, so the space it reserved is its *)
(* own, and the destination is resolved under it.                           *)
LockFree(c) == extractMu = {}

Extract(c) ==
    /\ Asked(c, "extract")
    /\ LockFree(c)
    /\ IF ~Resolve(fcall[c].asked).ok THEN Fails(c)
       ELSE /\ extractMu' = extractMu \cup {c}
            /\ fcall' = [fcall EXCEPT ![c] = [@ EXCEPT !.op = "reserve",
                                              !.src = Resolve(fcall[c].asked).path]]
            /\ UNCHANGED <<tree, bookmarks, fileOps>>

ExtractEnds(c, how) == Ends(c, how) /\ extractMu' = extractMu \ {c} /\ UNCHANGED <<bookmarks, fileOps>>

(* The destination is made before the space is looked at.                   *)
Reserve(c) ==
    /\ Asked(c, "reserve")
    /\ tree' = IF CanMkdirAll(fcall[c].src) THEN MkdirAll(fcall[c].src, "0755") ELSE tree
    /\ IF ~CanMkdirAll(fcall[c].src) \/ extractByteLimit <= 0 THEN ExtractEnds(c, "error")
       ELSE /\ fcall' = [fcall EXCEPT ![c] = [@ EXCEPT !.op = "unpack", !.limit = extractByteLimit]]
            /\ UNCHANGED <<extractMu, bookmarks, fileOps>>

(* nextEntry and the request's ten minutes.                                 *)
nextEntry(c) == fcall[c].entries < maxExtractEntries

(* safepath.Join: inside the destination, through no link that is there.    *)
SafeJoin(dest, name) ==
    /\ name # <<"..">>
    /\ \A n \in 1..(Len(name) - 1) : Lstat(dest \o SubSeq(name, 1, n)).kind # "link"
    /\ \A n \in 1..(Len(name) - 1) : Lstat(dest \o SubSeq(name, 1, n)).kind # "file"

(* An entry of each kind: what it makes of the tree, or that it cannot.     *)
(* Parents are made for a directory and a file, not for a link; entries of  *)
(* any other kind are passed over.                                          *)
CanUnpack(dest, e) ==
    LET p == dest \o e.name
    IN  /\ SafeJoin(dest, e.name) /\ Room(Place(p))
        /\ e.kind = "dir" => CanMkdirAll(Parent(p)) /\ Lstat(p).kind # "file"
        /\ e.kind = "file" => CanMkdirAll(Parent(p)) /\ Lstat(p).kind # "dir"
        /\ e.kind = "link" => /\ SafeJoin(dest, Parent(e.name) \o e.target)
                              /\ IsDir(Parent(p))
                              /\ ~\E q \in ChildrenOf(Place(p)) : tree[q].kind # "none"
Unpacked(dest, e, units) ==
    LET at == Place(dest \o e.name)
        up == MkdirAll(Parent(dest \o e.name), "0755")
    IN  CASE e.kind = "dir" -> [up EXCEPT ![at] = IF @.kind = "dir" THEN @ ELSE Dir]
          [] e.kind = "link" -> Put(at, Link(dest \o Parent(e.name) \o e.target))
          [] e.kind = "file" -> [up EXCEPT ![at] = [File(e.text, units) EXCEPT
                                   !.whole = units = e.size, !.mode = Overwritten(at)]]
          [] OTHER -> tree

(* A failed file is removed, what it replaced included. *)
UnpackFails(dest, e, units) == [Unpacked(dest, e, units) EXCEPT ![Place(dest \o e.name)] = NoNode]

(* One entry: extractTar's and extractZip's loop.                           *)
ExtractEntry(c) ==
    LET e == Head(fcall[c].todo)
        dest == fcall[c].src
        fits == e.size <= fcall[c].limit
    IN  /\ Asked(c, "unpack") /\ fcall[c].todo # <<>>
        /\ IF ~nextEntry(c) \/ ~CanUnpack(dest, e)
           THEN ExtractEnds(c, "error") /\ UNCHANGED tree
           ELSE IF e.kind = "file" /\ ~fits
           THEN ExtractEnds(c, "error") /\ tree' = UnpackFails(dest, e, fcall[c].limit)
           ELSE /\ tree' = Unpacked(dest, e, e.size)
                /\ fcall' = [fcall EXCEPT ![c] = [@ EXCEPT !.todo = Tail(@), !.entries = @ + 1,
                                                  !.limit = @ - e.size]]
                /\ UNCHANGED <<extractMu, bookmarks, fileOps>>

(* The client leaves, the deadline passes or the archive cannot be read on, *)
(* between entries or within one.                                           *)
ExtractCut(c) ==
    /\ Asked(c, "unpack")
    /\ \/ UNCHANGED tree
       \/ /\ fcall[c].todo # <<>>
          /\ LET e == Head(fcall[c].todo)
             IN  /\ e.kind = "file" /\ e.size > 0 /\ CanUnpack(fcall[c].src, e)
                 /\ tree' = UnpackFails(fcall[c].src, e, 0)
    /\ ExtractEnds(c, "error")

ExtractDone(c) ==
    /\ Asked(c, "unpack") /\ fcall[c].todo = <<>>
    /\ ExtractEnds(c, "ok") /\ UNCHANGED tree

-----------------------------------------------------------------------------
FileRequest(c) ==
    \E p \in AskedPaths :
       \/ \E t \in NewTexts : handleFileWrite(c, p, t)
       \/ p # <<>> /\ \E overwrite \in BOOLEAN : handleFileUpload(c, Parent(p), Last(p), overwrite)
       \/ handleFileMkdir(c, p)
       \/ handleFileTouch(c, p)
       \/ \E q \in FilePaths : \/ handleFileMove(c, p, q)
                              \/ handleFileCopy(c, p, q)
                              \/ handleFileSymlink(c, q, p)
                              \/ handleFileBookmarks(c, <<p, q>>)
       \/ \E deep \in BOOLEAN : \/ handleFileDelete(c, p, deep)
                               \/ handleFileChmod(c, p, deep)
                               \/ handleFileChown(c, p, deep)

ExtractRequest(c) == \E d \in AskedPaths, a \in Archives : handleFileExtract(c, d, a)

FileAction(c) ==
    \/ WriteTemp(c) \/ WriteRename(c) \/ WriteCut(c) \/ Mkdir(c) \/ Touch(c) \/ Delete(c)
    \/ Move(c) \/ Copy(c) \/ copyPath(c) \/ CopyDone(c) \/ Chmod(c) \/ Chown(c)
    \/ Symlink(c) \/ Upload(c) \/ Answered(c)

Extraction(c) == Extract(c) \/ Reserve(c) \/ ExtractEntry(c) \/ ExtractCut(c) \/ ExtractDone(c)

FilesNext ==
    \E c \in FileCalls : FileRequest(c) \/ ExtractRequest(c) \/ FileAction(c) \/ Extraction(c)

FilesSpec == FilesInit /\ [][FilesNext]_fileVars

-----------------------------------------------------------------------------
(* An operation on a symbolic link acts on the link: a delete, a change of  *)
(* mode or of owner asked for an entry that was a link changes no other     *)
(* entry (ResolveEntry: "deleting the symlink current -> releases/v1        *)
(* removed the release directory").                                         *)
LinkLeavesTarget ==
    [][\A c \in FileCalls :
         /\ fcall[c].op \in {"delete", "chmod", "chown"} /\ fcall[c].link
         /\ fcall[c].end = "" /\ fcall'[c].end = "ok"
         => \A p \in FilePaths : tree'[p] # tree[p] => p = fcall[c].entry]_fileVars

(* Extraction never eats into the gigabyte it must leave free, however many *)
(* extractions are asked for at once (extractMu and extractByteLimit); what *)
(* uploads and copies take meanwhile is not counted.                        *)
ReserveKept ==
    [][\A c \in FileCalls :
         fcall[c].op = "unpack" /\ fcall'[c] # fcall[c]
         => UsedIn(tree') <= UsedIn(tree) \/ DiskUnits - UsedIn(tree') >= minExtractFreeBytes]_fileVars

(* An extraction that is cut, cancelled or over its budget leaves no file   *)
(* half extracted, and an interrupted save leaves none half written.        *)
NoHalfFile == \A p \in FilePaths : tree[p].text \in {"packed", "edited"} => tree[p].whole

(* No file is left half written, no link's target is touched for the link,  *)
(* and no extraction takes the reserve.                                     *)
FilesKept == []NoHalfFile /\ LinkLeavesTarget /\ ReserveKept
=============================================================================
