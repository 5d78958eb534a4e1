-------------------------------- MODULE Logs --------------------------------
(***************************************************************************)
(* The log viewer: logsx/tail.go, search.go and filter.go, and the routes   *)
(* of api/handlers_logs.go that tail, search and export.                    *)
(*                                                                         *)
(* A source is a file, the two files of a PM2 process, the two streams of a *)
(* container or the journal.  A record is one line, written whole; of its   *)
(* text the model keeps whether the query keeps it (hit), the level word in *)
(* it (word), the journal's priority and whether it carries a timestamp,    *)
(* which is then its place in its stream.  Sizes are counted in lines.      *)
(***************************************************************************)
EXTENDS Integers, Sequences, FiniteSets
LOCAL INSTANCE SequencesExt
LOCAL INSTANCE FiniteSetsExt

CONSTANTS
    LogSources,     \* the kinds of source: "file", "pm2", "docker", "journal"
    RecordKinds,    \* [hit, word, prio, dated]
    LogFilters,     \* [text, levels]: a query or exclusion is given, the chips asked for
    LogQueries,     \* [f, before, after, limit, head, archives, since, until]
    Wanted,         \* lines the tail opens with
    Widening,       \* followJournal: how many times as many it asks for under a query
    PrefillCap,     \* prefillCap, in lines
    LogChan, OutChan, BatchSize,    \* the buffers between the goroutines, and a frame
    DateExt,        \* logrotate names archives by date, not by generation
    RecentOnly,     \* journal entries younger than "2 days ago"
    Widths, histogramBuckets,       \* the units a column may have, the columns wanted
    MaxRecords, MaxGenerations      \* bounds; the files kept of a stream

Levels == {"critical", "error", "warn", "info", "debug"}

ASSUME LogsAssumption ==
    /\ LogSources \subseteq {"file", "pm2", "docker", "journal"}
    /\ RecordKinds \subseteq [hit : BOOLEAN, word : Levels \cup {""}, prio : 0..7, dated : BOOLEAN]
    /\ LogFilters \subseteq [text : BOOLEAN, levels : SUBSET (Levels \cup {"unknown", "other"})]
    /\ {Wanted, Widening, PrefillCap, LogChan, OutChan, BatchSize, MaxGenerations} \subseteq Nat \ {0}
    /\ {RecentOnly, histogramBuckets, MaxRecords} \subseteq Nat /\ DateExt \in BOOLEAN

VARIABLES
    source,     \* the kind of the source looked at
    written,        \* per stream every record written
    cuts,       \* per stream after how many records each of its files begins; the last is live
    over,       \* the container stopped, or journalctl ended
    tail,       \* one live view
    srch        \* one search or export

logHost == <<source, written, cuts, over>>
logVars == <<source, written, cuts, over, tail, srch>>

Streams == {"stdout", "stderr"}
StreamsOf(kind) == IF kind \in {"pm2", "docker"} THEN Streams ELSE {"stdout"}
Files == source \in {"file", "pm2"}
Each(x) == [s \in Streams |-> x]

NoTail ==
    [phase |-> "none", f |-> [text |-> FALSE, levels |-> {}], chips |-> {}, open |-> Each("todo"),
     off |-> Each(0), old |-> Each(0), from |-> Each(0), on |-> Each(0), pos |-> Each(0), seed |-> Each(<<>>),
     ch |-> Each(<<>>), reader |-> Each("none"), fwd |-> Each("none"),
     out |-> <<>>, batch |-> <<>>, sent |-> <<>>, cancelled |-> FALSE]
NoSearch == [phase |-> "none"]

LogsInit ==
    /\ source \in LogSources
    /\ written = Each(<<>>) /\ cuts = Each(<<0>>) /\ over = FALSE
    /\ tail = NoTail /\ srch = NoSearch

-----------------------------------------------------------------------------
(* The host.                                                               *)

Total == Len(written["stdout"]) + Len(written["stderr"])

WriteRecord(s) ==
    /\ s \in StreamsOf(source) /\ ~over /\ Total < MaxRecords
    /\ \E kind \in RecordKinds : written' = [written EXCEPT ![s] = Append(@, kind)]
    /\ UNCHANGED <<source, cuts, over, tail, srch>>

(* logrotate: the live file becomes an archive and a new one takes its path. *)
Begin(s) == cuts[s][Len(cuts[s])]
Rotate(s) ==
    /\ Files /\ s \in StreamsOf(source) /\ Len(written[s]) > Begin(s)
    /\ cuts' = [cuts EXCEPT ![s] = Append(@, Len(written[s]))]
    /\ UNCHANGED <<source, written, over, tail, srch>>

SourceEnds ==
    /\ ~Files /\ ~over /\ over' = TRUE
    /\ UNCHANGED <<source, written, cuts, tail, srch>>

-----------------------------------------------------------------------------
(* One description of which lines are wanted.                              *)

(* A chip that names no level is ignored.                                   *)
NewFilter(f) == [f EXCEPT !.levels = @ \cap (Levels \cup {"unknown"})]
MatchText(f, r) == ~f.text \/ r.hit
MatchLevel(f, level) == f.levels = {} \/ (IF level = "" THEN "unknown" ELSE level) \in f.levels

LevelFromPriority(p) ==
    CASE p <= 2 -> "critical" [] p = 3 -> "error" [] p = 4 -> "warn" [] p <= 6 -> "info" [] OTHER -> "debug"

(* The narrowest range of priorities that holds every chip; where one names *)
(* no priority no range is asked for.                                       *)
PriorityOf == [critical |-> 2, error |-> 3, warn |-> 4, info |-> 6, debug |-> 7]
maxJournalPriority(chips) ==
    IF chips = {} \/ ~(chips \subseteq Levels) THEN 7 ELSE Max({PriorityOf[l] : l \in chips})

(* What a line's level is read as: the word in it; a container's stderr     *)
(* counts as an error where there is none; the journal's priority.          *)
Tagged(s, level) == IF level = "" /\ s = "stderr" THEN "error" ELSE level
LevelOf(s, r) ==
    CASE source = "docker" -> Tagged(s, r.word)
      [] source = "journal" -> LevelFromPriority(r.prio)
      [] OTHER -> r.word
Passes(f, s, i) == MatchText(f, written[s][i]) /\ MatchLevel(f, LevelOf(s, written[s][i]))
Line(s, i) == [s |-> s, i |-> i, level |-> LevelOf(s, written[s][i])]

-----------------------------------------------------------------------------
(* The live tail.                                                          *)

Filtered == tail.f.text \/ tail.f.levels # {}
PassingIn(s, lo, hi) == {i \in lo..hi : Passes(tail.f, s, i)}
Latest(S, n) == {i \in S : Cardinality({j \in S : j >= i}) <= n}

(* The filter compiled and the socket is upgraded.                          *)
handleLogStream ==
    /\ tail.phase = "none"
    /\ \E f \in LogFilters : tail' = [tail EXCEPT !.phase = "opening", !.f = NewFilter(f), !.chips = f.levels]
    /\ UNCHANGED <<logHost, srch>>

(* Without a filter the tail starts n lines from the end of the file; with  *)
(* one the end of the file is scanned for the last n that pass, and the     *)
(* tail starts where the scan stopped.                                      *)
seekBackLines(s) == Max({Begin(s), Len(written[s]) - Wanted})
ScanFrom(s) == Max({Begin(s), Len(written[s]) - PrefillCap})
scanBack(s) == Latest(PassingIn(s, ScanFrom(s) + 1, Len(written[s])), Wanted)
InOrder(s, S) == [k \in 1..Cardinality(S) |-> Line(s, CHOOSE i \in S : Cardinality({j \in S : j <= i}) = k)]

ScanTail_KeepsOffset(s) ==
    /\ Files /\ tail.phase = "opening" /\ s \in StreamsOf(source) /\ tail.open[s] = "todo"
    /\ tail' = [tail EXCEPT !.open[s] = "scanned", !.old[s] = Begin(s),
                            !.off[s] = seekBackLines(s) - Begin(s),
                            !.from[s] = IF Filtered THEN ScanFrom(s) ELSE seekBackLines(s),
                            !.seed[s] = IF Filtered THEN InOrder(s, scanBack(s)) ELSE <<>>]
    /\ UNCHANGED <<logHost, srch>>
ScanTail(s) ==
    /\ Files /\ tail.phase = "opening" /\ s \in StreamsOf(source) /\ tail.open[s] = "todo"
    /\ \/ tail' = [tail EXCEPT !.open[s] = "scanned", !.old[s] = Begin(s),
                               !.off[s] = (IF Filtered THEN Len(written[s]) ELSE seekBackLines(s)) - Begin(s),
                               !.from[s] = IF Filtered THEN ScanFrom(s) ELSE seekBackLines(s),
                               !.seed[s] = IF Filtered THEN InOrder(s, scanBack(s)) ELSE <<>>]
       \/ tail' = [tail EXCEPT !.open[s] = "failed"]
    /\ UNCHANGED <<logHost, srch>>

(* The path is opened once more to be followed: it may be a new file by     *)
(* then, and an offset past its end is a truncated file to the tail         *)
(* library, which reads that from its start.                                *)
Resumed(s) == IF Begin(s) + tail.off[s] > Len(written[s]) THEN Begin(s) ELSE Begin(s) + tail.off[s]
follow(s) ==
    /\ Files /\ tail.phase = "opening" /\ tail.open[s] = "scanned"
    /\ \/ tail' = [tail EXCEPT !.open[s] = "run", !.reader[s] = "run", !.fwd[s] = "run",
                            !.on[s] = Resumed(s), !.pos[s] = Resumed(s)]
       \/ tail' = [tail EXCEPT !.open[s] = "failed", !.seed[s] = <<>>]
    /\ UNCHANGED <<logHost, srch>>

(* The daemon and journalctl find the opening lines themselves; journalctl  *)
(* is asked for more of them where a query will drop some, and only for     *)
(* priorities that can pass.                                                *)
Asked(s) == {i \in DOMAIN written[s] : source = "journal" => written[s][i].prio <= maxJournalPriority(tail.chips)}
Openings ==
    IF source = "docker"
    THEN {p \in [Streams -> 0..MaxRecords] :
            /\ \A s \in Streams : p[s] <= Len(written[s])
            /\ Total - p["stdout"] - p["stderr"] = Min({Total, Wanted})}
    ELSE LET n == IF tail.f.text THEN Wanted * Widening ELSE Wanted
         IN  {[s \in Streams |-> IF Latest(Asked(s), n) = {} THEN Len(written[s]) ELSE Min(Latest(Asked(s), n)) - 1]}
followSource ==
    /\ ~Files /\ tail.phase = "opening"
    /\ \/ \E p \in Openings :
            tail' = [tail EXCEPT !.phase = "live", !.from = p, !.on = p, !.pos = p,
                                 !.open = [s \in Streams |-> IF s \in StreamsOf(source) THEN "run" ELSE "todo"],
                                 !.reader = [s \in Streams |-> IF s \in StreamsOf(source) THEN "run" ELSE "none"],
                                 !.fwd = [s \in Streams |-> IF s \in StreamsOf(source) THEN "run" ELSE "none"]]
       \/ tail' = [tail EXCEPT !.phase = "left", !.cancelled = TRUE]
    /\ UNCHANGED <<logHost, srch>>

(* What the view is goes first.  PM2 goes on with the one of its files that *)
(* could be opened.                                                         *)
SendMeta ==
    /\ Files /\ tail.phase = "opening" /\ \A s \in StreamsOf(source) : tail.open[s] \in {"run", "failed"}
    /\ tail' = IF \E s \in StreamsOf(source) : tail.open[s] = "run"
               THEN [tail EXCEPT !.phase = "live"]
               ELSE [tail EXCEPT !.phase = "left", !.cancelled = TRUE]
    /\ UNCHANGED <<logHost, srch>>

(* The prefill first, then line by line what is written.  A file's lines    *)
(* are filtered here, a container's and the journal's on the way out.       *)
SendSeed(s) ==
    /\ tail.reader[s] = "run" /\ tail.seed[s] # <<>> /\ Len(tail.ch[s]) < LogChan
    /\ tail' = [tail EXCEPT !.ch[s] = Append(@, Head(tail.seed[s])), !.seed[s] = Tail(@)]
    /\ UNCHANGED <<logHost, srch>>

Offered(s, i) == IF Files THEN Passes(tail.f, s, i) ELSE i \in Asked(s)
ReadLine(s) ==
    LET i == tail.pos[s] + 1
    IN  /\ tail.reader[s] = "run" /\ tail.seed[s] = <<>> /\ i <= Len(written[s])
        /\ Offered(s, i) => Len(tail.ch[s]) < LogChan
        /\ tail' = [tail EXCEPT !.pos[s] = i,
                                !.ch[s] = IF Offered(s, i) THEN Append(@, Line(s, i)) ELSE @]
        /\ UNCHANGED <<logHost, srch>>

ReaderEnds(s) ==
    /\ tail.reader[s] = "run"
    /\ tail.cancelled \/ (over /\ tail.pos[s] = Len(written[s]))
    /\ tail' = [tail EXCEPT !.reader[s] = "left"]
    /\ UNCHANGED <<logHost, srch>>

(* Lines of one stream reach the channel all streams share in order.        *)
Sieved(l) == Files \/ Passes(tail.f, l.s, l.i)
forwardLines(s) ==
    /\ tail.fwd[s] = "run" /\ tail.ch[s] # <<>>
    /\ LET l == Head(tail.ch[s])
           tagged == IF source = "pm2" THEN [l EXCEPT !.level = Tagged(s, @)] ELSE l
       IN  /\ Sieved(l) => Len(tail.out) < OutChan
           /\ tail' = [tail EXCEPT !.ch[s] = Tail(@), !.out = IF Sieved(l) THEN Append(@, tagged) ELSE @]
    /\ UNCHANGED <<logHost, srch>>

ForwarderEnds_Blocked(s) ==
    /\ tail.fwd[s] = "run" /\ tail.reader[s] = "left" /\ tail.ch[s] = <<>>
    /\ tail' = [tail EXCEPT !.fwd[s] = "left"]
    /\ UNCHANGED <<logHost, srch>>
ForwarderEnds(s) ==
    /\ tail.fwd[s] = "run"
    /\ IF tail.ch[s] = <<>> THEN tail.reader[s] = "left" ELSE tail.cancelled
    /\ tail' = [tail EXCEPT !.fwd[s] = "left"]
    /\ UNCHANGED <<logHost, srch>>

(* The pump frames what has come, at the latest at the ticker, and leaves   *)
(* with the last frame when a container or the journal has ended.           *)
pumpTakes ==
    /\ tail.phase = "live" /\ tail.out # <<>>
    /\ LET b == Append(tail.batch, Head(tail.out))
       IN  \/ Len(b) < BatchSize /\ tail' = [tail EXCEPT !.out = Tail(@), !.batch = b]
           \/ Len(b) >= BatchSize /\ tail' = [tail EXCEPT !.out = Tail(@), !.batch = <<>>, !.sent = @ \o b]
           \/ Len(b) >= BatchSize /\ tail' = [tail EXCEPT !.phase = "left", !.cancelled = TRUE]
    /\ UNCHANGED <<logHost, srch>>
pumpFlushes ==
    /\ tail.phase = "live" /\ tail.batch # <<>>
    /\ \/ tail' = [tail EXCEPT !.batch = <<>>, !.sent = @ \o tail.batch]
       \/ tail' = [tail EXCEPT !.phase = "left", !.cancelled = TRUE]
    /\ UNCHANGED <<logHost, srch>>
pumpEnds ==
    /\ tail.phase = "live" /\ tail.out = <<>> /\ ~Files
    /\ \A s \in StreamsOf(source) :
          tail.fwd[s] = "left" /\ (source = "docker" => tail.reader[s] = "left" /\ tail.ch[s] = <<>>)
    /\ tail' = [tail EXCEPT !.phase = "left", !.cancelled = TRUE, !.batch = <<>>, !.sent = @ \o tail.batch]
    /\ UNCHANGED <<logHost, srch>>

(* The browser goes: DrainControl cancels, and the handler leaves with it.  *)
ViewerLeaves ==
    /\ tail.phase \in {"opening", "live"} /\ ~tail.cancelled
    /\ tail' = [tail EXCEPT !.cancelled = TRUE]
    /\ UNCHANGED <<logHost, srch>>
pumpLeaves ==
    /\ tail.phase = "live" /\ tail.cancelled
    /\ tail' = [tail EXCEPT !.phase = "left"]
    /\ UNCHANGED <<logHost, srch>>
-----------------------------------------------------------------------------
(* The collector: what an answer is made of, whatever the lines come from.  *)

EmptyCollector ==
    [lines |-> <<>>, truncated |-> FALSE, trailing |-> <<>>, pending |-> 0, lastKept |-> 0,
     scanned |-> 0, matched |-> 0, files |-> <<>>, allScanned |-> 0, allMatched |-> 0,
     stamps |-> {}, complete |-> TRUE]
clampContext(n) == Max({0, Min({n, 20})})

Dated(l) == source \in {"docker", "journal"} \/ written[l.s][l.i].dated
inWindow(l, o) ==
    Dated(l) => /\ o.since # 0 => l.i >= o.since
                /\ o.until # 0 => l.i <= o.until
Matches(l, o) == MatchText(o.f, written[l.s][l.i]) /\ MatchLevel(o.f, l.level) /\ inWindow(l, o)

closeFile(c) ==
    [c EXCEPT !.files = IF @ = <<>> THEN @
                        ELSE [@ EXCEPT ![Len(@)] = [@ EXCEPT !.scanned = c.scanned, !.matched = c.matched]],
              !.allScanned = @ + c.scanned, !.allMatched = @ + c.matched,
              !.scanned = 0, !.matched = 0]
NextFile_Bridges(c, file) ==
    [closeFile(c) EXCEPT !.files = Append(@, [file |-> file, scanned |-> 0, matched |-> 0, error |-> FALSE]),
                         !.lastKept = 0]
NextFile(c, file) ==
    [closeFile(c) EXCEPT !.files = Append(@, [file |-> file, scanned |-> 0, matched |-> 0, error |-> FALSE]),
                         !.trailing = <<>>, !.pending = 0, !.lastKept = 0]
FileError(c) == [c EXCEPT !.files[Len(c.files)].error = TRUE]

keep(c, l, o) ==
    LET more == Append(c.lines, l)
        full == Len(more) > o.limit
    IN  [c EXCEPT !.lastKept = Max({@, l.no}), !.truncated = @ \/ full,
                  !.lines = IF ~full THEN more ELSE IF o.head THEN SubSeq(more, 1, o.limit) ELSE Tail(more)]

(* A line that does not pass is context of the match before it or, perhaps, *)
(* of the one after it.                                                     *)
FeedOther(c, l, o) ==
    LET before == clampContext(o.before)
        ctx == [l EXCEPT !.context = TRUE]
    IN  IF c.pending > 0 THEN [keep(c, ctx, o) EXCEPT !.pending = @ - 1]
        ELSE IF before > 0
        THEN [c EXCEPT !.trailing = Append(IF Len(@) = before THEN Tail(@) ELSE @, ctx)]
        ELSE c
FeedMatch(c, l, o) ==
    LET counted == [c EXCEPT !.matched = @ + 1,
                             !.stamps = IF Dated(l) THEN @ \cup {[at |-> l.i, s |-> l.s, level |-> l.level]} ELSE @]
        led == FoldLeft(LAMBDA d, b : IF b.no <= d.lastKept THEN d ELSE keep(d, b, o), counted, c.trailing)
    IN  IF o.head /\ c.truncated THEN [counted EXCEPT !.trailing = <<>>, !.pending = 0]
        ELSE [keep(led, l, o) EXCEPT !.trailing = <<>>, !.pending = clampContext(o.after)]
Feed(c, l, o) ==
    LET d == [c EXCEPT !.scanned = @ + 1]
    IN  IF Matches(l, o) THEN FeedMatch(d, l, o) ELSE FeedOther(d, l, o)
FeedAll(c, q, o) == FoldLeft(LAMBDA d, l : Feed(d, l, o), c, q)

(* The columns of the chart: the first unit that needs no more than wanted. *)
histogram(stamps) ==
    LET ats == {x.at : x \in stamps}
        span == Max({1, Max(ats) - Min(ats)})
        fits == {k \in DOMAIN Widths : span \div Widths[k] <= histogramBuckets}
        width == Widths[IF fits = {} THEN Len(Widths) ELSE Min(fits)]
        start == (Min(ats) \div width) * width
        At(k) == {x \in stamps : (x.at - start) \div width = k}
    IN  [k \in 0..((Max(ats) - start) \div width) |->
           [start |-> start + k * width, total |-> Cardinality(At(k)), counts |-> [l \in {x.level : x \in At(k)} |-> Cardinality({x \in At(k) : x.level = l})]]]

-----------------------------------------------------------------------------
(* Searching and exporting.                                                *)

Generations(s) == {g \in DOMAIN cuts[s] : g > Len(cuts[s]) - MaxGenerations}
InFile(s, g) ==
    LET top == IF g = Len(cuts[s]) THEN Len(written[s]) ELSE cuts[s][g + 1]
    IN  [k \in 1..(top - cuts[s][g]) |->
            [s |-> s, i |-> cuts[s][g] + k, no |-> k, context |-> FALSE,
             level |-> LET w == LevelOf(s, written[s][cuts[s][g] + k])
                       IN  IF source = "pm2" THEN Tagged(s, w) ELSE w]]

(* An archive is listed under a name, oldest first, and opened by it later: *)
(* under logrotate's numbers the name may stand for another file by then.   *)
Archives(s) ==
    LET n == Cardinality(Generations(s)) - 1
    IN  [k \in 1..n |-> [s |-> s, live |-> FALSE, id |-> IF DateExt THEN Len(cuts[s]) - n - 1 + k ELSE n + 1 - k]]
Denoted(name) ==
    IF name.live THEN Len(cuts[name.s]) ELSE IF DateExt THEN name.id ELSE Len(cuts[name.s]) - name.id
Contents(name) ==
    IF Denoted(name) \in Generations(name.s) THEN InFile(name.s, Denoted(name)) ELSE <<>>

(* An export begins at the beginning and is not capped (what is no file, at *)
(* 20000 lines); what is no file is searched first.                         *)
Options(o, mode) ==
    LET compiled == [o EXCEPT !.f = NewFilter(@)]
    IN  IF mode = "search" THEN compiled ELSE [compiled EXCEPT !.head = TRUE, !.limit = MaxRecords + 1]
handleLogSearch ==
    /\ srch.phase = "none"
    /\ \E o \in LogQueries, mode \in {"search", "export"} :
         srch' = [phase |-> "run", mode |-> mode, o |-> Options(o, mode), chips |-> o.f.levels,
                  todo |-> IF source = "pm2" THEN <<"stdout", "stderr">> ELSE <<"stdout">>,
                  names |-> <<>>, c |-> EmptyCollector, read |-> <<>>,
                  due |-> written, cuts |-> cuts, late |-> FALSE, cut |-> FALSE]
    /\ UNCHANGED <<logHost, tail>>

(* The request's time limit, or its caller gone. *)
SearchExpires ==
    /\ srch.phase = "run" /\ ~srch.late
    /\ srch' = [srch EXCEPT !.late = TRUE]
    /\ UNCHANGED <<logHost, tail>>

(* A target's archives are listed when its turn has come.                   *)
SearchTargets ==
    /\ Files /\ srch.phase = "run" /\ srch.names = <<>> /\ srch.todo # <<>>
    /\ LET s == Head(srch.todo)
       IN  srch' = [srch EXCEPT !.todo = Tail(@),
                                !.names = (IF srch.o.archives THEN Archives(s) ELSE <<>>)
                                          \o <<[s |-> s, live |-> TRUE, id |-> 0]>>]
    /\ UNCHANGED <<logHost, tail>>

Stopped(c) == [srch EXCEPT !.phase = "done", !.cut = TRUE, !.late = TRUE, !.c = [closeFile(c) EXCEPT !.complete = FALSE]]
scanFile ==
    /\ Files /\ srch.phase = "run" /\ srch.mode = "search" /\ srch.names # <<>>
    /\ LET name == Head(srch.names)
           q == Contents(name)
           opened == NextFile(srch.c, name)
       IN  \/ srch.late /\ srch' = Stopped(srch.c)
           \/ \E k \in 0..Len(q) :
                LET part == SubSeq(q, 1, k)
                    fed == FeedAll(opened, part, srch.o)
                IN  \/ /\ ~srch.late /\ k = Len(q) /\ Denoted(name) \in Generations(name.s)
                       /\ srch' = [srch EXCEPT !.names = Tail(@), !.c = fed, !.read = Append(@, part)]
                    \/ /\ ~srch.late
                       /\ srch' = [srch EXCEPT !.names = Tail(@), !.c = FileError(fed), !.read = Append(@, part)]
                    \/ srch' = [Stopped(FileError(fed)) EXCEPT !.read = Append(@, part)]
    /\ UNCHANGED <<logHost, tail>>

(* The export writes what passes and ends at the first file it cannot read. *)
Exportable(q, o) == SelectSeq(q, LAMBDA l : /\ MatchText(o.f, written[l.s][l.i])
                                            /\ MatchLevel(o.f, LevelOf(l.s, written[l.s][l.i])) /\ inWindow(l, o))
rangeOne ==
    /\ Files /\ srch.phase = "run" /\ srch.mode = "export" /\ srch.names # <<>>
    /\ LET q == Contents(Head(srch.names))
       IN  \E k \in 0..Len(q) :
             LET part == SubSeq(q, 1, k)
                 more == [srch EXCEPT !.c.lines = @ \o Exportable(part, srch.o), !.read = Append(@, part)]
             IN  \/ /\ k = Len(q) /\ (k > 0 => ~srch.late) /\ Denoted(Head(srch.names)) \in Generations(Head(srch.names).s)
                    /\ srch' = [more EXCEPT !.names = Tail(@)]
                 \/ srch' = [more EXCEPT !.phase = "done", !.cut = TRUE]
    /\ UNCHANGED <<logHost, tail>>

SearchAnswers ==
    /\ Files /\ srch.phase = "run" /\ srch.names = <<>> /\ srch.todo = <<>>
    /\ srch' = [srch EXCEPT !.phase = "done", !.c = closeFile(@)]
    /\ UNCHANGED <<logHost, tail>>

(* The daemon's own since and until narrow what it sends; its two streams   *)
(* come in no order of their own.  The clock is looked at when a line comes, *)
(* and the lines also end when the clock has run out.                       *)
Sent(o) == [s \in Streams |-> SelectSeq(InFile(s, 1), LAMBDA l : inWindow(l, o))]
Merged(a, b) ==
    {q \in [1..(Len(a) + Len(b)) -> ToSet(a) \cup ToSet(b)] :
        SelectSeq(q, LAMBDA l : l.s = "stdout") = a /\ SelectSeq(q, LAMBDA l : l.s = "stderr") = b}
Numbered(q) == [k \in DOMAIN q |-> [q[k] EXCEPT !.no = k]]
searchContainer ==
    /\ source = "docker" /\ srch.phase = "run"
    /\ \E q \in Merged(Sent(srch.o)["stdout"], Sent(srch.o)["stderr"]), seen \in BOOLEAN :
       \E k \in 0..Len(q) :
         LET part == Numbered(SubSeq(q, 1, k))
             fed == FeedAll(NextFile(EmptyCollector, [s |-> "stdout", live |-> TRUE, id |-> 0]), part, srch.o)
         IN  /\ k < Len(q) => srch.late
             /\ seen => k < Len(q)
             /\ srch' = [srch EXCEPT !.phase = "done", !.read = <<part>>, !.cut = k < Len(q),
                                     !.c = [closeFile(fed) EXCEPT !.complete = ~seen]]
    /\ UNCHANGED <<logHost, tail>>

(* Without a bound the journal is read from two days ago.                   *)
JournalRead(o) ==
    SelectSeq(InFile("stdout", 1),
              LAMBDA l : /\ written[l.s][l.i].prio <= maxJournalPriority(srch.chips)
                         /\ inWindow(l, o)
                         /\ o.since = 0 => l.i > Len(written["stdout"]) - RecentOnly)
searchJournal ==
    /\ source = "journal" /\ srch.phase = "run"
    /\ LET q == JournalRead(srch.o)
       IN  \E k \in 0..Len(q) :
             LET part == Numbered(SubSeq(q, 1, k))
                 fed == FeedAll(NextFile(EmptyCollector, [s |-> "stdout", live |-> TRUE, id |-> 0]), part, srch.o)
             IN  /\ k < Len(q) => srch.late
                 /\ srch' = [srch EXCEPT !.phase = "done", !.read = <<part>>, !.cut = k < Len(q),
                                         !.c = [closeFile(fed) EXCEPT !.complete = ~srch.late]]
    /\ UNCHANGED <<logHost, tail>>

-----------------------------------------------------------------------------
TailSteps(s) ==
    \/ ScanTail(s) \/ follow(s) \/ SendSeed(s) \/ ReadLine(s) \/ ReaderEnds(s)
    \/ forwardLines(s) \/ ForwarderEnds(s)
TailNext ==
    \/ handleLogStream \/ followSource \/ SendMeta
    \/ \E s \in Streams : TailSteps(s)
    \/ pumpTakes \/ pumpFlushes \/ pumpEnds \/ ViewerLeaves \/ pumpLeaves
SearchNext ==
    \/ handleLogSearch \/ SearchExpires \/ SearchTargets \/ scanFile \/ rangeOne
    \/ SearchAnswers \/ searchContainer \/ searchJournal
HostNext == (\E s \in Streams : WriteRecord(s) \/ Rotate(s)) \/ SourceEnds

LogsNext == HostNext \/ TailNext \/ SearchNext
LogsSpec == LogsInit /\ [][LogsNext]_logVars

(* Go runs every goroutine that can go on; a viewer who left is gone.       *)
LogsFairness ==
    /\ \A s \in Streams : /\ WF_logVars(ReaderEnds(s)) /\ WF_logVars(ForwarderEnds(s)) /\ WF_logVars(forwardLines(s))
                          /\ WF_logVars(ScanTail(s)) /\ WF_logVars(follow(s))
    /\ WF_logVars(SendMeta) /\ WF_logVars(followSource) /\ WF_logVars(pumpLeaves)

-----------------------------------------------------------------------------
LogsTypeOK ==
    /\ source \in LogSources /\ over \in BOOLEAN
    /\ tail.phase \in {"none", "opening", "live", "left"}
    /\ srch.phase \in {"none", "run", "done"}
    /\ \A s \in Streams : written[s] \in Seq(RecordKinds) /\ Begin(s) <= Len(written[s]) /\ tail.pos[s] <= Len(written[s])

(* Of a stream, what is on its way to the browser, oldest first.            *)
Flow(s) ==
    LET all == tail.sent \o tail.batch \o tail.out \o SelectSeq(tail.ch[s], Sieved) \o tail.seed[s]
    IN  SelectSeq(all, LAMBDA l : l.s = s)
Scanned(s) == tail.old[s] + tail.off[s]

(* A live view shows each record that passes once, in the order written,    *)
(* from the opening lines on and through every rotation: "the follow starts *)
(* exactly there and no line is shown twice or missed" (scanBack). Only     *)
(* what a rotation between scan and follow left behind is not shown.        *)
EachShownOnce ==
    \A s \in StreamsOf(source) :
      LET q == Flow(s)
      IN  /\ \A j, k \in DOMAIN q : j < k => q[j].i < q[k].i
          /\ tail.open[s] = "run" =>
               /\ Files => tail.on[s] >= Scanned(s)
               /\ Files /\ tail.old[s] = Begin(s) => tail.on[s] = Scanned(s)
               /\ {q[k].i : k \in DOMAIN q} =
                    PassingIn(s, tail.on[s] + 1, tail.pos[s])
                    \cup IF Files THEN Latest(PassingIn(s, tail.from[s] + 1, Scanned(s)), Wanted) ELSE {}

(* Nothing goes to a browser in frames larger than a batch, or late.        *)
TailInv == LogsTypeOK /\ EachShownOnce /\ Len(tail.batch) < BatchSize

(* What an answer has to be, given what was read of each file: the matches, *)
(* and around each the lines asked for, of the same file.                   *)
Hits(part, o) == {k \in DOMAIN part : Matches(part[k], o)}
Shown(part, o) ==
    LET near(k) == \E m \in Hits(part, o) : m - clampContext(o.before) <= k /\ k <= m + clampContext(o.after)
        rendered == [k \in DOMAIN part |-> [part[k] EXCEPT !.context = k \notin Hits(part, o)]]
    IN  SelectSeq(rendered, LAMBDA l : near(l.no))
AllOf(f(_)) == FlattenSeq([k \in DOMAIN srch.read |-> f(srch.read[k])])
AnswerRight ==
    LET o == srch.o
        shown == AllOf(LAMBDA part : Shown(part, o))
        hits == SelectSeq(AllOf(LAMBDA part : part), LAMBDA l : Matches(l, o))
        stamped == SelectSeq(hits, Dated)
        bars == histogram(srch.c.stamps)
    IN  /\ srch.c.lines = IF Len(shown) <= o.limit THEN shown
                          ELSE IF o.head THEN SubSeq(shown, 1, o.limit)
                          ELSE SubSeq(shown, Len(shown) - o.limit + 1, Len(shown))
        /\ srch.c.truncated = (Len(shown) > o.limit)
        /\ srch.c.allMatched = Len(hits)
        /\ srch.c.allScanned = Len(AllOf(LAMBDA part : part))
        /\ stamped # <<>> =>
             /\ MapThenSumSet(LAMBDA k : bars[k].total, DOMAIN bars) = Len(stamped)
             /\ \A k \in DOMAIN bars :
                  bars[k].total = MapThenSumSet(LAMBDA l : bars[k].counts[l], DOMAIN bars[k].counts)

(* No record is read twice or out of order, though the archives change      *)
(* their names while they are read; and an answer that calls itself         *)
(* complete, with every file read, holds what was there when it was asked,  *)
(* unless the files were rotated meanwhile (SearchResult.Complete).         *)
ReadOnce ==
    LET seen(s) == SelectSeq(AllOf(LAMBDA part : part), LAMBDA l : l.s = s)
        first(s) == IF srch.o.archives THEN Max({1, Len(srch.cuts[s]) - MaxGenerations + 1})
                    ELSE Len(srch.cuts[s])
        whole == srch.c.complete /\ \A k \in DOMAIN srch.c.files : ~srch.c.files[k].error
    IN  \A s \in StreamsOf(source) :
          /\ \A j, k \in DOMAIN seen(s) : j < k => seen(s)[j].i < seen(s)[k].i
          /\ Files /\ srch.phase = "done" /\ srch.mode = "search" /\ whole /\ cuts = srch.cuts =>
               (srch.cuts[s][first(s)] + 1)..Len(srch.due[s]) \subseteq {seen(s)[k].i : k \in DOMAIN seen(s)}
          /\ srch.phase = "done" /\ srch.mode = "search" /\ ~srch.cut /\ source = "journal" =>
               \A i \in DOMAIN srch.due[s] :
                  LET l == [s |-> s, i |-> i, level |-> LevelOf(s, written[s][i])]
                  IN  Matches(l, srch.o) /\ (srch.o.since = 0 => i > Len(written[s]) - RecentOnly)
                        => \E k \in DOMAIN seen(s) : seen(s)[k].i = i

(* A search of any kind of source answers from what it read and nothing     *)
(* else (Collector: "cannot quietly answer the same question three          *)
(* different ways").                                                        *)
SearchInv ==
    /\ srch.phase # "none" => ReadOnce
    /\ srch.phase = "done" /\ (srch.mode = "search" \/ ~Files) => AnswerRight

(* A log view, live or searched, shows what is in the log.                   *)
LogsInv == TailInv /\ SearchInv

(* Every goroutine of a view ends once its viewer has gone ("otherwise it   *)
(* would linger after the browser tab closes", followJournal).              *)
Quiet == \A s \in Streams : tail.reader[s] \in {"none", "left"} /\ tail.fwd[s] \in {"none", "left"}
TailLeaves == tail.cancelled ~> (tail.phase = "left" /\ Quiet)

(* "Export and search therefore answer the same question" (RangeTargets):   *)
(* an export that read everything holds what a search would have matched.   *)
ExportAnswersSearch ==
    Files /\ srch.phase = "done" /\ srch.mode = "export" /\ ~srch.cut =>
      srch.c.lines = SelectSeq(AllOf(LAMBDA part : part), LAMBDA l : Matches(l, srch.o))

(* "The absence of one is reported as an incomplete answer rather than      *)
(* silently capped" (searchJournal, of a time window).                      *)
CapIsReported ==
    source = "journal" /\ srch.phase = "done" /\ srch.o.since = 0
    /\ Len(written["stdout"]) > RecentOnly => ~srch.c.complete
=============================================================================
