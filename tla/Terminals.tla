----------------------------- MODULE Terminals -----------------------------
(***************************************************************************)
(* Terminal sessions (backend/internal/term manager.go, session.go,        *)
(* clipboard.go and the session half of api/handlers_terminal.go): slots,  *)
(* PTYs, the tmux sessions behind them, attached browsers and the images   *)
(* pasted into a session.                                                  *)
(*                                                                         *)
(* Manager.mu covers single map operations, Session.mu the subscriber map, *)
(* the scrollback and the closed flag; everything between two critical     *)
(* sections is a separate action.  A session's output is numbered byte by  *)
(* byte, a chunk is the interval of bytes it carries; how far back the     *)
(* scrollback of a new client reaches is left out.                         *)
(***************************************************************************)
EXTENDS Integers, Sequences, FiniteSets

CONSTANTS
  MaxOpened,    \* bound: sessions ever opened
  maxSessions,  \* sessions held at a time
  Browsers,     \* websocket clients
  Uploads,      \* image uploads, one each
  chanChunks,   \* chunks a subscriber's channel buffers
  maxBehind,    \* maxPending: bytes a client may be behind
  MaxBytes,     \* bound: bytes a session outputs
  MaxBoots      \* bound: starts of the process

ASSUME TerminalsAssumption ==
  /\ maxSessions \in Nat \ {0} /\ chanChunks \in Nat \ {0}
  /\ maxBehind \in Nat \ {0}
  /\ MaxOpened \in Nat /\ MaxBytes \in Nat /\ MaxBoots \in Nat

VARIABLES
  held,     \* Manager.sessions
  pending,  \* Manager.pending
  opening,  \* opening[i]: how far Create or Reattach has come
  tmuxOf,   \* tmuxOf[i]: tmux session behind i, 0 without one
  tmux,     \* tmux sessions running on the host
  pty,      \* pty[i]: "none", "open", "exited" or "over" once its readLoop has ended
  closed,   \* closed[i]: Session.closed
  ending,   \* ending[i]: a Kill, Detach or remove under way
  killed,   \* sessions a completed Kill has ended
  written,  \* written[i]: bytes of output
  browser,  \* browser[b]: the attach socket
  unpainted,\* sessions whose size changed and whose tmux has not repainted
  images,   \* clipboard files: pairs <<session, upload>>
  upload,   \* upload[u]: [step, id]
  reaping,  \* session reap has found idle, 0 if none
  boots     \* starts of the process

openVars == <<opening, tmuxOf, pending>>
imageVars == <<images, upload>>
endVars == <<closed, ending, killed>>
termVars == <<held, openVars, tmux, pty, endVars, written, browser, unpainted, imageVars, reaping, boots>>

Opened == 1..MaxOpened
NoSocket == [at |-> 0, stage |-> "away", got |-> 0, queue |-> <<>>, redraw |-> FALSE]

TermInit ==
  /\ held = {} /\ pending = 0 /\ tmux = {} /\ killed = {} /\ images = {} /\ unpainted = {}
  /\ opening = [i \in Opened |-> "new"]
  /\ tmuxOf = [i \in Opened |-> 0]
  /\ pty = [i \in Opened |-> "none"]
  /\ closed = [i \in Opened |-> FALSE]
  /\ ending = [i \in Opened |-> "no"]
  /\ written = [i \in Opened |-> 0]
  /\ browser = [b \in Browsers |-> NoSocket]
  /\ upload = [u \in Uploads |-> [step |-> "new", id |-> 0]]
  /\ reaping = 0 /\ boots = 1

---------------------------------------------------------------------------
(* Opening a session.                                                      *)

\* Faulty variant: sessions still being opened are not counted.
reserve_HeldOnly(i) ==
  /\ Cardinality(held) < maxSessions
  /\ pending' = pending + 1
  /\ opening' = [opening EXCEPT ![i] = "reserved"]

\* A slot is taken before the PTY is spawned and given back when the call returns.
reserve(i) ==
  /\ Cardinality(held) + pending < maxSessions
  /\ pending' = pending + 1
  /\ opening' = [opening EXCEPT ![i] = "reserved"]

NextId(i) == opening[i] = "new" /\ \A j \in Opened : j < i => opening[j] # "new"

\* With tmux on the host and persistence asked for, the shell runs inside a
\* tmux session named after the id.
Create(i) ==
  /\ NextId(i) /\ reserve(i)
  /\ \E t \in {0, i} : tmuxOf' = [tmuxOf EXCEPT ![i] = t]
  /\ UNCHANGED <<held, tmux, pty, endVars, written, unpainted, browser, imageVars, reaping, boots>>

\* Only a tmux session that is running is picked up; the name is not looked at
\* again once the slot is taken.
Reattach(i) ==
  /\ NextId(i) /\ reserve(i)
  /\ \E t \in tmux : tmuxOf' = [tmuxOf EXCEPT ![i] = t]
  /\ UNCHANGED <<held, tmux, pty, endVars, written, unpainted, browser, imageVars, reaping, boots>>

\* pty.StartWithSize.  Attaching to a tmux session that has gone gives a PTY
\* whose process ends at once.
StartWithSize(i) ==
  /\ opening[i] = "reserved"
  /\ \/ /\ opening' = [opening EXCEPT ![i] = "started"]
        /\ pty' = [pty EXCEPT ![i] = IF tmuxOf[i] \in {0, i} \cup tmux THEN "open" ELSE "exited"]
        /\ tmux' = IF tmuxOf[i] = i THEN tmux \cup {i} ELSE tmux
     \/ opening' = [opening EXCEPT ![i] = "returning"] /\ UNCHANGED <<pty, tmux>>
  /\ UNCHANGED <<held, tmuxOf, pending, endVars, written, unpainted, browser, imageVars, reaping, boots>>

Insert(i) ==
  /\ opening[i] = "started"
  /\ held' = held \cup {i}
  /\ opening' = [opening EXCEPT ![i] = "returning"]
  /\ UNCHANGED <<tmuxOf, pending, tmux, pty, endVars, written, unpainted, browser, imageVars, reaping, boots>>

\* The deferred release of reserve.
Release(i) ==
  /\ opening[i] = "returning"
  /\ pending' = pending - 1
  /\ opening' = [opening EXCEPT ![i] = "done"]
  /\ UNCHANGED <<held, tmuxOf, tmux, pty, endVars, written, unpainted, browser, imageVars, reaping, boots>>

---------------------------------------------------------------------------
(* Output and attached browsers.                                           *)

On(i) == {b \in Browsers : browser[b].at = i /\ browser[b].stage = "on"}

\* Faulty variant: a chunk that does not fit is dropped from the middle.
Delivered_Drops(s, byte) ==
  IF Len(s.queue) < chanChunks THEN [s EXCEPT !.queue = Append(@, <<byte, byte>>)] ELSE s

\* A full queue is drained and put back as one chunk; a client more than
\* maxBehind bytes behind loses its channel altogether.
Delivered(s, byte) ==
  IF Len(s.queue) < chanChunks THEN [s EXCEPT !.queue = Append(@, <<byte, byte>>)]
  ELSE IF byte - s.queue[1][1] + 1 > maxBehind
       THEN [s EXCEPT !.stage = "closed", !.queue = <<>>]
       ELSE [s EXCEPT !.queue = <<<<@[1][1], byte>>>>]

\* readLoop reads a byte and broadcasts it.
broadcast(i) ==
  /\ pty[i] = "open" /\ i \in held /\ ~closed[i] /\ written[i] < MaxBytes
  /\ written' = [written EXCEPT ![i] = @ + 1]
  /\ browser' = [b \in Browsers |-> IF b \in On(i) THEN Delivered(browser[b], written'[i])
                                    ELSE browser[b]]
  /\ UNCHANGED <<held, openVars, tmux, pty, endVars, unpainted, imageVars, reaping, boots>>

\* handleTerminalAttach looks the session up, records the attach and upgrades.
LookUp(b, i) ==
  /\ browser[b].stage = "away" /\ i \in held
  /\ browser' = [browser EXCEPT ![b] = [NoSocket EXCEPT !.at = i, !.stage = "named"]]
  /\ UNCHANGED <<held, openVars, tmux, pty, endVars, written, unpainted, imageVars, reaping, boots>>

\* Snapshot and channel are taken under one lock: the client starts with the
\* retained bytes and is sent every later one.
Subscribe(b) ==
  /\ browser[b].stage = "named"
  /\ browser' = [browser EXCEPT ![b] =
        IF closed[@.at] THEN NoSocket
        ELSE [NoSocket EXCEPT !.at = browser[b].at, !.stage = "on",
                              !.got = written[browser[b].at]]]
  /\ UNCHANGED <<held, openVars, tmux, pty, endVars, written, unpainted, imageVars, reaping, boots>>

\* The writer of the socket takes a chunk.
Receive(b) ==
  /\ browser[b].stage = "on" /\ browser[b].queue # <<>>
  /\ browser' = [browser EXCEPT ![b].got = browser[b].queue[1][2], ![b].queue = Tail(@)]
  /\ UNCHANGED <<held, openVars, tmux, pty, endVars, written, unpainted, imageVars, reaping, boots>>

\* The page sends its size: where that changed a tmux session, a repaint is due
\* once the size has been still for a while.
Resized(i) == IF closed[i] THEN unpainted ELSE unpainted \cup {i}
Resize(b) ==
  /\ browser[b].stage = "on" /\ tmuxOf[browser[b].at] # 0
  /\ unpainted' = Resized(browser[b].at)
  /\ browser' = [browser EXCEPT ![b].redraw = ~closed[browser[b].at]]
  /\ UNCHANGED <<held, openVars, tmux, pty, endVars, written, imageVars, reaping, boots>>

Redraw(b) ==
  /\ browser[b].redraw
  /\ unpainted' = unpainted \ {browser[b].at}
  /\ browser' = [browser EXCEPT ![b].redraw = FALSE]
  /\ UNCHANGED <<held, openVars, tmux, pty, endVars, written, imageVars, reaping, boots>>

\* The socket ends because the browser left or its channel was closed, and the
\* handler unsubscribes; its deferred call stops the repaint timer.
Unsubscribe(b) ==
  /\ browser[b].stage \in {"on", "closed"}
  /\ browser' = [browser EXCEPT ![b] = NoSocket]
  /\ UNCHANGED <<held, openVars, tmux, pty, endVars, written, unpainted, imageVars, reaping, boots>>

\* What Session.Close does to the subscribers: chunks still queued are read
\* before the closed channel is seen, which ends the socket.
HungUp(i) == [b \in Browsers |-> IF b \in On(i) THEN [browser[b] EXCEPT !.stage = "closed"]
                                 ELSE browser[b]]

Close(i) ==
  /\ closed' = [closed EXCEPT ![i] = TRUE]
  /\ browser' = HungUp(i)

---------------------------------------------------------------------------
(* The ways a session ends.                                                *)

removeSession(i) == {f \in images : f[1] # i}

\* Kill takes the session out of the map, ...
Kill(i) ==
  /\ i \in held /\ ending[i] = "no"
  /\ held' = held \ {i}
  /\ ending' = [ending EXCEPT ![i] = "killing"]
  /\ UNCHANGED <<openVars, tmux, pty, closed, killed, written, unpainted, browser, imageVars, reaping, boots>>

\* ... ends the tmux session, closes the PTY and removes the images.
KillCloses(i) ==
  /\ ending[i] = "killing"
  /\ tmux' = tmux \ {tmuxOf[i]}
  /\ Close(i)
  /\ images' = removeSession(i)
  /\ killed' = killed \cup {i}
  /\ ending' = [ending EXCEPT ![i] = "no"]
  /\ UNCHANGED <<held, openVars, pty, written, unpainted, upload, reaping, boots>>

\* A session without tmux is killed instead.
Detach(i) ==
  /\ i \in held
  /\ IF tmuxOf[i] = 0
       THEN ending' = [ending EXCEPT ![i] = "killing"] /\ UNCHANGED <<closed, browser>>
       ELSE Close(i) /\ UNCHANGED ending
  /\ held' = held \ {i}
  /\ UNCHANGED <<openVars, tmux, pty, killed, written, unpainted, imageVars, reaping, boots>>

\* reap acts on what it saw: an idle session nobody is attached to.
ReapFinds(i) ==
  /\ reaping = 0 /\ i \in held /\ On(i) = {}
  /\ reaping' = i
  /\ UNCHANGED <<held, openVars, tmux, pty, endVars, written, unpainted, browser, imageVars, boots>>

Reap ==
  /\ reaping # 0
  /\ reaping' = 0
  /\ IF reaping \in held /\ tmuxOf[reaping] = 0
       THEN /\ ending' = [ending EXCEPT ![reaping] = "killing"]
            /\ UNCHANGED <<closed, browser>>
       ELSE IF reaping \in held THEN Close(reaping) /\ UNCHANGED ending
                                ELSE UNCHANGED <<closed, browser, ending>>
  /\ held' = held \ {reaping}
  /\ UNCHANGED <<openVars, tmux, pty, killed, written, unpainted, imageVars, boots>>

\* The process on the PTY ends: the shell exited and took its tmux session with
\* it, or the tmux client went away by itself.
PtyExits(i) ==
  /\ pty[i] = "open" /\ i \in held
  /\ pty' = [pty EXCEPT ![i] = "exited"]
  /\ tmux' \in {tmux, tmux \ {tmuxOf[i]}}
  /\ UNCHANGED <<held, openVars, endVars, written, unpainted, browser, imageVars, reaping, boots>>

\* readLoop meets the end of the PTY and calls remove.
ReadLoopEnds(i) ==
  /\ pty[i] = "exited" \/ (pty[i] = "open" /\ closed[i])
  /\ opening[i] \in {"returning", "done"}
  /\ pty' = [pty EXCEPT ![i] = "over"]
  /\ ending' = [ending EXCEPT ![i] = IF i \in held THEN "removing" ELSE @]
  /\ held' = held \ {i}
  /\ UNCHANGED <<openVars, tmux, closed, killed, written, unpainted, browser, imageVars, reaping, boots>>

\* The images go with the session unless it was closed first and lives on in tmux.
remove(i) ==
  /\ ending[i] = "removing"
  /\ images' = IF tmuxOf[i] = 0 \/ ~closed[i] THEN removeSession(i) ELSE images
  /\ Close(i)
  /\ ending' = [ending EXCEPT ![i] = "no"]
  /\ UNCHANGED <<held, openVars, tmux, pty, killed, written, unpainted, upload, reaping, boots>>

\* Shutdown closes every session, and the process goes with all it kept in memory.
Shutdown ==
  /\ boots < MaxBoots
  /\ boots' = boots + 1
  /\ held' = {} /\ pending' = 0 /\ reaping' = 0
  /\ opening' = [i \in Opened |-> IF opening[i] = "new" THEN "new" ELSE "done"]
  /\ pty' = [i \in Opened |-> IF pty[i] = "none" THEN "none" ELSE "over"]
  /\ closed' = [i \in Opened |-> closed[i] \/ i \in held]
  /\ ending' = [i \in Opened |-> "no"]
  /\ browser' = [b \in Browsers |-> NoSocket]
  /\ upload' = [u \in Uploads |-> IF upload[u].step \in {"writing", "saved"}
                                  THEN [step |-> "cut off", id |-> 0] ELSE upload[u]]
  /\ UNCHANGED <<tmuxOf, tmux, killed, written, unpainted, images>>

---------------------------------------------------------------------------
(* Images pasted into a session.                                           *)

SaveClipboard(u, i) ==
  /\ upload[u].step = "new" /\ i \in held
  /\ upload' = [upload EXCEPT ![u] = [step |-> "writing", id |-> i]]
  /\ UNCHANGED <<held, openVars, tmux, pty, endVars, written, unpainted, browser, images, reaping, boots>>

\* The type is checked against the bytes and the size is limited; a refused
\* upload leaves no file.
save(u) ==
  /\ upload[u].step = "writing"
  /\ \/ /\ upload' = [upload EXCEPT ![u].step = "saved"]
        /\ images' = images \cup {<<upload[u].id, u>>}
     \/ /\ upload' = [upload EXCEPT ![u] = [step |-> "done", id |-> 0]]
        /\ UNCHANGED images
  /\ UNCHANGED <<held, openVars, tmux, pty, endVars, written, unpainted, browser, reaping, boots>>

\* Faulty variant: the session is not looked up again after the body arrived.
SecondLookUp_Skipped(u) ==
  /\ upload[u].step = "saved"
  /\ upload' = [upload EXCEPT ![u] = [step |-> "done", id |-> 0]]
  /\ UNCHANGED <<held, openVars, tmux, pty, endVars, written, unpainted, browser, images, reaping, boots>>

\* A file whose session has ended meanwhile is taken back.
SecondLookUp(u) ==
  /\ upload[u].step = "saved"
  /\ images' = IF upload[u].id \in held THEN images ELSE images \ {<<upload[u].id, u>>}
  /\ upload' = [upload EXCEPT ![u] = [step |-> "done", id |-> 0]]
  /\ UNCHANGED <<held, openVars, tmux, pty, endVars, written, unpainted, browser, reaping, boots>>

\* The TTL pass skips live sessions and files still being written.
cleanupExpired ==
  /\ \E f \in images :
       /\ f[1] \notin held /\ upload[f[2]].step \in {"done", "cut off"}
       /\ images' = images \ {f}
  /\ UNCHANGED <<held, openVars, tmux, pty, endVars, written, unpainted, browser, upload, reaping, boots>>

TermNext ==
  \/ \E i \in Opened :
       \/ Create(i) \/ Reattach(i) \/ StartWithSize(i) \/ Insert(i) \/ Release(i)
       \/ broadcast(i) \/ Kill(i) \/ KillCloses(i) \/ Detach(i) \/ ReapFinds(i)
       \/ PtyExits(i) \/ ReadLoopEnds(i) \/ remove(i)
  \/ \E b \in Browsers, i \in Opened : LookUp(b, i)
  \/ \E b \in Browsers : Subscribe(b) \/ Receive(b) \/ Resize(b) \/ Redraw(b) \/ Unsubscribe(b)
  \/ \E u \in Uploads : save(u) \/ SecondLookUp(u) \/ \E i \in Opened : SaveClipboard(u, i)
  \/ Reap \/ Shutdown \/ cleanupExpired

TermSpec == TermInit /\ [][TermNext]_termVars

---------------------------------------------------------------------------
(* Properties.                                                             *)

\* However many requests open or pick up sessions at once, no more than
\* maxSessions are ever held (reserve, manager.go:39).
SessionsBounded == Cardinality(held) <= maxSessions

\* A browser that is attached has received, or has queued, every byte since its
\* snapshot, in order and once: it is dropped rather than given a stream with a
\* hole (Subscribe and broadcast, session.go:129 and 192).
StreamUnbroken ==
  \A b \in Browsers : browser[b].stage = "on" =>
    LET s == browser[b]
        edges == [n \in 0..Len(s.queue) |-> IF n = 0 THEN s.got ELSE s.queue[n][2]]
    IN /\ \A n \in DOMAIN s.queue : s.queue[n][1] = edges[n - 1] + 1
       /\ edges[Len(s.queue)] = written[s.at]

\* A session that was killed leaves no pasted image behind, whatever uploads were
\* under way when it ended; only one cut off by a stop of the process is left to
\* the TTL pass (SaveClipboard, clipboard.go:73).
NoImageOfKilled ==
  \A f \in images : f[1] \in killed => upload[f[2]].step \in {"saved", "cut off"}

Socket == [at : 0..MaxOpened, stage : {"away", "named", "on", "closed"}, got : Nat,
           queue : Seq(Nat \X Nat), redraw : BOOLEAN]

TermTypeOK ==
  /\ held \subseteq Opened /\ pending \in Nat
  /\ opening \in [Opened -> {"new", "reserved", "started", "returning", "done"}]
  /\ tmuxOf \in [Opened -> 0..MaxOpened] /\ tmux \subseteq Opened
  /\ pty \in [Opened -> {"none", "open", "exited", "over"}]
  /\ closed \in [Opened -> BOOLEAN] /\ ending \in [Opened -> {"no", "killing", "removing"}]
  /\ killed \subseteq Opened /\ written \in [Opened -> Nat] /\ browser \in [Browsers -> Socket]
  /\ unpainted \subseteq Opened /\ images \subseteq Opened \X Uploads
  /\ upload \in [Uploads -> [step : {"new", "writing", "saved", "done", "cut off"}, id : 0..MaxOpened]]
  /\ reaping \in 0..MaxOpened /\ boots \in Nat

\* pending counts the calls that have not returned, and those that may still
\* insert a session count against the limit with the ones held.
Claimed == {i \in Opened : opening[i] \in {"reserved", "started"}}
InFlight == {i \in Opened : opening[i] \in {"reserved", "started", "returning"}}
SlotsKept ==
  /\ pending = Cardinality(InFlight)
  /\ Cardinality(held \cup Claimed) <= maxSessions

\* A session that was taken out to be killed does not come back.
EndedStayOut ==
  \A i \in Opened :
    /\ i \in held => opening[i] \in {"returning", "done"}
    /\ ending[i] = "killing" \/ i \in killed => i \notin held /\ opening[i] \in {"returning", "done"}

\* An attached browser looks at a session; a file is known to the upload that
\* wrote it until that has looked the session up again.
SocketsKnown == \A b \in Browsers : browser[b].stage # "away" => browser[b].at \in Opened
ImagesKnown ==
  /\ \A u \in Uploads : upload[u].step \in {"writing", "saved"} => upload[u].id \in Opened
  /\ \A f \in images :
       /\ upload[f[2]].step \in {"saved", "done", "cut off"}
       /\ upload[f[2]].step = "saved" => upload[f[2]].id = f[1]

\* The sessions are bounded, every attached browser has an unbroken stream, and a
\* killed session keeps no image.
TerminalsInv ==
  /\ TermTypeOK /\ SlotsKept /\ EndedStayOut /\ SocketsKnown /\ ImagesKnown
  /\ SessionsBounded /\ StreamUnbroken /\ NoImageOfKilled

\* A repaint that is owed to a tmux session will be made: "the repaint is owed to
\* the tmux session, which outlives this socket" (handlers_terminal.go:424).
RepaintOwed ==
  \A i \in unpainted \cap held : \E b \in Browsers : browser[b].at = i /\ browser[b].redraw
=============================================================================
