-------------------------- MODULE TerminalFolders --------------------------
(***************************************************************************)
(* How terminal sessions are named, filed and divided (term/organise.go,   *)
(* term/panes.go, api/handlers_terminal_folders.go and the workspace half  *)
(* of api/handlers_terminal.go).                                           *)
(*                                                                         *)
(* Where a session is filed is kept twice: in the Session while this       *)
(* process holds it, and as a tmux option, which survives the process.     *)
(* `tmux new-session' is handed to a PTY, so for a while there is no tmux  *)
(* session to set an option on and the write is retried.  Of a session's   *)
(* settings only the folder is kept; names differing in case only are one  *)
(* name.  A window is the number of its panes.                             *)
(***************************************************************************)
EXTENDS Integers, Sequences, FiniteSets, SequencesExt

CONSTANTS
  Shells,      \* tmux sessions of the dashboard, by name
  Folders,     \* folder names
  Clients,     \* browsers with a request under way
  MaxWindows,  \* bound: windows of a session, panes of a window
  MaxFolderOps \* bound: folder requests

ASSUME FoldersAssumption == MaxWindows \in Nat \ {0} /\ MaxFolderOps \in Nat

Unfiled == "unfiled"
Places == Folders \cup {Unfiled}

VARIABLES
  mine,      \* sessions this process holds
  inTmux,    \* sessions the tmux server has
  opened,    \* sessions ever opened
  memory,    \* memory[s]: Session.folder of a held session
  option,    \* option[s]: the folder stored on the tmux session
  owed,      \* rememberOptions goroutines: pairs <<session, folder>>
  record,    \* the stored folder list
  req,       \* req[c]: a folder request under way
  refiled,   \* refiled[c]: sessions filed or let go by others since request c listed them
  folderOps, \* folder requests so far
  strip      \* strip[s]: the windows, each its number of panes

filing == <<memory, option, owed>>
folderVars == <<mine, inTmux, opened, filing, record, req, refiled, folderOps, strip>>

NoReq == [step |-> "none", from |-> Unfiled, to |-> Unfiled, read |-> {}, todo |-> {}]

FoldersInit ==
  /\ mine = {} /\ inTmux = {} /\ opened = {} /\ owed = {} /\ record = {}
  /\ memory = [s \in Shells |-> Unfiled]
  /\ option = [s \in Shells |-> Unfiled]
  /\ req = [c \in Clients |-> NoReq]
  /\ refiled = [c \in Clients |-> {}]
  /\ folderOps = 0
  /\ strip = [s \in Shells |-> <<>>]

---------------------------------------------------------------------------
(* Sessions and where they are filed.                                      *)

Refile(clients, sessions) ==
  refiled' = [c \in Clients |-> IF c \in clients THEN refiled[c] \cup sessions ELSE refiled[c]]

\* A session opened in a folder: Session.folder is set, the option is owed.
OpenIn(s, f) ==
  /\ s \notin opened
  /\ opened' = opened \cup {s} /\ mine' = mine \cup {s}
  /\ memory' = [memory EXCEPT ![s] = f]
  /\ owed' = owed \cup ({<<s, f>>} \ {<<s, Unfiled>>})
  /\ Refile(Clients, {s})
  /\ UNCHANGED <<inTmux, option, record, req, folderOps, strip>>

\* External: the tmux server starts the session with one window.
TmuxStarts(s) ==
  /\ s \in mine \ inTmux /\ strip[s] = <<>>
  /\ inTmux' = inTmux \cup {s}
  /\ strip' = [strip EXCEPT ![s] = <<1>>]
  /\ UNCHANGED <<mine, opened, filing, record, req, refiled, folderOps>>

\* A round of rememberOptions: set, dropped with the session, or given up.
rememberOptions(o) ==
  /\ o \in owed
  /\ \/ o[1] \in inTmux /\ option' = [option EXCEPT ![o[1]] = o[2]]
     \/ o[1] \notin inTmux /\ UNCHANGED option
  /\ owed' = owed \ {o}
  /\ UNCHANGED <<mine, inTmux, opened, memory, record, req, refiled, folderOps, strip>>

\* The settings of every session: from memory if held, from tmux otherwise.
AllMeta == [s \in mine \cup inTmux |-> IF s \in mine THEN memory[s] ELSE option[s]]

\* Faulty variant: only tmux is asked.
FiledUnder_TmuxOnly(f) == {s \in inTmux : option[s] = f}

\* The sessions refileSessions finds in a folder.
FiledUnder(f) == {s \in DOMAIN AllMeta : AllMeta[s] = f}

\* SetMeta writes the held session first and then the option; the write of a
\* session tmux does not have yet is owed.
SetMeta(s, f) ==
  /\ memory' = IF s \in mine THEN [memory EXCEPT ![s] = f] ELSE memory
  /\ option' = IF s \in inTmux THEN [option EXCEPT ![s] = f] ELSE option
  /\ owed' = IF s \in mine \ inTmux THEN owed \cup {<<s, f>>} ELSE owed

\* handleTerminalMeta: an operator drags a session into a folder.
handleTerminalMeta(s, f) ==
  /\ s \in DOMAIN AllMeta /\ folderOps < MaxFolderOps
  /\ folderOps' = folderOps + 1
  /\ SetMeta(s, f)
  /\ Refile(Clients, {s})
  /\ UNCHANGED <<mine, inTmux, opened, record, req, strip>>

\* The process is restarted, or the session detached: memory and retries go.
Forget(gone) ==
  /\ gone # {} /\ gone \subseteq mine
  /\ mine' = mine \ gone
  /\ owed' = {o \in owed : o[1] \notin gone}
  /\ Refile(Clients, gone)
  /\ UNCHANGED <<inTmux, opened, memory, option, record, req, folderOps, strip>>

\* Reattach reads the settings back from tmux.
PickUp(s) ==
  /\ s \in inTmux \ mine
  /\ mine' = mine \cup {s}
  /\ memory' = [memory EXCEPT ![s] = option[s]]
  /\ UNCHANGED <<inTmux, opened, option, owed, record, req, refiled, folderOps, strip>>

---------------------------------------------------------------------------
(* Folders.  The list is read, changed and written back whole.             *)

Begin(c, from, to) ==
  /\ req[c].step = "none" /\ folderOps < MaxFolderOps
  /\ folderOps' = folderOps + 1
  /\ req' = [req EXCEPT ![c] = [NoReq EXCEPT !.step = "read", !.from = from, !.to = to,
                                             !.read = record]]
  /\ UNCHANGED <<mine, inTmux, opened, filing, record, refiled, strip>>

handleTerminalFolderCreate(c, f) == f \notin record /\ Begin(c, Unfiled, f)
\* A rename into another folder of the list is refused.
handleTerminalFolderUpdate(c, f, g) == (g = f \/ g \notin record) /\ Begin(c, f, g)
handleTerminalFolderDelete(c, f) == Begin(c, f, Unfiled)

\* The whole arrangement as a browser holds it.
handleTerminalFolderOrder(fs) ==
  /\ folderOps < MaxFolderOps
  /\ folderOps' = folderOps + 1
  /\ record' = fs
  /\ UNCHANGED <<mine, inTmux, opened, filing, req, refiled, strip>>

\* saveTerminalFolders stores what the request made of the list it read.
saveTerminalFolders(c) ==
  LET q == req[c] IN
  /\ q.step = "read"
  /\ record' = (q.read \ {q.from}) \cup ({q.to} \ {Unfiled})
  /\ req' = [req EXCEPT ![c].step = IF q.from = Unfiled THEN "over" ELSE "saved"]
  /\ UNCHANGED <<mine, inTmux, opened, filing, refiled, folderOps, strip>>

\* refileSessions lists the sessions in the old folder ...
ListFiled(c) ==
  /\ req[c].step = "saved"
  /\ req' = [req EXCEPT ![c].step = "moving", ![c].todo = FiledUnder(req[c].from)]
  /\ refiled' = [refiled EXCEPT ![c] = {}]
  /\ UNCHANGED <<mine, inTmux, opened, filing, record, folderOps, strip>>

\* ... and moves them one by one.
refileSessions(c) ==
  /\ req[c].step = "moving"
  /\ \E s \in req[c].todo :
       /\ SetMeta(s, req[c].to)
       /\ req' = [req EXCEPT ![c].todo = @ \ {s}]
       /\ Refile(Clients \ {c}, {s})
  /\ UNCHANGED <<mine, inTmux, opened, record, folderOps, strip>>

Respond(c) ==
  /\ req[c].step = "over" \/ (req[c].step = "moving" /\ req[c].todo = {})
  /\ req' = [req EXCEPT ![c] = NoReq]
  /\ UNCHANGED <<mine, inTmux, opened, filing, record, refiled, folderOps, strip>>

---------------------------------------------------------------------------
(* Windows and panes: tmux does the work for a session owns accepts.       *)

Arrange(s, windows) ==
  /\ s \in inTmux
  /\ strip' = [strip EXCEPT ![s] = windows]
  /\ UNCHANGED <<mine, opened, filing, record, req, refiled, folderOps>>

\* A session without windows is gone from tmux.
Shrink(s, windows) ==
  /\ Arrange(s, windows)
  /\ inTmux' = IF windows = <<>> THEN inTmux \ {s} ELSE inTmux

NewWindow(s) ==
  /\ Len(strip[s]) < MaxWindows
  /\ Arrange(s, Append(strip[s], 1)) /\ UNCHANGED inTmux

\* Swapped with its neighbours until it stands where it was dropped.
MoveWindow(s, i, to) ==
  /\ i \in DOMAIN strip[s] /\ to \in DOMAIN strip[s]
  /\ Arrange(s, InsertAt(RemoveAt(strip[s], i), to, strip[s][i]))
  /\ UNCHANGED inTmux

\* The window goes to the end of another session; its own ends if it was the last.
MoveWindowToSession(s, i, d) ==
  /\ i \in DOMAIN strip[s] /\ s # d /\ {s, d} \subseteq inTmux
  /\ Len(strip[d]) < MaxWindows
  /\ strip' = [strip EXCEPT ![s] = RemoveAt(@, i), ![d] = Append(@, strip[s][i])]
  /\ inTmux' = IF Len(strip[s]) = 1 THEN inTmux \ {s} ELSE inTmux
  /\ UNCHANGED <<mine, opened, filing, record, req, refiled, folderOps>>

\* The only window is not closed this way.
KillWindow(s, i) ==
  /\ i \in DOMAIN strip[s] /\ Len(strip[s]) > 1
  /\ Shrink(s, RemoveAt(strip[s], i))

SplitPane(s, i) ==
  /\ i \in DOMAIN strip[s] /\ strip[s][i] < MaxWindows
  /\ Arrange(s, [strip[s] EXCEPT ![i] = @ + 1]) /\ UNCHANGED inTmux

KillPane(s, i) ==
  /\ i \in DOMAIN strip[s] /\ strip[s][i] > 1
  /\ Arrange(s, [strip[s] EXCEPT ![i] = @ - 1]) /\ UNCHANGED inTmux

\* External: the shell in a window ends.
WindowExits(s, i) ==
  /\ i \in DOMAIN strip[s]
  /\ Shrink(s, RemoveAt(strip[s], i))

WindowStep ==
  \E s \in Shells :
    \/ NewWindow(s)
    \/ \E i \in 1..MaxWindows :
         \/ KillWindow(s, i) \/ SplitPane(s, i) \/ KillPane(s, i) \/ WindowExits(s, i)
         \/ \E to \in 1..MaxWindows : MoveWindow(s, i, to)
         \/ \E d \in Shells : MoveWindowToSession(s, i, d)

FilingStep ==
  \/ \E s \in Shells, f \in Places : OpenIn(s, f) \/ handleTerminalMeta(s, f)
  \/ \E s \in Shells : TmuxStarts(s) \/ PickUp(s)
  \/ \E o \in Shells \X Places : rememberOptions(o)
  \/ \E gone \in SUBSET Shells : Forget(gone)
  \/ \E fs \in SUBSET Folders : handleTerminalFolderOrder(fs)
  \/ \E c \in Clients :
       \/ \E f \in Folders : handleTerminalFolderCreate(c, f) \/ handleTerminalFolderDelete(c, f)
       \/ \E f, g \in Folders : handleTerminalFolderUpdate(c, f, g)
       \/ saveTerminalFolders(c) \/ ListFiled(c) \/ refileSessions(c) \/ Respond(c)

FoldersNext == WindowStep \/ FilingStep
FoldersSpec == FoldersInit /\ [][FoldersNext]_folderVars

---------------------------------------------------------------------------
(* Properties.                                                             *)

\* The sessions the page shows in a folder.
FiledIn(f) == {s \in mine \cup inTmux : f = IF s \in mine THEN memory[s] ELSE option[s]}

\* A folder that has been renamed or deleted is empty when the request answers,
\* apart from what was filed there meanwhile: a session opened a moment ago, of
\* which tmux knows nothing yet, moves with the rest (refileSessions,
\* handlers_terminal_folders.go:236).
FolderMovedWhole ==
  [][\A c \in Clients :
       (Respond(c) /\ req[c].step = "moving" /\ req[c].to # req[c].from) =>
         FiledIn(req[c].from) \subseteq refiled[c]]_folderVars

\* The windows of the sessions tmux has, and what the requests know.
FoldersTypeOK ==
  /\ mine \subseteq opened /\ inTmux \subseteq opened /\ opened \subseteq Shells
  /\ memory \in [Shells -> Places] /\ option \in [Shells -> Places]
  /\ owed \subseteq Shells \X Places /\ record \subseteq Folders
  /\ req \in [Clients -> [step : {"none", "read", "saved", "moving", "over"}, from : Places,
                          to : Places, read : SUBSET Folders, todo : SUBSET Shells]]
  /\ refiled \in [Clients -> SUBSET Shells] /\ folderOps \in 0..MaxFolderOps
  /\ strip \in [Shells -> Seq(1..MaxWindows)]
  /\ \A s \in Shells : s \in inTmux <=> strip[s] # <<>>

\* What is left in the folder was there when the request listed it, and is still to
\* be moved, or came later; an option that is still owed is owed to a session this
\* process holds (rememberOptions, ListFiled).
FolderEmpties ==
  /\ \A o \in owed : o[1] \in mine
  /\ \A c \in Clients :
       req[c].step = "moving" /\ req[c].to # req[c].from =>
         FiledIn(req[c].from) \subseteq req[c].todo \cup refiled[c]

\* A renamed or deleted folder is emptied, of any number of requests and sessions.
FoldersKept == [](FoldersTypeOK /\ FolderEmpties) /\ FolderMovedWhole

\* What is written to the tmux session of a held session is what the session holds,
\* so the setting is still there after the next restart (SetMeta, organise.go:89).
FilingKept ==
  [][\A s \in mine : option'[s] # option[s] => option'[s] = memory'[s]]_folderVars
=============================================================================
