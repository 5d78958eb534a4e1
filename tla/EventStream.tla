---------------------------- MODULE EventStream ----------------------------
(***************************************************************************)
(* The event stream of one deployment run: the rows of deploy_log_chunks,  *)
(* the in-memory broker that publishes committed rows to live subscribers, *)
(* and clients that subscribe, lose their connection and come back with    *)
(* the last sequence they saw (orchestration_events.go,                    *)
(* orchestration_broker.go and handleDeploymentRunStream).                 *)
(*                                                                         *)
(* Two locks matter.  writeMu is held from the commit of an append until   *)
(* its events are published; broker.mu is held for one publish, one        *)
(* closeRun, or the whole of Subscribe.  Subscribe reads the database in   *)
(* several statements that share no transaction.                           *)
(***************************************************************************)
EXTENDS Integers, Sequences, FiniteSets, SequencesExt

CONSTANTS
  Clients,       \* subscribers of the run
  MaxSeq,        \* bound: rows of the run
  Buffer,        \* liveEventBuffer
  BacklogLimit,  \* the limit Subscribe passes to EventsAfter
  Keep,          \* HotLogLimit: log rows CompactRunLogs retains
  MaxDrops       \* bound: connections the network drops, per client

ASSUME StreamAssumption ==
  /\ MaxSeq \in Nat /\ Keep \in Nat /\ MaxDrops \in Nat
  /\ Buffer \in Nat \ {0} /\ BacklogLimit \in Nat \ {0}

Seqs == 1..MaxSeq

\* Row kinds: absent, log text, state or evidence, the terminal state event,
\* and the compacted row that serves as watermark.
RowKinds == {"none", "log", "state", "end", "mark"}

VARIABLES
  row,       \* row[s]: the row with sequence s
  pending,   \* committed events not yet published; writeMu is held meanwhile
  closing,   \* the terminal event is published, closeRun is next
  pc,        \* pc[c]: "out", in Subscribe at "rows" or "register", or "on"
  mark,      \* mark[c]: the watermark Subscribe read
  backlog,   \* backlog[c]: the sequences Subscribe read
  after,     \* after[c]: sub.after
  subs,      \* registered subscriptions
  chan,      \* chan[c]: the subscription's channel
  closes,    \* closes[c]: how often that channel has been closed
  got,       \* got[c]: sequences the client received, over all connections
  synced,    \* synced[c]: highest sequence a resync snapshot stood for
  drops      \* drops[c]: connections lost so far

streamVars == <<row, pending, closing, pc, mark, backlog, after, subs, chan,
                closes, got, synced, drops>>

StreamTypeOK ==
  /\ row \in [Seqs -> RowKinds]
  /\ pending \in Seq(Seqs)
  /\ closing \in BOOLEAN
  /\ pc \in [Clients -> {"out", "rows", "register", "on"}]
  /\ mark \in [Clients -> 0..MaxSeq]
  /\ backlog \in [Clients -> Seq(Seqs)]
  /\ after \in [Clients -> 0..MaxSeq]
  /\ subs \subseteq Clients
  /\ chan \in [Clients -> Seq(Seqs)]
  /\ \A c \in Clients : Len(chan[c]) <= Buffer
  /\ closes \in [Clients -> Nat]
  /\ got \in [Clients -> Seq(Seqs)]
  /\ synced \in [Clients -> 0..MaxSeq]
  /\ drops \in [Clients -> 0..MaxDrops]

StreamInit ==
  /\ row = [s \in Seqs |-> "none"]
  /\ pending = <<>>
  /\ closing = FALSE
  /\ pc = [c \in Clients |-> "out"]
  /\ mark = [c \in Clients |-> 0]
  /\ backlog = [c \in Clients |-> <<>>]
  /\ after = [c \in Clients |-> 0]
  /\ subs = {}
  /\ chan = [c \in Clients |-> <<>>]
  /\ closes = [c \in Clients |-> 0]
  /\ got = [c \in Clients |-> <<>>]
  /\ synced = [c \in Clients |-> 0]
  /\ drops = [c \in Clients |-> 0]

---------------------------------------------------------------------------
(* The database.                                                           *)

Largest(S) == CHOOSE m \in S \cup {0} : \A s \in S : s <= m

\* MAX(seq) + 1
NextSeq == Largest({s \in Seqs : row[s] # "none"}) + 1

Logs == {s \in Seqs : row[s] = "log"}

\* The run's state and its terminal event are written in one transaction.
Ended == \E s \in Seqs : row[s] = "end"

Watermark == Largest({s \in Seqs : row[s] = "mark"})

\* writeMu is free, and so is broker.mu.
WriteFree == pending = <<>> /\ ~ closing
BrokerFree == \A c \in Clients : pc[c] \in {"out", "on"}

clientVars == <<pc, mark, backlog, after, subs, chan, closes, got, synced, drops>>

\* One transaction of the store: a log line, a state change, the terminal
\* change, or the two changes of a cancellation before the claim.
Batches == {<<"log">>, <<"state">>, <<"end">>, <<"state", "end">>}

appendEventTx(kinds) ==
  LET first == NextSeq IN
  /\ WriteFree /\ ~ Ended
  /\ first + Len(kinds) - 1 <= MaxSeq
  /\ row' = [s \in Seqs |-> IF s >= first /\ s < first + Len(kinds)
                            THEN kinds[s - first + 1] ELSE row[s]]
  /\ pending' = [i \in 1..Len(kinds) |-> first + i - 1]
  /\ UNCHANGED <<closing, clientVars>>

\* The newest log row that CompactRunLogs does not keep becomes the watermark;
\* the log rows below it go, all other rows stay.
CompactRunLogs ==
  LET newer(s) == {t \in Logs : t > s}
      wm == Largest({s \in Logs : Cardinality(newer(s)) >= Keep}) IN
  /\ WriteFree /\ Ended /\ wm # 0
  /\ row' = [s \in Seqs |-> IF s = wm THEN "mark"
                            ELSE IF s < wm /\ row[s] = "log" THEN "none"
                            ELSE row[s]]
  /\ UNCHANGED <<pending, closing, clientVars>>

---------------------------------------------------------------------------
(* The broker.                                                             *)

\* Faulty variant: no limit on what waits for a subscriber.
Publish_Unbounded ==
  LET e == Head(pending)
      due == {c \in subs : after[c] < e} IN
  /\ pending # <<>> /\ ~ closing /\ BrokerFree
  /\ chan' = [c \in Clients |-> IF c \in due THEN Append(chan[c], e) ELSE chan[c]]
  /\ after' = [c \in Clients |-> IF c \in due THEN e ELSE after[c]]
  /\ UNCHANGED <<subs, closes>>
  /\ pending' = Tail(pending)
  /\ closing' = (row[e] = "end")
  /\ UNCHANGED <<row, pc, mark, backlog, got, synced, drops>>

\* Faulty variant: forgets what the backlog already held.
Publish_IgnoresAfter ==
  LET e == Head(pending)
      full == {c \in subs : Len(chan[c]) >= Buffer} IN
  /\ pending # <<>> /\ ~ closing /\ BrokerFree
  /\ chan' = [c \in Clients |-> IF c \in subs \ full THEN Append(chan[c], e) ELSE chan[c]]
  /\ after' = [c \in Clients |-> IF c \in subs \ full THEN e ELSE after[c]]
  /\ subs' = subs \ full
  /\ closes' = [c \in Clients |-> IF c \in full THEN closes[c] + 1 ELSE closes[c]]
  /\ pending' = Tail(pending)
  /\ closing' = (row[e] = "end")
  /\ UNCHANGED <<row, pc, mark, backlog, got, synced, drops>>

\* Faulty variant: a slow subscriber misses the event and stays.
Publish_SkipsSlow ==
  LET e == Head(pending)
      due == {c \in subs : after[c] < e /\ Len(chan[c]) < Buffer} IN
  /\ pending # <<>> /\ ~ closing /\ BrokerFree
  /\ chan' = [c \in Clients |-> IF c \in due THEN Append(chan[c], e) ELSE chan[c]]
  /\ after' = [c \in Clients |-> IF c \in due THEN e ELSE after[c]]
  /\ UNCHANGED <<subs, closes>>
  /\ pending' = Tail(pending)
  /\ closing' = (row[e] = "end")
  /\ UNCHANGED <<row, pc, mark, backlog, got, synced, drops>>

\* A subscriber that is behind gets the event, or is cut off if its buffer is
\* full; the publisher never waits for one.
Publish ==
  LET e == Head(pending)
      due  == {c \in subs : after[c] < e}
      full == {c \in due : Len(chan[c]) >= Buffer} IN
  /\ pending # <<>> /\ ~ closing /\ BrokerFree
  /\ chan' = [c \in Clients |-> IF c \in due \ full THEN Append(chan[c], e) ELSE chan[c]]
  /\ after' = [c \in Clients |-> IF c \in due \ full THEN e ELSE after[c]]
  /\ subs' = subs \ full
  /\ closes' = [c \in Clients |-> IF c \in full THEN closes[c] + 1 ELSE closes[c]]
  /\ pending' = Tail(pending)
  /\ closing' = (row[e] = "end")
  /\ UNCHANGED <<row, pc, mark, backlog, got, synced, drops>>

closeRun ==
  /\ closing /\ BrokerFree
  /\ closing' = FALSE
  /\ closes' = [c \in Clients |-> IF c \in subs THEN closes[c] + 1 ELSE closes[c]]
  /\ subs' = {}
  /\ UNCHANGED <<row, pending, pc, mark, backlog, after, chan, got, synced, drops>>

---------------------------------------------------------------------------
(* Subscribe, statement by statement, and the connection that follows.     *)

\* What a client sends as "after": the last sequence it has.
Seen(c) == Largest(ToSet(got[c]) \cup {synced[c]})

\* EventsAfter reads the watermark first.
Subscribe(c) ==
  /\ pc[c] = "out" /\ BrokerFree
  /\ mark' = [mark EXCEPT ![c] = Watermark]
  /\ pc' = [pc EXCEPT ![c] = "rows"]
  /\ UNCHANGED <<row, pending, closing, backlog, after, subs, chan, closes, got, synced, drops>>

Resyncs(c) == Seen(c) < mark[c]

\* Faulty variant: off by one after the sequence the client has.
Retained_SkipsNext(start) == {s \in Seqs : s > start + 1 /\ row[s] \notin {"none", "mark"}}

Retained(start) == {s \in Seqs : s > start /\ row[s] \notin {"none", "mark"}}

\* ... ORDER BY seq LIMIT n
FirstRows(S, n) ==
  [i \in 1..(IF Cardinality(S) < n THEN Cardinality(S) ELSE n) |->
     CHOOSE s \in S : Cardinality({t \in S : t < s}) = i - 1]

ReadRows(c) ==
  LET start == IF Resyncs(c) THEN mark[c] ELSE Seen(c)
      rows  == FirstRows(Retained(start), BacklogLimit) IN
  /\ pc[c] = "rows"
  /\ backlog' = [backlog EXCEPT ![c] = rows]
  /\ after' = [after EXCEPT ![c] = Largest(ToSet(rows) \cup {start})]
  /\ pc' = [pc EXCEPT ![c] = "register"]
  /\ UNCHANGED <<row, pending, closing, mark, subs, chan, closes, got, synced, drops>>

\* Faulty variant: registers without asking whether the run has ended.
Register_Always(c) ==
  /\ pc[c] = "register"
  /\ chan' = [chan EXCEPT ![c] = <<>>]
  /\ closes' = [closes EXCEPT ![c] = 0]
  /\ subs' = subs \cup {c}
  /\ synced' = [synced EXCEPT ![c] = IF Resyncs(c) THEN mark[c] ELSE @]
  /\ got' = [got EXCEPT ![c] = @ \o backlog[c]]
  /\ pc' = [pc EXCEPT ![c] = "on"]
  /\ backlog' = [backlog EXCEPT ![c] = <<>>]
  /\ UNCHANGED <<row, pending, closing, mark, after, drops>>

\* The run is read last: a subscription to an ended run gets a closed channel.
\* The handler then sends the backlog, the resync event first.
Register(c) ==
  /\ pc[c] = "register"
  /\ chan' = [chan EXCEPT ![c] = <<>>]
  /\ closes' = [closes EXCEPT ![c] = IF Ended THEN 1 ELSE 0]
  /\ subs' = IF Ended THEN subs ELSE subs \cup {c}
  /\ synced' = [synced EXCEPT ![c] = IF Resyncs(c) THEN mark[c] ELSE @]
  /\ got' = [got EXCEPT ![c] = @ \o backlog[c]]
  /\ pc' = [pc EXCEPT ![c] = "on"]
  /\ backlog' = [backlog EXCEPT ![c] = <<>>]
  /\ UNCHANGED <<row, pending, closing, mark, after, drops>>

Receive(c) ==
  /\ pc[c] = "on" /\ chan[c] # <<>>
  /\ got' = [got EXCEPT ![c] = Append(@, Head(chan[c]))]
  /\ chan' = [chan EXCEPT ![c] = Tail(@)]
  /\ UNCHANGED <<row, pending, closing, pc, mark, backlog, after, subs, closes, synced, drops>>

\* Faulty variant: closes the channel without looking whether it is registered.
unsubscribe_Always(c) ==
  /\ BrokerFree
  /\ closes' = [closes EXCEPT ![c] = @ + 1]
  /\ subs' = subs \ {c}

\* The deferred unsubscribe, which closes only what the broker still has.
unsubscribe(c) ==
  /\ BrokerFree
  /\ closes' = [closes EXCEPT ![c] = IF c \in subs THEN @ + 1 ELSE @]
  /\ subs' = subs \ {c}

Leave(c) ==
  /\ unsubscribe(c)
  /\ pc' = [pc EXCEPT ![c] = "out"]
  /\ chan' = [chan EXCEPT ![c] = <<>>]
  /\ UNCHANGED <<row, pending, closing, mark, backlog, after, got, synced>>

\* The handler returns when the channel is closed and drained.
Finish(c) ==
  /\ pc[c] = "on" /\ chan[c] = <<>> /\ closes[c] > 0
  /\ Leave(c)
  /\ UNCHANGED drops

\* The connection breaks; what is still in the channel never arrives.
Drop(c) ==
  /\ pc[c] = "on" /\ drops[c] < MaxDrops
  /\ drops' = [drops EXCEPT ![c] = @ + 1]
  /\ Leave(c)

StreamNext ==
  \/ \E kinds \in Batches : appendEventTx(kinds)
  \/ CompactRunLogs \/ Publish \/ closeRun
  \/ \E c \in Clients : \/ Subscribe(c) \/ ReadRows(c) \/ Register(c)
                        \/ Receive(c) \/ Finish(c) \/ Drop(c)

StreamSpec == StreamInit /\ [][StreamNext]_streamVars

\* Go's mutex lets no waiter starve, goroutines run, and a client that has not
\* seen the end of the run comes back.
StreamFairness ==
  /\ SF_streamVars(Publish) /\ SF_streamVars(closeRun)
  /\ \A c \in Clients :
       /\ SF_streamVars(Subscribe(c)) /\ SF_streamVars(Finish(c))
       /\ WF_streamVars(ReadRows(c)) /\ WF_streamVars(Register(c)) /\ WF_streamVars(Receive(c))

FairStreamSpec == StreamSpec /\ StreamFairness

---------------------------------------------------------------------------
(* Properties.                                                             *)

Ascending(q) == \A i, j \in 1..Len(q) : i < j => q[i] < q[j]

\* Every client receives sequences in ascending order, none twice, whatever
\* connections it loses and however its subscriptions fall between the commit
\* of an event and its publication (the gap Subscribe's lock closes).
AscendingOnce == \A c \in Clients : Ascending(got[c])

\* A client that holds sequence n holds every retained event up to n, or a
\* resync snapshot taken after it.
NoRetainedGap ==
  \A c \in Clients : \A s \in Seqs :
    s <= Seen(c) /\ row[s] \notin {"none", "mark"} => s \in ToSet(got[c]) \/ s <= synced[c]

\* The broker never sends on a closed channel and never closes one twice, which
\* would panic: slow subscribers, closeRun and unsubscribe all close.
ChannelClosedOnce ==
  \A c \in Clients : closes[c] <= 1 /\ (c \in subs => closes[c] = 0)

\* Once the terminal event is published nobody is left waiting on the run: a
\* subscription that read the run before its end is still closed by it.
NobodyWaitsOnEndedRun == Ended /\ WriteFree => subs = {}

\* Events on their way to the client, and the sequence a resync stands for.
Coming(c) == ToSet(backlog[c]) \cup ToSet(chan[c])
Stood(c) == IF pc[c] = "register" /\ Resyncs(c) THEN mark[c] ELSE synced[c]

\* What makes them inductive.  Each client: what it has, what waits in its
\* channel and what Subscribe read follow one another and end at sub.after.
ClientOrdered(c) ==
  /\ Ascending(got[c]) /\ Ascending(backlog[c]) /\ Ascending(chan[c])
  /\ pc[c] # "on" => chan[c] = <<>> /\ c \notin subs
  /\ pc[c] # "register" => backlog[c] = <<>>
  /\ pc[c] \in {"register", "on"} =>
       \A s \in ToSet(got[c]) : s <= after[c] /\ \A t \in Coming(c) : s < t
  /\ \A t \in Coming(c) : t <= after[c]

\* Until the run ends nothing is compacted, and only rows were handed out.
OnlyRowsUntilEnd ==
  ~ Ended =>
    /\ \A s \in Seqs : row[s] # "mark"
    /\ \A i \in 1..Len(pending) : row[pending[i]] # "none"
    /\ \A c \in Clients :
         /\ mark[c] = 0 /\ synced[c] = 0
         /\ after[c] = 0 \/ row[after[c]] # "none"
         /\ \A s \in ToSet(got[c]) \cup Coming(c) : row[s] # "none"

\* The events to publish are in order; the end of a run somebody waits for is
\* among them, or closeRun is next.
EndStillToCome ==
  /\ Ascending(pending)
  /\ Ended => closing \/ subs = {} \/ \E i \in 1..Len(pending) : row[pending[i]] = "end"

\* Up to sub.after the client has, or will get, every retained event; what is
\* beyond is about to be published.
ClientComplete(c) ==
  /\ \A s \in Retained(0) : (\E g \in ToSet(got[c]) : s <= g)
                             => s \in ToSet(got[c]) \/ s <= synced[c]
  /\ pc[c] \in {"register", "on"} =>
       \A s \in Retained(0) : s <= after[c]
                             => s \in ToSet(got[c]) \cup Coming(c) \/ s <= Stood(c)
  /\ pc[c] = "register" \/ c \in subs => Retained(after[c]) \subseteq ToSet(pending)

\* What the stream keeps whatever the length of the backlog.
StreamOrdered ==
  /\ StreamTypeOK
  /\ ChannelClosedOnce
  /\ OnlyRowsUntilEnd
  /\ EndStillToCome
  /\ \A c \in Clients : ClientOrdered(c)

\* The stream's invariants together: order and uniqueness of what a client got,
\* no gap in what is retained, channels closed once, nobody left behind.
StreamInv ==
  /\ StreamOrdered
  /\ AscendingOnce
  /\ NobodyWaitsOnEndedRun
  /\ \A c \in Clients : ClientComplete(c)
  /\ NoRetainedGap

\* Every client that keeps coming back learns of the end of the run.
EndIsSeen ==
  \A c \in Clients : Ended ~> \E s \in ToSet(got[c]) : row[s] = "end"

============================================================================
