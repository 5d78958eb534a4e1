---------------------------- MODULE DockerEvents ----------------------------
(***************************************************************************)
(* The Docker event log (dockerx/events.go): one follower writes the        *)
(* daemon's events into a ring of fixed size and hands each to the          *)
(* subscribers; browsers are sent the buffered past and then what arrives   *)
(* (handleDockerEventStream).  Events are numbered in the order the daemon  *)
(* emits them.                                                              *)
(***************************************************************************)
EXTENDS Integers, Sequences, FiniteSets

CONSTANTS
  eventBufferSize,  \* slots of the ring
  subBuffer,        \* slots of a subscriber's channel (64 in the code)
  Viewers,          \* browsers watching the feed
  Noise,            \* the events worthKeeping drops
  MaxEvents,        \* bound on events emitted
  MaxVisitsEv       \* bound on connections of browsers

ASSUME DockerEventsAssumption ==
  eventBufferSize \in Nat \ {0} /\ subBuffer \in Nat /\ MaxEvents \in Nat /\ MaxVisitsEv \in Nat

VARIABLES
  emitted,          \* events the daemon has emitted
  following,        \* the stream is connected
  ring, nextSlot, filled,
  recorded,         \* every event recorded, oldest first
  sending,          \* the event being handed out, after the lock is released
  toSend,           \* the channels copied under the lock that it still goes to
  subscribed,       \* channels in the map
  channel,          \* what each subscriber's channel holds
  closedChan,       \* channels closed by their unsubscribe
  viewer,           \* where each browser's handler is
  shown,            \* what each browser was sent, oldest first
  feedVisits,
  panicked          \* a send on a closed channel ended the process

eventVars == <<emitted, following, ring, nextSlot, filled, recorded, sending, toSend,
               subscribed, channel, closedChan, viewer, shown, feedVisits, panicked>>

ringVars == <<ring, nextSlot, filled, recorded>>
viewVars == <<subscribed, closedChan, viewer, feedVisits>>

EventsInit ==
  /\ emitted = 0 /\ following = FALSE
  /\ ring = [i \in 0..(eventBufferSize - 1) |-> 0] /\ nextSlot = 0 /\ filled = FALSE
  /\ recorded = <<>> /\ sending = 0 /\ toSend = {}
  /\ subscribed = {} /\ channel = [v \in Viewers |-> <<>>] /\ closedChan = {}
  /\ viewer = [v \in Viewers |-> "away"] /\ shown = [v \in Viewers |-> <<>>]
  /\ feedVisits = 0 /\ panicked = FALSE

(* Start and follow: reconnected after a failure, asking only for what       *)
(* happens from then on.                                                     *)
Connects ==
  /\ ~following /\ following' = TRUE
  /\ UNCHANGED <<emitted, ringVars, sending, toSend, channel, shown, viewVars, panicked>>

Disconnects ==
  /\ following /\ sending = 0 /\ following' = FALSE
  /\ UNCHANGED <<emitted, ringVars, sending, toSend, channel, shown, viewVars, panicked>>

worthKeeping(e) == e \notin Noise

Recorded(e) ==
  /\ ring' = [ring EXCEPT ![nextSlot] = e]
  /\ nextSlot' = (nextSlot + 1) % eventBufferSize
  /\ filled' = (filled \/ nextSlot' = 0)
  /\ recorded' = Append(recorded, e)

(* The first half of record, under the lock.                                 *)
EventArrives ==
  /\ emitted < MaxEvents /\ sending = 0 /\ ~panicked
  /\ emitted' = emitted + 1
  /\ IF following /\ worthKeeping(emitted')
     THEN /\ Recorded(emitted')
          /\ sending' = (IF subscribed = {} THEN 0 ELSE emitted') /\ toSend' = subscribed
     ELSE UNCHANGED <<ringVars, sending, toSend>>
  /\ UNCHANGED <<following, channel, shown, viewVars, panicked>>

(* The second half: never waiting on a full channel.  A send on a channel    *)
(* that was closed since ends the process.                                   *)
HandsOut ==
  \E v \in toSend :
    /\ ~panicked
    /\ toSend' = toSend \ {v}
    /\ sending' = IF toSend' = {} THEN 0 ELSE sending
    /\ IF v \in closedChan THEN panicked' = TRUE /\ UNCHANGED channel
       ELSE /\ channel' = IF Len(channel[v]) < subBuffer
                          THEN [channel EXCEPT ![v] = Append(@, sending)] ELSE channel
            /\ UNCHANGED panicked
    /\ UNCHANGED <<emitted, following, ringVars, shown, viewVars>>

(* Recent: walks back from the newest slot.                                  *)
Recent_ForgetsWrap(limit) ==
  [k \in 1..(IF nextSlot < limit THEN nextSlot ELSE limit) |->
     ring[(nextSlot - k + eventBufferSize) % eventBufferSize]]

Recent(limit) ==
  LET count == IF filled THEN eventBufferSize ELSE nextSlot IN
  [k \in 1..(IF count < limit THEN count ELSE limit) |->
     ring[(nextSlot - k + eventBufferSize) % eventBufferSize]]

OldestFirst(r) == [k \in 1..Len(r) |-> r[Len(r) + 1 - k]]

(* handleDockerEventStream: the past first, then a subscription.             *)
SendsPast(v) ==
  /\ viewer[v] = "away" /\ feedVisits < MaxVisitsEv /\ ~panicked
  /\ viewer' = [viewer EXCEPT ![v] = "past"] /\ feedVisits' = feedVisits + 1
  /\ shown' = [shown EXCEPT ![v] = OldestFirst(Recent(eventBufferSize))]
  /\ UNCHANGED <<emitted, following, ringVars, sending, toSend, channel, subscribed,
                 closedChan, panicked>>

Subscribes(v) ==
  /\ viewer[v] = "past" /\ ~panicked
  /\ viewer' = [viewer EXCEPT ![v] = "live"]
  /\ subscribed' = subscribed \cup {v} /\ closedChan' = closedChan \ {v}
  /\ channel' = [channel EXCEPT ![v] = <<>>]
  /\ UNCHANGED <<emitted, following, ringVars, sending, toSend, shown, feedVisits, panicked>>

Forwards(v) ==
  /\ viewer[v] = "live" /\ channel[v] # <<>> /\ ~panicked
  /\ shown' = [shown EXCEPT ![v] = Append(@, Head(channel[v]))]
  /\ channel' = [channel EXCEPT ![v] = Tail(@)]
  /\ UNCHANGED <<emitted, following, ringVars, sending, toSend, viewVars, panicked>>

(* The function Subscribe returns: out of the map, then closed.  A channel   *)
(* is a new one each time; one is reused here only once nothing sends to it. *)
Unsubscribes(v) ==
  /\ viewer[v] = "live" /\ ~panicked
  /\ viewer' = [viewer EXCEPT ![v] = "away"]
  /\ subscribed' = subscribed \ {v} /\ closedChan' = closedChan \cup {v}
  /\ UNCHANGED <<emitted, following, ringVars, sending, toSend, channel, shown, feedVisits, panicked>>

EventsNext ==
  \/ Connects \/ Disconnects \/ EventArrives \/ HandsOut
  \/ \E v \in Viewers : \/ SendsPast(v) \/ Forwards(v) \/ Unsubscribes(v)
                        \/ (v \notin toSend /\ Subscribes(v))

EventsSpec == EventsInit /\ [][EventsNext]_eventVars

-----------------------------------------------------------------------------
(* The ring slot by slot: until it has wrapped it is what was recorded, from  *)
(* then on each slot holds the last event written to it.                     *)
EventsTypeOK ==
  /\ emitted \in Nat /\ following \in BOOLEAN /\ panicked \in BOOLEAN /\ feedVisits \in Nat
  /\ ring \in [0..(eventBufferSize - 1) -> Nat]
  /\ nextSlot \in 0..(eventBufferSize - 1) /\ filled \in BOOLEAN
  /\ recorded \in Seq(1..emitted)
  /\ sending \in 0..emitted /\ toSend \subseteq Viewers
  /\ subscribed \subseteq Viewers /\ closedChan \subseteq Viewers
  /\ channel \in [Viewers -> Seq(Nat)] /\ shown \in [Viewers -> Seq(Nat)]
  /\ viewer \in [Viewers -> {"away", "past", "live"}]

RingHolds ==
  LET n == Len(recorded) IN
  IF filled
  THEN /\ n >= eventBufferSize
       /\ \A i \in 0..(eventBufferSize - 1) :
            ring[i] = recorded[IF i < nextSlot THEN n - nextSlot + i + 1
                               ELSE n - nextSlot - eventBufferSize + i + 1]
  ELSE nextSlot = n /\ \A i \in 0..(n - 1) : ring[i] = recorded[i + 1]

(* The daemon's order survives the ring and the channels: an event still     *)
(* being handed out is newer than all its receivers have.                    *)
Rising(s) == \A i, j \in 1..Len(s) : i < j => s[i] < s[j]
UpTo(s, e) == \A i \in 1..Len(s) : s[i] <= e

EventsOrdered ==
  /\ Rising(recorded)
  /\ toSend # {} => sending = emitted /\ sending > 0
  /\ \A v \in Viewers :
       /\ viewer[v] = "live" <=> v \in subscribed
       /\ viewer[v] = "live" => v \notin closedChan
       /\ Rising(shown[v]) /\ Rising(channel[v])
       /\ UpTo(shown[v], emitted) /\ UpTo(channel[v], emitted)
       /\ viewer[v] = "live" =>
            \A i \in 1..Len(shown[v]), j \in 1..Len(channel[v]) : shown[v][i] < channel[v][j]
       /\ v \in toSend /\ v \notin closedChan =>
            viewer[v] = "live" /\ UpTo(shown[v], sending - 1) /\ UpTo(channel[v], sending - 1)

(* What the ring gives back is the newest events recorded, newest first and  *)
(* none twice, also once it has wrapped (record, Recent).                    *)
RecentIsTail ==
  LET n == Len(recorded)
      kept == IF n < eventBufferSize THEN n ELSE eventBufferSize IN
  Recent(eventBufferSize) = [k \in 1..kept |-> recorded[n + 1 - k]]

(* A browser is shown events in the order they happened and none twice,      *)
(* whatever was recorded between the past it was sent and its subscription.  *)
ShownInOrder ==
  \A v \in Viewers : \A i, j \in 1..Len(shown[v]) : i < j => shown[v][i] < shown[v][j]

(* The feed keeps the newest events and shows them in order.                 *)
FeedInv == EventsTypeOK /\ RingHolds /\ EventsOrdered /\ RecentIsTail /\ ShownInOrder

(* A browser that goes away never harms the recorder (the non-blocking send  *)
(* exists so that one reader "must not stall the recorder").                 *)
ViewersAreHarmless == ~panicked
=============================================================================
