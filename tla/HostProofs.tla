---------------------------- MODULE HostProofs ----------------------------
(***************************************************************************)
(* What is proved of the parts that look after the host: the Docker event  *)
(* feed (DockerEvents), the compose stacks (Stacks), the metrics recorder  *)
(* (Metrics), the dashboard's own upgrade (SelfUpdate), fail2ban's jails   *)
(* (Jails) and the containers (Containers).  Their type and ordering parts *)
(* are strengthened until each step keeps them; the properties the runs    *)
(* check follow.                                                           *)
(***************************************************************************)
EXTENDS DockerEvents, Stacks, Metrics, SelfUpdate, Jails, Containers, WellFoundedInduction, TLAPS

---------------------------------------------------------------------------
(* The ring.                                                               *)

\* What the code's remainder computes for the arguments it is given: one lap at most.
LEMMA OneLap ==
  ASSUME NEW size \in Nat \ {0}, NEW x \in 0..(2 * size - 1)
  PROVE  x % size = IF x < size THEN x ELSE x - size
  OBVIOUS

LEMMA NextLap ==
  ASSUME NEW size \in Nat \ {0}, NEW s \in 0..(size - 1)
  PROVE  (s + 1) % size = IF s + 1 < size THEN s + 1 ELSE 0
  OBVIOUS

\* A function over the first numbers is a sequence of that length.
LEMMA FirstNumbers ==
  ASSUME NEW S, NEW m \in Nat, NEW f \in [1..m -> S]
  PROVE  f \in Seq(S) /\ Len(f) = m
  OBVIOUS

\* A slot of the ring holds the event the walk of Recent expects there.
LEMMA RecentRead ==
  ASSUME EventsTypeOK, RingHolds
  PROVE  RecentIsTail
  <1> DEFINE n == Len(recorded)
             kept == IF n < eventBufferSize THEN n ELSE eventBufferSize
             count == IF filled THEN eventBufferSize ELSE nextSlot
  <1>1. /\ n \in Nat /\ eventBufferSize \in Nat \ {0} /\ nextSlot \in 0..(eventBufferSize - 1)
        /\ filled \in BOOLEAN
    BY DockerEventsAssumption DEF EventsTypeOK
  <1>2. count = kept /\ kept <= eventBufferSize /\ count \in Nat /\ (filled \/ kept = nextSlot)
    BY <1>1 DEF RingHolds
  <1>3. ASSUME NEW k \in 1..kept
        PROVE  ring[(nextSlot - k + eventBufferSize) % eventBufferSize] = recorded[n + 1 - k]
    <2> DEFINE x == nextSlot - k + eventBufferSize
    <2>1. k \in Nat /\ k >= 1 /\ k <= eventBufferSize /\ x \in 0..(2 * eventBufferSize - 1)
      BY <1>1, <1>2
    <2>2. x % eventBufferSize = IF x < eventBufferSize THEN x ELSE x - eventBufferSize
      BY <1>1, <2>1, OneLap
    <2>3. CASE ~filled
      BY <1>1, <1>2, <2>1, <2>2, <2>3 DEF RingHolds
    <2>4. CASE filled
      BY <1>1, <1>2, <2>1, <2>2, <2>4 DEF RingHolds
    <2> QED BY <2>3, <2>4, <1>1
  <1>4. (IF count < eventBufferSize THEN count ELSE eventBufferSize) = kept
    BY <1>1, <1>2
  <1> QED BY <1>3, <1>4 DEF RecentIsTail, Recent

\* What a browser is sent of the past: rising, and nothing newer than emitted.
LEMMA PastIsOrdered ==
  ASSUME EventsTypeOK, RingHolds, EventsOrdered
  PROVE  LET past == OldestFirst(Recent(eventBufferSize)) IN
         past \in Seq(Nat) /\ Rising(past) /\ UpTo(past, emitted)
  <1> DEFINE n == Len(recorded)
             kept == IF n < eventBufferSize THEN n ELSE eventBufferSize
             r == [k \in 1..kept |-> recorded[n + 1 - k]]
             past == OldestFirst(Recent(eventBufferSize))
  <1>1. n \in Nat /\ kept \in Nat /\ kept <= n /\ emitted \in Nat /\ recorded \in Seq(1..emitted)
    BY DockerEventsAssumption DEF EventsTypeOK
  <1>2. Recent(eventBufferSize) = r
    BY RecentRead DEF RecentIsTail
  <1>3. \A k \in 1..n : recorded[k] \in 1..emitted
    BY <1>1
  <1>4. r \in [1..kept -> Nat] /\ Len(r) = kept
    <2>1. r \in [1..kept -> Nat]
      BY <1>1, <1>3
    <2> QED BY <2>1, <1>1, FirstNumbers
  <1>5. past = [k \in 1..kept |-> r[kept + 1 - k]]
    BY <1>2, <1>4 DEF OldestFirst
  <1>6. past \in [1..kept -> Nat] /\ \A k \in 1..kept : past[k] = recorded[n - kept + k]
    <2>1. ASSUME NEW k \in 1..kept
          PROVE  r[kept + 1 - k] = recorded[n - kept + k] /\ recorded[n - kept + k] \in Nat
      <3>1. kept + 1 - k \in 1..kept /\ n + 1 - (kept + 1 - k) = n - kept + k /\ n - kept + k \in 1..n
        BY <1>1
      <3> HIDE DEF kept, n
      <3> QED BY <3>1, <1>1, <1>3
    <2> HIDE DEF r, kept, n, past
    <2> QED BY <2>1, <1>5
  <1>7. past \in Seq(Nat) /\ Len(past) = kept
    BY <1>6, <1>1, FirstNumbers
  <1>8. Rising(past)
    <2>1. \A i, j \in 1..kept : i < j => n - kept + i \in 1..n /\ n - kept + j \in 1..n
                                         /\ n - kept + i < n - kept + j
      BY <1>1
    <2>2. \A i, j \in 1..n : i < j => recorded[i] < recorded[j]
      BY <1>1 DEF Rising, EventsOrdered
    <2>3. \A i, j \in 1..kept : i < j => past[i] < past[j]
      <3> HIDE DEF past, kept, n
      <3> QED BY <2>1, <2>2, <1>6
    <2>4. DOMAIN past = 1..kept
      <3> HIDE DEF past, kept
      <3> QED BY <1>6
    <2> HIDE DEF past, kept, n
    <2> QED BY <2>3, <2>4, <1>7 DEF Rising
  <1>9. UpTo(past, emitted)
    <2>1. \A i \in 1..kept : n - kept + i \in 1..n
      BY <1>1
    <2>2. \A i \in 1..kept : past[i] \in 1..emitted
      <3> HIDE DEF past, kept, n
      <3> QED BY <2>1, <1>3, <1>6
    <2> HIDE DEF past, kept, n
    <2> QED BY <2>2, <1>1, <1>7 DEF UpTo
  <1> QED BY <1>7, <1>8, <1>9

FeedParts == EventsTypeOK /\ RingHolds /\ EventsOrdered

LEMMA FeedInit ==
  ASSUME EventsInit
  PROVE  FeedParts
  <1>1. eventBufferSize \in Nat \ {0}
    BY DockerEventsAssumption
  <1>2. EventsTypeOK
    <2>1. ring \in [0..(eventBufferSize - 1) -> Nat] /\ nextSlot \in 0..(eventBufferSize - 1)
      BY <1>1 DEF EventsInit
    <2>2. recorded \in Seq(1..emitted) /\ channel \in [Viewers -> Seq(Nat)] /\ shown \in [Viewers -> Seq(Nat)]
      BY DEF EventsInit
    <2>3. viewer \in [Viewers -> {"away", "past", "live"}]
      BY DEF EventsInit
    <2>4. emitted \in Nat /\ sending \in 0..emitted /\ feedVisits \in Nat
      BY DEF EventsInit
    <2>5. /\ following \in BOOLEAN /\ panicked \in BOOLEAN /\ filled \in BOOLEAN
          /\ toSend \subseteq Viewers /\ subscribed \subseteq Viewers /\ closedChan \subseteq Viewers
      BY DEF EventsInit
    <2> QED BY <2>1, <2>2, <2>3, <2>4, <2>5 DEF EventsTypeOK
  <1>3. RingHolds
    BY DEF EventsInit, RingHolds
  <1>4. EventsOrdered
    BY DEF EventsInit, EventsOrdered, Rising, UpTo
  <1> QED BY <1>2, <1>3, <1>4 DEF FeedParts

\* The slot written is the oldest one, also at the end of a lap.
LEMMA RecordedInRing ==
  ASSUME FeedParts, NEW e, e = emitted + 1, Recorded(e)
  PROVE  /\ ring' \in [0..(eventBufferSize - 1) -> Nat]
         /\ nextSlot' \in 0..(eventBufferSize - 1) /\ filled' \in BOOLEAN
         /\ recorded' \in Seq(1..(emitted + 1)) /\ Rising(recorded') /\ RingHolds'
  <1> DEFINE len == Len(recorded)
  <1>1. /\ len \in Nat /\ eventBufferSize \in Nat \ {0} /\ nextSlot \in 0..(eventBufferSize - 1)
        /\ filled \in BOOLEAN /\ emitted \in Nat /\ ring \in [0..(eventBufferSize - 1) -> Nat]
        /\ recorded \in Seq(1..emitted)
    BY DockerEventsAssumption DEF FeedParts, EventsTypeOK
  <1>2. nextSlot' = IF nextSlot + 1 < eventBufferSize THEN nextSlot + 1 ELSE 0
    BY <1>1, NextLap DEF Recorded
  <1>3. filled' = (filled \/ nextSlot + 1 = eventBufferSize)
    BY <1>1, <1>2 DEF Recorded
  <1>4. \A i \in 0..(eventBufferSize - 1) : ring'[i] = IF i = nextSlot THEN e ELSE ring[i]
    BY <1>1 DEF Recorded
  <1>5. ring' \in [0..(eventBufferSize - 1) -> Nat]
    BY <1>1 DEF Recorded
  <1>6. \A k \in 1..len : recorded[k] \in 1..emitted
    BY <1>1
  <1>7. /\ recorded' \in Seq(1..(emitted + 1)) /\ Len(recorded') = len + 1
        /\ recorded'[len + 1] = e /\ \A k \in 1..len : recorded'[k] = recorded[k]
    <2>1. recorded \in Seq(1..(emitted + 1))
      BY <1>1, <1>6
    <2> QED BY <1>1, <2>1 DEF Recorded
  <1> HIDE DEF len
  <1>8. Rising(recorded')
    <2>1. \A i, j \in 1..len : i < j => recorded[i] < recorded[j]
      BY DEF FeedParts, EventsOrdered, Rising, len
    <2>2. SUFFICES ASSUME NEW i \in 1..(len + 1), NEW j \in 1..(len + 1), i < j
          PROVE  recorded'[i] < recorded'[j]
      BY <1>7 DEF Rising
    <2>3. i \in 1..len /\ recorded'[i] = recorded[i] /\ recorded[i] \in 1..emitted
      BY <2>2, <1>1, <1>6, <1>7
    <2>4. CASE j = len + 1
      BY <2>3, <2>4, <1>1, <1>7
    <2>5. CASE j \in 1..len
      BY <2>1, <2>2, <2>3, <2>5, <1>7
    <2> QED BY <2>4, <2>5, <1>1
  <1>9. RingHolds'
    <2>a. ASSUME ~filled
          PROVE  nextSlot = len /\ \A i \in 0..(len - 1) : ring[i] = recorded[i + 1]
      BY <2>a DEF FeedParts, RingHolds, len
    <2>b. ASSUME ~filled, NEW i \in 0..len
          PROVE  ring'[i] = recorded'[i + 1]
      <3>1. len \in 0..(eventBufferSize - 1) /\ i \in 0..(eventBufferSize - 1)
        BY <1>1, <2>a, <2>b
      <3>2. CASE i = len
        BY <1>1, <1>4, <1>7, <2>a, <2>b, <3>1, <3>2
      <3>3. CASE i \in 0..(len - 1)
        BY <1>1, <1>4, <1>7, <2>a, <2>b, <3>1, <3>3
      <3> QED BY <3>2, <3>3, <1>1
    <2>1. CASE ~filled /\ nextSlot + 1 < eventBufferSize
      <3>1. nextSlot' = len + 1 /\ Len(recorded') = len + 1 /\ 0..(len + 1 - 1) = 0..len
        BY <1>1, <1>2, <1>7, <2>1, <2>a
      <3>2. ~filled'
        BY <1>1, <1>3, <2>1
      <3> QED BY <1>1, <3>1, <3>2, <2>1, <2>b DEF RingHolds
    <2>2. CASE ~filled /\ nextSlot + 1 = eventBufferSize
      <3>0. filled'
        BY <1>3, <2>2
      <3>1. eventBufferSize = len + 1 /\ nextSlot' = 0 /\ Len(recorded') = eventBufferSize
        BY <1>1, <1>2, <1>7, <2>2, <2>a
      <3>2. \A i \in 0..(eventBufferSize - 1) :
              /\ i \in 0..len /\ ~(i < 0)
              /\ eventBufferSize - 0 - eventBufferSize + i + 1 = i + 1
        BY <1>1, <3>1
      <3> QED BY <3>0, <3>1, <3>2, <2>2, <2>b, <1>1 DEF RingHolds
    <2>3. CASE filled
      <3>1. /\ len >= eventBufferSize
            /\ \A i \in 0..(eventBufferSize - 1) :
                 ring[i] = recorded[IF i < nextSlot THEN len - nextSlot + i + 1
                                    ELSE len - nextSlot - eventBufferSize + i + 1]
        BY <2>3 DEF FeedParts, RingHolds, len
      <3>2. SUFFICES ASSUME NEW i \in 0..(eventBufferSize - 1)
            PROVE  ring'[i] = recorded'[IF i < nextSlot' THEN Len(recorded') - nextSlot' + i + 1
                                        ELSE Len(recorded') - nextSlot' - eventBufferSize + i + 1]
        <4>0. filled'
          BY <2>3, <1>3
        <4>1. Len(recorded') = len + 1 /\ len + 1 >= eventBufferSize
          BY <1>1, <1>7, <3>1
        <4> QED BY <1>1, <4>0, <4>1, <3>2 DEF RingHolds
      <3>3. CASE i = nextSlot
        BY <1>1, <1>2, <1>4, <1>7, <3>3
      <3>4. CASE i < nextSlot
        <4>1. ring'[i] = recorded[len - nextSlot + i + 1] /\ len - nextSlot + i + 1 \in 1..len
          BY <1>1, <1>4, <3>1, <3>4
        <4>2. recorded'[len - nextSlot + i + 1] = ring'[i]
          BY <1>7, <4>1
        <4>3. CASE nextSlot + 1 < eventBufferSize
          <5>1. i < nextSlot' /\ Len(recorded') - nextSlot' + i + 1 = len - nextSlot + i + 1
            BY <1>1, <1>2, <1>7, <3>4, <4>3
          <5> QED BY <4>2, <5>1
        <4>4. CASE ~(nextSlot + 1 < eventBufferSize)
          <5>1. /\ ~(i < nextSlot')
                /\ Len(recorded') - nextSlot' - eventBufferSize + i + 1 = len - nextSlot + i + 1
            BY <1>1, <1>2, <1>7, <3>4, <4>4
          <5> QED BY <4>2, <5>1
        <4> QED BY <4>3, <4>4
      <3>5. CASE i > nextSlot
        <4>1. /\ ring'[i] = recorded[len - nextSlot - eventBufferSize + i + 1]
              /\ len - nextSlot - eventBufferSize + i + 1 \in 1..len
          BY <1>1, <1>4, <3>1, <3>5
        <4>2. recorded'[len - nextSlot - eventBufferSize + i + 1] = ring'[i]
          BY <1>7, <4>1
        <4>3. /\ nextSlot' = nextSlot + 1 /\ ~(i < nextSlot')
              /\ Len(recorded') - nextSlot' - eventBufferSize + i + 1 = len - nextSlot - eventBufferSize + i + 1
          BY <1>1, <1>2, <1>7, <3>5
        <4> QED BY <4>2, <4>3
      <3> QED BY <3>3, <3>4, <3>5, <1>1
    <2> QED BY <2>1, <2>2, <2>3, <1>1
  <1> QED BY <1>1, <1>2, <1>3, <1>5, <1>7, <1>8, <1>9

\* Facts about one channel that the steps below take apart.
LEMMA NewestLast ==
  ASSUME NEW s \in Seq(Nat), NEW e \in Nat, Rising(s), UpTo(s, e - 1)
  PROVE  LET t == Append(s, e) IN
         /\ t \in Seq(Nat) /\ Rising(t) /\ UpTo(t, e)
         /\ \A k \in 1..Len(t) : t[k] = e \/ (k \in 1..Len(s) /\ t[k] = s[k])
  <1> DEFINE t == Append(s, e)
  <1>1. t \in Seq(Nat) /\ Len(t) = Len(s) + 1 /\ Len(s) \in Nat
    OBVIOUS
  <1>2. \A k \in 1..Len(t) : (k = Len(s) + 1 /\ t[k] = e) \/ (k \in 1..Len(s) /\ t[k] = s[k])
    OBVIOUS
  <1>3. \A k \in 1..Len(s) : s[k] \in Nat /\ s[k] <= e - 1
    BY DEF UpTo
  <1> HIDE DEF t
  <1>4. UpTo(t, e)
    <2>1. ASSUME NEW k \in 1..Len(t)
          PROVE  t[k] <= e
      <3>1. CASE t[k] = e
        BY <3>1
      <3>2. CASE k \in 1..Len(s) /\ t[k] = s[k]
        <4>1. s[k] \in Nat /\ s[k] <= e - 1
          BY <1>3, <3>2
        <4> QED BY <3>2, <4>1
      <3> QED BY <1>2, <3>1, <3>2
    <2> QED BY <2>1 DEF UpTo
  <1>5. Rising(t)
    <2>1. ASSUME NEW i \in 1..Len(t), NEW j \in 1..Len(t), i < j
          PROVE  t[i] < t[j]
      <3>0. i # Len(s) + 1
        BY <1>1, <2>1
      <3>1. i \in 1..Len(s) /\ t[i] = s[i]
        BY <1>2, <3>0
      <3>2. CASE j = Len(s) + 1
        <4>0. j \notin 1..Len(s)
          BY <1>1, <3>2
        <4>1. t[j] = e
          BY <1>2, <4>0
        <4>2. s[i] \in Nat /\ s[i] <= e - 1
          BY <1>3, <3>1
        <4> QED BY <3>1, <4>1, <4>2
      <3>3. CASE j # Len(s) + 1
        BY <1>2, <2>1, <3>1, <3>3 DEF Rising
      <3> QED BY <3>2, <3>3
    <2> QED BY <2>1 DEF Rising
  <1> QED BY <1>1, <1>2, <1>4, <1>5 DEF t

LEMMA HeadMoves ==
  ASSUME NEW s \in Seq(Nat), NEW c \in Seq(Nat), NEW e \in Int, c # <<>>,
         Rising(s), Rising(c), UpTo(s, e), UpTo(c, e),
         \A i \in 1..Len(s), j \in 1..Len(c) : s[i] < c[j]
  PROVE  /\ Append(s, Head(c)) \in Seq(Nat) /\ Tail(c) \in Seq(Nat)
         /\ Rising(Append(s, Head(c))) /\ Rising(Tail(c))
         /\ UpTo(Append(s, Head(c)), e) /\ UpTo(Tail(c), e)
         /\ \A i \in 1..Len(Append(s, Head(c))), j \in 1..Len(Tail(c)) :
              Append(s, Head(c))[i] < Tail(c)[j]
  <1> DEFINE t == Append(s, Head(c))
             d == Tail(c)
  <1>1. /\ t \in Seq(Nat) /\ Len(t) = Len(s) + 1 /\ Len(s) \in Nat /\ Len(c) \in Nat /\ Len(c) >= 1
        /\ d \in Seq(Nat) /\ Len(d) = Len(c) - 1
    OBVIOUS
  <1>2. \A k \in 1..Len(t) : (k = Len(s) + 1 /\ t[k] = c[1]) \/ (k \in 1..Len(s) /\ t[k] = s[k])
    OBVIOUS
  <1>3. \A k \in 1..Len(d) : d[k] = c[k + 1] /\ k + 1 \in 1..Len(c) /\ k + 1 > 1
    OBVIOUS
  <1>4. /\ \A k \in 1..Len(s) : s[k] \in Nat /\ s[k] <= e
        /\ \A k \in 1..Len(c) : c[k] \in Nat /\ c[k] <= e
    BY DEF UpTo
  <1>5. 1 \in 1..Len(c)
    BY <1>1
  <1> HIDE DEF t, d
  <1>6. UpTo(t, e) /\ UpTo(d, e)
    BY <1>1, <1>2, <1>3, <1>4, <1>5 DEF UpTo
  <1>7. Rising(t)
    <2>1. ASSUME NEW i \in 1..Len(t), NEW j \in 1..Len(t), i < j
          PROVE  t[i] < t[j]
      <3>0. i # Len(s) + 1
        BY <1>1, <2>1
      <3>1. i \in 1..Len(s) /\ t[i] = s[i]
        BY <1>2, <3>0
      <3>2. CASE j = Len(s) + 1
        <4>0. j \notin 1..Len(s)
          BY <1>1, <3>2
        <4>1. t[j] = c[1]
          BY <1>2, <4>0
        <4> QED BY <1>5, <3>1, <4>1
      <3>3. CASE j # Len(s) + 1
        BY <1>2, <2>1, <3>1, <3>3 DEF Rising
      <3> QED BY <3>2, <3>3
    <2> QED BY <2>1 DEF Rising
  <1>8. Rising(d)
    <2>1. ASSUME NEW i \in 1..Len(d), NEW j \in 1..Len(d), i < j
          PROVE  d[i] < d[j]
      <3>1. i + 1 \in 1..Len(c) /\ j + 1 \in 1..Len(c) /\ i + 1 < j + 1
        BY <1>1, <1>3, <2>1
      <3> QED BY <1>3, <2>1, <3>1 DEF Rising
    <2> QED BY <2>1 DEF Rising
  <1>9. \A i \in 1..Len(t), j \in 1..Len(d) : t[i] < d[j]
    BY <1>1, <1>2, <1>3, <1>4, <1>5 DEF Rising
  <1> QED BY <1>1, <1>6, <1>7, <1>8, <1>9 DEF t, d

\* What the invariant says of one browser: it depends on these values only.
BrowserOK(v, at, in, gone, sent, queue, out, to, newest) ==
  /\ at = "live" <=> in
  /\ at = "live" => ~gone
  /\ Rising(sent) /\ Rising(queue) /\ UpTo(sent, newest) /\ UpTo(queue, newest)
  /\ at = "live" => \A i \in 1..Len(sent), j \in 1..Len(queue) : sent[i] < queue[j]
  /\ to /\ ~gone => at = "live" /\ UpTo(sent, out - 1) /\ UpTo(queue, out - 1)

Watched(v) == BrowserOK(v, viewer[v], v \in subscribed, v \in closedChan, shown[v], channel[v],
                        sending, v \in toSend, emitted)

LEMMA OrderedByBrowser ==
  EventsOrdered <=> /\ Rising(recorded)
                    /\ toSend # {} => sending = emitted /\ sending > 0
                    /\ \A v \in Viewers : Watched(v)
  BY DEF EventsOrdered, Watched, BrowserOK

\* One browser moves, nothing else does.
LEMMA OneBrowser ==
  ASSUME FeedParts, NEW v \in Viewers,
         UNCHANGED <<emitted, following, ringVars, sending, toSend, panicked>>,
         feedVisits' \in Nat,
         channel' \in [Viewers -> Seq(Nat)], shown' \in [Viewers -> Seq(Nat)],
         viewer' \in [Viewers -> {"away", "past", "live"}],
         subscribed' \subseteq Viewers, closedChan' \subseteq Viewers,
         \A w \in Viewers \ {v} :
           /\ channel'[w] = channel[w] /\ shown'[w] = shown[w] /\ viewer'[w] = viewer[w]
           /\ w \in subscribed' <=> w \in subscribed
           /\ w \in closedChan' <=> w \in closedChan,
         Watched(v)'
  PROVE  FeedParts'
  <1>1. EventsTypeOK' /\ RingHolds'
    BY DEF FeedParts, EventsTypeOK, RingHolds, ringVars
  <1>2. EventsOrdered'
    <2>1. Rising(recorded)' /\ (toSend # {} => sending = emitted /\ sending > 0)'
      BY DEF FeedParts, EventsOrdered, ringVars
    <2>2. ASSUME NEW w \in Viewers, w # v
          PROVE  Watched(w)'
      <3>1. Watched(w)
        BY OrderedByBrowser DEF FeedParts
      <3> QED BY <3>1, <2>2 DEF Watched, BrowserOK
    <2>3. \A w \in Viewers : Watched(w)'
      BY <2>2
    <2>4. (\A w \in Viewers : Watched(w))'
      BY <2>3
    <2> QED BY <2>1, <2>4 DEF EventsOrdered, Watched, BrowserOK
  <1> QED BY <1>1, <1>2 DEF FeedParts

\* The daemon's side of the feed: no browser moves.
LEMMA RecorderInv ==
  ASSUME FeedParts, Connects \/ Disconnects \/ EventArrives
  PROVE  FeedParts'
  <1>t. EventsTypeOK /\ emitted \in Nat /\ sending \in 0..emitted /\ RingHolds /\ EventsOrdered
    BY DEF FeedParts, EventsTypeOK
  <1>1. CASE Connects
    BY <1>1 DEF FeedParts, EventsTypeOK, RingHolds, EventsOrdered, Connects, ringVars, viewVars, Rising, UpTo
  <1>2. CASE Disconnects
    BY <1>2 DEF FeedParts, EventsTypeOK, RingHolds, EventsOrdered, Disconnects, ringVars, viewVars, Rising, UpTo
  <1>3. CASE EventArrives
    <2>1. /\ emitted' = emitted + 1 /\ sending = 0 /\ toSend = {}
          /\ UNCHANGED <<following, channel, shown, subscribed, closedChan, viewer, feedVisits, panicked>>
      BY <1>t, <1>3 DEF EventArrives, EventsOrdered, viewVars
    <2>2. \A v \in Viewers :
            /\ shown[v] \in Seq(Nat) /\ channel[v] \in Seq(Nat)
            /\ UpTo(shown[v], emitted) /\ UpTo(channel[v], emitted)
      BY <1>t DEF EventsTypeOK, EventsOrdered
    <2>3. \A v \in Viewers : UpTo(shown[v], emitted + 1) /\ UpTo(channel[v], emitted + 1)
      BY <2>2, <1>t DEF UpTo
    <2>4. /\ ring' \in [0..(eventBufferSize - 1) -> Nat]
          /\ nextSlot' \in 0..(eventBufferSize - 1) /\ filled' \in BOOLEAN
          /\ recorded' \in Seq(1..(emitted + 1)) /\ Rising(recorded') /\ RingHolds'
      <3>1. CASE following /\ worthKeeping(emitted')
        <4>1. Recorded(emitted') /\ emitted' = emitted + 1
          BY <3>1, <1>3, <2>1 DEF EventArrives
        <4> QED BY <4>1, RecordedInRing
      <3>2. CASE ~(following /\ worthKeeping(emitted'))
        <4>1. UNCHANGED ringVars
          BY <3>2, <1>3 DEF EventArrives
        <4>2. recorded \in Seq(1..(emitted + 1))
          BY <1>t DEF EventsTypeOK
        <4> QED BY <1>t, <4>1, <4>2 DEF ringVars, EventsTypeOK, EventsOrdered, RingHolds
      <3> QED BY <3>1, <3>2
    <2>5. \/ sending' = emitted' /\ toSend' = subscribed /\ subscribed # {}
          \/ sending' = 0 /\ toSend' = {}
      BY <1>3, <2>1 DEF EventArrives
    <2>6. EventsTypeOK'
      <3>1. sending' \in 0..emitted' /\ toSend' \subseteq Viewers /\ emitted' \in Nat
        BY <1>t, <2>1, <2>5 DEF EventsTypeOK
      <3> QED BY <1>t, <2>1, <2>4, <3>1 DEF EventsTypeOK
    <2>7. EventsOrdered'
      <3>1. (toSend # {} => sending = emitted /\ sending > 0)'
        BY <1>t, <2>1, <2>5
      <3>2. ASSUME NEW v \in Viewers
            PROVE  Watched(v)'
        <4>1. Watched(v)
          BY <1>t, OrderedByBrowser
        <4>2. CASE v \in toSend'
          <5>1. sending' - 1 = emitted /\ v \in subscribed
            BY <4>2, <2>5, <2>1, <1>t
          <5> QED BY <4>1, <4>2, <5>1, <2>1, <2>3 DEF Watched, BrowserOK
        <4>3. CASE v \notin toSend'
          BY <4>1, <4>3, <2>1, <2>3 DEF Watched, BrowserOK
        <4> QED BY <4>2, <4>3
      <3>3. (\A v \in Viewers : Watched(v))'
        BY <3>2
      <3> QED BY <2>4, <3>1, <3>3 DEF EventsOrdered, Watched, BrowserOK
    <2> QED BY <2>4, <2>6, <2>7 DEF FeedParts
  <1> QED BY <1>1, <1>2, <1>3

\* The newest event lands behind all a browser has, or nowhere.
LEMMA HandsOutInv ==
  ASSUME FeedParts, HandsOut
  PROVE  FeedParts'
  <1>1. PICK v \in toSend :
          /\ toSend' = toSend \ {v}
          /\ sending' = IF toSend' = {} THEN 0 ELSE sending
          /\ IF v \in closedChan THEN panicked' = TRUE /\ UNCHANGED channel
             ELSE /\ channel' = IF Len(channel[v]) < subBuffer
                                THEN [channel EXCEPT ![v] = Append(@, sending)] ELSE channel
                  /\ UNCHANGED panicked
          /\ UNCHANGED <<emitted, following, ringVars, shown, viewVars>>
    BY DEF HandsOut
  <1>2. /\ EventsTypeOK /\ RingHolds /\ EventsOrdered /\ v \in Viewers /\ emitted \in Nat
        /\ sending = emitted /\ sending > 0 /\ channel \in [Viewers -> Seq(Nat)]
    BY <1>1 DEF FeedParts, EventsTypeOK, EventsOrdered
  <1>3. Watched(v)
    BY <1>2, OrderedByBrowser
  <1>4. v \notin closedChan => channel[v] \in Seq(Nat) /\ Rising(channel[v]) /\ UpTo(channel[v], sending - 1)
                               /\ UpTo(shown[v], sending - 1)
    BY <1>1, <1>2, <1>3 DEF Watched, BrowserOK
  <1>5. /\ channel' \in [Viewers -> Seq(Nat)]
        /\ \A w \in Viewers \ {v} : channel'[w] = channel[w]
        /\ \/ channel'[v] = channel[v]
           \/ v \notin closedChan /\ channel'[v] = Append(channel[v], sending)
    <2>1. CASE channel' = channel
      BY <1>2, <2>1
    <2>2. CASE /\ v \notin closedChan
               /\ channel' = [channel EXCEPT ![v] = Append(channel[v], sending)]
      <3>1. Append(channel[v], sending) \in Seq(Nat)
        BY <1>2, <1>4, <2>2
      <3> QED BY <1>2, <2>2, <3>1
    <2> QED BY <1>1, <2>1, <2>2
  <1>6. EventsTypeOK'
    <2>1. panicked' \in BOOLEAN
      BY <1>1, <1>2 DEF EventsTypeOK
    <2>2. sending' \in 0..emitted' /\ toSend' \subseteq Viewers
      BY <1>1, <1>2 DEF EventsTypeOK
    <2> QED BY <1>1, <1>2, <1>5, <2>1, <2>2 DEF EventsTypeOK, ringVars, viewVars
  <1>7. RingHolds'
    BY <1>1, <1>2 DEF RingHolds, ringVars
  <1>8. EventsOrdered'
    <2>1. Rising(recorded)' /\ (toSend # {} => sending = emitted /\ sending > 0)'
      BY <1>1, <1>2 DEF EventsOrdered, ringVars
    <2>2. ASSUME NEW w \in Viewers, w # v
          PROVE  Watched(w)'
      <3>1. Watched(w)
        BY <1>2, OrderedByBrowser
      <3>2. w \in toSend' => w \in toSend /\ sending' = sending
        BY <1>1
      <3> QED BY <1>1, <1>5, <2>2, <3>1, <3>2 DEF Watched, BrowserOK, viewVars
    <2>3. Watched(v)'
      <3>1. CASE channel'[v] = channel[v]
        BY <1>1, <1>3, <3>1 DEF Watched, BrowserOK, viewVars
      <3>2. CASE v \notin closedChan /\ channel'[v] = Append(channel[v], sending)
        <4>1. /\ Rising(channel'[v]) /\ UpTo(channel'[v], emitted)
              /\ \A k \in 1..Len(channel'[v]) :
                   channel'[v][k] = sending \/ (k \in 1..Len(channel[v]) /\ channel'[v][k] = channel[v][k])
          BY <1>2, <1>4, <3>2, NewestLast
        <4>2. shown[v] \in Seq(Nat) /\ \A i \in 1..Len(shown[v]) : shown[v][i] \in Nat /\ shown[v][i] <= sending - 1
          BY <1>2, <1>4, <3>2 DEF EventsTypeOK, UpTo
        <4>3. ASSUME viewer[v] = "live", NEW i \in 1..Len(shown[v]), NEW j \in 1..Len(channel'[v])
              PROVE  shown[v][i] < channel'[v][j]
          <5>1. shown[v][i] \in Nat /\ shown[v][i] <= sending - 1
            BY <4>2
          <5>2. CASE channel'[v][j] = sending
            BY <5>1, <5>2, <1>2
          <5>3. CASE j \in 1..Len(channel[v]) /\ channel'[v][j] = channel[v][j]
            BY <1>3, <4>3, <5>3 DEF Watched, BrowserOK
          <5> QED BY <4>1, <5>2, <5>3
        <4> QED BY <1>1, <1>3, <3>2, <4>1, <4>3 DEF Watched, BrowserOK, viewVars
      <3> QED BY <1>5, <3>1, <3>2
    <2>4. (\A w \in Viewers : Watched(w))'
      BY <2>2, <2>3
    <2> QED BY <2>1, <2>4 DEF EventsOrdered, Watched, BrowserOK
  <1> QED BY <1>6, <1>7, <1>8 DEF FeedParts

LEMMA SendsPastInv ==
  ASSUME FeedParts, NEW v \in Viewers, SendsPast(v)
  PROVE  FeedParts'
  <1> DEFINE past == OldestFirst(Recent(eventBufferSize))
  <1>1. past \in Seq(Nat) /\ Rising(past) /\ UpTo(past, emitted)
    BY PastIsOrdered DEF FeedParts
  <1> HIDE DEF past
  <1>2. /\ EventsTypeOK /\ EventsOrdered /\ viewer[v] = "away" /\ feedVisits' \in Nat
        /\ viewer' = [viewer EXCEPT ![v] = "past"] /\ shown' = [shown EXCEPT ![v] = past]
        /\ UNCHANGED <<emitted, following, ringVars, sending, toSend, channel, subscribed,
                       closedChan, panicked>>
    BY DEF FeedParts, EventsTypeOK, SendsPast, past
  <1>3. /\ viewer'[v] = "past" /\ shown'[v] = past
        /\ shown' \in [Viewers -> Seq(Nat)] /\ viewer' \in [Viewers -> {"away", "past", "live"}]
        /\ \A w \in Viewers \ {v} : viewer'[w] = viewer[w] /\ shown'[w] = shown[w]
    BY <1>1, <1>2 DEF EventsTypeOK
  <1>4. Watched(v)
    BY <1>2, OrderedByBrowser
  <1>5. Watched(v)'
    BY <1>1, <1>2, <1>3, <1>4 DEF Watched, BrowserOK
  <1> QED BY <1>2, <1>3, <1>5, OneBrowser DEF EventsTypeOK

LEMMA SubscribesInv ==
  ASSUME FeedParts, NEW v \in Viewers, v \notin toSend, Subscribes(v)
  PROVE  FeedParts'
  <1>1. /\ EventsTypeOK /\ EventsOrdered /\ viewer[v] = "past"
        /\ viewer' = [viewer EXCEPT ![v] = "live"] /\ channel' = [channel EXCEPT ![v] = <<>>]
        /\ subscribed' = subscribed \cup {v} /\ closedChan' = closedChan \ {v}
        /\ UNCHANGED <<emitted, following, ringVars, sending, toSend, shown, feedVisits, panicked>>
    BY DEF FeedParts, Subscribes
  <1>2. /\ viewer'[v] = "live" /\ channel'[v] = <<>>
        /\ channel' \in [Viewers -> Seq(Nat)] /\ viewer' \in [Viewers -> {"away", "past", "live"}]
        /\ \A w \in Viewers \ {v} : viewer'[w] = viewer[w] /\ channel'[w] = channel[w]
        /\ subscribed' \subseteq Viewers /\ closedChan' \subseteq Viewers
    BY <1>1 DEF EventsTypeOK
  <1>3. Watched(v)
    BY <1>1, OrderedByBrowser
  <1>4. Rising(<<>>) /\ UpTo(<<>>, emitted) /\ 1..Len(<<>>) = {}
    BY DEF Rising, UpTo
  <1>5. Watched(v)'
    BY <1>1, <1>2, <1>3, <1>4 DEF Watched, BrowserOK
  <1> QED BY <1>1, <1>2, <1>5, OneBrowser DEF EventsTypeOK

LEMMA ForwardsInv ==
  ASSUME FeedParts, NEW v \in Viewers, Forwards(v)
  PROVE  FeedParts'
  <1> DEFINE s == Append(shown[v], Head(channel[v]))
             c == Tail(channel[v])
  <1>1. /\ EventsTypeOK /\ EventsOrdered /\ viewer[v] = "live" /\ channel[v] # <<>>
        /\ shown' = [shown EXCEPT ![v] = s] /\ channel' = [channel EXCEPT ![v] = c]
        /\ UNCHANGED <<emitted, following, ringVars, sending, toSend, viewVars, panicked>>
        /\ shown[v] \in Seq(Nat) /\ channel[v] \in Seq(Nat) /\ emitted \in Nat /\ sending \in 0..emitted
    BY DEF FeedParts, Forwards, EventsTypeOK
  <1>2. Watched(v)
    BY <1>1, OrderedByBrowser
  <1>3. /\ s \in Seq(Nat) /\ c \in Seq(Nat) /\ Rising(s) /\ Rising(c) /\ UpTo(s, emitted) /\ UpTo(c, emitted)
        /\ \A i \in 1..Len(s), j \in 1..Len(c) : s[i] < c[j]
    <2>1. /\ Rising(shown[v]) /\ Rising(channel[v]) /\ UpTo(shown[v], emitted) /\ UpTo(channel[v], emitted)
          /\ \A i \in 1..Len(shown[v]), j \in 1..Len(channel[v]) : shown[v][i] < channel[v][j]
      BY <1>1, <1>2 DEF Watched, BrowserOK
    <2>2. emitted \in Int
      BY <1>1
    <2> QED BY <1>1, <2>1, <2>2, HeadMoves
  <1>4. v \in toSend /\ v \notin closedChan => UpTo(s, sending - 1) /\ UpTo(c, sending - 1)
    <2>1. /\ Rising(shown[v]) /\ Rising(channel[v])
          /\ \A i \in 1..Len(shown[v]), j \in 1..Len(channel[v]) : shown[v][i] < channel[v][j]
      BY <1>1, <1>2 DEF Watched, BrowserOK
    <2>2. SUFFICES ASSUME v \in toSend, v \notin closedChan
          PROVE  UpTo(s, sending - 1) /\ UpTo(c, sending - 1)
      OBVIOUS
    <2>3. UpTo(shown[v], sending - 1) /\ UpTo(channel[v], sending - 1) /\ sending - 1 \in Int
      BY <1>1, <1>2, <2>2 DEF Watched, BrowserOK
    <2> QED BY <1>1, <2>1, <2>3, HeadMoves
  <1> HIDE DEF s, c
  <1>5. /\ shown'[v] = s /\ channel'[v] = c
        /\ shown' \in [Viewers -> Seq(Nat)] /\ channel' \in [Viewers -> Seq(Nat)]
        /\ \A w \in Viewers \ {v} : shown'[w] = shown[w] /\ channel'[w] = channel[w]
    BY <1>1, <1>3 DEF EventsTypeOK
  <1>6. Watched(v)'
    BY <1>1, <1>2, <1>3, <1>4, <1>5 DEF Watched, BrowserOK, viewVars
  <1> QED BY <1>1, <1>5, <1>6, OneBrowser DEF EventsTypeOK, viewVars

LEMMA UnsubscribesInv ==
  ASSUME FeedParts, NEW v \in Viewers, Unsubscribes(v)
  PROVE  FeedParts'
  <1>1. /\ EventsTypeOK /\ EventsOrdered
        /\ viewer' = [viewer EXCEPT ![v] = "away"]
        /\ subscribed' = subscribed \ {v} /\ closedChan' = closedChan \cup {v}
        /\ UNCHANGED <<emitted, following, ringVars, sending, toSend, channel, shown, feedVisits, panicked>>
    BY DEF FeedParts, Unsubscribes
  <1>2. /\ viewer'[v] = "away" /\ viewer' \in [Viewers -> {"away", "past", "live"}]
        /\ \A w \in Viewers \ {v} : viewer'[w] = viewer[w]
        /\ subscribed' \subseteq Viewers /\ closedChan' \subseteq Viewers
    BY <1>1 DEF EventsTypeOK
  <1>3. Watched(v)
    BY <1>1, OrderedByBrowser
  <1>4. Watched(v)'
    BY <1>1, <1>2, <1>3 DEF Watched, BrowserOK
  <1> QED BY <1>1, <1>2, <1>4, OneBrowser DEF EventsTypeOK

\* The feed keeps the newest events and shows each browser events in the order
\* they happened and none twice, for every size of the ring and of the channels
\* and any number of browsers (record, Recent, Subscribe, handleDockerEventStream).
THEOREM FeedInvariance == EventsSpec => []FeedInv
  <1>1. EventsInit => FeedParts
    BY FeedInit
  <1>2. FeedParts /\ [EventsNext]_eventVars => FeedParts'
    <2> SUFFICES ASSUME FeedParts, [EventsNext]_eventVars
        PROVE  FeedParts'
      OBVIOUS
    <2>1. CASE Connects \/ Disconnects \/ EventArrives
      BY <2>1, RecorderInv
    <2>2. CASE HandsOut
      BY <2>2, HandsOutInv
    <2>3. ASSUME NEW v \in Viewers,
                 SendsPast(v) \/ Forwards(v) \/ Unsubscribes(v) \/ (v \notin toSend /\ Subscribes(v))
          PROVE  FeedParts'
      BY <2>3, SendsPastInv, ForwardsInv, UnsubscribesInv, SubscribesInv
    <2>4. CASE UNCHANGED eventVars
      BY <2>4 DEF FeedParts, EventsTypeOK, RingHolds, EventsOrdered, Rising, UpTo, eventVars
    <2> QED BY <2>1, <2>2, <2>3, <2>4 DEF EventsNext
  <1>3. FeedParts => FeedInv
    <2>1. FeedParts => RecentIsTail
      BY RecentRead DEF FeedParts
    <2>2. FeedParts => ShownInOrder
      BY DEF FeedParts, EventsOrdered, ShownInOrder, Rising
    <2> QED BY <2>1, <2>2 DEF FeedParts, FeedInv
  <1> QED BY <1>1, <1>2, <1>3, PTL DEF EventsSpec

---------------------------------------------------------------------------
(* The stacks.                                                             *)

\* What holds of one request: c is its record, alone says whether it is the only one.
RequestOK(alone, c, file, bak, services) ==
  alone =>
    /\ c.kind = "write" /\ c.at = "bak" => file = c.before
    /\ c.kind = "write" /\ c.at = "replace" => bak = c.before
    /\ c.kind = "update" /\ c.at = "step" /\ c.steps = <<"pull", "up">> => services = c.stack
    /\ c.kind = "write" /\ c.result = "ok" => bak = c.before
    /\ c.kind = "update" /\ c.failedAt = "pull" => services = c.stack
    /\ c.kind \in {"up", "update", "recreate"} /\ c.result = "ok" =>
         \A s \in AllServices : services[s].on # "gone" => s \in Declares(c.before)

Holds(q) == RequestOK(Alone(q), stackCall[q], fileText, bakText, service)

LEMMA StacksByRequest ==
  StacksInv <=> StacksTypeOK /\ CallsPlace /\ \A q \in StackRequests : Holds(q)
  BY DEF StacksInv, AloneSoFar, BakUndoes, FailedPullLeavesStack, NoOrphansAfterUp, Holds, RequestOK

\* A request that has begun takes the others' solitude away, so a step of it is
\* judged by its own record.
LEMMA OneRequest ==
  ASSUME StacksInv, NEW q \in StackRequests, NEW c \in StackCall,
         fileText' \in Texts \cup {"none"}, bakText' \in Texts \cup {"none"},
         service' \in [AllServices -> ContainerRow],
         pulled' \in Nat, registry' \in Nat, stackCalls' \in Nat,
         stackCall' = [stackCall EXCEPT ![q] = c],
         c.kind # "none", CallPlace(c),
         RequestOK(Alone(q), c, fileText', bakText', service')
  PROVE  StacksInv'
  <1>1. stackCall \in [StackRequests -> StackCall] /\ CallsPlace
    BY DEF StacksInv, StacksTypeOK
  <1>2. /\ stackCall' \in [StackRequests -> StackCall] /\ stackCall'[q] = c
        /\ \A p \in StackRequests \ {q} : stackCall'[p] = stackCall[p]
    BY <1>1
  <1>3. StacksTypeOK'
    BY <1>2 DEF StacksTypeOK
  <1>4. CallsPlace'
    <2>1. ASSUME NEW p \in StackRequests
          PROVE  CallPlace(stackCall'[p])
      BY <1>1, <1>2 DEF CallsPlace
    <2> QED BY <2>1 DEF CallsPlace, CallPlace
  <1>5. ASSUME NEW p \in StackRequests
        PROVE  Holds(p)'
    <2>1. CASE p = q
      <3>1. Alone(q)' => Alone(q)
        BY <1>2 DEF Alone
      <3> QED BY <2>1, <3>1, <1>2 DEF Holds, RequestOK
    <2>2. CASE p # q
      <3>1. ~Alone(p)'
        BY <2>2, <1>2 DEF Alone
      <3> QED BY <3>1 DEF Holds, RequestOK
    <2> QED BY <2>1, <2>2
  <1>6. (\A p \in StackRequests : Holds(p))'
    BY <1>5
  <1> QED BY <1>3, <1>4, <1>6, StacksByRequest
          DEF StacksInv, AloneSoFar, BakUndoes, FailedPullLeavesStack, NoOrphansAfterUp, Holds, RequestOK

\* The records a request starts from and leaves behind.
LEMMA NoStackCallType ==
  /\ NoStackCall \in StackCall /\ CallPlace(NoStackCall)
  /\ NoStackCall.kind = "none" /\ NoStackCall.at = "idle" /\ NoStackCall.result = "none"
  /\ NoStackCall.failedAt = "" /\ NoStackCall.before = "none" /\ NoStackCall.steps = <<>>
  <1>1. NoService \in ContainerRow
    BY DEF NoService, ContainerRow
  <1>2. [s \in AllServices |-> NoService] \in [AllServices -> ContainerRow]
    BY <1>1
  <1>3. <<>> \in Seq(Commands)
    OBVIOUS
  <1>4. NoStackCall \in StackCall
    BY <1>2, <1>3 DEF NoStackCall, StackCall
  <1> QED BY <1>4 DEF NoStackCall, CallPlace

\* A command leaves every service a container row or none.
LEMMA CommandDoneType ==
  ASSUME StacksTypeOK, NEW cmd \in Commands, NEW c
  PROVE  /\ CommandDone(cmd, c) \in [AllServices -> ContainerRow]
         /\ cmd \in {"pull", "build"} => CommandDone(cmd, c) = service
         /\ cmd \in {"up", "recreate"} =>
              \A s \in AllServices :
                CommandDone(cmd, c)[s].on # "gone" => s \in Declares(fileText)
  <1>1. service \in [AllServices -> ContainerRow] /\ pulled \in Nat
    BY DEF StacksTypeOK
  <1>2. NoService \in ContainerRow /\ NoService.on = "gone"
    BY DEF NoService, ContainerRow
  <1>3. ASSUME NEW s \in AllServices
        PROVE  /\ [service[s] EXCEPT !.on = "exited"] \in ContainerRow
               /\ [service[s] EXCEPT !.on = "running"] \in ContainerRow
               /\ Upped(s, c) \in ContainerRow
    <2>1. service[s] \in ContainerRow
      BY <1>1
    <2>2. [on |-> "running", image |-> pulled] \in ContainerRow
      BY <1>1 DEF ContainerRow
    <2>3. Upped(s, c) \in ContainerRow
      BY <2>1, <2>2, <1>2 DEF Upped
    <2> QED BY <2>1, <2>3 DEF ContainerRow
  <1>4. CommandDone(cmd, c) \in [AllServices -> ContainerRow]
    BY <1>1, <1>2, <1>3 DEF CommandDone
  <1>5. ASSUME cmd \in {"pull", "build"}
        PROVE  CommandDone(cmd, c) = service
    BY <1>1, <1>5 DEF CommandDone
  <1>6. ASSUME cmd \in {"up", "recreate"}, NEW s \in AllServices,
               CommandDone(cmd, c)[s].on # "gone"
        PROVE  s \in Declares(fileText)
    <2>1. CommandDone(cmd, c)[s] = Upped(s, c)
      BY <1>6 DEF CommandDone
    <2> QED BY <1>2, <1>6, <2>1 DEF Upped, Named
  <1> QED BY <1>4, <1>5, <1>6

LEMMA ShortSequences ==
  ASSUME NEW S, NEW a \in S, NEW b \in S
  PROVE  <<a>> \in Seq(S) /\ <<a, b>> \in Seq(S)
  <1>1. <<a>> \in Seq(S)
    <2>1. Append(<<>>, a) \in Seq(S) /\ Append(<<>>, a) = <<a>>
      OBVIOUS
    <2> QED BY <2>1
  <1>2. <<a, b>> \in Seq(S)
    <2>1. <<a, b>> = [i \in 1..2 |-> IF i = 1 THEN a ELSE b]
      OBVIOUS
    <2>2. [i \in 1..2 |-> IF i = 1 THEN a ELSE b] \in [1..2 -> S]
      OBVIOUS
    <2>3. 2 \in Nat
      OBVIOUS
    <2>4. [i \in 1..2 |-> IF i = 1 THEN a ELSE b] \in Seq(S)
      BY <2>2, <2>3, FirstNumbers
    <2> QED BY <2>1, <2>4
  <1> QED BY <1>1, <1>2

LEMMA StackTypes ==
  ASSUME StacksInv
  PROVE  /\ fileText \in Texts \cup {"none"} /\ bakText \in Texts \cup {"none"}
         /\ service \in [AllServices -> ContainerRow] /\ pulled \in Nat /\ registry \in Nat
         /\ stackCalls \in Nat /\ stackCalls + 1 \in Nat
         /\ stackCall \in [StackRequests -> StackCall]
  BY DEF StacksInv, StacksTypeOK

LEMMA CreateInv ==
  ASSUME StacksInv, NEW q \in StackRequests, handleStackCreate(q)
  PROVE  StacksInv'
  <1>1. PICK t \in Texts :
          /\ fileText = "none"
          /\ BeginStack(q, [NoStackCall EXCEPT !.kind = "new", !.text = t, !.result = "ok"])
          /\ fileText' = t
          /\ UNCHANGED <<bakText, service, pulled, registry>>
    BY DEF handleStackCreate
  <1> DEFINE c == [NoStackCall EXCEPT !.kind = "new", !.text = t, !.result = "ok"]
  <1>2. /\ c \in StackCall /\ c.kind = "new" /\ c.at = "idle" /\ CallPlace(c)
    BY NoStackCallType DEF StackCall, CallPlace
  <1>3. stackCall' = [stackCall EXCEPT ![q] = c] /\ stackCalls' = stackCalls + 1
    BY <1>1 DEF BeginStack
  <1> HIDE DEF c
  <1>4. RequestOK(Alone(q), c, fileText', bakText', service')
    BY <1>1, <1>2 DEF RequestOK
  <1> QED BY <1>1, <1>2, <1>3, <1>4, OneRequest, StackTypes

LEMMA ConfigWriteInv ==
  ASSUME StacksInv, NEW q \in StackRequests, handleStackConfigWrite(q)
  PROVE  StacksInv'
  <1>1. PICK t \in Texts :
          /\ BeginStack(q, [NoStackCall EXCEPT !.at = "bak", !.kind = "write", !.text = t,
                              !.before = fileText])
          /\ UNCHANGED <<fileText, bakText, service, pulled, registry>>
    BY DEF handleStackConfigWrite
  <1> DEFINE c == [NoStackCall EXCEPT !.at = "bak", !.kind = "write", !.text = t, !.before = fileText]
  <1>2. /\ c \in StackCall /\ c.kind = "write" /\ c.at = "bak" /\ c.before = fileText
        /\ c.result = "none" /\ CallPlace(c)
    BY NoStackCallType, StackTypes DEF StackCall, CallPlace
  <1>3. stackCall' = [stackCall EXCEPT ![q] = c] /\ stackCalls' = stackCalls + 1
    BY <1>1 DEF BeginStack
  <1> HIDE DEF c
  <1>4. RequestOK(Alone(q), c, fileText', bakText', service')
    BY <1>1, <1>2 DEF RequestOK
  <1> QED BY <1>1, <1>2, <1>3, <1>4, OneRequest, StackTypes

LEMMA WriteBakInv ==
  ASSUME StacksInv, NEW q \in StackRequests, WriteBak(q)
  PROVE  StacksInv'
  <1> DEFINE b == stackCall[q]
             c == [stackCall[q] EXCEPT !.at = "replace"]
  <1>1. /\ b \in StackCall /\ CallPlace(b) /\ b.at = "bak" /\ Holds(q)
        /\ bakText' = fileText /\ stackCall' = [stackCall EXCEPT ![q] = c]
        /\ UNCHANGED <<fileText, service, pulled, registry, stackCalls>>
    BY StacksByRequest DEF StacksInv, StacksTypeOK, CallsPlace, WriteBak
  <1>2. /\ c \in StackCall /\ c.kind = "write" /\ c.at = "replace" /\ c.before = b.before
        /\ c.result = "none" /\ b.kind = "write" /\ CallPlace(c)
    BY <1>1 DEF StackCall, CallPlace
  <1> HIDE DEF c
  <1>3. RequestOK(Alone(q), c, fileText', bakText', service')
    BY <1>1, <1>2 DEF RequestOK, Holds
  <1> QED BY <1>1, <1>2, <1>3, OneRequest, StackTypes

LEMMA ReplaceFileInv ==
  ASSUME StacksInv, NEW q \in StackRequests, ReplaceFile(q)
  PROVE  StacksInv'
  <1> DEFINE b == stackCall[q]
             c == [stackCall[q] EXCEPT !.at = "idle", !.result = "ok"]
  <1>1. /\ b \in StackCall /\ CallPlace(b) /\ b.at = "replace" /\ Holds(q) /\ fileText' = b.text
        /\ stackCall' = [stackCall EXCEPT ![q] = c]
        /\ UNCHANGED <<bakText, service, pulled, registry, stackCalls>>
    BY StacksByRequest DEF StacksInv, StacksTypeOK, CallsPlace, ReplaceFile, StackEnds
  <1>2. /\ c \in StackCall /\ c.kind = "write" /\ c.at = "idle" /\ c.before = b.before
        /\ b.kind = "write" /\ b.text \in Texts \cup {"none"} /\ CallPlace(c)
    BY <1>1 DEF StackCall, CallPlace
  <1> HIDE DEF c
  <1>3. RequestOK(Alone(q), c, fileText', bakText', service')
    BY <1>1, <1>2 DEF RequestOK, Holds
  <1> QED BY <1>1, <1>2, <1>3, OneRequest, StackTypes

\* A request that runs commands starts with the stack as it is.
LEMMA CommandsBegin ==
  ASSUME StacksInv, NEW q \in StackRequests, NEW kind \in Commands \cup {"update"},
         NEW only \in {""} \cup AllServices,
         BeginStack(q, [NoStackCall EXCEPT !.at = "step", !.kind = kind,
                          !.steps = composeSteps(kind), !.stack = service, !.only = only]),
         UNCHANGED <<fileText, bakText, service, pulled, registry>>
  PROVE  StacksInv'
  <1> DEFINE c == [NoStackCall EXCEPT !.at = "step", !.kind = kind,
                     !.steps = composeSteps(kind), !.stack = service, !.only = only]
  <1>1. /\ composeSteps(kind) \in Seq(Commands)
        /\ kind = "update" => composeSteps(kind) = <<"pull", "up">>
        /\ kind # "update" => composeSteps(kind) = <<kind>>
    <2>1. CASE kind = "update"
      <3>1. composeSteps(kind) = <<"pull", "up">>
        BY <2>1 DEF composeSteps
      <3>2. "pull" \in Commands /\ "up" \in Commands
        BY DEF Commands
      <3>3. <<"pull", "up">> \in Seq(Commands)
        BY <3>2, ShortSequences
      <3> QED BY <2>1, <3>1, <3>3
    <2>2. CASE kind # "update"
      <3>1. composeSteps(kind) = <<kind>> /\ kind \in Commands
        BY <2>2 DEF composeSteps
      <3>2. <<kind>> \in Seq(Commands)
        BY <3>1, ShortSequences
      <3> QED BY <2>2, <3>1, <3>2
    <2> QED BY <2>1, <2>2
  <1>2. kind \notin {"none", "new", "write"}
    BY DEF Commands
  <1>3. /\ c \in StackCall /\ c.kind = kind /\ c.at = "step" /\ c.stack = service
        /\ c.result = "none" /\ c.failedAt = "" /\ c.steps = composeSteps(kind)
    BY <1>1, NoStackCallType, StackTypes DEF StackCall
  <1>4. stackCall' = [stackCall EXCEPT ![q] = c] /\ stackCalls' = stackCalls + 1
    BY DEF BeginStack
  <1> HIDE DEF c
  <1>5. CallPlace(c)
    BY <1>1, <1>2, <1>3 DEF CallPlace
  <1>6. RequestOK(Alone(q), c, fileText', bakText', service')
    BY <1>2, <1>3 DEF RequestOK
  <1>7. c.kind # "none" /\ pulled \in Nat /\ registry \in Nat /\ stackCalls' \in Nat
    BY <1>2, <1>3, <1>4, StackTypes
  <1> QED BY <1>3, <1>4, <1>5, <1>6, <1>7, OneRequest, StackTypes

LEMMA StackActionInv ==
  ASSUME StacksInv, NEW q \in StackRequests, stackAction(q)
  PROVE  StacksInv'
  <1>1. PICK action \in {"up", "down declared", "restart", "pull", "stop", "start"},
             only \in {""} \cup AllServices :
          /\ BeginStack(q, [NoStackCall EXCEPT !.at = "step", !.kind = action, !.steps = <<action>>,
                              !.stack = service, !.only = IF action = "down declared" THEN "" ELSE only])
          /\ UNCHANGED <<fileText, bakText, service, pulled, registry>>
    BY DEF stackAction
  <1>2. action \in Commands /\ composeSteps(action) = <<action>>
    BY DEF Commands, composeSteps
  <1>3. (IF action = "down declared" THEN "" ELSE only) \in {""} \cup AllServices
    OBVIOUS
  <1> QED BY <1>1, <1>2, <1>3, CommandsBegin

LEMMA StackRunInv ==
  ASSUME StacksInv, NEW q \in StackRequests, handleStackRun(q)
  PROVE  StacksInv'
  <1>1. PICK action \in {"up", "down", "restart", "pull", "stop", "start", "build", "update", "recreate"},
             only \in {""} \cup AllServices :
          /\ BeginStack(q, [NoStackCall EXCEPT !.at = "step", !.kind = action,
                              !.steps = composeSteps(action), !.stack = service,
                              !.only = IF action = "down" THEN "" ELSE only])
          /\ UNCHANGED <<fileText, bakText, service, pulled, registry>>
    BY DEF handleStackRun
  <1>2. action \in Commands \cup {"update"}
    BY DEF Commands
  <1>3. (IF action = "down" THEN "" ELSE only) \in {""} \cup AllServices
    OBVIOUS
  <1> QED BY <1>1, <1>2, <1>3, CommandsBegin

\* The command a running request is at.
AtCommand(c) ==
  /\ c.kind \notin {"none", "write"} /\ c.result = "none" /\ c.failedAt = ""
  /\ Head(c.steps) \in Commands
  /\ \/ c.kind # "update" /\ Head(c.steps) = c.kind /\ Len(c.steps) = 1
     \/ /\ c.kind = "update" /\ c.steps = <<"pull", "up">>
        /\ Head(c.steps) = "pull" /\ Len(c.steps) # 1 /\ Tail(c.steps) = <<"up">>
     \/ c.kind = "update" /\ Head(c.steps) = "up" /\ Len(c.steps) = 1

LEMMA StepCases ==
  ASSUME NEW c \in StackCall, CallPlace(c), c.at = "step"
  PROVE  AtCommand(c)
  <1>1. c.kind \notin {"none", "new", "write"} /\ c.result = "none" /\ c.failedAt = ""
    BY DEF CallPlace
  <1>2. CASE c.kind # "update" /\ c.steps = <<c.kind>>
    <2>1. c.kind \in Commands
      BY <1>1, <1>2 DEF StackCall
    <2>2. Head(c.steps) = c.kind /\ Len(c.steps) = 1
      BY <1>2
    <2> QED BY <1>1, <1>2, <2>1, <2>2 DEF AtCommand
  <1>3. CASE c.kind = "update" /\ c.steps = <<"pull", "up">>
    <2>1. Head(c.steps) = "pull" /\ Len(c.steps) = 2 /\ Tail(c.steps) = <<"up">>
      BY <1>3
    <2>2. Head(c.steps) \in Commands
      BY <2>1 DEF Commands
    <2>3. Len(c.steps) # 1
      BY <2>1
    <2> QED BY <1>1, <1>3, <2>1, <2>2, <2>3, Zenon DEF AtCommand
  <1>4. CASE c.kind = "update" /\ c.steps = <<"up">>
    <2>1. Head(c.steps) = "up" /\ Len(c.steps) = 1
      BY <1>4
    <2>2. "up" \in Commands
      BY DEF Commands
    <2> QED BY <1>1, <1>4, <2>1, <2>2 DEF AtCommand
  <1> QED BY <1>2, <1>3, <1>4 DEF CallPlace

LEMMA StepRunsInv ==
  ASSUME StacksInv, NEW q \in StackRequests, StepRuns(q)
  PROVE  StacksInv'
  <1> DEFINE b == stackCall[q]
  <1>1. /\ b \in StackCall /\ CallPlace(b) /\ b.at = "step" /\ Holds(q)
        /\ service' = CommandDone(Head(b.steps), b)
        /\ pulled' = IF Head(b.steps) \in {"pull", "build"} THEN registry ELSE pulled
        /\ IF Len(b.steps) = 1
           THEN stackCall' = [stackCall EXCEPT ![q].at = "idle", ![q].result = "ok", ![q].before = fileText]
           ELSE stackCall' = [stackCall EXCEPT ![q].steps = Tail(@)]
        /\ UNCHANGED <<fileText, bakText, registry, stackCalls>>
    BY StacksByRequest, StackTypes DEF CallsPlace, StepRuns
  <1>2. AtCommand(b)
    BY <1>1, StepCases
  <1>3. /\ service' \in [AllServices -> ContainerRow]
        /\ Head(b.steps) \in {"up", "recreate"} =>
             \A s \in AllServices : service'[s].on # "gone" => s \in Declares(fileText)
        /\ Head(b.steps) = "pull" => service' = service
    BY <1>1, <1>2, CommandDoneType DEF AtCommand, StacksInv
  <1>4. pulled' \in Nat
    BY <1>1, StackTypes
  <1>5. CASE Len(b.steps) = 1
    <2> DEFINE c == [b EXCEPT !.at = "idle", !.result = "ok", !.before = fileText]
    <2>1. stackCall' = [stackCall EXCEPT ![q] = c]
      BY <1>1, <1>5
    <2>2. /\ c \in StackCall /\ c.kind = b.kind /\ c.at = "idle" /\ c.result = "ok"
          /\ c.before = fileText /\ c.failedAt = ""
      BY <1>1, <1>2, StackTypes DEF StackCall, AtCommand
    <2> HIDE DEF c
    <2>3. CallPlace(c) /\ c.kind # "none"
      BY <1>2, <2>2 DEF CallPlace, AtCommand
    <2>4. b.kind \in {"up", "update", "recreate"} => Head(b.steps) \in {"up", "recreate"}
      BY <1>2, <1>5 DEF AtCommand
    <2>5. RequestOK(Alone(q), c, fileText', bakText', service')
      BY <1>1, <1>2, <1>3, <2>2, <2>4 DEF RequestOK, AtCommand
    <2> QED BY <1>1, <1>3, <1>4, <2>1, <2>2, <2>3, <2>5, OneRequest, StackTypes
  <1>6. CASE Len(b.steps) # 1
    <2> DEFINE c == [b EXCEPT !.steps = Tail(b.steps)]
    <2>1. stackCall' = [stackCall EXCEPT ![q] = c]
      BY <1>1, <1>6
    <2>2. b.kind = "update" /\ Tail(b.steps) = <<"up">> /\ "up" \in Commands
      BY <1>2, <1>6 DEF AtCommand, Commands
    <2>3. <<"up">> \in Seq(Commands) /\ <<"up">> # <<"pull", "up">>
      BY <2>2, ShortSequences
    <2>4. /\ c \in StackCall /\ c.kind = "update" /\ c.at = "step" /\ c.result = "none"
          /\ c.steps = <<"up">> /\ c.failedAt = ""
      BY <1>1, <1>2, <2>2, <2>3 DEF StackCall, AtCommand
    <2> HIDE DEF c
    <2>5. CallPlace(c)
      BY <2>4 DEF CallPlace
    <2>6. RequestOK(Alone(q), c, fileText', bakText', service')
      BY <2>3, <2>4 DEF RequestOK
    <2>7. c.kind # "none"
      BY <2>4
    <2> QED BY <1>1, <1>3, <1>4, <2>1, <2>4, <2>5, <2>6, <2>7, OneRequest, StackTypes
  <1> QED BY <1>5, <1>6

\* A step that fails may leave any of its containers changed; a pull changes none.
LEMMA StepFailsInv ==
  ASSUME StacksInv, NEW q \in StackRequests, StepFails(q)
  PROVE  StacksInv'
  <1> DEFINE b == stackCall[q]
             c == [b EXCEPT !.at = "idle", !.result = "failed", !.failedAt = Head(b.steps)]
  <1>1. /\ b \in StackCall /\ CallPlace(b) /\ b.at = "step" /\ Holds(q)
        /\ service' = service \/ service' \in SomeDone(Head(b.steps), b)
        /\ stackCall' = [stackCall EXCEPT ![q] = c]
        /\ pulled' \in {pulled, registry}
        /\ UNCHANGED <<fileText, bakText, registry, stackCalls>>
    BY StacksByRequest, StackTypes DEF CallsPlace, StepFails
  <1>2. AtCommand(b)
    BY <1>1, StepCases
  <1>3. CommandDone(Head(b.steps), b) \in [AllServices -> ContainerRow]
    BY <1>2, CommandDoneType DEF AtCommand, StacksInv
  <1>4. service' \in [AllServices -> ContainerRow]
    <2>1. CASE service' = service
      BY <2>1, StackTypes
    <2>2. CASE service' \in SomeDone(Head(b.steps), b)
      <3>1. PICK done \in SUBSET AllServices :
              service' = [s \in AllServices |-> IF s \in done THEN CommandDone(Head(b.steps), b)[s]
                                                ELSE service[s]]
        BY <2>2 DEF SomeDone
      <3> QED BY <1>3, <3>1, StackTypes
    <2> QED BY <1>1, <2>1, <2>2
  <1>5. Head(b.steps) = "pull" => service' = service
    <2> SUFFICES ASSUME Head(b.steps) = "pull", service' \in SomeDone(Head(b.steps), b)
        PROVE  service' = service
      BY <1>1
    <2>1. PICK done \in SUBSET AllServices :
            service' = [s \in AllServices |-> IF s \in done THEN CommandDone(Head(b.steps), b)[s]
                                              ELSE service[s]]
      BY DEF SomeDone
    <2>2. CommandDone(Head(b.steps), b) = service
      BY <1>2, CommandDoneType DEF AtCommand, StacksInv
    <2>3. service \in [AllServices -> ContainerRow]
      BY StackTypes
    <2> QED BY <2>1, <2>2, <2>3
  <1>6. /\ c \in StackCall /\ c.kind = b.kind /\ c.at = "idle" /\ c.result = "failed"
        /\ c.failedAt = Head(b.steps) /\ c.stack = b.stack
    BY <1>1, <1>2 DEF StackCall, AtCommand
  <1> HIDE DEF c
  <1>7. CallPlace(c) /\ c.kind # "none"
    BY <1>2, <1>6 DEF CallPlace, AtCommand
  <1>8. b.kind = "update" /\ Head(b.steps) = "pull" => b.steps = <<"pull", "up">>
    BY <1>2 DEF AtCommand
  <1>9. RequestOK(Alone(q), c, fileText', bakText', service')
    BY <1>1, <1>2, <1>5, <1>6, <1>8 DEF RequestOK, Holds, AtCommand
  <1>10. pulled' \in Nat
    BY <1>1, StackTypes
  <1> QED BY <1>1, <1>4, <1>6, <1>7, <1>9, <1>10, OneRequest, StackTypes

\* A save by the only editor can be undone, an update whose pull failed leaves the
\* stack as it was, and no container outlives its service in a stack brought up,
\* for every set of texts, services and requests (WriteComposeFile, composeSteps,
\* RunComposeStream).
THEOREM StacksInvariance == StacksSpec => []StacksInv
  <1>1. StacksInit => StacksInv
    <2> SUFFICES ASSUME StacksInit
        PROVE  StacksInv
      OBVIOUS
    <2>1. stackCall \in [StackRequests -> StackCall] /\ \A q \in StackRequests : stackCall[q] = NoStackCall
      BY NoStackCallType DEF StacksInit
    <2>2. service \in [AllServices -> ContainerRow]
      <3>1. NoService \in ContainerRow /\ [on |-> "running", image |-> 0] \in ContainerRow
        BY DEF NoService, ContainerRow
      <3> QED BY <3>1 DEF StacksInit
    <2>3. StacksTypeOK
      BY <2>1, <2>2, StacksAssumption DEF StacksInit, StacksTypeOK
    <2>4. CallsPlace
      BY <2>1, NoStackCallType DEF CallsPlace
    <2>5. \A q \in StackRequests : Holds(q)
      BY <2>1, NoStackCallType DEF Holds, RequestOK
    <2> QED BY <2>3, <2>4, <2>5, StacksByRequest
  <1>2. StacksInv /\ [StacksNext]_stackVars => StacksInv'
    <2> SUFFICES ASSUME StacksInv, [StacksNext]_stackVars
        PROVE  StacksInv'
      OBVIOUS
    <2>1. ASSUME NEW q \in StackRequests,
                 \/ handleStackCreate(q) \/ handleStackConfigWrite(q) \/ WriteBak(q) \/ ReplaceFile(q)
                 \/ handleStackRun(q) \/ stackAction(q) \/ StepRuns(q) \/ StepFails(q)
          PROVE  StacksInv'
      BY <2>1, CreateInv, ConfigWriteInv, WriteBakInv, ReplaceFileInv, StackRunInv, StackActionInv,
         StepRunsInv, StepFailsInv
    <2>2. CASE ImagePublished
      <3>1. registry' \in Nat /\ UNCHANGED <<fileText, bakText, service, pulled, stackCall, stackCalls>>
        BY <2>2, StackTypes DEF ImagePublished
      <3>2. StacksTypeOK'
        BY <3>1, StackTypes DEF StacksTypeOK
      <3> QED BY <3>1, <3>2 DEF StacksInv, CallsPlace, CallPlace, AloneSoFar, Alone, BakUndoes,
                                FailedPullLeavesStack, NoOrphansAfterUp
    <2>3. CASE DashboardDies
      <3>1. /\ stackCall' \in [StackRequests -> StackCall]
            /\ \A q \in StackRequests : stackCall'[q] = NoStackCall
            /\ UNCHANGED <<fileText, bakText, service, pulled, registry, stackCalls>>
        BY <2>3, NoStackCallType DEF DashboardDies
      <3>2. StacksTypeOK'
        BY <3>1, StackTypes DEF StacksTypeOK
      <3>3. \A q \in StackRequests : CallPlace(stackCall'[q])
        BY <3>1, NoStackCallType
      <3> QED BY <3>1, <3>2, <3>3, NoStackCallType
              DEF StacksInv, CallsPlace, CallPlace, AloneSoFar, BakUndoes, FailedPullLeavesStack,
                  NoOrphansAfterUp
    <2>4. CASE UNCHANGED stackVars
      BY <2>4 DEF stackVars, StacksInv, StacksTypeOK, CallsPlace, CallPlace, AloneSoFar, Alone,
                  BakUndoes, FailedPullLeavesStack, NoOrphansAfterUp
    <2> QED BY <2>1, <2>2, <2>3, <2>4 DEF StacksNext
  <1> QED BY <1>1, <1>2, PTL DEF StacksSpec

---------------------------------------------------------------------------
(* Metrics.                                                                *)

\* The latest start of the host is one of its starts.
LEMMA BootedIsLast ==
  ASSUME MetricsTypeOK, CountersKept
  PROVE  Booted \in boots /\ Booted \in 0..clock
  <1>1. PICK b \in boots : \A c \in boots : c <= b
    BY DEF CountersKept
  <1>2. Booted \in boots
    BY <1>1 DEF Booted
  <1> QED BY <1>2 DEF MetricsTypeOK

\* A larger sum over the same time rounds to no less.
LEMMA RoundMono ==
  ASSUME NEW a \in Nat, NEW b \in Nat, a <= b, NEW d \in Nat \ {0}
  PROVE  round1(a, d) \in Nat /\ round1(a, d) <= round1(b, d)
  <1> DEFINE x == 20 * a + d
             y == 20 * b + d
             m == 2 * d
  <1>1. x \in Nat /\ y \in Nat /\ x <= y /\ m \in Nat /\ m > 0
    OBVIOUS
  <1>2. round1(a, d) = x \div m /\ round1(b, d) = y \div m
    BY DEF round1
  <1> HIDE DEF x, y, m
  <1>3. x \div m \in Nat /\ y \div m \in Nat /\ x \div m <= y \div m
    BY <1>1
  <1> QED BY <1>2, <1>3

LEMMA CollectReal ==
  ASSUME MetricsTypeOK, CountersKept, NEW failed
  PROVE  Collect(failed).ts \in Nat /\ SampleReal(Collect(failed).ts, Collect(failed))
  <1> DEFINE c == Collect(failed)
  <1>1. /\ clock \in Nat /\ nic \in Nat /\ carried \in Nat /\ collector.read \in BOOLEAN
        /\ collector.bytes \in Nat /\ collector.at \in Nat /\ collector.carried \in 0..carried
    BY DEF MetricsTypeOK
  <1>2. Booted \in boots /\ Booted \in 0..clock
    BY BootedIsLast
  <1>3. /\ c.ts = clock /\ c.uptime \in {0, clock - Booted}
        /\ c.real = IF elapsed = 0 THEN 0 ELSE round1(carried - collector.carried, elapsed)
        /\ c.rx \in {0, IF collector.read THEN rate(nic, collector.bytes, elapsed) ELSE 0}
    BY DEF Collect
  <1>4. elapsed \in Nat
    BY <1>1 DEF elapsed
  <1>5. c.real \in Nat /\ c.rx \in Nat /\ c.rx <= c.real
    <2>1. CASE elapsed = 0
      BY <1>1, <1>3, <2>1 DEF rate
    <2>2. CASE elapsed # 0
      <3>1. carried - collector.carried \in Nat /\ elapsed \in Nat \ {0}
        BY <1>1, <1>4, <2>2
      <3>2. c.real = round1(carried - collector.carried, elapsed) /\ c.real \in Nat
        BY <1>3, <2>2, <3>1, RoundMono
      <3>3. CASE c.rx = 0
        BY <3>2, <3>3
      <3>4. CASE c.rx # 0
        <4>1. collector.read /\ nic >= collector.bytes /\ c.rx = round1(nic - collector.bytes, elapsed)
          BY <1>1, <1>3, <1>4, <2>2, <3>4 DEF rate
        <4>2. nic - collector.bytes \in Nat /\ nic - collector.bytes <= carried - collector.carried
          BY <1>1, <4>1 DEF CountersKept
        <4> QED BY <3>1, <3>2, <4>1, <4>2, RoundMono
      <3> QED BY <3>3, <3>4
    <2> QED BY <2>1, <2>2
  <1>6. c.uptime \in Nat /\ (c.uptime > 0 => clock - c.uptime = Booted)
    BY <1>1, <1>2, <1>3
  <1> QED BY <1>1, <1>2, <1>3, <1>5, <1>6 DEF SampleReal

\* The samples kept and the sample under way stay real while no start of the host
\* is forgotten.
SamplesReal ==
  /\ rec.loop \in {"record", "mounts", "boxes"} => rec.snap.ts \in Nat /\ SampleReal(rec.snap.ts, rec.snap)
  /\ \A t \in DOMAIN samples : SampleReal(t, samples[t])
CountersReal ==
  /\ \E b \in boots : \A c \in boots : c <= b
  /\ collector.read => nic - collector.bytes <= carried - collector.carried

RecordingInv == MetricsTypeOK /\ CountersKept /\ StopWaits

LEMMA InParts == CountersKept <=> CountersReal /\ SamplesReal
  BY DEF CountersKept, CountersReal, SamplesReal

LEMMA PartsLater == CountersReal' /\ SamplesReal' => CountersKept'
  BY DEF CountersKept, CountersReal, SamplesReal

LEMMA SamplesStayReal ==
  ASSUME SamplesReal, boots \subseteq boots', UNCHANGED samples,
         UNCHANGED rec \/ rec'.loop \notin {"record", "mounts", "boxes"}
                       \/ (rec'.snap = rec.snap /\ rec.loop \in {"record", "mounts", "boxes"})
  PROVE  SamplesReal'
  BY DEF SamplesReal, SampleReal

LEMMA HostStep ==
  ASSUME RecordingInv, TimePasses \/ CounterRestarts \/ Reboots
  PROVE  RecordingInv'
  <1>1. MetricsTypeOK /\ CountersReal /\ SamplesReal /\ StopWaits
    BY InParts DEF RecordingInv
  <1>2. /\ clock \in Nat /\ boots \subseteq 0..clock /\ nic \in Nat /\ boxNet \in Nat /\ carried \in Nat
        /\ collector \in [read : BOOLEAN, bytes : Nat, at : Nat, carried : 0..carried] /\ DOMAIN samples \subseteq Nat
    BY <1>1 DEF MetricsTypeOK
  <1>3. CASE TimePasses
    <2>1. PICK n \in Nat : nic' = nic + n /\ carried' = carried + n /\ boxNet' = boxNet + n
      BY <1>3, MetricsAssumption DEF TimePasses
    <2>2. clock' = clock + 1 /\ UNCHANGED <<boots, samples, collector, rec>>
      BY <1>3 DEF TimePasses, storeVars
    <2>3. MetricsTypeOK'
      BY <1>1, <1>2, <2>1, <2>2 DEF MetricsTypeOK
    <2>4. CountersReal'
      BY <1>1, <1>2, <2>1, <2>2 DEF CountersReal
    <2> QED BY <1>1, <2>2, <2>3, <2>4, SamplesStayReal, PartsLater DEF RecordingInv, StopWaits
  <1>4. CASE CounterRestarts
    <2>1. nic' \in 0..nic /\ boxNet' \in 0..boxNet /\ UNCHANGED <<clock, boots, carried, samples, collector, rec>>
      BY <1>2, <1>4 DEF CounterRestarts, storeVars
    <2>2. MetricsTypeOK'
      BY <1>1, <1>2, <2>1 DEF MetricsTypeOK
    <2>3. CountersReal'
      BY <1>1, <1>2, <2>1 DEF CountersReal
    <2> QED BY <1>1, <2>1, <2>2, <2>3, SamplesStayReal, PartsLater DEF RecordingInv, StopWaits
  <1>5. CASE Reboots
    <2>1. /\ boots' = boots \cup {clock} /\ nic' = 0 /\ boxNet' = 0
          /\ collector' = NewCollector /\ rec' = Unstarted /\ UNCHANGED <<clock, carried, samples>>
      BY <1>5 DEF Reboots, storeVars
    <2>2. MetricsTypeOK'
      BY <1>2, <2>1 DEF MetricsTypeOK, NewCollector, Unstarted
    <2>3. CountersReal'
      BY <1>2, <2>1 DEF CountersReal, NewCollector
    <2>4. StopWaits' /\ rec'.loop = "none"
      BY <2>1 DEF StopWaits, Unstarted
    <2> QED BY <1>1, <2>1, <2>2, <2>3, <2>4, SamplesStayReal, PartsLater DEF RecordingInv
  <1> QED BY <1>3, <1>4, <1>5

\* Samples are only taken away.
LEMMA PruneReal ==
  ASSUME SamplesReal, DOMAIN samples \subseteq Nat, Prunes
  PROVE  /\ DOMAIN samples' \subseteq DOMAIN samples
         /\ \A t \in DOMAIN samples' : SampleReal(t, samples'[t])
  <1>1. samples' = samples \/ samples' = Kept(samples)
    BY DEF Prunes
  <1>2. DOMAIN Kept(samples) \subseteq DOMAIN samples /\ \A t \in DOMAIN Kept(samples) : Kept(samples)[t] = samples[t]
    BY DEF Kept
  <1> QED BY <1>1, <1>2 DEF SamplesReal

\* What the collector remembers after it was read.
LEMMA CollectorRead ==
  ASSUME NEW failed, MetricsTypeOK, CountersReal, collector' = network(failed), UNCHANGED hostVars
  PROVE  /\ CountersReal'
         /\ collector' \in [read : BOOLEAN, bytes : Nat, at : Nat, carried : 0..carried']
  <1>1. clock \in Nat /\ nic \in Nat /\ carried \in Nat
    BY DEF MetricsTypeOK
  <1>2. UNCHANGED <<clock, boots, nic, carried>>
    BY DEF hostVars
  <1>3. CountersReal'
    <2>1. CASE "net" \in failed
      <3>1. /\ collector' = [collector EXCEPT !.at = clock]
            /\ collector \in [read : BOOLEAN, bytes : Nat, at : Nat, carried : 0..carried]
        BY <2>1 DEF network, MetricsTypeOK
      <3> QED BY <1>2, <3>1 DEF CountersReal
    <2>2. CASE ~("net" \in failed)
      BY <1>1, <1>2, <2>2 DEF CountersReal, network
    <2> QED BY <2>1, <2>2
  <1>4. collector' \in [read : BOOLEAN, bytes : Nat, at : Nat, carried : 0..carried]
    <2>1. collector \in [read : BOOLEAN, bytes : Nat, at : Nat, carried : 0..carried]
      BY DEF MetricsTypeOK
    <2> QED BY <1>1, <2>1 DEF network
  <1> QED BY <1>2, <1>3, <1>4

\* The recorder writes what it has collected, or loses it.
LEMMA RecorderStep ==
  ASSUME RecordingInv,
         \/ Start \/ loop \/ sample \/ recordMounts \/ recordContainers \/ loopPrunes \/ loopEnds
         \/ Signalled \/ Stop \/ StopReturns \/ ServiceRestarts
  PROVE  RecordingInv'
  <1>1. MetricsTypeOK /\ CountersReal /\ SamplesReal /\ StopWaits /\ CountersKept
    BY InParts DEF RecordingInv
  <1>2. UNCHANGED hostVars
    <2>1. CASE Start
      BY <2>1 DEF Start
    <2>2. CASE loop
      BY <2>2, Zenon DEF loop
    <2>3. CASE sample \/ recordMounts \/ recordContainers
      BY <2>3 DEF sample, recordMounts, recordContainers
    <2>4. CASE loopPrunes \/ loopEnds
      BY <2>4 DEF loopPrunes, loopEnds
    <2>5. CASE Signalled \/ Stop \/ StopReturns \/ ServiceRestarts
      BY <2>5 DEF Signalled, Stop, StopReturns, ServiceRestarts
    <2> QED BY <2>1, <2>2, <2>3, <2>4, <2>5
  <1>3. UNCHANGED <<clock, boots, nic, boxNet, carried>>
    BY <1>2 DEF hostVars
  <1>4. ASSUME \/ collector' = collector \/ collector' = NewCollector
               \/ \E failed \in Unread : collector' = network(failed),
               DOMAIN samples' \subseteq Nat,
               rec'.loop \in {"none", "wait", "record", "mounts", "boxes", "prune", "left"},
               rec'.caller \in {"down", "up", "stopping", "closed"},
               SamplesReal', StopWaits'
        PROVE  RecordingInv'
    <2>1. CountersReal' /\ collector' \in [read : BOOLEAN, bytes : Nat, at : Nat, carried : 0..carried']
      <3>1. CASE collector' = collector
        BY <1>1, <1>3, <3>1 DEF CountersReal, MetricsTypeOK
      <3>2. CASE \E failed \in Unread : collector' = network(failed)
        BY <1>1, <1>2, <3>2, CollectorRead
      <3>3. CASE collector' = NewCollector
        BY <1>1, <1>3, <3>3 DEF CountersReal, MetricsTypeOK, NewCollector
      <3> QED BY <1>4, <3>1, <3>2, <3>3
    <2>2. MetricsTypeOK'
      BY <1>1, <1>3, <1>4, <2>1 DEF MetricsTypeOK
    <2> QED BY <1>4, <2>1, <2>2, PartsLater DEF RecordingInv
  <1>5. DOMAIN samples \subseteq Nat /\ rec.loop \in {"none", "wait", "record", "mounts", "boxes", "prune", "left"}
        /\ rec.caller \in {"down", "up", "stopping", "closed"}
    BY <1>1 DEF MetricsTypeOK
  <1>6. CASE Start
    <2> SUFFICES ASSUME Enabled
        PROVE  RecordingInv'
      <3>1. CASE ~Enabled
        <4>1. rec' = [rec EXCEPT !.caller = "up"] /\ collector' = collector /\ samples' = samples
          BY <1>6, <3>1 DEF Start, storeVars
        <4>2. rec'.caller = "up" /\ rec'.loop = rec.loop /\ rec'.snap = rec.snap
          BY <1>5, <4>1
        <4>3. SamplesReal'
          BY <1>1, <1>3, <4>1, <4>2 DEF SamplesReal, SampleReal
        <4> QED BY <1>4, <1>5, <4>1, <4>2, <4>3 DEF StopWaits
      <3> QED BY <3>1
    <2>1. /\ \E failed \in Unread : collector' = network(failed)
          /\ Prunes /\ rec'.loop = "wait" /\ rec'.caller = "up"
      BY <1>6 DEF Start, Unstarted
    <2>2. DOMAIN samples' \subseteq Nat /\ \A t \in DOMAIN samples' : SampleReal(t, samples'[t])
      BY <1>1, <1>5, <2>1, PruneReal
    <2>3. SamplesReal'
      BY <1>3, <2>1, <2>2 DEF SamplesReal, SampleReal
    <2> QED BY <1>4, <2>1, <2>2, <2>3 DEF StopWaits
  <1>7. CASE loop
    <2>1. PICK failed \in Unread :
            /\ rec' = [rec EXCEPT !.loop = "record", !.snap = Collect(failed), !.lastTick = LatestTick]
            /\ collector' = network(failed)
      BY <1>7 DEF loop
    <2>2. /\ rec'.loop = "record" /\ rec'.snap = Collect(failed) /\ rec'.caller = rec.caller
          /\ rec.loop = "wait" /\ samples' = samples
      <3> DEFINE snap == Collect(failed)
                 at == LatestTick
      <3>1. rec' = [rec EXCEPT !.loop = "record", !.snap = snap, !.lastTick = at]
        BY <2>1
      <3>2. rec.loop = "wait" /\ UNCHANGED storeVars
        BY <1>7 DEF loop
      <3> HIDE DEF snap, at
      <3>3. rec'.loop = "record" /\ rec'.snap = snap /\ rec'.caller = rec.caller
        BY <1>5, <3>1
      <3> QED BY <3>2, <3>3 DEF snap, storeVars
    <2>3. SamplesReal'
      BY <1>1, <1>3, <2>1, <2>2, CollectReal DEF SamplesReal, SampleReal
    <2> QED BY <1>1, <1>4, <1>5, <2>1, <2>2, <2>3 DEF StopWaits
  <1>8. CASE sample
    <2>1. CASE /\ samples' = Upserted(samples, rec.snap.ts, Reduce(rec.snap))
               /\ rec' = [rec EXCEPT !.loop = "mounts"]
      <3>1. rec.loop = "record" /\ rec.snap.ts \in Nat /\ SampleReal(rec.snap.ts, rec.snap) /\ UNCHANGED collector
        BY <1>1, <1>8 DEF sample, SamplesReal
      <3>2. SampleReal(rec.snap.ts, Reduce(rec.snap))
        BY <3>1 DEF SampleReal, Reduce, Reduced
      <3>3. /\ DOMAIN samples' = DOMAIN samples \cup {rec.snap.ts}
            /\ \A t \in DOMAIN samples' : samples'[t] = IF t = rec.snap.ts THEN Reduce(rec.snap) ELSE samples[t]
        BY <2>1 DEF Upserted
      <3>4. rec'.loop = "mounts" /\ rec'.snap = rec.snap /\ rec'.caller = rec.caller
        BY <2>1, <1>5, <3>1
      <3>5. \A t \in DOMAIN samples' : SampleReal(t, samples'[t])
        BY <1>1, <3>2, <3>3 DEF SamplesReal
      <3>6. SamplesReal'
        BY <1>3, <3>1, <3>4, <3>5 DEF SamplesReal, SampleReal
      <3> QED BY <1>1, <1>4, <1>5, <3>1, <3>3, <3>4, <3>6 DEF StopWaits
    <2>2. CASE samples' = samples /\ rec' = [rec EXCEPT !.loop = "prune", !.snap = <<>>]
      <3>1. rec.loop = "record" /\ rec'.loop = "prune" /\ rec'.caller = rec.caller /\ UNCHANGED collector
        BY <1>5, <1>8, <2>2 DEF sample
      <3>2. SamplesReal'
        BY <1>1, <1>3, <2>2, <3>1, SamplesStayReal
      <3> QED BY <1>1, <1>4, <1>5, <2>2, <3>1, <3>2 DEF StopWaits
    <2> QED BY <1>8, <2>1, <2>2 DEF sample
  <1>9. CASE recordMounts \/ recordContainers
    <2>1. /\ rec.loop \in {"mounts", "boxes"} /\ UNCHANGED <<samples, collector>>
          /\ \/ rec' = [rec EXCEPT !.loop = "boxes"]
             \/ rec' = [rec EXCEPT !.loop = "prune", !.snap = <<>>]
      BY <1>9 DEF recordMounts, recordContainers
    <2>2. rec'.caller = rec.caller /\ (rec'.loop = "prune" \/ (rec'.loop = "boxes" /\ rec'.snap = rec.snap))
      <3>1. CASE rec' = [rec EXCEPT !.loop = "boxes"]
        BY <1>5, <3>1
      <3>2. CASE rec' = [rec EXCEPT !.loop = "prune", !.snap = <<>>]
        BY <1>5, <3>2
      <3> QED BY <2>1, <3>1, <3>2
    <2>3. SamplesReal'
      BY <1>1, <1>3, <2>1, <2>2, SamplesStayReal
    <2> QED BY <1>1, <1>4, <1>5, <2>1, <2>2, <2>3 DEF StopWaits
  <1>10. CASE loopPrunes
    <2>1. /\ rec.loop = "prune" /\ UNCHANGED collector /\ (samples' = samples \/ Prunes)
          /\ \/ rec' = [rec EXCEPT !.loop = "wait"]
             \/ rec' = [rec EXCEPT !.loop = "wait", !.lastPrune = clock]
      BY <1>10 DEF loopPrunes, storeVars
    <2>2. rec'.caller = rec.caller /\ rec'.loop = "wait"
      <3>1. CASE rec' = [rec EXCEPT !.loop = "wait"]
        BY <1>5, <3>1
      <3>2. CASE rec' = [rec EXCEPT !.loop = "wait", !.lastPrune = clock]
        BY <1>5, <3>2
      <3> QED BY <2>1, <3>1, <3>2
    <2>3. DOMAIN samples' \subseteq Nat /\ \A t \in DOMAIN samples' : SampleReal(t, samples'[t])
      <3>1. CASE samples' = samples
        BY <1>1, <1>5, <3>1 DEF SamplesReal
      <3>2. CASE Prunes
        BY <1>1, <1>5, <3>2, PruneReal
      <3> QED BY <2>1, <3>1, <3>2
    <2>4. SamplesReal'
      BY <1>3, <2>2, <2>3 DEF SamplesReal, SampleReal
    <2> QED BY <1>1, <1>4, <1>5, <2>1, <2>2, <2>3, <2>4 DEF StopWaits
  <1>11. CASE loopEnds
    <2>1. rec' = [rec EXCEPT !.loop = "left"] /\ UNCHANGED <<samples, collector>>
      BY <1>11 DEF loopEnds, storeVars
    <2>2. rec'.caller = rec.caller /\ rec'.loop = "left"
      BY <1>5, <1>11, <2>1 DEF loopEnds
    <2>3. SamplesReal'
      BY <1>1, <1>3, <2>1, <2>2, SamplesStayReal
    <2> QED BY <1>1, <1>4, <1>5, <2>1, <2>2, <2>3 DEF StopWaits
  <1>12. CASE Signalled \/ Stop \/ StopReturns
    <2>1. /\ UNCHANGED <<samples, collector>>
          /\ \/ rec.caller = "up" /\ rec' = [rec EXCEPT !.cancelled = TRUE]
             \/ rec' = [rec EXCEPT !.cancelled = TRUE, !.caller = "stopping"]
             \/ LoopLeft /\ rec' = [rec EXCEPT !.caller = "closed"]
      BY <1>12 DEF Signalled, Stop, StopReturns, storeVars
    <2>2. /\ rec'.loop = rec.loop /\ rec'.snap = rec.snap
          /\ rec'.caller \in {"up", "stopping"} \/ (rec'.caller = "closed" /\ rec'.loop \in {"none", "left"})
      <3>0. CASE rec.caller = "up" /\ rec' = [rec EXCEPT !.cancelled = TRUE]
        BY <1>5, <3>0
      <3>1. CASE rec' = [rec EXCEPT !.cancelled = TRUE, !.caller = "stopping"]
        BY <1>5, <3>1
      <3>2. CASE LoopLeft /\ rec' = [rec EXCEPT !.caller = "closed"]
        BY <1>5, <3>2 DEF LoopLeft
      <3> QED BY <2>1, <3>0, <3>1, <3>2
    <2>3. SamplesReal'
      BY <1>1, <1>3, <2>1, <2>2 DEF SamplesReal, SampleReal
    <2> QED BY <1>1, <1>4, <1>5, <2>1, <2>2, <2>3 DEF StopWaits
  <1>13. CASE ServiceRestarts
    <2>1. collector' = NewCollector /\ rec' = Unstarted /\ UNCHANGED samples
      BY <1>13 DEF ServiceRestarts, storeVars
    <2>2. rec'.loop = "none" /\ rec'.caller = "down"
      BY <2>1 DEF Unstarted
    <2>3. SamplesReal'
      BY <1>1, <1>3, <2>1, <2>2, SamplesStayReal
    <2> QED BY <1>4, <1>5, <2>1, <2>2, <2>3 DEF StopWaits
  <1> QED BY <1>6, <1>7, <1>8, <1>9, <1>10, <1>11, <1>12, <1>13

\* Whatever counter is reset, whenever the host or the service is restarted and
\* whichever writes fail, a recorded rate shows no traffic that was not there, a
\* restart on the chart happened at that second, and nothing is written once Stop
\* has returned, for every retention and load (rate, rebootEvents, Stop).
THEOREM RecorderInvariance == MetricsSpec => []RecordsReal
  <1>1. MetricsInit => RecordingInv
    BY DEF MetricsInit, RecordingInv, MetricsTypeOK, CountersKept, StopWaits, NewCollector, Unstarted
  <1>2. RecordingInv /\ [MetricsNext]_metricVars => RecordingInv'
    <2> SUFFICES ASSUME RecordingInv, [MetricsNext]_metricVars
        PROVE  RecordingInv'
      OBVIOUS
    <2>1. CASE UNCHANGED metricVars
      BY <2>1 DEF metricVars, RecordingInv, MetricsTypeOK, CountersKept, SampleReal, StopWaits
    <2> QED BY <2>1, HostStep, RecorderStep DEF MetricsNext
  <1>3. RecordingInv => RecordsReal
    <2> SUFFICES ASSUME RecordingInv
        PROVE  RecordsReal
      OBVIOUS
    <2>1. \A t \in DOMAIN samples : SampleReal(t, samples[t])
      BY DEF RecordingInv, CountersKept
    <2>2. RatesAreReal
      BY <2>1 DEF RatesAreReal, SampleReal
    <2>3. ASSUME NEW from, NEW to
          PROVE  rebootEvents(from, to) \subseteq boots
      <3> SUFFICES ASSUME NEW at \in rebootEvents(from, to)
          PROVE  at \in boots
        OBVIOUS
      <3>1. PICK t \in DOMAIN samples : samples[t].uptime > 0 /\ at = t - samples[t].uptime
        BY DEF rebootEvents, InWindow
      <3> QED BY <2>1, <3>1 DEF SampleReal
    <2> QED BY <2>2, <2>3 DEF RecordingInv, RecordsReal, RebootsAreReal
  <1> QED BY <1>1, <1>2, <1>3, PTL DEF MetricsSpec

---------------------------------------------------------------------------
(* The order of versions.                                                  *)

Versions == Seq(Nat)
Places == Nat \ {0}

\* A component that is there, or zero.
LEMMA AtIsNat ==
  ASSUME NEW v \in Versions, NEW i \in Places
  PROVE  At(v, i) \in Nat /\ (At(v, i) > 0 => i <= Len(v)) /\ Len(v) \in Nat
BY DEF At, Versions, Places

LEMMA OlderAt ==
  ASSUME NEW a \in Versions, NEW b \in Versions, a # <<>>, b # <<>>, NEW i \in Places,
         At(a, i) < At(b, i), \A j \in 1..i - 1 : At(a, j) = At(b, j)
  PROVE  Older(a, b)
<1>1. At(a, i) \in Nat /\ At(b, i) \in Nat /\ (At(b, i) > 0 => i <= Len(b)) /\ Len(a) \in Nat /\ Len(b) \in Nat
  BY AtIsNat
<1>2. i \in 1..Len(a) + Len(b)
  BY <1>1 DEF Places
<1> QED BY <1>2 DEF Older

LEMMA OlderDiffers ==
  ASSUME NEW a \in Versions, NEW b \in Versions, Older(a, b), a # <<>>
  PROVE  /\ b # <<>>
         /\ \E i \in Places : At(a, i) < At(b, i) /\ \A j \in 1..i - 1 : At(a, j) = At(b, j)
<1>1. Len(a) \in Nat /\ Len(b) \in Nat
  BY DEF Versions
<1>2. b # <<>> /\ \E i \in 1..Len(a) + Len(b) :
                    At(a, i) < At(b, i) /\ \A j \in 1..i - 1 : At(a, j) = At(b, j)
  BY DEF Older
<1> QED BY <1>1, <1>2 DEF Places

LEMMA OlderIrreflexive ==
  ASSUME NEW v \in Versions
  PROVE  ~Older(v, v)
<1>1. CASE v = <<>>
  BY <1>1 DEF Older
<1>2. CASE v # <<>> /\ Older(v, v)
  <2>1. PICK i \in Places : At(v, i) < At(v, i)
    BY <1>2, OlderDiffers
  <2>2. At(v, i) \in Nat
    BY AtIsNat
  <2> QED BY <2>1, <2>2
<1> QED BY <1>1, <1>2

LEMMA OlderTransitive ==
  ASSUME NEW a \in Versions, NEW b \in Versions, NEW d \in Versions, Older(a, b), Older(b, d)
  PROVE  Older(a, d)
<1>1. b # <<>> /\ d # <<>>
  BY DEF Older
<1>2. CASE a = <<>>
  BY <1>1, <1>2 DEF Older
<1>3. CASE a # <<>>
  <2>1. PICK i \in Places : At(a, i) < At(b, i) /\ \A x \in 1..i - 1 : At(a, x) = At(b, x)
    BY <1>3, OlderDiffers
  <2>2. PICK j \in Places : At(b, j) < At(d, j) /\ \A x \in 1..j - 1 : At(b, x) = At(d, x)
    BY <1>1, OlderDiffers
  <2>3. \A x \in Places : At(a, x) \in Nat /\ At(b, x) \in Nat /\ At(d, x) \in Nat
    BY AtIsNat
  <2>4. CASE i <= j
    <3>1. At(a, i) < At(d, i)
      <4>1. CASE i = j
        BY <2>1, <2>2, <2>3, <4>1
      <4>2. CASE i < j
        <5>1. At(b, i) = At(d, i)
          BY <2>2, <4>2 DEF Places
        <5> QED BY <2>1, <5>1
      <4> QED BY <2>4, <4>1, <4>2 DEF Places
    <3>2. \A x \in 1..i - 1 : At(a, x) = At(d, x)
      BY <2>1, <2>2, <2>4 DEF Places
    <3> QED BY <1>1, <1>3, <3>1, <3>2, OlderAt
  <2>5. CASE j < i
    <3>1. At(a, j) = At(b, j)
      BY <2>1, <2>5 DEF Places
    <3>2. At(a, j) < At(d, j)
      BY <2>2, <3>1
    <3>3. \A x \in 1..j - 1 : At(a, x) = At(d, x)
      BY <2>1, <2>2, <2>5 DEF Places
    <3> QED BY <1>1, <1>3, <3>2, <3>3, OlderAt
  <2> QED BY <2>4, <2>5 DEF Places
<1> QED BY <1>2, <1>3

\* Of two versions one apart, any third is apart from one of them: the order is one
\* of levels.
LEMMA OlderSplits ==
  ASSUME NEW a \in Versions, NEW b \in Versions, NEW d \in Versions, Older(a, d)
  PROVE  Older(a, b) \/ Older(b, d)
<1>1. d # <<>>
  BY DEF Older
<1>2. CASE b = <<>>
  BY <1>1, <1>2 DEF Older
<1>3. CASE b # <<>> /\ a = <<>>
  BY <1>3 DEF Older
<1>4. CASE b # <<>> /\ a # <<>>
  <2>1. PICK i \in Places : At(a, i) < At(d, i) /\ \A x \in 1..i - 1 : At(a, x) = At(d, x)
    BY <1>4, OlderDiffers
  <2>2. \A x \in Places : At(a, x) \in Nat /\ At(b, x) \in Nat /\ At(d, x) \in Nat
    BY AtIsNat
  <2>3. CASE \A x \in 1..i - 1 : At(b, x) = At(a, x)
    <3>1. At(a, i) < At(b, i) \/ At(b, i) < At(d, i)
      BY <2>1, <2>2
    <3> QED BY <1>1, <1>4, <2>1, <2>3, <3>1, OlderAt
  <2>4. CASE \E x \in 1..i - 1 : At(b, x) # At(a, x)
    <3> DEFINE Apart == {x \in Nat : x \in 1..i - 1 /\ At(b, x) # At(a, x)}
    <3>1. Apart # {} /\ Apart \subseteq Nat
      BY <2>4 DEF Places
    <3>2. PICK e \in Apart : \A x \in Apart : <<x, e>> \notin OpToRel(<, Nat)
      BY <3>1, NatLessThanWellFounded, WFMin
    <3>3. e \in Places /\ e < i /\ At(b, e) # At(a, e) /\ At(a, e) = At(d, e)
      <4>1. e \in 1..i - 1 /\ At(b, e) # At(a, e)
        BY <3>2
      <4>2. At(a, e) = At(d, e)
        BY <2>1, <4>1
      <4> QED BY <4>1, <4>2 DEF Places
    <3>4. \A x \in 1..e - 1 : At(b, x) = At(a, x) /\ At(a, x) = At(d, x)
      <4> SUFFICES ASSUME NEW x \in 1..e - 1, At(b, x) # At(a, x) PROVE FALSE
        BY <2>1, <3>3 DEF Places
      <4>1. x \in Apart /\ x < e /\ x \in Nat /\ e \in Nat
        BY <3>3 DEF Places
      <4> QED BY <3>2, <4>1 DEF OpToRel
    <3>5. At(a, e) < At(b, e) \/ At(b, e) < At(d, e)
      BY <2>2, <3>3
    <3> QED BY <1>1, <1>4, <3>3, <3>4, <3>5, OlderAt
  <2> QED BY <2>3, <2>4
<1> QED BY <1>2, <1>3, <1>4

---------------------------------------------------------------------------
(* The newest release of a changelog.                                      *)

Releases == [version : Versions, complete : BOOLEAN, breaking : BOOLEAN, noted : BOOLEAN]

LEMMA HeadIsARelease ==
  ASSUME NEW m, m.releases # <<>>, m.releases \in Seq(Releases)
  PROVE  /\ \E i \in DOMAIN m.releases : Head_(m) = m.releases[i]
         /\ Head_(m).version \in Versions
<1> DEFINE rs == m.releases
           Top(i, n) == /\ i \in 1..n
                        /\ \A j \in 1..n : \/ Older(rs[j].version, rs[i].version)
                                           \/ AtLeast(rs[i].version, rs[j].version) /\ i <= j
           Bad == {n \in Nat : n \in 1..Len(rs) /\ ~\E i \in 1..n : Top(i, n)}
<1>1. Len(rs) \in Nat \ {0} /\ DOMAIN rs = 1..Len(rs) /\ \A i \in 1..Len(rs) : rs[i].version \in Versions
  <2>1. Len(rs) \in Nat /\ DOMAIN rs = 1..Len(rs) /\ \A i \in 1..Len(rs) : rs[i] \in Releases
    OBVIOUS
  <2>2. Len(rs) # 0
    BY <2>1
  <2> QED BY <2>1, <2>2 DEF Releases
<1>2. ASSUME NEW n \in Bad, \A o \in Bad : <<o, n>> \notin OpToRel(<, Nat) PROVE FALSE
  <2>1. n \in 1..Len(rs) /\ ~\E i \in 1..n : Top(i, n)
    BY <1>2
  <2>2. rs[n].version \in Versions /\ AtLeast(rs[n].version, rs[n].version)
    BY <1>1, <2>1, OlderIrreflexive DEF AtLeast
  <2>3. CASE n = 1
    <3>1. Top(1, 1)
      BY <2>2, <2>3
    <3> QED BY <2>1, <2>3, <3>1
  <2>4. CASE n # 1
    <3>1. n - 1 \in 1..Len(rs) /\ n \in Nat /\ n - 1 \in Nat /\ n - 1 < n
      BY <1>1, <2>1, <2>4
    <3>2. <<n - 1, n>> \in OpToRel(<, Nat)
      BY <3>1 DEF OpToRel
    <3>3. n - 1 \notin Bad
      BY <1>2, <3>2
    <3>4. PICK i \in 1..n - 1 : Top(i, n - 1)
      BY <3>1, <3>3
    <3>5. i \in 1..n /\ rs[i].version \in Versions
      BY <1>1, <3>1, <3>4
    <3>6. CASE Older(rs[i].version, rs[n].version)
      <4>1. ASSUME NEW j \in 1..n - 1 PROVE Older(rs[j].version, rs[n].version)
        <5>1. rs[j].version \in Versions
          BY <1>1, <3>1
        <5>2. \/ Older(rs[j].version, rs[i].version)
              \/ ~Older(rs[i].version, rs[j].version)
          BY <3>4 DEF AtLeast
        <5>3. CASE Older(rs[j].version, rs[i].version)
          BY <2>2, <3>5, <3>6, <5>1, <5>3, OlderTransitive
        <5>4. CASE ~Older(rs[i].version, rs[j].version)
          <6>1. Older(rs[i].version, rs[j].version) \/ Older(rs[j].version, rs[n].version)
            <7> DEFINE a == rs[i].version
                       b == rs[j].version
                       d == rs[n].version
            <7>1. a \in Versions /\ b \in Versions /\ d \in Versions /\ Older(a, d)
              BY <2>2, <3>5, <3>6, <5>1
            <7> HIDE DEF a, b, d
            <7>2. Older(a, b) \/ Older(b, d)
              BY <7>1, OlderSplits
            <7> QED BY <7>2 DEF a, b, d
          <6> QED BY <5>4, <6>1
        <5> QED BY <5>2, <5>3, <5>4
      <4>2. Top(n, n)
        <5>1. n \in 1..n
          BY <3>1, <2>1
        <5>2. \A j \in 1..n : j = n \/ j \in 1..n - 1
          BY <3>1
        <5> QED BY <2>2, <4>1, <5>1, <5>2, <3>1
      <4> QED BY <2>1, <4>2
    <3>7. CASE ~Older(rs[i].version, rs[n].version)
      <4>1. \A j \in 1..n : j = n \/ j \in 1..n - 1
        BY <3>1
      <4>2. Top(i, n)
        <5>1. AtLeast(rs[i].version, rs[n].version) /\ i <= n
          BY <3>1, <3>5, <3>7 DEF AtLeast
        <5>2. \A j \in 1..n - 1 :
                \/ Older(rs[j].version, rs[i].version)
                \/ AtLeast(rs[i].version, rs[j].version) /\ i <= j
          BY <3>4
        <5> QED BY <3>5, <4>1, <5>1, <5>2
      <4> QED BY <2>1, <3>5, <4>2
    <3> QED BY <3>6, <3>7
  <2> QED BY <2>3, <2>4
<1>3. Bad = {}
  <2> SUFFICES ASSUME Bad # {} PROVE FALSE
    OBVIOUS
  <2>1. Bad \subseteq Nat
    OBVIOUS
  <2>2. PICK n \in Bad : \A o \in Bad : <<o, n>> \notin OpToRel(<, Nat)
    BY <2>1, NatLessThanWellFounded, WFMin
  <2> QED BY <1>2, <2>2
<1>4. \E i \in 1..Len(rs) : Top(i, Len(rs))
  <2>1. Len(rs) \in Nat /\ Len(rs) \in 1..Len(rs)
    BY <1>1
  <2>2. Len(rs) \notin Bad
    BY <1>3
  <2> HIDE DEF Top
  <2> QED BY <2>1, <2>2
<1> DEFINE Chosen(i) == \A j \in DOMAIN m.releases :
                          \/ Older(m.releases[j].version, m.releases[i].version)
                          \/ AtLeast(m.releases[i].version, m.releases[j].version) /\ i <= j
           chosen == CHOOSE i \in DOMAIN m.releases : Chosen(i)
<1>5. \E i \in DOMAIN m.releases : Chosen(i)
  BY <1>1, <1>4
<1> HIDE DEF Chosen
<1>6. chosen \in DOMAIN m.releases
  BY <1>5
<1>7. Head_(m) = m.releases[chosen]
  BY DEF Head_, Chosen
<1> HIDE DEF chosen
<1> QED BY <1>1, <1>6, <1>7

---------------------------------------------------------------------------
(* The record and its copies.                                              *)

LEMMA EmptyUpdates ==
  /\ NoRecord \in RunRecords /\ NoRecord.to = <<>> /\ NoRecord.status = "none"
  /\ NotInstalling \in [at : {"idle", "start", "record", "remove", "run", "unstarted", "failing"},
                        to : Seq(Nat), seen : RunRecords]
  /\ NotInstalling.at = "idle" /\ NotInstalling.to = <<>> /\ NotInstalling.seen = NoRecord
  /\ NoContainer.at = "none" /\ ~NoContainer.loaded /\ ~NoContainer.ok /\ NoContainer.seen = NoRecord
  /\ NoContainer.to = <<>> /\ NoContainer.seen = NoRecord
  /\ NoContainer \in [at : {"none", "exited", "load", "fetch", "compose", "probe", "tidy"} \union Writes,
                      loaded : BOOLEAN, ok : BOOLEAN, to : Seq(Nat), seen : RunRecords]
<1>1. NoRecord \in RunRecords /\ NoRecord.to = <<>> /\ NoRecord.status = "none"
  BY DEF NoRecord, RunRecords
<1> QED BY <1>1 DEF NotInstalling, NoContainer

\* Nothing is older than the version that cannot be parsed.
LEMMA NothingReached == \A v : AtLeast(v, <<>>)
  BY DEF AtLeast, Older

\* What the updater writes of a copy: the same run, and a success only at its end.
LEMMA ProgressTold ==
  ASSUME NEW r \in RunRecords, NEW ok \in BOOLEAN, NEW step \in Writes
  PROVE  /\ Progress(step, r, ok) \in RunRecords /\ Progress(step, r, ok).to = r.to
         /\ Progress(step, r, ok).status = "success" =>
              (step = "finish" /\ ok) \/ r.status = "success"
BY DEF Progress, FinishRecord, RunRecords, Writes

LEMMA FinishTold ==
  ASSUME NEW r \in RunRecords, NEW ok \in BOOLEAN
  PROVE  /\ FinishRecord(r, ok) \in RunRecords /\ FinishRecord(r, ok).to = r.to
         /\ FinishRecord(r, ok).status = "success" => ok
BY DEF FinishRecord, RunRecords

\* The release a changelog leads with is a version, whatever the changelog.
LEMMA HeadIsAVersion ==
  ASSUME NEW m \in Manifests, m.releases # <<>>
  PROVE  Head_(m).version \in Versions
<1>1. m.releases \in Seq(Releases)
  BY SelfUpdateAssumption DEF Releases, Versions
<1> QED BY <1>1, HeadIsARelease

---------------------------------------------------------------------------
(* The branch and its check.                                               *)

LEMMA PublishKeepsUpgrade ==
  ASSUME UpgradeInv, NEW m \in Manifests, Publish(m)
  PROVE  UpgradeInv'
<1> DEFINE h == Head_(published).version
           n == Head_(m).version
<1>1. /\ published \in Manifests /\ published.releases # <<>> /\ published' = m /\ Older(h, n)
      /\ UNCHANGED <<checkout, backend, check, record, updater, installing, overwritten>>
  BY DEF UpgradeInv, UpdateTypeOK, Publish
<1>2. m.releases # <<>>
  <2>1. m.releases \in Seq(Releases) /\ published.releases \in Seq(Releases)
    BY <1>1, SelfUpdateAssumption DEF Releases, Versions
  <2>2. Len(m.releases) \in Nat /\ Len(published.releases) \in Nat /\ Len(m.releases) > Len(published.releases)
    BY <2>1 DEF Publish
  <2> QED BY <2>2
<1>3. h \in Versions /\ n \in Versions
  BY <1>1, <1>2, HeadIsAVersion
<1>4. ASSUME NEW v \in Versions, AtLeast(h, v) PROVE AtLeast(n, v)
  BY <1>1, <1>3, <1>4, OlderTransitive DEF AtLeast
<1> HIDE DEF h, n
<1>5. UpdateTypeOK'
  BY <1>1, <1>2 DEF UpgradeInv, UpdateTypeOK
<1>6. TargetsPublished'
  BY <1>1, <1>4 DEF UpgradeInv, UpdateTypeOK, TargetsPublished, PublishedReaches, h, n, RunRecords, Versions
<1>7. SuccessMeansInstalled' /\ (~overwritten => CopiesAlike /\ OnCourse)'
  BY <1>1 DEF UpgradeInv, SuccessMeansInstalled, CopiesAlike, OnCourse, TellsTheTruth, Works
<1> QED BY <1>5, <1>6, <1>7 DEF UpgradeInv

LEMMA RefreshKeepsUpgrade ==
  ASSUME UpgradeInv, NEW f \in BOOLEAN, RefreshBegins \/ RefreshEnds(f)
  PROVE  UpgradeInv'
<1> DEFINE h == Head_(published).version
<1>1. /\ published \in Manifests /\ published.releases # <<>>
      /\ UNCHANGED <<published, checkout, backend, record, updater, installing, overwritten>>
  BY DEF UpgradeInv, UpdateTypeOK, RefreshBegins, RefreshEnds
<1>2. h \in Versions /\ published.latest \in Versions
  BY <1>1, HeadIsAVersion, SelfUpdateAssumption DEF Versions
<1>3. ParseManifest(published) =>
        Latest(published) \in Versions /\ Latest(published) # <<>> /\ AtLeast(h, Latest(published))
  <2> SUFFICES ASSUME ParseManifest(published)
               PROVE  /\ Latest(published) \in Versions /\ Latest(published) # <<>>
                      /\ AtLeast(h, Latest(published))
    OBVIOUS
  <2>1. h # <<>>
    <3>1. published.releases \in Seq(Releases)
      BY <1>1, SelfUpdateAssumption DEF Releases, Versions
    <3>2. PICK i \in DOMAIN published.releases : Head_(published) = published.releases[i]
      BY <1>1, <3>1, HeadIsARelease
    <3> QED BY <3>2 DEF ParseManifest
  <2>2. CASE published.latest = <<>>
    BY <1>2, <2>1, <2>2, OlderIrreflexive DEF Latest, AtLeast
  <2>3. CASE published.latest # <<>>
    BY <1>2, <2>3 DEF Latest, ParseManifest
  <2> QED BY <2>2, <2>3
<1> HIDE DEF h
<1>4. /\ check' \in [latest : Seq(Nat), available : BOOLEAN, failed : BOOLEAN, busy : BOOLEAN]
      /\ check'.available => check'.latest # <<>>
      /\ AtLeast(h, check'.latest)
  <2>1. /\ check \in [latest : Seq(Nat), available : BOOLEAN, failed : BOOLEAN, busy : BOOLEAN]
        /\ check.available => check.latest # <<>>
        /\ AtLeast(h, check.latest)
    BY DEF UpgradeInv, UpdateTypeOK, TargetsPublished, PublishedReaches, h
  <2>2. CASE RefreshBegins
    BY <2>1, <2>2 DEF RefreshBegins
  <2>3. CASE RefreshEnds(f) /\ f /\ ParseManifest(published)
    <3>1. check' = [latest |-> Latest(published), available |-> Since(published, backend.version) # {},
                    failed |-> FALSE, busy |-> FALSE]
      BY <2>3 DEF RefreshEnds
    <3> QED BY <1>3, <2>3, <3>1 DEF Versions
  <2>4. CASE RefreshEnds(f) /\ ~(f /\ ParseManifest(published))
    <3>1. check' = [check EXCEPT !.failed = TRUE, !.busy = FALSE]
      BY <2>4 DEF RefreshEnds
    <3> QED BY <2>1, <3>1
  <2> QED BY <2>2, <2>3, <2>4
<1>5. UpdateTypeOK'
  BY <1>1, <1>4 DEF UpgradeInv, UpdateTypeOK
<1>6. TargetsPublished'
  BY <1>1, <1>4 DEF UpgradeInv, TargetsPublished, PublishedReaches, h
<1>7. SuccessMeansInstalled' /\ (~overwritten => CopiesAlike /\ OnCourse)'
  BY <1>1 DEF UpgradeInv, SuccessMeansInstalled, CopiesAlike, OnCourse, TellsTheTruth, Works
<1> QED BY <1>5, <1>6, <1>7 DEF UpgradeInv

---------------------------------------------------------------------------
(* Requests.                                                               *)

\* A request's own step, while the dashboard is up: it aims at nothing that is not
\* published, and holds a copy only of the record.
LEMMA RequestStep ==
  ASSUME UpgradeInv, backend.at = "up", NEW i \in Installers,
         NEW k \in [at : {"idle", "start", "record", "remove", "run", "unstarted", "failing"},
                    to : Seq(Nat), seen : RunRecords],
         PublishedReaches(k.to), PublishedReaches(k.seen.to),
         k.at = "failing" => k.seen.to = record.to,
         installing' = [installing EXCEPT ![i] = k],
         UNCHANGED <<published, checkout, backend, check, record, updater, overwritten>>
  PROVE  UpgradeInv'
<1>1. UpdateTypeOK /\ TargetsPublished
  BY DEF UpgradeInv
<1>2. \A x \in Installers : installing'[x] = IF x = i THEN k ELSE installing[x]
  BY <1>1 DEF UpdateTypeOK
<1>3. UpdateTypeOK'
  BY <1>1 DEF UpdateTypeOK
<1>4. TargetsPublished'
  BY <1>1, <1>2 DEF TargetsPublished, PublishedReaches
<1>5. SuccessMeansInstalled' /\ (~overwritten => CopiesAlike /\ OnCourse)'
  BY <1>2 DEF UpgradeInv, SuccessMeansInstalled, CopiesAlike, OnCourse, TellsTheTruth, Works
<1> QED BY <1>3, <1>4, <1>5 DEF UpgradeInv

LEMMA RequestOver ==
  ASSUME UpgradeInv
  PROVE  PublishedReaches(NotInstalling.to) /\ PublishedReaches(NotInstalling.seen.to)
         /\ NotInstalling.at # "failing"
BY EmptyUpdates, NothingReached DEF PublishedReaches

LEMMA RequestsKeepUpgrade ==
  ASSUME UpgradeInv, NEW i \in Installers,
         \/ \E l \in Listings, v \in {<<>>, check.latest} : handleSelfUpdateInstall(i, l, v)
         \/ StartInstall(i)
         \/ \E able \in BOOLEAN : UnstartedLoads(i, able)
  PROVE  UpgradeInv'
<1> DEFINE k == installing[i]
<1>1. /\ k \in [at : {"idle", "start", "record", "remove", "run", "unstarted", "failing"},
                to : Seq(Nat), seen : RunRecords]
      /\ PublishedReaches(k.to) /\ PublishedReaches(k.seen.to)
      /\ check.latest \in Seq(Nat) /\ PublishedReaches(check.latest)
      /\ check.available => check.latest # <<>>
      /\ record \in RunRecords /\ PublishedReaches(record.to)
      /\ installing \in [Installers -> [at : {"idle", "start", "record", "remove", "run", "unstarted", "failing"},
                                        to : Seq(Nat), seen : RunRecords]]
  BY DEF UpgradeInv, UpdateTypeOK, TargetsPublished
<1>2. ASSUME NEW l \in Listings, NEW v \in {<<>>, check.latest}, handleSelfUpdateInstall(i, l, v)
      PROVE  UpgradeInv'
  <2> DEFINE wish == [at |-> "start", to |-> check.latest, seen |-> NoRecord]
  <2>1. /\ backend.at = "up" /\ installing' = [installing EXCEPT ![i] = wish]
        /\ UNCHANGED <<published, checkout, backend, check, record, updater, overwritten>>
    BY <1>1, <1>2 DEF handleSelfUpdateInstall, Report
  <2>2. /\ wish \in [at : {"idle", "start", "record", "remove", "run", "unstarted", "failing"},
                      to : Seq(Nat), seen : RunRecords]
        /\ PublishedReaches(wish.to) /\ PublishedReaches(wish.seen.to) /\ wish.at # "failing"
    BY <1>1, EmptyUpdates, NothingReached DEF PublishedReaches
  <2> QED BY <2>1, <2>2, RequestStep
<1>3. CASE StartInstall(i)
  <2> DEFINE ready == [k EXCEPT !.at = "record"]
  <2>1. /\ backend.at = "up"
        /\ installing' = [installing EXCEPT ![i] = ready] \/ installing' = [installing EXCEPT ![i] = NotInstalling]
        /\ UNCHANGED <<published, checkout, backend, check, record, updater, overwritten>>
    BY <1>3 DEF StartInstall
  <2>2. /\ ready \in [at : {"idle", "start", "record", "remove", "run", "unstarted", "failing"},
                      to : Seq(Nat), seen : RunRecords]
        /\ PublishedReaches(ready.to) /\ PublishedReaches(ready.seen.to) /\ ready.at # "failing"
    BY <1>1
  <2> HIDE DEF ready
  <2> QED BY <2>1, <2>2, RequestStep, RequestOver, EmptyUpdates
<1>4. ASSUME NEW able \in BOOLEAN, UnstartedLoads(i, able) PROVE UpgradeInv'
  <2> DEFINE reads == [k EXCEPT !.at = "failing", !.seen = record]
  <2>1. /\ backend.at = "up"
        /\ installing' = [installing EXCEPT ![i] = reads] \/ installing' = [installing EXCEPT ![i] = NotInstalling]
        /\ UNCHANGED <<published, checkout, backend, check, record, updater, overwritten>>
    BY <1>1, <1>4 DEF UnstartedLoads
  <2>2. /\ reads \in [at : {"idle", "start", "record", "remove", "run", "unstarted", "failing"},
                      to : Seq(Nat), seen : RunRecords]
        /\ PublishedReaches(reads.to) /\ PublishedReaches(reads.seen.to) /\ reads.seen.to = record.to
    BY <1>1
  <2> HIDE DEF reads
  <2> QED BY <2>1, <2>2, RequestStep, RequestOver, EmptyUpdates
<1> QED BY <1>2, <1>3, <1>4

\* Nobody but the updater holds a copy while the dashboard is up and its store is free.
LEMMA NoCopies ==
  ASSUME UpgradeInv, backend.at = "up"
  PROVE  backend.seen = NoRecord
BY DEF UpgradeInv, UpdateTypeOK

LEMMA PendingKeepsUpgrade ==
  ASSUME UpgradeInv, NEW i \in Installers, NEW saved \in BOOLEAN, RecordPending(i, saved)
  PROVE  UpgradeInv'
<1> DEFINE k == installing[i]
           Rows == [at : {"idle", "start", "record", "remove", "run", "unstarted", "failing"},
                    to : Seq(Nat), seen : RunRecords]
<1>1. /\ backend.at = "up" /\ StoreFree /\ UpdateTypeOK /\ TargetsPublished /\ k \in Rows
      /\ installing \in [Installers -> Rows]
      /\ UNCHANGED <<published, checkout, backend, check, updater>>
  BY DEF UpgradeInv, UpdateTypeOK, RecordPending
<1>2. CASE saved
  <2> DEFINE made == [status |-> "pending", phase |-> "queued", to |-> k.to]
             done == [k EXCEPT !.at = "remove"]
  <2>1. /\ record' = made /\ installing' = [installing EXCEPT ![i] = done]
        /\ overwritten' = (overwritten \/ LiveStatus(record) \/ Works(updater))
    BY <1>2 DEF RecordPending
  <2>2. made \in RunRecords /\ made.to = k.to /\ made.status = "pending"
    BY <1>1 DEF RunRecords
  <2>3. done \in Rows /\ done.to = k.to /\ done.seen = k.seen /\ done.at = "remove"
    BY <1>1
  <2> HIDE DEF made, done
  <2>4. \A x \in Installers : installing'[x] = IF x = i THEN done ELSE installing[x]
    BY <1>1, <2>1
  <2>5. overwritten' \in BOOLEAN
    BY <1>1, <2>1 DEF UpdateTypeOK
  <2>6. UpdateTypeOK'
    BY <1>1, <2>1, <2>2, <2>3, <2>5 DEF UpdateTypeOK
  <2>7. TargetsPublished'
    BY <1>1, <2>1, <2>2, <2>3, <2>4 DEF TargetsPublished, PublishedReaches
  <2>8. SuccessMeansInstalled'
    BY <2>1, <2>2 DEF SuccessMeansInstalled
  <2>9. (~overwritten => CopiesAlike /\ OnCourse)'
    <3> SUFFICES ASSUME ~overwritten' PROVE CopiesAlike' /\ OnCourse'
      OBVIOUS
    <3>1. ~Works(updater)
      BY <2>1
    <3>2. \A x \in Installers : installing'[x].at # "failing"
      BY <1>1, <2>3, <2>4 DEF StoreFree
    <3> QED BY <1>1, <2>1, <3>1, <3>2, NoCopies DEF CopiesAlike, OnCourse, Works
  <2> QED BY <2>6, <2>7, <2>8, <2>9 DEF UpgradeInv
<1>3. CASE ~saved
  <2>1. installing' = [installing EXCEPT ![i] = NotInstalling] /\ UNCHANGED <<record, overwritten>>
    BY <1>3 DEF RecordPending
  <2> QED BY <1>1, <2>1, RequestStep, RequestOver, EmptyUpdates
<1> QED BY <1>2, <1>3

LEMMA UnstartedKeepsUpgrade ==
  ASSUME UpgradeInv, NEW i \in Installers, UnstartedSaves(i)
  PROVE  UpgradeInv'
<1> DEFINE k == installing[i]
           Rows == [at : {"idle", "start", "record", "remove", "run", "unstarted", "failing"},
                    to : Seq(Nat), seen : RunRecords]
<1>1. /\ backend.at = "up" /\ k.at = "failing" /\ UpdateTypeOK /\ TargetsPublished /\ k \in Rows
      /\ installing \in [Installers -> Rows]
      /\ record' = FinishRecord(k.seen, FALSE) /\ installing' = [installing EXCEPT ![i] = NotInstalling]
      /\ UNCHANGED <<published, checkout, backend, check, updater, overwritten>>
  BY DEF UpgradeInv, UpdateTypeOK, UnstartedSaves
<1>2. record' \in RunRecords /\ record'.to = k.seen.to /\ record'.status # "success"
  BY <1>1, FinishTold
<1>3. \A x \in Installers : installing'[x] = IF x = i THEN NotInstalling ELSE installing[x]
  BY <1>1
<1>4. UpdateTypeOK'
  BY <1>1, <1>2, EmptyUpdates DEF UpdateTypeOK
<1>5. TargetsPublished'
  BY <1>1, <1>2, <1>3, RequestOver DEF TargetsPublished, PublishedReaches
<1>6. SuccessMeansInstalled'
  BY <1>2 DEF SuccessMeansInstalled
<1>7. (~overwritten => CopiesAlike /\ OnCourse)'
  <2> SUFFICES ASSUME ~overwritten' PROVE CopiesAlike' /\ OnCourse'
    OBVIOUS
  <2>1. CopiesAlike /\ OnCourse
    BY <1>1 DEF UpgradeInv
  <2>2. record'.to = record.to
    BY <1>1, <1>2, <2>1 DEF CopiesAlike
  <2> QED BY <1>1, <1>3, <2>1, <2>2, EmptyUpdates DEF CopiesAlike, OnCourse, Works, TellsTheTruth
<1> QED BY <1>4, <1>5, <1>6, <1>7 DEF UpgradeInv

LEMMA DismissalKeepsUpgrade ==
  ASSUME UpgradeInv, NEW d \in Dismissers, Dismiss(d) \/ \E able \in BOOLEAN : Clear(d, able)
  PROVE  UpgradeInv'
<1>1. UpdateTypeOK /\ TargetsPublished
  BY DEF UpgradeInv
<1>2. CASE UNCHANGED <<published, checkout, backend, check, record, updater, installing, overwritten>>
  BY <1>2 DEF UpgradeInv, UpdateTypeOK, TargetsPublished, PublishedReaches, SuccessMeansInstalled,
              CopiesAlike, OnCourse, TellsTheTruth, Works
<1>3. CASE Clear(d, TRUE)
  <2>1. /\ backend.at = "up" /\ StoreFree /\ record' = NoRecord
        /\ overwritten' = (overwritten \/ LiveStatus(record) \/ Works(updater))
        /\ UNCHANGED <<published, checkout, backend, check, updater, installing>>
    BY <1>3 DEF Clear
  <2>2. overwritten' \in BOOLEAN
    BY <1>1, <2>1 DEF UpdateTypeOK
  <2>3. UpdateTypeOK'
    BY <1>1, <2>1, <2>2, EmptyUpdates DEF UpdateTypeOK
  <2>4. TargetsPublished'
    BY <1>1, <2>1, EmptyUpdates, NothingReached DEF TargetsPublished, PublishedReaches
  <2>5. SuccessMeansInstalled'
    BY <2>1, EmptyUpdates DEF SuccessMeansInstalled
  <2>6. (~overwritten => CopiesAlike /\ OnCourse)'
    BY <2>1, NoCopies DEF CopiesAlike, OnCourse, Works, StoreFree
  <2> QED BY <2>3, <2>4, <2>5, <2>6 DEF UpgradeInv
<1>4. CASE Clear(d, FALSE)
  <2>1. UNCHANGED <<published, checkout, backend, check, record, updater, installing>>
        /\ overwritten' = (overwritten \/ FALSE)
    BY <1>4 DEF Clear
  <2> QED BY <1>1, <1>2, <2>1 DEF UpdateTypeOK
<1>5. CASE Dismiss(d)
  BY <1>2, <1>5 DEF Dismiss
<1> QED BY <1>3, <1>4, <1>5

---------------------------------------------------------------------------
(* The updater.                                                            *)

UpdaterRows ==
  [at : {"none", "exited", "load", "fetch", "compose", "probe", "tidy"} \union Writes,
   loaded : BOOLEAN, ok : BOOLEAN, to : Seq(Nat), seen : RunRecords]

\* What OnCourse says of the updater, and CopiesAlike.
Steered(u) ==
  /\ u.at \in {"commit", "build", "compose"} => AtLeast(checkout, record.to)
  /\ u.at \in {"restart", "probe"} \/ (u.at = "finish" /\ u.ok) =>
       AtLeast(backend.version, record.to)
Copies(u) == Works(u) /\ u.loaded => u.seen.to = record.to /\ TellsTheTruth(u.seen)

\* The updater's own step: a place it has earned, and a copy only of the record.
LEMMA UpdaterStep ==
  ASSUME UpgradeInv, NEW u \in UpdaterRows, updater' = u,
         u.loaded => u.at \in Writes \union {"exited"}, PublishedReaches(u.seen.to),
         ~overwritten => Steered(u) /\ Copies(u),
         UNCHANGED <<published, checkout, backend, check, record, installing, overwritten>>
  PROVE  UpgradeInv'
<1>1. UpdateTypeOK'
  BY DEF UpgradeInv, UpdateTypeOK, UpdaterRows
<1>2. TargetsPublished'
  BY DEF UpgradeInv, TargetsPublished, PublishedReaches
<1>3. SuccessMeansInstalled'
  BY DEF UpgradeInv, SuccessMeansInstalled
<1>4. (~overwritten => CopiesAlike /\ OnCourse)'
  BY DEF UpgradeInv, CopiesAlike, OnCourse, Steered, Copies, TellsTheTruth, Works
<1> QED BY <1>1, <1>2, <1>3, <1>4 DEF UpgradeInv

LEMMA UpdaterNow ==
  ASSUME UpgradeInv
  PROVE  /\ updater \in UpdaterRows /\ (updater.loaded => updater.at \in Writes \union {"exited"})
         /\ PublishedReaches(updater.seen.to) /\ PublishedReaches(record.to)
         /\ record \in RunRecords /\ record.to \in Seq(Nat) /\ checkout \in Seq(Nat)
         /\ ~overwritten => Steered(updater) /\ Copies(updater)
         /\ TellsTheTruth(record) \/ overwritten
BY DEF UpgradeInv, UpdateTypeOK, TargetsPublished, CopiesAlike, OnCourse, UpdaterRows, Steered,
       Copies, SuccessMeansInstalled, TellsTheTruth, RunRecords

LEMMA AfterPlace ==
  ASSUME NEW w \in Writes
  PROVE  After[w] \in {"fetch", "build", "compose", "probe", "finish", "tidy"}
BY DEF Writes, After

LEMMA LoadingKeepsUpgrade ==
  ASSUME UpgradeInv, NEW able \in BOOLEAN, RunUpdater(able) \/ UpdateLoads(able)
  PROVE  UpgradeInv'
<1> DEFINE u == updater
<1>1. CASE RunUpdater(able)
  <2>1. /\ u.at = "load"
        /\ updater' \in {[u EXCEPT !.at = "start", !.to = record.to], [u EXCEPT !.at = "exited"]}
        /\ UNCHANGED <<published, checkout, backend, check, record, installing, overwritten>>
    BY <1>1 DEF RunUpdater
  <2>2. /\ updater' \in UpdaterRows /\ updater'.at \in {"start", "exited"}
        /\ updater'.loaded = u.loaded /\ updater'.seen = u.seen
    BY <2>1, UpdaterNow DEF UpdaterRows, Writes
  <2>3. ~u.loaded
    BY <2>1, UpdaterNow DEF Writes
  <2>4. Steered(updater') /\ Copies(updater')
    BY <2>2, <2>3 DEF Steered, Copies
  <2> QED BY <2>1, <2>2, <2>3, <2>4, UpdaterNow, UpdaterStep
<1>2. CASE UpdateLoads(able) /\ updater' = [u EXCEPT !.at = After[u.at]]
  <2>1. /\ u.at \in Writes /\ ~u.loaded
        /\ UNCHANGED <<published, checkout, backend, check, record, installing, overwritten>>
    BY <1>2 DEF UpdateLoads
  <2>2. /\ updater' \in UpdaterRows /\ updater'.at = After[u.at] /\ updater'.ok = u.ok
        /\ updater'.loaded = u.loaded /\ updater'.seen = u.seen
    <3>1. After[u.at] \in {"none", "exited", "load", "fetch", "compose", "probe", "tidy"} \union Writes
      BY <2>1, AfterPlace DEF Writes
    <3> QED BY <1>2, <3>1, UpdaterNow DEF UpdaterRows
  <2>3. Steered(u) => Steered(updater')
    BY <2>1, <2>2 DEF Steered, After, Writes
  <2>4. Copies(updater')
    BY <2>1, <2>2 DEF Copies
  <2> QED BY <2>1, <2>2, <2>3, <2>4, UpdaterNow, UpdaterStep
<1>3. CASE UpdateLoads(able) /\ updater' = [u EXCEPT !.loaded = TRUE, !.seen = record]
  <2>1. /\ u.at \in Writes
        /\ UNCHANGED <<published, checkout, backend, check, record, installing, overwritten>>
    BY <1>3 DEF UpdateLoads
  <2>2. /\ updater' \in UpdaterRows /\ updater'.at = u.at /\ updater'.ok = u.ok
        /\ updater'.loaded /\ updater'.seen = record
    BY <1>3, UpdaterNow DEF UpdaterRows
  <2>3. Steered(u) => Steered(updater')
    BY <2>2 DEF Steered
  <2>4. overwritten \/ Copies(updater')
    BY <2>2, UpdaterNow DEF Copies
  <2> QED BY <2>1, <2>2, <2>3, <2>4, UpdaterNow, UpdaterStep
<1> QED BY <1>1, <1>2, <1>3 DEF UpdateLoads

\* The updater writes its copy back: the record stays of its run, and says success only
\* where the backend is at the target.
LEMMA SavingKeepsUpgrade ==
  ASSUME UpgradeInv, UpdateSaves
  PROVE  UpgradeInv'
<1> DEFINE u == updater
<1>1. /\ u.at \in Writes /\ u.loaded /\ record' = Progress(u.at, u.seen, u.ok)
      /\ updater' = [u EXCEPT !.at = After[u.at], !.loaded = FALSE, !.seen = NoRecord]
      /\ UNCHANGED <<published, checkout, backend, check, installing, overwritten>>
  BY DEF UpdateSaves
<1>2. u \in UpdaterRows /\ u.ok \in BOOLEAN /\ u.seen \in RunRecords
  BY UpdaterNow DEF UpdaterRows
<1>3. /\ updater' \in UpdaterRows /\ updater'.at = After[u.at] /\ updater'.ok = u.ok
      /\ ~updater'.loaded /\ updater'.seen = NoRecord
  <2>1. After[u.at] \in {"none", "exited", "load", "fetch", "compose", "probe", "tidy"} \union Writes
    BY <1>1, AfterPlace DEF Writes
  <2> QED BY <1>1, <1>2, <2>1, EmptyUpdates DEF UpdaterRows
<1>4. /\ record' \in RunRecords /\ record'.to = u.seen.to
      /\ record'.status = "success" => (u.at = "finish" /\ u.ok) \/ u.seen.status = "success"
  BY <1>1, <1>2, ProgressTold
<1>5. UpdateTypeOK'
  BY <1>1, <1>3, <1>4 DEF UpgradeInv, UpdateTypeOK, UpdaterRows
<1>6. TargetsPublished'
  BY <1>1, <1>3, <1>4, EmptyUpdates, NothingReached DEF UpgradeInv, TargetsPublished, PublishedReaches
<1>7. ASSUME ~overwritten PROVE SuccessMeansInstalled' /\ CopiesAlike' /\ OnCourse'
  <2>1. Works(u) /\ CopiesAlike /\ OnCourse /\ record'.to = record.to /\ TellsTheTruth(u.seen)
    BY <1>1, <1>4, <1>7 DEF UpgradeInv, CopiesAlike, Works, Writes
  <2>2. SuccessMeansInstalled'
    BY <1>1, <1>4, <2>1 DEF SuccessMeansInstalled, OnCourse, TellsTheTruth
  <2>3. CopiesAlike'
    BY <1>1, <1>3, <2>1 DEF CopiesAlike, TellsTheTruth
  <2>4. OnCourse'
    BY <1>1, <1>3, <2>1 DEF OnCourse, After, Writes
  <2> QED BY <2>2, <2>3, <2>4
<1>8. overwritten => SuccessMeansInstalled'
  BY <1>1 DEF SuccessMeansInstalled
<1> QED BY <1>1, <1>5, <1>6, <1>7, <1>8 DEF UpgradeInv

LEMMA ProbingKeepsUpgrade ==
  ASSUME UpgradeInv, Tidy \/ \E ok \in BOOLEAN : waitHealthy(ok)
  PROVE  UpgradeInv'
<1> DEFINE u == updater
<1>1. CASE Tidy
  <2>1. /\ u.at = "tidy" /\ updater' \in {NoContainer, [u EXCEPT !.at = "exited"]}
        /\ UNCHANGED <<published, checkout, backend, check, record, installing, overwritten>>
    BY <1>1 DEF Tidy
  <2>2. updater' \in UpdaterRows /\ updater'.at \in {"none", "exited"}
    BY <2>1, UpdaterNow, EmptyUpdates DEF UpdaterRows
  <2>3. PublishedReaches(updater'.seen.to) /\ (updater'.loaded => updater'.at = "exited")
    <3>1. CASE updater' = NoContainer
      BY <3>1, EmptyUpdates, NothingReached DEF PublishedReaches
    <3>2. CASE updater' = [u EXCEPT !.at = "exited"]
      BY <3>2, UpdaterNow DEF UpdaterRows
    <3> QED BY <2>1, <3>1, <3>2
  <2>4. Steered(updater') /\ Copies(updater')
    BY <2>2 DEF Steered, Copies, Works
  <2> QED BY <2>1, <2>2, <2>3, <2>4, UpdaterStep
<1>2. ASSUME NEW ok \in BOOLEAN, waitHealthy(ok) PROVE UpgradeInv'
  <2>1. /\ u.at = "probe" /\ updater' = [u EXCEPT !.at = "finish", !.ok = ok]
        /\ UNCHANGED <<published, checkout, backend, check, record, installing, overwritten>>
    BY <1>2 DEF waitHealthy
  <2>2. ~u.loaded
    BY <2>1, UpdaterNow DEF Writes
  <2>3. /\ updater' \in UpdaterRows /\ updater'.at = "finish"
        /\ updater'.loaded = u.loaded /\ updater'.seen = u.seen
    BY <2>1, UpdaterNow DEF UpdaterRows, Writes
  <2>4. (~overwritten => Steered(updater')) /\ Copies(updater')
    BY <2>1, <2>2, <2>3, UpdaterNow DEF Steered, Copies
  <2> QED BY <2>1, <2>2, <2>3, <2>4, UpdaterNow, UpdaterStep
<1> QED BY <1>1, <1>2

\* The checkout is brought to the head of the branch, which has the target.
LEMMA FetchKeepsUpgrade ==
  ASSUME UpgradeInv, NEW ok \in BOOLEAN, NEW named \in BOOLEAN, fastForward(ok, named)
  PROVE  UpgradeInv'
<1> DEFINE u == updater
<1>1. /\ u.at = "fetch" /\ UNCHANGED <<published, backend, check, record, installing, overwritten>>
  BY DEF fastForward
<1>2. ~u.loaded
  BY <1>1, UpdaterNow DEF Writes
<1>3. CASE ok
  <2>1. /\ checkout' = Head_(published).version
        /\ updater' \in {[u EXCEPT !.at = "commit"], [u EXCEPT !.at = "build"]}
    BY <1>3 DEF fastForward
  <2>2. /\ updater' \in UpdaterRows /\ updater'.at \in {"commit", "build"}
        /\ updater'.loaded = u.loaded /\ updater'.seen = u.seen
    BY <2>1, UpdaterNow DEF UpdaterRows, Writes
  <2>3. checkout' \in Seq(Nat) /\ AtLeast(checkout', record.to)
    <3>1. published \in Manifests /\ published.releases # <<>>
      BY DEF UpgradeInv, UpdateTypeOK
    <3> QED BY <2>1, <3>1, UpdaterNow, HeadIsAVersion DEF PublishedReaches, Versions
  <2>4. UpdateTypeOK'
    BY <1>1, <1>2, <2>2, <2>3 DEF UpgradeInv, UpdateTypeOK, UpdaterRows
  <2>5. TargetsPublished'
    BY <1>1, <2>2 DEF UpgradeInv, TargetsPublished, PublishedReaches
  <2>6. SuccessMeansInstalled' /\ (~overwritten => CopiesAlike /\ OnCourse)'
    BY <1>1, <1>2, <2>2, <2>3 DEF UpgradeInv, SuccessMeansInstalled, CopiesAlike, OnCourse,
                                  TellsTheTruth, Works
  <2> QED BY <2>4, <2>5, <2>6 DEF UpgradeInv
<1>4. CASE ~ok
  <2>1. updater' = [u EXCEPT !.at = "finish", !.ok = FALSE] /\ UNCHANGED checkout
    BY <1>4 DEF fastForward
  <2>2. /\ updater' \in UpdaterRows /\ updater'.at = "finish" /\ ~updater'.ok
        /\ updater'.loaded = u.loaded /\ updater'.seen = u.seen
    BY <2>1, UpdaterNow DEF UpdaterRows, Writes
  <2>3. Steered(updater') /\ Copies(updater')
    BY <1>2, <2>2 DEF Steered, Copies
  <2> QED BY <1>1, <1>2, <2>1, <2>2, <2>3, UpdaterNow, UpdaterStep
<1> QED BY <1>3, <1>4

\* A request removes an updater, or starts one that has done nothing yet.
LEMMA ContainersKeepUpgrade ==
  ASSUME UpgradeInv, NEW i \in Installers,
         \/ \E removed \in BOOLEAN : RemoveOldUpdater(i, removed)
         \/ \E started, ok \in BOOLEAN : RunUpdaterContainer(i, started, ok)
  PROVE  UpgradeInv'
<1> DEFINE k == installing[i]
           Rows == [at : {"idle", "start", "record", "remove", "run", "unstarted", "failing"},
                    to : Seq(Nat), seen : RunRecords]
<1>1. /\ UpdateTypeOK /\ TargetsPublished /\ installing \in [Installers -> Rows] /\ k \in Rows
      /\ PublishedReaches(k.to) /\ PublishedReaches(k.seen.to)
  BY DEF UpgradeInv, UpdateTypeOK, TargetsPublished
<1>2. /\ backend.at = "up" /\ updater' \in {updater, NoContainer, [NoContainer EXCEPT !.at = "load"]}
      /\ installing' \in {[installing EXCEPT ![i].at = "run"], [installing EXCEPT ![i].at = "unstarted"],
                          [installing EXCEPT ![i] = NotInstalling]}
      /\ UNCHANGED <<published, checkout, backend, check, record, overwritten>>
  BY DEF RemoveOldUpdater, RunUpdaterContainer
<1>3. /\ updater' \in UpdaterRows
      /\ updater' = updater \/ (updater'.at \in {"none", "load"} /\ ~updater'.loaded /\ updater'.seen = NoRecord)
  BY <1>2, UpdaterNow, EmptyUpdates DEF UpdaterRows
<1>4. PICK row \in Rows : /\ installing' = [installing EXCEPT ![i] = row] /\ row.at # "failing"
                          /\ PublishedReaches(row.to) /\ PublishedReaches(row.seen.to)
  <2>1. CASE installing' = [installing EXCEPT ![i] = NotInstalling]
    BY <2>1, EmptyUpdates, RequestOver
  <2>2. ASSUME NEW place \in {"run", "unstarted"}, installing' = [installing EXCEPT ![i].at = place]
        PROVE  \E row \in Rows : /\ installing' = [installing EXCEPT ![i] = row] /\ row.at # "failing"
                                 /\ PublishedReaches(row.to) /\ PublishedReaches(row.seen.to)
    <3> DEFINE row == [k EXCEPT !.at = place]
    <3>1. installing' = [installing EXCEPT ![i] = row]
      BY <1>1, <2>2
    <3>2. row \in Rows /\ row.at # "failing" /\ row.to = k.to /\ row.seen = k.seen
      BY <1>1
    <3> QED BY <1>1, <3>1, <3>2
  <2> QED BY <1>2, <2>1, <2>2
<1>5. \A x \in Installers : installing'[x] = IF x = i THEN row ELSE installing[x]
  BY <1>1, <1>4
<1>6. UpdateTypeOK'
  BY <1>1, <1>2, <1>3, <1>4 DEF UpdateTypeOK, UpdaterRows
<1>7. TargetsPublished'
  BY <1>1, <1>2, <1>3, <1>4, <1>5, EmptyUpdates, NothingReached DEF TargetsPublished, PublishedReaches
<1>8. SuccessMeansInstalled' /\ (~overwritten => CopiesAlike /\ OnCourse)'
  <2>1. SuccessMeansInstalled'
    BY <1>2 DEF UpgradeInv, SuccessMeansInstalled
  <2>2. (~overwritten => CopiesAlike)'
    BY <1>2, <1>3, <1>4, <1>5 DEF UpgradeInv, CopiesAlike, TellsTheTruth, Works
  <2>3. (~overwritten => OnCourse)'
    BY <1>2, <1>3 DEF UpgradeInv, OnCourse
  <2> QED BY <2>1, <2>2, <2>3
<1> QED BY <1>6, <1>7, <1>8 DEF UpgradeInv

---------------------------------------------------------------------------
(* The backend is replaced, goes down, and settles what it finds.          *)

LEMMA ComposeKeepsUpgrade ==
  ASSUME UpgradeInv, NEW replaced \in BOOLEAN, NEW ok \in BOOLEAN, composeUp(replaced, ok)
  PROVE  UpgradeInv'
<1> DEFINE u == updater
<1>1. /\ u.at = "compose" /\ (ok => replaced)
      /\ updater' = [u EXCEPT !.at = IF ok THEN "restart" ELSE "finish", !.ok = (ok /\ ~HealthKnown)]
      /\ UNCHANGED <<published, checkout, record, overwritten>>
  BY DEF composeUp
<1>2. ~u.loaded
  BY <1>1, UpdaterNow DEF Writes
<1>3. (ok /\ ~HealthKnown) \in BOOLEAN
  OBVIOUS
<1>4. /\ updater' \in UpdaterRows /\ updater'.at = (IF ok THEN "restart" ELSE "finish")
      /\ (updater'.ok => ok) /\ updater'.loaded = u.loaded /\ updater'.seen = u.seen
  BY <1>1, <1>3, UpdaterNow DEF UpdaterRows, Writes
<1>5. CASE ~replaced
  <2>1. UNCHANGED <<backend, installing, check>>
    BY <1>5 DEF composeUp
  <2>2. Steered(updater') /\ Copies(updater')
    BY <1>1, <1>2, <1>4, <1>5 DEF Steered, Copies
  <2> QED BY <1>1, <1>2, <1>4, <2>1, <2>2, UpdaterNow, UpdaterStep
<1>6. CASE replaced
  <2>1. /\ backend' = [at |-> "boot", version |-> checkout, seen |-> NoRecord]
        /\ installing' = [i \in Installers |-> NotInstalling] /\ check' = NotChecked
    BY <1>6 DEF composeUp
  <2>2. UpdateTypeOK'
    BY <1>1, <1>2, <1>4, <2>1, EmptyUpdates DEF UpgradeInv, UpdateTypeOK, UpdaterRows, NotChecked
  <2>3. TargetsPublished'
    BY <1>1, <1>4, <2>1, EmptyUpdates, NothingReached
       DEF UpgradeInv, TargetsPublished, PublishedReaches, NotChecked
  <2>4. SuccessMeansInstalled' /\ (~overwritten => CopiesAlike /\ OnCourse)'
    <3> SUFFICES ASSUME ~overwritten PROVE SuccessMeansInstalled' /\ CopiesAlike' /\ OnCourse'
      BY <1>1 DEF SuccessMeansInstalled
    <3>1. AtLeast(checkout, record.to)
      BY <1>1 DEF UpgradeInv, OnCourse
    <3> QED BY <1>1, <1>2, <1>4, <2>1, <3>1, EmptyUpdates
            DEF SuccessMeansInstalled, CopiesAlike, OnCourse, TellsTheTruth
  <2> QED BY <2>2, <2>3, <2>4 DEF UpgradeInv
<1> QED BY <1>5, <1>6

LEMMA RebootKeepsUpgrade ==
  ASSUME UpgradeInv, NEW whole \in BOOLEAN, Reboot(whole)
  PROVE  UpgradeInv'
<1>1. /\ backend' = [backend EXCEPT !.at = "boot", !.seen = NoRecord]
      /\ updater' \in {updater, [updater EXCEPT !.at = "exited"]}
      /\ installing' = [i \in Installers |-> NotInstalling] /\ check' = NotChecked
      /\ UNCHANGED <<published, checkout, record, overwritten>>
  BY DEF Reboot
<1>2. /\ backend' \in [at : {"up", "boot", "nudge", "succeed", "fail", "remove"},
                       version : Seq(Nat), seen : RunRecords]
      /\ backend'.at = "boot" /\ backend'.version = backend.version /\ backend'.seen = NoRecord
  BY <1>1, EmptyUpdates DEF UpgradeInv, UpdateTypeOK
<1>3. /\ updater' \in UpdaterRows /\ updater'.loaded = updater.loaded /\ updater'.seen = updater.seen
      /\ updater' = updater \/ updater'.at = "exited"
  BY <1>1, UpdaterNow DEF UpdaterRows
<1>4. UpdateTypeOK'
  BY <1>1, <1>2, <1>3, EmptyUpdates DEF UpgradeInv, UpdateTypeOK, UpdaterRows, NotChecked
<1>5. TargetsPublished'
  BY <1>1, <1>2, <1>3, EmptyUpdates, NothingReached DEF UpgradeInv, TargetsPublished, PublishedReaches, NotChecked
<1>6. SuccessMeansInstalled' /\ (~overwritten => CopiesAlike /\ OnCourse)'
  BY <1>1, <1>2, <1>3, EmptyUpdates
     DEF UpgradeInv, SuccessMeansInstalled, CopiesAlike, OnCourse, TellsTheTruth, Works
<1> QED BY <1>4, <1>5, <1>6 DEF UpgradeInv

\* A booting backend's own step: it goes on to what it has established.
LEMMA BackendStep ==
  ASSUME UpgradeInv, backend.at # "up", backend'.version = backend.version,
         backend' \in [at : {"up", "boot", "nudge", "succeed", "fail", "remove"},
                       version : Seq(Nat), seen : RunRecords],
         backend'.seen # NoRecord => backend'.at \in {"nudge", "succeed", "fail"},
         PublishedReaches(backend'.seen.to),
         ~overwritten =>
           /\ backend'.seen # NoRecord => backend'.seen.to = record.to /\ TellsTheTruth(backend'.seen)
           /\ backend'.at = "succeed" => AtLeast(backend.version, record.to),
         UNCHANGED <<published, checkout, check, record, updater, installing, overwritten>>
  PROVE  UpgradeInv'
<1>1. UpdateTypeOK'
  BY DEF UpgradeInv, UpdateTypeOK
<1>2. TargetsPublished'
  BY DEF UpgradeInv, TargetsPublished, PublishedReaches
<1>3. SuccessMeansInstalled' /\ (~overwritten => CopiesAlike /\ OnCourse)'
  BY DEF UpgradeInv, SuccessMeansInstalled, CopiesAlike, OnCourse, TellsTheTruth, Works
<1> QED BY <1>1, <1>2, <1>3 DEF UpgradeInv

LEMMA BackendNow ==
  ASSUME UpgradeInv
  PROVE  /\ backend \in [at : {"up", "boot", "nudge", "succeed", "fail", "remove"},
                         version : Seq(Nat), seen : RunRecords]
         /\ backend.seen # NoRecord => backend.at \in {"nudge", "succeed", "fail"}
         /\ PublishedReaches(backend.seen.to) /\ PublishedReaches(NoRecord.to)
         /\ ~overwritten =>
              /\ backend.seen # NoRecord => backend.seen.to = record.to /\ TellsTheTruth(backend.seen)
              /\ backend.at = "succeed" => AtLeast(backend.version, record.to)
BY EmptyUpdates, NothingReached DEF UpgradeInv, UpdateTypeOK, TargetsPublished, PublishedReaches,
   CopiesAlike, OnCourse

LEMMA ReconcileKeepsUpgrade ==
  ASSUME UpgradeInv,
         \/ \E wish, aged \in BOOLEAN : Reconcile(wish, aged)
         \/ \E able \in BOOLEAN : ReconcileLoads(able)
  PROVE  UpgradeInv'
<1>1. ASSUME NEW wish \in BOOLEAN, NEW aged \in BOOLEAN, Reconcile(wish, aged) PROVE UpgradeInv'
  <2> DEFINE place == CASE ~LiveStatus(record)           -> "up"
                        [] wish /\ Works(updater)       -> "nudge"
                        [] ~wish /\ ~aged               -> "up"
                        [] OTHER -> IF SettleOk(backend.version, record.to) THEN "succeed" ELSE "fail"
  <2>1. /\ backend.at = "boot" /\ backend' = [backend EXCEPT !.at = place]
        /\ UNCHANGED <<published, checkout, check, record, updater, installing, overwritten>>
    BY <1>1 DEF Reconcile
  <2>2. /\ place \in {"up", "nudge", "succeed", "fail"}
        /\ place = "succeed" => AtLeast(backend.version, record.to)
    BY DEF SettleOk
  <2> HIDE DEF place
  <2>3. backend.seen = NoRecord
    BY <2>1, BackendNow
  <2>4. /\ backend' \in [at : {"up", "boot", "nudge", "succeed", "fail", "remove"},
                         version : Seq(Nat), seen : RunRecords]
        /\ backend'.at = place /\ backend'.version = backend.version /\ backend'.seen = NoRecord
    BY <2>1, <2>2, <2>3, BackendNow
  <2> QED BY <2>1, <2>2, <2>4, BackendNow, BackendStep
<1>2. ASSUME NEW able \in BOOLEAN, ReconcileLoads(able) PROVE UpgradeInv'
  <2>1. /\ backend.at \in {"nudge", "succeed", "fail"} /\ backend.seen = NoRecord
        /\ backend' \in {[backend EXCEPT !.seen = record], [backend EXCEPT !.at = "remove"],
                         [backend EXCEPT !.at = "up"]}
        /\ UNCHANGED <<published, checkout, check, record, updater, installing, overwritten>>
    BY <1>2 DEF ReconcileLoads
  <2>2. /\ backend' \in [at : {"up", "boot", "nudge", "succeed", "fail", "remove"},
                         version : Seq(Nat), seen : RunRecords]
        /\ backend'.version = backend.version
        /\ \/ backend'.seen = record /\ backend'.at = backend.at
           \/ backend'.seen = NoRecord /\ backend'.at \in {"remove", "up"}
    BY <2>1, BackendNow, UpdaterNow
  <2> QED BY <2>1, <2>2, BackendNow, UpdaterNow, BackendStep
<1> QED BY <1>1, <1>2

\* What a boot writes of the run it settles, or leaves to the updater.
LEMMA SettlingKeepsUpgrade ==
  ASSUME UpgradeInv, ReconcileSaves
  PROVE  UpgradeInv'
<1> DEFINE r == backend.seen
           told == CASE backend.at = "nudge" ->
                          IF AtLeast(backend.version, r.to) /\ r.phase = "building"
                          THEN [r EXCEPT !.phase = "restarting"] ELSE r
                     [] OTHER -> FinishRecord(r, backend.at = "succeed")
<1>1. /\ r # NoRecord /\ record' = told
      /\ backend' = [backend EXCEPT !.at = IF backend.at = "succeed" THEN "remove" ELSE "up", !.seen = NoRecord]
      /\ UNCHANGED <<published, checkout, check, updater, installing, overwritten>>
  BY DEF ReconcileSaves
<1>2. r \in RunRecords /\ backend.at \in {"nudge", "succeed", "fail"}
  BY <1>1, BackendNow
<1>3. /\ record' \in RunRecords /\ record'.to = r.to
      /\ record'.status = "success" => r.status = "success" \/ backend.at = "succeed"
  <2>1. CASE backend.at = "nudge"
    BY <1>1, <1>2, <2>1 DEF RunRecords
  <2>2. CASE backend.at # "nudge"
    <3>1. record' = FinishRecord(r, backend.at = "succeed") /\ (backend.at = "succeed") \in BOOLEAN
      BY <1>1, <2>2
    <3> QED BY <1>2, <3>1, FinishTold
  <2> QED BY <2>1, <2>2
<1> HIDE DEF told
<1>4. /\ backend' \in [at : {"up", "boot", "nudge", "succeed", "fail", "remove"},
                       version : Seq(Nat), seen : RunRecords]
      /\ backend'.at \in {"up", "remove"} /\ backend'.version = backend.version /\ backend'.seen = NoRecord
  BY <1>1, BackendNow, EmptyUpdates
<1>5. UpdateTypeOK'
  <2>1. \A i \in Installers : installing[i] = NotInstalling
    BY <1>2 DEF UpgradeInv, UpdateTypeOK
  <2> QED BY <1>1, <1>3, <1>4, <2>1 DEF UpgradeInv, UpdateTypeOK
<1>6. TargetsPublished'
  BY <1>1, <1>3, <1>4, BackendNow DEF UpgradeInv, TargetsPublished, PublishedReaches
<1>7. SuccessMeansInstalled' /\ (~overwritten => CopiesAlike /\ OnCourse)'
  <2> SUFFICES ASSUME ~overwritten PROVE SuccessMeansInstalled' /\ CopiesAlike' /\ OnCourse'
    BY <1>1 DEF SuccessMeansInstalled
  <2>1. CopiesAlike /\ OnCourse /\ record'.to = record.to /\ TellsTheTruth(r)
        /\ (backend.at = "succeed" => AtLeast(backend.version, record.to))
    BY <1>1, <1>3, BackendNow DEF UpgradeInv
  <2>2. SuccessMeansInstalled'
    BY <1>3, <1>4, <2>1 DEF SuccessMeansInstalled, TellsTheTruth
  <2>3. CopiesAlike' /\ OnCourse'
    BY <1>1, <1>4, <2>1 DEF CopiesAlike, OnCourse, TellsTheTruth, Works
  <2> QED BY <2>2, <2>3
<1> QED BY <1>5, <1>6, <1>7 DEF UpgradeInv

LEMMA SettledKeepsUpgrade ==
  ASSUME UpgradeInv, NEW removed \in BOOLEAN, ReconcileRemoves(removed)
  PROVE  UpgradeInv'
<1>1. /\ backend.at = "remove" /\ backend' = [backend EXCEPT !.at = "up"]
      /\ updater' \in {updater, NoContainer}
      /\ UNCHANGED <<published, checkout, check, record, installing, overwritten>>
  BY DEF ReconcileRemoves
<1>2. backend.seen = NoRecord
  BY <1>1, BackendNow
<1>3. /\ backend' \in [at : {"up", "boot", "nudge", "succeed", "fail", "remove"},
                       version : Seq(Nat), seen : RunRecords]
      /\ backend'.at = "up" /\ backend'.version = backend.version /\ backend'.seen = NoRecord
  BY <1>1, <1>2, BackendNow
<1>4. updater' = updater \/ (updater'.at = "none" /\ ~updater'.loaded /\ updater'.seen = NoRecord)
  BY <1>1, EmptyUpdates
<1>5. UpdateTypeOK'
  BY <1>1, <1>3, EmptyUpdates DEF UpgradeInv, UpdateTypeOK
<1>6. TargetsPublished'
  BY <1>1, <1>3, <1>4, BackendNow DEF UpgradeInv, TargetsPublished, PublishedReaches
<1>7. SuccessMeansInstalled' /\ (~overwritten => CopiesAlike /\ OnCourse)'
  BY <1>1, <1>3, <1>4 DEF UpgradeInv, SuccessMeansInstalled, CopiesAlike, OnCourse, TellsTheTruth, Works
<1> QED BY <1>5, <1>6, <1>7 DEF UpgradeInv

---------------------------------------------------------------------------

LEMMA UpgradeBegins == SelfUpdateInit => UpgradeInv
<1> SUFFICES ASSUME SelfUpdateInit PROVE UpgradeInv
  OBVIOUS
<1>1. /\ published \in Manifests /\ ParseManifest(published) /\ checkout = FirstVersion
      /\ backend = [at |-> "up", version |-> FirstVersion, seen |-> NoRecord]
      /\ check = NotChecked /\ record = NoRecord /\ updater = NoContainer
      /\ installing = [i \in Installers |-> NotInstalling] /\ overwritten = FALSE
  BY DEF SelfUpdateInit
<1>2. UpdateTypeOK
  BY <1>1, EmptyUpdates, SelfUpdateAssumption DEF UpdateTypeOK, ParseManifest, NotChecked
<1>3. TargetsPublished
  BY <1>1, EmptyUpdates, NothingReached DEF TargetsPublished, PublishedReaches, NotChecked
<1>4. SuccessMeansInstalled /\ CopiesAlike /\ OnCourse
  BY <1>1, EmptyUpdates DEF SuccessMeansInstalled, CopiesAlike, OnCourse, Works
<1> QED BY <1>2, <1>3, <1>4 DEF UpgradeInv

\* A run recorded as a success left the dashboard on the version it aimed at or a newer
\* one, unless its record was replaced while it was at work (Installer.Start, RunUpdater,
\* Installer.Reconcile): for any number of install and dismiss requests, restarts of the
\* dashboard and of the machine, and any changelogs the branch comes to carry.
THEOREM UpgradeInvariance == SelfUpdateSpec => []UpgradeInv
<1>1. UpgradeInv /\ [SelfUpdateNext]_selfUpdateVars => UpgradeInv'
  <2> SUFFICES ASSUME UpgradeInv, [SelfUpdateNext]_selfUpdateVars PROVE UpgradeInv'
    OBVIOUS
  <2>1. CASE \E m \in Manifests : Publish(m)
    BY <2>1, PublishKeepsUpgrade
  <2>2. CASE RefreshBegins \/ \E f \in BOOLEAN : RefreshEnds(f)
    BY <2>2, RefreshKeepsUpgrade
  <2>3. CASE \E i \in Installers :
               \/ \E l \in Listings, v \in {<<>>, check.latest} : handleSelfUpdateInstall(i, l, v)
               \/ StartInstall(i) \/ UnstartedSaves(i)
               \/ \E ok \in BOOLEAN : RecordPending(i, ok) \/ RemoveOldUpdater(i, ok) \/ UnstartedLoads(i, ok)
               \/ \E started, ok \in BOOLEAN : RunUpdaterContainer(i, started, ok)
    BY <2>3, RequestsKeepUpgrade, UnstartedKeepsUpgrade, PendingKeepsUpgrade, ContainersKeepUpgrade
  <2>4. CASE \E d \in Dismissers : Dismiss(d) \/ \E able \in BOOLEAN : Clear(d, able)
    BY <2>4, DismissalKeepsUpgrade
  <2>5. CASE \E able \in BOOLEAN : RunUpdater(able) \/ UpdateLoads(able)
    BY <2>5, LoadingKeepsUpgrade
  <2>6. CASE UpdateSaves \/ Tidy
    BY <2>6, SavingKeepsUpgrade, ProbingKeepsUpgrade
  <2>7. CASE \E ok, x \in BOOLEAN : fastForward(ok, x) \/ composeUp(x, ok)
    BY <2>7, FetchKeepsUpgrade, ComposeKeepsUpgrade
  <2>8. CASE \E ok \in BOOLEAN : waitHealthy(ok)
    BY <2>8, ProbingKeepsUpgrade
  <2>9. CASE \E w \in BOOLEAN : Reboot(w)
    BY <2>9, RebootKeepsUpgrade
  <2>10. CASE \E wish, aged \in BOOLEAN : Reconcile(wish, aged)
    BY <2>10, ReconcileKeepsUpgrade
  <2>11. CASE \E able \in BOOLEAN : ReconcileLoads(able) \/ ReconcileRemoves(able)
    BY <2>11, ReconcileKeepsUpgrade, SettledKeepsUpgrade
  <2>12. CASE ReconcileSaves
    BY <2>12, SettlingKeepsUpgrade
  <2>13. CASE UNCHANGED selfUpdateVars
    BY <2>13 DEF selfUpdateVars, UpgradeInv, UpdateTypeOK, TargetsPublished, PublishedReaches,
                 SuccessMeansInstalled, CopiesAlike, OnCourse, TellsTheTruth, Works
  <2> QED BY <2>1, <2>2, <2>3, <2>4, <2>5, <2>6, <2>7, <2>8, <2>9, <2>10, <2>11, <2>12, <2>13
          DEF SelfUpdateNext
<1> QED BY <1>1, UpgradeBegins, PTL DEF SelfUpdateSpec

---------------------------------------------------------------------------
(* fail2ban's jails.                                                       *)

\* Values laid over others are values for both sets of parameters.
LEMMA OverrideTunes ==
  ASSUME NEW f \in Tunings, NEW d \in Tunings
  PROVE  /\ Override(f, d) \in Tunings
         /\ DOMAIN Override(f, d) = DOMAIN f \union DOMAIN d
         /\ \A p \in DOMAIN d : Override(f, d)[p] = d[p]
         /\ \A p \in DOMAIN f \ DOMAIN d : Override(f, d)[p] = f[p]
<1>1. PICK D \in SUBSET Params : f \in [D -> TunedTo]
  BY DEF Tunings
<1>2. PICK E \in SUBSET Params : d \in [E -> TunedTo]
  BY DEF Tunings
<1>3. /\ D \union E \in SUBSET Params /\ Override(f, d) \in [D \union E -> TunedTo]
      /\ DOMAIN f = D /\ DOMAIN d = E
  BY <1>1, <1>2 DEF Override
<1>4. Override(f, d) \in Tunings
  BY <1>3 DEF Tunings
<1> QED BY <1>1, <1>2, <1>3, <1>4 DEF Override

LEMMA NothingTuned == <<>> \in Tunings /\ DOMAIN <<>> = {}
<1>1. <<>> \in [{} -> TunedTo]
  OBVIOUS
<1> QED BY <1>1 DEF Tunings

LEMMA NoCall == NoJailRequest \in JailCalls /\ NoJailRequest.at = "none" /\ NoJailRequest.jail = ""
  BY NothingTuned DEF NoJailRequest, JailCalls

LEMMA FileRead ==
  ASSUME NEW r \in JailCalls, NEW f \in JailFiles
  PROVE  /\ [r EXCEPT !.at = "write", !.file = f] \in JailCalls
         /\ [r EXCEPT !.at = "write", !.file = f].at = "write"
         /\ [r EXCEPT !.at = "write", !.file = f].jail = r.jail
         /\ [r EXCEPT !.at = "write", !.file = f].change = r.change
         /\ [r EXCEPT !.at = "write", !.file = f].file = f
  BY DEF JailCalls

LEMMA ListRead ==
  ASSUME NEW r \in JailCalls, NEW s \in SUBSET (BannedAddresses \union {"unset"})
  PROVE  /\ [r EXCEPT !.at = "read", !.list = s] \in JailCalls
         /\ [r EXCEPT !.at = "read", !.list = s].at = "read"
         /\ [r EXCEPT !.at = "read", !.list = s].jail = r.jail
         /\ [r EXCEPT !.at = "read", !.list = s].change = r.change
  BY DEF JailCalls

LEMMA JailsBegin == JailsInit => TuningInv
<1> SUFFICES ASSUME JailsInit PROVE TuningInv
  OBVIOUS
<1>1. NoSection \in JailSections
  BY NothingTuned DEF NoSection, JailSections
<1>2. JailsTypeOK
  <2>1. dropIn \in JailFiles /\ jailReq \in [JailRequests -> JailCalls]
    BY <1>1, NoCall DEF JailsInit, JailFiles
  <2>2. asked \in [JailNames -> Tunings] /\ running \in [JailNames -> Tunings]
    BY NothingTuned, JailsAssumption DEF JailsInit
  <2>3. /\ banned \in [JailNames -> SUBSET BannedAddresses] /\ listed \in [JailNames -> SUBSET BannedAddresses]
        /\ ignored \in [JailNames -> SUBSET (BannedAddresses \union {"unset"})]
    BY DEF JailsInit
  <2>4. up \in BOOLEAN /\ tunedAtOnce \in BOOLEAN /\ jailOps \in 0..MaxJailOps
    <3>1. up = TRUE /\ tunedAtOnce = FALSE /\ jailOps = 0
      BY DEF JailsInit
    <3>2. 0 \in 0..MaxJailOps
      BY JailsAssumption
    <3> QED BY <3>1, <3>2
  <2>5. \A q \in JailRequests : jailReq[q] = NoJailRequest
    BY DEF JailsInit
  <2> QED BY <2>1, <2>2, <2>3, <2>4, <2>5, NoCall DEF JailsTypeOK
<1>3. OneTuning
  BY DEF JailsInit, OneTuning, NoJailRequest
<1>4. TuningsComing /\ TuningSurvivesRestart
  BY NothingTuned DEF JailsInit, TuningsComing, TuningSurvivesRestart, SaysAsked
<1> QED BY <1>2, <1>3, <1>4 DEF TuningInv

\* A file that says what was asked is what fail2ban starts with.
LEMMA FileIsStarted ==
  ASSUME JailsTypeOK, TuningsComing
  PROVE  TuningSurvivesRestart
<1> SUFFICES ASSUME Answered, ~tunedAtOnce, NEW j \in JailNames, NEW p \in DOMAIN asked[j]
             PROVE  AtStart(j)[p] = asked[j][p]
  BY DEF TuningSurvivesRestart
<1>1. dropIn[j].params \in Tunings /\ SaysAsked(dropIn[j].params, j)
  BY DEF JailsTypeOK, JailFiles, JailSections, TuningsComing
<1>2. p \in DOMAIN dropIn[j].params /\ dropIn[j].params[p] = asked[j][p]
  BY <1>1 DEF SaysAsked
<1> QED BY <1>1, <1>2, OverrideTunes, JailsAssumption DEF AtStart

\* A request begins: the one before it is answered, or two are under way.
LEMMA BeginningKeepsTunings ==
  ASSUME TuningInv, NEW q \in JailRequests, NEW j \in JailNames,
         (\E c \in ParamChanges : SetJailParams(q, j, c))
           \/ (\E a \in BannedAddresses, add \in BOOLEAN : IgnoreIP(q, j, a, add))
  PROVE  TuningInv'
<1>1. CASE \E c \in ParamChanges : SetJailParams(q, j, c)
  <2> PICK n \in ParamChanges : SetJailParams(q, j, n)
    BY <1>1
  <2>1. n \in Tunings
    BY JailsAssumption
  <2>2. DEFINE r == [at |-> "read", jail |-> j, change |-> n, list |-> {"unset"}, file |-> <<>>]
  <2>3. /\ jailReq[q] = NoJailRequest /\ jailOps < MaxJailOps /\ jailOps' = jailOps + 1
        /\ jailReq' = [jailReq EXCEPT ![q] = r]
        /\ tunedAtOnce' = (tunedAtOnce \/ \E p \in JailRequests : jailReq[p] # NoJailRequest)
        /\ running' = IF up THEN [running EXCEPT ![j] = Override(running[j], n)] ELSE running
        /\ asked' = [asked EXCEPT ![j] = Override(asked[j], n)]
        /\ UNCHANGED <<ignored, banned, up, dropIn, listed>>
    BY DEF SetJailParams, Begins
  <2>4. JailsTypeOK
    BY DEF TuningInv
  <2>5. /\ running[j] \in Tunings /\ asked[j] \in Tunings
    BY <2>4 DEF JailsTypeOK
  <2>6. Override(running[j], n) \in Tunings /\ Override(asked[j], n) \in Tunings
    BY <2>1, <2>5, OverrideTunes
  <2>7. JailsTypeOK'
    <3>1. r \in JailCalls /\ r.at = "read" /\ r.jail = j
      BY <2>1, NoCall DEF JailCalls
    <3>2. jailReq' \in [JailRequests -> JailCalls] /\ jailReq'[q] = r
          /\ \A p \in JailRequests \ {q} : jailReq'[p] = jailReq[p]
      BY <2>3, <2>4, <3>1 DEF JailsTypeOK
    <3>3. jailOps' \in 0..MaxJailOps /\ tunedAtOnce' \in BOOLEAN
      BY <2>3, <2>4, JailsAssumption DEF JailsTypeOK
    <3>4. running' \in [JailNames -> Tunings] /\ asked' \in [JailNames -> Tunings]
      BY <2>3, <2>4, <2>6 DEF JailsTypeOK
    <3>5. \A p \in JailRequests : (jailReq'[p].at = "write" => jailReq'[p].file \in JailFiles)
                                 /\ (jailReq'[p].at # "none" => jailReq'[p].jail \in JailNames)
      BY <2>4, <3>1, <3>2 DEF JailsTypeOK
    <3> QED BY <2>3, <2>4, <3>2, <3>3, <3>4, <3>5 DEF JailsTypeOK
  <2>8. OneTuning'
    BY <2>3, <2>4 DEF TuningInv, OneTuning, NoJailRequest, JailsTypeOK
  <2>9. TuningsComing'
    <3> SUFFICES ASSUME ~tunedAtOnce', NEW i \in JailNames
                 PROVE  /\ Answered' => SaysAsked(dropIn[i].params, i)'
                        /\ \A p \in JailRequests : jailReq'[p] # NoJailRequest => SaysAsked(Coming(p, i), i)'
      BY DEF TuningsComing
    <3>1. SaysAsked(dropIn[i].params, i)
      BY <2>3 DEF TuningInv, TuningsComing, Answered
    <3>2. ~Answered'
      BY <2>3, <2>4 DEF Answered, NoJailRequest, JailsTypeOK
    <3>3. ASSUME NEW p \in JailRequests, jailReq'[p] # NoJailRequest PROVE SaysAsked(Coming(p, i), i)'
      <4>1. p = q /\ jailReq'[q] = r
        BY <2>3, <2>4, <3>3 DEF JailsTypeOK
      <4>2. dropIn[i].params \in Tunings /\ asked[i] \in Tunings
        BY <2>4 DEF JailsTypeOK, JailFiles, JailSections
      <4>3. CASE i = j
        <5>1. Coming(p, i)' = Override(dropIn[i].params, n) /\ asked'[i] = Override(asked[i], n)
          BY <2>3, <2>4, <4>1, <4>3 DEF Coming, JailsTypeOK
        <5> DEFINE f == dropIn[i].params
                   s == asked[i]
        <5>2. /\ DOMAIN Override(f, n) = DOMAIN f \union DOMAIN n /\ DOMAIN Override(s, n) = DOMAIN s \union DOMAIN n
              /\ \A x \in DOMAIN n : Override(f, n)[x] = n[x] /\ Override(s, n)[x] = n[x]
              /\ \A x \in DOMAIN f \ DOMAIN n : Override(f, n)[x] = f[x]
              /\ \A x \in DOMAIN s \ DOMAIN n : Override(s, n)[x] = s[x]
          BY <2>1, <4>2, OverrideTunes
        <5>3. \A x \in DOMAIN s : x \in DOMAIN f /\ f[x] = s[x]
          BY <3>1 DEF SaysAsked
        <5>4. \A x \in DOMAIN Override(s, n) :
                x \in DOMAIN Override(f, n) /\ Override(f, n)[x] = Override(s, n)[x]
          <6> HIDE DEF f, s
          <6> QED BY <5>2, <5>3
        <5> QED BY <5>1, <5>4 DEF SaysAsked
      <4>4. CASE i # j
        <5>1. Coming(p, i)' = dropIn[i].params /\ asked'[i] = asked[i]
          BY <2>3, <2>4, <4>1, <4>4 DEF Coming, JailsTypeOK
        <5> QED BY <2>3, <3>1, <4>1, <5>1 DEF SaysAsked
      <4> QED BY <4>3, <4>4
    <3> QED BY <3>2, <3>3
  <2>10. TuningSurvivesRestart'
    BY <2>3, <2>4 DEF TuningSurvivesRestart, Answered, NoJailRequest, JailsTypeOK
  <2> QED BY <2>7, <2>8, <2>9, <2>10 DEF TuningInv
<1>2. CASE \E a \in BannedAddresses, add \in BOOLEAN : IgnoreIP(q, j, a, add)
  <2> PICK a \in BannedAddresses, add \in BOOLEAN : IgnoreIP(q, j, a, add)
    BY <1>2
  <2>2. DEFINE r == [at |-> "list", jail |-> j, change |-> <<>>, list |-> {}, file |-> <<>>]
  <2>3. /\ jailReq[q] = NoJailRequest /\ jailOps < MaxJailOps /\ jailOps' = jailOps + 1
        /\ jailReq' = [jailReq EXCEPT ![q] = r]
        /\ tunedAtOnce' = (tunedAtOnce \/ \E p \in JailRequests : jailReq[p] # NoJailRequest)
        /\ ignored' = [ignored EXCEPT ![j] = IF add THEN ignored[j] \union {a} ELSE ignored[j] \ {a}]
        /\ listed' = [listed EXCEPT ![j] = IF add THEN listed[j] \union {a} ELSE listed[j] \ {a}]
        /\ UNCHANGED <<running, banned, up, dropIn, asked>>
    BY DEF IgnoreIP, Begins
  <2>4. JailsTypeOK
    BY DEF TuningInv
  <2>5. ignored'[j] \subseteq BannedAddresses \union {"unset"} /\ listed'[j] \subseteq BannedAddresses
    BY <2>3, <2>4 DEF JailsTypeOK
  <2>6. /\ ignored' \in [JailNames -> SUBSET (BannedAddresses \union {"unset"})]
        /\ listed' \in [JailNames -> SUBSET BannedAddresses]
    BY <2>3, <2>4, <2>5 DEF JailsTypeOK
  <2>7. JailsTypeOK'
    <3>1. r \in JailCalls /\ r.at = "list" /\ r.jail = j
      BY NothingTuned DEF JailCalls
    <3>2. jailReq' \in [JailRequests -> JailCalls] /\ jailReq'[q] = r
          /\ \A p \in JailRequests \ {q} : jailReq'[p] = jailReq[p]
      BY <2>3, <2>4, <3>1 DEF JailsTypeOK
    <3>3. jailOps' \in 0..MaxJailOps /\ tunedAtOnce' \in BOOLEAN
      BY <2>3, <2>4, JailsAssumption DEF JailsTypeOK
    <3>5. \A p \in JailRequests : (jailReq'[p].at = "write" => jailReq'[p].file \in JailFiles)
                                 /\ (jailReq'[p].at # "none" => jailReq'[p].jail \in JailNames)
      BY <2>4, <3>1, <3>2 DEF JailsTypeOK
    <3> QED BY <2>3, <2>4, <2>6, <3>2, <3>3, <3>5 DEF JailsTypeOK
  <2>8. OneTuning'
    BY <2>3, <2>4 DEF TuningInv, OneTuning, NoJailRequest, JailsTypeOK
  <2>9. TuningsComing'
    <3> SUFFICES ASSUME ~tunedAtOnce', NEW i \in JailNames
                 PROVE  /\ Answered' => SaysAsked(dropIn[i].params, i)'
                        /\ \A p \in JailRequests : jailReq'[p] # NoJailRequest => SaysAsked(Coming(p, i), i)'
      BY DEF TuningsComing
    <3>1. SaysAsked(dropIn[i].params, i)
      BY <2>3 DEF TuningInv, TuningsComing, Answered
    <3>2. ~Answered'
      BY <2>3, <2>4 DEF Answered, NoJailRequest, JailsTypeOK
    <3>3. ASSUME NEW p \in JailRequests, jailReq'[p] # NoJailRequest PROVE SaysAsked(Coming(p, i), i)'
      <4>1. p = q /\ jailReq'[q] = r
        BY <2>3, <2>4, <3>3 DEF JailsTypeOK
      <4>2. dropIn[i].params \in Tunings /\ asked[i] \in Tunings
        BY <2>4 DEF JailsTypeOK, JailFiles, JailSections
      <4>3. CASE i = j
        <5>1. Coming(p, i)' = Override(dropIn[i].params, <<>>) /\ asked'[i] = asked[i]
          BY <2>3, <2>4, <4>1, <4>3 DEF Coming, JailsTypeOK
        <5> DEFINE f == dropIn[i].params
        <5>2. DOMAIN Override(f, <<>>) = DOMAIN f /\ \A x \in DOMAIN f : Override(f, <<>>)[x] = f[x]
          <6> SUFFICES ASSUME NEW e \in Tunings, DOMAIN e = {}
                       PROVE  DOMAIN Override(f, e) = DOMAIN f /\ \A x \in DOMAIN f : Override(f, e)[x] = f[x]
            BY NothingTuned
          <6>1. /\ DOMAIN Override(f, e) = DOMAIN f \union DOMAIN e
                /\ \A x \in DOMAIN f \ DOMAIN e : Override(f, e)[x] = f[x]
            BY <4>2, OverrideTunes
          <6> HIDE DEF f
          <6> QED BY <6>1
        <5> QED BY <3>1, <5>1, <5>2 DEF SaysAsked
      <4>4. CASE i # j
        <5>1. Coming(p, i)' = dropIn[i].params /\ asked'[i] = asked[i]
          BY <2>3, <2>4, <4>1, <4>4 DEF Coming, JailsTypeOK
        <5> QED BY <2>3, <3>1, <4>1, <5>1 DEF SaysAsked
      <4> QED BY <4>3, <4>4
    <3> QED BY <3>2, <3>3
  <2>10. TuningSurvivesRestart'
    BY <2>3, <2>4 DEF TuningSurvivesRestart, Answered, NoJailRequest, JailsTypeOK
  <2> QED BY <2>7, <2>8, <2>9, <2>10 DEF TuningInv
<1> QED BY <1>1, <1>2

\* A request reads on: what it is about to write stays the same.
LEMMA ReadingKeepsTunings ==
  ASSUME TuningInv, NEW q \in JailRequests, JailConfig(q) \/ ReadOverride(q)
  PROVE  TuningInv'
<1>1. /\ jailReq[q].at \in {"list", "read"}
      /\ UNCHANGED <<running, ignored, banned, up, dropIn, asked, listed, tunedAtOnce, jailOps>>
  BY DEF JailConfig, ReadOverride
<1>2. JailsTypeOK
  BY DEF TuningInv
<1>3. /\ jailReq[q] \in JailCalls /\ jailReq[q].jail \in JailNames /\ dropIn \in JailFiles
      /\ jailReq \in [JailRequests -> JailCalls]
  BY <1>1, <1>2 DEF JailsTypeOK
<1>4. PICK n \in JailCalls :
        /\ jailReq' = [jailReq EXCEPT ![q] = n] /\ n.at \in {"read", "write"}
        /\ n.jail = jailReq[q].jail /\ n.change = jailReq[q].change
        /\ n.at = "write" => n.file = dropIn
  <2>1. CASE ReadOverride(q)
    <3> DEFINE n == [jailReq[q] EXCEPT !.at = "write", !.file = dropIn]
    <3>1. jailReq' = [jailReq EXCEPT ![q] = n]
      BY <1>3, <2>1 DEF ReadOverride
    <3> QED BY <1>3, <3>1, FileRead
  <2>2. CASE JailConfig(q)
    <3> DEFINE s == IF up THEN ignored[jailReq[q].jail] ELSE {}
               n == [jailReq[q] EXCEPT !.at = "read", !.list = s]
    <3>1. jailReq' = [jailReq EXCEPT ![q] = n]
      BY <1>3, <2>2 DEF JailConfig
    <3>2. s \in SUBSET (BannedAddresses \union {"unset"})
      BY <1>2, <1>3 DEF JailsTypeOK
    <3> QED BY <1>3, <3>1, <3>2, ListRead
  <2> QED BY <2>1, <2>2
<1>5. JailsTypeOK'
  <2>1. /\ jailReq' \in [JailRequests -> JailCalls] /\ jailReq'[q] = n
        /\ \A p \in JailRequests \ {q} : jailReq'[p] = jailReq[p]
    BY <1>3, <1>4
  <2>2. \A p \in JailRequests : (jailReq'[p].at = "write" => jailReq'[p].file \in JailFiles)
                               /\ (jailReq'[p].at # "none" => jailReq'[p].jail \in JailNames)
    BY <1>2, <1>3, <1>4, <2>1 DEF JailsTypeOK
  <2> QED BY <1>1, <1>2, <2>1, <2>2 DEF JailsTypeOK
<1>6. /\ jailReq'[q] # NoJailRequest /\ jailReq[q] # NoJailRequest
      /\ jailReq'[q] = n /\ \A p \in JailRequests \ {q} : jailReq'[p] = jailReq[p]
  BY <1>1, <1>3, <1>4, NoCall
<1>7. OneTuning'
  BY <1>1, <1>4, <1>6 DEF TuningInv, OneTuning
<1>8. TuningsComing'
  <2>1. ~Answered' /\ ~Answered
    BY <1>6 DEF Answered
  <2>2. \A p \in JailRequests, j \in JailNames : Coming(p, j)' = Coming(p, j)
    BY <1>1, <1>4, <1>6 DEF Coming
  <2> QED BY <1>1, <1>4, <1>6, <2>1, <2>2 DEF TuningInv, TuningsComing, SaysAsked
<1>9. TuningSurvivesRestart'
  BY <1>5, <1>8, FileIsStarted, <1>6 DEF TuningSurvivesRestart, Answered
<1> QED BY <1>5, <1>7, <1>8, <1>9 DEF TuningInv

\* The file is replaced by what was read with one section changed.
LEMMA WritingKeepsTunings ==
  ASSUME TuningInv, NEW q \in JailRequests, writeJailOverride(q)
  PROVE  TuningInv'
<1> DEFINE r == jailReq[q]
<1> DEFINE merged == [params |-> Override(r.file[r.jail].params, r.change),
                      ignore |-> IF r.list = {"unset"} THEN r.file[r.jail].ignore ELSE r.list]
<1>1. /\ r.at = "write" /\ dropIn' = [r.file EXCEPT ![r.jail] = merged]
      /\ jailReq' = [jailReq EXCEPT ![q] = NoJailRequest]
      /\ UNCHANGED <<running, ignored, banned, up, asked, listed, tunedAtOnce, jailOps>>
  BY DEF writeJailOverride, mergeJailOverrides
<1>2. JailsTypeOK
  BY DEF TuningInv
<1>3. /\ r.file \in JailFiles /\ r.jail \in JailNames /\ r.change \in Tunings
      /\ r.list \subseteq BannedAddresses \union {"unset"}
  <2>1. r \in JailCalls /\ r.file \in JailFiles /\ r.jail \in JailNames
    BY <1>1, <1>2 DEF JailsTypeOK
  <2> QED BY <2>1 DEF JailCalls
<1>4. r.file[r.jail].params \in Tunings /\ r.file[r.jail].ignore \subseteq BannedAddresses \union {"unset"}
  BY <1>3 DEF JailFiles, JailSections
<1>5. merged \in JailSections
  BY <1>3, <1>4, OverrideTunes DEF JailSections
<1>6. dropIn' \in JailFiles
  BY <1>1, <1>3, <1>5 DEF JailFiles
<1>7. JailsTypeOK'
  <2>1. /\ jailReq' \in [JailRequests -> JailCalls] /\ jailReq'[q] = NoJailRequest
        /\ \A p \in JailRequests \ {q} : jailReq'[p] = jailReq[p]
    BY <1>1, <1>2, NoCall DEF JailsTypeOK
  <2>2. \A p \in JailRequests : (jailReq'[p].at = "write" => jailReq'[p].file \in JailFiles)
                               /\ (jailReq'[p].at # "none" => jailReq'[p].jail \in JailNames)
    BY <1>2, <2>1, NoCall DEF JailsTypeOK
  <2> QED BY <1>1, <1>2, <1>6, <2>1, <2>2 DEF JailsTypeOK
<1>8. jailReq'[q] = NoJailRequest /\ \A p \in JailRequests \ {q} : jailReq'[p] = jailReq[p]
  BY <1>1, <1>2 DEF JailsTypeOK
<1>9. r # NoJailRequest
  BY <1>1, NoCall
<1>10. ~tunedAtOnce => r.file = dropIn /\ Answered'
  BY <1>1, <1>8, <1>9 DEF TuningInv, OneTuning, Answered
<1>11. OneTuning'
  BY <1>1, <1>8, <1>10, NoCall DEF OneTuning, Answered
<1>12. TuningsComing'
  <2> SUFFICES ASSUME ~tunedAtOnce, NEW j \in JailNames PROVE SaysAsked(dropIn[j].params, j)'
    BY <1>1, <1>10 DEF TuningsComing, Answered
  <2>1. SaysAsked(Coming(q, j), j)
    BY <1>9 DEF TuningInv, TuningsComing
  <2>2. dropIn'[j].params = Coming(q, j)
    BY <1>1, <1>3, <1>10 DEF Coming, JailFiles
  <2> QED BY <1>1, <2>1, <2>2 DEF SaysAsked
<1>13. TuningSurvivesRestart'
  <2> SUFFICES ASSUME Answered', ~tunedAtOnce', NEW j \in JailNames, NEW p \in DOMAIN asked'[j]
               PROVE  AtStart(j)'[p] = asked'[j][p]
    BY DEF TuningSurvivesRestart
  <2>1. dropIn'[j].params \in Tunings /\ SaysAsked(dropIn[j].params, j)'
    BY <1>7, <1>12 DEF JailsTypeOK, JailFiles, JailSections, TuningsComing
  <2>2. p \in DOMAIN dropIn'[j].params /\ dropIn'[j].params[p] = asked'[j][p]
    BY <2>1 DEF SaysAsked
  <2> QED BY <2>1, <2>2, OverrideTunes, JailsAssumption DEF AtStart
<1> QED BY <1>7, <1>11, <1>12, <1>13 DEF TuningInv

\* What fail2ban itself does leaves the file and the requests alone.
LEMMA ServerKeepsTunings ==
  ASSUME TuningInv,
         (\E j \in JailNames : UnbanAll(j) \/ \E a \in BannedAddresses : Ban(j, a) \/ Unban(j, a))
           \/ Fail2banStops \/ Fail2banStarts \/ UNCHANGED jailVars
  PROVE  TuningInv'
<1>1. UNCHANGED <<dropIn, jailReq, asked, listed, tunedAtOnce, jailOps>>
  BY DEF UnbanAll, Ban, Unban, Fail2banStops, Fail2banStarts, jailVars
<1>2. JailsTypeOK
  BY DEF TuningInv
<1>3. /\ banned' \in [JailNames -> SUBSET BannedAddresses] /\ up' \in BOOLEAN
  <2> SUFFICES ASSUME NEW bs \in [JailNames -> SUBSET BannedAddresses], bs = banned, up \in BOOLEAN
               PROVE  banned' \in [JailNames -> SUBSET BannedAddresses] /\ up' \in BOOLEAN
    BY <1>2 DEF JailsTypeOK
  <2>1. CASE \E j \in JailNames : UnbanAll(j)
    BY <2>1 DEF UnbanAll
  <2>2. CASE \E j \in JailNames, a \in BannedAddresses : Ban(j, a)
    BY <2>2 DEF Ban
  <2>3. CASE \E j \in JailNames, a \in BannedAddresses : Unban(j, a)
    BY <2>3 DEF Unban
  <2>4. CASE Fail2banStops \/ Fail2banStarts \/ UNCHANGED jailVars
    BY <2>4 DEF Fail2banStops, Fail2banStarts, jailVars
  <2> QED BY <2>1, <2>2, <2>3, <2>4
<1>4. /\ running' \in [JailNames -> Tunings]
      /\ ignored' \in [JailNames -> SUBSET (BannedAddresses \union {"unset"})]
  <2>1. CASE Fail2banStarts
    <3>1. ASSUME NEW j \in JailNames
          PROVE  AtStart(j) \in Tunings /\ IgnoredAtStart(j) \subseteq BannedAddresses \union {"unset"}
      <4>1. dropIn[j].params \in Tunings /\ dropIn[j].ignore \subseteq BannedAddresses \union {"unset"}
        BY <1>2 DEF JailsTypeOK, JailFiles, JailSections
      <4> QED BY <4>1, OverrideTunes, JailsAssumption DEF AtStart, IgnoredAtStart
    <3> QED BY <2>1, <3>1 DEF Fail2banStarts
  <2>2. CASE ~Fail2banStarts
    BY <1>2, <2>2 DEF UnbanAll, Ban, Unban, Fail2banStops, jailVars, JailsTypeOK
  <2> QED BY <2>1, <2>2
<1>5. JailsTypeOK'
  BY <1>1, <1>2, <1>3, <1>4 DEF JailsTypeOK
<1>6. OneTuning' /\ TuningsComing' /\ TuningSurvivesRestart'
  BY <1>1 DEF TuningInv, OneTuning, TuningsComing, TuningSurvivesRestart, Answered, SaysAsked, Coming, AtStart
<1> QED BY <1>5, <1>6 DEF TuningInv

\* What an operator set of a jail is what fail2ban starts with, of any number of
\* jails and requests, as long as one is answered before the next
\* (SetJailParams, mergeJailOverrides, writeJailOverride).
THEOREM TuningInvariance == JailsSpec => []TuningInv
<1>1. TuningInv /\ [JailsNext]_jailVars => TuningInv'
  <2> SUFFICES ASSUME TuningInv, [JailsNext]_jailVars PROVE TuningInv'
    OBVIOUS
  <2> QED BY BeginningKeepsTunings, ReadingKeepsTunings, WritingKeepsTunings, ServerKeepsTunings
          DEF JailsNext
<1> QED BY <1>1, JailsBegin, PTL DEF JailsSpec

---------------------------------------------------------------------------
(* The containers.                                                         *)

BoxesTyped ==
  /\ box = [i \in BoxIds |-> box[i]]
  /\ \A i \in BoxIds : box[i] \in BoxRows(box[i].config)
CallsTyped ==
  /\ boxCall = [q \in BoxRequests |-> boxCall[q]]
  /\ \A q \in BoxRequests : boxCall[q] \in BoxCallRows(boxCall[q].spec)

LEMMA ContainersParts ==
  /\ ContainersTypeOK <=> BoxesTyped /\ CallsTyped /\ swept \in BOOLEAN /\ crowded \in BOOLEAN
BY Zenon DEF ContainersTypeOK, BoxesTyped, CallsTyped

\* Rows whose fields are replaced are rows.
LEMMA BoxRow ==
  ASSUME NEW config, NEW b \in BoxRows(config)
  PROVE  /\ \A n \in Seq(NameParts) :
              /\ [b EXCEPT !.name = n] \in BoxRows(config) /\ [b EXCEPT !.name = n].config = b.config
              /\ [b EXCEPT !.name = n].on = b.on /\ [b EXCEPT !.name = n].name = n
         /\ \A o \in {"created", "running", "paused", "exited"} :
              /\ [b EXCEPT !.on = o] \in BoxRows(config) /\ [b EXCEPT !.on = o].config = b.config
              /\ [b EXCEPT !.on = o].on = o /\ [b EXCEPT !.on = o].name = b.name
BY DEF BoxRows

LEMMA NoBoxRow == NoBox \in BoxRows(NoBox.config) /\ NoBox.on = "gone"
<1>1. <<>> \in Seq(NameParts)
  OBVIOUS
<1> QED BY <1>1 DEF NoBox, BoxRows

LEMMA CallRow ==
  ASSUME NEW spec, NEW c \in BoxCallRows(spec)
  PROVE  /\ \A i \in BoxIds : [c EXCEPT !.at = "start", !.new = i] \in BoxCallRows(spec)
         /\ c.kind = "recreate" => [c EXCEPT !.at = "expend"] \in BoxCallRows(spec)
         /\ \A res \in {"ok", "failed"} : [c EXCEPT !.at = "idle", !.result = res] \in BoxCallRows(spec)
         /\ [c EXCEPT !.alive = FALSE] \in BoxCallRows(spec)
<1>1. \A i \in BoxIds : [c EXCEPT !.at = "start", !.new = i] \in BoxCallRows(spec)
  BY DEF BoxCallRows
<1>2. c.kind = "recreate" => [c EXCEPT !.at = "expend"] \in BoxCallRows(spec)
  BY DEF BoxCallRows
<1>3. \A res \in {"ok", "failed"} : [c EXCEPT !.at = "idle", !.result = res] \in BoxCallRows(spec)
  BY DEF BoxCallRows
<1>4. [c EXCEPT !.alive = FALSE] \in BoxCallRows(spec)
  BY DEF BoxCallRows
<1> QED BY <1>1, <1>2, <1>3, <1>4

\* One box, or one request, is replaced.
LEMMA BoxSet ==
  ASSUME BoxesTyped, NEW i \in BoxIds, NEW b, b \in BoxRows(b.config),
         box' = [box EXCEPT ![i] = b]
  PROVE  BoxesTyped' /\ box'[i] = b /\ \A j \in BoxIds \ {i} : box'[j] = box[j]
<1>1. box'[i] = b /\ \A j \in BoxIds \ {i} : box'[j] = box[j]
  BY DEF BoxesTyped
<1>2. \A j \in BoxIds : box'[j] \in BoxRows(box'[j].config)
  BY <1>1 DEF BoxesTyped
<1>3. box' = [j \in BoxIds |-> box'[j]]
  BY DEF BoxesTyped
<1> QED BY <1>1, <1>2, <1>3 DEF BoxesTyped

LEMMA CallSet ==
  ASSUME CallsTyped, NEW q \in BoxRequests, NEW c, c \in BoxCallRows(c.spec),
         boxCall' = [boxCall EXCEPT ![q] = c]
  PROVE  CallsTyped' /\ boxCall'[q] = c /\ \A r \in BoxRequests \ {q} : boxCall'[r] = boxCall[r]
<1>1. boxCall'[q] = c /\ \A r \in BoxRequests \ {q} : boxCall'[r] = boxCall[r]
  BY DEF CallsTyped
<1>2. \A r \in BoxRequests : boxCall'[r] \in BoxCallRows(boxCall'[r].spec)
  BY <1>1 DEF CallsTyped
<1>3. boxCall' = [r \in BoxRequests |-> boxCall'[r]]
  BY DEF CallsTyped
<1> QED BY <1>1, <1>2, <1>3 DEF CallsTyped

\* What exists goes on to exist; its name stays, or is one given by hand.
StillThere == \A i \in BoxIds : Exists(i) => Exists(i)'
NamesKept ==
  \A i \in BoxIds : Exists(i) => box'[i].name \in {box[i].name, <<"web">>, <<"other">>}

\* A parking name is no name of a container that is not parked.
LEMMA ParkedApart ==
  ASSUME NEW n \in Seq(NameParts)
  PROVE  Parked(n) \in Seq(NameParts) /\ Parked(n) # n /\ Parked(n) # <<"web">> /\ Parked(n) # <<"other">>
<1>1. "_jd_replaced" \in NameParts
  BY DEF NameParts
<1>2. Parked(n) \in Seq(NameParts) /\ Len(Parked(n)) = Len(n) + 1 /\ Len(n) \in Nat
      /\ Parked(n)[Len(n) + 1] = "_jd_replaced"
  BY <1>1 DEF Parked
<1>3. Parked(n) # n
  BY <1>2
<1>4. ASSUME Len(n) # 0 PROVE Parked(n) # <<"web">> /\ Parked(n) # <<"other">>
  BY <1>2, <1>4
<1>5. ASSUME Len(n) = 0 PROVE Parked(n) # <<"web">> /\ Parked(n) # <<"other">>
  BY <1>2, <1>5
<1> QED BY <1>2, <1>3, <1>4, <1>5

LEMMA PlacedKept ==
  ASSUME NEW c, c \in BoxCallRows(c.spec), Placed(c), StillThere, NamesKept PROVE Placed(c)'
<1>1. c.name \in Seq(NameParts)
  BY DEF BoxCallRows
<1>2. ASSUME c.at = "clear" PROVE box'[c.id].name # Parked(c.name)
  BY <1>1, <1>2, ParkedApart DEF Placed, NamesKept
<1>3. c.id \in BoxIds /\ Exists(c.id)'
  BY DEF Placed, StillThere
<1>4. ASSUME c.at = "expend" PROVE Exists(c.new)'
  BY <1>4 DEF Placed, StillThere
<1>5. c.at \in {"start", "expend"} => c.new \in BoxIds \ {c.id}
  BY DEF Placed
<1> QED BY <1>2, <1>3, <1>4, <1>5 DEF Placed, Parked

\* A step by hand, or of a request that replaces nothing, leaves the replacements in place.
LEMMA BystanderKeeps ==
  ASSUME ContainersInv, StillThere, NamesKept, swept' = swept, crowded' = crowded,
         \A r \in Replacing' : r \in Replacing /\ boxCall'[r] = boxCall[r]
  PROVE  ReplacementPlaced' /\ ServiceLeft'
<1>1. ServiceLeft'
  BY DEF ContainersInv, ServiceLeft, StillThere
<1>2. ASSUME ~swept, ~crowded PROVE (\A q, r \in Replacing' : q = r) /\ \A q \in Replacing' : Placed(boxCall[q])'
  <2>1. (\A q, r \in Replacing : q = r) /\ \A q \in Replacing : Placed(boxCall[q])
    BY <1>2 DEF ContainersInv, ReplacementPlaced
  <2>2. ASSUME NEW q \in Replacing' PROVE Placed(boxCall[q])'
    <3>1. q \in Replacing /\ q \in BoxRequests /\ boxCall'[q] = boxCall[q]
      BY <2>2 DEF Replacing
    <3>2. boxCall[q] \in BoxCallRows(boxCall[q].spec)
      BY <3>1, ContainersParts DEF ContainersInv, CallsTyped
    <3> DEFINE c == boxCall[q]
    <3>3. Placed(c)
      BY <2>1, <3>1
    <3>4. boxCall'[q] = c
      BY <3>1
    <3> QED BY <3>2, <3>3, <3>4, PlacedKept DEF Placed, Exists, Parked
  <2> QED BY <2>1, <2>2
<1> QED BY <1>1, <1>2 DEF ReplacementPlaced

\* Where a replacement is, of given containers.
PlacedIn(b, c) ==
  /\ c.id \in BoxIds /\ b[c.id].on # "gone"
  /\ c.at = "clear" => b[c.id].name # Parked(c.name)
  /\ c.at \in {"start", "expend"} => c.new \in BoxIds \ {c.id}
  /\ c.at = "expend" => b[c.new].on # "gone"

LEMMA PlacedIs ==
  \A q : /\ Placed(boxCall[q]) <=> PlacedIn(box, boxCall[q])
         /\ Placed(boxCall[q])' <=> PlacedIn(box', boxCall'[q])
BY DEF Placed, PlacedIn, Exists, Parked

\* A step of the one replacement under way.
LEMMA OwnStep ==
  ASSUME ContainersInv, NEW q \in Replacing, NEW c,
         boxCall'[q] = c, \A r \in BoxRequests \ {q} : boxCall'[r] = boxCall[r],
         swept' = swept, crowded' = crowded,
         ~swept /\ ~crowded => (\E i \in BoxIds : Exists(i)') /\ (c.at # "idle" => PlacedIn(box', c))
  PROVE  ReplacementPlaced' /\ ServiceLeft'
<1>1. ServiceLeft'
  BY DEF ServiceLeft
<1>2. ASSUME ~swept, ~crowded PROVE (\A p, r \in Replacing' : p = r) /\ \A p \in Replacing' : Placed(boxCall[p])'
  <2>1. \A p \in Replacing : p = q
    BY <1>2 DEF ContainersInv, ReplacementPlaced
  <2>2. ASSUME NEW p \in Replacing' PROVE p = q
    <3>1. CASE p # q
      <4>1. p \in BoxRequests /\ boxCall'[p] = boxCall[p]
        BY <3>1 DEF Replacing
      <4>2. p \in Replacing
        BY <4>1 DEF Replacing
      <4> QED BY <2>1, <4>2
    <3> QED BY <3>1
  <2>3. ASSUME NEW p \in Replacing' PROVE Placed(boxCall[p])'
    <3>1. p = q /\ boxCall'[p].at # "idle"
      BY <2>2 DEF Replacing
    <3> QED BY <1>2, <3>1, PlacedIs
  <2> QED BY <2>2, <2>3
<1> QED BY <1>1, <1>2 DEF ReplacementPlaced

\* What a request under way has.
LEMMA UnderWay ==
  ASSUME ContainersInv, NEW q \in BoxRequests
  PROVE  /\ boxCall[q] \in BoxCallRows(boxCall[q].spec) /\ BoxesTyped /\ CallsTyped
         /\ q \in Replacing /\ ~swept /\ ~crowded =>
              PlacedIn(box, boxCall[q]) /\ \E i \in BoxIds : Exists(i)
<1>1. BoxesTyped /\ CallsTyped
  BY ContainersParts DEF ContainersInv
<1>2. boxCall[q] \in BoxCallRows(boxCall[q].spec)
  BY <1>1 DEF CallsTyped
<1>3. ASSUME q \in Replacing, ~swept, ~crowded PROVE PlacedIn(box, boxCall[q]) /\ \E i \in BoxIds : Exists(i)
  <2>1. PlacedIn(box, boxCall[q])
    BY <1>3, PlacedIs DEF ContainersInv, ReplacementPlaced
  <2> QED BY <2>1 DEF PlacedIn, Exists
<1> QED BY <1>1, <1>2, <1>3

\* A step of a request that goes on to another place or answers, and leaves the
\* containers there under their names.
LEMMA RequestGoesOn ==
  ASSUME ContainersInv, NEW q \in BoxRequests, NEW c, boxCall[q].at # "idle",
         c \in BoxCallRows(boxCall[q].spec), boxCall' = [boxCall EXCEPT ![q] = c],
         c.kind = boxCall[q].kind, c.id = boxCall[q].id, c.name = boxCall[q].name,
         BoxesTyped', StillThere, NamesKept, swept' = swept, crowded' = crowded,
         boxCall[q].kind = "recreate" =>
           /\ c.at = "clear" => boxCall[q].at = "clear"
           /\ c.at \in {"start", "expend"} => c.new \in BoxIds \ {c.id} \/ (c.new = boxCall[q].new /\ boxCall[q].at \in {"start", "expend"})
           /\ c.at = "expend" => box'[c.new].on # "gone" \/ (c.new = boxCall[q].new /\ boxCall[q].at = "expend")
  PROVE  ContainersInv'
<1>1. c.spec = boxCall[q].spec
  BY DEF BoxCallRows
<1>2. CallsTyped' /\ boxCall'[q] = c /\ \A r \in BoxRequests \ {q} : boxCall'[r] = boxCall[r]
  BY <1>1, UnderWay, CallSet
<1>3. ContainersTypeOK'
  <2>1. swept' \in BOOLEAN /\ crowded' \in BOOLEAN
    BY DEF ContainersInv, ContainersTypeOK
  <2> QED BY <1>2, <2>1, ContainersParts DEF ContainersTypeOK, BoxesTyped, CallsTyped
<1>4. CASE q \in Replacing
  <2>1. ASSUME ~swept, ~crowded PROVE (\E i \in BoxIds : Exists(i)') /\ (c.at # "idle" => PlacedIn(box', c))
    <3>1. PlacedIn(box, boxCall[q]) /\ \E i \in BoxIds : Exists(i)
      BY <1>4, <2>1, UnderWay
    <3>2. \E i \in BoxIds : Exists(i)'
      BY <3>1 DEF StillThere
    <3>3. c.name \in Seq(NameParts) /\ boxCall[q].kind = "recreate"
      BY <1>4 DEF BoxCallRows, Replacing
    <3>4. c.id \in BoxIds /\ box'[c.id].on # "gone"
      BY <3>1 DEF PlacedIn, StillThere, Exists
    <3>5. ASSUME c.at = "clear" PROVE box'[c.id].name # Parked(c.name)
      <4>1. box[c.id].on # "gone" /\ box[c.id].name # Parked(c.name)
        BY <3>1, <3>3, <3>5 DEF PlacedIn
      <4>2. box'[c.id].name \in {box[c.id].name, <<"web">>, <<"other">>}
        BY <3>4, <4>1 DEF NamesKept, Exists
      <4> QED BY <3>3, <4>1, <4>2, ParkedApart
    <3>6. ASSUME c.at \in {"start", "expend"} PROVE c.new \in BoxIds \ {c.id}
      BY <3>1, <3>3, <3>6 DEF PlacedIn
    <3>7. ASSUME c.at = "expend" PROVE box'[c.new].on # "gone"
      BY <3>1, <3>3, <3>6, <3>7 DEF PlacedIn, StillThere, Exists
    <3> QED BY <3>2, <3>4, <3>5, <3>6, <3>7 DEF PlacedIn
  <2> QED BY <1>2, <1>3, <1>4, <2>1, OwnStep DEF ContainersInv
<1>5. CASE q \notin Replacing
  <2>1. boxCall[q].kind # "recreate" /\ \A r \in Replacing' : r # q
    BY <1>2, <1>5 DEF Replacing
  <2>2. \A r \in Replacing' : r \in Replacing /\ boxCall'[r] = boxCall[r]
    BY <1>2, <2>1 DEF Replacing
  <2> QED BY <1>3, <2>2, BystanderKeeps DEF ContainersInv
<1> QED BY <1>4, <1>5

\* Once an operator removed something by hand, or two replacements overlapped, only the
\* types are claimed.
LEMMA NoLongerClaimed ==
  ASSUME ContainersInv, BoxesTyped', CallsTyped', swept' \in BOOLEAN, crowded' \in BOOLEAN,
         swept' \/ crowded'
  PROVE  ContainersInv'
<1>1. ContainersTypeOK'
  BY DEF ContainersTypeOK, BoxesTyped, CallsTyped
<1> QED BY <1>1 DEF ContainersInv, ReplacementPlaced, ServiceLeft

\* Nothing changes but where the request is.
LEMMA GoesTo ==
  ASSUME ContainersInv, NEW q \in BoxRequests, boxCall[q].at # "idle",
         NEW at \in {"idle", "name", "pull", "make", "aside", "stop", "restore"},
         at \in {"aside", "stop", "restore"} => boxCall[q].kind = "recreate",
         boxCall' = [boxCall EXCEPT ![q].at = at],
         BoxesTyped', StillThere, NamesKept, swept' = swept, crowded' = crowded
  PROVE  ContainersInv'
<1> DEFINE c == [boxCall[q] EXCEPT !.at = at]
<1>1. boxCall[q] \in BoxCallRows(boxCall[q].spec) /\ CallsTyped
  BY UnderWay
<1>2. c \in BoxCallRows(boxCall[q].spec) /\ c.at = at
  BY <1>1 DEF BoxCallRows
<1>3. c.kind = boxCall[q].kind /\ c.id = boxCall[q].id /\ c.name = boxCall[q].name
  BY <1>1 DEF BoxCallRows
<1>4. boxCall' = [boxCall EXCEPT ![q] = c]
  BY DEF CallsTyped
<1> HIDE DEF c
<1> QED BY <1>2, <1>3, <1>4, RequestGoesOn

LEMMA Answers ==
  ASSUME ContainersInv, NEW q \in BoxRequests, boxCall[q].at # "idle", NEW res \in {"ok", "failed"},
         BoxAnswer(q, res),
         BoxesTyped', StillThere, NamesKept, swept' = swept, crowded' = crowded
  PROVE  ContainersInv'
<1> DEFINE c == [boxCall[q] EXCEPT !.at = "idle", !.result = res]
<1>1. boxCall[q] \in BoxCallRows(boxCall[q].spec) /\ CallsTyped
  BY UnderWay
<1>2. c \in BoxCallRows(boxCall[q].spec)
  BY <1>1, CallRow
<1>3. c.kind = boxCall[q].kind /\ c.id = boxCall[q].id /\ c.name = boxCall[q].name /\ c.at = "idle"
  BY <1>1 DEF BoxCallRows
<1>4. boxCall' = [boxCall EXCEPT ![q] = c]
  BY DEF BoxAnswer
<1> HIDE DEF c
<1> QED BY <1>2, <1>3, <1>4, RequestGoesOn

LEMMA Fails ==
  ASSUME ContainersInv, NEW q \in BoxRequests, boxCall[q].at # "idle", CreateFails(q),
         BoxesTyped', StillThere, NamesKept, swept' = swept, crowded' = crowded
  PROVE  ContainersInv'
<1>1. CASE boxCall[q].kind = "recreate"
  BY <1>1, GoesTo DEF CreateFails, GoTo
<1>2. CASE boxCall[q].kind # "recreate"
  BY <1>2, Answers DEF CreateFails
<1> QED BY <1>1, <1>2

LEMMA SameBoxes ==
  ASSUME ContainersInv, box' = box PROVE BoxesTyped' /\ StillThere /\ NamesKept
<1>1. BoxesTyped
  BY ContainersParts DEF ContainersInv
<1> QED BY <1>1 DEF BoxesTyped, StillThere, NamesKept, Exists

LEMMA CreateStep ==
  ASSUME ContainersInv, NEW q \in BoxRequests,
         CheckName(q) \/ PullEnds(q) \/ ContainerMade(q) \/ StartMade(q)
  PROVE  ContainersInv'
<1>1. swept' = swept /\ crowded' = crowded /\ boxCall[q].at # "idle"
  BY DEF CheckName, PullEnds, ContainerMade, StartMade
<1>2. boxCall[q] \in BoxCallRows(boxCall[q].spec) /\ BoxesTyped /\ CallsTyped
  BY UnderWay
<1>3. CASE CreateFails(q) /\ box' = box
  BY <1>1, <1>3, SameBoxes, Fails
<1>4. CASE box' = box /\ \E at \in {"pull", "make"} : GoTo(q, at)
  BY <1>1, <1>4, SameBoxes, GoesTo DEF GoTo
<1>5. CASE CheckName(q)
  <2>1. box' = box /\ (CreateFails(q) \/ \E at \in {"pull", "make"} : GoTo(q, at))
    BY <1>5 DEF CheckName
  <2> QED BY <1>3, <1>4, <2>1
<1>6. CASE PullEnds(q)
  <2>1. box' = box /\ (CreateFails(q) \/ GoTo(q, "make"))
    BY <1>6 DEF PullEnds
  <2> QED BY <1>3, <1>4, <2>1
<1>7. ASSUME NEW i \in BoxIds, ContainerMade(q), ~Exists(i),
             box' = [box EXCEPT ![i] =
                  [name |-> IF boxCall[q].name = <<>> THEN <<"generated">> ELSE boxCall[q].name, on |-> "created",
                   config |-> toEngine(boxCall[q].spec), stack |-> FALSE]],
             boxCall' = [boxCall EXCEPT ![q].at = "start", ![q].new = i]
      PROVE  ContainersInv'
  <2> DEFINE n == IF boxCall[q].name = <<>> THEN <<"generated">> ELSE boxCall[q].name
             b == [name |-> n, on |-> "created", config |-> toEngine(boxCall[q].spec), stack |-> FALSE]
             c == [boxCall[q] EXCEPT !.at = "start", !.new = i]
  <2>1. n \in Seq(NameParts)
    <3>1. <<"generated">> \in Seq(NameParts)
      BY DEF NameParts
    <3>2. boxCall[q].name \in Seq(NameParts)
      BY <1>2 DEF BoxCallRows
    <3> QED BY <3>1, <3>2
  <2> HIDE DEF n
  <2>2. b \in BoxRows(b.config)
    BY <2>1 DEF BoxRows
  <2>3. box' = [box EXCEPT ![i] = b]
    BY <1>7 DEF n
  <2> HIDE DEF b
  <2>4. BoxesTyped' /\ \A j \in BoxIds \ {i} : box'[j] = box[j]
    BY <1>2, <2>2, <2>3, BoxSet
  <2>5. StillThere /\ NamesKept
    BY <1>7, <2>4 DEF StillThere, NamesKept, Exists
  <2>6. c \in BoxCallRows(boxCall[q].spec)
    BY <1>2, CallRow
  <2>7. c.kind = boxCall[q].kind /\ c.id = boxCall[q].id /\ c.name = boxCall[q].name /\ c.at = "start"
        /\ c.new = i
    BY <1>2 DEF BoxCallRows
  <2>8. boxCall' = [boxCall EXCEPT ![q] = c]
    BY <1>2, <1>7 DEF CallsTyped
  <2> HIDE DEF c
  <2>9. CASE q \in Replacing /\ ~swept /\ ~crowded
    <3>1. PlacedIn(box, boxCall[q])
      BY <2>9, UnderWay
    <3>2. i # boxCall[q].id
      BY <1>7, <3>1 DEF PlacedIn, Exists
    <3> QED BY <1>1, <2>4, <2>5, <2>6, <2>7, <2>8, <3>2, RequestGoesOn
  <2>10. CASE q \notin Replacing
    <3>1. boxCall[q].kind # "recreate"
      BY <1>1, <2>10 DEF Replacing
    <3> QED BY <1>1, <2>4, <2>5, <2>6, <2>7, <2>8, <3>1, RequestGoesOn
  <2>11. CASE swept \/ crowded
    <3>1. CallsTyped'
      BY <1>2, <2>6, <2>7, <2>8, CallSet DEF BoxCallRows
    <3>2. swept \in BOOLEAN /\ crowded \in BOOLEAN
      BY ContainersParts DEF ContainersInv
    <3> QED BY <1>1, <2>4, <2>11, <3>1, <3>2, NoLongerClaimed
  <2> QED BY <2>9, <2>10, <2>11
<1>8. CASE ContainerMade(q)
  <2>1. \/ CreateFails(q) /\ box' = box
        \/ \E i \in BoxIds :
             /\ ~Exists(i)
             /\ box' = [box EXCEPT ![i] =
                  [name |-> IF boxCall[q].name = <<>> THEN <<"generated">> ELSE boxCall[q].name, on |-> "created",
                   config |-> toEngine(boxCall[q].spec), stack |-> FALSE]]
             /\ boxCall' = [boxCall EXCEPT ![q].at = "start", ![q].new = i]
    BY <1>8, Zenon DEF ContainerMade
  <2> QED BY <1>3, <1>7, <1>8, <2>1
<1>9. CASE StartMade(q)
  <2> DEFINE i == boxCall[q].new
  <2>1. CASE CreateFails(q) /\ box' = box
    BY <1>3, <2>1
  <2>2. CASE /\ Exists(i) /\ box' = [box EXCEPT ![i].on = "running"]
             /\ IF boxCall[q].kind = "recreate" THEN GoTo(q, "expend") ELSE BoxAnswer(q, "ok")
    <3>1. BoxesTyped' /\ StillThere /\ NamesKept /\ (i \in BoxIds => box'[i].on = "running")
      <4>1. CASE i \notin BoxIds
        <5>1. box' = box
          BY <1>2, <2>2, <4>1 DEF BoxesTyped
        <5> QED BY <4>1, <5>1, SameBoxes
      <4>2. CASE i \in BoxIds
        <5> DEFINE b == [box[i] EXCEPT !.on = "running"]
        <5> HIDE DEF i
        <5>1. box[i] \in BoxRows(box[i].config)
          BY <1>2, <4>2 DEF BoxesTyped
        <5>2. b \in BoxRows(b.config) /\ b.on = "running" /\ b.name = box[i].name
          BY <5>1 DEF BoxRows
        <5>3. box' = [box EXCEPT ![i] = b]
          BY <1>2, <2>2 DEF BoxesTyped
        <5> HIDE DEF b
        <5>4. BoxesTyped' /\ box'[i] = b /\ \A j \in BoxIds \ {i} : box'[j] = box[j]
          BY <1>2, <4>2, <5>2, <5>3, BoxSet
        <5> QED BY <4>2, <5>2, <5>4 DEF StillThere, NamesKept, Exists
      <4> QED BY <4>1, <4>2
    <3>2. CASE boxCall[q].kind # "recreate"
      BY <1>1, <2>2, <3>1, <3>2, Answers
    <3>3. CASE boxCall[q].kind = "recreate"
      <4> DEFINE c == [boxCall[q] EXCEPT !.at = "expend"]
      <4>1. c \in BoxCallRows(boxCall[q].spec)
        BY <1>2, <3>3, CallRow
      <4>2. c.kind = boxCall[q].kind /\ c.id = boxCall[q].id /\ c.name = boxCall[q].name /\ c.at = "expend"
            /\ c.new = i
        BY <1>2 DEF BoxCallRows
      <4>3. boxCall' = [boxCall EXCEPT ![q] = c]
        BY <1>2, <2>2, <3>3 DEF CallsTyped, GoTo
      <4>4. boxCall[q].at = "start" /\ q \in Replacing
        BY <1>9, <3>3 DEF StartMade, Replacing
      <4> HIDE DEF c
      <4>5. CASE ~swept /\ ~crowded
        <5>1. i \in BoxIds
          BY <4>4, <4>5, UnderWay DEF PlacedIn
        <5> QED BY <1>1, <3>1, <4>1, <4>2, <4>3, <4>4, <5>1, RequestGoesOn
      <4>6. CASE swept \/ crowded
        <5>1. CallsTyped'
          BY <1>2, <4>1, <4>2, <4>3, CallSet DEF BoxCallRows
        <5>2. swept \in BOOLEAN /\ crowded \in BOOLEAN
          BY ContainersParts DEF ContainersInv
        <5> QED BY <1>1, <3>1, <4>6, <5>1, <5>2, NoLongerClaimed
      <4> QED BY <4>5, <4>6
    <3> QED BY <3>2, <3>3
  <2>3. \/ CreateFails(q) /\ box' = box
        \/ /\ Exists(i) /\ box' = [box EXCEPT ![i].on = "running"]
           /\ IF boxCall[q].kind = "recreate" THEN GoTo(q, "expend") ELSE BoxAnswer(q, "ok")
    BY <1>9, Zenon DEF StartMade
  <2> QED BY <2>1, <2>2, <2>3
<1> QED BY <1>5, <1>6, <1>8, <1>9

\* A step of a replacement that moves its original, or expends it.
LEMMA OwnGoesOn ==
  ASSUME ContainersInv, NEW q \in BoxRequests, NEW c, boxCall[q].at # "idle",
         boxCall[q].kind = "recreate", c \in BoxCallRows(boxCall[q].spec),
         boxCall' = [boxCall EXCEPT ![q] = c], c.id = boxCall[q].id,
         c.at \in {"idle", "name", "aside", "stop"},
         BoxesTyped', swept' = swept, crowded' = crowded,
         PlacedIn(box, boxCall[q]) => (\E i \in BoxIds : Exists(i)') /\ (c.at # "idle" => box'[c.id].on # "gone")
  PROVE  ContainersInv'
<1>1. c.spec = boxCall[q].spec /\ q \in Replacing
  BY DEF BoxCallRows, Replacing
<1>2. CallsTyped' /\ boxCall'[q] = c /\ \A r \in BoxRequests \ {q} : boxCall'[r] = boxCall[r]
  BY <1>1, UnderWay, CallSet
<1>3. swept \in BOOLEAN /\ crowded \in BOOLEAN
  BY ContainersParts DEF ContainersInv
<1>4. ContainersTypeOK'
  BY <1>2, <1>3 DEF ContainersTypeOK, BoxesTyped, CallsTyped
<1>5. ASSUME ~swept, ~crowded PROVE (\E i \in BoxIds : Exists(i)') /\ (c.at # "idle" => PlacedIn(box', c))
  <2>1. PlacedIn(box, boxCall[q])
    BY <1>1, <1>5, UnderWay
  <2> QED BY <2>1 DEF PlacedIn
<1> QED BY <1>1, <1>2, <1>4, <1>5, OwnStep DEF ContainersInv

LEMMA OwnAnswers ==
  ASSUME ContainersInv, NEW q \in BoxRequests, boxCall[q].at # "idle",
         boxCall[q].kind = "recreate", NEW res \in {"ok", "failed"}, BoxAnswer(q, res),
         BoxesTyped', swept' = swept, crowded' = crowded,
         PlacedIn(box, boxCall[q]) => \E i \in BoxIds : Exists(i)'
  PROVE  ContainersInv'
<1> DEFINE c == [boxCall[q] EXCEPT !.at = "idle", !.result = res]
<1>1. boxCall[q] \in BoxCallRows(boxCall[q].spec) /\ CallsTyped
  BY UnderWay
<1>2. c \in BoxCallRows(boxCall[q].spec)
  BY <1>1, CallRow
<1>3. c.id = boxCall[q].id /\ c.at = "idle"
  BY <1>1 DEF BoxCallRows
<1>4. boxCall' = [boxCall EXCEPT ![q] = c]
  BY DEF BoxAnswer
<1> HIDE DEF c
<1> QED BY <1>2, <1>3, <1>4, OwnGoesOn

LEMMA OwnGoesTo ==
  ASSUME ContainersInv, NEW q \in BoxRequests, boxCall[q].at # "idle",
         boxCall[q].kind = "recreate", NEW at \in {"name", "aside", "stop"}, GoTo(q, at),
         BoxesTyped', swept' = swept, crowded' = crowded,
         PlacedIn(box, boxCall[q]) => box'[boxCall[q].id].on # "gone"
  PROVE  ContainersInv'
<1> DEFINE c == [boxCall[q] EXCEPT !.at = at]
<1>1. boxCall[q] \in BoxCallRows(boxCall[q].spec) /\ CallsTyped
  BY UnderWay
<1>2. c \in BoxCallRows(boxCall[q].spec) /\ c.at = at /\ c.id = boxCall[q].id
  BY <1>1 DEF BoxCallRows
<1>3. boxCall' = [boxCall EXCEPT ![q] = c]
  BY <1>1 DEF CallsTyped, GoTo
<1>4. PlacedIn(box, boxCall[q]) => \E i \in BoxIds : Exists(i)'
  BY DEF PlacedIn, Exists
<1> HIDE DEF c
<1> QED BY <1>2, <1>3, <1>4, OwnGoesOn

LEMMA RenamedBackKeeps ==
  ASSUME BoxesTyped, NEW c, c \in BoxCallRows(c.spec), box' = RenamedBack(c)
  PROVE  BoxesTyped' /\ StillThere
<1>1. c.name \in Seq(NameParts)
  BY DEF BoxCallRows
<1>2. CASE c.id \in BoxIds /\ box' = [box EXCEPT ![c.id].name = c.name]
  <2> DEFINE b == [box[c.id] EXCEPT !.name = c.name]
  <2>1. box[c.id] \in BoxRows(box[c.id].config)
    BY <1>2 DEF BoxesTyped
  <2>2. b \in BoxRows(b.config) /\ b.on = box[c.id].on
    BY <1>1, <2>1 DEF BoxRows
  <2>3. box' = [box EXCEPT ![c.id] = b]
    BY <1>2
  <2> HIDE DEF b
  <2>4. BoxesTyped' /\ box'[c.id] = b /\ \A j \in BoxIds \ {c.id} : box'[j] = box[j]
    BY <1>2, <2>2, <2>3, BoxSet
  <2> QED BY <2>2, <2>4 DEF StillThere, Exists
<1>3. CASE box' = box
  BY <1>3 DEF BoxesTyped, StillThere, Exists
<1>4. CASE c.id \notin BoxIds
  <2>1. [box EXCEPT ![c.id].name = c.name] = box
    BY <1>4 DEF BoxesTyped
  <2> QED BY <1>3, <2>1 DEF RenamedBack
<1> QED BY <1>2, <1>3, <1>4 DEF RenamedBack

LEMMA RecreateStep ==
  ASSUME ContainersInv, NEW q \in BoxRequests,
         ClearParking(q) \/ SetAside(q) \/ StopOld(q) \/ Restore(q) \/ ExpendOld(q)
  PROVE  ContainersInv'
<1> DEFINE c == boxCall[q]
<1>1. /\ swept' = swept /\ crowded' = crowded
      /\ boxCall[q].at \in {"clear", "aside", "stop", "restore", "expend"}
  BY DEF ClearParking, SetAside, StopOld, Restore, ExpendOld
<1>2. c \in BoxCallRows(c.spec) /\ BoxesTyped /\ CallsTyped
  BY UnderWay
<1>3. c.at # "idle" /\ c.kind = "recreate" /\ c.name \in Seq(NameParts)
  BY <1>1, <1>2 DEF BoxCallRows
<1>4. ASSUME StillThere, PlacedIn(box, c) PROVE box'[c.id].on # "gone" /\ \E i \in BoxIds : Exists(i)'
  BY <1>4 DEF StillThere, PlacedIn, Exists
<1>5. CASE ClearParking(q)
  <2> DEFINE gone(i) == c.alive /\ i \in HolderOf(Parked(c.name))
  <2>1. /\ GoTo(q, "aside") /\ c.at = "clear"
        /\ box' = [i \in BoxIds |-> IF gone(i) THEN NoBox ELSE box[i]]
    BY <1>5 DEF ClearParking
  <2>2. BoxesTyped'
    <3> HIDE DEF gone
    <3>1. \A i \in BoxIds : box'[i] \in BoxRows(box'[i].config)
      BY <1>2, <2>1, NoBoxRow DEF BoxesTyped
    <3>2. box' = [i \in BoxIds |-> box'[i]]
      BY <2>1
    <3> QED BY <3>1, <3>2 DEF BoxesTyped
  <2>3. PlacedIn(box, c) => box'[c.id].on # "gone"
    <3> SUFFICES ASSUME PlacedIn(box, c) PROVE box'[c.id].on # "gone"
      OBVIOUS
    <3>1. c.id \in BoxIds /\ box[c.id].on # "gone" /\ box[c.id].name # Parked(c.name)
      BY <2>1 DEF PlacedIn
    <3>2. ~gone(c.id)
      BY <3>1 DEF HolderOf
    <3> HIDE DEF gone
    <3> QED BY <2>1, <3>1, <3>2
  <2> QED BY <1>1, <1>3, <2>1, <2>2, <2>3, OwnGoesTo
<1>6. CASE SetAside(q)
  <2>1. CASE Exists(c.id) /\ box' = [box EXCEPT ![c.id].name = Parked(c.name)] /\ GoTo(q, IF c.running THEN "stop" ELSE "name")
    <3>1. BoxesTyped' /\ (PlacedIn(box, c) => box'[c.id].on # "gone")
      <4>1. CASE c.id \notin BoxIds
        <5>1. box' = box
          BY <1>2, <2>1, <4>1 DEF BoxesTyped
        <5> QED BY <4>1, <5>1, SameBoxes DEF PlacedIn
      <4>2. CASE c.id \in BoxIds
        <5> DEFINE b == [box[c.id] EXCEPT !.name = Parked(c.name)]
        <5>1. box[c.id] \in BoxRows(box[c.id].config) /\ Parked(c.name) \in Seq(NameParts)
          BY <1>2, <1>3, <4>2, ParkedApart DEF BoxesTyped
        <5>2. b \in BoxRows(b.config) /\ b.on = box[c.id].on
          BY <5>1 DEF BoxRows
        <5>3. box' = [box EXCEPT ![c.id] = b]
          BY <2>1
        <5> HIDE DEF b
        <5>4. BoxesTyped' /\ box'[c.id] = b
          BY <1>2, <4>2, <5>2, <5>3, BoxSet
        <5> QED BY <2>1, <5>2, <5>4 DEF Exists
      <4> QED BY <4>1, <4>2
    <3>2. \E at \in {"name", "aside", "stop"} : GoTo(q, at)
      BY <2>1
    <3> QED BY <1>1, <1>3, <3>1, <3>2, OwnGoesTo
  <2>2. CASE box' = box /\ BoxAnswer(q, "failed")
    BY <1>1, <1>3, <2>2, SameBoxes, Answers
  <2> QED BY <1>6, <2>1, <2>2, Zenon DEF SetAside
<1>7. ASSUME box' = RenamedBack(c), BoxAnswer(q, "failed") PROVE ContainersInv'
  <2>1. BoxesTyped' /\ StillThere
    BY <1>2, <1>7, RenamedBackKeeps
  <2> QED BY <1>1, <1>3, <1>4, <1>7, <2>1, OwnAnswers
<1>8. ASSUME Exists(c.id), NEW o \in {"running", "exited"}, NEW n \in Seq(NameParts), NEW b,
             b = [box[c.id] EXCEPT !.name = n, !.on = o], box' = [box EXCEPT ![c.id] = b]
      PROVE  BoxesTyped' /\ StillThere
  <2>1. CASE c.id \notin BoxIds
    <3>1. box' = box
      BY <1>2, <1>8, <2>1 DEF BoxesTyped
    <3> QED BY <3>1, SameBoxes
  <2>2. CASE c.id \in BoxIds
    <3>1. box[c.id] \in BoxRows(box[c.id].config)
      BY <1>2, <2>2 DEF BoxesTyped
    <3>2. b \in BoxRows(b.config) /\ b.on = o
      BY <1>8, <3>1 DEF BoxRows
    <3>3. BoxesTyped' /\ box'[c.id] = b /\ \A j \in BoxIds \ {c.id} : box'[j] = box[j]
      BY <1>2, <1>8, <2>2, <3>2, BoxSet
    <3> QED BY <2>2, <3>2, <3>3 DEF StillThere, Exists
  <2> QED BY <2>1, <2>2
<1>9. CASE StopOld(q)
  <2>1. CASE Exists(c.id) /\ box' = [box EXCEPT ![c.id].on = "exited"] /\ GoTo(q, "name")
    <3>1. BoxesTyped' /\ StillThere
      <4>1. CASE c.id \notin BoxIds
        <5>1. box' = box
          BY <1>2, <2>1, <4>1 DEF BoxesTyped
        <5> QED BY <5>1, SameBoxes
      <4>2. CASE c.id \in BoxIds
        <5> DEFINE b == [box[c.id] EXCEPT !.on = "exited"]
        <5>1. box[c.id] \in BoxRows(box[c.id].config)
          BY <1>2, <4>2 DEF BoxesTyped
        <5>2. b \in BoxRows(b.config) /\ b.on = "exited"
          BY <5>1 DEF BoxRows
        <5>3. box' = [box EXCEPT ![c.id] = b]
          BY <2>1
        <5> HIDE DEF b
        <5>4. BoxesTyped' /\ box'[c.id] = b /\ \A j \in BoxIds \ {c.id} : box'[j] = box[j]
          BY <1>2, <4>2, <5>2, <5>3, BoxSet
        <5> QED BY <4>2, <5>2, <5>4 DEF StillThere, Exists
      <4> QED BY <4>1, <4>2
    <3> QED BY <1>1, <1>3, <1>4, <2>1, <3>1, OwnGoesTo
  <2> QED BY <1>7, <1>9, <2>1, Zenon DEF StopOld
<1>10. CASE Restore(q)
  <2>1. BoxAnswer(q, "failed")
    BY <1>10 DEF Restore
  <2>2. CASE Exists(c.id) /\ box' = [[box EXCEPT ![c.id].name = c.name] EXCEPT ![c.id].on = "running"]
    <3> DEFINE b == [box[c.id] EXCEPT !.name = c.name, !.on = "running"]
    <3>1. box' = [box EXCEPT ![c.id] = b]
      <4>1. CASE c.id \in BoxIds
        BY <1>2, <2>2, <4>1 DEF BoxesTyped
      <4>2. CASE c.id \notin BoxIds
        BY <1>2, <2>2, <4>2 DEF BoxesTyped
      <4> QED BY <4>1, <4>2
    <3>2. BoxesTyped' /\ StillThere
      BY <1>3, <1>8, <2>2, <3>1
    <3> QED BY <1>1, <1>3, <1>4, <2>1, <3>2, OwnAnswers
  <2>3. \/ box' = RenamedBack(c)
        \/ Exists(c.id) /\ box' = [[box EXCEPT ![c.id].name = c.name] EXCEPT ![c.id].on = "running"]
    BY <1>10 DEF Restore, RenamedBack
  <2> QED BY <1>7, <2>1, <2>2, <2>3
<1>11. CASE ExpendOld(q)
  <2>1. BoxAnswer(q, "ok") /\ c.at = "expend"
    BY <1>11 DEF ExpendOld
  <2>2. CASE box' = box
    BY <1>1, <1>3, <2>1, <2>2, SameBoxes, Answers
  <2>3. CASE box' = [box EXCEPT ![c.id] = NoBox]
    <3>1. CASE c.id \notin BoxIds
      <4>1. box' = box
        BY <1>2, <2>3, <3>1 DEF BoxesTyped
      <4> QED BY <2>2, <4>1
    <3>2. CASE c.id \in BoxIds
      <4>1. BoxesTyped' /\ \A j \in BoxIds \ {c.id} : box'[j] = box[j]
        BY <1>2, <2>3, <3>2, NoBoxRow, BoxSet
      <4>2. PlacedIn(box, c) => \E i \in BoxIds : Exists(i)'
        BY <2>1, <4>1 DEF PlacedIn, Exists
      <4> QED BY <1>1, <1>3, <2>1, <4>1, <4>2, OwnAnswers
    <3> QED BY <3>1, <3>2
  <2> QED BY <1>11, <2>2, <2>3 DEF ExpendOld
<1> QED BY <1>5, <1>6, <1>9, <1>10, <1>11

LEMMA BeginStep ==
  ASSUME ContainersInv, NEW q \in BoxRequests,
         handleContainerCreate(q) \/ handleContainerRecreate(q) \/ ContextEnds(q)
  PROVE  ContainersInv'
<1>1. boxCall[q] \in BoxCallRows(boxCall[q].spec) /\ BoxesTyped /\ CallsTyped
  BY UnderWay
<1>2. box' = box /\ swept' = swept
  BY DEF handleContainerCreate, handleContainerRecreate, ContextEnds
<1>3. BoxesTyped' /\ StillThere /\ NamesKept
  BY <1>2, SameBoxes
<1>4. swept \in BOOLEAN /\ crowded \in BOOLEAN
  BY ContainersParts DEF ContainersInv
<1>5. ASSUME NEW s, NEW n \in {<<>>, <<"web">>}, crowded' = crowded,
             Started(q, [NoBoxCall EXCEPT !.at = "name", !.kind = "create", !.name = n, !.spec = s])
      PROVE  ContainersInv'
  <2> DEFINE c == [NoBoxCall EXCEPT !.at = "name", !.kind = "create", !.name = n, !.spec = s]
  <2>1. n \in Seq(NameParts)
    <3>1. <<>> \in Seq(NameParts) /\ <<"web">> \in Seq(NameParts)
      BY DEF NameParts
    <3> QED BY <3>1
  <2>2. c \in BoxCallRows(c.spec) /\ c.kind = "create"
    BY <2>1 DEF NoBoxCall, BoxCallRows
  <2>3. boxCall' = [boxCall EXCEPT ![q] = c] /\ boxCall[q].at = "idle"
    BY <1>5 DEF Started
  <2> HIDE DEF c
  <2>4. CallsTyped' /\ boxCall'[q] = c /\ \A r \in BoxRequests \ {q} : boxCall'[r] = boxCall[r]
    BY <1>1, <2>2, <2>3, CallSet
  <2>5. \A r \in Replacing' : r \in Replacing /\ boxCall'[r] = boxCall[r]
    BY <2>2, <2>4 DEF Replacing
  <2>6. ContainersTypeOK'
    BY <1>2, <1>3, <1>4, <1>5, <2>4 DEF ContainersTypeOK, BoxesTyped, CallsTyped
  <2> QED BY <1>2, <1>3, <1>5, <2>5, <2>6, BystanderKeeps DEF ContainersInv
<1>6. CASE handleContainerCreate(q)
  <2>1. PICK s \in EditedSpecs, n \in {<<>>, <<"web">>} :
          /\ Started(q, [NoBoxCall EXCEPT !.at = "name", !.kind = "create", !.name = n, !.spec = s])
          /\ crowded' = crowded
    BY <1>6 DEF handleContainerCreate
  <2> QED BY <1>5, <2>1
<1>7. ASSUME NEW i \in BoxIds, NEW s, NEW pull \in BOOLEAN, NEW run \in BOOLEAN, Exists(i),
             Started(q, [NoBoxCall EXCEPT !.at = "clear", !.kind = "recreate", !.id = i,
                           !.name = box[i].name, !.spec = s, !.pull = pull,
                           !.running = run]),
             crowded' = (crowded \/ Replacing # {})
      PROVE  ContainersInv'
  <2> DEFINE c == [NoBoxCall EXCEPT !.at = "clear", !.kind = "recreate", !.id = i,
                     !.name = box[i].name, !.spec = s, !.pull = pull,
                     !.running = run]
  <2>1. box[i].name \in Seq(NameParts)
    BY <1>1 DEF BoxesTyped, BoxRows
  <2>2. c \in BoxCallRows(c.spec) /\ c.kind = "recreate" /\ c.at = "clear" /\ c.id = i /\ c.name = box[i].name
    <3>1. c.kind = "recreate" /\ c.at = "clear" /\ c.id = i /\ c.name = box[i].name /\ c.spec = s
      BY DEF NoBoxCall
    <3>2. c \in BoxCallRows(c.spec)
      BY <2>1, <1>7 DEF NoBoxCall, BoxCallRows
    <3> QED BY <3>1, <3>2
  <2>3. boxCall' = [boxCall EXCEPT ![q] = c]
    BY <1>7 DEF Started
  <2> HIDE DEF c
  <2>4. CallsTyped' /\ boxCall'[q] = c /\ \A r \in BoxRequests \ {q} : boxCall'[r] = boxCall[r]
    BY <1>1, <2>2, <2>3, CallSet
  <2>5. CASE swept \/ crowded'
    BY <1>2, <1>3, <1>4, <1>7, <2>4, <2>5, NoLongerClaimed
  <2>6. CASE ~swept /\ ~crowded'
    <3>1. Replacing = {} /\ ~crowded
      BY <1>7, <2>6
    <3>2. \A r \in Replacing' : r = q
      BY <2>4, <3>1 DEF Replacing
    <3>3. PlacedIn(box', c)
      BY <1>2, <1>7, <2>1, <2>2, ParkedApart DEF PlacedIn, Exists
    <3>4. ReplacementPlaced'
      BY <2>4, <3>2, <3>3, PlacedIs DEF ReplacementPlaced
    <3>5. ServiceLeft'
      BY <1>2, <1>7 DEF ServiceLeft, Exists
    <3>6. swept' \in BOOLEAN /\ crowded' \in BOOLEAN
      BY <1>2, <1>4, <1>7, Zenon
    <3>7. ContainersTypeOK'
      BY <1>3, <2>4, <3>6, Zenon DEF ContainersTypeOK, BoxesTyped, CallsTyped
    <3> QED BY <3>4, <3>5, <3>7 DEF ContainersInv
  <2> QED BY <2>5, <2>6
<1>8. CASE handleContainerRecreate(q)
  <2>1. PICK i \in BoxIds, edited \in BOOLEAN, pull \in BOOLEAN :
          \E s \in (IF edited THEN EditedSpecs ELSE {SpecOf(box[i].config)}) :
            /\ Exists(i)
            /\ Started(q, [NoBoxCall EXCEPT !.at = "clear", !.kind = "recreate", !.id = i,
                             !.name = box[i].name, !.spec = s, !.pull = pull,
                             !.running = box[i].on = "running"])
            /\ crowded' = (crowded \/ Replacing # {})
    BY <1>8, Zenon DEF handleContainerRecreate
  <2>2. (box[i].on = "running") \in BOOLEAN
    OBVIOUS
  <2> QED BY <1>7, <2>1, <2>2, Zenon
<1>9. CASE ContextEnds(q)
  <2> DEFINE c == [boxCall[q] EXCEPT !.alive = FALSE]
  <2>1. boxCall' = [boxCall EXCEPT ![q] = c] /\ boxCall[q].at # "idle" /\ crowded' = crowded
    BY <1>9 DEF ContextEnds
  <2>2. c \in BoxCallRows(boxCall[q].spec)
    BY <1>1, CallRow
  <2>3. c.kind = boxCall[q].kind /\ c.id = boxCall[q].id /\ c.name = boxCall[q].name
        /\ c.at = boxCall[q].at /\ c.new = boxCall[q].new
    BY <1>1 DEF BoxCallRows
  <2> HIDE DEF c
  <2> QED BY <1>2, <1>3, <2>1, <2>2, <2>3, RequestGoesOn
<1> QED BY <1>6, <1>8, <1>9

LEMMA HandSteps ==
  ASSUME ContainersInv, HandStep PROVE ContainersInv'
<1>1. BoxesTyped /\ CallsTyped /\ swept \in BOOLEAN /\ crowded \in BOOLEAN
  BY ContainersParts DEF ContainersInv
<1>2. boxCall' = boxCall /\ crowded' = crowded
  BY DEF HandStep, Lifecycle, handleContainerRemove, handleContainerRename, UpdateResources,
         PruneContainers, PruneImages, Single
<1>3. CallsTyped'
  BY <1>1, <1>2 DEF CallsTyped
<1>4. ASSUME BoxesTyped', swept' = TRUE PROVE ContainersInv'
  BY <1>1, <1>2, <1>3, <1>4, NoLongerClaimed
<1>5. ASSUME BoxesTyped', StillThere, NamesKept, swept' = swept PROVE ContainersInv'
  <2>1. ContainersTypeOK'
    BY <1>1, <1>2, <1>3, <1>5 DEF ContainersTypeOK, BoxesTyped, CallsTyped
  <2>2. \A r \in Replacing' : r \in Replacing /\ boxCall'[r] = boxCall[r]
    BY <1>2 DEF Replacing
  <2> QED BY <1>2, <1>5, <2>1, <2>2, BystanderKeeps DEF ContainersInv
<1>6. ASSUME NEW i \in BoxIds, NEW b, b \in BoxRows(b.config), b.on # "gone",
             b.name \in {box[i].name, <<"web">>, <<"other">>},
             box' = [box EXCEPT ![i] = b]
      PROVE  BoxesTyped' /\ StillThere /\ NamesKept /\ box'[i] = b
  <2>1. BoxesTyped' /\ box'[i] = b /\ \A j \in BoxIds \ {i} : box'[j] = box[j]
    BY <1>1, <1>6, BoxSet
  <2> QED BY <1>6, <2>1 DEF StillThere, NamesKept, Exists
<1>7. ASSUME NEW i \in BoxIds, box' = [box EXCEPT ![i] = NoBox]
      PROVE  BoxesTyped' /\ box'[i].on = "gone"
  BY <1>1, <1>7, NoBoxRow, BoxSet
<1>8. ASSUME NEW i \in BoxIds, Lifecycle(i) PROVE ContainersInv'
  <2>1. box[i] \in BoxRows(box[i].config)
    BY <1>1 DEF BoxesTyped
  <2>2. ASSUME NEW o \in {"running", "exited", "paused"}, box' = [box EXCEPT ![i] = [box[i] EXCEPT !.on = o]]
        PROVE  ContainersInv'
    <3> DEFINE b == [box[i] EXCEPT !.on = o]
    <3>1. b \in BoxRows(b.config) /\ b.on = o /\ b.name = box[i].name
      BY <2>1 DEF BoxRows
    <3>2. box' = [box EXCEPT ![i] = b]
      BY <2>2
    <3> HIDE DEF b
    <3>3. BoxesTyped' /\ StillThere /\ NamesKept /\ box'[i] = b
      BY <1>6, <3>1, <3>2
    <3>4. swept' = swept
      BY <1>1, <1>8, <3>1, <3>3 DEF Lifecycle
    <3> QED BY <1>5, <3>3, <3>4
  <2>3. ASSUME box' = [box EXCEPT ![i] = NoBox] PROVE ContainersInv'
    <3>1. BoxesTyped' /\ box'[i].on = "gone"
      BY <1>7, <2>3
    <3>2. swept' = TRUE
      BY <1>8, <3>1 DEF Lifecycle
    <3> QED BY <1>4, <3>1, <3>2
  <2>4. \/ \E o \in {"running", "exited", "paused"} : box' = [box EXCEPT ![i] = [box[i] EXCEPT !.on = o]]
        \/ box' = [box EXCEPT ![i] = NoBox]
    <3>1. \/ \E o \in {"running", "paused"} : box' = [box EXCEPT ![i].on = o]
          \/ box' = [box EXCEPT ![i] = Exited(box[i])]
      BY <1>8 DEF Lifecycle
    <3>2. Exited(box[i]) \in {NoBox, [box[i] EXCEPT !.on = "exited"]}
      BY DEF Exited
    <3> QED BY <1>1, <3>1, <3>2 DEF BoxesTyped
  <2> QED BY <2>2, <2>3, <2>4
<1>9. ASSUME NEW i \in BoxIds, handleContainerRemove(i) PROVE ContainersInv'
  <2>1. box' = [box EXCEPT ![i] = NoBox] /\ swept' = TRUE
    BY <1>9 DEF handleContainerRemove
  <2> QED BY <1>4, <1>7, <2>1
<1>10. ASSUME NEW i \in BoxIds, handleContainerRename(i) PROVE ContainersInv'
  <2>1. PICK n \in {<<"web">>, <<"other">>} : box' = [box EXCEPT ![i].name = n]
    BY <1>10 DEF handleContainerRename
  <2>2. Exists(i) /\ swept' = swept
    BY <1>10 DEF handleContainerRename
  <2> DEFINE b == [box[i] EXCEPT !.name = n]
  <2>3. n \in Seq(NameParts) /\ box[i] \in BoxRows(box[i].config)
    <3>1. <<"web">> \in Seq(NameParts) /\ <<"other">> \in Seq(NameParts)
      BY DEF NameParts
    <3> QED BY <1>1, <3>1 DEF BoxesTyped
  <2>4. b \in BoxRows(b.config) /\ b.on = box[i].on /\ b.name = n
    BY <2>3 DEF BoxRows
  <2>5. box' = [box EXCEPT ![i] = b]
    BY <2>1
  <2> HIDE DEF b
  <2>6. BoxesTyped' /\ StillThere /\ NamesKept
    BY <1>6, <2>2, <2>4, <2>5 DEF Exists
  <2> QED BY <1>5, <2>2, <2>6
<1>11. ASSUME NEW i \in BoxIds, UpdateResources(i) PROVE ContainersInv'
  <2>1. PICK mem \in {0, 2} :
          box' = [box EXCEPT ![i].config.limits.memory =
                    IF mem = 0 THEN box[i].config.limits.memory ELSE mem]
    BY <1>11 DEF UpdateResources
  <2>2. Exists(i) /\ swept' = swept
    BY <1>11 DEF UpdateResources
  <2> DEFINE config == [box[i].config EXCEPT !.limits.memory =
                          IF mem = 0 THEN box[i].config.limits.memory ELSE mem]
             b == [box[i] EXCEPT !.config = config]
  <2>3. box' = [box EXCEPT ![i] = b]
    BY <2>1
  <2>4. box[i] \in BoxRows(box[i].config)
    BY <1>1 DEF BoxesTyped
  <2> HIDE DEF config
  <2>5. b \in BoxRows(b.config) /\ b.on = box[i].on /\ b.name = box[i].name
    BY <2>4 DEF BoxRows
  <2> HIDE DEF b
  <2>6. BoxesTyped' /\ StillThere /\ NamesKept
    BY <1>6, <2>2, <2>3, <2>5 DEF Exists
  <2> QED BY <1>5, <2>2, <2>6
<1>12. CASE PruneContainers
  <2>1. box' = [i \in BoxIds |-> IF box[i].on \in {"created", "exited"} THEN NoBox ELSE box[i]]
        /\ swept' = TRUE
    BY <1>12 DEF PruneContainers
  <2>2. \A i \in BoxIds : box'[i] \in BoxRows(box'[i].config)
    BY <1>1, <2>1, NoBoxRow DEF BoxesTyped
  <2>3. box' = [i \in BoxIds |-> box'[i]]
    BY <2>1
  <2>4. BoxesTyped'
    BY <2>2, <2>3 DEF BoxesTyped
  <2> QED BY <1>4, <2>1, <2>4
<1>13. CASE PruneImages
  <2>1. box' = box /\ swept' = swept
    BY <1>13 DEF PruneImages
  <2> QED BY <1>5, <2>1, SameBoxes
<1> QED BY <1>8, <1>9, <1>10, <1>11, <1>12, <1>13 DEF HandStep

LEMMA ContainersStart == ContainersInit => ContainersInv
<1> SUFFICES ASSUME ContainersInit PROVE ContainersInv
  OBVIOUS
<1>1. box = FirstBoxes /\ boxCall = [q \in BoxRequests |-> NoBoxCall] /\ swept = FALSE /\ crowded = FALSE
  BY DEF ContainersInit
<1>2. BoxesTyped
  BY <1>1, ContainersAssumption DEF BoxesTyped, ContainersAssumption
<1>3. NoBoxCall \in BoxCallRows(NoBoxCall.spec) /\ NoBoxCall.at = "idle"
  <2>1. <<>> \in Seq(NameParts)
    OBVIOUS
  <2> QED BY <2>1 DEF NoBoxCall, BoxCallRows
<1>4. CallsTyped /\ Replacing = {}
  BY <1>1, <1>3 DEF CallsTyped, Replacing
<1>5. ContainersTypeOK
  BY <1>1, <1>2, <1>4 DEF ContainersTypeOK, BoxesTyped, CallsTyped
<1>6. ReplacementPlaced /\ ServiceLeft
  BY <1>1, <1>4 DEF ReplacementPlaced, ServiceLeft, Exists
<1> QED BY <1>5, <1>6 DEF ContainersInv

\* A replacement leaves some container of the service, at whatever call it fails, is
\* refused or is abandoned, and however often it is tried; several creations, edits and
\* renamings beside it included (Recreate).
THEOREM ServiceSurvives == ContainersSpec => []ContainersInv
<1>1. ASSUME ContainersInv, [ContainersNext]_containerVars PROVE ContainersInv'
  <2>1. CASE HandStep
    BY <1>1, <2>1, HandSteps
  <2>2. ASSUME NEW q \in BoxRequests, BoxStep(q) PROVE ContainersInv'
    BY <1>1, <2>2, CreateStep, RecreateStep, BeginStep, Zenon DEF BoxStep
  <2>3. CASE UNCHANGED containerVars
    BY <1>1, <2>3 DEF containerVars, ContainersInv, ContainersTypeOK, ReplacementPlaced, ServiceLeft,
       Placed, Replacing, Exists, Parked
  <2> QED BY <1>1, <2>1, <2>2, <2>3 DEF ContainersNext
<1> QED BY <1>1, ContainersStart, PTL DEF ContainersSpec
=============================================================================
