----------------------- MODULE SocketRegistry_proofs -----------------------
(***************************************************************************)
(* Proofs about SocketRegistry, for any sockets, channels, events and timer*)
(* periods.  OpenIsServed is not inductive by itself: that a send reaches  *)
(* the sockets of its channel only, and that a fresh uuid is listed        *)
(* nowhere, must be carried along.                                         *)
(***************************************************************************)
EXTENDS SocketRegistry, TLAPS

\* A listed id belongs to a connection made on that very channel.
ListedOnItsChannel ==
  \A c \in Channels : \A s \in channels[c] : chan[s] = c /\ ready[s] # "new"

\* A socket has a channel once connected; before, it is not registered and
\* nothing was sent to it.
NewIsSilent ==
  \A s \in SocketIds : IF ready[s] = "new" THEN s \notin sockets /\ delivered[s] = {}
                                          ELSE chan[s] \in Channels

\* What age a socket can reach by the next run of checkSockets.
AgeAtNextCheck ==
  \A s \in sockets : age[s] + checkIn < ResponseTimeout + PingEvery

IInv ==
  /\ TypeOK /\ OpenIsServed /\ ListedOnItsChannel
  /\ NewIsSilent /\ EventIsolation /\ AgeAtNextCheck

-----------------------------------------------------------------------------
\* The registries, clocks and deliveries always have their types
\* (index.ts:146-150 and every handler that assigns to them).
THEOREM TypeCorrect == Spec => []TypeOK
<1>1. Init => TypeOK
  BY ChannelsAssumption, TimersAssumption DEF Init, TypeOK
<1>2. TypeOK /\ [Next]_vars => TypeOK'
  <2> SUFFICES ASSUME TypeOK, [Next]_vars PROVE TypeOK'
    OBVIOUS
  <2> USE ChannelsAssumption, TimersAssumption DEF TypeOK, events
  <2>1. CASE UNCHANGED vars
    BY <2>1 DEF vars, registry, clocks
  <2>2. ASSUME NEW s \in SocketIds, NEW c \in Channels, WsConnection(s, c)
        PROVE  TypeOK'
    BY <2>2 DEF WsConnection, trackClient, clocks
  <2>3. ASSUME NEW s \in SocketIds, Pong(s)
        PROVE  TypeOK'
    BY <2>3 DEF Pong, registry
  <2>4. ASSUME NEW s \in SocketIds, PeerCloses(s)
        PROVE  TypeOK'
    BY <2>4 DEF PeerCloses, clocks
  <2>5. ASSUME NEW batch \in SUBSET Events, ProcessStreamResults(batch)
        PROVE  TypeOK'
    BY <2>5 DEF ProcessStreamResults, Cleaned, clocks
  <2>6. CASE CheckSockets
    BY <2>6 DEF CheckSockets
  <2>7. CASE Gc
    BY <2>7 DEF Gc, Cleaned
  <2>8. CASE Tick
    <3>1. \A a \in Nat : Older(a) \in Nat
      BY DEF Older
    <3> QED BY <2>8, <3>1 DEF Tick, registry
  <2> QED BY <2>1, <2>2, <2>3, <2>4, <2>5, <2>6, <2>7, <2>8 DEF Next
<1> QED BY <1>1, <1>2, PTL DEF Spec

\* The inductive invariant is kept by every callback.
LEMMA InductiveStep == IInv /\ TypeOK' /\ [Next]_vars => IInv'
<1> SUFFICES ASSUME IInv, TypeOK', [Next]_vars PROVE IInv'
  OBVIOUS
<1> USE ChannelsAssumption, TimersAssumption DEF IInv, TypeOK, Open, events
<1>1. CASE UNCHANGED vars
  BY <1>1 DEF vars, registry, clocks, OpenIsServed, ListedOnItsChannel,
     NewIsSilent, EventIsolation, AgeAtNextCheck
<1>2. ASSUME NEW s \in SocketIds, NEW c \in Channels, WsConnection(s, c)
      PROVE  IInv'
  <2>1. \A d \in Channels : s \notin channels[d]
    BY <1>2 DEF WsConnection, trackClient, ListedOnItsChannel
  <2>2. OpenIsServed'
    BY <1>2 DEF WsConnection, trackClient, OpenIsServed
  <2>3. ListedOnItsChannel'
    BY <1>2, <2>1 DEF WsConnection, trackClient, ListedOnItsChannel
  <2>4. NewIsSilent' /\ EventIsolation'
    BY <1>2 DEF WsConnection, trackClient, NewIsSilent, EventIsolation
  <2>5. AgeAtNextCheck'
    BY <1>2 DEF WsConnection, trackClient, AgeAtNextCheck
  <2> QED BY <2>2, <2>3, <2>4, <2>5
<1>3. ASSUME NEW s \in SocketIds, Pong(s)
      PROVE  IInv'
  <2>1. AgeAtNextCheck'
    <3>1. \A t \in sockets : age'[t] = 0 \/ age'[t] = age[t]
      BY <1>3 DEF Pong, registry
    <3>2. UNCHANGED <<sockets, checkIn>> /\ checkIn < ResponseTimeout + PingEvery
      BY <1>3 DEF Pong, registry
    <3> QED BY <3>1, <3>2 DEF AgeAtNextCheck
  <2> QED BY <1>3, <2>1 DEF Pong, registry, OpenIsServed, ListedOnItsChannel,
             NewIsSilent, EventIsolation
<1>4. ASSUME NEW s \in SocketIds, PeerCloses(s)
      PROVE  IInv'
  BY <1>4 DEF PeerCloses, clocks, OpenIsServed, ListedOnItsChannel,
     NewIsSilent, EventIsolation, AgeAtNextCheck
<1>5. ASSUME NEW batch \in SUBSET Events, ProcessStreamResults(batch)
      PROVE  IInv'
  <2>1. \A c \in Channels : Cleaned(c) \subseteq channels'[c]
                            /\ channels'[c] \subseteq channels[c]
    BY <1>5 DEF ProcessStreamResults, Cleaned
  <2>2. UNCHANGED <<sockets, chan, ready, age, checkIn>>
    BY <1>5 DEF ProcessStreamResults, clocks
  <2>3. OpenIsServed'
    <3> SUFFICES ASSUME NEW s \in SocketIds, Open(s)'
                 PROVE  s \in sockets' /\ s \in channels'[chan'[s]]
      BY DEF OpenIsServed
    <3>1. s \in sockets /\ s \in channels[chan[s]] /\ Open(s)
      BY <2>2 DEF OpenIsServed
    <3>2. chan[s] \in Channels
      BY <3>1 DEF NewIsSilent
    <3> QED BY <2>1, <2>2, <3>1, <3>2 DEF Cleaned
  <2>4. ListedOnItsChannel' /\ AgeAtNextCheck'
    BY <2>1, <2>2 DEF ListedOnItsChannel, AgeAtNextCheck
  <2>5. NewIsSilent' /\ EventIsolation'
    <3>1. \A s \in SocketIds : delivered'[s] =
             delivered[s] \cup {e \in batch : s \in Cleaned(EventChannel[e])}
      BY <1>5 DEF ProcessStreamResults, Recipients
    <3>2. \A s \in SocketIds, e \in batch : s \in Cleaned(EventChannel[e]) =>
             EventChannel[e] = chan[s] /\ ready[s] # "new"
      BY DEF Cleaned, ListedOnItsChannel
    <3> QED BY <2>2, <3>1, <3>2 DEF NewIsSilent, EventIsolation
  <2> QED BY <2>3, <2>4, <2>5
<1>6. CASE CheckSockets
  <2>1. UNCHANGED <<channels, chan, delivered>>
    BY <1>6 DEF CheckSockets
  <2>2. OpenIsServed'
    BY <1>6 DEF CheckSockets, OpenIsServed
  <2>3. ListedOnItsChannel' /\ NewIsSilent' /\ EventIsolation'
    <3>1. \A s \in SocketIds : ready[s] # "new" => ready'[s] # "new"
      BY <1>6 DEF CheckSockets
    <3>2. \A s \in SocketIds : (ready'[s] = "new" <=> ready[s] = "new")
                             /\ (s \in sockets' => s \in sockets)
      BY <1>6 DEF CheckSockets, NewIsSilent
    <3>3. ListedOnItsChannel'
      BY <2>1, <3>1 DEF ListedOnItsChannel
    <3>4. NewIsSilent'
      BY <2>1, <3>2 DEF NewIsSilent
    <3>5. EventIsolation'
      BY <2>1 DEF EventIsolation
    <3> QED BY <3>3, <3>4, <3>5
  <2>4. AgeAtNextCheck'
    BY <1>6 DEF CheckSockets, Expired, AgeAtNextCheck
  <2> QED BY <2>2, <2>3, <2>4
<1>7. CASE Gc
  <2>1. \A c \in Channels : channels'[c] = Cleaned(c)
    BY <1>7 DEF Gc
  <2>2. UNCHANGED <<sockets, chan, ready, age, checkIn, delivered>>
    BY <1>7 DEF Gc
  <2>3. OpenIsServed'
    BY <2>1, <2>2 DEF OpenIsServed, NewIsSilent, Cleaned
  <2>4. ListedOnItsChannel'
    BY <2>1, <2>2 DEF ListedOnItsChannel, Cleaned
  <2>5. NewIsSilent' /\ EventIsolation' /\ AgeAtNextCheck'
    BY <2>2 DEF NewIsSilent, EventIsolation, AgeAtNextCheck
  <2> QED BY <2>3, <2>4, <2>5
<1>8. CASE Tick
  <2>1. AgeAtNextCheck'
    BY <1>8 DEF Tick, registry, AgeAtNextCheck
  <2> QED BY <1>8, <2>1 DEF Tick, registry, OpenIsServed, ListedOnItsChannel,
             NewIsSilent, EventIsolation
<1> QED BY <1>1, <1>2, <1>3, <1>4, <1>5, <1>6, <1>7, <1>8 DEF Next

LEMMA InductiveInvariant == Spec => []IInv
<1>1. Init => IInv
  <2>1. Init => TypeOK
    BY ChannelsAssumption, TimersAssumption DEF Init, TypeOK
  <2> QED BY <2>1, ChannelsAssumption, TimersAssumption
          DEF IInv, Init, Open, OpenIsServed, ListedOnItsChannel, NewIsSilent,
              EventIsolation, AgeAtNextCheck
<1> QED BY <1>1, TypeCorrect, InductiveStep, PTL DEF Spec

\* Every connection the server holds open is found through both registries,
\* however checkSockets, the channel gc, failed sends and connects interleave.
THEOREM OpenConnectionsServed == Spec => []OpenIsServed
BY InductiveInvariant, PTL DEF IInv

\* No socket is ever sent an event of another channel (sendToChannel).
THEOREM EventsStayOnTheirChannel == Spec => []EventIsolation
BY InductiveInvariant, PTL DEF IInv

\* A registered socket's silence stays below the response timeout plus one
\* ping interval: checkSockets has terminated it by then.
THEOREM SilentPeersForgotten == Spec => []SilentForgotten
<1>1. IInv => SilentForgotten
  BY TimersAssumption DEF IInv, TypeOK, AgeAtNextCheck, SilentForgotten
<1> QED BY <1>1, InductiveInvariant, PTL

-----------------------------------------------------------------------------
\* Every ping a prompt peer owes is at most PongDelay old and was sent at a
\* check, and its socket's silence began at most one period before the oldest.
OwesLittle(s) ==
  /\ \A a \in pings[s] : a <= PongDelay /\ \E k \in Nat : a + checkIn = k * PingEvery
  /\ IF pings[s] = {} THEN age[s] + checkIn <= PingEvery
                      ELSE \E a \in pings[s] : age[s] <= a + PingEvery

PongsInTime ==
  /\ \A s \in SocketIds : ready[s] = "new" => pings[s] = {}
  /\ \A s \in Prompt : Open(s) => OwesLittle(s)

\* The quotient of PromptAssumption, without the division.
LEMMA PongDelayInPeriods ==
  \E q \in Nat : PongDelay < (q + 1) * PingEvery /\ (q + 1) * PingEvery < ResponseTimeout
<1> DEFINE q == PongDelay \div PingEvery
<1>1. q \in Nat /\ PongDelay = PingEvery * q + (PongDelay % PingEvery)
      /\ PongDelay % PingEvery < PingEvery
  BY TimersAssumption, PromptAssumption
<1>2. PingEvery * q = q * PingEvery /\ (q + 1) * PingEvery = q * PingEvery + PingEvery
  BY <1>1, TimersAssumption
<1>3. (q + 1) * PingEvery < ResponseTimeout
  BY PromptAssumption
<1>4. PongDelay < (q + 1) * PingEvery
  <2>1. q * PingEvery \in Nat /\ PongDelay % PingEvery \in Nat
    BY <1>1, TimersAssumption, PromptAssumption
  <2> HIDE DEF q
  <2> QED BY <1>1, <1>2, <2>1, TimersAssumption, PromptAssumption
<1> HIDE DEF q
<1> QED BY <1>1, <1>3, <1>4

\* A number of periods no longer than PongDelay is one period short of the timeout.
LEMMA OnePeriodToSpare ==
  ASSUME NEW k \in Nat, k * PingEvery <= PongDelay
  PROVE  k * PingEvery + PingEvery < ResponseTimeout
<1>1. PICK q \in Nat : PongDelay < (q + 1) * PingEvery /\ (q + 1) * PingEvery < ResponseTimeout
  BY PongDelayInPeriods
<1>2. k <= q
  <2> SUFFICES ASSUME k > q PROVE FALSE
    BY <1>1
  <2>1. PICK d \in Nat : k = q + 1 + d
    <3> WITNESS k - q - 1 \in Nat
    <3> QED OBVIOUS
  <2>2. k * PingEvery = (q + 1) * PingEvery + d * PingEvery /\ d * PingEvery \in Nat
        /\ (q + 1) * PingEvery \in Nat
    BY <2>1, TimersAssumption
  <2> QED BY <1>1, <2>2, PromptAssumption
<1>3. PICK d \in Nat : q = k + d
  <2>1. q - k \in Nat /\ q = k + (q - k)
    BY <1>2
  <2> QED BY <2>1
<1>4. (q + 1) * PingEvery = k * PingEvery + d * PingEvery + PingEvery
      /\ d * PingEvery \in Nat /\ k * PingEvery \in Nat
  BY <1>3, TimersAssumption
<1> QED BY <1>1, <1>4, TimersAssumption

\* A check that finds a prompt peer's connection open does not find it expired.
LEMMA PromptIsNotExpired ==
  ASSUME IInv, PongsInTime, checkIn = 0, NEW s \in Prompt, Open(s)
  PROVE  ~ Expired(s)
<1> USE TimersAssumption, PromptAssumption DEF IInv, TypeOK
<1>1. s \in SocketIds /\ age[s] \in Nat /\ pings[s] \subseteq Nat
  OBVIOUS
<1>2. CASE pings[s] = {}
  <2>1. age[s] <= PingEvery
    BY <1>1, <1>2 DEF PongsInTime, OwesLittle
  <2>2. 0 * PingEvery + PingEvery < ResponseTimeout
    <3>1. 0 * PingEvery <= PongDelay
      OBVIOUS
    <3> QED BY <3>1, OnePeriodToSpare
  <2> QED BY <1>1, <2>1, <2>2 DEF Expired
<1>3. CASE pings[s] # {}
  <2>1. PICK a \in pings[s] : age[s] <= a + PingEvery
    BY <1>3 DEF PongsInTime, OwesLittle
  <2>2. a \in Nat /\ a <= PongDelay
    BY <1>1, <2>1 DEF PongsInTime, OwesLittle
  <2>3. PICK k \in Nat : a + checkIn = k * PingEvery
    BY <2>1 DEF PongsInTime, OwesLittle
  <2>4. a = k * PingEvery
    BY <2>2, <2>3
  <2>5. a + PingEvery < ResponseTimeout
    BY <2>2, <2>4, OnePeriodToSpare
  <2> QED BY <1>1, <2>1, <2>2, <2>5 DEF Expired
<1> QED BY <1>2, <1>3

LEMMA PongsStayInTime == IInv /\ PongsInTime /\ [Next]_vars => PongsInTime'
<1> SUFFICES ASSUME IInv, PongsInTime, [Next]_vars PROVE PongsInTime'
  OBVIOUS
<1> USE TimersAssumption, PromptAssumption DEF IInv, TypeOK, Open, OwesLittle
\* Whoever was connected by then and lost nothing keeps its part.
<1>0. ASSUME UNCHANGED <<pings, age, checkIn>>,
             \A s \in SocketIds : /\ ready'[s] = "open" => ready[s] = "open"
                                  /\ ready'[s] = "new" => ready[s] = "new"
      PROVE  PongsInTime'
  BY <1>0 DEF PongsInTime, OwesLittle
<1>1. CASE UNCHANGED vars
  BY <1>1, <1>0 DEF vars, registry, clocks
<1>2. ASSUME NEW s \in SocketIds, NEW c \in Channels, WsConnection(s, c)
      PROVE  PongsInTime'
  <2>1. pings[s] = {} /\ UNCHANGED <<pings, checkIn>> /\ age'[s] = 0
        /\ \A t \in SocketIds \ {s} : age'[t] = age[t] /\ ready'[t] = ready[t]
        /\ ready'[s] = "open"
    BY <1>2 DEF WsConnection, PongsInTime
  <2>2. ASSUME NEW t \in Prompt, ready'[t] = "open"
        PROVE  OwesLittle(t)'
    <3>1. CASE t = s
      <4>1. pings'[t] = {} /\ age'[t] + checkIn' <= PingEvery
        BY <2>1, <3>1
      <4> QED BY <4>1
    <3>2. CASE t # s
      BY <2>1, <2>2, <3>2 DEF PongsInTime, OwesLittle
    <3> QED BY <3>1, <3>2
  <2>3. \A t \in SocketIds : ready'[t] = "new" => pings'[t] = {}
    BY <2>1 DEF PongsInTime, OwesLittle
  <2> QED BY <2>2, <2>3 DEF PongsInTime, OwesLittle
<1>3. ASSUME NEW s \in SocketIds, Pong(s)
      PROVE  PongsInTime'
  <2>1. UNCHANGED <<ready, sockets, checkIn>> /\ pings'[s] \subseteq pings[s] /\ pings[s] # {}
        /\ \A t \in SocketIds \ {s} : age'[t] = age[t] /\ pings'[t] = pings[t]
    BY <1>3 DEF Pong, registry
  <2>2. Open(s) => age'[s] = 0
    BY <1>3 DEF Pong, OpenIsServed
  <2>3. ASSUME NEW t \in Prompt, ready'[t] = "open"
        PROVE  OwesLittle(t)'
    <3>1. CASE t = s
      <4>1. \A a \in pings'[t] : a \in pings[t] /\ a \in Nat
        BY <2>1, <3>1
      <4>2. age'[t] = 0
        BY <2>1, <2>2, <2>3, <3>1
      <4>3. age'[t] + checkIn' <= PingEvery /\ \A a \in pings'[t] : age'[t] <= a + PingEvery
        BY <2>1, <4>1, <4>2
      <4>4. \A a \in pings'[t] : a <= PongDelay /\ \E k \in Nat : a + checkIn' = k * PingEvery
        BY <2>1, <2>3, <4>1 DEF PongsInTime, OwesLittle
      <4> QED BY <4>3, <4>4
    <3>2. CASE t # s
      BY <2>1, <2>3, <3>2 DEF PongsInTime, OwesLittle
    <3> QED BY <3>1, <3>2
  <2>4. \A t \in SocketIds : ready'[t] = "new" => pings'[t] = {}
    BY <2>1 DEF PongsInTime, OwesLittle
  <2> QED BY <2>3, <2>4 DEF PongsInTime, OwesLittle
<1>4. ASSUME NEW s \in SocketIds, PeerCloses(s)
      PROVE  PongsInTime'
  BY <1>4, <1>0 DEF PeerCloses, clocks
<1>5. ASSUME NEW batch \in SUBSET Events, ProcessStreamResults(batch)
      PROVE  PongsInTime'
  BY <1>5, <1>0 DEF ProcessStreamResults, clocks
<1>6. CASE CheckSockets
  <2>1. checkIn = 0 /\ checkIn' = PingEvery
    BY <1>6 DEF CheckSockets
  <2>2. ASSUME NEW t \in Prompt, ready'[t] = "open"
        PROVE  ready[t] = "open" /\ t \in sockets' /\ age'[t] = age[t] /\ pings'[t] = pings[t] \cup {0}
    <3>1. t \in SocketIds /\ ready[t] = "open" /\ t \in sockets
      BY <1>6, <2>2 DEF CheckSockets, OpenIsServed
    <3>2. ~ Expired(t)
      BY <2>1, <3>1, PromptIsNotExpired
    <3> QED BY <1>6, <3>1, <3>2 DEF CheckSockets
  <2>3. ASSUME NEW t \in Prompt, ready'[t] = "open"
        PROVE  OwesLittle(t)'
    <3>1. pings'[t] = pings[t] \cup {0} /\ age'[t] = age[t] /\ ready[t] = "open"
          /\ t \in SocketIds /\ age[t] \in Nat /\ pings[t] \subseteq Nat
      BY <2>2, <2>3
    <3>2. ASSUME NEW a \in pings'[t] PROVE a <= PongDelay /\ \E k \in Nat : a + checkIn' = k * PingEvery
      <4>1. CASE a = 0
        <5>1. 1 \in Nat /\ a + checkIn' = 1 * PingEvery
          BY <2>1, <4>1
        <5> QED BY <4>1, <5>1
      <4>2. CASE a \in pings[t]
        <5>1. PICK k \in Nat : a + checkIn = k * PingEvery
          BY <3>1, <4>2 DEF PongsInTime, OwesLittle
        <5>2. a \in Nat /\ k + 1 \in Nat /\ a + checkIn' = (k + 1) * PingEvery
          BY <2>1, <3>1, <4>2, <5>1
        <5>3. a <= PongDelay
          BY <3>1, <4>2 DEF PongsInTime, OwesLittle
        <5> QED BY <5>2, <5>3
      <4> QED BY <3>1, <3>2, <4>1, <4>2
    <3>3. \E a \in pings'[t] : age'[t] <= a + PingEvery
      <4>1. CASE pings[t] = {}
        <5>1. age'[t] <= 0 + PingEvery
          BY <2>1, <3>1, <4>1 DEF PongsInTime, OwesLittle
        <5> QED BY <3>1, <5>1
      <4>2. CASE pings[t] # {}
        BY <3>1, <4>2 DEF PongsInTime, OwesLittle
      <4> QED BY <4>1, <4>2
    <3> QED BY <3>1, <3>2, <3>3
  <2>4. \A t \in SocketIds : ready'[t] = "new" => pings'[t] = {}
    BY <1>6 DEF CheckSockets, PongsInTime
  <2> QED BY <2>3, <2>4 DEF PongsInTime, OwesLittle
<1>7. CASE Gc
  BY <1>7, <1>0 DEF Gc
<1>8. CASE Tick
  <2>1. UNCHANGED ready /\ checkIn' = checkIn - 1 /\ checkIn > 0
    BY <1>8 DEF Tick, registry
  <2>2. \A t \in SocketIds : pings[t] = {} => pings'[t] = {}
    BY <1>8 DEF Tick
  <2>3. PongDelay < ResponseTimeout
    <3>1. PICK q \in Nat : PongDelay < (q + 1) * PingEvery /\ (q + 1) * PingEvery < ResponseTimeout
      BY PongDelayInPeriods
    <3>2. (q + 1) * PingEvery \in Nat
      BY <3>1
    <3> QED BY <3>1, <3>2
  <2>4. ASSUME NEW t \in Prompt, ready'[t] = "open"
        PROVE  OwesLittle(t)'
    <3>1. t \in SocketIds /\ ready[t] = "open" /\ age'[t] = age[t] + 1
          /\ age[t] \in Nat /\ pings[t] \subseteq Nat
      BY <1>8, <2>1, <2>4 DEF Tick, OpenIsServed
    <3>2. \A a \in pings[t] : a < PongDelay /\ Older(a) = a + 1
      BY <1>8, <2>3, <3>1 DEF Tick, Older
    <3>3. pings'[t] = {a + 1 : a \in pings[t]}
      BY <1>8, <3>1, <3>2 DEF Tick
    <3>4. ASSUME NEW b \in pings'[t] PROVE b <= PongDelay /\ \E k \in Nat : b + checkIn' = k * PingEvery
      <4>1. PICK a \in pings[t] : b = a + 1
        BY <3>3
      <4>2. PICK k \in Nat : a + checkIn = k * PingEvery
        BY <3>1 DEF PongsInTime, OwesLittle
      <4>3. b + checkIn' = k * PingEvery
        BY <2>1, <3>1, <4>1, <4>2
      <4>4. b <= PongDelay
        BY <3>1, <3>2, <4>1
      <4> QED BY <4>3, <4>4
    <3>5. CASE pings[t] = {}
      BY <2>1, <3>1, <3>3, <3>4, <3>5 DEF PongsInTime, OwesLittle
    <3>6. CASE pings[t] # {}
      <4>1. PICK a \in pings[t] : age[t] <= a + PingEvery
        BY <3>1, <3>6 DEF PongsInTime, OwesLittle
      <4>2. a + 1 \in pings'[t] /\ age'[t] <= (a + 1) + PingEvery
        BY <3>1, <3>3, <4>1
      <4> QED BY <3>4, <4>2
    <3> QED BY <3>5, <3>6
  <2> QED BY <2>1, <2>2, <2>4 DEF PongsInTime, OwesLittle
<1> QED BY <1>1, <1>2, <1>3, <1>4, <1>5, <1>6, <1>7, <1>8 DEF Next

\* For every ping interval, timeout and delay of the pongs such that
\* (PongDelay \div PingEvery + 1) * PingEvery stays below the timeout, checkSockets
\* (index.ts:405-427) never terminates a peer that answers each ping in time.
THEOREM PromptPeersKept == Spec => PromptKept
<1>1. Init => PongsInTime
  BY PromptAssumption DEF Init, Open, PongsInTime, OwesLittle
<1>2. Spec => []PongsInTime
  BY <1>1, InductiveInvariant, PongsStayInTime, PTL DEF Spec
<1>3. IInv /\ PongsInTime /\ [Next]_vars
        => [\A s \in Prompt \cap sockets : Open(s) => s \in sockets']_vars
  <2> SUFFICES ASSUME IInv, PongsInTime, Next,
                      NEW s \in Prompt \cap sockets, Open(s)
               PROVE  s \in sockets'
    OBVIOUS
  <2>1. CASE CheckSockets
    <3>1. checkIn = 0
      BY <2>1 DEF CheckSockets
    <3>2. ~ Expired(s)
      BY <3>1, PromptIsNotExpired
    <3> QED BY <2>1, <3>2 DEF CheckSockets
  <2>2. CASE ~ CheckSockets
    BY <2>2 DEF Next, WsConnection, trackClient, Pong, PeerCloses, ProcessStreamResults,
       Gc, Tick, registry
  <2> QED BY <2>1, <2>2
<1> QED BY <1>2, <1>3, InductiveInvariant, PTL DEF Spec, PromptKept

-----------------------------------------------------------------------------
\* Each callback is, seen through Joined, a step of the broadcast or none.
LEMMA BroadcastStep ==
  IInv /\ [Next]_vars => [Broadcast!Next]_<<Joined, handled, delivered>>
<1> SUFFICES ASSUME IInv, [Next]_vars
             PROVE  Broadcast!Next \/ UNCHANGED <<Joined, handled, delivered>>
  OBVIOUS
<1> USE ChannelsAssumption DEF IInv, TypeOK, Open, events
<1>1. CASE UNCHANGED <<chan, ready, events>>
  BY <1>1 DEF Joined
<1>2. ASSUME NEW s \in SocketIds, NEW c \in Channels, WsConnection(s, c)
      PROVE  Broadcast!Next
  <2>1. Joined[s] = NoChannel
    BY <1>2 DEF WsConnection, trackClient, Joined
  <2>2. Joined' = [Joined EXCEPT ![s] = c] /\ UNCHANGED events
    BY <1>2 DEF WsConnection, trackClient, Joined
  <2> QED BY <2>1, <2>2 DEF Broadcast!Next, Broadcast!Join
<1>3. ASSUME NEW s \in SocketIds, PeerCloses(s)
      PROVE  Broadcast!Next
  <2>1. Joined' = [t \in SocketIds |-> IF t \in {s} THEN NoChannel ELSE Joined[t]]
        /\ UNCHANGED events
    BY <1>3 DEF PeerCloses, Joined
  <2>2. Broadcast!Lose({s})
    BY <2>1 DEF Broadcast!Lose
  <2> QED BY <2>2 DEF Broadcast!Next
<1>4. ASSUME NEW batch \in SUBSET Events, ProcessStreamResults(batch)
      PROVE  Broadcast!Next
  <2>1. \A s \in SocketIds, e \in batch :
           s \in Cleaned(EventChannel[e]) <=> EventChannel[e] = Joined[s]
    BY DEF Cleaned, Joined, OpenIsServed, ListedOnItsChannel
  <2>2. UNCHANGED Joined /\ handled' = handled \cup batch
    BY <1>4 DEF ProcessStreamResults, Joined
  <2>3. delivered' = [s \in SocketIds |->
           delivered[s] \cup {e \in batch : EventChannel[e] = Joined[s]}]
    BY <1>4, <2>1 DEF ProcessStreamResults, Recipients
  <2> QED BY <2>2, <2>3 DEF Broadcast!Next, Broadcast!Broadcast
<1>5. CASE CheckSockets
  <2> DEFINE expired == {s \in sockets : Expired(s)}
  <2>1. Joined' = [s \in SocketIds |-> IF s \in expired THEN NoChannel ELSE Joined[s]]
        /\ UNCHANGED events
    BY <1>5 DEF CheckSockets, Joined
  <2>2. Broadcast!Lose(expired) /\ expired \in SUBSET SocketIds
    BY <2>1 DEF Broadcast!Lose
  <2> QED BY <2>2 DEF Broadcast!Next
<1>6. CASE Gc \/ Tick \/ (\E s \in SocketIds : Pong(s)) \/ UNCHANGED vars
  BY <1>1, <1>6 DEF Gc, Tick, Pong, vars, registry, clocks
<1> QED BY <1>2, <1>3, <1>4, <1>5, <1>6 DEF Next

\* The registries implement the broadcast: an event of a channel reaches
\* exactly the connections open on it when the batch is processed, and no event
\* the server handled is lost for any of them.
THEOREM RegistryImplementsBroadcast == Spec => BroadcastSpec
<1>1. Init => Broadcast!Init
  BY DEF Init, Joined, Open, Broadcast!Init
<1> QED BY <1>1, InductiveInvariant, BroadcastStep, PTL
        DEF Spec, BroadcastSpec, Broadcast!Spec
=============================================================================
