--------------------------- MODULE SocketRegistry ---------------------------
(***************************************************************************)
(* The connection registries of the websocket server (superset-websocket,  *)
(* src/index.ts): "channels" maps a channel to the ids of its sockets,     *)
(* "sockets" maps an id to its instance, and the two are cleaned lazily by *)
(* different code: checkSockets (a timer) deletes from "sockets" only,     *)
(* cleanChannel (the gc timer, and a failed send) from "channels" only.    *)
(* Node runs one callback at a time, so each callback is one action.       *)
(***************************************************************************)
EXTENDS Integers

CONSTANTS
  Channels, SocketIds, Events,
  EventChannel,     \* the channel_id of an event
  NoChannel,
  PingEvery,        \* pingSocketsIntervalMs
  GcEvery,          \* gcChannelsIntervalMs
  ResponseTimeout,  \* socketResponseTimeoutMs
  Prompt,           \* the sockets whose peers answer every ping ...
  PongDelay         \* ... within this time

ASSUME ChannelsAssumption ==
  /\ NoChannel \notin Channels
  /\ EventChannel \in [Events -> Channels]
ASSUME TimersAssumption ==
  /\ PingEvery \in Nat \ {0} /\ GcEvery \in Nat \ {0}
  /\ ResponseTimeout \in Nat \ {0}
\* With the defaults (20 s, 60 s): a peer that answers in less than 40 s.
ASSUME PromptAssumption ==
  /\ Prompt \subseteq SocketIds /\ PongDelay \in Nat
  /\ (PongDelay \div PingEvery + 1) * PingEvery < ResponseTimeout

VARIABLES
  channels,   \* channels[c]: the socket ids listed for c, {} when c is no key
  sockets,    \* the keys of the sockets registry
  chan,       \* chan[s]: SocketInstance.channel, from the JWT of the upgrade
  ready,      \* readyState: "new" before the upgrade; CLOSING counts as closed
  age,        \* age[s]: Date.now() - pongTs while s is registered, else 0
  pings,      \* pings[s]: the ages of the pings the peer has not answered
  checkIn,    \* time until the checkSockets interval fires
  gcIn,       \* time until the gc interval fires
  handled,    \* history: the events processStreamResults was given
  delivered   \* delivered[s]: the events written to s

registry == <<channels, sockets, chan, ready>>
clocks == <<age, pings, checkIn, gcIn>>
events == <<handled, delivered>>
vars == <<registry, clocks, events>>

TypeOK ==
  /\ channels \in [Channels -> SUBSET SocketIds]
  /\ sockets \in SUBSET SocketIds
  /\ chan \in [SocketIds -> Channels \cup {NoChannel}]
  /\ ready \in [SocketIds -> {"new", "open", "closed"}]
  /\ age \in [SocketIds -> Nat]
  /\ pings \in [SocketIds -> SUBSET Nat]
  /\ checkIn \in 0..PingEvery
  /\ gcIn \in 0..GcEvery
  /\ handled \subseteq Events
  /\ delivered \in [SocketIds -> SUBSET Events]

Init ==
  /\ channels = [c \in Channels |-> {}]
  /\ sockets = {}
  /\ chan = [s \in SocketIds |-> NoChannel]
  /\ ready = [s \in SocketIds |-> "new"]
  /\ age = [s \in SocketIds |-> 0]
  /\ pings = [s \in SocketIds |-> {}]
  /\ checkIn = PingEvery
  /\ gcIn = GcEvery
  /\ handled = {}
  /\ delivered = [s \in SocketIds |-> {}]

Open(s) == ready[s] = "open"

\* Mutant: cleanChannel drops a channel nobody is left on, but never a stale id
\* from a channel somebody is still on.
CleanedWhenEmpty(c) ==
  IF \E s \in channels[c] : s \in sockets /\ Open(s) THEN channels[c] ELSE {}

\* cleanChannel keeps the ids that are registered and active.
Cleaned(c) == {s \in channels[c] : s \in sockets /\ Open(s)}

\* Mutants: every open socket; and, the loop ending at an id that is not
\* registered instead of skipping it, none of a channel that lists one.
RecipientsAnywhere(e) == {s \in sockets : Open(s)}
RecipientsUnlessStale(e) ==
  IF channels[EventChannel[e]] \subseteq sockets THEN Cleaned(EventChannel[e]) ELSE {}

\* The sockets ws.send reaches when sendToChannel sends e.
Recipients(e) == Cleaned(EventChannel[e])

\* Mutants: > for >=, and the ping interval for the response timeout.
ExpiredLater(s) == age[s] > ResponseTimeout
ExpiredAtPing(s) == age[s] >= PingEvery

Expired(s) == age[s] >= ResponseTimeout

\* Mutant: the channel's list starts anew with each client.
trackClientReplaces(s, c) ==
  /\ sockets' = sockets \cup {s}
  /\ channels' = [channels EXCEPT ![c] = {s}]

\* A fresh uuid enters both registries.
trackClient(s, c) ==
  /\ sockets' = sockets \cup {s}
  /\ channels' = [channels EXCEPT ![c] = @ \cup {s}]

\* An accepted upgrade, on the channel of its JWT.  The replay the handler
\* starts for a last_id ends in ProcessStreamResults; see EventRelay.
WsConnection(s, c) ==
  /\ ready[s] = "new"
  /\ ready' = [ready EXCEPT ![s] = "open"]
  /\ chan' = [chan EXCEPT ![s] = c]
  /\ trackClient(s, c)
  /\ age' = [age EXCEPT ![s] = 0]
  /\ UNCHANGED <<pings, checkIn, gcIn, events>>

\* The peer answers its oldest ping; a pong that finds its socket forgotten
\* is only logged.
Pong(s) ==
  /\ pings[s] # {}
  /\ \E oldest \in pings[s] :
       /\ \A a \in pings[s] : a <= oldest
       /\ pings' = [pings EXCEPT ![s] = @ \ {oldest}]
  /\ age' = [age EXCEPT ![s] = IF s \in sockets THEN 0 ELSE @]
  /\ UNCHANGED <<registry, checkIn, gcIn, events>>

\* The peer closes or the connection breaks: neither registry is told.
PeerCloses(s) ==
  /\ Open(s)
  /\ ready' = [ready EXCEPT ![s] = "closed"]
  /\ UNCHANGED <<channels, sockets, chan, clocks, events>>

CheckSockets ==
  LET expired == {s \in sockets : Expired(s)}
      alive == {s \in sockets \ expired : Open(s)}
  IN /\ checkIn = 0
     /\ ready' = [s \in SocketIds |-> IF s \in expired THEN "closed" ELSE ready[s]]
     /\ sockets' = alive
     /\ pings' = [s \in SocketIds |->
                    IF s \in alive THEN pings[s] \cup {0} ELSE pings[s]]
     /\ age' = [s \in SocketIds |-> IF s \in alive THEN age[s] ELSE 0]
     /\ checkIn' = PingEvery
     /\ UNCHANGED <<channels, chan, gcIn, events>>

\* Mutant: the interval is armed one unit late.
GcLate ==
  /\ gcIn = 0
  /\ channels' = [c \in Channels |-> Cleaned(c)]
  /\ gcIn' = GcEvery + 1
  /\ UNCHANGED <<sockets, chan, ready, age, pings, checkIn, events>>

Gc ==
  /\ gcIn = 0
  /\ channels' = [c \in Channels |-> Cleaned(c)]
  /\ gcIn' = GcEvery
  /\ UNCHANGED <<sockets, chan, ready, age, pings, checkIn, events>>

\* The listener of a stream read: sendToChannel for each event of the batch.  A
\* listed id that is not registered makes it clean the channel, and so may a
\* listed socket that is not open: ws.send throws on it or drops the data.
ProcessStreamResults(batch) ==
  LET named == {EventChannel[e] : e \in batch}
      mustClean == {c \in named : ~ channels[c] \subseteq sockets}
      mayClean == {c \in named : channels[c] # Cleaned(c)}
  IN /\ \E cleaned \in SUBSET mayClean :
          /\ mustClean \subseteq cleaned
          /\ channels' = [c \in Channels |->
                            IF c \in cleaned THEN Cleaned(c) ELSE channels[c]]
     /\ handled' = handled \cup batch
     /\ delivered' = [s \in SocketIds |-> delivered[s] \cup
                        {e \in batch : s \in Recipients(e)}]
     /\ UNCHANGED <<sockets, chan, ready, clocks>>

\* Bound: an unanswered ping is not followed beyond the response timeout.
Older(a) == IF a < ResponseTimeout THEN a + 1 ELSE a

\* Time passes only while no timer is due and no prompt peer owes a pong.
Tick ==
  /\ checkIn > 0 /\ gcIn > 0
  /\ \A s \in Prompt : Open(s) => \A a \in pings[s] : a < PongDelay
  /\ checkIn' = checkIn - 1
  /\ gcIn' = gcIn - 1
  /\ age' = [s \in SocketIds |-> IF s \in sockets THEN age[s] + 1 ELSE age[s]]
  /\ pings' = [s \in SocketIds |->
                 IF Open(s) THEN {Older(a) : a \in pings[s]} ELSE pings[s]]
  /\ UNCHANGED <<registry, events>>

Next ==
  \/ \E s \in SocketIds, c \in Channels : WsConnection(s, c)
  \/ \E s \in SocketIds : Pong(s) \/ PeerCloses(s)
  \/ \E batch \in SUBSET Events : ProcessStreamResults(batch)
  \/ CheckSockets \/ Gc \/ Tick

\* Timers fire and time passes; prompt peers do answer.  Nothing else is fair:
\* clients need not connect and events need not arrive.
Spec ==
  /\ Init /\ [][Next]_vars
  /\ WF_vars(Tick) /\ WF_vars(CheckSockets) /\ WF_vars(Gc)
  /\ \A s \in Prompt : WF_vars(Pong(s))
-----------------------------------------------------------------------------
\* A connection the server still holds open can be found through both
\* registries, whatever order the two cleanups and the sends ran in:
\* otherwise its events would silently stop (sendToChannel, index.ts:193-205).
OpenIsServed ==
  \A s \in SocketIds : Open(s) => s \in sockets /\ s \in channels[chan[s]]

\* Nothing written to a socket belongs to a channel other than the one its
\* JWT named (processStreamResults routes by data.channel_id).
EventIsolation ==
  \A s \in SocketIds : \A e \in delivered[s] : EventChannel[e] = chan[s]

\* A peer that stops answering is terminated and forgotten less than one ping
\* interval after the response timeout (checkSockets, index.ts:419-427).
SilentForgotten ==
  \A s \in sockets : age[s] < ResponseTimeout + PingEvery

\* A socket whose peer answers promptly is never given up by the server: it
\* leaves the registry only after its peer closed.
PromptKept ==
  [][\A s \in Prompt \cap sockets : Open(s) => s \in sockets']_vars

\* A closed connection eventually leaves both registries, although the close
\* itself tells neither (no 'close' handler is installed).
DeadForgotten ==
  \A s \in SocketIds :
    ready[s] = "closed" ~> (s \notin sockets /\ \A c \in Channels : s \notin channels[c])

\* The registries implement the broadcast the README of the server promises.
Joined == [s \in SocketIds |-> IF Open(s) THEN chan[s] ELSE NoChannel]
Broadcast == INSTANCE ChannelBroadcast WITH joined <- Joined
BroadcastSpec == Broadcast!Spec
=============================================================================
