-------------------------- MODULE ChannelBroadcast --------------------------
(***************************************************************************)
(* What the websocket server promises its clients: a connection joins one  *)
(* channel, every event of a channel reaches every connection open on the  *)
(* channel at that moment and no other connection, and a connection can be *)
(* lost at any time.  How the server finds the connections of a channel    *)
(* (two registries, lazy cleaning, timers) is left to SocketRegistry.      *)
(***************************************************************************)
CONSTANTS Channels, SocketIds, Events, EventChannel, NoChannel

VARIABLES
  joined,     \* joined[s]: the channel the open connection s listens on
  handled,    \* the events broadcast so far
  delivered   \* delivered[s]: the events handed to connection s so far

Init ==
  /\ joined = [s \in SocketIds |-> NoChannel]
  /\ handled = {}
  /\ delivered = [s \in SocketIds |-> {}]

Join(s, c) ==
  /\ joined[s] = NoChannel
  /\ joined' = [joined EXCEPT ![s] = c]
  /\ UNCHANGED <<handled, delivered>>

Broadcast(batch) ==
  /\ handled' = handled \cup batch
  /\ delivered' = [s \in SocketIds |->
                     delivered[s] \cup {e \in batch : EventChannel[e] = joined[s]}]
  /\ UNCHANGED joined

\* One sweep of the server can give up several connections at once.
Lose(gone) ==
  /\ joined' = [s \in SocketIds |-> IF s \in gone THEN NoChannel ELSE joined[s]]
  /\ UNCHANGED <<handled, delivered>>

Next ==
  \/ \E s \in SocketIds, c \in Channels : Join(s, c)
  \/ \E batch \in SUBSET Events : Broadcast(batch)
  \/ \E gone \in SUBSET SocketIds : Lose(gone)

Spec == Init /\ [][Next]_<<joined, handled, delivered>>
=============================================================================
