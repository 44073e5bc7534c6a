------------------------------- MODULE Pusher --------------------------------
(***************************************************************************)
(* The Pusher websocket client of src/unnamed/part_001 (PusherClient:      *)
(* NewPusherClient, NextEvent, Expect, Subscribe, Unsubscribe, Close,     *)
(* send, Authenticate) against a Pusher server.  The websocket is two FIFO *)
(* queues: c2s from client to server and s2c from server to client.  The   *)
(* server sends connection_established with the socket ID, answers a       *)
(* subscribe with subscription_succeeded under either of the two event    *)
(* names the client accepts, or with pusher:subscription_error when a      *)
(* private channel's auth was not signed for its socket ID, ignores pongs, *)
(* acknowledges nothing for an unsubscribe, and sends pings.  The network  *)
(* may drop the connection once, losing what is in flight.                 *)
(*                                                                         *)
(* The caller behaves like the package's test, generalised to subscribe    *)
(* and unsubscribe at any time: it reads events in a loop with NextEvent   *)
(* (or Expect), and on the first error returned by any call it gives up    *)
(* (t.Fatal), which runs the deferred Close.  Payloads are abstracted to   *)
(* the channel they name and the socket ID an auth is signed for.          *)
(***************************************************************************)
EXTENDS Naturals, Sequences

CONSTANTS
    Channels,    \* channel names the caller may subscribe to
    Private,     \* those starting with "private-"
    MaxCalls,    \* bound on the caller's Subscribe and Unsubscribe calls
    MaxPings     \* bound on the server's pings

ASSUME Private \subseteq Channels /\ MaxCalls \in Nat /\ MaxPings \in Nat

VARIABLES
    conn,        \* the websocket: "open", "closed" by Close, "dropped" by the network
    connected,   \* p.connected
    socketID,    \* p.socketID: "" until connection_established, then "sid"
    channels,    \* p.channels: "none" (absent), "pending" (false), "subscribed"
    failed,      \* a call has returned an error to the caller
    c2s,         \* messages in flight to the server
    s2c,         \* messages in flight to the client
    srvPhase,    \* the server: "new" until it sent connection_established
    srvSubs,     \* channels the server has the socket subscribed to
    calls,       \* Subscribe and Unsubscribe calls so far
    pings,       \* pings the server sent
    pongs,       \* pongs the server received
    closeCalled  \* the caller has called Close

vars == <<conn, connected, socketID, channels, failed, c2s, s2c, srvPhase,
          srvSubs, calls, pings, pongs, closeCalled>>

\* Event names (lines 15-26) of the messages each side sends;
\* "subscriptionError" is pusher:subscription_error, which has no constant.
ServerEvents == {"established", "succeeded", "publicSucceeded", "ping",
                 "subscriptionError"}
ClientEvents == {"subscribe", "unsubscribe", "pong"}
NoChannel == "none"
SocketIDs == {"", "sid"}
\* A PusherEvent; auth is the socket ID a subscribe's auth is signed for.
Msg(type, ch, auth) == [type |-> type, ch |-> ch, auth |-> auth]

TypeOK ==
    /\ conn \in {"open", "closed", "dropped"}
    /\ connected \in BOOLEAN /\ socketID \in SocketIDs
    /\ channels \in [Channels -> {"none", "pending", "subscribed"}]
    /\ failed \in BOOLEAN
    /\ c2s \in Seq([type : ClientEvents, ch : Channels \cup {NoChannel},
                    auth : SocketIDs])
    /\ s2c \in Seq([type : ServerEvents, ch : Channels \cup {NoChannel},
                    auth : SocketIDs])
    /\ srvPhase \in {"new", "established"}
    /\ srvSubs \subseteq Channels
    /\ calls \in 0..MaxCalls /\ pings \in 0..MaxPings /\ pongs \in 0..MaxPings
    /\ closeCalled \in BOOLEAN

\* NewPusherClient (lines 81-95): the dial succeeded; not yet connected.
Init ==
    /\ conn = "open"
    /\ connected = FALSE /\ socketID = ""
    /\ channels = [c \in Channels |-> "none"]
    /\ failed = FALSE
    /\ c2s = <<>> /\ s2c = <<>>
    /\ srvPhase = "new" /\ srvSubs = {}
    /\ calls = 0 /\ pings = 0 /\ pongs = 0
    /\ closeCalled = FALSE

(***************************************************************************)
(* The switch of NextEvent (lines 111-139) on an event read.               *)
(* connection_established sets connected and the socket ID (and the       *)
(* activity timeout, not modelled); a success event marks its channel;     *)
(* a ping is answered; other pusher: events make NextEvent return an error *)
(* (HandleFails).                                                          *)
(***************************************************************************)
HandleFails(e) == e.type = "subscriptionError"

\* Plausible faults: the Ping case without its reply; the reply sent after
\* the switch, for every event.
HandleNoPong(e) ==
    CASE e.type = "established" ->
           /\ connected' = TRUE /\ socketID' = e.auth
           /\ UNCHANGED <<channels, c2s>>
      [] e.type \in {"succeeded", "publicSucceeded"} ->
           /\ channels' = [channels EXCEPT ![e.ch] = "subscribed"]
           /\ UNCHANGED <<connected, socketID, c2s>>
      [] OTHER ->
           UNCHANGED <<connected, socketID, channels, c2s>>

HandlePongAlways(e) ==
    /\ c2s' = Append(c2s, Msg("pong", NoChannel, ""))
    /\ CASE e.type = "established" ->
              /\ connected' = TRUE /\ socketID' = e.auth
              /\ UNCHANGED channels
         [] e.type \in {"succeeded", "publicSucceeded"} ->
              /\ channels' = [channels EXCEPT ![e.ch] = "subscribed"]
              /\ UNCHANGED <<connected, socketID>>
         [] OTHER ->
              UNCHANGED <<connected, socketID, channels>>

Handle(e) ==
    CASE e.type = "established" ->
           /\ connected' = TRUE /\ socketID' = e.auth
           /\ UNCHANGED <<channels, c2s>>
      [] e.type \in {"succeeded", "publicSucceeded"} ->
           /\ channels' = [channels EXCEPT ![e.ch] = "subscribed"]
           /\ UNCHANGED <<connected, socketID, c2s>>
      [] e.type = "ping" ->
           /\ c2s' = Append(c2s, Msg("pong", NoChannel, ""))
           /\ UNCHANGED <<connected, socketID, channels>>
      [] OTHER ->
           UNCHANGED <<connected, socketID, channels, c2s>>

(***************************************************************************)
(* One read by NextEvent (lines 106-140), or by Expect(t) (lines 195-207), *)
(* which also fails when the event is not of type t.  readJSON (lines     *)
(* 97-104) fails once the network dropped the connection.                  *)
(***************************************************************************)
AnyEvent == "any"
ExpectedEvents == {"established", "succeeded"}

Read(t) ==
    /\ ~closeCalled /\ ~failed
    /\ \/ /\ conn = "open" /\ s2c # <<>>
          /\ s2c' = Tail(s2c)
          /\ Handle(Head(s2c))
          /\ failed' = (HandleFails(Head(s2c)) \/
                        (t # AnyEvent /\ Head(s2c).type # t))
       \/ /\ conn = "dropped"
          /\ failed' = TRUE
          /\ UNCHANGED <<connected, socketID, channels, c2s, s2c>>
    /\ UNCHANGED <<conn, srvPhase, srvSubs, calls, pings, pongs, closeCalled>>

NextEvent == Read(AnyEvent)

Expect(t) == Read(t)

(***************************************************************************)
(* Subscribe (lines 142-156): a private channel is first authenticated     *)
(* over HTTP (Authenticate, lines 209-252), which signs p.socketID and may *)
(* fail.  Then the subscribe is sent (send, lines 168-185, which fails on  *)
(* a dropped connection) and the channel is recorded as not yet confirmed. *)
(***************************************************************************)
Subscribe(ch) ==
    /\ ~closeCalled /\ ~failed
    /\ calls < MaxCalls
    /\ calls' = calls + 1
    /\ \/ /\ ch \in Private             \* Authenticate fails
          /\ failed' = TRUE
          /\ UNCHANGED <<channels, c2s>>
       \/ /\ conn = "dropped"           \* send fails
          /\ failed' = TRUE
          /\ UNCHANGED <<channels, c2s>>
       \/ /\ conn = "open"
          /\ c2s' = Append(c2s, Msg("subscribe", ch,
                                    IF ch \in Private THEN socketID ELSE ""))
          /\ channels' = [channels EXCEPT ![ch] = "pending"]
          /\ UNCHANGED failed
    /\ UNCHANGED <<conn, connected, socketID, s2c, srvPhase, srvSubs, pings,
                   pongs, closeCalled>>

\* Unsubscribe (lines 158-166): send, then delete the channel.
Unsubscribe(ch) ==
    /\ ~closeCalled /\ ~failed
    /\ calls < MaxCalls
    /\ calls' = calls + 1
    /\ \/ /\ conn = "dropped"           \* send fails
          /\ failed' = TRUE
          /\ UNCHANGED <<channels, c2s>>
       \/ /\ conn = "open"
          /\ c2s' = Append(c2s, Msg("unsubscribe", ch, ""))
          /\ channels' = [channels EXCEPT ![ch] = "none"]
          /\ UNCHANGED failed
    /\ UNCHANGED <<conn, connected, socketID, s2c, srvPhase, srvSubs, pings,
                   pongs, closeCalled>>

\* Close (lines 187-193): the websocket is closed only if connected.
Close ==
    /\ ~closeCalled
    /\ closeCalled' = TRUE
    /\ conn' = IF connected /\ conn = "open" THEN "closed" ELSE conn
    /\ UNCHANGED <<connected, socketID, channels, failed, c2s, s2c, srvPhase,
                   srvSubs, calls, pings, pongs>>

(***************************************************************************)
(* The server and the network.                                             *)
(***************************************************************************)
ServerEstablish ==
    /\ conn = "open" /\ srvPhase = "new"
    /\ srvPhase' = "established"
    /\ s2c' = Append(s2c, Msg("established", NoChannel, "sid"))
    /\ UNCHANGED <<conn, connected, socketID, channels, failed, c2s, srvSubs,
                   calls, pings, pongs, closeCalled>>

\* A private channel's auth must be signed for the socket's ID.
Authorised(m) == m.ch \notin Private \/ m.auth = "sid"

\* The server takes the next client message.
ServerReceive ==
    LET m == Head(c2s) IN
    /\ conn = "open" /\ srvPhase = "established"
    /\ c2s # <<>>
    /\ c2s' = Tail(c2s)
    /\ CASE m.type = "subscribe" /\ Authorised(m) ->
              /\ srvSubs' = srvSubs \cup {m.ch}
              /\ \E name \in {"succeeded", "publicSucceeded"} :
                    s2c' = Append(s2c, Msg(name, m.ch, ""))
              /\ UNCHANGED pongs
         [] m.type = "subscribe" ->
              /\ s2c' = Append(s2c, Msg("subscriptionError", m.ch, ""))
              /\ UNCHANGED <<srvSubs, pongs>>
         [] m.type = "unsubscribe" ->
              /\ srvSubs' = srvSubs \ {m.ch}
              /\ UNCHANGED <<s2c, pongs>>
         [] OTHER ->
              /\ pongs' = pongs + 1
              /\ UNCHANGED <<srvSubs, s2c>>
    /\ UNCHANGED <<conn, connected, socketID, channels, failed, srvPhase,
                   calls, pings, closeCalled>>

ServerPing ==
    /\ conn = "open" /\ srvPhase = "established"
    /\ pings < MaxPings
    /\ pings' = pings + 1
    /\ s2c' = Append(s2c, Msg("ping", NoChannel, ""))
    /\ UNCHANGED <<conn, connected, socketID, channels, failed, c2s, srvPhase,
                   srvSubs, calls, pongs, closeCalled>>

\* The network drops the connection; what is in flight is lost.
NetworkDrop ==
    /\ conn = "open"
    /\ conn' = "dropped"
    /\ c2s' = <<>> /\ s2c' = <<>> /\ srvSubs' = {}
    /\ UNCHANGED <<connected, socketID, channels, failed, srvPhase, calls,
                   pings, pongs, closeCalled>>

Next ==
    \/ NextEvent
    \/ \E t \in ExpectedEvents : Expect(t)
    \/ \E ch \in Channels : Subscribe(ch) \/ Unsubscribe(ch)
    \/ Close
    \/ ServerEstablish \/ ServerReceive \/ ServerPing \/ NetworkDrop

(***************************************************************************)
(* The caller loops on NextEvent, and after an error it closes the client *)
(* (the test's t.Fatal runs the deferred Close); the server processes what *)
(* it receives.  Calling Subscribe, Unsubscribe, Expect or Close otherwise *)
(* is up to the caller, and the network may or may not drop: no fairness.  *)
(***************************************************************************)
Spec == Init /\ [][Next]_vars /\ WF_vars(NextEvent) /\ WF_vars(failed /\ Close)
                              /\ WF_vars(ServerEstablish)
                              /\ WF_vars(ServerReceive)

-----------------------------------------------------------------------------
(***************************************************************************)
(* Properties                                                              *)
(***************************************************************************)
\* Every ping the server sends is answered by NextEvent with a pong that
\* reaches the server, unless the client is closed.
PingAnswered ==
    \A n \in 1..MaxPings : pings >= n ~> (pongs >= n \/ closeCalled)

=============================================================================
