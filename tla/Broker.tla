------------------------------- MODULE Broker -------------------------------
(***************************************************************************)
(* The broker that pushes events to the browsers of a user (sse.Broker)    *)
(* and the handler behind each connection (Handler.Stream).  Users do not  *)
(* share anything but the shutdown, so there is one.                       *)
(*                                                                         *)
(* The channel of a connection is known by the connection.  Closing a      *)
(* closed channel, or sending to one, would panic.                         *)
(***************************************************************************)
EXTENDS Integers, FiniteSets

CONSTANTS
    Conn,       \* connections, each made at most once
    BufferSize  \* of the channel of a connection

ASSUME BrokerAssumption == IsFiniteSet(Conn) /\ BufferSize \in Nat \ {0}

VARIABLES
    clients,    \* Broker.clients of the user
    stream,     \* where the handler of each connection is
    buffer,     \* events in each channel
    closes,     \* how often each channel was closed
    shutdown    \* Broker.Close: not called, done is closed, finished

brokerVars == <<clients, stream, buffer, closes, shutdown>>

-----------------------------------------------------------------------------
Subscribe(c) ==
    /\ stream[c] = "unused"
    /\ clients' = clients \cup {c}
    /\ stream' = [stream EXCEPT ![c] = "loop"]
    /\ UNCHANGED <<buffer, closes, shutdown>>

(* MUTANT: the channel is closed whether or not it is still registered.    *)
(* Definitions marked MUTANT are plausible bugs of the definition that     *)
(* follows them; no specification uses them.                               *)
UnsubscribeBlindly(c) ==
    /\ stream[c] = "leave"
    /\ closes' = [closes EXCEPT ![c] = @ + 1] /\ clients' = clients \ {c}
    /\ stream' = [stream EXCEPT ![c] = "done"]
    /\ UNCHANGED <<buffer, shutdown>>

Unsubscribe(c) ==
    /\ stream[c] = "leave"
    /\ closes' = [closes EXCEPT ![c] = IF c \in clients THEN @ + 1 ELSE @]
    /\ clients' = clients \ {c}
    /\ stream' = [stream EXCEPT ![c] = "done"]
    /\ UNCHANGED <<buffer, shutdown>>

(* Part of the actions that publish: a slow client loses the event.        *)
Publish ==
    /\ buffer' = [c \in Conn |-> IF c \in clients /\ buffer[c] < BufferSize
                                 THEN buffer[c] + 1 ELSE buffer[c]]
    /\ UNCHANGED <<clients, stream, closes, shutdown>>

Deliver(c) ==
    /\ stream[c] = "loop" /\ buffer[c] > 0
    /\ buffer' = [buffer EXCEPT ![c] = @ - 1]
    /\ UNCHANGED <<clients, stream, closes, shutdown>>

Leave(c) ==
    /\ stream[c] = "loop"
    /\ stream' = [stream EXCEPT ![c] = "leave"]
    /\ UNCHANGED <<clients, buffer, closes, shutdown>>

(* The request's context is done, or a write failed.                       *)
Disconnect(c) == Leave(c)

(* MUTANT: the handler waits for its own channel only.                     *)
StopStreamingOnClosed(c) == closes[c] > 0 /\ Leave(c)

(* The broker's done channel, or the handler's own, is closed.             *)
StopStreaming(c) == (closes[c] > 0 \/ shutdown # "no") /\ Leave(c)

Broadcast == Publish

CloseDone ==
    /\ shutdown = "no" /\ shutdown' = "done"
    /\ UNCHANGED <<clients, stream, buffer, closes>>

(* MUTANT: the channels are closed and stay in the list.                   *)
CloseClientsListed ==
    /\ shutdown = "done" /\ shutdown' = "finished"
    /\ closes' = [c \in Conn |-> IF c \in clients THEN closes[c] + 1 ELSE closes[c]]
    /\ UNCHANGED <<clients, stream, buffer>>

CloseClients ==
    /\ shutdown = "done" /\ shutdown' = "finished"
    /\ closes' = [c \in Conn |-> IF c \in clients THEN closes[c] + 1 ELSE closes[c]]
    /\ clients' = {}
    /\ UNCHANGED <<stream, buffer>>

-----------------------------------------------------------------------------
BrokerInit ==
    /\ clients = {} /\ stream = [c \in Conn |-> "unused"]
    /\ buffer = [c \in Conn |-> 0] /\ closes = [c \in Conn |-> 0]
    /\ shutdown = "no"

BrokerNext ==
    \/ \E c \in Conn : \/ Subscribe(c) \/ Deliver(c) \/ Disconnect(c)
                       \/ StopStreaming(c) \/ Unsubscribe(c)
    \/ Broadcast \/ CloseDone \/ CloseClients

(* Handlers go on, and so does a shutdown that has begun.                  *)
BrokerFairness ==
    /\ \A c \in Conn : /\ WF_brokerVars(StopStreaming(c))
                       /\ WF_brokerVars(Unsubscribe(c))
    /\ WF_brokerVars(CloseClients)

-----------------------------------------------------------------------------
(* The types; and the list has the handlers that still need it.            *)
BrokerTypeOK ==
    /\ clients = {c \in Conn : stream[c] \in {"loop", "leave"} /\ closes[c] = 0}
    /\ stream \in [Conn -> {"unused", "loop", "leave", "done"}]
    /\ buffer \in [Conn -> 0 .. BufferSize]
    /\ closes \in [Conn -> Nat]
    /\ shutdown \in {"no", "done", "finished"}

(* No panic: no channel is closed twice, and whoever publishes finds open  *)
(* channels only, whichever of the handler and the shutdown comes first.   *)
NoPanic == \A c \in Conn : closes[c] <= (IF c \in clients THEN 0 ELSE 1)

(* Once the broker is shut down every handler returns, also that of a      *)
(* connection that came too late to be in the list.                        *)
ShutdownDrains ==
    shutdown # "no" ~> \A c \in Conn : stream[c] \in {"unused", "done"}
=============================================================================
