---------------------------- MODULE RealtimeHub ----------------------------
(***************************************************************************)
(* The realtime component (components/realtime) and the event bus that     *)
(* feeds it (kernel/eventbus.go).  One goroutine, Hub.Run, owns the client *)
(* and room tables; everybody else reaches it through buffered channels,   *)
(* one per kind of request.  Run selects among the channels that are       *)
(* ready, so two requests sent in order on different channels may be       *)
(* served in the other order.  Every client has a readPump and a writePump *)
(* goroutine.                                                              *)
(***************************************************************************)
EXTENDS Naturals, Sequences, FiniteSets, FiniteSetsExt

CONSTANTS
    Clients,        \* WebSocket connections
    Rooms,          \* the collections somebody may subscribe to
    SendBuf,        \* sendBufSize
    ChanCap,        \* the capacity of the hub's channels
    MaxReads,       \* bound: frames the clients send
    MaxEmits        \* bound: mutation events

ASSUME HubFinite == IsFiniteSet(Clients) /\ IsFiniteSet(Rooms)
ASSUME HubBounds == {SendBuf, ChanCap} \subseteq Nat \ {0} /\ {MaxReads, MaxEmits} \subseteq Nat

VARIABLES
    hub,            \* Hub.Run: "running", "stopped", or "panicked" with the process
    clients,        \* h.clients
    rooms,          \* h.rooms; a room without members is not in the map
    crooms,         \* client.rooms, which the hub keeps for its own use
    sendq,          \* messages waiting in client.send
    shut,           \* clients whose send channel is closed
    chan,           \* the hub's buffered channels
    stopping,       \* h.stop is closed
    conn,           \* the connection of each client
    reader,         \* clients whose readPump runs
    writer,         \* clients whose writePump runs
    subscribed,     \* the bus holds the component's "mutation" hook
    emitting,       \* events whose Emit copied the hook and has yet to call it
    reads,          \* bound: frames so far
    emits,          \* bound: mutation events so far
    lateSub         \* auxiliary: clients subscribed after their channel was closed

hubTables == <<clients, rooms, crooms>>
hubPumps == <<conn, reader, writer>>
hubBus == <<subscribed, emitting, emits>>
hubVars == <<hub, hubTables, sendq, shut, chan, stopping, hubPumps, hubBus, reads, lateSub>>

Channels == {"register", "unregister", "subscribe", "unsubscribe", "broadcast"}

Alive == hub # "panicked"
HasRoom(k) == Len(chan[k]) < ChanCap
Send(k, m) == chan' = [chan EXCEPT ![k] = Append(@, m)]
Receive(k) == chan' = [chan EXCEPT ![k] = Tail(@)]

HubInit ==
    /\ hub = "running"
    /\ clients = {}
    /\ rooms = [r \in Rooms |-> {}]
    /\ crooms = [c \in Clients |-> {}]
    /\ sendq = [c \in Clients |-> 0]
    /\ shut = {}
    /\ chan = [k \in Channels |-> <<>>]
    /\ stopping = FALSE
    /\ conn = [c \in Clients |-> "none"]
    /\ reader = {}
    /\ writer = {}
    /\ subscribed = TRUE
    /\ emitting = {}
    /\ reads = 0
    /\ emits = 0
    /\ lateSub = {}

----------------------------------------------------------------------------
(***************************************************************************)
(* The handlers and the pumps of a connection.                             *)
(***************************************************************************)

\* serveWS: the upgrade succeeded; the request to register is sent before the
\* pumps start.
ServeWS(c) ==
    /\ Alive /\ conn[c] = "none" /\ HasRoom("register")
    /\ Send("register", c)
    /\ conn' = [conn EXCEPT ![c] = "open"]
    /\ reader' = reader \cup {c}
    /\ writer' = writer \cup {c}
    /\ UNCHANGED <<hub, hubTables, sendq, shut, stopping, hubBus, reads, lateSub>>

\* readPump: a frame with a known action; Subscribe and Unsubscribe block while
\* the hub's channel is full.
ReadFrame(c, action, r) ==
    /\ Alive /\ c \in reader /\ conn[c] = "open"
    /\ reads < MaxReads /\ HasRoom(action)
    /\ reads' = reads + 1
    /\ Send(action, [client |-> c, room |-> r])
    /\ UNCHANGED <<hub, hubTables, sendq, shut, stopping, hubPumps, hubBus, lateSub>>

\* readPump: the read failed (the peer left, the pong did not come, or the other
\* pump closed the connection).  The request to unregister is dropped when the
\* channel is full.
ReadPumpExit(c) ==
    /\ Alive /\ c \in reader
    /\ IF HasRoom("unregister") THEN Send("unregister", c) ELSE UNCHANGED chan
    /\ conn' = [conn EXCEPT ![c] = "closed"]
    /\ reader' = reader \ {c}
    /\ UNCHANGED <<hub, hubTables, sendq, shut, stopping, writer, hubBus, reads, lateSub>>

\* writePump: a message goes out.
WriteMessage(c) ==
    /\ Alive /\ c \in writer /\ conn[c] = "open" /\ sendq[c] > 0
    /\ sendq' = [sendq EXCEPT ![c] = @ - 1]
    /\ UNCHANGED <<hub, hubTables, shut, chan, stopping, hubPumps, hubBus, reads, lateSub>>

\* writePump: the channel is closed and drained, or a write or a ping failed.
WritePumpExit(c) ==
    /\ Alive /\ c \in writer
    /\ \/ c \in shut /\ sendq[c] = 0
       \/ conn[c] = "closed"
    /\ conn' = [conn EXCEPT ![c] = "closed"]
    /\ writer' = writer \ {c}
    /\ UNCHANGED <<hub, hubTables, sendq, shut, chan, stopping, reader, hubBus, reads, lateSub>>

----------------------------------------------------------------------------
(***************************************************************************)
(* The event bus: Emit copies the hooks under the lock and calls them      *)
(* without it, so a hook may be called after it was unsubscribed.          *)
(***************************************************************************)

Emit(r) ==
    /\ Alive /\ emits < MaxEmits /\ subscribed
    /\ emits' = emits + 1
    /\ emitting' = emitting \cup {[event |-> emits, room |-> r]}
    /\ UNCHANGED <<hub, hubTables, sendq, shut, chan, stopping, hubPumps, subscribed, reads, lateSub>>

\* The "mutation" hook calls Broadcast, which drops the event when the channel
\* is full.
Broadcast(e) ==
    /\ Alive /\ e \in emitting
    /\ emitting' = emitting \ {e}
    /\ IF HasRoom("broadcast") THEN Send("broadcast", e.room) ELSE UNCHANGED chan
    /\ UNCHANGED <<hub, hubTables, sendq, shut, stopping, hubPumps, subscribed, emits, reads, lateSub>>

\* Realtime.Stop: the hub is told to stop, then the hook is taken off the bus.
RealtimeStop ==
    /\ Alive /\ ~stopping
    /\ stopping' = TRUE
    /\ UNCHANGED <<hub, hubTables, sendq, shut, chan, hubPumps, hubBus, reads, lateSub>>

Unsubscribe ==
    /\ Alive /\ stopping /\ subscribed
    /\ subscribed' = FALSE
    /\ UNCHANGED <<hub, hubTables, sendq, shut, chan, stopping, hubPumps, emitting, emits, reads, lateSub>>

----------------------------------------------------------------------------
(***************************************************************************)
(* Hub.Run: one iteration of the select per action.                        *)
(***************************************************************************)

Ready(k) == hub = "running" /\ chan[k] # <<>>

\* An unregistration after which the rooms keep the client.
UnregisterAllButRooms(cs) ==
    /\ clients' = clients \ cs
    /\ shut' = shut \cup (cs \cap clients)
    /\ UNCHANGED rooms

\* unregisterClient for every client of cs: one that h.clients does not hold is
\* left alone; the others leave the rooms client.rooms names, and their send
\* channel is closed.
UnregisterAll(cs) ==
    LET known == cs \cap clients
    IN  /\ clients' = clients \ known
        /\ rooms' = [r \in Rooms |-> rooms[r] \ {c \in known : r \in crooms[c]}]
        /\ shut' = shut \cup known

HubRegister ==
    /\ Ready("register")
    /\ clients' = clients \cup {Head(chan["register"])}
    /\ Receive("register")
    /\ UNCHANGED <<hub, rooms, crooms, sendq, shut, stopping, hubPumps, hubBus, reads, lateSub>>

HubUnregister ==
    /\ Ready("unregister")
    /\ UnregisterAll({Head(chan["unregister"])})
    /\ Receive("unregister")
    /\ UNCHANGED <<hub, crooms, sendq, stopping, hubPumps, hubBus, reads, lateSub>>

\* A subscription is entered whether or not the hub still knows the client.
HubSubscribe ==
    /\ Ready("subscribe")
    /\ LET q == Head(chan["subscribe"])
       IN  /\ rooms' = [rooms EXCEPT ![q.room] = @ \cup {q.client}]
           /\ crooms' = [crooms EXCEPT ![q.client] = @ \cup {q.room}]
           /\ lateSub' = lateSub \cup ({q.client} \cap shut)
    /\ Receive("subscribe")
    /\ UNCHANGED <<hub, clients, sendq, shut, stopping, hubPumps, hubBus, reads>>

HubUnsubscribe ==
    /\ Ready("unsubscribe")
    /\ LET q == Head(chan["unsubscribe"])
       IN  /\ rooms' = [rooms EXCEPT ![q.room] = @ \ {q.client}]
           /\ crooms' = [crooms EXCEPT ![q.client] = @ \ {q.room}]
    /\ Receive("unsubscribe")
    /\ UNCHANGED <<hub, clients, sendq, shut, stopping, hubPumps, hubBus, reads, lateSub>>

\* A member whose buffer is full is dropped; a send on a closed channel panics
\* and takes the process down.
HubBroadcast ==
    /\ Ready("broadcast")
    /\ Receive("broadcast")
    /\ LET members == rooms[Head(chan["broadcast"])]
           slow == {c \in members : sendq[c] = SendBuf}
       IN  IF members \cap shut # {}
           THEN hub' = "panicked" /\ UNCHANGED <<clients, rooms, shut, sendq>>
           ELSE /\ UnregisterAll(slow)
                /\ sendq' = [c \in Clients |-> IF c \in members \ slow THEN sendq[c] + 1 ELSE sendq[c]]
                /\ UNCHANGED hub
    /\ UNCHANGED <<crooms, stopping, hubPumps, hubBus, reads, lateSub>>

\* The stop case closes the channel of every client the hub knows and drops
\* both tables.
HubStop ==
    /\ hub = "running" /\ stopping
    /\ hub' = "stopped"
    /\ shut' = shut \cup clients
    /\ clients' = {}
    /\ rooms' = [r \in Rooms |-> {}]
    /\ UNCHANGED <<crooms, sendq, chan, stopping, hubPumps, hubBus, reads, lateSub>>

HubNext ==
    \/ \E c \in Clients :
        \/ ServeWS(c) \/ ReadPumpExit(c) \/ WriteMessage(c) \/ WritePumpExit(c)
        \/ \E action \in {"subscribe", "unsubscribe"}, r \in Rooms : ReadFrame(c, action, r)
    \/ \E r \in Rooms : Emit(r)
    \/ \E e \in emitting : Broadcast(e)
    \/ RealtimeStop \/ Unsubscribe
    \/ HubRegister \/ HubUnregister \/ HubSubscribe \/ HubUnsubscribe \/ HubBroadcast \/ HubStop

HubSpec == HubInit /\ [][HubNext]_hubVars

----------------------------------------------------------------------------

Carries(k) == IF k \in {"register", "unregister"} THEN Clients
                ELSE IF k = "broadcast" THEN Rooms
                ELSE [client : Clients, room : Rooms]

\* The types of the variables; no channel or send buffer exceeds its capacity.
HubTypeOK ==
    /\ hub \in {"running", "stopped", "panicked"}
    /\ clients \subseteq Clients
    /\ rooms \in [Rooms -> SUBSET Clients]
    /\ crooms \in [Clients -> SUBSET Rooms]
    /\ sendq \in [Clients -> 0..SendBuf]
    /\ shut \subseteq Clients
    /\ DOMAIN chan = Channels
    /\ \A k \in Channels : chan[k] \in Seq(Carries(k)) /\ Len(chan[k]) <= ChanCap
    /\ stopping \in BOOLEAN
    /\ conn \in [Clients -> {"none", "open", "closed"}]
    /\ reader \subseteq Clients /\ writer \subseteq Clients
    /\ subscribed \in BOOLEAN
    /\ emitting \subseteq [event : Nat, room : Rooms]
    /\ reads \in Nat /\ emits \in Nat
    /\ lateSub \subseteq Clients

\* A channel is closed once (closing it again, in unregisterClient or when the
\* hub stops, would panic), and a broadcast meets a closed channel only when the
\* hub served a client's subscribe request after it had dropped the client
\* (hub.go:72-77): leaving the rooms by client.rooms (hub.go:133) misses none.
OnlyLateSubscribersPanic ==
    /\ clients \cap shut = {}
    /\ \A r \in Rooms : rooms[r] \cap shut \subseteq lateSub
    /\ hub = "panicked" => lateSub # {}

\* What the test plan says of the realtime hub: a client connects, receives events
\* and disconnects cleanly, and the hub removes it.
DisconnectsCleanly == hub # "panicked"

============================================================================
