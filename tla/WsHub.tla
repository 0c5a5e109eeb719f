------------------------------- MODULE WsHub -------------------------------
(***************************************************************************)
(* The WebSocket chat (websocket.go): the goroutine of the hub and, for    *)
(* every client, wsHandler, readPump and writePump.                        *)
(*                                                                         *)
(* register, unregister and broadcast are unbuffered: a send on them and   *)
(* the hub's receive are one step.  A client's send channel is a buffer;   *)
(* a send on it after close(client.send) panics and ends the process.      *)
(* Of a message it matters whether it is a broadcast, and which one.       *)
(***************************************************************************)
EXTENDS Naturals, Sequences

CONSTANTS
    Clients,    \* the connections of a run, each used once
    Colors,     \* defColors
    NoColor,    \* the color of a client that has not connected yet
    BufferSize, \* the capacity of send, 256 in the code
    MaxReads    \* bound: how many messages the clients send

ASSUME BufferSizeAssumption == BufferSize \in Nat \ {0}
ASSUME ColorsAssumption == NoColor \notin Colors /\ Colors # {}
ASSUME MaxReadsAssumption == MaxReads \in Nat

VARIABLES
    clients,    \* hub.clients
    hub,        \* the message run is distributing and to whom it still has to
    casts,      \* how many broadcasts the hub has taken
    handler,    \* each client's wsHandler
    color, closed,      \* fields of Client
    send, sendClosed,   \* the channel send, and whether it is closed
    rd, wr,     \* each client's readPump and writePump
    conn,       \* each client's connection
    since,      \* the broadcasts taken before the client was registered
    got,        \* the broadcasts written to the client
    reads,      \* how many messages were read
    crashed     \* a panic or a fatal error ended the process: no step any more

hubVars == <<clients, hub, casts>>
clientVars == <<handler, color, closed, since>>
pumpVars == <<rd, wr, conn, got, reads>>
vars == <<hubVars, clientVars, send, sendClosed, pumpVars, crashed>>

Idle == [pc |-> "select", todo |-> {}]

\* A reply to the client alone; broadcasts are the numbers from 1.
Reply == 0

\* The broadcasts among messages, in their order.
OnlyBroadcasts(msgs) ==
    LET upTo[i \in 0 .. Len(msgs)] ==
            IF i = 0 THEN <<>>
            ELSE IF msgs[i] = Reply THEN upTo[i - 1]
            ELSE Append(upTo[i - 1], msgs[i])
    IN  upTo[Len(msgs)]

\* Variables have values of these types.
TypeOK ==
    /\ clients \subseteq Clients
    /\ hub \in [pc : {"select", "deliver"}, todo : SUBSET Clients]
    /\ casts \in Nat
    /\ handler \in [Clients -> {"new", "pick", "register", "done"}]
    /\ color \in [Clients -> Colors \union {NoColor}]
    /\ closed \in [Clients -> BOOLEAN]
    /\ send \in [Clients -> Seq(0 .. casts)]
    /\ \A c \in Clients : Len(send[c]) <= BufferSize
    /\ sendClosed \in [Clients -> BOOLEAN]
    /\ rd \in [Clients -> {"off", "read", "info", "echo", "post", "bye", "leave", "done"}]
    /\ wr \in [Clients -> {"off", "select", "bye", "done"}]
    /\ conn \in [Clients -> {"up", "down"}]
    /\ since \in [Clients -> 0 .. casts]
    /\ got \in [Clients -> Seq(0 .. casts)]
    /\ reads \in 0 .. MaxReads
    /\ crashed \in BOOLEAN

Init ==
    /\ clients = {}
    /\ hub = Idle
    /\ casts = 0
    /\ handler = [c \in Clients |-> "new"]
    /\ color = [c \in Clients |-> NoColor]
    /\ closed = [c \in Clients |-> FALSE]
    /\ send = [c \in Clients |-> <<>>]
    /\ sendClosed = [c \in Clients |-> FALSE]
    /\ rd = [c \in Clients |-> "off"]
    /\ wr = [c \in Clients |-> "off"]
    /\ conn = [c \in Clients |-> "up"]
    /\ since = [c \in Clients |-> 0]
    /\ got = [c \in Clients |-> <<>>]
    /\ reads = 0
    /\ crashed = FALSE

(***************************************************************************)
(* getRandomColor ranges over hub.clients without a lock: the Go runtime   *)
(* may end the process if the hub writes the map meanwhile.                *)
(***************************************************************************)
MapWrite ==
    crashed' \in IF \E c \in Clients : handler[c] = "pick"
                 THEN BOOLEAN ELSE {FALSE}

-----------------------------------------------------------------------------
(***************************************************************************)
(* wsHandler                                                               *)
(***************************************************************************)

\* Upgrade succeeds and getRandomColor starts.
Connect(c) ==
    /\ ~crashed
    /\ handler[c] = "new"
    /\ handler' = [handler EXCEPT ![c] = "pick"]
    /\ UNCHANGED <<hubVars, color, closed, since, send, sendClosed, pumpVars,
                   crashed>>

usedColors == {color[d] : d \in clients}

\* The colors getRandomColor chooses from, diffSlice(defColors, usedColors).
freeColors == IF Colors \subseteq usedColors THEN Colors ELSE Colors \ usedColors

\* getRandomColor returns.
PickColor(c) ==
    /\ ~crashed
    /\ handler[c] = "pick"
    /\ \E k \in freeColors : color' = [color EXCEPT ![c] = k]
    /\ handler' = [handler EXCEPT ![c] = "register"]
    /\ UNCHANGED <<hubVars, closed, since, send, sendClosed, pumpVars, crashed>>

\* register <- client meets the hub; then both pumps start.
Register(c) ==
    /\ ~crashed
    /\ handler[c] = "register"
    /\ hub.pc = "select"
    /\ clients' = clients \union {c}
    /\ since' = [since EXCEPT ![c] = casts]
    /\ handler' = [handler EXCEPT ![c] = "done"]
    /\ rd' = [rd EXCEPT ![c] = "read"]
    /\ wr' = [wr EXCEPT ![c] = "select"]
    /\ MapWrite
    /\ UNCHANGED <<hub, casts, color, closed, send, sendClosed, conn, got, reads>>

(***************************************************************************)
(* Hub.run                                                                 *)
(***************************************************************************)

\* A pump's broadcast <- message meets the hub.
TakeBroadcast ==
    /\ hub.pc = "select"
    /\ casts' = casts + 1
    /\ hub' = [pc |-> "deliver", todo |-> clients]
    /\ UNCHANGED clients

\* Mutated form of Deliver: the slow client stays in hub.clients.
DeliverKeeps(c) ==
    /\ ~crashed
    /\ hub.pc = "deliver"
    /\ c \in hub.todo
    /\ hub' = [hub EXCEPT !.todo = @ \ {c}]
    /\ IF ~closed[c] /\ Len(send[c]) = BufferSize
       THEN sendClosed' = [sendClosed EXCEPT ![c] = TRUE] /\ UNCHANGED send
       ELSE /\ send' = [send EXCEPT ![c] = IF closed[c] THEN @ ELSE Append(@, casts)]
            /\ UNCHANGED sendClosed
    /\ UNCHANGED <<clients, casts, clientVars, pumpVars, crashed>>

\* Mutated form of Deliver: a message that does not fit is dropped.
DeliverDrops(c) ==
    /\ ~crashed
    /\ hub.pc = "deliver"
    /\ c \in hub.todo
    /\ hub' = [hub EXCEPT !.todo = @ \ {c}]
    /\ send' = [send EXCEPT ![c] =
                   IF closed[c] \/ Len(@) = BufferSize THEN @ ELSE Append(@, casts)]
    /\ UNCHANGED <<clients, casts, sendClosed, clientVars, pumpVars, crashed>>

(***************************************************************************)
(* One turn of the loop over hub.clients: a client that is closed is       *)
(* passed over, one whose buffer is full is evicted.                       *)
(***************************************************************************)
Deliver(c) ==
    /\ ~crashed
    /\ hub.pc = "deliver"
    /\ c \in hub.todo
    /\ hub' = [hub EXCEPT !.todo = @ \ {c}]
    /\ \/ /\ closed[c]
          /\ UNCHANGED <<clients, send, sendClosed, crashed>>
       \/ /\ ~closed[c]
          /\ Len(send[c]) < BufferSize
          /\ send' = [send EXCEPT ![c] = Append(@, casts)]
          /\ UNCHANGED <<clients, sendClosed, crashed>>
       \/ /\ ~closed[c]
          /\ Len(send[c]) = BufferSize
          /\ sendClosed' = [sendClosed EXCEPT ![c] = TRUE]
          /\ clients' = clients \ {c}
          /\ MapWrite
          /\ UNCHANGED send
    /\ UNCHANGED <<casts, clientVars, pumpVars>>

\* The loop ends.
Delivered ==
    /\ ~crashed
    /\ hub.pc = "deliver"
    /\ hub.todo = {}
    /\ hub' = Idle
    /\ UNCHANGED <<clients, casts, clientVars, send, sendClosed, pumpVars, crashed>>

(***************************************************************************)
(* readPump                                                                *)
(***************************************************************************)

\* ReadMessage returns a message: whoAmI is answered (info) and then
\* announced, postToChat is broadcast (post), echoMessage and anything that
\* is not JSON goes back to the client (echo), other JSON is ignored (read).
\* What was received before the connection went down can still be read.
Read(c, type) ==
    /\ ~crashed
    /\ rd[c] = "read"
    /\ reads < MaxReads
    /\ reads' = reads + 1
    /\ rd' = [rd EXCEPT ![c] = type]
    /\ UNCHANGED <<hubVars, clientVars, send, sendClosed, wr, conn, got, crashed>>

\* Mutated form of Answer: one message more than the buffer holds.
AnswerOverflows(c) ==
    /\ ~crashed
    /\ rd[c] \in {"info", "echo"}
    /\ \/ /\ sendClosed[c]
          /\ crashed' = TRUE
          /\ UNCHANGED <<send, rd>>
       \/ /\ ~sendClosed[c]
          /\ Len(send[c]) <= BufferSize
          /\ send' = [send EXCEPT ![c] = Append(@, Reply)]
          /\ rd' = [rd EXCEPT ![c] = IF @ = "info" THEN "post" ELSE "read"]
          /\ UNCHANGED crashed
    /\ UNCHANGED <<hubVars, clientVars, sendClosed, wr, conn, got, reads>>

\* c.send <- message: waits for room, and panics once send is closed.
Answer(c) ==
    /\ ~crashed
    /\ rd[c] \in {"info", "echo"}
    /\ \/ /\ sendClosed[c]
          /\ crashed' = TRUE
          /\ UNCHANGED <<send, rd>>
       \/ /\ ~sendClosed[c]
          /\ Len(send[c]) < BufferSize
          /\ send' = [send EXCEPT ![c] = Append(@, Reply)]
          /\ rd' = [rd EXCEPT ![c] = IF @ = "info" THEN "post" ELSE "read"]
          /\ UNCHANGED crashed
    /\ UNCHANGED <<hubVars, clientVars, sendClosed, wr, conn, got, reads>>

\* broadcast <- message of a post or of the announcement after whoAmI.
Post(c) ==
    /\ ~crashed
    /\ rd[c] = "post"
    /\ TakeBroadcast
    /\ rd' = [rd EXCEPT ![c] = "read"]
    /\ UNCHANGED <<clientVars, send, sendClosed, wr, conn, got, reads, crashed>>

\* Mutated form of ReadFails: the loop goes on after an error.
ReadFailsContinues(c) ==
    /\ ~crashed
    /\ rd[c] = "read"
    /\ closed' = [closed EXCEPT ![c] = TRUE]
    /\ UNCHANGED <<hubVars, handler, color, since, send, sendClosed, rd, wr, conn,
                   got, reads, crashed>>

\* ReadMessage fails: the connection is lost, the client closes it, sends
\* too large a message or no pong in time.
ReadFails(c) ==
    /\ ~crashed
    /\ rd[c] = "read"
    /\ closed' = [closed EXCEPT ![c] = TRUE]
    /\ rd' = [rd EXCEPT ![c] = "bye"]
    /\ UNCHANGED <<hubVars, handler, color, since, send, sendClosed, wr, conn,
                   got, reads, crashed>>

\* broadcast <- "Disconnected due to ..."
ReadBye(c) ==
    /\ ~crashed
    /\ rd[c] = "bye"
    /\ TakeBroadcast
    /\ rd' = [rd EXCEPT ![c] = "leave"]
    /\ UNCHANGED <<clientVars, send, sendClosed, wr, conn, got, reads, crashed>>

\* Mutated form of Unregister: the hub keeps the client.
UnregisterForgets(c) ==
    /\ ~crashed
    /\ rd[c] = "leave"
    /\ hub.pc = "select"
    /\ rd' = [rd EXCEPT ![c] = "done"]
    /\ conn' = [conn EXCEPT ![c] = "down"]
    /\ UNCHANGED <<hubVars, clientVars, send, sendClosed, wr, got, reads, crashed>>

\* unregister <- c meets the hub, which removes a client it still has and
\* closes its channel; conn.Close().
Unregister(c) ==
    /\ ~crashed
    /\ rd[c] = "leave"
    /\ hub.pc = "select"
    /\ clients' = clients \ {c}
    /\ sendClosed' = [sendClosed EXCEPT ![c] = @ \/ c \in clients]
    /\ IF c \in clients THEN MapWrite ELSE UNCHANGED crashed
    /\ rd' = [rd EXCEPT ![c] = "done"]
    /\ conn' = [conn EXCEPT ![c] = "down"]
    /\ UNCHANGED <<hub, casts, clientVars, send, wr, got, reads>>

(***************************************************************************)
(* writePump                                                               *)
(***************************************************************************)

\* Mutated form of Write: the queued messages go out before the first one.
WriteSwapped(c) ==
    /\ ~crashed
    /\ wr[c] = "select"
    /\ send[c] # <<>>
    /\ conn[c] = "up"
    /\ got' = [got EXCEPT ![c] = @ \o OnlyBroadcasts(Tail(send[c]) \o <<Head(send[c])>>)]
    /\ send' = [send EXCEPT ![c] = <<>>]
    /\ UNCHANGED <<hubVars, clientVars, sendClosed, rd, wr, conn, reads, crashed>>

\* Mutated form of Write: messages are held back until the buffer is full.
WriteBatches(c) ==
    /\ ~crashed
    /\ wr[c] = "select"
    /\ Len(send[c]) = BufferSize
    /\ conn[c] = "up"
    /\ got' = [got EXCEPT ![c] = @ \o OnlyBroadcasts(send[c])]
    /\ send' = [send EXCEPT ![c] = <<>>]
    /\ UNCHANGED <<hubVars, clientVars, sendClosed, rd, wr, conn, reads, crashed>>

\* A message and the n messages queued behind it are written as one.
Write(c) ==
    /\ ~crashed
    /\ wr[c] = "select"
    /\ send[c] # <<>>
    /\ conn[c] = "up"
    /\ got' = [got EXCEPT ![c] = @ \o OnlyBroadcasts(send[c])]
    /\ send' = [send EXCEPT ![c] = <<>>]
    /\ UNCHANGED <<hubVars, clientVars, sendClosed, rd, wr, conn, reads, crashed>>

\* NextWriter fails (the first message is lost), or NextWriter.Close does
\* (those behind it are lost too), or the ping does.
WriteFails(c) ==
    /\ ~crashed
    /\ wr[c] = "select"
    /\ conn[c] = "down"
    /\ \/ send[c] # <<>> /\ send' = [send EXCEPT ![c] = Tail(@)]
       \/ send[c] # <<>> /\ send' = [send EXCEPT ![c] = <<>>]
       \/ UNCHANGED send
    /\ closed' = [closed EXCEPT ![c] = TRUE]
    /\ wr' = [wr EXCEPT ![c] = "bye"]
    /\ UNCHANGED <<hubVars, handler, color, since, sendClosed, rd, conn, got,
                   reads, crashed>>

\* broadcast <- "Disconnected due to ..."; conn.Close().
WriteBye(c) ==
    /\ ~crashed
    /\ wr[c] = "bye"
    /\ TakeBroadcast
    /\ wr' = [wr EXCEPT ![c] = "done"]
    /\ UNCHANGED <<clientVars, send, sendClosed, rd, conn, got, reads, crashed>>

\* The hub closed the channel: a close message, then conn.Close().
WriteClosed(c) ==
    /\ ~crashed
    /\ wr[c] = "select"
    /\ send[c] = <<>>
    /\ sendClosed[c]
    /\ wr' = [wr EXCEPT ![c] = "done"]
    /\ conn' = [conn EXCEPT ![c] = "down"]
    /\ UNCHANGED <<hubVars, clientVars, send, sendClosed, rd, got, reads, crashed>>

\* The connection is lost.
ConnDown(c) ==
    /\ ~crashed
    /\ conn[c] = "up"
    /\ handler[c] = "done"
    /\ conn' = [conn EXCEPT ![c] = "down"]
    /\ UNCHANGED <<hubVars, clientVars, send, sendClosed, rd, wr, got, reads, crashed>>

-----------------------------------------------------------------------------
wsHandler(c) == Connect(c) \/ PickColor(c) \/ Register(c)

run == Delivered \/ \E c \in Clients : Deliver(c)

readPump(c) ==
    \/ Answer(c)
    \/ Post(c)
    \/ conn[c] = "down" /\ ReadFails(c)
    \/ ReadBye(c)
    \/ Unregister(c)

writePump(c) ==
    \/ Write(c)
    \/ WriteFails(c)
    \/ WriteBye(c)
    \/ WriteClosed(c)

\* What the clients and the network do.
Environment(c) ==
    \/ \E type \in {"info", "echo", "post", "read"} : Read(c, type)
    \/ ReadFails(c)
    \/ ConnDown(c)

Next ==
    \/ run
    \/ \E c \in Clients :
           wsHandler(c) \/ readPump(c) \/ writePump(c) \/ Environment(c)

(***************************************************************************)
(* Goroutines are scheduled fairly: the hub's loop, and each pump whose    *)
(* step stays possible, which includes that ReadMessage and the ping fail  *)
(* once the connection is down.  Weak fairness is enough, though the hub's *)
(* random select would justify strong fairness.                            *)
(***************************************************************************)
Fairness ==
    /\ WF_vars(run)
    /\ \A c \in Clients :
           /\ WF_vars(readPump(c))
           /\ WF_vars(writePump(c))

Spec == Init /\ [][Next]_vars

FairSpec == Spec /\ Fairness

-----------------------------------------------------------------------------
(***************************************************************************)
(* The hub never sends on nor closes a channel that is closed: a channel   *)
(* is closed exactly when a registered client has left hub.clients, by     *)
(* unregister or by eviction, and the other then finds it gone.            *)
(***************************************************************************)
ClosedOnce ==
    \A c \in Clients : sendClosed[c] <=> handler[c] = "done" /\ c \notin clients

(***************************************************************************)
(* A client that the hub still serves has been given every broadcast since *)
(* it was registered, once and in the hub's order, by replies undisturbed. *)
(***************************************************************************)
NothingMissed ==
    \A c \in clients :
        ~closed[c] =>
            got[c] \o OnlyBroadcasts(send[c]) =
                [i \in 1 .. casts - since[c] - (IF c \in hub.todo THEN 1 ELSE 0)
                     |-> since[c] + i]

(***************************************************************************)
(* WsHub implements Chat: whatever happens to a client, in its buffer, at  *)
(* an eviction, an error or a lost connection, what was written to it are  *)
(* consecutive broadcasts from the one after its registration.             *)
(***************************************************************************)
ChatOf == INSTANCE Chat WITH
    posted <- casts,
    joined <- {c \in Clients : handler[c] = "done"},
    start <- since,
    shown <- got

ShowsChat == ChatOf!Spec

(***************************************************************************)
(* A broadcast reaches everyone who was there and stays: it is written to  *)
(* each client unless the client is lost, evicted or closed, or the        *)
(* process dies.                                                           *)
(***************************************************************************)
Reached ==
    \A c \in Clients, n \in 1 .. MaxReads + 1 :
        (c \in clients /\ since[c] < n /\ n <= casts) ~>
            \/ Len(got[c]) >= n - since[c]
            \/ closed[c] \/ sendClosed[c] \/ conn[c] = "down" \/ crashed

(***************************************************************************)
(* A readPump that has met an error gets its client out of hub.clients,    *)
(* with writePump ended, unless the process dies: no slow client holds     *)
(* the hub up.                                                             *)
(***************************************************************************)
LeaversLeave ==
    \A c \in Clients :
        (rd[c] = "bye") ~> (crashed \/ (c \notin clients /\ wr[c] = "done"))

\* readPump waits for room in a buffer that writePump no longer empties.
StuckAnswering(c) ==
    rd[c] \in {"info", "echo"} /\ Len(send[c]) = BufferSize /\ wr[c] = "done"

(***************************************************************************)
(* A client whose connection is down is got rid of, also when it never     *)
(* says so, unless the process dies; there is one exception, a readPump    *)
(* that answers into the buffer of a writePump that has ended.             *)
(***************************************************************************)
LostLeave ==
    \A c \in Clients :
        (handler[c] = "done" /\ conn[c] = "down") ~>
            \/ crashed
            \/ StuckAnswering(c)
            \/ c \notin clients /\ wr[c] = "done" /\ rd[c] = "done"

(***************************************************************************)
(* "Echo - ... The same message is returned only to the client"            *)
(* (README.md): a message that is to go back to its client finds a channel *)
(* it can be sent on.                                                      *)
(***************************************************************************)
EchoReturned ==
    \A c \in Clients : rd[c] \in {"info", "echo"} => ~sendClosed[c]

(***************************************************************************)
(* "Do not duplicate color selections until all color definitions are      *)
(* used" (websocket.go:157).                                               *)
(***************************************************************************)
DistinctColors ==
    Colors \subseteq usedColors
        \/ \A c, d \in clients : c # d => color[c] # color[d]
=============================================================================
