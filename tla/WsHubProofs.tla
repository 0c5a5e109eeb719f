---------------------------- MODULE WsHubProofs ----------------------------
(***************************************************************************)
(* Proofs about WsHub, for any set of clients, any buffer and any number   *)
(* of messages: the hub closes a client's channel at most once and never   *)
(* sends on a closed one, a client that it serves misses nothing, and      *)
(* WsHub implements Chat.                                                  *)
(***************************************************************************)
EXTENDS WsHub, SequenceTheorems, WellFoundedInduction, TLAPS

\* The part of the state that decides when a channel is closed.
MemberVars == <<clients, hub, handler, sendClosed>>

\* Its types.
MemberTypeOK ==
    /\ clients \subseteq Clients
    /\ hub \in [pc : {"select", "deliver"}, todo : SUBSET Clients]
    /\ handler \in [Clients -> {"new", "pick", "register", "done"}]
    /\ sendClosed \in [Clients -> BOOLEAN]
    /\ rd \in [Clients -> {"off", "read", "info", "echo", "post", "bye", "leave", "done"}]

\* The pumps start once the hub has the client.
Served ==
    /\ \A c \in clients : handler[c] = "done"
    /\ \A c \in Clients : rd[c] # "off" => handler[c] = "done"

\* The hub has nobody to deliver to but clients, and nobody in its select.
Delivering ==
    /\ hub.todo \subseteq clients
    /\ hub.pc = "select" => hub.todo = {}

\* The inductive invariant.
HubInv == MemberTypeOK /\ Served /\ Delivering /\ ClosedOnce

\* The initial state.
LEMMA InitInv == Init => HubInv
  BY DEF Init, Idle, HubInv, MemberTypeOK, Served, Delivering, ClosedOnce

(***************************************************************************)
(* A step that moves one readPump, or none, and changes nobody's           *)
(* membership.                                                             *)
(***************************************************************************)
LEMMA PumpInv ==
  ASSUME HubInv, UNCHANGED MemberVars,
         \/ UNCHANGED rd
         \/ \E c \in Clients : \E s \in {"read", "info", "echo", "post", "bye", "leave"} :
                rd[c] # "off" /\ rd' = [rd EXCEPT ![c] = s]
  PROVE  HubInv'
<1>1. MemberTypeOK' /\ Served'
  BY DEF HubInv, MemberTypeOK, Served, MemberVars
<1> QED
  BY <1>1 DEF HubInv, MemberVars, Delivering, ClosedOnce

\* A pump hands the hub a broadcast.
LEMMA BroadcastInv ==
  ASSUME HubInv, TakeBroadcast, UNCHANGED <<handler, sendClosed>>,
         \/ UNCHANGED rd
         \/ \E c \in Clients : \E s \in {"read", "leave"} :
                rd[c] # "off" /\ rd' = [rd EXCEPT ![c] = s]
  PROVE  HubInv'
<1>1. MemberTypeOK' /\ Served'
  BY DEF HubInv, MemberTypeOK, Served, TakeBroadcast
<1>2. Delivering' /\ ClosedOnce'
  BY DEF HubInv, TakeBroadcast, Delivering, ClosedOnce
<1> QED
  BY <1>1, <1>2 DEF HubInv

\* wsHandler up to the registration.
LEMMA HandlerInv ==
  ASSUME HubInv, NEW c \in Clients, Connect(c) \/ PickColor(c)
  PROVE  HubInv'
<1>1. /\ UNCHANGED <<clients, hub, sendClosed, rd>>
      /\ handler[c] \in {"new", "pick"}
      /\ \E s \in {"pick", "register"} : handler' = [handler EXCEPT ![c] = s]
  BY DEF Connect, PickColor, hubVars, pumpVars
<1> QED
  BY <1>1 DEF HubInv, MemberTypeOK, Served, Delivering, ClosedOnce

\* The registration.
LEMMA RegisterInv ==
  ASSUME HubInv, NEW c \in Clients, Register(c)
  PROVE  HubInv'
<1>1. MemberTypeOK'
  BY DEF HubInv, MemberTypeOK, Register
<1>2. Served'
  BY DEF HubInv, MemberTypeOK, Served, Register
<1>3. Delivering'
  BY DEF HubInv, Delivering, Register
<1>4. ClosedOnce'
  BY DEF HubInv, MemberTypeOK, Served, ClosedOnce, Register
<1> QED
  BY <1>1, <1>2, <1>3, <1>4 DEF HubInv

\* One turn of the loop over the clients, which may evict one.
LEMMA DeliverInv ==
  ASSUME HubInv, NEW c \in Clients, Deliver(c)
  PROVE  HubInv'
<1>1. /\ UNCHANGED <<handler, rd>>
      /\ hub' = [hub EXCEPT !.todo = @ \ {c}]
      /\ c \in hub.todo
      /\ hub.pc = "deliver"
      /\ \/ UNCHANGED <<clients, sendClosed>>
         \/ /\ sendClosed' = [sendClosed EXCEPT ![c] = TRUE]
            /\ clients' = clients \ {c}
  BY DEF Deliver, clientVars, pumpVars
<1>2. MemberTypeOK' /\ Served'
  BY <1>1 DEF HubInv, MemberTypeOK, Served
<1>3. Delivering'
  BY <1>1 DEF HubInv, MemberTypeOK, Delivering
<1>4. ClosedOnce'
  BY <1>1 DEF HubInv, MemberTypeOK, Served, Delivering, ClosedOnce
<1> QED
  BY <1>2, <1>3, <1>4 DEF HubInv

\* The end of the loop.
LEMMA DeliveredInv ==
  ASSUME HubInv, Delivered
  PROVE  HubInv'
<1>1. /\ UNCHANGED <<clients, handler, sendClosed, rd>>
      /\ hub' = [pc |-> "select", todo |-> {}]
  BY DEF Delivered, Idle, clientVars, pumpVars
<1> QED
  BY <1>1 DEF HubInv, MemberTypeOK, Served, Delivering, ClosedOnce

\* A client leaves, or finds that it was evicted.
LEMMA UnregisterInv ==
  ASSUME HubInv, NEW c \in Clients, Unregister(c)
  PROVE  HubInv'
<1>1. /\ UNCHANGED <<hub, handler>>
      /\ rd[c] = "leave"
      /\ rd' = [rd EXCEPT ![c] = "done"]
      /\ hub.pc = "select"
      /\ clients' = clients \ {c}
      /\ sendClosed' = [sendClosed EXCEPT ![c] = @ \/ c \in clients]
  BY DEF Unregister, clientVars
<1>2. MemberTypeOK' /\ Served'
  BY <1>1 DEF HubInv, MemberTypeOK, Served
<1>3. Delivering'
  BY <1>1 DEF HubInv, Delivering
<1>4. ClosedOnce'
  BY <1>1 DEF HubInv, MemberTypeOK, Served, ClosedOnce
<1> QED
  BY <1>2, <1>3, <1>4 DEF HubInv

\* readPump.
LEMMA ReadPumpInv ==
  ASSUME HubInv, NEW c \in Clients,
         readPump(c) \/ \E type \in {"info", "echo", "post", "read"} : Read(c, type)
  PROVE  HubInv'
<1> USE DEF MemberVars, hubVars, clientVars
<1>1. CASE \E type \in {"info", "echo", "post", "read"} : Read(c, type)
  BY <1>1, PumpInv DEF Read
<1>2. CASE Answer(c)
  BY <1>2, PumpInv DEF Answer
<1>3. CASE ReadFails(c)
  BY <1>3, PumpInv DEF ReadFails
<1>4. CASE Post(c) \/ ReadBye(c)
  BY <1>4, BroadcastInv DEF Post, ReadBye
<1>5. CASE Unregister(c)
  BY <1>5, UnregisterInv
<1> QED
  BY <1>1, <1>2, <1>3, <1>4, <1>5 DEF readPump

\* writePump and the network.
LEMMA WritePumpInv ==
  ASSUME HubInv, NEW c \in Clients, writePump(c) \/ ConnDown(c)
  PROVE  HubInv'
<1> USE DEF MemberVars, hubVars, clientVars
<1>1. CASE WriteBye(c)
  BY <1>1, BroadcastInv DEF WriteBye
<1>2. CASE Write(c) \/ WriteFails(c) \/ WriteClosed(c) \/ ConnDown(c)
  BY <1>2, PumpInv DEF Write, WriteFails, WriteClosed, ConnDown
<1> QED
  BY <1>1, <1>2 DEF writePump

\* Every step preserves the invariant.
LEMMA NextInv == HubInv /\ [Next]_vars => HubInv'
<1> SUFFICES ASSUME HubInv, [Next]_vars PROVE HubInv'
  OBVIOUS
<1>1. CASE UNCHANGED vars
  BY <1>1, PumpInv DEF vars, hubVars, clientVars, pumpVars, MemberVars
<1>2. CASE run
  BY <1>2, DeliverInv, DeliveredInv DEF run
<1>3. ASSUME NEW c \in Clients,
             wsHandler(c) \/ readPump(c) \/ writePump(c) \/ Environment(c)
      PROVE  HubInv'
  <2>1. CASE wsHandler(c)
    BY <2>1, HandlerInv, RegisterInv DEF wsHandler
  <2>2. CASE Environment(c) /\ ReadFails(c)
    BY <2>2, PumpInv DEF ReadFails, MemberVars, hubVars
  <2> QED
    BY <1>3, <2>1, <2>2, ReadPumpInv, WritePumpInv DEF Environment
<1> QED
  BY <1>1, <1>2, <1>3 DEF Next

(***************************************************************************)
(* Hub.run (websocket.go:101-125) never closes a client's channel twice    *)
(* nor sends on one it has closed, whichever of eviction and unregister    *)
(* comes first, for any number of clients and any buffer.                  *)
(***************************************************************************)
THEOREM NeverClosedTwice == Spec => []ClosedOnce
<1>1. HubInv => ClosedOnce
  BY DEF HubInv
<1> QED
  BY <1>1, InitInv, NextInv, PTL DEF Spec

-----------------------------------------------------------------------------
(***************************************************************************)
(* What OnlyBroadcasts computes.  It is a recursive function of a buffer:  *)
(* that it exists, is the only one and has its type is shown by the least  *)
(* number of messages at which it would not.                               *)
(***************************************************************************)

\* A set of numbers that is not empty has a least one.
LEMMA Least ==
  ASSUME NEW T, T \subseteq Nat, T # {}
  PROVE  \E n \in T : \A m \in T : n <= m
<1> DEFINE R == {ss \in Nat \X Nat : ss[1] < ss[2]}
<1>1. IsWellFoundedOn(R, Nat)
  BY NatLessThanWellFounded DEF OpToRel
<1> HIDE DEF R
<1>2. PICK n \in T : \A m \in T : ~ (<<m, n>> \in R)
  BY <1>1, WFMin
<1>3. ASSUME NEW m \in T PROVE n <= m
  <2>1. <<m, n>> \in Nat \X Nat /\ m \in Nat /\ n \in Nat
    OBVIOUS
  <2> QED
    BY <1>2, <2>1 DEF R
<1> QED
  BY <1>3

\* What the filter has after the i-th message, from what it had before.
Filtered(f, i, m) == IF m = Reply THEN f[i - 1] ELSE Append(f[i - 1], m)

\* f is the filter of the first k messages, as OnlyBroadcasts defines it.
FiltersAs(f, msgs, k) ==
    f = [i \in 0 .. k |-> IF i = 0 THEN <<>> ELSE Filtered(f, i, msgs[i])]

\* The same, said of its values.
Filters(f, msgs, k) ==
    /\ f[0] = <<>>
    /\ \A i \in 1 .. k : f[i] = Filtered(f, i, msgs[i])

\* There is a filter of any number of messages.
LEMMA FilterExists ==
  ASSUME NEW msgs, NEW n \in Nat
  PROVE  \E f : FiltersAs(f, msgs, n)
<1> DEFINE Without == {k \in Nat : \A f : ~ FiltersAs(f, msgs, k)}
<1> SUFFICES ASSUME Without # {} PROVE FALSE
  OBVIOUS
<1>1. PICK k \in Without : \A m \in Without : k <= m
  BY Least
<1>2. CASE k = 0
  <2>1. FiltersAs([i \in 0 .. 0 |-> <<>>], msgs, 0)
    BY DEF FiltersAs
  <2> QED
    BY <1>1, <1>2, <2>1
<1>3. CASE k # 0
  <2>1. PICK f : FiltersAs(f, msgs, k - 1)
    BY <1>1, <1>3
  <2>2. ASSUME NEW i \in 0 .. k, i # k
        PROVE  f[i] = IF i = 0 THEN <<>> ELSE Filtered(f, i, msgs[i])
    <3>1. i \in 0 .. k - 1
      BY <2>2
    <3> QED
      BY <2>1, <3>1 DEF FiltersAs
  <2> DEFINE g == [i \in 0 .. k |-> IF i = k THEN Filtered(f, k, msgs[k]) ELSE f[i]]
  <2>3. ASSUME NEW i \in 0 .. k
        PROVE  g[i] = IF i = 0 THEN <<>> ELSE Filtered(g, i, msgs[i])
    <3>1. i # 0 => g[i - 1] = f[i - 1]
      BY <1>1
    <3> QED
      BY <1>3, <2>2, <3>1 DEF Filtered
  <2>4. FiltersAs(g, msgs, k)
    BY <2>3 DEF FiltersAs
  <2> QED
    BY <2>4, <1>1
<1> QED
  BY <1>2, <1>3

\* Filters of the same messages have the same values.
LEMMA FilterUnique ==
  ASSUME NEW f, NEW g, NEW s, NEW t, NEW n \in Nat,
         Filters(f, s, n), Filters(g, t, n), \A i \in 1 .. n : s[i] = t[i]
  PROVE  f[n] = g[n]
<1> DEFINE Apart == {k \in 0 .. n : f[k] # g[k]}
<1> SUFFICES ASSUME Apart # {} PROVE FALSE
  OBVIOUS
<1>0. Apart \subseteq Nat
  OBVIOUS
<1>1. PICK k \in Apart : \A m \in Apart : k <= m
  BY <1>0, Least
<1>2. k # 0
  BY <1>1 DEF Filters
<1>3. k - 1 \in 0 .. n /\ k \in 1 .. n /\ k - 1 < k
  BY <1>1, <1>2
<1>4. f[k - 1] = g[k - 1]
  BY <1>1, <1>3
<1> QED
  BY <1>1, <1>3, <1>4 DEF Filters, Filtered

\* A filter lets messages through and makes none.
LEMMA FilterType ==
  ASSUME NEW S, NEW f, NEW s \in Seq(S), NEW n \in 0 .. Len(s), Filters(f, s, n)
  PROVE  f[n] \in Seq(S)
<1> DEFINE Off == {k \in 0 .. n : f[k] \notin Seq(S)}
<1> SUFFICES ASSUME Off # {} PROVE FALSE
  OBVIOUS
<1>0. Len(s) \in Nat /\ n \in Nat /\ Off \subseteq Nat
  OBVIOUS
<1>1. PICK k \in Off : \A m \in Off : k <= m
  BY <1>0, Least
<1>2. k # 0
  <2>1. <<>> \in Seq(S)
    OBVIOUS
  <2> QED
    BY <1>1, <2>1 DEF Filters
<1>3. k - 1 \in 0 .. n /\ k \in 1 .. n /\ k - 1 < k /\ s[k] \in S
  BY <1>0, <1>1, <1>2
<1>4. f[k - 1] \in Seq(S)
  BY <1>1, <1>3
<1>5. Append(f[k - 1], s[k]) \in Seq(S)
  BY <1>3, <1>4
<1>6. f[k] = Filtered(f, k, s[k])
  BY <1>3 DEF Filters
<1> QED
  BY <1>1, <1>4, <1>5, <1>6 DEF Filtered

\* OnlyBroadcasts is the last value of a filter.
LEMMA FilterOf ==
  ASSUME NEW S, NEW msgs \in Seq(S)
  PROVE  \E f : Filters(f, msgs, Len(msgs)) /\ OnlyBroadcasts(msgs) = f[Len(msgs)]
<1> DEFINE f == CHOOSE f : FiltersAs(f, msgs, Len(msgs))
<1>1. FiltersAs(f, msgs, Len(msgs))
  BY FilterExists
<1>2. OnlyBroadcasts(msgs) = f[Len(msgs)]
  BY DEF OnlyBroadcasts, FiltersAs, Filtered
<1> HIDE DEF f
<1>3. Filters(f, msgs, Len(msgs))
  BY <1>1 DEF FiltersAs, Filters
<1> QED
  BY <1>2, <1>3

\* There is nothing in an empty buffer.
LEMMA BroadcastsOfNone == OnlyBroadcasts(<<>>) = <<>>
<1>1. <<>> \in Seq({}) /\ Len(<<>>) = 0
  OBVIOUS
<1> QED
  BY <1>1, FilterOf DEF Filters

\* The broadcasts among messages are messages.
LEMMA BroadcastsType ==
  ASSUME NEW S, NEW msgs \in Seq(S)
  PROVE  OnlyBroadcasts(msgs) \in Seq(S)
  BY FilterOf, FilterType

\* A message that is queued is one more broadcast, or a reply.
LEMMA BroadcastsAppend ==
  ASSUME NEW S, NEW msgs \in Seq(S), NEW m \in S
  PROVE  OnlyBroadcasts(Append(msgs, m)) =
             IF m = Reply THEN OnlyBroadcasts(msgs)
             ELSE Append(OnlyBroadcasts(msgs), m)
<1> DEFINE more == Append(msgs, m)
           n == Len(msgs)
<1>1. /\ more \in Seq(S)
      /\ Len(more) = n + 1
      /\ more[n + 1] = m
      /\ \A i \in 1 .. n : msgs[i] = more[i]
      /\ n \in Nat
  OBVIOUS
<1>2. PICK f : Filters(f, msgs, n) /\ OnlyBroadcasts(msgs) = f[n]
  BY FilterOf
<1>3. PICK g : Filters(g, more, n + 1) /\ OnlyBroadcasts(more) = g[n + 1]
  BY <1>1, FilterOf
<1> HIDE DEF more, n
<1>4. Filters(g, more, n)
  BY <1>1, <1>3 DEF Filters
<1>5. f[n] = g[n]
  BY <1>1, <1>2, <1>4, FilterUnique
<1>6. g[n + 1] = Filtered(g, n + 1, m) /\ (n + 1) - 1 = n
  BY <1>1, <1>3 DEF Filters
<1>7. OnlyBroadcasts(more) = IF m = Reply THEN f[n] ELSE Append(f[n], m)
  BY <1>3, <1>5, <1>6 DEF Filtered
<1> QED
  BY <1>2, <1>7 DEF more

-----------------------------------------------------------------------------
(***************************************************************************)
(* Types.                                                                  *)
(***************************************************************************)

\* Messages of one run remain messages of it when the hub takes a broadcast.
LEMMA SeqGrows ==
  ASSUME NEW m \in Nat, NEW n \in Nat, m <= n, NEW s \in Seq(0 .. m)
  PROVE  s \in Seq(0 .. n)
  OBVIOUS

\* What is left of a buffer fits where the buffer did.
LEMMA TailFits ==
  ASSUME NEW S, NEW s \in Seq(S), s # <<>>, NEW n \in Nat, Len(s) <= n
  PROVE  Tail(s) \in Seq(S) /\ Len(Tail(s)) <= n
<1>1. Tail(s) \in Seq(S) /\ Len(Tail(s)) = Len(s) - 1
  BY HeadTailProperties
<1>2. Len(s) \in Nat
  OBVIOUS
<1> QED
  BY <1>1, <1>2

\* Initially variables have their types.
LEMMA InitType == Init => TypeOK
<1> SUFFICES ASSUME Init PROVE TypeOK
  OBVIOUS
<1>1. <<>> \in Seq(0 .. casts) /\ Len(<<>>) <= BufferSize
  BY BufferSizeAssumption
<1>2. /\ send \in [Clients -> Seq(0 .. casts)]
      /\ got \in [Clients -> Seq(0 .. casts)]
      /\ \A c \in Clients : Len(send[c]) <= BufferSize
  BY <1>1 DEF Init
<1>3. reads \in 0 .. MaxReads /\ since \in [Clients -> 0 .. casts] /\ casts \in Nat
  BY MaxReadsAssumption DEF Init
<1> QED
  BY <1>2, <1>3 DEF Init, TypeOK, Idle

\* A handler's steps.
LEMMA HandlerType ==
  ASSUME TypeOK, NEW c \in Clients, wsHandler(c)
  PROVE  TypeOK'
<1>1. CASE Connect(c)
  BY <1>1 DEF TypeOK, Connect, hubVars, pumpVars
<1>2. CASE PickColor(c)
  BY <1>2 DEF TypeOK, PickColor, hubVars, pumpVars, freeColors
<1>3. CASE Register(c)
  <2>1. crashed' \in BOOLEAN
    BY <1>3 DEF Register, MapWrite
  <2>2. since' \in [Clients -> 0 .. casts]
    <3>1. casts \in 0 .. casts
      BY DEF TypeOK
    <3> QED
      BY <1>3, <3>1 DEF TypeOK, Register
  <2> QED
    BY <1>3, <2>1, <2>2 DEF TypeOK, Register
<1> QED
  BY <1>1, <1>2, <1>3 DEF wsHandler

\* The hub takes a broadcast from a pump that moves on.
LEMMA BroadcastType ==
  ASSUME TypeOK, NEW c \in Clients, Post(c) \/ ReadBye(c) \/ WriteBye(c)
  PROVE  TypeOK'
<1>1. /\ clients' = clients
      /\ hub' = [pc |-> "deliver", todo |-> clients]
      /\ casts' = casts + 1
      /\ \/ rd' = [rd EXCEPT ![c] = "read"] /\ wr' = wr
         \/ rd' = [rd EXCEPT ![c] = "leave"] /\ wr' = wr
         \/ rd' = rd /\ wr' = [wr EXCEPT ![c] = "done"]
      /\ UNCHANGED <<clientVars, send, sendClosed, conn, got, reads, crashed>>
  BY DEF Post, ReadBye, WriteBye, TakeBroadcast
<1>2. casts \in Nat /\ casts' \in Nat /\ casts <= casts'
  BY <1>1 DEF TypeOK
<1>3. ASSUME NEW q \in [Clients -> Seq(0 .. casts)]
      PROVE  q \in [Clients -> Seq(0 .. casts')]
  <2>1. ASSUME NEW d \in Clients PROVE q[d] \in Seq(0 .. casts')
    BY <1>2, SeqGrows
  <2> QED
    BY <2>1
<1>4. send' \in [Clients -> Seq(0 .. casts')] /\ got' \in [Clients -> Seq(0 .. casts')]
  BY <1>1, <1>3 DEF TypeOK
<1>5. since' \in [Clients -> 0 .. casts']
  BY <1>1, <1>2 DEF TypeOK, clientVars
<1> QED
  BY <1>1, <1>2, <1>4, <1>5 DEF TypeOK, clientVars

\* The hub's loop.
LEMMA RunType ==
  ASSUME TypeOK, run
  PROVE  TypeOK'
<1>1. CASE Delivered
  BY <1>1 DEF TypeOK, Delivered, Idle, clientVars, pumpVars
<1>2. ASSUME NEW c \in Clients, Deliver(c) PROVE TypeOK'
  <2>1. hub' = [hub EXCEPT !.todo = @ \ {c}]
        /\ UNCHANGED <<casts, clientVars, pumpVars>>
    BY <1>2 DEF Deliver
  <2>2. /\ clients' \subseteq Clients
        /\ sendClosed' \in [Clients -> BOOLEAN]
        /\ crashed' \in BOOLEAN
    BY <1>2 DEF Deliver, TypeOK, MapWrite
  <2>3. send' \in [Clients -> Seq(0 .. casts)]
        /\ \A d \in Clients : Len(send'[d]) <= BufferSize
    <3>1. CASE send' = send
      BY <3>1 DEF TypeOK
    <3>2. CASE /\ send' = [send EXCEPT ![c] = Append(@, casts)]
               /\ Len(send[c]) < BufferSize
      <4>1. send[c] \in Seq(0 .. casts) /\ casts \in 0 .. casts
        BY DEF TypeOK
      <4>2. Append(send[c], casts) \in Seq(0 .. casts)
            /\ Len(Append(send[c], casts)) <= BufferSize
        BY <4>1, <3>2, BufferSizeAssumption
      <4> QED
        BY <3>2, <4>2 DEF TypeOK
    <3> QED
      BY <1>2, <3>1, <3>2 DEF Deliver
  <2> QED
    BY <2>1, <2>2, <2>3 DEF TypeOK, clientVars, pumpVars
<1> QED
  BY <1>1, <1>2 DEF run

\* readPump, what it reads, and the network.
LEMMA ReadPumpType ==
  ASSUME TypeOK, NEW c \in Clients,
         \/ Answer(c) \/ ReadFails(c) \/ Unregister(c) \/ ConnDown(c)
         \/ \E type \in {"info", "echo", "post", "read"} : Read(c, type)
  PROVE  TypeOK'
<1>1. CASE Answer(c)
  <2>1. UNCHANGED <<hubVars, clientVars, sendClosed, wr, conn, got, reads>>
    BY <1>1 DEF Answer
  <2>2. CASE UNCHANGED <<send, rd>> /\ crashed' = TRUE
    BY <2>1, <2>2 DEF TypeOK, hubVars, clientVars
  <2>3. CASE /\ Len(send[c]) < BufferSize
             /\ send' = [send EXCEPT ![c] = Append(@, Reply)]
             /\ rd' = [rd EXCEPT ![c] = IF @ = "info" THEN "post" ELSE "read"]
             /\ UNCHANGED crashed
    <3>1. send[c] \in Seq(0 .. casts) /\ Reply \in 0 .. casts
      BY DEF TypeOK, Reply
    <3>2. Append(send[c], Reply) \in Seq(0 .. casts)
          /\ Len(Append(send[c], Reply)) <= BufferSize
      BY <3>1, <2>3, BufferSizeAssumption
    <3> QED
      BY <2>1, <2>3, <3>2 DEF TypeOK, hubVars, clientVars
  <2> QED
    BY <1>1, <2>2, <2>3 DEF Answer
<1>2. CASE ReadFails(c)
  BY <1>2 DEF ReadFails, TypeOK, hubVars
<1>3. CASE Unregister(c)
  BY <1>3 DEF Unregister, TypeOK, clientVars, MapWrite
<1>4. CASE ConnDown(c)
  BY <1>4 DEF ConnDown, TypeOK, hubVars, clientVars
<1>5. ASSUME NEW type \in {"info", "echo", "post", "read"}, Read(c, type)
      PROVE  TypeOK'
  BY <1>5, MaxReadsAssumption DEF Read, TypeOK, hubVars, clientVars
<1> QED
  BY <1>1, <1>2, <1>3, <1>4, <1>5

\* writePump.
LEMMA WritePumpType ==
  ASSUME TypeOK, NEW c \in Clients, Write(c) \/ WriteFails(c) \/ WriteClosed(c)
  PROVE  TypeOK'
<1> send[c] \in Seq(0 .. casts) /\ got[c] \in Seq(0 .. casts) /\ Len(send[c]) <= BufferSize
  BY DEF TypeOK
<1> <<>> \in Seq(0 .. casts) /\ Len(<<>>) <= BufferSize
  BY BufferSizeAssumption
<1>1. CASE Write(c)
  <2>1. got[c] \o OnlyBroadcasts(send[c]) \in Seq(0 .. casts)
    BY BroadcastsType
  <2> QED
    BY <1>1, <2>1 DEF Write, TypeOK, hubVars, clientVars
<1>2. CASE WriteFails(c)
  <2>1. send' \in [Clients -> Seq(0 .. casts)]
        /\ \A d \in Clients : Len(send'[d]) <= BufferSize
    <3>1. CASE send[c] # <<>> /\ send' = [send EXCEPT ![c] = Tail(@)]
      <4>1. Tail(send[c]) \in Seq(0 .. casts) /\ Len(Tail(send[c])) <= BufferSize
        BY <3>1, BufferSizeAssumption, TailFits
      <4> QED
        BY <3>1, <4>1 DEF TypeOK
    <3>2. CASE send' = [send EXCEPT ![c] = <<>>]
      BY <3>2 DEF TypeOK
    <3>3. CASE send' = send
      BY <3>3 DEF TypeOK
    <3> QED
      BY <1>2, <3>1, <3>2, <3>3 DEF WriteFails
  <2> QED
    BY <1>2, <2>1 DEF WriteFails, TypeOK, hubVars
<1>3. CASE WriteClosed(c)
  BY <1>3 DEF WriteClosed, TypeOK, hubVars, clientVars
<1> QED
  BY <1>1, <1>2, <1>3

\* Every step preserves the types.
LEMMA NextType == TypeOK /\ [Next]_vars => TypeOK'
<1> SUFFICES ASSUME TypeOK, [Next]_vars PROVE TypeOK'
  OBVIOUS
<1>1. CASE UNCHANGED vars
  BY <1>1 DEF TypeOK, vars, hubVars, clientVars, pumpVars
<1>2. CASE run
  BY <1>2, RunType
<1>3. ASSUME NEW c \in Clients,
             wsHandler(c) \/ readPump(c) \/ writePump(c) \/ Environment(c)
      PROVE  TypeOK'
  BY <1>3, HandlerType, BroadcastType, ReadPumpType, WritePumpType
     DEF readPump, writePump, Environment
<1> QED
  BY <1>1, <1>2, <1>3 DEF Next

(***************************************************************************)
(* The variables of the hub, its clients and their pumps (websocket.go)    *)
(* keep their types; a buffer never holds more than its capacity.          *)
(***************************************************************************)
THEOREM TypeCorrect == Spec => []TypeOK
  BY InitType, NextType, PTL DEF Spec

-----------------------------------------------------------------------------
(***************************************************************************)
(* What the clients are given.                                             *)
(***************************************************************************)

\* n consecutive broadcasts after the s-th.
Stretch(s, n) == [i \in 1 .. n |-> s + i]

\* What writePump has written to a client and what the client's buffer has.
Queued(c) == got[c] \o OnlyBroadcasts(send[c])

\* How many broadcasts the hub has dealt with for a client it serves.
Due(c) == casts - since[c] - (IF c \in hub.todo THEN 1 ELSE 0)

\* A client starts with nothing.
Fresh(c) == handler[c] # "done" => got[c] = <<>> /\ send[c] = <<>> /\ wr[c] = "off"

\* What was written is consecutive.
Shown(c) == \E n \in 0 .. casts - since[c] : got[c] = Stretch(since[c], n)

\* So is what will have been, as long as writePump goes on.
Pending(c) ==
    wr[c] = "select" =>
        \E n \in 0 .. casts - since[c] : Queued(c) = Stretch(since[c], n)

\* It is complete for a client that is not closed.
Complete(c) ==
    c \in clients /\ ~closed[c] =>
        wr[c] = "select" /\ Queued(c) = Stretch(since[c], Due(c))

\* The loop over the clients delivers what came after their registration.
Later(c) == c \in hub.todo => since[c] < casts

\* The invariant of a client.
ClientInv(c) == Fresh(c) /\ Shown(c) /\ Pending(c) /\ Complete(c) /\ Later(c)

\* The inductive invariant.
ChatInv ==
    /\ TypeOK
    /\ HubInv
    /\ \A c \in Clients : ClientInv(c)

\* A stretch is a sequence.
LEMMA StretchType ==
  ASSUME NEW s \in Nat, NEW n \in Nat
  PROVE  Stretch(s, n) \in Seq(Nat) /\ Len(Stretch(s, n)) = n
  BY DEF Stretch

\* The next broadcast makes a stretch longer.
LEMMA StretchGrows ==
  ASSUME NEW s \in Nat, NEW n \in Nat
  PROVE  Append(Stretch(s, n), s + n + 1) = Stretch(s, n + 1)
  BY DEF Stretch

\* Appending at the end of a sequence in two parts.
LEMMA ConcatAppend ==
  ASSUME NEW s \in Seq(Nat), NEW t \in Seq(Nat), NEW m \in Nat
  PROVE  s \o Append(t, m) = Append(s \o t, m)
  OBVIOUS

\* The initial state.
LEMMA InitChat == Init => ChatInv
<1> SUFFICES ASSUME Init PROVE ChatInv
  OBVIOUS
<1>1. ASSUME NEW c \in Clients PROVE ClientInv(c)
  <2>1. /\ got[c] = <<>> /\ send[c] = <<>> /\ wr[c] = "off" /\ since[c] = 0
        /\ casts = 0 /\ clients = {} /\ hub.todo = {}
    BY DEF Init, Idle
  <2>2. <<>> = Stretch(0, 0)
    BY DEF Stretch
  <2> QED
    BY <2>1, <2>2 DEF ClientInv, Fresh, Shown, Pending, Complete, Later
<1> QED
  BY <1>1, InitType, InitInv DEF ChatInv

\* A step that gives a client no broadcast, and takes none from one that is served.
Keeps(c) ==
    /\ handler'[c] = "done" <=> handler[c] = "done"
    /\ handler[c] # "done" => send'[c] = send[c] /\ wr'[c] = wr[c]
    /\ since'[c] = since[c] /\ got'[c] = got[c] /\ casts <= casts'
    /\ wr'[c] = "select" =>
           wr[c] = "select" /\ OnlyBroadcasts(send'[c]) = OnlyBroadcasts(send[c])
    /\ c \in clients' /\ ~closed'[c] =>
           c \in clients /\ ~closed[c] /\ wr'[c] = wr[c] /\ Due(c)' = Due(c)
    /\ c \in hub'.todo => since[c] < casts'

\* Such a step preserves the invariant of the client.
LEMMA KeepsInv ==
  ASSUME TypeOK, TypeOK', NEW c \in Clients, ClientInv(c), Keeps(c)
  PROVE  ClientInv(c)'
<1>1. casts \in Nat /\ casts' \in Nat /\ since[c] \in Nat
  BY DEF TypeOK
<1>2. Fresh(c)' /\ Later(c)'
  BY DEF Keeps, ClientInv, Fresh, Later
<1>3. Shown(c)'
  BY <1>1 DEF Keeps, ClientInv, Shown
<1>4. wr'[c] = "select" => Queued(c)' = Queued(c)
  BY DEF Keeps, Queued
<1>5. Pending(c)'
  BY <1>1, <1>4 DEF Keeps, ClientInv, Pending
<1>6. Complete(c)'
  BY <1>4 DEF Keeps, ClientInv, Complete
<1> QED
  BY <1>2, <1>3, <1>5, <1>6 DEF ClientInv

\* The registration.
LEMMA RegisterChat ==
  ASSUME ChatInv, TypeOK', NEW c \in Clients, Register(c), NEW d \in Clients
  PROVE  ClientInv(d)'
<1>1. TypeOK /\ hub.todo = {} /\ ClientInv(d) /\ ClientInv(c)
  BY DEF ChatInv, HubInv, Delivering, Register
<1>2. CASE d # c
  <2>1. Keeps(d)
    BY <1>1, <1>2 DEF Keeps, Register, TypeOK, Due
  <2> QED
    BY <1>1, <2>1, KeepsInv
<1>3. CASE d = c
  <2>1. /\ since'[c] = casts /\ handler'[c] = "done" /\ got' = got /\ send' = send
        /\ casts' = casts /\ hub' = hub /\ wr'[c] = "select" /\ handler[c] = "register"
    BY DEF Register, TypeOK, ChatInv
  <2>2. got'[c] = <<>> /\ OnlyBroadcasts(send'[c]) = <<>>
    BY <1>1, <2>1, BroadcastsOfNone DEF ClientInv, Fresh
  <2>3. Queued(c)' = <<>>
    BY <2>2 DEF Queued
  <2>4. <<>> = Stretch(casts, 0) /\ casts \in Nat
    BY <1>1 DEF Stretch, TypeOK
  <2>5. Due(c)' = 0
    BY <1>1, <2>1, <2>4 DEF Due
  <2>6. Shown(c)' /\ Pending(c)'
    BY <2>1, <2>2, <2>3, <2>4 DEF Shown, Pending
  <2> QED
    BY <1>1, <1>3, <2>1, <2>3, <2>4, <2>5, <2>6
       DEF ClientInv, Fresh, Complete, Later
<1> QED
  BY <1>2, <1>3

\* One turn of the loop.
LEMMA DeliverChat ==
  ASSUME ChatInv, TypeOK', NEW c \in Clients, Deliver(c), NEW d \in Clients
  PROVE  ClientInv(d)'
<1>1. TypeOK /\ ClientInv(d) /\ ClientInv(c) /\ Served /\ ClosedOnce /\ Delivering
  BY DEF ChatInv, HubInv
<1>2. /\ UNCHANGED <<casts, handler, closed, since, wr, got>>
      /\ hub'.todo = hub.todo \ {c}
      /\ clients' = clients \/ clients' = clients \ {c}
      /\ c \in hub.todo
  BY <1>1 DEF Deliver, clientVars, pumpVars, TypeOK
<1>3. CASE send' # send /\ d = c
  <2>1. /\ ~closed[c] /\ clients' = clients
        /\ send'[c] = Append(send[c], casts)
    BY <1>1, <1>3 DEF Deliver, TypeOK
  <2>2. /\ casts \in Nat /\ since[c] \in Nat /\ since[c] < casts
        /\ send[c] \in Seq(Nat) /\ got[c] \in Seq(Nat)
    BY <1>1, <1>2 DEF TypeOK, ClientInv, Later
  <2>3. PICK n \in Nat : n = casts - since[c] - 1
    BY <2>2
  <2>4. /\ c \in clients /\ wr[c] = "select"
        /\ Queued(c) = Stretch(since[c], n)
    BY <1>1, <1>2, <2>1, <2>3 DEF ClientInv, Complete, Due, Delivering
  <2>5. casts # Reply /\ casts = since[c] + n + 1
    BY <2>2, <2>3 DEF Reply
  <2>6. OnlyBroadcasts(send'[c]) = Append(OnlyBroadcasts(send[c]), casts)
    BY <2>1, <2>2, <2>5, BroadcastsAppend
  <2>7. OnlyBroadcasts(send[c]) \in Seq(Nat)
    BY <2>2, BroadcastsType
  <2>8. Queued(c)' = Append(Queued(c), casts)
    <3>1. Queued(c)' = got[c] \o Append(OnlyBroadcasts(send[c]), casts)
      BY <1>2, <2>6 DEF Queued
    <3>2. got[c] \o Append(OnlyBroadcasts(send[c]), casts)
            = Append(got[c] \o OnlyBroadcasts(send[c]), casts)
      BY <2>2, <2>7, ConcatAppend
    <3> QED
      BY <3>1, <3>2 DEF Queued
  <2>9. Queued(c)' = Stretch(since[c], n + 1)
    BY <2>2, <2>4, <2>5, <2>8, StretchGrows
  <2>10. Due(c)' = n + 1
    BY <1>2, <2>2, <2>3 DEF Due
  <2>11. Complete(c)' /\ Pending(c)'
    <3>1. n + 1 \in 0 .. casts - since[c]
      BY <2>2, <2>3
    <3>2. since'[c] = since[c] /\ casts' = casts /\ wr'[c] = "select"
      BY <1>2, <2>4
    <3> QED
      BY <2>9, <2>10, <3>1, <3>2 DEF Complete, Pending
  <2>12. Fresh(c)' /\ Shown(c)' /\ Later(c)'
    BY <1>1, <1>2, <2>4 DEF ClientInv, Fresh, Shown, Later, Served
  <2> QED
    BY <1>3, <2>11, <2>12 DEF ClientInv
<1>4. CASE send'[d] = send[d]
  <2>1. d = c => closed[c] \/ d \notin clients'
    BY <1>1, <1>4 DEF Deliver, TypeOK
  <2>2. Due(d)' = Due(d) \/ d = c
    BY <1>2 DEF Due
  <2>3. Keeps(d)
    BY <1>1, <1>2, <1>4, <2>1, <2>2 DEF Keeps, ClientInv, Later, TypeOK
  <2> QED
    BY <1>1, <2>3, KeepsInv
<1>5. d # c => send'[d] = send[d]
  BY <1>1 DEF Deliver, TypeOK
<1> QED
  BY <1>3, <1>4, <1>5

\* writePump empties the buffer.
LEMMA WriteChat ==
  ASSUME ChatInv, TypeOK', NEW c \in Clients, Write(c), NEW d \in Clients
  PROVE  ClientInv(d)'
<1>1. TypeOK /\ ClientInv(d) /\ ClientInv(c) /\ Served
  BY DEF ChatInv, HubInv
<1>2. /\ UNCHANGED <<casts, handler, closed, since, wr, hub, clients>>
      /\ wr[c] = "select"
  BY DEF Write, hubVars, clientVars
<1>3. CASE d # c
  <2>1. send'[d] = send[d] /\ got'[d] = got[d]
    BY <1>1, <1>3 DEF Write, TypeOK
  <2>2. Keeps(d)
    BY <1>1, <1>2, <2>1 DEF Keeps, Due, ClientInv, Later, TypeOK
  <2> QED
    BY <1>1, <2>2, KeepsInv
<1>4. CASE d = c
  <2>1. got'[c] = Queued(c) /\ send'[c] = <<>>
    BY <1>1 DEF Write, TypeOK, Queued
  <2>2. got'[c] \in Seq(0 .. casts)
    BY <1>2 DEF TypeOK
  <2>3. Queued(c)' = Queued(c)
    <3>1. Queued(c)' = got'[c] \o <<>>
      BY <2>1, BroadcastsOfNone DEF Queued
    <3> QED
      BY <2>1, <2>2, <3>1
  <2>4. Due(c)' = Due(c)
    BY <1>2 DEF Due
  <2>5. Shown(c)' /\ Pending(c)' /\ Complete(c)'
    BY <1>1, <1>2, <2>1, <2>3, <2>4 DEF ClientInv, Shown, Pending, Complete
  <2>6. Fresh(c)' /\ Later(c)'
    BY <1>1, <1>2 DEF ClientInv, Fresh, Later
  <2> QED
    BY <1>4, <2>5, <2>6 DEF ClientInv
<1> QED
  BY <1>3, <1>4

\* A pump hands the hub a broadcast.
LEMMA BroadcastChat ==
  ASSUME ChatInv, TypeOK', NEW c \in Clients,
         Post(c) \/ ReadBye(c) \/ WriteBye(c), NEW d \in Clients
  PROVE  ClientInv(d)'
<1>1. TypeOK /\ ClientInv(d) /\ hub.pc = "select" /\ hub.todo = {}
  BY DEF ChatInv, HubInv, Delivering, Post, ReadBye, WriteBye, TakeBroadcast
<1>2. /\ clients' = clients /\ hub'.todo = clients /\ casts' = casts + 1
      /\ UNCHANGED <<handler, closed, since, send, got>>
  BY DEF Post, ReadBye, WriteBye, TakeBroadcast, clientVars
<1>3. wr'[d] = wr[d] \/ (wr[d] = "bye" /\ wr'[d] = "done")
  BY <1>1 DEF Post, ReadBye, WriteBye, TypeOK
<1>4. casts \in Nat /\ since[d] \in 0 .. casts
  BY <1>1 DEF TypeOK
<1>5. d \in clients' => Due(d)' = Due(d)
  BY <1>1, <1>2, <1>4 DEF Due
<1>6. Keeps(d)
  BY <1>1, <1>2, <1>3, <1>4, <1>5 DEF Keeps, ClientInv, Complete, Fresh
<1> QED
  BY <1>1, <1>6, KeepsInv

\* The other steps.
LEMMA QuietChat ==
  ASSUME ChatInv, TypeOK', NEW c \in Clients,
         \/ Connect(c) \/ PickColor(c) \/ ReadFails(c) \/ Unregister(c)
         \/ \E type \in {"info", "echo", "post", "read"} : Read(c, type)
         \/ WriteFails(c) \/ WriteClosed(c) \/ ConnDown(c) \/ Delivered
         \/ UNCHANGED vars,
         NEW d \in Clients
  PROVE  ClientInv(d)'
<1>1. TypeOK /\ ClientInv(d) /\ ClosedOnce /\ Served
  BY DEF ChatInv, HubInv
<1> DEFINE Quiet ==
      /\ UNCHANGED <<casts, since, got>>
      /\ hub'.todo = hub.todo
      /\ d \in clients' => d \in clients
      /\ closed[d] => closed'[d]
      /\ handler'[d] = "done" <=> handler[d] = "done"
      /\ \/ wr'[d] = wr[d] /\ send'[d] = send[d]
         \/ wr[d] = "select" /\ wr'[d] = "bye" /\ closed'[d]
         \/ wr[d] = "select" /\ wr'[d] = "done" /\ send'[d] = send[d] /\ sendClosed[d]
<1>2. Quiet
  <2>1. CASE Connect(c) \/ PickColor(c)
    BY <1>1, <2>1 DEF Connect, PickColor, TypeOK, hubVars, pumpVars
  <2>2. CASE ReadFails(c)
    BY <1>1, <2>2 DEF ReadFails, TypeOK, hubVars
  <2>3. CASE Unregister(c)
    BY <1>1, <2>3 DEF Unregister, TypeOK, clientVars
  <2>4. CASE \E type \in {"info", "echo", "post", "read"} : Read(c, type)
    BY <2>4 DEF Read, hubVars, clientVars
  <2>5. CASE WriteFails(c)
    BY <1>1, <2>5 DEF WriteFails, TypeOK, hubVars
  <2>6. CASE WriteClosed(c)
    BY <1>1, <2>6 DEF WriteClosed, TypeOK, hubVars, clientVars
  <2>7. CASE ConnDown(c)
    BY <2>7 DEF ConnDown, hubVars, clientVars
  <2>8. CASE Delivered
    BY <2>8 DEF Delivered, Idle, clientVars, pumpVars
  <2>9. CASE UNCHANGED vars
    BY <2>9 DEF vars, hubVars, clientVars, pumpVars
  <2> QED
    BY <2>1, <2>2, <2>3, <2>4, <2>5, <2>6, <2>7, <2>8, <2>9
<1>5. Due(d)' = Due(d)
  BY <1>2 DEF Due
<1>6. casts \in Nat /\ since[d] \in Nat /\ (wr[d] = "select" => handler[d] = "done")
      /\ (sendClosed[d] => d \notin clients) /\ (d \in hub.todo => since[d] < casts)
      /\ closed'[d] \in BOOLEAN /\ closed[d] \in BOOLEAN
  BY <1>1 DEF TypeOK, ClientInv, Fresh, Later, ClosedOnce
<1>7. Keeps(d)
  BY <1>2, <1>5, <1>6 DEF Keeps
<1> QED
  BY <1>1, <1>7, KeepsInv

\* readPump answers.
LEMMA AnswerChat ==
  ASSUME ChatInv, TypeOK', NEW c \in Clients, Answer(c), NEW d \in Clients
  PROVE  ClientInv(d)'
<1>1. TypeOK /\ ClientInv(d) /\ Served
  BY DEF ChatInv, HubInv
<1>2. UNCHANGED <<hub, clients, casts, handler, closed, since, wr, got>>
  BY DEF Answer, hubVars, clientVars
<1>3. \/ send'[d] = send[d]
      \/ handler[d] = "done" /\ send'[d] = Append(send[d], Reply)
  <2>1. /\ send \in [Clients -> Seq(0 .. casts)]
        /\ handler[c] = "done"
        /\ send' = send \/ send' = [send EXCEPT ![c] = Append(@, Reply)]
    BY <1>1 DEF Answer, TypeOK, Served
  <2> QED
    BY <2>1
<1>4. send[d] \in Seq(0 .. casts) /\ Reply \in 0 .. casts
  BY <1>1 DEF TypeOK, Reply
<1>5. OnlyBroadcasts(send'[d]) = OnlyBroadcasts(send[d])
  BY <1>3, <1>4, BroadcastsAppend
<1>6. Due(d)' = Due(d)
  BY <1>2 DEF Due
<1>7. Keeps(d)
  BY <1>1, <1>2, <1>3, <1>5, <1>6 DEF Keeps, ClientInv, Later, TypeOK
<1> QED
  BY <1>1, <1>7, KeepsInv

\* Every step preserves the invariant.
LEMMA NextChat == ChatInv /\ [Next]_vars => ChatInv'
<1> SUFFICES ASSUME ChatInv, [Next]_vars PROVE ChatInv'
  OBVIOUS
<1>1. TypeOK' /\ HubInv'
  BY NextType, NextInv DEF ChatInv
<1>2. ASSUME NEW d \in Clients PROVE ClientInv(d)'
  <2>1. CASE UNCHANGED vars \/ Delivered
    BY <1>1, <2>1, QuietChat
  <2>2. ASSUME NEW c \in Clients, Deliver(c) PROVE ClientInv(d)'
    BY <1>1, <2>2, DeliverChat
  <2>3. ASSUME NEW c \in Clients,
               wsHandler(c) \/ readPump(c) \/ writePump(c) \/ Environment(c)
        PROVE  ClientInv(d)'
    BY <1>1, <2>3, RegisterChat, WriteChat, BroadcastChat, AnswerChat, QuietChat
       DEF wsHandler, readPump, writePump, Environment
  <2> QED
    BY <2>1, <2>2, <2>3 DEF Next, run
<1> QED
  BY <1>1, <1>2 DEF ChatInv

(***************************************************************************)
(* A client that the hub serves and that is not closed has every broadcast *)
(* since its registration, once and in order, between what writePump wrote *)
(* and its buffer (websocket.go:101-125, 293-351), for any number of       *)
(* clients, any buffer and any number of messages.                         *)
(***************************************************************************)
THEOREM NeverMissed == Spec => []NothingMissed
<1>1. ChatInv => NothingMissed
  BY DEF ChatInv, HubInv, MemberTypeOK, ClientInv, Complete, Queued, Due, Stretch, NothingMissed
<1> QED
  BY <1>1, InitChat, NextChat, PTL DEF Spec

-----------------------------------------------------------------------------
(***************************************************************************)
(* The refinement of Chat.                                                 *)
(***************************************************************************)

\* An empty hub is an empty chat.
LEMMA ChatInit == Init => ChatOf!Init
  BY DEF Init, ChatOf!Init

\* How long a stretch in two parts is.
LEMMA StretchLonger ==
  ASSUME NEW s \in Nat, NEW n \in Nat, NEW x \in Seq(Nat), NEW y \in Seq(Nat),
         x \o y = Stretch(s, n)
  PROVE  n = Len(x) + Len(y) /\ Len(x) \in Nat /\ Len(y) \in Nat
<1>1. Len(x \o y) = Len(x) + Len(y) /\ Len(x) \in Nat /\ Len(y) \in Nat
  OBVIOUS
<1>2. Len(Stretch(s, n)) = n
  BY StretchType
<1> QED
  BY <1>1, <1>2

\* A registration is a Join.
LEMMA ChatJoin ==
  ASSUME ChatInv, NEW c \in Clients, Register(c)
  PROVE  ChatOf!Next
<1>1. TypeOK
  BY DEF ChatInv
<1>2. /\ handler[c] = "register" /\ handler' = [handler EXCEPT ![c] = "done"]
      /\ since' = [since EXCEPT ![c] = casts]
      /\ UNCHANGED <<casts, got>>
  BY DEF Register
<1>3. {d \in Clients : handler'[d] = "done"} = {d \in Clients : handler[d] = "done"} \union {c}
  BY <1>1, <1>2 DEF TypeOK
<1>4. ChatOf!Join(c)
  BY <1>2, <1>3 DEF ChatOf!Join
<1> QED
  BY <1>4 DEF ChatOf!Next

\* What writePump writes is a Show, or only replies.
LEMMA ChatShow ==
  ASSUME ChatInv, NEW c \in Clients, Write(c)
  PROVE  ChatOf!Next \/ UNCHANGED ChatOf!chatVars
<1>1. /\ TypeOK /\ ClientInv(c)
      /\ wr[c] = "select"
      /\ got' = [got EXCEPT ![c] = Queued(c)]
      /\ UNCHANGED <<casts, since, handler>>
  BY DEF ChatInv, Write, hubVars, clientVars, Queued
<1>2. handler[c] = "done"
  BY <1>1 DEF ClientInv, Fresh
<1>3. PICK n \in 0 .. casts - since[c] : Queued(c) = Stretch(since[c], n)
  BY <1>1 DEF ClientInv, Pending
<1>4. /\ casts \in Nat /\ since[c] \in Nat /\ n \in Nat
      /\ got[c] \in Seq(Nat) /\ send[c] \in Seq(Nat)
      /\ got \in [Clients -> Seq(0 .. casts)]
  BY <1>1, <1>3 DEF TypeOK
<1>5. PICK b \in Seq(Nat) : b = OnlyBroadcasts(send[c])
  BY <1>4, BroadcastsType
<1>6. PICK g \in Seq(Nat) : g = got[c]
  BY <1>4
<1>7. Queued(c) = g \o b
  BY <1>5, <1>6 DEF Queued
<1>8. n = Len(g) + Len(b) /\ Len(g) \in Nat /\ Len(b) \in Nat
  BY <1>3, <1>4, <1>7, StretchLonger
<1>9. CASE Len(b) = 0
  <2>1. g \o b = g
    BY <1>9
  <2>2. got' = got
    BY <1>1, <1>4, <1>6, <1>7, <2>1
  <2> QED
    BY <1>1, <2>2 DEF ChatOf!chatVars
<1>10. CASE Len(b) # 0
  <2>1. n \in Len(got[c]) + 1 .. casts - since[c]
    BY <1>3, <1>4, <1>6, <1>8, <1>10
  <2>2. got' = [got EXCEPT ![c] = [i \in 1 .. n |-> since[c] + i]]
    BY <1>1, <1>3 DEF Stretch
  <2>3. ChatOf!Show(c)
    BY <1>1, <1>2, <2>1, <2>2 DEF ChatOf!Show
  <2> QED
    BY <2>3 DEF ChatOf!Next
<1> QED
  BY <1>9, <1>10

\* A broadcast is a Post.
LEMMA ChatPost ==
  ASSUME NEW c \in Clients, Post(c) \/ ReadBye(c) \/ WriteBye(c)
  PROVE  ChatOf!Next
  BY DEF Post, ReadBye, WriteBye, TakeBroadcast, clientVars, ChatOf!Next, ChatOf!Post

\* All other steps are none of the chat's.
LEMMA ChatStutter ==
  ASSUME ChatInv, NEW c \in Clients,
         \/ Connect(c) \/ PickColor(c) \/ ReadFails(c) \/ Unregister(c) \/ Answer(c)
         \/ \E type \in {"info", "echo", "post", "read"} : Read(c, type)
         \/ WriteFails(c) \/ WriteClosed(c) \/ ConnDown(c) \/ Deliver(c)
  PROVE  UNCHANGED ChatOf!chatVars
<1>1. UNCHANGED <<casts, since, got>>
  BY DEF Connect, PickColor, ReadFails, Unregister, Answer, Read, WriteFails,
         WriteClosed, ConnDown, Deliver, hubVars, clientVars, pumpVars
<1>2. CASE UNCHANGED handler
  BY <1>1, <1>2 DEF ChatOf!chatVars
<1>3. CASE Connect(c) \/ PickColor(c)
  <2>1. \A d \in Clients : handler'[d] = "done" <=> handler[d] = "done"
    BY <1>3 DEF Connect, PickColor, ChatInv, TypeOK
  <2>2. {d \in Clients : handler'[d] = "done"} = {d \in Clients : handler[d] = "done"}
    BY <2>1
  <2> QED
    BY <1>1, <2>2 DEF ChatOf!chatVars
<1> QED
  BY <1>2, <1>3 DEF ReadFails, Unregister, Answer, Read, WriteFails, WriteClosed,
                    ConnDown, Deliver, clientVars

\* Every step is one of Chat, or none.
LEMMA ChatNext == ChatInv /\ [Next]_vars => [ChatOf!Next]_(ChatOf!chatVars)
<1> SUFFICES ASSUME ChatInv, [Next]_vars PROVE [ChatOf!Next]_(ChatOf!chatVars)
  OBVIOUS
<1>1. CASE UNCHANGED vars \/ Delivered
  BY <1>1 DEF vars, Delivered, hubVars, clientVars, pumpVars, ChatOf!chatVars
<1>2. ASSUME NEW c \in Clients,
             Deliver(c) \/ wsHandler(c) \/ readPump(c) \/ writePump(c) \/ Environment(c)
      PROVE  [ChatOf!Next]_(ChatOf!chatVars)
  BY <1>2, ChatJoin, ChatShow, ChatPost, ChatStutter
     DEF wsHandler, readPump, writePump, Environment
<1> QED
  BY <1>1, <1>2 DEF Next, run

(***************************************************************************)
(* WsHub implements Chat: what is written to a client, before and after an *)
(* error, an eviction or the loss of its connection (websocket.go), is an  *)
(* unbroken stretch of the broadcasts from its registration on.            *)
(***************************************************************************)
THEOREM Implements == Spec => ShowsChat
  BY ChatInit, ChatNext, InitChat, NextChat, PTL DEF Spec, ShowsChat, ChatOf!Spec
=============================================================================
