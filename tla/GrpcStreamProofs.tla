-------------------------- MODULE GrpcStreamProofs --------------------------
(***************************************************************************)
(* Proofs about GrpcStream, for any methods, requests and number of        *)
(* handlers: types, the exact count of the WaitGroup, that no handler      *)
(* meets a closed sendChan, and that an RPC that ends with OK has sent all *)
(* its responses.                                                          *)
(***************************************************************************)
EXTENDS GrpcStream, FiniteSetTheorems, TLAPS

(***************************************************************************)
(* Commands                                                                *)
(***************************************************************************)

\* A request without parameters is a value of the type.
LEMMA NoCommandsType == NoCommands \in CommandsType
  BY DEF NoCommands, CommandsType, RepeatValue, ActionNames

\* validateCommandsForGrpc returns commands.
LEMMA ValidateType ==
  ASSUME NEW m, NEW c \in CommandsType
  PROVE  validateCommandsForGrpc(m, c) \in CommandsType
  BY DEF validateCommandsForGrpc, CommandsType, RepeatValue

\* The number drawn for repeat is a natural number.
LEMMA DrawType ==
  ASSUME NEW v \in RepeatValue
  PROVE  getActionValue(v) \subseteq Nat
  BY DEF getActionValue, lower, upper, RepeatValue

\* WaitGroup.done stays within the natural numbers.
LEMMA DecrementType ==
  ASSUME NEW n \in Nat
  PROVE  Decrement(n) \in Nat
  BY DEF Decrement

-----------------------------------------------------------------------------
(***************************************************************************)
(* Type correctness                                                        *)
(***************************************************************************)

\* The initial states of every method are well typed.
LEMMA InitType == Init => TypeOK
<1> SUFFICES ASSUME Init PROVE TypeOK
  OBVIOUS
<1>1. /\ mode \in AllModes /\ main \in MainStates /\ result \in Results
      /\ wg \in Nat /\ waiter \in WaiterStates /\ errBuf \in Results
      /\ sendClosed \in BOOLEAN /\ rcv \in ReceiverStates
      /\ snd \in SenderStates /\ conn \in {"up", "closed", "down"}
      /\ held \in Slots \union {NoSlot}
  BY ModesAssumption DEF Init, AllModes, MainStates, Results, WaiterStates,
     ReceiverStates, SenderStates, Streaming
<1>2. latest \in CommandsType
  BY NoCommandsType DEF Init
<1>3. pc \in [Slots -> HandlerStates] /\ cmds \in [Slots -> CommandsType]
  <2>1. CASE mode \in {"Unary", "ServerStream"}
    <3>1. PICK h \in Slots, r \in Requests :
             /\ pc = [s \in Slots |-> IF s = h THEN "start" ELSE "idle"]
             /\ cmds = [s \in Slots |-> IF s = h THEN r ELSE NoCommands]
      BY <2>1 DEF Init
    <3>2. r \in CommandsType
      BY RequestsAssumption
    <3> QED
      BY <3>1, <3>2, NoCommandsType DEF HandlerStates
  <2>2. CASE mode \notin {"Unary", "ServerStream"}
    BY <2>2, NoCommandsType DEF Init, HandlerStates
  <2> QED
    BY <2>1, <2>2
<1>4. /\ repeat \in [Slots -> Nat] /\ iter \in [Slots -> Nat]
      /\ sent \in [Slots -> Nat]
  BY DEF Init
<1> QED
  BY <1>1, <1>2, <1>3, <1>4 DEF TypeOK

\* A handler's own steps keep the types.
LEMMA HandlerType ==
  ASSUME TypeOK, NEW h \in Slots, HandlerStep(h)
  PROVE  TypeOK'
<1> USE DEF TypeOK, rpcVars, chanVars, peerVars, handlerVars
<1>1. CASE HandlerStart(h)
  <2> DEFINE c == validateCommandsForGrpc(mode, cmds[h])
  <2>1. c \in CommandsType
    BY ValidateType
  <2>2. c.repeat \in RepeatValue
    BY <2>1 DEF CommandsType
  <2>3. repeat' \in [Slots -> Nat]
    <3>1. PICK n \in IF "repeat" \in c.actions
                     THEN getActionValue(c.repeat) ELSE {1} :
             repeat' = [repeat EXCEPT ![h] = n]
      BY <1>1 DEF HandlerStart
    <3>2. n \in Nat
      BY <2>2, DrawType
    <3> QED
      BY <3>1, <3>2
  <2>4. cmds' \in [Slots -> CommandsType] /\ iter' \in [Slots -> Nat]
    BY <1>1, <2>1 DEF HandlerStart
  <2>5. pc' \in [Slots -> HandlerStates]
    BY <1>1 DEF HandlerStart, HandlerStates
  <2> QED
    BY <1>1, <2>3, <2>4, <2>5 DEF HandlerStart
<1>2. CASE HandlerNoop(h)
  BY <1>2 DEF HandlerNoop, PutErr, MainStates, Results, HandlerStates
<1>3. CASE HandlerExec(h)
  BY <1>3 DEF HandlerExec, HandlerStates
<1>4. CASE HandlerErrLoop(h)
  BY <1>4 DEF HandlerErrLoop, PutErr, MainStates, Results, HandlerStates
<1>5. CASE HandlerRelease(h)
  BY <1>5, DecrementType DEF HandlerRelease, HandlerStates
<1>6. CASE HandlerReleaseFinal(h)
  BY <1>6, DecrementType DEF HandlerReleaseFinal, HandlerStates
<1>7. CASE HandlerErrFinal(h)
  BY <1>7 DEF HandlerErrFinal, PutErr, MainStates, Results, HandlerStates
<1> QED
  BY <1>1, <1>2, <1>3, <1>4, <1>5, <1>6, <1>7 DEF HandlerStep

\* The steps of sender and receiver, and the loss of the connection, keep
\* the types.
LEMMA PeerType ==
  ASSUME TypeOK,
         \/ \E h \in Slots : SenderTake(h)
         \/ SenderStep
         \/ ReceiverStep
         \/ ConnDown
  PROVE  TypeOK'
<1> USE DEF TypeOK, rpcVars, chanVars, peerVars, handlerVars
<1>1. ASSUME NEW h \in Slots, SenderTake(h) PROVE TypeOK'
  BY <1>1 DEF SenderTake, AfterSend, SenderStates, HandlerStates
<1>2. CASE SenderOk
  <2>1. sent' \in [Slots -> Nat]
    <3>1. CASE held \in Slots
      BY <1>2, <3>1 DEF SenderOk
    <3>2. CASE held \notin Slots
      BY <1>2, <3>2 DEF SenderOk
    <3> QED
      BY <3>1, <3>2
  <2> QED
    BY <1>2, <2>1, DecrementType DEF SenderOk, SenderStates
<1>3. CASE SenderFails
  BY <1>3 DEF SenderFails, SenderStates
<1>4. CASE SenderErr
  BY <1>4 DEF SenderErr, PutErr, SenderStates, MainStates, Results
<1>5. CASE SenderClosed
  BY <1>5 DEF SenderClosed, SenderStates
<1>6. CASE SenderFin
  BY <1>6 DEF SenderFin, PutErr, SenderStates, MainStates, Results
<1>7. ASSUME NEW r \in Requests, ReceiverRecv(r) PROVE TypeOK'
  BY <1>7, RequestsAssumption DEF ReceiverRecv, ReceiverStates
<1>8. CASE ReceiverEOF
  BY <1>8 DEF ReceiverEOF, ReceiverStates
<1>9. CASE ReceiverFails
  BY <1>9 DEF ReceiverFails, ReceiverStates
<1>10. CASE ReceiverErr
  BY <1>10 DEF ReceiverErr, PutErr, ReceiverStates, MainStates, Results
<1>11. CASE ConnDown
  BY <1>11 DEF ConnDown
<1> QED
  BY <1>1, <1>2, <1>3, <1>4, <1>5, <1>6, <1>7, <1>8, <1>9, <1>10, <1>11
     DEF SenderStep, ReceiverStep

\* The steps of the method's goroutine and of the waiter keep the types.
LEMMA MainType ==
  ASSUME TypeOK, MainStep \/ WaiterDone
  PROVE  TypeOK'
<1> USE DEF TypeOK, rpcVars, chanVars, peerVars, handlerVars
<1>1. ASSUME NEW h \in Slots, BidiDeliver(h) PROVE TypeOK'
  BY <1>1 DEF BidiDeliver, Spawn, ReceiverStates, HandlerStates
<1>2. CASE BidiClosed
  BY <1>2 DEF BidiClosed, MainStates, WaiterStates
<1>3. CASE MainWaited
  BY <1>3 DEF MainWaited, MainStates
<1>4. CASE BidiDefault
  BY <1>4 DEF BidiDefault, MainStates, Results
<1>5. CASE MainTakeErr
  BY <1>5 DEF MainTakeErr, MainStates, Results
<1>6. ASSUME NEW h \in Slots, UnaryReply(h) PROVE TypeOK'
  BY <1>6 DEF UnaryReply, AfterSend, MainStates, Results, HandlerStates
<1>7. ASSUME NEW r \in Requests, ClientRecv(r) PROVE TypeOK'
  BY <1>7, RequestsAssumption DEF ClientRecv
<1>8. ASSUME NEW h \in Slots, ClientEOF(h) PROVE TypeOK'
  BY <1>8 DEF ClientEOF, Spawn, MainStates, HandlerStates
<1>9. CASE ClientRecvFails
  BY <1>9 DEF ClientRecvFails, MainStates, Results
<1>10. ASSUME NEW h \in Slots, ClientReply(h) PROVE TypeOK'
  BY <1>10, DecrementType
     DEF ClientReply, AfterSend, MainStates, Results, HandlerStates
<1>11. CASE WaiterDone
  BY <1>11 DEF WaiterDone, WaiterStates
<1> QED
  BY <1>1, <1>2, <1>3, <1>4, <1>5, <1>6, <1>7, <1>8, <1>9, <1>10, <1>11
     DEF MainStep

\* Every step keeps the types.
LEMMA NextType == TypeOK /\ [Next]_vars => TypeOK'
<1> SUFFICES ASSUME TypeOK, [Next]_vars PROVE TypeOK'
  OBVIOUS
<1>1. CASE UNCHANGED vars
  BY <1>1 DEF TypeOK, vars, rpcVars, chanVars, peerVars, handlerVars
<1> QED
  BY <1>1, HandlerType, PeerType, MainType DEF Next

(***************************************************************************)
(* Every reachable state of an RPC (grpc.go:169-333, 428-456) is well      *)
(* typed; in particular the counter of the WaitGroup is never negative.    *)
(***************************************************************************)
THEOREM TypeCorrect == Spec => []TypeOK
  BY InitType, NextType, PTL DEF Spec
-----------------------------------------------------------------------------
(***************************************************************************)
(* The WaitGroup and the closing of sendChan                               *)
(***************************************************************************)

\* Which goroutines each method has, and where its own goroutine can be.
Shape ==
    /\ snd # "off" => Streaming
    /\ waiter # "off" => Streaming /\ main \in {"wait", "check", "drain", "returned"}
    /\ main \in {"recv", "reply"} => ~Streaming
    /\ mode \in {"Unary", "ClientStream"} => main \notin {"select", "wait"}

\* Once the waiter has seen zero nobody holds a part of wg any more, and
\* sendChan is closed only after that.
Waited ==
    /\ waiter = "closed" => Holders = {} /\ SenderHolds = 0
    /\ main \in {"check", "drain"} \/ sendClosed => waiter = "closed"

\* The inductive invariant.
StreamInv == TypeOK /\ WaitGroupExact /\ Shape /\ Waited

\* The sets of holders are finite, so that they can be counted.
LEMMA HoldersFinite ==
  /\ IsFiniteSet(Holders) /\ IsFiniteSet(Adders)
  /\ Cardinality(Holders) \in Nat /\ Cardinality(Adders) \in Nat
  /\ (Cardinality(Holders) = 0 <=> Holders = {})
<1>1. Holders \subseteq Slots /\ Adders \subseteq Slots
  BY DEF Holders, Adders
<1>2. IsFiniteSet(Holders) /\ IsFiniteSet(Adders)
  BY <1>1, SlotsAssumption, FS_Subset
<1> QED
  BY <1>2, FS_CardinalityType, FS_EmptySet

\* Counting a set that gains an element.
LEMMA CountIn ==
  ASSUME NEW S, IsFiniteSet(S), NEW x, x \notin S
  PROVE  Cardinality(S \union {x}) = Cardinality(S) + 1
  BY FS_AddElement

\* Counting a set that loses an element.
LEMMA CountOut ==
  ASSUME NEW S, IsFiniteSet(S), NEW x, x \in S
  PROVE  Cardinality(S \ {x}) = Cardinality(S) - 1 /\ Cardinality(S) > 0
<1>1. Cardinality(S) \in Nat /\ Cardinality(S \ {x}) \in Nat
  BY FS_CardinalityType, FS_RemoveElement
<1>2. Cardinality(S \ {x}) = Cardinality(S) - 1
  BY FS_RemoveElement
<1> QED
  BY <1>1, <1>2
(***************************************************************************)
(* What a move of one handler does to the two sets.                        *)
(***************************************************************************)

HoldStates == {"start", "noop", "exec", "sendLoop", "errLoop", "release",
               "sendFinal", "releaseFinal"}

\* A handler that is not in the loop's send keeps its 1.
LEMMA MoveKeeps ==
  ASSUME TypeOK, NEW h \in Slots, NEW b \in HoldStates \ {"sendLoop"},
         pc[h] \in HoldStates \ {"sendLoop"}, pc' = [pc EXCEPT ![h] = b]
  PROVE  Holders' = Holders /\ Adders' = Adders
  BY DEF TypeOK, Holders, Adders, HoldStates

\* A handler that holds nothing any more changes neither set.
LEMMA MoveIdle ==
  ASSUME TypeOK, NEW h \in Slots, NEW b \in {"errFinal", "done"},
         pc[h] \notin HoldStates, pc' = [pc EXCEPT ![h] = b]
  PROVE  Holders' = Holders /\ Adders' = Adders
  BY DEF TypeOK, Holders, Adders, HoldStates

\* A handler gives up its 1.
LEMMA MoveOut ==
  ASSUME TypeOK, NEW h \in Slots, NEW b \in {"errFinal", "done"},
         pc[h] \in HoldStates \ {"sendLoop"}, pc' = [pc EXCEPT ![h] = b]
  PROVE  /\ Adders' = Adders /\ h \in Holders
         /\ Cardinality(Holders') = Cardinality(Holders) - 1
         /\ Cardinality(Holders) > 0
<1>1. Holders' = Holders \ {h} /\ Adders' = Adders /\ h \in Holders
  BY DEF TypeOK, Holders, Adders, HoldStates
<1> QED
  BY <1>1, HoldersFinite, CountOut

\* The only parts of the invariant that a step disturbs when it leaves the
\* method's goroutine, the waiter and sendChan alone.
Frame == UNCHANGED <<mode, main, waiter, sendClosed>>

\* A step of the handlers within HandlerStep preserves the invariant.
LEMMA HandlerInv ==
  ASSUME StreamInv, NEW h \in Slots, HandlerStep(h)
  PROVE  StreamInv'
<1> USE DEF rpcVars, chanVars, peerVars, handlerVars
<1>0. TypeOK /\ TypeOK'
  BY HandlerType DEF StreamInv
<1>1. CASE HandlerStart(h)
  <2>1. Holders' = Holders /\ Adders' = Adders
    <3>1. PICK b \in HoldStates \ {"sendLoop"} : pc' = [pc EXCEPT ![h] = b]
      BY <1>1 DEF HandlerStart, HoldStates
    <3>2. pc[h] \in HoldStates \ {"sendLoop"}
      BY <1>1 DEF HandlerStart, HoldStates
    <3> QED
      BY <1>0, <3>1, <3>2, MoveKeeps
  <2>2. Frame /\ UNCHANGED <<wg, snd>>
    BY <1>1 DEF HandlerStart, Frame
  <2> QED
    BY <1>0, <2>1, <2>2
       DEF StreamInv, WaitGroupExact, Shape, Waited, SenderHolds, Streaming, Frame
<1>2. CASE HandlerNoop(h) \/ HandlerErrLoop(h)
  <2>1. Holders' = Holders /\ Adders' = Adders
    BY <1>0, <1>2, MoveKeeps DEF HandlerNoop, HandlerErrLoop, HoldStates
  <2>2. UNCHANGED <<mode, waiter, sendClosed, wg, snd>>
    BY <1>2 DEF HandlerNoop, HandlerErrLoop
  <2>3. main' = main \/ (main' = "returned" /\ mode = "BidiStream")
    BY <1>2 DEF HandlerNoop, HandlerErrLoop, PutErr
  <2> QED
    BY <1>0, <2>1, <2>2, <2>3
       DEF StreamInv, WaitGroupExact, Shape, Waited, SenderHolds, Streaming
<1>3. CASE HandlerExec(h)
  <2>1. Frame /\ UNCHANGED snd
    BY <1>3 DEF HandlerExec, Frame
  <2>2. h \in Holders /\ waiter # "closed"
    BY <1>3 DEF HandlerExec, Holders, StreamInv, Waited
  <2>3. CASE InLoop(h) /\ ~ExecFails(h)
    <3>1. /\ Holders' = Holders
          /\ Adders' = Adders \union {h}
          /\ h \notin Adders
          /\ wg' = wg + 1
      BY <1>0, <1>3, <2>3 DEF HandlerExec, Holders, Adders, TypeOK
    <3>2. Cardinality(Adders') = Cardinality(Adders) + 1
      BY <3>1, HoldersFinite, CountIn
    <3> QED
      BY <1>0, <2>1, <2>2, <3>1, <3>2, HoldersFinite
         DEF StreamInv, WaitGroupExact, Shape, Waited, SenderHolds, Streaming,
             Frame, TypeOK
  <2>4. CASE ~(InLoop(h) /\ ~ExecFails(h))
    <3>1. PICK b \in HoldStates \ {"sendLoop"} : pc' = [pc EXCEPT ![h] = b]
      BY <1>3, <2>4 DEF HandlerExec, HoldStates
    <3>2. Holders' = Holders /\ Adders' = Adders
      BY <1>0, <1>3, <3>1, MoveKeeps DEF HandlerExec, HoldStates
    <3>3. wg' = wg
      BY <1>3, <2>4 DEF HandlerExec
    <3> QED
      BY <1>0, <2>1, <3>2, <3>3
         DEF StreamInv, WaitGroupExact, Shape, Waited, SenderHolds, Streaming,
             Frame
  <2> QED
    BY <2>3, <2>4
<1>4. CASE HandlerRelease(h) \/ HandlerReleaseFinal(h)
  <2>1. Frame /\ UNCHANGED snd /\ wg' = Decrement(wg)
    BY <1>4 DEF HandlerRelease, HandlerReleaseFinal, Frame
  <2>2. /\ Adders' = Adders /\ h \in Holders
        /\ Cardinality(Holders') = Cardinality(Holders) - 1
        /\ Cardinality(Holders) > 0
    <3>1. pc[h] \in HoldStates \ {"sendLoop"}
      BY <1>4 DEF HandlerRelease, HandlerReleaseFinal, HoldStates
    <3>2. PICK b \in {"errFinal", "done"} : pc' = [pc EXCEPT ![h] = b]
      BY <1>4 DEF HandlerRelease, HandlerReleaseFinal
    <3> QED
      BY <1>0, <3>1, <3>2, MoveOut
  <2>3. waiter # "closed"
    BY <2>2 DEF StreamInv, Waited
  <2>4. WaitGroupExact'
    BY <2>1, <2>2, HoldersFinite
       DEF StreamInv, WaitGroupExact, SenderHolds, Streaming, Frame, Decrement
  <2> QED
    BY <1>0, <2>1, <2>3, <2>4
       DEF StreamInv, Shape, Waited, Streaming, Frame
<1>5. CASE HandlerErrFinal(h)
  <2>1. Holders' = Holders /\ Adders' = Adders
    BY <1>0, <1>5, MoveIdle DEF HandlerErrFinal, HoldStates
  <2>2. UNCHANGED <<mode, waiter, sendClosed, wg, snd>>
    BY <1>5 DEF HandlerErrFinal
  <2>3. main' = main \/ (main' = "returned" /\ mode = "BidiStream")
    BY <1>5 DEF HandlerErrFinal, PutErr
  <2> QED
    BY <1>0, <2>1, <2>2, <2>3
       DEF StreamInv, WaitGroupExact, Shape, Waited, SenderHolds, Streaming
<1> QED
  BY <1>1, <1>2, <1>3, <1>4, <1>5 DEF HandlerStep
\* A handler's response goes to sender, and the 1 that belongs to it too.
LEMMA SenderTakeInv ==
  ASSUME StreamInv, NEW h \in Slots, SenderTake(h)
  PROVE  StreamInv'
<1> USE DEF rpcVars, chanVars, peerVars, handlerVars
<1>0. TypeOK /\ TypeOK'
  BY PeerType DEF StreamInv
<1>1. Frame /\ wg' = wg /\ SenderHolds = 0 /\ SenderHolds' = 1 /\ Streaming
  BY DEF SenderTake, Frame, SenderHolds, StreamInv, Shape
<1>2. h \in Holders /\ waiter # "closed"
  BY DEF SenderTake, AfterSend, Holders, StreamInv, Waited
<1>3. Cardinality(Holders') + Cardinality(Adders') + 1
        = Cardinality(Holders) + Cardinality(Adders)
  <2>1. CASE pc[h] = "sendLoop"
    <3>1. Holders' = Holders /\ Adders' = Adders \ {h} /\ h \in Adders
      BY <1>0, <2>1 DEF SenderTake, AfterSend, Holders, Adders, TypeOK
    <3> QED
      BY <3>1, HoldersFinite, CountOut
  <2>2. CASE pc[h] = "sendFinal"
    <3>1. Adders' = Adders /\ Cardinality(Holders') = Cardinality(Holders) - 1
      BY <1>0, <2>2, MoveOut DEF SenderTake, AfterSend, HoldStates
    <3> QED
      BY <3>1, HoldersFinite
  <2> QED
    BY <2>1, <2>2 DEF SenderTake, AfterSend
<1>4. Cardinality(Holders') \in Nat /\ Cardinality(Adders') \in Nat
  <2>1. Holders' \subseteq Slots /\ Adders' \subseteq Slots
    BY DEF Holders, Adders
  <2> QED
    BY <2>1, SlotsAssumption, FS_Subset, FS_CardinalityType
<1>5. WaitGroupExact'
  BY <1>1, <1>3, <1>4, HoldersFinite DEF StreamInv, WaitGroupExact, Frame, Streaming
<1>6. Shape' /\ Waited'
  BY <1>1, <1>2 DEF StreamInv, Shape, Waited, Streaming, Frame, SenderTake
<1> QED
  BY <1>0, <1>5, <1>6 DEF StreamInv

\* A step that leaves the handlers, wg and what sender holds alone, and
\* moves the method's goroutine at most to its return.
LEMMA QuietInv ==
  ASSUME StreamInv, TypeOK', UNCHANGED <<mode, waiter, sendClosed, wg, pc>>,
         SenderHolds' = SenderHolds, snd' # "off" => snd # "off",
         main' = main \/ (main' = "returned" /\ result' # "none")
  PROVE  StreamInv'
<1>1. Holders' = Holders /\ Adders' = Adders
  BY DEF Holders, Adders
<1> QED
  BY <1>1 DEF StreamInv, WaitGroupExact, Shape, Waited, Streaming

\* Sender, receiver and the loss of the connection preserve the invariant.
LEMMA PeerInv ==
  ASSUME StreamInv, SenderStep \/ ReceiverStep \/ ConnDown
  PROVE  StreamInv'
<1> USE DEF rpcVars, chanVars, peerVars, handlerVars
<1>0. TypeOK /\ TypeOK'
  BY PeerType DEF StreamInv
<1>1. CASE SenderOk
  <2>1. Frame /\ UNCHANGED pc /\ wg' = Decrement(wg) /\ Streaming
    BY <1>1 DEF SenderOk, Frame, StreamInv, Shape
  <2>2. SenderHolds = 1 /\ SenderHolds' = 0
    BY <1>1 DEF SenderOk, SenderHolds
  <2>3. Holders' = Holders /\ Adders' = Adders
    BY <2>1 DEF Holders, Adders
  <2>4. WaitGroupExact'
    BY <2>1, <2>2, <2>3, HoldersFinite
       DEF StreamInv, WaitGroupExact, Streaming, Frame, Decrement
  <2> QED
    BY <1>0, <1>1, <2>1, <2>2, <2>3, <2>4
       DEF StreamInv, Shape, Waited, Streaming, Frame
<1>2. CASE SenderFails
  BY <1>0, <1>2, QuietInv DEF SenderFails, SenderHolds
<1>3. CASE SenderErr
  BY <1>0, <1>3, QuietInv DEF SenderErr, PutErr, SenderHolds
<1>4. CASE SenderClosed
  BY <1>0, <1>4, QuietInv DEF SenderClosed, SenderHolds
<1>5. CASE SenderFin
  BY <1>0, <1>5, QuietInv DEF SenderFin, PutErr, SenderHolds
<1>6. CASE (\E r \in Requests : ReceiverRecv(r)) \/ ReceiverEOF \/ ReceiverFails
  BY <1>0, <1>6, QuietInv DEF ReceiverRecv, ReceiverEOF, ReceiverFails, SenderHolds
<1>7. CASE ReceiverErr
  BY <1>0, <1>7, QuietInv DEF ReceiverErr, PutErr, SenderHolds
<1>8. CASE ConnDown
  BY <1>0, <1>8, QuietInv DEF ConnDown, SenderHolds
<1> QED
  BY <1>1, <1>2, <1>3, <1>4, <1>5, <1>6, <1>7, <1>8 DEF SenderStep, ReceiverStep

\* The method's goroutine and the waiter preserve the invariant.
LEMMA MainInv ==
  ASSUME StreamInv, MainStep \/ WaiterDone
  PROVE  StreamInv'
<1> USE DEF rpcVars, chanVars, peerVars, handlerVars
<1>0. TypeOK /\ TypeOK'
  BY MainType DEF StreamInv
<1>1. ASSUME NEW h \in Slots, BidiDeliver(h) PROVE StreamInv'
  <2>1. Frame /\ UNCHANGED snd /\ wg' = wg + 1 /\ waiter = "off"
    BY <1>0, <1>1 DEF BidiDeliver, Frame, StreamInv, Shape, TypeOK, WaiterStates
  <2>2. Holders' = Holders \union {h} /\ Adders' = Adders /\ h \notin Holders
    BY <1>0, <1>1 DEF BidiDeliver, Spawn, Holders, Adders, TypeOK
  <2>3. Cardinality(Holders') = Cardinality(Holders) + 1
    BY <2>2, HoldersFinite, CountIn
  <2>4. WaitGroupExact'
    BY <1>0, <2>1, <2>2, <2>3, HoldersFinite
       DEF StreamInv, WaitGroupExact, Streaming, Frame, SenderHolds, TypeOK
  <2> QED
    BY <1>0, <2>1, <2>4 DEF StreamInv, Shape, Waited, Streaming, Frame
<1>2. CASE BidiClosed
  <2>1. Holders' = Holders /\ Adders' = Adders /\ SenderHolds' = SenderHolds
    BY <1>2 DEF BidiClosed, Holders, Adders, SenderHolds
  <2>2. Streaming
    BY <1>0, <1>2 DEF BidiClosed, StreamInv, Shape, Streaming, TypeOK, AllModes
  <2> QED
    BY <1>0, <1>2, <2>1, <2>2
       DEF BidiClosed, StreamInv, WaitGroupExact, Shape, Waited, Streaming
<1>3. CASE MainWaited
  <2>1. Holders' = Holders /\ Adders' = Adders /\ SenderHolds' = SenderHolds
    BY <1>3 DEF MainWaited, Holders, Adders, SenderHolds
  <2> QED
    BY <1>0, <1>3, <2>1
       DEF MainWaited, StreamInv, WaitGroupExact, Shape, Waited, Streaming
<1>4. CASE BidiDefault
  <2>1. Holders' = Holders /\ Adders' = Adders /\ SenderHolds' = SenderHolds
    BY <1>4 DEF BidiDefault, Holders, Adders, SenderHolds
  <2> QED
    BY <1>0, <1>4, <2>1
       DEF BidiDefault, StreamInv, WaitGroupExact, Shape, Waited, Streaming
<1>5. CASE MainTakeErr
  BY <1>0, <1>5, QuietInv DEF MainTakeErr, SenderHolds
<1>6. CASE \/ \E h \in Slots : UnaryReply(h) \/ ClientEOF(h) \/ ClientReply(h)
           \/ (\E r \in Requests : ClientRecv(r)) \/ ClientRecvFails
  <2>1. UNCHANGED <<mode, waiter, sendClosed, snd>>
    BY <1>6 DEF UnaryReply, ClientEOF, ClientReply, ClientRecv, ClientRecvFails
  <2>2. main \in {"recv", "reply"} /\ main' \in {"recv", "reply", "returned"}
    BY <1>6 DEF UnaryReply, ClientEOF, ClientReply, ClientRecv, ClientRecvFails
  <2> QED
    BY <1>0, <2>1, <2>2 DEF StreamInv, WaitGroupExact, Shape, Waited, Streaming
<1>7. CASE WaiterDone
  <2>1. Holders' = Holders /\ Adders' = Adders /\ SenderHolds' = SenderHolds
    BY <1>7 DEF WaiterDone, Holders, Adders, SenderHolds
  <2>2. Cardinality(Holders) = 0 /\ SenderHolds = 0
    BY <1>7, HoldersFinite
       DEF WaiterDone, StreamInv, WaitGroupExact, Shape, SenderHolds
  <2> QED
    BY <1>0, <1>7, <2>1, <2>2, HoldersFinite
       DEF WaiterDone, StreamInv, WaitGroupExact, Shape, Waited, Streaming
<1> QED
  BY <1>1, <1>2, <1>3, <1>4, <1>5, <1>6, <1>7 DEF MainStep

\* The invariant holds when the call starts.
LEMMA InitInv == Init => StreamInv
<1> SUFFICES ASSUME Init PROVE StreamInv
  OBVIOUS
<1>1. TypeOK
  BY InitType
<1>2. Shape /\ Waited
  BY ModesAssumption DEF Init, Shape, Waited, Streaming, AllModes
<1>3. WaitGroupExact
  <2>1. CASE mode = "ServerStream"
    <3>1. PICK h \in Slots :
             pc = [s \in Slots |-> IF s = h THEN "start" ELSE "idle"]
      BY <2>1 DEF Init
    <3>2. Holders = {} \union {h} /\ Adders = {}
      BY <3>1 DEF Holders, Adders
    <3>3. Cardinality(Holders) = 1 /\ Cardinality(Adders) = 0
      BY <3>2, CountIn, FS_EmptySet
    <3> QED
      BY <2>1, <3>3 DEF Init, WaitGroupExact, SenderHolds, Streaming
  <2>2. CASE mode = "BidiStream"
    <3>1. Holders = {} /\ Adders = {}
      BY <2>2 DEF Init, Holders, Adders
    <3> QED
      BY <2>2, <3>1, FS_EmptySet DEF Init, WaitGroupExact, SenderHolds, Streaming
  <2> QED
    BY <2>1, <2>2 DEF WaitGroupExact, Streaming
<1> QED
  BY <1>1, <1>2, <1>3 DEF StreamInv

\* Every step preserves the invariant.
LEMMA NextInv == StreamInv /\ [Next]_vars => StreamInv'
<1> SUFFICES ASSUME StreamInv, [Next]_vars PROVE StreamInv'
  OBVIOUS
<1>1. CASE UNCHANGED vars
  <2>1. TypeOK'
    BY <1>1, NextType DEF StreamInv
  <2> QED
    BY <1>1, <2>1, QuietInv
       DEF vars, rpcVars, chanVars, peerVars, handlerVars, SenderHolds
<1> QED
  BY <1>1, HandlerInv, SenderTakeInv, PeerInv, MainInv DEF Next

\* The invariant holds in every reachable state.
LEMMA Invariance == Spec => []StreamInv
  BY InitInv, NextInv, PTL DEF Spec

(***************************************************************************)
(* The counter of WaitGroup (grpc.go:679-713) is exact in both streaming   *)
(* methods, whatever the requests, their number and the interleaving.      *)
(***************************************************************************)
THEOREM CounterExact == Spec => []WaitGroupExact
<1>1. StreamInv => WaitGroupExact
  BY DEF StreamInv
<1> QED
  BY <1>1, Invariance, PTL

(***************************************************************************)
(* No handler ever sends on a closed sendChan, the panic the comments at   *)
(* grpc.go:231-233 and 266-269 guard against.                              *)
(***************************************************************************)
THEOREM ClosedSafely == Spec => []NoSendOnClosed
<1>1. StreamInv => NoSendOnClosed
  BY DEF StreamInv, Waited, NoSendOnClosed
<1> QED
  BY <1>1, Invariance, PTL
\* The steps that add to wg are a loop turn, a new handler and a Recv.
LEMMA Adds ==
  ASSUME TypeOK, Next, wg' > wg
  PROVE  \/ \E h \in Slots : HandlerExec(h)
         \/ main \in {"select", "recv"}
<1> USE DEF rpcVars, chanVars, peerVars, handlerVars, TypeOK
<1>1. ~(Decrement(wg) > wg) /\ ~(wg > wg)
  BY DEF Decrement
<1>2. ASSUME NEW h \in Slots, HandlerStep(h) PROVE HandlerExec(h)
  BY <1>1, <1>2 DEF HandlerStep, HandlerStart, HandlerNoop, HandlerErrLoop,
     HandlerRelease, HandlerReleaseFinal, HandlerErrFinal
<1>3. ASSUME NEW h \in Slots, SenderTake(h) PROVE FALSE
  BY <1>3 DEF SenderTake
<1>4. CASE SenderStep
  BY <1>1, <1>4
     DEF SenderStep, SenderOk, SenderFails, SenderErr, SenderClosed, SenderFin
<1>5. CASE ReceiverStep
  BY <1>5 DEF ReceiverStep, ReceiverRecv, ReceiverEOF, ReceiverFails, ReceiverErr
<1>6. CASE MainStep
  BY <1>1, <1>6 DEF MainStep, BidiDeliver, BidiClosed, MainWaited, BidiDefault,
     MainTakeErr, UnaryReply, ClientRecv, ClientEOF, ClientRecvFails, ClientReply
<1>7. CASE WaiterDone \/ ConnDown
  BY <1>7 DEF WaiterDone, ConnDown
<1> QED
  BY <1>2, <1>3, <1>4, <1>5, <1>6, <1>7 DEF Next

(***************************************************************************)
(* wg.add(1) (grpc.go:288, 319) never races with a wg.wait that may have   *)
(* returned: sync.WaitGroup's rule for reuse is kept.                      *)
(***************************************************************************)
THEOREM NoLateAdd == Spec => WaitGroupReuse
<1>1. ASSUME StreamInv, [Next]_vars, waiter # "off", wg' > wg
      PROVE  wg > 0
  <2>1. Next /\ TypeOK
    BY <1>1 DEF vars, chanVars, StreamInv, TypeOK
  <2>2. PICK h \in Slots : HandlerExec(h)
    BY <1>1, <2>1, Adds DEF StreamInv, Shape
  <2>3. Holders # {} /\ Streaming
    BY <1>1, <2>2 DEF HandlerExec, Holders, StreamInv, Shape
  <2> QED
    BY <1>1, <2>1, <2>3, HoldersFinite
       DEF StreamInv, WaitGroupExact, TypeOK, SenderHolds
<1>2. StreamInv /\ [Next]_vars => [waiter # "off" /\ wg' > wg => wg > 0]_vars
  BY <1>1
<1> QED
  BY <1>2, Invariance, PTL DEF Spec, WaitGroupReuse

-----------------------------------------------------------------------------
(***************************************************************************)
(* An RPC that ends with OK has sent every response of every request it    *)
(* took.                                                                   *)
(***************************************************************************)

(***************************************************************************)
(* The inductive invariant: what each handler has given away, by how far   *)
(* it is, and what an OK on its way to the caller presupposes.             *)
(***************************************************************************)

\* The responses of h that Send accepted, and the one in sender.
Given(h) == sent[h] + (IF held = h THEN 1 ELSE 0)

\* ClientStream's SendAndClose failed: its one response is lost, and said so.
Refused == mode = "ClientStream" /\ result = "fail"

\* How far a handler is says how many responses it has given away.
Progress(h) ==
    /\ pc[h] \in {"idle", "start"} => Given(h) = 0
    /\ pc[h] \in {"exec", "sendLoop"} =>
           /\ needsAction(cmds[h])
           /\ "noop" \notin cmds[h].actions
           /\ iter[h] >= 1
           /\ iter[h] = 1 \/ iter[h] <= repeat[h]
           /\ Given(h) = iter[h] - 1
    /\ pc[h] = "sendLoop" => iter[h] < repeat[h]
    /\ pc[h] = "sendFinal" => Given(h) = Planned(h) - 1
    /\ pc[h] \in {"noop", "errLoop", "release", "releaseFinal", "errFinal"} =>
           ~Answers(h)
    /\ pc[h] = "done" /\ Answers(h) => Given(h) = Planned(h) \/ Refused

Ledger == \A h \in Slots : Progress(h)

\* sender holds a response exactly from its receive to the end of Send.
Holding ==
    held \in Slots <=> snd \in {"send", "err", "failed"}

\* Unary and ClientStream have one handler, which answers once.
OneHandler ==
    ~Streaming =>
        /\ \A g, h \in Slots : pc[g] # "idle" /\ pc[h] # "idle" => g = h
        /\ \A h \in Slots : pc[h] \notin {"idle", "start"} => repeat[h] = 1
        /\ main = "recv" => errBuf = "none" /\ \A h \in Slots : pc[h] = "idle"
        /\ rcv = "off"

\* All of h's responses are sent, if it answers at all.
AllSent(h) ==
    pc[h] # "idle" =>
        /\ pc[h] # "start"
        /\ Answers(h) => pc[h] = "done" /\ sent[h] = Planned(h)

\* Where an OK can come from.
OkPlain ==
    ~Streaming /\ (errBuf = "ok" \/ result = "ok")
        => \A h \in Slots : AllSent(h)

OkStream ==
    Streaming =>
        /\ \A h \in Slots : pc[h] # "noop"
        /\ errBuf = "ok" \/ result = "ok" => waiter = "closed"
        /\ mode = "BidiStream" =>
               errBuf = "none" /\ (sendClosed => main = "returned")
        /\ snd \in {"fin", "done"} => sendClosed

SentInv ==
    /\ StreamInv
    /\ Ledger
    /\ Holding
    /\ OneHandler
    /\ OkPlain
    /\ OkStream
    /\ result # "none" => main = "returned"

(***************************************************************************)
(* What a step leaves alone                                                *)
(***************************************************************************)

\* A handler that a step does not touch keeps its account.
LEMMA ProgressFrame ==
  ASSUME NEW h \in Slots, Progress(h),
         pc'[h] = pc[h], cmds'[h] = cmds[h], repeat'[h] = repeat[h],
         iter'[h] = iter[h], Given(h)' = Given(h), Refused => Refused'
  PROVE  Progress(h)'
  BY DEF Progress, Answers, Planned, ExecFails

\* The same for all handlers but one.
LEMMA LedgerFrame ==
  ASSUME Ledger, NEW h \in Slots, Progress(h)', Refused => Refused',
         \A g \in Slots \ {h} :
             /\ pc'[g] = pc[g] /\ cmds'[g] = cmds[g] /\ repeat'[g] = repeat[g]
             /\ iter'[g] = iter[g] /\ Given(g)' = Given(g)
  PROVE  Ledger'
<1>1. ASSUME NEW g \in Slots \ {h} PROVE Progress(g)'
  <2>1. Progress(g)
    BY DEF Ledger
  <2> QED
    BY <2>1, ProgressFrame
<1> QED
  BY <1>1 DEF Ledger

\* An RPC that has its result keeps it, unless main is still to return.
LEMMA RefusedStays ==
  ASSUME SentInv, mode' = mode, result' = result \/ main # "returned"
  PROVE  Refused => Refused'
  BY DEF SentInv, Refused

(***************************************************************************)
(* A handler's own steps                                                   *)
(***************************************************************************)
\* The methods with one response drop repeat.
LEMMA DropsRepeat ==
  ASSUME NEW m \in {"Unary", "ClientStream"}, NEW c \in CommandsType
  PROVE  "repeat" \notin validateCommandsForGrpc(m, c).actions
  BY DEF validateCommandsForGrpc, isRepeatInvalid, CommandsType

\* Unary and ClientStream drop repeat, and every handler draws a number.
LEMMA StartDraws ==
  ASSUME TypeOK, NEW h \in Slots, HandlerStart(h)
  PROVE  /\ repeat'[h] \in Nat
         /\ ~Streaming => repeat'[h] = 1
         /\ \A g \in Slots \ {h} : repeat'[g] = repeat[g]
<1> DEFINE c == validateCommandsForGrpc(mode, cmds[h])
<1>1. PICK n \in IF "repeat" \in c.actions THEN getActionValue(c.repeat) ELSE {1} :
         repeat' = [repeat EXCEPT ![h] = n]
  BY DEF HandlerStart
<1>2. c \in CommandsType
  BY ValidateType DEF TypeOK
<1>3. n \in Nat
  BY <1>2, DrawType DEF CommandsType
<1>4. ~Streaming => "repeat" \notin c.actions
  BY DropsRepeat DEF Streaming, TypeOK, AllModes
<1> QED
  BY <1>1, <1>3, <1>4 DEF TypeOK

\* Validation leaves the handler with nothing given away.
LEMMA StartSent ==
  ASSUME SentInv, NEW h \in Slots, HandlerStart(h)
  PROVE  SentInv'
<1> DEFINE c == validateCommandsForGrpc(mode, cmds[h])
<1> USE DEF rpcVars, chanVars, peerVars, handlerVars
<1>0. TypeOK /\ TypeOK' /\ StreamInv'
  BY HandlerInv DEF SentInv, StreamInv, HandlerStep
<1>1. /\ UNCHANGED <<mode, main, result, errBuf, waiter, sendClosed, rcv, snd, held, sent>>
      /\ pc[h] = "start"
  BY DEF HandlerStart
<1>2. /\ cmds'[h] = c /\ iter'[h] = 1
      /\ pc'[h] = IF ~needsAction(c) THEN "sendFinal"
                  ELSE IF "noop" \notin c.actions THEN "exec"
                  ELSE IF Streaming THEN "release" ELSE "noop"
      /\ \A g \in Slots \ {h} : pc'[g] = pc[g] /\ cmds'[g] = cmds[g] /\ iter'[g] = iter[g]
  BY <1>0 DEF HandlerStart, TypeOK
<1>3. /\ repeat'[h] \in Nat
      /\ ~Streaming => repeat'[h] = 1
      /\ \A g \in Slots \ {h} : repeat'[g] = repeat[g]
  BY <1>0, StartDraws
<1>4. \A g \in Slots : Given(g)' = Given(g)
  BY <1>1 DEF Given
<1>5. Given(h) = 0 /\ ~(~Streaming /\ (errBuf = "ok" \/ result = "ok"))
  BY <1>1 DEF SentInv, Ledger, Progress, OkPlain, AllSent
<1>6. Progress(h)'
  BY <1>2, <1>3, <1>4, <1>5 DEF Progress, Answers, Planned, ExecFails
<1>7. Ledger'
  BY <1>1, <1>2, <1>3, <1>4, <1>6, RefusedStays, LedgerFrame DEF SentInv
<1>8. OneHandler'
  BY <1>1, <1>2, <1>3 DEF SentInv, OneHandler, Streaming
<1>9. OkPlain' /\ OkStream' /\ Holding'
  BY <1>1, <1>2, <1>5 DEF SentInv, OkPlain, OkStream, Holding, Streaming
<1> QED
  BY <1>0, <1>1, <1>7, <1>8, <1>9 DEF SentInv

\* execGrpcAction leads to an error only where there is no answer, and out
\* of the loop only after its last turn.
LEMMA ExecSent ==
  ASSUME SentInv, NEW h \in Slots, HandlerExec(h)
  PROVE  SentInv'
<1> USE DEF rpcVars, chanVars, peerVars, handlerVars
<1>0. TypeOK /\ TypeOK' /\ StreamInv'
  BY HandlerInv DEF SentInv, StreamInv, HandlerStep
<1>1. /\ UNCHANGED <<mode, main, result, errBuf, waiter, sendClosed, rcv, snd, held,
                     sent, cmds, repeat, iter>>
      /\ pc[h] = "exec"
  BY DEF HandlerExec
<1>2. /\ pc'[h] = IF InLoop(h)
                  THEN IF ExecFails(h) THEN "errLoop" ELSE "sendLoop"
                  ELSE IF ExecFails(h) THEN "releaseFinal" ELSE "sendFinal"
      /\ \A g \in Slots \ {h} : pc'[g] = pc[g]
  BY <1>0 DEF HandlerExec, TypeOK
<1>3. \A g \in Slots : Given(g)' = Given(g)
  BY <1>1 DEF Given
<1>4. /\ needsAction(cmds[h]) /\ "noop" \notin cmds[h].actions
      /\ iter[h] >= 1
      /\ iter[h] = 1 \/ iter[h] <= repeat[h]
      /\ Given(h) = iter[h] - 1
  BY <1>1 DEF SentInv, Ledger, Progress
<1>5. iter[h] \in Nat /\ repeat[h] \in Nat
  BY <1>0 DEF TypeOK
<1>6. ~InLoop(h) => iter[h] = Planned(h)
  BY <1>4, <1>5 DEF InLoop, Planned
<1>7. Progress(h)'
  BY <1>1, <1>2, <1>3, <1>4, <1>5, <1>6
     DEF Progress, Answers, Planned, ExecFails, InLoop
<1>8. Ledger'
  BY <1>1, <1>2, <1>3, <1>7, RefusedStays, LedgerFrame DEF SentInv
<1>9. OneHandler' /\ OkStream' /\ Holding'
  BY <1>1, <1>2 DEF SentInv, OneHandler, OkStream, Holding, Streaming
<1>10. OkPlain'
  BY <1>1, <1>2, <1>4
     DEF SentInv, OkPlain, AllSent, Answers, Planned, ExecFails, Streaming
<1> QED
  BY <1>0, <1>1, <1>8, <1>9, <1>10 DEF SentInv

\* The steps of a handler that does not answer.
LEMMA MuteSent ==
  ASSUME SentInv, NEW h \in Slots,
         \/ HandlerNoop(h) \/ HandlerErrLoop(h) \/ HandlerRelease(h)
         \/ HandlerReleaseFinal(h) \/ HandlerErrFinal(h)
  PROVE  SentInv'
<1> USE DEF rpcVars, chanVars, peerVars, handlerVars
<1>0. TypeOK /\ TypeOK' /\ StreamInv'
  BY HandlerInv DEF SentInv, StreamInv, HandlerStep
<1>1. /\ UNCHANGED <<mode, waiter, sendClosed, rcv, snd, held, sent, cmds, repeat, iter>>
      /\ pc[h] \in {"noop", "errLoop", "release", "releaseFinal", "errFinal"}
  BY DEF HandlerNoop, HandlerErrLoop, HandlerRelease, HandlerReleaseFinal,
     HandlerErrFinal
<1>2. /\ pc'[h] \in {"release", "errFinal", "done"}
      /\ \A g \in Slots \ {h} : pc'[g] = pc[g]
  BY <1>0 DEF HandlerNoop, HandlerErrLoop, HandlerRelease, HandlerReleaseFinal,
     HandlerErrFinal, TypeOK
<1>3. \/ UNCHANGED <<main, result, errBuf>>
      \/ /\ mode = "BidiStream" /\ main \in {"select", "wait", "check"}
         /\ main' = "returned" /\ result' = "code" /\ errBuf' = errBuf
      \/ /\ mode # "BidiStream"
         /\ UNCHANGED <<main, result>>
         /\ errBuf' = "code" \/ (errBuf' = "ok" /\ pc[h] = "noop")
  <2>1. pc[h] = "noop" => ~Streaming
    BY DEF SentInv, OkStream
  <2> QED
    BY <2>1 DEF HandlerNoop, HandlerErrLoop, HandlerRelease,
       HandlerReleaseFinal, HandlerErrFinal, PutErr, Streaming
<1>4. \A g \in Slots : Given(g)' = Given(g)
  BY <1>1 DEF Given
<1>5. ~Answers(h) /\ ~Answers(h)'
  BY <1>1 DEF SentInv, Ledger, Progress, Answers, ExecFails
<1>6. Progress(h)'
  BY <1>1, <1>2, <1>5 DEF Progress
<1>7. Ledger'
  BY <1>1, <1>2, <1>3, <1>4, <1>6, RefusedStays, LedgerFrame DEF SentInv
<1>8. OneHandler'
  BY <1>1, <1>2, <1>3 DEF SentInv, OneHandler, Streaming
<1>9. OkStream'
  <2>1. pc[h] = "noop" => ~Streaming
    BY DEF SentInv, OkStream
  <2> QED
    BY <1>1, <1>2, <1>3, <2>1 DEF SentInv, OkStream, Streaming
<1>10. OkPlain'
  <2> SUFFICES ASSUME ~Streaming, errBuf' = "ok" \/ result' = "ok",
                      NEW g \in Slots
               PROVE  AllSent(g)'
    BY <1>1 DEF OkPlain, Streaming
  <2>1. CASE g = h
    BY <1>2, <1>5, <2>1 DEF AllSent
  <2>2. CASE g # h /\ (errBuf = "ok" \/ result = "ok")
    BY <1>1, <1>2, <2>2
       DEF SentInv, OkPlain, AllSent, Answers, Planned, ExecFails
  <2>3. CASE g # h /\ pc[h] = "noop"
    BY <1>1, <1>2, <2>3 DEF SentInv, OneHandler, AllSent
  <2> QED
    BY <1>3, <2>1, <2>2, <2>3 DEF Streaming
<1> QED
  BY <1>0, <1>1, <1>3, <1>7, <1>8, <1>9, <1>10 DEF SentInv, Holding

(***************************************************************************)
(* sender                                                                  *)
(***************************************************************************)

\* The response sender takes is counted from then on.
LEMMA TakeSent ==
  ASSUME SentInv, NEW h \in Slots, SenderTake(h)
  PROVE  SentInv'
<1> USE DEF rpcVars, chanVars, peerVars, handlerVars
<1>0. TypeOK /\ TypeOK' /\ StreamInv' /\ Streaming
  BY SenderTakeInv, PeerType DEF SentInv, StreamInv, Shape, SenderTake
<1>1. /\ UNCHANGED <<mode, main, result, errBuf, waiter, sendClosed, sent,
                     cmds, repeat>>
      /\ snd = "recv" /\ snd' = "send" /\ held' = h
      /\ pc[h] \in {"sendLoop", "sendFinal"}
  BY DEF SenderTake, AfterSend
<1>2. /\ pc'[h] = IF pc[h] = "sendLoop" THEN "exec" ELSE "done"
      /\ iter'[h] = IF pc[h] = "sendLoop" THEN iter[h] + 1 ELSE iter[h]
      /\ \A g \in Slots \ {h} : pc'[g] = pc[g] /\ iter'[g] = iter[g]
  BY <1>0 DEF SenderTake, AfterSend, TypeOK
<1>3. held \notin Slots
  BY <1>1 DEF SentInv, Holding
<1>4. \A g \in Slots : Given(g)' = Given(g) + (IF g = h THEN 1 ELSE 0)
  BY <1>0, <1>1, <1>3 DEF Given, TypeOK
<1>5. sent[h] \in Nat /\ iter[h] \in Nat /\ repeat[h] \in Nat
  BY <1>0 DEF TypeOK
<1>6. Progress(h) /\ Given(h) \in Nat
  BY <1>5 DEF SentInv, Ledger, Given
<1>7. Progress(h)'
  <2>1. CASE pc[h] = "sendLoop"
    BY <1>1, <1>2, <1>4, <1>5, <1>6, <2>1 DEF Progress
  <2>2. CASE pc[h] = "sendFinal"
    <3>1. Planned(h) \in Nat /\ Planned(h)' = Planned(h)
      BY <1>1, <1>5 DEF Planned
    <3>2. Given(h)' = Planned(h)'
      BY <1>4, <1>6, <2>2, <3>1 DEF Progress
    <3> QED
      BY <1>2, <2>2, <3>2 DEF Progress
  <2> QED
    BY <1>1, <2>1, <2>2
<1>8. Ledger'
  <2>1. ASSUME NEW g \in Slots \ {h} PROVE Given(g)' = Given(g)
    BY <1>1, <1>3 DEF Given
  <2> QED
    BY <1>1, <1>2, <1>7, <2>1, RefusedStays, LedgerFrame DEF SentInv
<1>9. OneHandler' /\ OkPlain' /\ Holding'
  BY <1>0, <1>1 DEF OneHandler, OkPlain, Holding, Streaming
<1>10. OkStream'
  BY <1>0, <1>1, <1>2 DEF SentInv, OkStream, Streaming
<1> QED
  BY <1>0, <1>1, <1>8, <1>9, <1>10 DEF SentInv

\* Send accepts the response: what was in sender is now sent.
LEMMA OkSent ==
  ASSUME SentInv, SenderOk
  PROVE  SentInv'
<1> USE DEF rpcVars, chanVars, peerVars, handlerVars
<1>0. TypeOK /\ TypeOK' /\ StreamInv' /\ Streaming
  BY PeerInv DEF SentInv, StreamInv, Shape, SenderStep, SenderOk
<1>1. /\ UNCHANGED <<mode, main, result, errBuf, waiter, sendClosed, pc, cmds,
                     repeat, iter>>
      /\ snd = "send" /\ snd' = "recv" /\ held' = NoSlot
  BY DEF SenderOk
<1>2. held \in Slots
  BY <1>1 DEF SentInv, Holding
<1>3. \A g \in Slots : sent'[g] = IF g = held THEN sent[g] + 1 ELSE sent[g]
  BY <1>0 DEF SenderOk, TypeOK
<1>4. \A g \in Slots : Given(g)' = Given(g)
  BY <1>0, <1>1, <1>3, SlotsAssumption DEF Given, TypeOK
<1>5. Ledger'
  BY <1>1, <1>4, RefusedStays, ProgressFrame DEF SentInv, Ledger
<1>6. Holding' /\ OneHandler' /\ OkPlain' /\ OkStream'
  BY <1>0, <1>1, SlotsAssumption
     DEF SentInv, Holding, OneHandler, OkPlain, OkStream, Streaming
<1> QED
  BY <1>0, <1>1, <1>5, <1>6 DEF SentInv

(***************************************************************************)
(* A step that changes nothing of the handlers and of what sender holds:   *)
(* it has only to account for an OK it lets through.                       *)
(***************************************************************************)
LEMMA HandlersKept ==
  ASSUME SentInv, StreamInv',
         UNCHANGED <<mode, held, pc, cmds, repeat, iter, sent>>,
         result' = result \/ main # "returned",
         result' # "none" => main' = "returned",
         snd' = snd \/ (snd \in {"send", "err"} /\ snd' \in {"err", "failed"})
             \/ (snd \in {"recv", "fin"} /\ snd' \in {"fin", "done"}),
         main' = "recv" => main = "recv" /\ errBuf' = "none",
         ~Streaming /\ (errBuf' = "ok" \/ result' = "ok")
             => errBuf = "ok" \/ result = "ok",
         rcv = "off" => rcv' = "off",
         OkStream'
  PROVE  SentInv'
<1>1. \A g \in Slots : Given(g)' = Given(g)
  BY DEF Given
<1>2. Ledger'
  BY <1>1, RefusedStays, ProgressFrame DEF SentInv, Ledger
<1>3. Holding' /\ OneHandler'
  BY DEF SentInv, Holding, OneHandler, Streaming
<1>4. OkPlain'
  BY DEF SentInv, OkPlain, AllSent, Answers, Planned, ExecFails, Streaming
<1> QED
  BY <1>2, <1>3, <1>4 DEF SentInv

\* The other steps of sender, those of receiver and the loss of the
\* connection.
LEMMA PeerSent ==
  ASSUME SentInv, SenderStep \/ ReceiverStep \/ ConnDown
  PROVE  SentInv'
<1> USE DEF rpcVars, chanVars, peerVars, handlerVars
<1>0. StreamInv' /\ StreamInv /\ OkStream
  BY PeerInv DEF SentInv
<1>1. CASE SenderOk
  BY <1>1, OkSent
<1>2. CASE SenderFails \/ SenderErr
  <2>1. OkStream'
    BY <1>0, <1>2 DEF SenderFails, SenderErr, PutErr, OkStream, Streaming
  <2>2. Streaming
    BY <1>0, <1>2 DEF SenderFails, SenderErr, StreamInv, Shape
  <2> QED
    BY <1>0, <1>2, <2>1, <2>2, HandlersKept
       DEF SenderFails, SenderErr, PutErr, SentInv, StreamInv, Shape
<1>3. CASE SenderClosed
  <2>1. OkStream'
    BY <1>0, <1>3 DEF SenderClosed, OkStream, Streaming
  <2>2. Streaming
    BY <1>0, <1>3 DEF SenderClosed, StreamInv, Shape
  <2> QED
    BY <1>0, <1>3, <2>1, <2>2, HandlersKept
       DEF SenderClosed, SentInv, StreamInv, Shape
<1>4. CASE SenderFin
  <2>1. Streaming /\ sendClosed /\ mode # "BidiStream" /\ waiter = "closed"
    BY <1>0, <1>4
       DEF SenderFin, PutErr, StreamInv, Shape, Waited, OkStream
  <2>2. OkStream'
    BY <1>0, <1>4, <2>1 DEF SenderFin, PutErr, OkStream, Streaming
  <2> QED
    BY <1>0, <1>4, <2>1, <2>2, HandlersKept
       DEF SenderFin, PutErr, SentInv, StreamInv, Shape
<1>5. CASE (\E r \in Requests : ReceiverRecv(r)) \/ ReceiverEOF
           \/ ReceiverFails \/ ConnDown
  <2>1. /\ UNCHANGED <<mode, main, result, errBuf, waiter, sendClosed, snd, held,
                       pc, cmds, repeat, iter, sent>>
        /\ rcv = "off" => rcv' = "off"
    BY <1>5 DEF ReceiverRecv, ReceiverEOF, ReceiverFails, ConnDown
  <2>2. OkStream'
    BY <1>0, <2>1 DEF OkStream, Streaming
  <2> QED
    BY <1>0, <2>1, <2>2, HandlersKept DEF SentInv, StreamInv, Shape, OneHandler
<1>6. CASE ReceiverErr
  <2>1. OkStream'
    BY <1>0, <1>6 DEF ReceiverErr, PutErr, OkStream, Streaming
  <2> QED
    BY <1>0, <1>6, <2>1, HandlersKept
       DEF ReceiverErr, PutErr, SentInv, StreamInv, Shape, OneHandler
<1> QED
  BY <1>1, <1>2, <1>3, <1>4, <1>5, <1>6 DEF SenderStep, ReceiverStep

(***************************************************************************)
(* The goroutine of the method                                             *)
(***************************************************************************)

\* A new handler has given nothing away, and no OK is on its way before it.
LEMMA SpawnSent ==
  ASSUME SentInv, NEW h \in Slots, BidiDeliver(h) \/ ClientEOF(h)
  PROVE  SentInv'
<1> USE DEF rpcVars, chanVars, peerVars, handlerVars
<1>0. TypeOK /\ TypeOK' /\ StreamInv /\ StreamInv'
  BY MainInv DEF SentInv, StreamInv, MainStep
<1>1. /\ UNCHANGED <<mode, result, errBuf, waiter, sendClosed, snd, held, sent,
                     repeat, iter>>
      /\ pc[h] = "idle"
      /\ main' # "recv" /\ main' # "returned" /\ main # "returned"
      /\ ~Streaming => main = "recv" /\ rcv' = rcv
      /\ mode = "BidiStream" => main' = main
  BY <1>0 DEF BidiDeliver, ClientEOF, Spawn, StreamInv, Shape, Streaming, TypeOK,
     AllModes
<1>2. /\ pc'[h] = "start"
      /\ \A g \in Slots \ {h} : pc'[g] = pc[g] /\ cmds'[g] = cmds[g]
  BY <1>0 DEF BidiDeliver, ClientEOF, Spawn, TypeOK
<1>3. \A g \in Slots : Given(g)' = Given(g)
  BY <1>1 DEF Given
<1>4. Progress(h)'
  BY <1>1, <1>2, <1>3 DEF SentInv, Ledger, Progress
<1>5. Ledger'
  BY <1>1, <1>2, <1>3, <1>4, RefusedStays, LedgerFrame DEF SentInv
<1>6. Holding' /\ OneHandler' /\ OkStream'
  BY <1>1, <1>2 DEF SentInv, Holding, OneHandler, OkStream, Streaming
<1>7. OkPlain'
  BY <1>1 DEF SentInv, OneHandler, OkPlain, Streaming
<1> QED
  BY <1>0, <1>1, <1>5, <1>6, <1>7 DEF SentInv

\* The one response of Unary and ClientStream goes to the caller.
LEMMA ReplySent ==
  ASSUME SentInv, NEW h \in Slots, UnaryReply(h) \/ ClientReply(h)
  PROVE  SentInv'
<1> USE DEF rpcVars, chanVars, peerVars, handlerVars
<1>0. TypeOK /\ TypeOK' /\ StreamInv /\ StreamInv' /\ ~Streaming
  BY MainInv DEF SentInv, StreamInv, MainStep, UnaryReply, ClientReply, Streaming
<1>1. /\ UNCHANGED <<mode, errBuf, waiter, sendClosed, rcv, snd, held, cmds,
                     repeat>>
      /\ main = "reply" /\ main' = "returned"
      /\ pc[h] \in {"sendLoop", "sendFinal"}
  BY DEF UnaryReply, ClientReply, AfterSend
<1>2. iter[h] \in Nat /\ repeat[h] \in Nat /\ sent[h] \in Nat
  BY <1>0 DEF TypeOK
<1>3. pc[h] = "sendFinal"
  <2>1. repeat[h] = 1
    BY <1>0, <1>1 DEF SentInv, OneHandler
  <2>2. pc[h] = "sendLoop" => iter[h] >= 1 /\ iter[h] < repeat[h]
    BY DEF SentInv, Ledger, Progress
  <2> QED
    BY <1>1, <1>2, <2>1, <2>2
<1>4. /\ pc'[h] = "done" /\ iter'[h] = iter[h]
      /\ \A g \in Slots \ {h} : pc'[g] = pc[g] /\ iter'[g] = iter[g]
      /\ \A g \in Slots \ {h} : sent'[g] = sent[g]
  BY <1>0, <1>3 DEF UnaryReply, ClientReply, AfterSend, TypeOK
<1>5. held \notin Slots
  BY <1>0 DEF StreamInv, Shape, SentInv, Holding
<1>6. \A g \in Slots : Given(g) = sent[g] /\ Given(g)' = sent'[g]
  BY <1>0, <1>1, <1>5 DEF Given, TypeOK
<1>7. \/ result' = "ok" /\ sent'[h] = sent[h] + 1
      \/ result' = "fail" /\ mode = "ClientStream" /\ sent'[h] = sent[h]
  BY <1>0 DEF UnaryReply, ClientReply, TypeOK
<1>8. Planned(h) \in Nat /\ Planned(h)' = Planned(h) /\ sent[h] = Planned(h) - 1
  <2>1. Planned(h) \in Nat /\ Planned(h)' = Planned(h)
    BY <1>1, <1>2 DEF Planned
  <2>2. Given(h) = Planned(h) - 1
    BY <1>3 DEF SentInv, Ledger, Progress
  <2> QED
    BY <1>6, <2>1, <2>2
<1>9. result' = "ok" => sent'[h] = Planned(h)'
  BY <1>2, <1>7, <1>8
<1>10. Progress(h)'
  BY <1>1, <1>4, <1>6, <1>7, <1>9 DEF Progress, Refused
<1>11. Ledger'
  BY <1>1, <1>4, <1>6, <1>10, RefusedStays, LedgerFrame DEF SentInv
<1>12. Holding' /\ OneHandler' /\ OkStream'
  BY <1>0, <1>1, <1>3, <1>4
     DEF SentInv, Holding, OneHandler, OkStream, Streaming
<1>13. OkPlain'
  <2> SUFFICES ASSUME errBuf' = "ok" \/ result' = "ok", NEW g \in Slots
               PROVE  AllSent(g)'
    BY DEF OkPlain
  <2>1. CASE g # h
    BY <1>0, <1>3, <1>4, <2>1 DEF SentInv, OneHandler, AllSent
  <2>2. CASE g = h /\ result' = "ok"
    BY <1>4, <1>9, <2>2 DEF AllSent
  <2>3. CASE g = h /\ errBuf' = "ok"
    <3>1. ~Answers(h)
      BY <1>0, <1>1, <1>3, <2>3 DEF SentInv, OkPlain, AllSent
    <3> QED
      BY <1>1, <1>4, <2>3, <3>1 DEF AllSent, Answers, ExecFails
  <2> QED
    BY <2>1, <2>2, <2>3
<1> QED
  BY <1>0, <1>1, <1>11, <1>12, <1>13 DEF SentInv

\* The other steps of the method's goroutine, and the waiter's.
LEMMA MainSent ==
  ASSUME SentInv, MainStep \/ WaiterDone
  PROVE  SentInv'
<1> USE DEF rpcVars, chanVars, peerVars, handlerVars
<1>0. StreamInv' /\ StreamInv /\ OkStream
  BY MainInv DEF SentInv
<1>1. ASSUME NEW h \in Slots,
             BidiDeliver(h) \/ ClientEOF(h) \/ UnaryReply(h) \/ ClientReply(h)
      PROVE  SentInv'
  BY <1>1, SpawnSent, ReplySent
<1>2. CASE BidiClosed \/ WaiterDone
  <2>1. Streaming
    BY <1>0, <1>2 DEF BidiClosed, WaiterDone, StreamInv, Shape, Streaming,
       TypeOK, AllModes
  <2>2. OkStream'
    BY <1>0, <1>2 DEF BidiClosed, WaiterDone, OkStream, Streaming, StreamInv,
       Shape
  <2> QED
    BY <1>0, <1>2, <2>1, <2>2, HandlersKept
       DEF BidiClosed, WaiterDone, SentInv, StreamInv, Shape
<1>3. CASE MainWaited
  <2>1. Streaming
    BY <1>0, <1>3 DEF MainWaited, StreamInv, Shape
  <2>2. OkStream'
    BY <1>0, <1>3, <2>1 DEF MainWaited, OkStream, Streaming
  <2> QED
    BY <1>0, <1>3, <2>1, <2>2, HandlersKept DEF MainWaited, SentInv
<1>4. CASE BidiDefault
  <2>1. Streaming /\ waiter = "closed"
    BY <1>0, <1>4 DEF BidiDefault, StreamInv, Shape, Waited
  <2>2. OkStream'
    BY <1>0, <1>4, <2>1 DEF BidiDefault, OkStream, Streaming
  <2> QED
    BY <1>0, <1>4, <2>1, <2>2, HandlersKept DEF BidiDefault, SentInv
<1>5. CASE MainTakeErr
  <2>1. OkStream'
    BY <1>0, <1>5 DEF MainTakeErr, OkStream, Streaming
  <2> QED
    BY <1>0, <1>5, <2>1, HandlersKept DEF MainTakeErr, SentInv
<1>6. CASE (\E r \in Requests : ClientRecv(r)) \/ ClientRecvFails
  <2>1. ~Streaming /\ main = "recv"
    BY <1>0, <1>6 DEF ClientRecv, ClientRecvFails, StreamInv, Shape
  <2>2. OkStream'
    BY <1>6, <2>1 DEF ClientRecv, ClientRecvFails, OkStream, Streaming
  <2> QED
    BY <1>0, <1>6, <2>1, <2>2, HandlersKept
       DEF ClientRecv, ClientRecvFails, SentInv, OneHandler
<1> QED
  BY <1>1, <1>2, <1>3, <1>4, <1>5, <1>6 DEF MainStep
-----------------------------------------------------------------------------
\* The invariant holds when the call starts.
LEMMA InitSent == Init => SentInv
<1> SUFFICES ASSUME Init PROVE SentInv
  OBVIOUS
<1>1. StreamInv
  BY InitInv
<1>2. /\ held \notin Slots
      /\ \A h \in Slots : sent[h] = 0 /\ pc[h] \in {"idle", "start"}
      /\ \A g, h \in Slots : pc[g] # "idle" /\ pc[h] # "idle" => g = h
      /\ main = "recv" => \A h \in Slots : pc[h] = "idle"
  <2>1. CASE mode \in {"Unary", "ServerStream"}
    <3>1. PICK h \in Slots :
             pc = [s \in Slots |-> IF s = h THEN "start" ELSE "idle"]
      BY <2>1 DEF Init
    <3>2. main # "recv"
      BY <2>1 DEF Init
    <3> QED
      BY <3>1, <3>2, SlotsAssumption DEF Init
  <2>2. CASE mode \notin {"Unary", "ServerStream"}
    BY <2>2, SlotsAssumption DEF Init
  <2> QED
    BY <2>1, <2>2
<1>3. Ledger
  <2>1. \A h \in Slots : Given(h) = 0
    BY <1>2 DEF Given
  <2> QED
    BY <1>2, <2>1 DEF Ledger, Progress
<1>4. Holding /\ OneHandler
  BY <1>2 DEF Init, Holding, OneHandler, Streaming
<1>5. OkPlain /\ OkStream
  BY <1>2 DEF Init, OkPlain, OkStream, Streaming
<1> QED
  BY <1>1, <1>3, <1>4, <1>5 DEF Init, SentInv

\* Every step preserves the invariant.
LEMMA NextSent == SentInv /\ [Next]_vars => SentInv'
<1> SUFFICES ASSUME SentInv, [Next]_vars PROVE SentInv'
  OBVIOUS
<1>1. CASE UNCHANGED vars
  <2>1. StreamInv'
    BY NextInv DEF SentInv
  <2>2. UNCHANGED <<mode, main, result, errBuf, waiter, sendClosed, rcv, snd,
                    held, pc, cmds, repeat, iter, sent>>
    BY <1>1 DEF vars, rpcVars, chanVars, peerVars, handlerVars
  <2>3. OkStream'
    BY <2>2 DEF SentInv, OkStream, Streaming
  <2> QED
    BY <2>1, <2>2, <2>3, HandlersKept DEF SentInv, StreamInv, Shape, OneHandler
<1>2. ASSUME NEW h \in Slots, HandlerStep(h) PROVE SentInv'
  BY <1>2, StartSent, ExecSent, MuteSent DEF HandlerStep
<1> QED
  BY <1>1, <1>2, TakeSent, PeerSent, MainSent DEF Next

\* Where the invariant holds, an OK is the truth.
LEMMA SentInvOk == SentInv => OkMeansAllSent
<1> SUFFICES ASSUME SentInv, result = "ok", NEW h \in Slots,
                    pc[h] # "idle", Answers(h)
             PROVE  pc[h] = "done" /\ sent[h] = Planned(h)
  BY DEF OkMeansAllSent
<1>1. CASE ~Streaming
  BY <1>1 DEF SentInv, OkPlain, AllSent
<1>2. CASE Streaming
  <2>1. waiter = "closed"
    BY <1>2 DEF SentInv, OkStream
  <2>2. h \notin Holders /\ held \notin Slots
    BY <2>1 DEF SentInv, StreamInv, Waited, SenderHolds, Holding
  <2>3. pc[h] \in HandlerStates /\ sent[h] \in Nat
    BY DEF SentInv, StreamInv, TypeOK
  <2>4. Progress(h) /\ Given(h) = sent[h]
    BY <2>2, <2>3 DEF SentInv, Ledger, Given
  <2>5. pc[h] = "done"
    BY <2>2, <2>3, <2>4 DEF Holders, HandlerStates, Progress
  <2> QED
    BY <1>2, <2>4, <2>5 DEF Progress, Refused, Streaming
<1> QED
  BY <1>1, <1>2

(***************************************************************************)
(* A method that returns nil (grpc.go:169-291) has had every response of   *)
(* every request accepted by Send, for any requests and any number of      *)
(* handlers.                                                               *)
(***************************************************************************)
THEOREM AllResponsesSent == Spec => []OkMeansAllSent
  BY InitSent, NextSent, SentInvOk, PTL DEF Spec
=============================================================================
