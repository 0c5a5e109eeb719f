----------------------------- MODULE GrpcStream -----------------------------
(***************************************************************************)
(* One RPC of the gRPC server (grpc.go): the goroutine that runs Unary,    *)
(* ClientStream, ServerStream or BidiStream (here "main"), the handler     *)
(* goroutine of every request, and the sender, receiver and waiter         *)
(* goroutines of the streaming methods.                                    *)
(*                                                                         *)
(* sendChan and recvChan are unbuffered, so a send and its receive are one *)
(* step of both goroutines.  errChan holds one error, except in BidiStream *)
(* where it is unbuffered too.                                             *)
(***************************************************************************)
EXTENDS Commands, FiniteSets

CONSTANTS
    Modes,      \* the methods that may be called
    Requests,   \* the validated commands a client may send
    Slots,      \* one per request of an RPC that is handed to a handler
    NoSlot      \* no request

AllModes == {"Unary", "ClientStream", "ServerStream", "BidiStream"}

ASSUME ModesAssumption == Modes \subseteq AllModes
ASSUME RequestsAssumption == Requests \subseteq CommandsType
ASSUME SlotsAssumption == IsFiniteSet(Slots) /\ NoSlot \notin Slots

VARIABLES
    mode,       \* the method called
    main,       \* where the goroutine of the method is
    result,     \* what the method returned
    latest,     \* the request ClientStream or receiver read last
    wg,         \* WaitGroup.cnt
    waiter,     \* the goroutine that waits for wg, and waitDone
    errBuf,     \* the error held by a buffered errChan
    sendClosed, \* close(sendChan) was called
    rcv,        \* the receiver goroutine
    snd,        \* the sender goroutine
    held,       \* whose response sender is sending
    conn,       \* the stream's transport
    pc,         \* each handler goroutine
    cmds,       \* its inputCmds
    repeat,     \* the number drawn for repeat
    iter,       \* the loop variable i
    sent        \* how many of its responses Send accepted

rpcVars == <<mode, main, result, latest>>
chanVars == <<wg, waiter, errBuf, sendClosed>>
peerVars == <<rcv, snd, held, conn>>
handlerVars == <<pc, cmds, repeat, iter, sent>>
vars == <<rpcVars, chanVars, peerVars, handlerVars>>

Streaming == mode \in {"ServerStream", "BidiStream"}

MainStates == {"recv", "reply", "select", "wait", "check", "drain", "returned"}
Results == {"none", "ok", "code", "fail"}
WaiterStates == {"off", "waiting", "closed"}
ReceiverStates == {"off", "recv", "deliver", "err", "eof", "done"}
SenderStates == {"off", "recv", "send", "err", "failed", "fin", "done"}
HandlerStates ==
    {"idle", "start", "noop", "exec", "sendLoop", "errLoop", "release",
     "sendFinal", "releaseFinal", "errFinal", "done"}

\* Variables have values of these types.
TypeOK ==
    /\ mode \in AllModes
    /\ main \in MainStates
    /\ result \in Results
    /\ latest \in CommandsType
    /\ wg \in Nat
    /\ waiter \in WaiterStates
    /\ errBuf \in Results
    /\ sendClosed \in BOOLEAN
    /\ rcv \in ReceiverStates
    /\ snd \in SenderStates
    /\ held \in Slots \union {NoSlot}
    /\ conn \in {"up", "closed", "down"}
    /\ pc \in [Slots -> HandlerStates]
    /\ cmds \in [Slots -> CommandsType]
    /\ repeat \in [Slots -> Nat]
    /\ iter \in [Slots -> Nat]
    /\ sent \in [Slots -> Nat]

-----------------------------------------------------------------------------
(***************************************************************************)
(* Building blocks                                                         *)
(***************************************************************************)

\* WaitGroup.done: nothing happens at zero.
Decrement(n) == IF n > 0 THEN n - 1 ELSE n

\* Mutated form of PutErr: errChan is unbuffered in every method.
PutErrUnbuffered(err) ==
    /\ main \in {"reply", "select", "wait", "check", "drain"}
    /\ main' = "returned"
    /\ result' = err
    /\ UNCHANGED errBuf

(***************************************************************************)
(* errChan <- err.  Buffered, it waits for room; unbuffered (BidiStream),  *)
(* it waits until main is in a select that reads errChan, and main returns.*)
(***************************************************************************)
PutErr(err) ==
    \/ /\ mode # "BidiStream"
       /\ errBuf = "none"
       /\ errBuf' = err
       /\ UNCHANGED <<main, result>>
    \/ /\ mode = "BidiStream"
       /\ main \in {"select", "wait", "check"}
       /\ main' = "returned"
       /\ result' = err
       /\ UNCHANGED errBuf

\* The transport lost its connection or the method has returned: the
\* context of the stream is done and Send and Recv fail.
StreamDone == conn = "down" \/ main = "returned"

\* go s.handler(mode, ctx, req, ...) for the request r.
Spawn(h, r) ==
    /\ pc[h] = "idle"
    /\ pc' = [pc EXCEPT ![h] = "start"]
    /\ cmds' = [cmds EXCEPT ![h] = r]
    /\ UNCHANGED <<repeat, iter, sent>>

-----------------------------------------------------------------------------
(***************************************************************************)
(* The call.  Unary and ServerStream have their request when they start,   *)
(* the first slot's; ClientStream adds 1 to wg before every Recv.          *)
(***************************************************************************)
Init ==
    /\ mode \in Modes
    /\ main = CASE mode = "Unary" -> "reply"
                [] mode = "ClientStream" -> "recv"
                [] mode = "ServerStream" -> "wait"
                [] mode = "BidiStream" -> "select"
    /\ result = "none"
    /\ latest = NoCommands
    /\ wg = IF mode = "BidiStream" THEN 0 ELSE 1
    /\ waiter = IF mode = "ServerStream" THEN "waiting" ELSE "off"
    /\ errBuf = "none"
    /\ sendClosed = FALSE
    /\ rcv = IF mode = "BidiStream" THEN "recv" ELSE "off"
    /\ snd = IF Streaming THEN "recv" ELSE "off"
    /\ held = NoSlot
    /\ conn = "up"
    /\ IF mode \in {"Unary", "ServerStream"}
       THEN \E h \in Slots, r \in Requests :
                /\ pc = [s \in Slots |-> IF s = h THEN "start" ELSE "idle"]
                /\ cmds = [s \in Slots |-> IF s = h THEN r ELSE NoCommands]
       ELSE /\ pc = [s \in Slots |-> "idle"]
            /\ cmds = [s \in Slots |-> NoCommands]
    /\ repeat = [s \in Slots |-> 0]
    /\ iter = [s \in Slots |-> 0]
    /\ sent = [s \in Slots |-> 0]

(***************************************************************************)
(* The handler goroutine                                                   *)
(***************************************************************************)

\* Validation, evaluation and the branches before the first execGrpcAction.
HandlerStart(h) ==
    LET c == validateCommandsForGrpc(mode, cmds[h]) IN
    /\ pc[h] = "start"
    /\ cmds' = [cmds EXCEPT ![h] = c]
    /\ iter' = [iter EXCEPT ![h] = 1]
    /\ \E n \in IF "repeat" \in c.actions THEN getActionValue(c.repeat) ELSE {1} :
           repeat' = [repeat EXCEPT ![h] = n]
    /\ pc' = [pc EXCEPT ![h] =
                 IF ~needsAction(c) THEN "sendFinal"
                 ELSE IF "noop" \notin c.actions THEN "exec"
                 ELSE IF Streaming THEN "release" ELSE "noop"]
    /\ UNCHANGED <<rpcVars, chanVars, peerVars, sent>>

\* noop of Unary and ClientStream: errChan <- nil.
HandlerNoop(h) ==
    /\ pc[h] = "noop"
    /\ PutErr("ok")
    /\ pc' = [pc EXCEPT ![h] = "release"]
    /\ UNCHANGED <<mode, latest, wg, waiter, sendClosed, peerVars,
                   cmds, repeat, iter, sent>>

\* execGrpcAction returns an error: a code other than 0 (OK).
ExecFails(h) == "code" \in cmds[h].actions /\ cmds[h].code # 0

\* execGrpcAction reaches disconnect: the code branch returns before it.
Disconnects(h) ==
    "disconnect" \in cmds[h].actions /\ "code" \notin cmds[h].actions

\* The turn is one of the loop's, not the action after the loop.
InLoop(h) == iter[h] < repeat[h]

\* Mutated form of HandlerExec: the loop sends without wg.add(1).
HandlerExecNoAdd(h) ==
    /\ pc[h] = "exec"
    /\ pc' = [pc EXCEPT ![h] =
                 IF InLoop(h)
                 THEN IF ExecFails(h) THEN "errLoop" ELSE "sendLoop"
                 ELSE IF ExecFails(h) THEN "releaseFinal" ELSE "sendFinal"]
    /\ conn' = IF Disconnects(h) /\ conn = "up" THEN "closed" ELSE conn
    /\ UNCHANGED <<rpcVars, chanVars, rcv, snd, held, cmds, repeat, iter, sent>>

\* execGrpcAction, then wg.add(1) if the turn is one of the loop's.
HandlerExec(h) ==
    /\ pc[h] = "exec"
    /\ pc' = [pc EXCEPT ![h] =
                 IF InLoop(h)
                 THEN IF ExecFails(h) THEN "errLoop" ELSE "sendLoop"
                 ELSE IF ExecFails(h) THEN "releaseFinal" ELSE "sendFinal"]
    /\ wg' = IF InLoop(h) /\ ~ExecFails(h) THEN wg + 1 ELSE wg
    /\ conn' = IF Disconnects(h) /\ conn = "up" THEN "closed" ELSE conn
    /\ UNCHANGED <<rpcVars, waiter, errBuf, sendClosed, rcv, snd, held,
                   cmds, repeat, iter, sent>>

\* The error of a loop turn: errChan <- err, then wg.done.
HandlerErrLoop(h) ==
    /\ pc[h] = "errLoop"
    /\ PutErr("code")
    /\ pc' = [pc EXCEPT ![h] = "release"]
    /\ UNCHANGED <<mode, latest, wg, waiter, sendClosed, peerVars,
                   cmds, repeat, iter, sent>>

\* Mutated form of HandlerRelease: wg.done is forgotten.
HandlerReleaseNever(h) ==
    /\ pc[h] = "release"
    /\ pc' = [pc EXCEPT ![h] = "done"]
    /\ UNCHANGED <<rpcVars, chanVars, peerVars, cmds, repeat, iter, sent>>

\* The wg.done with which noop and a loop turn's error end.
HandlerRelease(h) ==
    /\ pc[h] = "release"
    /\ wg' = Decrement(wg)
    /\ pc' = [pc EXCEPT ![h] = "done"]
    /\ UNCHANGED <<rpcVars, waiter, errBuf, sendClosed, peerVars,
                   cmds, repeat, iter, sent>>

\* Mutated form of HandlerReleaseFinal: the counter is taken down twice.
HandlerReleaseFinalTwice(h) ==
    /\ pc[h] = "releaseFinal"
    /\ wg' = wg - 2
    /\ pc' = [pc EXCEPT ![h] = "errFinal"]
    /\ UNCHANGED <<rpcVars, waiter, errBuf, sendClosed, peerVars,
                   cmds, repeat, iter, sent>>

\* The error of the last turn: wg.done comes first ...
HandlerReleaseFinal(h) ==
    /\ pc[h] = "releaseFinal"
    /\ wg' = Decrement(wg)
    /\ pc' = [pc EXCEPT ![h] = "errFinal"]
    /\ UNCHANGED <<rpcVars, waiter, errBuf, sendClosed, peerVars,
                   cmds, repeat, iter, sent>>

\* ... and then errChan <- err.
HandlerErrFinal(h) ==
    /\ pc[h] = "errFinal"
    /\ PutErr("code")
    /\ pc' = [pc EXCEPT ![h] = "done"]
    /\ UNCHANGED <<mode, latest, wg, waiter, sendClosed, peerVars,
                   cmds, repeat, iter, sent>>

\* What a handler does once its response is taken from sendChan.
AfterSend(h) ==
    /\ pc[h] \in {"sendLoop", "sendFinal"}
    /\ pc' = [pc EXCEPT ![h] = IF pc[h] = "sendLoop" THEN "exec" ELSE "done"]
    /\ iter' = [iter EXCEPT ![h] = IF pc[h] = "sendLoop" THEN @ + 1 ELSE @]
    /\ UNCHANGED <<cmds, repeat>>

(***************************************************************************)
(* The sender goroutine of ServerStream and BidiStream                     *)
(***************************************************************************)

\* A handler's sendChan <- resp meets "range sendChan".
SenderTake(h) ==
    /\ snd = "recv"
    /\ ~sendClosed
    /\ AfterSend(h)
    /\ snd' = "send"
    /\ held' = h
    /\ UNCHANGED <<rpcVars, chanVars, rcv, conn, sent>>

\* Send accepts the response; wg.done.
SenderOk ==
    /\ snd = "send"
    /\ ~StreamDone
    /\ snd' = "recv"
    /\ held' = NoSlot
    /\ sent' = [sent EXCEPT ![held] = @ + 1]
    /\ wg' = Decrement(wg)
    /\ UNCHANGED <<rpcVars, waiter, errBuf, sendClosed, rcv, conn,
                   pc, cmds, repeat, iter>>

\* Mutated form of SenderFails: wg.done is called in the error path too.
SenderFailsDone ==
    /\ snd = "send"
    /\ StreamDone
    /\ snd' = "err"
    /\ wg' = Decrement(wg)
    /\ UNCHANGED <<rpcVars, waiter, errBuf, sendClosed, rcv, held, conn,
                   handlerVars>>

\* Mutated form of SenderFails: the error of Send is ignored.
SenderFailsIgnored ==
    /\ snd = "send"
    /\ StreamDone
    /\ snd' = "recv"
    /\ held' = NoSlot
    /\ wg' = Decrement(wg)
    /\ UNCHANGED <<rpcVars, waiter, errBuf, sendClosed, rcv, conn, handlerVars>>

\* Send fails: wg.done is not called.
SenderFails ==
    /\ snd = "send"
    /\ StreamDone
    /\ snd' = "err"
    /\ UNCHANGED <<rpcVars, chanVars, rcv, held, conn, handlerVars>>

\* errChan <- err, then return.
SenderErr ==
    /\ snd = "err"
    /\ PutErr("fail")
    /\ snd' = "failed"
    /\ UNCHANGED <<mode, latest, wg, waiter, sendClosed, rcv, held, conn,
                   handlerVars>>

\* sendChan was closed: the range ends.
SenderClosed ==
    /\ snd = "recv"
    /\ sendClosed
    /\ snd' = "fin"
    /\ UNCHANGED <<rpcVars, chanVars, rcv, held, conn, handlerVars>>

\* errChan <- nil.
SenderFin ==
    /\ snd = "fin"
    /\ PutErr("ok")
    /\ snd' = "done"
    /\ UNCHANGED <<mode, latest, wg, waiter, sendClosed, rcv, held, conn,
                   handlerVars>>

(***************************************************************************)
(* The receiver goroutine of BidiStream                                    *)
(***************************************************************************)

\* Recv returns a request, as long as there is a slot for it.
ReceiverRecv(r) ==
    /\ rcv = "recv"
    /\ \E h \in Slots : pc[h] = "idle"
    /\ rcv' = "deliver"
    /\ latest' = r
    /\ UNCHANGED <<mode, main, result, chanVars, snd, held, conn, handlerVars>>

\* Recv returns io.EOF: close(recvChan).
ReceiverEOF ==
    /\ rcv = "recv"
    /\ rcv' = "eof"
    /\ UNCHANGED <<rpcVars, chanVars, snd, held, conn, handlerVars>>

\* Recv fails.
ReceiverFails ==
    /\ rcv = "recv"
    /\ StreamDone
    /\ rcv' = "err"
    /\ UNCHANGED <<rpcVars, chanVars, snd, held, conn, handlerVars>>

\* errChan <- err.
ReceiverErr ==
    /\ rcv = "err"
    /\ PutErr("fail")
    /\ rcv' = "done"
    /\ UNCHANGED <<mode, latest, wg, waiter, sendClosed, snd, held, conn,
                   handlerVars>>

(***************************************************************************)
(* The goroutine of the method                                             *)
(***************************************************************************)

\* Mutated form of BidiDeliver: the handler is started without wg.add(1).
BidiDeliverNoAdd(h) ==
    /\ main = "select"
    /\ rcv = "deliver"
    /\ rcv' = "recv"
    /\ Spawn(h, latest)
    /\ UNCHANGED <<rpcVars, chanVars, snd, held, conn>>

\* recvChan <- msg meets BidiStream's select: wg.add(1); go s.handler(...).
BidiDeliver(h) ==
    /\ main = "select"
    /\ rcv = "deliver"
    /\ rcv' = "recv"
    /\ wg' = wg + 1
    /\ Spawn(h, latest)
    /\ UNCHANGED <<rpcVars, waiter, errBuf, sendClosed, snd, held, conn>>

\* The select sees recvChan closed and starts the waiter.
BidiClosed ==
    /\ main = "select"
    /\ rcv = "eof"
    /\ main' = "wait"
    /\ waiter' = "waiting"
    /\ UNCHANGED <<mode, result, latest, wg, errBuf, sendClosed, peerVars,
                   handlerVars>>

\* wg.wait() returns; close(waitDone).
WaiterDone ==
    /\ waiter = "waiting"
    /\ wg = 0
    /\ waiter' = "closed"
    /\ UNCHANGED <<rpcVars, wg, errBuf, sendClosed, peerVars, handlerVars>>

\* <-waitDone.  ServerStream closes sendChan and waits for errChan;
\* BidiStream first looks at errChan once more.
MainWaited ==
    /\ main = "wait"
    /\ waiter = "closed"
    /\ main' = IF mode = "ServerStream" THEN "drain" ELSE "check"
    /\ sendClosed' = (mode = "ServerStream")
    /\ UNCHANGED <<mode, result, latest, wg, waiter, errBuf, peerVars,
                   handlerVars>>

\* BidiStream's default branch: close(sendChan); return nil.  Whether a
\* goroutine has already arrived at errChan cannot be told from its state.
BidiDefault ==
    /\ main = "check"
    /\ main' = "returned"
    /\ result' = "ok"
    /\ sendClosed' = TRUE
    /\ UNCHANGED <<mode, latest, wg, waiter, errBuf, peerVars, handlerVars>>

\* err := <-errChan; return err, of the methods with a buffered errChan.
MainTakeErr ==
    /\ main \in {"reply", "wait", "drain"}
    /\ errBuf # "none"
    /\ main' = "returned"
    /\ result' = errBuf
    /\ errBuf' = "none"
    /\ UNCHANGED <<mode, latest, wg, waiter, sendClosed, peerVars, handlerVars>>

\* resp := <-sendChan in Unary.
UnaryReply(h) ==
    /\ mode = "Unary"
    /\ main = "reply"
    /\ AfterSend(h)
    /\ main' = "returned"
    /\ result' = "ok"
    /\ sent' = [sent EXCEPT ![h] = @ + 1]
    /\ UNCHANGED <<mode, latest, chanVars, peerVars>>

\* ClientStream's Recv returns a request; wg.add(1) before the next Recv.
ClientRecv(r) ==
    /\ main = "recv"
    /\ wg <= Cardinality(Slots)
    /\ latest' = r
    /\ wg' = wg + 1
    /\ UNCHANGED <<mode, main, result, waiter, errBuf, sendClosed, peerVars,
                   handlerVars>>

\* Recv returns io.EOF: one handler for the latest request.
ClientEOF(h) ==
    /\ main = "recv"
    /\ main' = "reply"
    /\ Spawn(h, latest)
    /\ UNCHANGED <<mode, result, latest, chanVars, peerVars>>

\* Recv fails: errChan <- err.
ClientRecvFails ==
    /\ main = "recv"
    /\ StreamDone
    /\ main' = "reply"
    /\ errBuf' = "fail"
    /\ UNCHANGED <<mode, result, latest, wg, waiter, sendClosed, peerVars,
                   handlerVars>>

\* resp := <-sendChan in ClientStream: wg.done; return SendAndClose(resp).
ClientReply(h) ==
    /\ mode = "ClientStream"
    /\ main = "reply"
    /\ AfterSend(h)
    /\ wg' = Decrement(wg)
    /\ main' = "returned"
    /\ IF StreamDone
       THEN result' = "fail" /\ UNCHANGED sent
       ELSE result' = "ok" /\ sent' = [sent EXCEPT ![h] = @ + 1]
    /\ UNCHANGED <<mode, latest, waiter, errBuf, sendClosed, peerVars>>

(***************************************************************************)
(* The transport: the connection is lost, the client cancels, or the       *)
(* transport notices that disconnect closed its connection.                *)
(***************************************************************************)
ConnDown ==
    /\ conn # "down"
    /\ main # "returned"
    /\ conn' = "down"
    /\ UNCHANGED <<rpcVars, chanVars, rcv, snd, held, handlerVars>>

-----------------------------------------------------------------------------
HandlerStep(h) ==
    \/ HandlerStart(h)
    \/ HandlerNoop(h)
    \/ HandlerExec(h)
    \/ HandlerErrLoop(h)
    \/ HandlerRelease(h)
    \/ HandlerReleaseFinal(h)
    \/ HandlerErrFinal(h)

SenderStep ==
    \/ SenderOk
    \/ SenderFails
    \/ SenderErr
    \/ SenderClosed
    \/ SenderFin

ReceiverStep ==
    \/ \E r \in Requests : ReceiverRecv(r)
    \/ ReceiverEOF
    \/ ReceiverFails
    \/ ReceiverErr

MainStep ==
    \/ \E h \in Slots : BidiDeliver(h)
    \/ BidiClosed
    \/ MainWaited
    \/ BidiDefault
    \/ MainTakeErr
    \/ \E h \in Slots : UnaryReply(h)
    \/ \E r \in Requests : ClientRecv(r)
    \/ \E h \in Slots : ClientEOF(h)
    \/ ClientRecvFails
    \/ \E h \in Slots : ClientReply(h)

Next ==
    \/ \E h \in Slots : HandlerStep(h)
    \/ \E h \in Slots : SenderTake(h)
    \/ SenderStep
    \/ ReceiverStep
    \/ MainStep
    \/ WaiterDone
    \/ ConnDown

(***************************************************************************)
(* Goroutines are scheduled fairly, a select that stays ready is taken,    *)
(* and Send and Recv return once the stream is done.  SenderOk is fair     *)
(* because the client reads its stream; nothing makes the client send, so  *)
(* a Recv with a live stream may wait for ever.                            *)
(***************************************************************************)
Fairness ==
    /\ \A h \in Slots :
           /\ WF_vars(HandlerStep(h))
           /\ WF_vars(SenderTake(h))
           /\ WF_vars(BidiDeliver(h))
           /\ WF_vars(UnaryReply(h))
           /\ WF_vars(ClientReply(h))
    /\ WF_vars(SenderStep)
    /\ WF_vars(ReceiverFails)
    /\ WF_vars(ReceiverErr)
    /\ WF_vars(BidiClosed)
    /\ WF_vars(WaiterDone)
    /\ WF_vars(MainWaited)
    /\ WF_vars(BidiDefault)
    /\ WF_vars(MainTakeErr)
    /\ WF_vars(ClientRecvFails)

Spec == Init /\ [][Next]_vars

FairSpec == Spec /\ Fairness
-----------------------------------------------------------------------------
(***************************************************************************)
(* Properties                                                              *)
(***************************************************************************)

\* The handlers that hold the 1 that was added to wg for their request.
Holders ==
    {h \in Slots : pc[h] \in {"start", "noop", "exec", "sendLoop", "errLoop",
                              "release", "sendFinal", "releaseFinal"}}

\* The handlers that added 1 more for the loop's response they are sending.
Adders == {h \in Slots : pc[h] = "sendLoop"}

\* The 1 that comes with the response sender has taken: a Send that fails
\* keeps it for ever.
SenderHolds == IF snd \in {"send", "err", "failed"} THEN 1 ELSE 0

(***************************************************************************)
(* "Must NOT close(sendChan) ... because handler goroutines may still be   *)
(* alive and would panic on send to closed channel" (grpc.go:232, 268):    *)
(* once sendChan is closed, no handler is in a send on it nor can it come  *)
(* to one.                                                                 *)
(***************************************************************************)
NoSendOnClosed == sendClosed => Holders = {}

(***************************************************************************)
(* WaitGroup.cnt counts exactly the answers still owed by the streaming    *)
(* methods, over the add of every handler and loop turn and the done of    *)
(* every path; the guard of WaitGroup.done is never what keeps it from     *)
(* going below zero.                                                       *)
(***************************************************************************)
WaitGroupExact ==
    Streaming => wg = Cardinality(Holders) + Cardinality(Adders) + SenderHolds

(***************************************************************************)
(* sync.WaitGroup's rule for Add: once the waiter runs, wg.add(1) is never *)
(* called at zero, where wg.wait may already have returned.                *)
(***************************************************************************)
WaitGroupReuse == [][waiter # "off" /\ wg' > wg => wg > 0]_vars

\* The handler answers its request at all.
Answers(h) ==
    ~needsAction(cmds[h]) \/ ("noop" \notin cmds[h].actions /\ ~ExecFails(h))

\* How many responses the handler's loop and last turn produce.
Planned(h) ==
    IF needsAction(cmds[h]) /\ repeat[h] > 1 THEN repeat[h] ELSE 1

(***************************************************************************)
(* A method that returns nil has had every response of every request it    *)
(* took accepted by Send: none is still in a handler, in a channel or in   *)
(* sender, and none was dropped.                                           *)
(***************************************************************************)
OkMeansAllSent ==
    result = "ok" =>
        \A h \in Slots :
            pc[h] # "idle" /\ Answers(h) => pc[h] = "done" /\ sent[h] = Planned(h)

(***************************************************************************)
(* "code=...: Responds with the specified status code" (README.md): an RPC *)
(* with a request whose code is not 0 does not end with OK.                *)
(***************************************************************************)
CodeDelivered ==
    result = "ok" =>
        \A h \in Slots :
            pc[h] # "idle" /\ needsAction(cmds[h]) /\ "noop" \notin cmds[h].actions
                => ~ExecFails(h)

(***************************************************************************)
(* The method returns: Unary and ServerStream always, ClientStream once it *)
(* waits for its answer, BidiStream once the client has closed its side,   *)
(* and each of them once the stream is lost, whatever its goroutines are   *)
(* blocked on.                                                             *)
(***************************************************************************)
Returns ==
    (mode \in {"Unary", "ServerStream"} \/ main = "reply" \/ rcv = "eof"
        \/ conn = "down") ~> (main = "returned")

(***************************************************************************)
(* A ServerStream that returns nil leaves no goroutine behind: sender,     *)
(* waiter and handler all end.                                             *)
(***************************************************************************)
ServerStreamEnds ==
    (mode = "ServerStream" /\ result = "ok")
        ~> (snd = "done" /\ \A h \in Slots : pc[h] \in {"idle", "done"})
=============================================================================
