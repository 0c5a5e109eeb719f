# gelbo: a verification project

gelbo is a test server to put behind a load balancer. Over HTTP/1, h2, h2c,
gRPC and WebSocket it answers each request the way the request asks: after a
sleep, with a size, a status, a number of responses, a load on CPU or memory, a
disconnect. This directory holds TLA+ models of it, the TLC runs that check
them on small instances, and TLAPS proofs for any size.

    tlc -workers 2 -config GrpcStream.cfg MCGrpcStream      # one run
    tlapm GrpcStreamProofs.tla                              # one proof module

PROJECT.json lists the runs, the source lines of every definition, what could
go wrong and which property would show it (hazards), and the mutants that show
that each property can fail.

## The system and its parts

| Part | State | Operations | Meets |
|---|---|---|---|
| Commands (`types.go`, `grpc.go`, `lambda.go`) | none | `validateCommands`, `validateCommandsForGrpc`, `evaluate`, `needsAction`, `setIPAddress` | every handler |
| HTTP and Lambda requests (`main.go`, `response.go`, `nodeinfo.go`, `logger.go`, `lambda.go`, `files.go`) | per request an `HttpLogger`; shared: `store.node`, `remoteNodes`, `cw.active`, `headerMap` | `handlerWrapper`, `defaultHandler`, `execAction`, `writeResponse`, `writeChunkedResponse`, `monitorHandler`, exec, env, files | load, `disconnect`, graceful stop |
| gRPC interceptors and unary RPCs (`grpc.go`) | `headerMDMap`, `trailerMDMap` | both interceptors, `UnregisteredMethodHandler`, `execGrpcAction` | as above |
| gRPC streams (`grpc.go`) | per RPC: `sendChan`, `recvChan`, `errChan`, a `WaitGroup`, the stream | `Unary`, `ClientStream`, `ServerStream`, `BidiStream`, a `handler` goroutine per request, `sender`, `receiver`, a waiter | commands, `setTarget`, `disconnect` |
| Graceful stop (`main.go`) | the four servers, a 30 s context | `stopHandler`, its goroutine and one per server | every request |
| CPU and memory load (`cpu.go`, `memory.go`, `types.go`) | `ResourceUsage` (lock, channel, target, current); `started`, `cpuUsage`; `memoryUsage`, `allocData` | `setTarget` by requests, `setCurrent` by parsers, ticks, targets received | HTTP and gRPC handlers |
| WebSocket chat (`websocket.go`) | `hub.clients`, per client a buffered `send` and `closed` | register, unregister, broadcast, `readPump`, `writePump`, eviction | its connections are hijacked from the HTTP server |
| Connections (`main.go`, `types.go`, `h2c.go`, `grpc.go`) | `cw.total`, `cw.active`, `csMaps`, remote nodes | `OnStateChange`, `Accept`, `Close`, h2c's `ServeHTTP`, `disconnect` | every protocol |
| Start-up, metadata (`init.go`) | configuration | once, before the servers start | |

What is hard: goroutines of one RPC that wait on one another's unbuffered
channels while its connection may go; a channel that must not be closed while
anybody may send on it; a lock held across a channel send; counters that several
goroutines take down on the way out, by an answer, an error or a panic; maps
and header lists that all requests share; buffers that fill up; connections that
change hands (hijack) or share an address; servers that stop while requests
arrive. What makes each part correct is the list of properties below.

## Modules

| Module | Models |
|---|---|
| `Commands` | what a request asks for, after validation: `needsAction`, the draws, `validateCommandsForGrpc` |
| `Requests` | a request's parameters and addresses, the validators of HTTP, gRPC and Lambda, the overflow in `evaluate`, the bytes that `writeResponse` and `writeChunkedResponse` write, the header lists |
| `Server`, `MCServer` | HTTP, unary gRPC and Lambda requests from arrival to log line, what they share, and `stopHandler` |
| `GrpcStream`, `MCGrpcStream` | one RPC of any of the four methods, from its call to its return and on, until its goroutines have ended |
| `ResourceUsage` | the part of `CpuControl` and `MemoryControl` that is the same: `setTarget` and measurements |
| `CpuControl` | `cpuStress` and its controller |
| `MemoryControl` | `memoryAllocate` |
| `TargetRegister` | abstract: what `setTarget` promises; `CpuControl` and `MemoryControl` implement it |
| `WsHub` | the hub, its clients and their pumps |
| `Chat` | abstract: what the chat promises its clients; `WsHub` implements it |
| `ConnWatch` | connections of every protocol, their count, `csMaps` and `disconnect` |
| `GrpcStreamProofs`, `ResourceUsageProofs`, `CpuControlProofs`, `MemoryControlProofs`, `WsHubProofs`, `ConnWatchProofs`, `ServerProofs`, `ServerSharedProofs` | theorems about the module of that name; `ServerSharedProofs` about the statistics and the header maps of `Server` |

`GrpcStream` and `Requests` build on `Commands`, `Server` on `Requests`.
`Server` composes requests of all protocols over the state they share, and the
other modules are what lies behind one of its steps (a stream, `setTarget`, the
chat, `disconnect`).

Conventions. A send on an unbuffered channel and its receive are one step of
both goroutines. A critical section is one step; what a goroutine does between
two of them is a step of its own. Definitions marked "Mutated form of" are not
part of the models: each changes one definition the way a bug would.

**Requests, Server.** A value of a parameter is a record that says whether it
matches its regular expression and what it then means; repeated values are a
sequence, which the code joins with " or " before it validates them. `pc[r]` is
the request's handler: `render` (addresses, validation, draw), `act` (one step
per action on shared state; `todo[r]` is the set of those left, taken in the order
of `execAction`, `ActionOrder`), `write`, `reflect`
and `remote` (the two halves of the statistics), `logger`, `log`; `page` for
exec, env, files and unregistered methods, `monitor` and `marshal` for
/monitor/, `return` for a graceful stop whose goroutine has started. A
document is a length. `before` is a history variable: what was done when a
request arrived, by which `HeaderLasts` tells earlier from concurrent
requests. `call[r][s]` is the goroutine of stop request `r` for server `s`;
`cut` are the requests in progress when they, or the process, were ended.
Shutdown, GracefulStop and Stop are modelled from how `stopHandler` uses them.
A read of a Go map beside a write (`MapWrite`) either ends the process or does
nothing.

**GrpcStream.** `main` is the method's goroutine: `recv` (ClientStream reads),
`reply` (a select on `sendChan` and `errChan`), `select`, `wait`, `check` and
`drain` are its selects in source order. `pc[h]` is a handler: `exec` is before
`execGrpcAction`, `sendLoop` and `sendFinal` are in `sendChan <- resp`, `errLoop`
and `errFinal` in `errChan <- err`, `release` and `releaseFinal` before the
`wg.done` of the two error paths, which come in opposite orders. `errBuf` is the
one place of a buffered `errChan`; BidiStream's is unbuffered, so `PutErr` there
is `main`'s return. After `wg.wait`, BidiStream polls `errChan`: whether a goroutine
already waits there cannot be told from its state, so both outcomes are
possible. `ConnDown` is the transport: it may lose the connection at any time,
and from then on Send and Recv fail.

**ResourceUsage, CpuControl, MemoryControl.** `setTarget` is four steps: check
under the read lock, take the write lock, send the value, store it and unlock.
A reader needs the write lock free. `cpuStress` is in its select, in
`getCurrent`, in `ratio <-` or in `quit <-`. The size of the load (interval,
`placeLoad`) is left out; memory is counted in units.

**TargetRegister.** The usage maintained, and each call of `setTarget` asked, set
or returned. Mapping: `maintained` is `memoryUsage`, or `cpuUsage` and, while
`cpuStress` waits in `quit <- true`, the new value that it has already turned to;
a call is set once its value was received (`Status`, from `pc`).

**WsHub.** `hub.todo` is what the broadcast loop still has to visit. Broadcasts
are numbered, replies to one client are 0. `crashed` is the end of the process: by a
panic (a send on a closed channel) or by the Go runtime, when `getRandomColor`
ranges over `hub.clients` as the hub writes it.

**Chat.** One order of all posts, and for each client an unbroken stretch of it
from where it joined. Mapping: the posts are the broadcasts taken by the hub,
a client has joined when its `wsHandler` is done, and was shown what `writePump`
wrote (`got`).

**ConnWatch.** `serve[c]` is the goroutine that serves a connection,
`step[r]` a request on it. HTTP/1 runs requests in the serving goroutine, the others beside
it. `csMap` holds connections; `get` and `getByRemoteAddr` are the entries under
their whole key and under the remote address. `counted[c]` is what a connection
contributes to `cw.total`, and to its remote node's count. Only whether
`curState` is StateClosed matters to the code (`marked`).

## Runs

| Run | States | Shows |
|---|---|---|
| `grpc_stream` | 150 294 | `NoSendOnClosed`: a closed `sendChan` has no handler left that could send. `WaitGroupExact`: the counter is what is owed, over all paths. `WaitGroupReuse`: no `add` at zero beside the waiter. `OkMeansAllSent`: a nil result means every response was accepted by Send. `Returns`: methods return, also when the stream is lost while all of their goroutines are blocked. `ServerStreamEnds`: a ServerStream that ends well leaves no goroutine. |
| `grpc_code` | finding | a request's status code can be lost: the RPC ends with OK |
| `server` | 103 390 | `ActiveExact`: active_conns is given back once, however a handler ends. `StatsExact`: the node's and the remote nodes' statistics count each answer once, and the bytes of the bodies where the code measures them. `BodyExact`: what is written is what Content-Length says and the statistics count. `AsAsked`: a request that nothing stands against gets what it asks for; what is malformed, doubled or under an unmet condition is not applied, and no target is set that nobody asked for. `HeaderLasts`: a header added is in the later answers of `defaultHandler`, or of unary RPCs that end with OK, until it is deleted, whatever its case. `LineOwn`: a line of the log, except over h2c, has its own request's fields, size and status. `InFlightWaited`, `StopsInTime`, `StopsPromptly`: a graceful stop waits for requests in progress (except over h2c), but no longer than its time and not for itself |
| `server_docs` | finding | a size beside a malformed status is not applied; received_bytes leaves out the body; sent_bytes counts a 204's size; a line of h2c's log is another request's |
| `cpu_control` | 4 644 | `ControllerPaired`, `TargetMaintained`, `StressResumes`: never a second controller, never one missing when `cpuStress` waits for it. `SetsTargets`: implements `TargetRegister` |
| `cpu_target` | finding | two concurrent `cpu=0` leave the load running, and a target and a tick deadlock each other |
| `memory_control` | 9 072 | `TargetMaintained`; `SetsTargets`: implements `TargetRegister`; `AllReleased`: with the target at 0 for good, all memory is released |
| `ws_hub` | 106 760 | `ClosedOnce`: eviction and unregister never both close a channel. `NothingMissed`: a client still served has every broadcast since it joined. `ShowsChat`: implements `Chat`. `Reached`: a broadcast is written to each client that stays. `LeaversLeave`, `LostLeave`: clients that leave, or are lost without a word, are got rid of, but for a `readPump` that waits on a full buffer nobody empties |
| `ws_echo` | finding | an echo to an evicted client panics |
| `ws_colors` | finding | two clients that connect at once get one colour |
| `conn_watch` | 460 947 | `CountedOnce`: HTTP/1, h2c and gRPC connections are counted once while they are open and served, and not at all once they are closed and done with, whatever `disconnect`, `Close` and the server do at the same time. `Findable`: a request finds its connection by its address, while no other one uses the address. `DisconnectEnds`: `disconnect` ends the connection and its entry, over HTTP/1, h2, h2c and gRPC, while no other connection uses the address and without `-proxy` |
| `conn_total` | finding | `disconnect` over h2 takes `total_conns` to -1, and an open WebSocket is not in it |

Deadlock is not an error in these runs: an RPC ends, a client leaves, the process
exits, and the deadlock of `setTarget` is a finding of its own.

**Runs with several findings.** `cpu_target`, `conn_total` and `server_docs` each
refute what the repository's README says about one subject in several places.
The property is the disjunction of the statements (`CpuAsDocumented`,
`TotalConns`, `AsDocumented`), so it is weaker than each of them, and the one
behaviour that violates it violates all: in `cpu_target` load is left running
with the target at 0, and later a third request never comes out of `setTarget`
(the load must run, or `cpuStress` does not read the usage); in `conn_total` one
connection has been taken out of the total twice while an open WebSocket is
not in it; in `server_docs` one request over h2c, with a body, a size and a
malformed status, meets another that is answered with 204. What the passing
properties leave open (`CountedOnce` the open WebSockets; `StatsExact` HTTP bodies
received and statuses without a body; `AsAsked` a well-formed parameter beside a
malformed one; `LineOwn` the lines of h2c) is what these runs are about.

**Bounds.** `server`: 25 kinds of request (each handler; each kind of parameter
valid, malformed and doubled, also a valid value beside a malformed one;
conditions that hold and that do not; sizes about the length of the document and
about a line of 100 bytes; a range whose difference overflows; headers on
requests that never come to their actions, for a panic, a `noop` or a page), every pair with one of the ten that touch what others
read, and triples where it takes three (a header added, deleted and looked for;
two stop requests and a third). `JsonLen` is 3 and `MaxInt` 1000: what matters
is which of two lengths is larger, and that the overflow happens. One HTTP and
one gRPC server stand for two of each: what a stop does to a server depends on
its kind, and with two servers one can be at its end while the other waits.
`grpc_stream`: two handlers at once, which is what interferes (one
sends while the other fails), and a set of requests with each branch of the
handler and `repeat` at 0, 2, a reversed range, and a range from 0, which is
refused. ClientStream reads at most three requests. `cpu_control` and `memory_control`: two
callers and three usages, so that a target can be set, changed and taken back,
by requests that pass the same check; `MaxUnits` caps allocation where it only
repeats. `ws_hub`: two clients, a buffer of two, one message read (each
client's departure is a broadcast too, so the buffer fills). `ws_echo` needs two
reads and a buffer of one. `conn_watch`: two connections and two
requests in progress, over all protocols and with equal or different addresses:
each race is between two parties about one entry.

**Fairness.** Goroutines are scheduled fairly, and the tickers tick: weak
fairness of each goroutine's steps. A lock that is free again and again is
obtained, a sender that waits is served by a receiver that comes back (Go's
mutexes and channels queue their waiters): strong fairness of `Check`,
`Lock` and `Receive` in `CpuControl`. `SenderOk` is fair because the client
reads its stream. Nothing makes a client send, close or stay, except that a
connection that is down is noticed by whoever reads it. Handlers return
(`ConnWatch`). In `Server` only `stopHandler` and the goroutines it starts are
fair: that the 30 s pass is a premise of `StopsInTime`, that other requests end
one of `StopsPromptly`, and neither is assumed of the other.

## Proofs

Every safety property that a passing run checks, invariant or refinement, is
also a theorem, for every value of the constants within the assumptions below.

For any set of requests and any finite number of handlers (`GrpcStreamProofs`):

* `TypeCorrect`, types; alone inductive.
* `CounterExact` (`WaitGroupExact`), `ClosedSafely` (`NoSendOnClosed`) and
  `NoLateAdd` (`WaitGroupReuse`), from the invariant `StreamInv`: types, the exact
  counter, `Shape` (which goroutines exist in which method, and where `main` can
  be when) and `Waited` (once the waiter is through, or `sendChan` is closed, the
  counter is 0). `NoSendOnClosed` is not inductive: that no handler is left
  follows from the counter being 0 only as long as the counter is exact, and
  that it stays 0 needs that nobody but a handler or BidiStream's select, which is over,
  adds to it. The counting lemmas (`CountIn`, `CountOut`) say what one handler's
  step does to the cardinality of `Holders` and `Adders`; `MoveKeeps`,
  `MoveIdle` and `MoveOut` apply them to `pc`.
* `AllResponsesSent` (`OkMeansAllSent`), from `SentInv`: `StreamInv`, and a
  `Ledger` that tells from where a handler is how many of its responses it has
  given away, whether Send has accepted them or `sender` still holds one. When OK
  is on its way (`OkPlain`, `OkStream`) the exact counter says that nobody owes
  an answer, and the ledger that all were sent.

For any set of callers and of usages (`CpuControlProofs`, `MemoryControlProofs`,
with the shared lemmas in `ResourceUsageProofs`):

* `TypeCorrect`, `Paired` (`ControllerPaired`) and `Maintained`
  (`TargetMaintained`), from `CpuInv`: types, `Holder` (the write lock belongs to
  the caller between Lock and Unlock), `ControllerPaired`, and `Agreement`
  (what `cpuStress` pursues is what Target is, or becomes when the lock is given
  back). `Agreement` is needed because the value reaches `cpuStress` before it
  reaches Target. `MemoryInv` is the same without a controller.
* `Implements` (`SetsTargets`), of both: a call is an Ask, the hand-over on
  `TargetChan` a Set, `Store` a Return, and so is a `Check` that finds no
  difference; for that one step the invariant is needed, since the value compared is
  Target and the value promised is the one maintained. All other steps stutter.
  `StatusMove` and `StatusStays` say what a caller's step is to the requests.

For any set of clients, any buffer and any number of messages (`WsHubProofs`):

* `TypeCorrect`, types and the capacity of the buffers; alone inductive.
* `NeverClosedTwice` (`ClosedOnce`), from `HubInv`: besides `ClosedOnce` itself, that
  only registered clients have pumps, and that the hub delivers to nobody who
  has left, because unregister is not taken before the loop over the clients has ended.
* `NeverMissed` (`NothingMissed`), from `ChatInv`: for each client that it starts
  with nothing (`Fresh`), that what was written is consecutive (`Shown`) and,
  while `writePump` goes on, will be with what the buffer has (`Pending`), that
  both are complete for a client not closed (`Complete`), and that a delivery is
  of a broadcast after the registration (`Later`). `KeepsInv` does all steps but
  three (a registration, a delivery, a write) for all clients at once.
* `Implements` (`ShowsChat`), from the same invariant: a registration is a Join, a
  broadcast a Post, and a `Write` a Show, for which `Pending` is needed because a
  client that is closed or evicted is still written what its buffer has, or a
  stutter if the buffer has only replies.
* `BroadcastsAppend`, `BroadcastsOfNone` and `BroadcastsType`: what
  `OnlyBroadcasts` computes. It is a recursive function, and its existence,
  uniqueness and type are shown by a least counterexample (`Least`, from the
  well-foundedness of the natural numbers), which needs no induction schema.

For any connections, requests and addresses (`ConnWatchProofs`), from `WatchInv`:

* `TypeCorrect`; `AlwaysFindable` (`Findable`): an open connection whose address
  nobody else uses is in `csMaps` (`Entered`).
* `AlwaysCountedOnce` (`CountedOnce`): in gRPC the `Once` says whether a
  connection still counts (`GrpcCount`). In HTTP/1 and h2c there is no such mark:
  it follows from where the goroutine that serves the connection is, from the
  entry, and from a `disconnect` that has uncounted the connection and not yet
  deleted the entry (`HttpCount`), and from HTTP/1 running one request at a time
  (`ReqInv`). That is what h2 lacks, and `conn_total` shows it. An open
  WebSocket is outside the statement.

For any requests, servers and order of arrivals (`ServerProofs`,
`ServerSharedProofs`):

* `TypeCorrect`; `ActiveAlwaysExact` (`ActiveExact`), from `ServerInv`: types, the
  counts, and for each request that nothing is known of it before it arrives
  (`Fresh`), that its client is a known node (`Taken`), that what is left to do
  comes from commands that passed validation (`Doing`) and that each handler has
  its own kind of request (`Serving`). `StepFrame` says that a step of a request
  leaves the others alone, `CountMoves` what it does to the counts.
* `BodyAlwaysExact` (`BodyExact`), `AlwaysAsAsked` (`AsAsked`), from `AnswerInv`
  and `TargetInv`: an answer given is not touched again, and a target other than
  0 was set by a request that was honoured. `WriteExact` and `FillExact` say that
  `writeResponse` and `writeChunkedResponse` write as many bytes as they are
  asked for, for every size; `HonouredNeeds`, what a request must be for the code
  to take its actions, and `HonouredAsks`, that it then asks for each of them
  in the sense of `AsAsked`.
* `LineAlwaysOwn` (`LineOwn`), from `LogInv`: a logger not of h2c is of its own
  request at every step and, once set, has the size and status of its reply;
  and from `BodyInv`, that a reply's body is as long as its size, where it may
  have one.
* `AlwaysInFlightWaited` (`InFlightWaited`), from `StopInv`: while no stop's time
  is over, nothing is cut off, a call that has returned has closed its server,
  and a closed server has nothing in progress except over h2c.
* `StatsAlwaysExact` (`StatsExact`), from `StatInv`: the sums over the requests
  noted so far, of the node and of each remote node, between whose two updates other
  requests may come. It sums what the code measures; `SentExact` and
  `ReceivedExact` turn that into the bytes of the bodies, under the conditions of
  `StatsExact`. `SumIsUnits` says what the sum of a function over a finite
  set is (a number of pairs), by a smallest counterexample among its subsets;
  `SumAdds` follows.
* `HeaderAlwaysLasts` (`HeaderLasts`), from `HeaderInv`, for each map and name: the
  map is as the request that altered it last, and came when all others that do were
  done, left it (`MapRight`), from the moment that request has no action on
  this name left (`Finished`); the copy in a reply is so too (`ReplyRight`); what
  precedes a request stays done (`Preceded`); and additions come before
  deletions (`Executing`, `DeletesLast`). The attempt to prove it showed that an
  earlier form was false: it took a request for one that alters a map if it was
  valid and asked for it. A request that panics in `evaluate`, one
  with `noop` and one for a page do not execute their actions, and `addtrailer` does nothing
  over HTTP. `Executes` says so now, and the run offers such requests.

Assumptions: the named ASSUMEs of the modules, which TLC evaluates in the runs:
finite sets, model values outside them, usages from 0 to 100, a buffer of at least
one message. Those about requests are what the code guarantees before
the modelled part: a value that matched the regular expression of a number is
one, and a parameter has at least one value (`OffersAssumption`); each listener
has its own server and the router of a server knows only handlers of its kind
(`ServersAssumption`).

Only model-checked: liveness (`Returns`, `ServerStreamEnds`, `StressResumes`,
`AllReleased`, `Reached`, `LeaversLeave`, `LostLeave`, `DisconnectEnds`,
`StopsInTime`, `StopsPromptly`), which is out of the prover's reach.

## Not modelled

Content: the text of messages, logs, JSON, headers; the regular expressions and
the blocks of addresses, of which a request's description says what they match;
the chat's connCount. Sequential input and output: the pages of exec, env and
files, metadata, parsing of /proc. Start-up, which is over before anything runs
concurrently. Generated code. The controller's interval and the busy loops of
`placeLoad`, a computation in floating point. The loggers of gRPC and WebSocket,
which write local values. The headers of streams, which need the order of a
stream's responses and its headers. Failing writes of HTTP responses, which the
code does not look at. The `-proxy` flag, with which `closeConnection` does not
know the type of its connection and closes nothing.

What the models show beside the findings, where no document states a promise or
only in passing:

* Statistics. /monitor/ counts itself among the active. gRPC requests are
  active_conns but not in request_count.
* Requests. A doubled parameter cancels all actions of its request. A range whose difference overflows panics: net/http recovers it without
  a line in the log; in a gRPC handler's goroutine, and in Lambda, it ends the
  process. A status below 200 is written and then 200 follows it. In Lambda a
  disconnect is an empty answer with 200.
* Ends of the process. `remoteNodes.m` and ELBs are read without their locks.
* Headers. Pages and the errors of RPCs carry no header map, although README.md:339
  speaks of all subsequent responses.
* Graceful stop. Requests over h2c, whose connections are hijacked, are cut off:
  Shutdown does not know them. README.md:436 speaks of in-flight requests without
  exception; `InFlightWaited` excepts them.
* Streams. A BidiStream that ends well leaves its sender blocked on
  `errChan <- nil` for ever.
* Chat. A `readPump` that answers into the full buffer of an ended `writePump`
  waits for ever, and its client stays in `hub.clients`.
* Connections. A gRPC connection's entry stays in `csMaps` after it is closed, and so
  does a WebSocket's; `disconnect` looks for
  its connection by the client's address alone, and with two connections from
  one address and port (the case that `connKey` was made for) can close and count
  the other.

## Plan

1. Prove step properties that the runs do not state yet, from the invariants
   above: a request's reply, a client's registration and a stream's result are
   each set once and for good.
2. Extend, where it pays: an abstract specification of an RPC (responses owed,
   sent, result) for `GrpcStream`; the controller's interval in integers; the
   order of a stream's headers and responses.
