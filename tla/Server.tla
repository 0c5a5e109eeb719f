------------------------------- MODULE Server -------------------------------
(***************************************************************************)
(* The life of requests in the server: HTTP requests from handlerWrapper   *)
(* to the log line, gRPC requests between the interceptors, invocations of *)
(* the Lambda function, and stopHandler's shutdown of the servers that     *)
(* serve them (main.go, types.go, nodeinfo.go, logger.go, lambda.go).      *)
(*                                                                         *)
(* The modules GrpcStream, CpuControl, MemoryControl, WsHub and ConnWatch  *)
(* model what happens inside a stream, behind setTarget, in the chat and   *)
(* to connections; here a request's own goroutine is all there is of it.   *)
(***************************************************************************)
EXTENDS Requests, Integers, FiniteSets, Functions

CONSTANTS
    NumRequests,    \* bound: the requests of a behaviour
    Arrivals,       \* bound: the sequences of offers that may arrive
    HttpServers,    \* the servers that Shutdown stops
    GrpcServers     \* the servers that GracefulStop and Stop stop

ASSUME BoundsAssumption ==
    NumRequests \in Nat /\ Arrivals \subseteq Seq(DOMAIN Offers)

Servers == HttpServers \union GrpcServers

\* The handlers of HTTP requests and of RPCs.
HttpKinds == {"default", "exec", "env", "files", "monitor", "stop"}
GrpcKinds == {"unary", "unregistered"}

\* A request comes to one of the servers, an RPC to one for gRPC.
ASSUME ServersAssumption ==
    /\ HttpServers \intersect GrpcServers = {}
    /\ \A o \in DOMAIN Offers :
           \/ Offers[o].srv \in HttpServers /\ Offers[o].kind \in HttpKinds
           \/ Offers[o].srv \in GrpcServers /\ Offers[o].kind \in GrpcKinds

Reqs == 1 .. NumRequests

\* The offers, and what may have arrived so far (TLC evaluates a definition
\* once, a constant of its configuration at each use).
OfferNames == DOMAIN Offers
Offer == [o \in OfferNames |-> Offers[o]]
Histories == {<<>>} \union Arrivals

IPs == {Offer[o].ip : o \in OfferNames}

VARIABLES
    isLambda,
    what,       \* the offer that each request is
    pc,         \* where its handler is
    todo,       \* the actions it still has to do
    size,       \* the size drawn for its response
    reply,      \* what was answered to it
    before,     \* history: the requests that were done when it arrived
    logger,     \* the HttpLogger of each request, and of an h2c connection (0)
    line,       \* what was logged for it
    active,     \* cw.active
    node,       \* store.node
    remote,     \* the nodes of remoteNodes
    known,      \* the keys of remoteNodes.m
    ELBs,       \* the keys of store.node.ELBs
    maps,       \* headerMap, headerMDMap and trailerMDMap
    Target,     \* of the CPU and of the memory
    shut,       \* how far each server is in its shutdown
    call,       \* the calls to stop each server, by stop request
    expired,    \* the stop requests whose 30 s are over
    exited,     \* whether and how the process ended
    cut         \* the requests that were in progress when it ended them

requestVars == <<what, pc, todo, size, reply, before>>
logVars == <<logger, line>>
statVars == <<active, node, remote, known, ELBs>>
stopVars == <<shut, call, expired, exited, cut>>
vars == <<isLambda, requestVars, logVars, statVars, maps, Target, stopVars>>

Steps ==
    {"idle", "accepted", "render", "act", "write", "reflect", "remote",
     "logger", "log", "page", "monitor", "marshal", "return", "done"}

NoReply == [status |-> -1]
NoLine == [owner |-> 0, size |-> 0, status |-> 0]
NoStats == [active |-> 0, count |-> 0, sent |-> 0, received |-> 0]
Stats == [active : Nat, count : Nat, sent : Nat, received : Nat]
MapNames == {"header", "headerMD", "trailerMD"}

Replied(r) == reply[r].status # -1
Open(r) == pc[r] \notin {"idle", "done"}
OpenRequests == {r \in Reqs : Open(r)}

RequestTypes ==
    /\ isLambda \in BOOLEAN
    /\ what \in [Reqs -> OfferNames \union {""}]
    /\ pc \in [Reqs -> Steps]
    /\ todo \in [Reqs -> SUBSET Ordered]
    /\ size \in [Reqs -> Nat]
    /\ DOMAIN reply = Reqs
    /\ before \in [Reqs -> SUBSET Reqs]

LogTypes ==
    LET Lines == [owner : {0} \union Reqs, size : Nat, status : Nat]
    IN  logger \in [{0} \union Reqs -> Lines] /\ line \in [Reqs -> Lines]

StatTypes ==
    /\ active \in Nat
    /\ node \in Stats
    /\ remote \in [IPs -> Stats]
    /\ known \subseteq IPs
    /\ ELBs \subseteq known

ActionTypes ==
    DOMAIN maps = MapNames /\ Target \in [{"cpu", "memory"} -> 0 .. 100]

StopTypes ==
    /\ shut \in [Servers -> {"up", "closing", "closed"}]
    /\ call \in [Reqs -> [Servers -> {"none", "asked", "waiting", "returned"}]]
    /\ expired \subseteq Reqs
    /\ exited \in {"no", "crash", "fatal", "graceful"}
    /\ cut \subseteq Reqs

\* Variables have values of these types.
TypeOK == RequestTypes /\ LogTypes /\ StatTypes /\ ActionTypes /\ StopTypes

Init ==
    /\ isLambda \in BOOLEAN
    /\ what = [r \in Reqs |-> ""]
    /\ pc = [r \in Reqs |-> "idle"]
    /\ todo = [r \in Reqs |-> {}]
    /\ size = [r \in Reqs |-> 0]
    /\ reply = [r \in Reqs |-> NoReply]
    /\ before = [r \in Reqs |-> {}]
    /\ logger = [l \in {0} \union Reqs |-> NoLine]
    /\ line = [r \in Reqs |-> NoLine]
    /\ active = 0
    /\ node = NoStats
    /\ remote = [ip \in IPs |-> NoStats]
    /\ known = {}
    /\ ELBs = {}
    /\ maps = [m \in MapNames |-> <<>>]
    /\ Target = [c \in {"cpu", "memory"} |-> 0]
    /\ shut = [s \in Servers |-> "up"]
    /\ call = [r \in Reqs |-> [s \in Servers |-> "none"]]
    /\ expired = {}
    /\ exited = "no"
    /\ cut = {}

-----------------------------------------------------------------------------
(***************************************************************************)
(* A request and its handler                                               *)
(***************************************************************************)

Req(r) == Offer[what[r]]

Proto(r) ==
    IF isLambda THEN "lambda"
    ELSE IF Req(r).srv \in GrpcServers THEN "grpc" ELSE "http"

\* The handler that router or handleRequest finds for the path.
Kind(r) ==
    IF isLambda /\ Req(r).kind \in {"exec", "files", "stop"}
    THEN "default"
    ELSE Req(r).kind

\* The commands of each offer, by protocol.
Validated ==
    [p \in {"http", "grpc", "lambda"} |->
        [o \in OfferNames |-> validateCommands(p, Offer[o])]]

Cmds(r) == Validated[Proto(r)][what[r]]

At(r, step) == exited = "no" /\ pc[r] = step

\* ELBs gets the last hop of a request with X-Forwarded-For.
UsesElb(r) == Kind(r) = "default" /\ Proto(r) = "http" /\ Req(r).xff # <<>>

\* About to read remoteNodes.m without its lock.
ReadsRemoteNodes(r) ==
    pc[r] = "remote" \/ (pc[r] = "render" /\ UsesElb(r))

(***************************************************************************)
(* A map written while another goroutine reads it without the lock: the    *)
(* Go runtime ends the process, or nothing happens.                        *)
(***************************************************************************)
MapWrite(conflict) ==
    exited' \in IF conflict THEN {"no", "crash"} ELSE {"no"}

\* Mutated form of LoggerOf: one logger for all.
LoggerOfServer(r) == 0

\* HandlerH2C makes a logger for each request, but one for all the requests
\* of an h2c connection.
LoggerOf(r) == IF Req(r).h2c THEN 0 ELSE r

\* atomic.AddInt64(&cw.active, d) and remoteNodes.addActiveConns(remoteIP, d)
AddActive(r, d) ==
    IF isLambda
    THEN UNCHANGED <<active, remote>>
    ELSE /\ active' = active + d
         /\ remote' = [remote EXCEPT ![Req(r).ip].active = @ + d]

\* A request o is the next one.
Arrives(r, o) ==
    /\ At(r, "idle")
    /\ \A q \in 1 .. r - 1 : pc[q] # "idle"
    /\ Append(SubSeq(what, 1, r - 1), o) \in Histories
    /\ what' = [what EXCEPT ![r] = o]
    /\ pc' = [pc EXCEPT ![r] = "accepted"]
    /\ before' = [before EXCEPT ![r] = {q \in Reqs : pc[q] = "done"}]
    /\ UNCHANGED <<isLambda, todo, size, reply, logVars, active, node, remote, ELBs,
                   maps, Target, shut, call, expired, cut>>

\* A closed server takes no request but over a hijacked connection.  The
\* connection of a new client enters remoteNodes.m.
Accept(r, o) ==
    LET req == Offer[o]
    IN  /\ ~isLambda
        /\ req.h2c \/ shut[req.srv] # "closed"
        /\ Arrives(r, o)
        /\ known' = known \union {req.ip}
        /\ MapWrite(req.ip \notin known /\ \E q \in Reqs : ReadsRemoteNodes(q))

\* lambdaHandler makes a request of an event: one invocation at a time.
lambdaHandler(r, o) ==
    /\ isLambda
    /\ OpenRequests = {}
    /\ Offer[o].srv \in HttpServers
    /\ ~Offer[o].h2c
    /\ Arrives(r, o)
    /\ UNCHANGED <<known, exited>>

\* What the wrappers and interceptors do before they call the handler.
Enter(r, step) ==
    /\ pc' = [pc EXCEPT ![r] = step]
    /\ UNCHANGED <<isLambda, what, todo, size, reply, before, line, node, known, ELBs,
                   maps, Target, stopVars>>

\* HttpLogger.init sets what is known of the request and leaves the fields of
\* its response.
initLogger(r) == logger' = [logger EXCEPT ![LoggerOf(r)].owner = r]

PageKinds == {"exec", "env", "files"}

handlerWrapper(r) ==
    /\ ~isLambda
    /\ At(r, "accepted")
    /\ Kind(r) \in PageKinds \union {"default"}
    /\ Enter(r, IF Kind(r) = "default" THEN "render" ELSE "page")
    /\ initLogger(r)
    /\ AddActive(r, 1)

noLogHandlerWrapper(r) ==
    /\ ~isLambda
    /\ At(r, "accepted")
    /\ Kind(r) = "monitor"
    /\ Enter(r, "monitor")
    /\ AddActive(r, 1)
    /\ UNCHANGED logger

\* handleRequest routes by the path, and every path but two to defaultHandler.
handleRequest(r) ==
    /\ isLambda
    /\ At(r, "accepted")
    /\ Enter(r, CASE Kind(r) = "env" -> "page"
                  [] Kind(r) = "monitor" -> "monitor"
                  [] OTHER -> "render")
    /\ initLogger(r)
    /\ UNCHANGED <<active, remote>>

UnaryInterceptor(r) ==
    /\ At(r, "accepted")
    /\ Kind(r) = "unary"
    /\ Enter(r, "render")
    /\ AddActive(r, 1)
    /\ UNCHANGED logger

StreamInterceptor(r) ==
    /\ At(r, "accepted")
    /\ Kind(r) = "unregistered"
    /\ Enter(r, "page")
    /\ AddActive(r, 1)
    /\ UNCHANGED logger

\* Mutated form of SetELBs: the client's address instead of the last hop's.
SetELBsClient(r) ==
    ELBs' = IF UsesElb(r) THEN ELBs \union {Req(r).xff[1]} ELSE ELBs

\* store.node.ELBs[reqInfo.LastHopIP] = remoteNodes.m[reqInfo.LastHopIP]
SetELBs(r) ==
    ELBs' = IF UsesElb(r) THEN ELBs \union {Req(r).ip} ELSE ELBs

MarshalsELBs == \E q \in Reqs : pc[q] = "marshal"

(***************************************************************************)
(* defaultHandler and the gRPC handler up to execAction: addresses,        *)
(* validation and the draw of values.                                      *)
(***************************************************************************)
Render(r) ==
    /\ At(r, "render")
    /\ ~evaluatePanics(Req(r), Cmds(r))
    /\ \E n \in Sizes(Proto(r), Req(r), Cmds(r)) : size' = [size EXCEPT ![r] = n]
    /\ todo' = [todo EXCEPT ![r] = Todo(Cmds(r))]
    /\ pc' = [pc EXCEPT ![r] =
                  IF needsAction(Cmds(r)) /\ "noop" \in Cmds(r).actions
                  THEN "log" ELSE "act"]
    /\ SetELBs(r)
    /\ MapWrite(UsesElb(r) /\ MarshalsELBs)
    /\ UNCHANGED <<isLambda, what, reply, before, logVars, active, node, remote,
                   known, maps, Target, shut, call, expired, cut>>

\* Mutated form of RenderPanics: the count is given back after the handler
\* and not by a deferred function.
RenderPanicsUndeferred(r) ==
    /\ At(r, "render")
    /\ evaluatePanics(Req(r), Cmds(r))
    /\ SetELBs(r)
    /\ IF Proto(r) = "http"
       THEN /\ pc' = [pc EXCEPT ![r] = "done"]
            /\ MapWrite(UsesElb(r) /\ MarshalsELBs)
       ELSE exited' = "crash" /\ UNCHANGED pc
    /\ UNCHANGED <<isLambda, what, todo, size, reply, before, logVars, active,
                   remote, node, known, maps, Target, shut, call, expired, cut>>

(***************************************************************************)
(* A panic in evaluate.  net/http recovers it and the deferred function    *)
(* gives the count back, but nothing is logged; in a gRPC handler's        *)
(* goroutine and in Lambda it ends the process.                            *)
(***************************************************************************)
RenderPanics(r) ==
    /\ At(r, "render")
    /\ evaluatePanics(Req(r), Cmds(r))
    /\ SetELBs(r)
    /\ IF Proto(r) = "http"
       THEN /\ pc' = [pc EXCEPT ![r] = "done"]
            /\ AddActive(r, -1)
            /\ MapWrite(UsesElb(r) /\ MarshalsELBs)
       ELSE exited' = "crash" /\ UNCHANGED <<pc, active, remote>>
    /\ UNCHANGED <<isLambda, what, todo, size, reply, before, logVars, node, known,
                   maps, Target, shut, call, expired, cut>>

\* headerMap of HTTP, headerMDMap and trailerMDMap of gRPC.
MapOf(r, action) ==
    IF action \in {"addtrailer", "deltrailer"} THEN "trailerMD"
    ELSE IF Proto(r) = "grpc" THEN "headerMD" ELSE "header"

(***************************************************************************)
(* execAction and execGrpcAction: the next action on shared state.         *)
(***************************************************************************)
Act(r) ==
    /\ At(r, "act")
    /\ \E a \in todo[r] \ {"code", "disconnect"} :
           LET values == Req(r).q[a]
           IN  /\ IsNext(a, todo[r])
               /\ Target' = IF a \in {"cpu", "memory"}
                            THEN [Target EXCEPT ![a] = values[1].from] ELSE Target
               /\ maps' = CASE a \in {"addheader", "addtrailer"} ->
                                   [maps EXCEPT ![MapOf(r, a)] = add(@, values)]
                            [] a \in {"delheader", "deltrailer"} ->
                                   [maps EXCEPT ![MapOf(r, a)] = del(@, values)]
                            [] OTHER -> maps
               /\ todo' = [todo EXCEPT ![r] = @ \ {a}]
    /\ UNCHANGED <<isLambda, what, pc, size, reply, before, logVars, statVars, stopVars>>

\* What is sent: the status asked for, the size counted, the Content-Length if
\* there is one, the bytes of the body, and the header maps shown.
Answer(status, n, length, body, shown) ==
    [status |-> status, size |-> n, length |-> length, body |-> body, maps |-> shown]

(***************************************************************************)
(* code and disconnect end the actions.  A code other than OK is the       *)
(* result of the RPC; after a disconnect gRPC still answers, while         *)
(* execAction returns 0, 0 without a response.                             *)
(***************************************************************************)
ActLast(r) ==
    /\ At(r, "act")
    /\ \E a \in todo[r] \intersect {"code", "disconnect"} :
           LET code == IF a = "code" THEN Req(r).q[a][1].from ELSE 0
           IN  /\ IsNext(a, todo[r])
               /\ CASE Proto(r) # "grpc" ->
                           /\ pc' = [pc EXCEPT ![r] = "reflect"]
                           /\ reply' = [reply EXCEPT ![r] = Answer(0, 0, {}, 0, <<>>)]
                           /\ size' = [size EXCEPT ![r] = 0]
                    [] Proto(r) = "grpc" /\ code # 0 ->
                           /\ pc' = [pc EXCEPT ![r] = "log"]
                           /\ reply' = [reply EXCEPT ![r] = Answer(code, 0, {}, 0, <<>>)]
                           /\ UNCHANGED size
                    [] OTHER -> UNCHANGED <<pc, reply, size>>
    /\ todo' = [todo EXCEPT ![r] = {}]
    /\ UNCHANGED <<isLambda, what, before, logVars, statVars, maps, Target, stopVars>>

\* The bytes that reach the client; chunks are for HTTP/1.1.
Body(r, status, chunked) ==
    CASE isLambda -> writeResponse(size[r])
      [] ~isLambda /\ ~bodyAllowed(status) -> 0
      [] OTHER -> IF chunked /\ ~Req(r).h2c
                  THEN writeChunkedResponse(size[r])
                  ELSE writeResponse(size[r])

\* The rest of execAction: headers, status and body.
WriteHttp(r) ==
    LET status == Status(Req(r), Cmds(r))
        chunked == needsAction(Cmds(r)) /\ "chunk" \in Cmds(r).actions
    IN  /\ At(r, "act")
        /\ todo[r] = {}
        /\ Proto(r) # "grpc"
        /\ reply' = [reply EXCEPT ![r] =
               Answer(status, size[r], IF chunked THEN {} ELSE {size[r]},
                      Body(r, status, chunked),
                      [header |-> maps["header"]])]
        /\ pc' = [pc EXCEPT ![r] = "reflect"]
        /\ UNCHANGED <<isLambda, what, todo, size, before, logVars, statVars, maps,
                       Target, stopVars>>

\* SetHeader, SetTrailer and createResponse, whose data has the size asked for.
WriteGrpc(r) ==
    /\ At(r, "act")
    /\ todo[r] = {}
    /\ Proto(r) = "grpc"
    /\ reply' = [reply EXCEPT ![r] =
           Answer(0, size[r], {}, randBytes(size[r]),
                  [headerMD |-> maps["headerMD"], trailerMD |-> maps["trailerMD"]])]
    /\ pc' = [pc EXCEPT ![r] = "log"]
    /\ UNCHANGED <<isLambda, what, todo, size, before, logVars, statVars, maps, Target,
                   stopVars>>

(***************************************************************************)
(* The size of the request's body: HttpLogger.init has read it to the end  *)
(* before defaultHandler measures it, and only handleRequest puts it back. *)
(***************************************************************************)
ReceivedBytes(r) == IF isLambda THEN Req(r).body ELSE 0

\* Mutated form of reflectRequest: a response without a body is not counted.
reflectRequestOfBodies(stats, received, sent) ==
    IF sent = 0 THEN stats
    ELSE [stats EXCEPT !.received = @ + received, !.sent = @ + sent, !.count = @ + 1]

reflectRequest(stats, received, sent) ==
    [stats EXCEPT !.received = @ + received, !.sent = @ + sent, !.count = @ + 1]

\* store.node.reflectRequest
ReflectNode(r) ==
    /\ At(r, "reflect")
    /\ node' = reflectRequest(node, ReceivedBytes(r), size[r])
    /\ pc' = [pc EXCEPT ![r] = IF isLambda THEN "logger" ELSE "remote"]
    /\ UNCHANGED <<isLambda, what, todo, size, reply, before, logVars, active, remote,
                   known, ELBs, maps, Target, stopVars>>

\* remoteNodes.m[remoteAddr].reflectRequest
ReflectRemote(r) ==
    /\ At(r, "remote")
    /\ remote' = [remote EXCEPT ![Req(r).ip] =
                      reflectRequest(@, ReceivedBytes(r), size[r])]
    /\ pc' = [pc EXCEPT ![r] = "logger"]
    /\ UNCHANGED <<isLambda, what, todo, size, reply, before, logVars, active, node,
                   known, ELBs, maps, Target, stopVars>>

\* setRespSizeForLogger and setStatusForLogger
SetLogger(r) ==
    /\ At(r, "logger")
    /\ logger' = [logger EXCEPT ![LoggerOf(r)] =
           [owner |-> @.owner, size |-> size[r], status |-> reply[r].status]]
    /\ pc' = [pc EXCEPT ![r] = "log"]
    /\ UNCHANGED <<isLambda, what, todo, size, reply, before, line, statVars, maps,
                   Target, stopVars>>

\* A page and its status; its size is set in the logger of a page that is there.
WritePage(r, kind) ==
    LET page == Req(r).page
    IN  /\ At(r, "page")
        /\ Kind(r) = kind
        /\ reply' = [reply EXCEPT ![r] =
               Answer(page.status, page.size, {page.size}, page.size, <<>>)]
        /\ logger' = [logger EXCEPT ![LoggerOf(r)] =
               [owner  |-> @.owner,
                size   |-> IF page.status = 200 THEN page.size ELSE @.size,
                status |-> page.status]]
        /\ pc' = [pc EXCEPT ![r] = "log"]
        /\ UNCHANGED <<isLambda, what, todo, size, before, line, statVars, maps, Target,
                       stopVars>>

execHandler(r) == WritePage(r, "exec")
envHandler(r) == WritePage(r, "env")

\* A file that is not there, or not for this method, has a status of its own.
filesDLHandler(r) == WritePage(r, "files")

(***************************************************************************)
(* UnregisteredMethodHandler: the last code in the method's name that is   *)
(* one, or Unimplemented.                                                  *)
(***************************************************************************)
UnregisteredMethodHandler(r) ==
    LET codes == SelectSeq(Req(r).codes, LAMBDA c : c < 17)
        code == IF codes = <<>> THEN 12 ELSE codes[Len(codes)]
    IN  /\ At(r, "page")
        /\ Kind(r) = "unregistered"
        /\ reply' = [reply EXCEPT ![r] = Answer(code, 0, {}, 0, <<>>)]
        /\ pc' = [pc EXCEPT ![r] = "log"]
        /\ UNCHANGED <<isLambda, what, todo, size, before, logVars, statVars, maps,
                       Target, stopVars>>

\* The handler returns: the deferred functions of the wrapper or interceptor.
Return(r) ==
    /\ AddActive(r, -1)
    /\ pc' = [pc EXCEPT ![r] = "done"]
    /\ UNCHANGED <<isLambda, what, todo, size, reply, before, logger, node, known, ELBs,
                   maps, Target, stopVars>>

\* httpLogger.log() comes first.
Log(r) ==
    /\ At(r, "log")
    /\ Proto(r) # "grpc"
    /\ Kind(r) # "monitor"
    /\ Return(r)
    /\ line' = [line EXCEPT ![r] = logger[LoggerOf(r)]]

\* RPCs have loggers of their own, and the monitor has none.
Leave(r) ==
    /\ At(r, "log")
    /\ Proto(r) = "grpc" \/ Kind(r) = "monitor"
    /\ Return(r)
    /\ UNCHANGED line

\* monitorHandler refreshes store.node,
updateNode(r) ==
    /\ At(r, "monitor")
    /\ node' = [node EXCEPT !.active = active]
    /\ pc' = [pc EXCEPT ![r] = "marshal"]
    /\ UNCHANGED <<isLambda, what, todo, size, reply, before, logVars, active, remote,
                   known, ELBs, maps, Target, stopVars>>

\* and marshals it, ranging over ELBs without the node's lock.
getStoreNodeJSON(r) ==
    /\ At(r, "marshal")
    /\ pc' = [pc EXCEPT ![r] = "log"]
    /\ UNCHANGED <<isLambda, what, todo, size, reply, before, logVars, statVars, maps,
                   Target, stopVars>>

-----------------------------------------------------------------------------
(***************************************************************************)
(* stopHandler                                                             *)
(***************************************************************************)

Graceful(r) == "graceful" \in DOMAIN Req(r).q

\* The goroutine of a graceful stop request runs.
Stopping(r) == call[r] # [s \in Servers |-> "none"]

\* /stop/: log.Fatalf.
StopNow(r) ==
    /\ At(r, "accepted")
    /\ Kind(r) = "stop"
    /\ ~Graceful(r)
    /\ exited' = "fatal"
    /\ cut' = OpenRequests \ {r}
    /\ UNCHANGED <<isLambda, requestVars, logVars, statVars, maps, Target, shut, call,
                   expired>>

\* /stop/?graceful: the answer, and a goroutine with one more per server.
StopGraceful(r) ==
    /\ At(r, "accepted")
    /\ Kind(r) = "stop"
    /\ Graceful(r)
    /\ call' = [call EXCEPT ![r] = [s \in Servers |-> "asked"]]
    /\ pc' = [pc EXCEPT ![r] = "return"]
    /\ UNCHANGED <<isLambda, what, todo, size, reply, before, logVars, statVars, maps,
                   Target, shut, expired, exited, cut>>

\* Mutated form of StopReturn: the handler calls Shutdown itself and returns
\* after it.
StopReturnLast(r) ==
    /\ At(r, "return")
    /\ \A s \in Servers : call[r][s] = "returned"
    /\ pc' = [pc EXCEPT ![r] = "done"]
    /\ UNCHANGED <<isLambda, what, todo, size, reply, before, logVars, statVars, maps,
                   Target, stopVars>>

\* stopHandler returns while its goroutine works.
StopReturn(r) ==
    /\ At(r, "return")
    /\ pc' = [pc EXCEPT ![r] = "done"]
    /\ UNCHANGED <<isLambda, what, todo, size, reply, before, logVars, statVars, maps,
                   Target, stopVars>>

\* What Shutdown and GracefulStop of server s wait for: they know nothing of
\* hijacked connections.
InFlight(s) ==
    {r \in OpenRequests \ cut : Req(r).srv = s /\ ~Req(r).h2c}

\* s.Shutdown(ctx) or s.GracefulStop() is called and closes the listener.
Shutdown(r, s) ==
    /\ exited = "no"
    /\ call[r][s] = "asked"
    /\ call' = [call EXCEPT ![r][s] = "waiting"]
    /\ shut' = [shut EXCEPT ![s] = IF @ = "up" THEN "closing" ELSE @]
    /\ UNCHANGED <<isLambda, requestVars, logVars, statVars, maps, Target, expired,
                   exited, cut>>

\* Mutated form of ShutdownDone: it does not wait.
ShutdownDoneAtOnce(r, s) ==
    /\ exited = "no"
    /\ call[r][s] = "waiting"
    /\ call' = [call EXCEPT ![r][s] = "returned"]
    /\ shut' = [shut EXCEPT ![s] = "closed"]
    /\ UNCHANGED <<isLambda, requestVars, logVars, statVars, maps, Target, expired,
                   exited, cut>>

\* The call returns when nothing is in progress on s.
ShutdownDone(r, s) ==
    /\ exited = "no"
    /\ call[r][s] = "waiting"
    /\ InFlight(s) = {}
    /\ call' = [call EXCEPT ![r][s] = "returned"]
    /\ shut' = [shut EXCEPT ![s] = "closed"]
    /\ UNCHANGED <<isLambda, requestVars, logVars, statVars, maps, Target, expired,
                   exited, cut>>

\* context.WithTimeout(context.Background(), 30*time.Second) is over.
Expire(r) ==
    /\ exited = "no"
    /\ Stopping(r)
    /\ r \notin expired
    /\ expired' = expired \union {r}
    /\ UNCHANGED <<isLambda, requestVars, logVars, statVars, maps, Target, shut, call,
                   exited, cut>>

\* Mutated form of ShutdownExpired: GracefulStop without the select.
ShutdownExpiredHttp(r, s) ==
    /\ exited = "no"
    /\ call[r][s] = "waiting"
    /\ r \in expired
    /\ s \in HttpServers
    /\ call' = [call EXCEPT ![r][s] = "returned"]
    /\ UNCHANGED <<isLambda, requestVars, logVars, statVars, maps, Target, shut, expired,
                   exited, cut>>

\* case <-ctx.Done(): Shutdown returns and leaves its requests; Stop cuts the
\* RPCs of a gRPC server off.
ShutdownExpired(r, s) ==
    /\ exited = "no"
    /\ call[r][s] = "waiting"
    /\ r \in expired
    /\ call' = [call EXCEPT ![r][s] = "returned"]
    /\ IF s \in GrpcServers
       THEN cut' = cut \union InFlight(s) /\ shut' = [shut EXCEPT ![s] = "closed"]
       ELSE UNCHANGED <<cut, shut>>
    /\ UNCHANGED <<isLambda, requestVars, logVars, statVars, maps, Target, expired,
                   exited>>

\* wg.Wait() is over: log.Fatalf.
Exit(r) ==
    /\ exited = "no"
    /\ \A s \in Servers : call[r][s] = "returned"
    /\ exited' = "graceful"
    /\ cut' = cut \union OpenRequests
    /\ UNCHANGED <<isLambda, requestVars, logVars, statVars, maps, Target, shut, call,
                   expired>>

-----------------------------------------------------------------------------
\* A step of a request's own goroutine.
RequestStep(r) ==
    \/ handlerWrapper(r) \/ noLogHandlerWrapper(r) \/ handleRequest(r)
    \/ UnaryInterceptor(r) \/ StreamInterceptor(r)
    \/ Render(r) \/ RenderPanics(r) \/ Act(r) \/ ActLast(r)
    \/ WriteHttp(r) \/ WriteGrpc(r) \/ ReflectNode(r) \/ ReflectRemote(r)
    \/ SetLogger(r) \/ execHandler(r) \/ envHandler(r) \/ filesDLHandler(r)
    \/ UnregisteredMethodHandler(r) \/ updateNode(r) \/ getStoreNodeJSON(r)
    \/ Log(r) \/ Leave(r)

\* A step of stopHandler.
StopHandler(r) == StopNow(r) \/ StopGraceful(r) \/ StopReturn(r)

\* A step of the goroutines that a stop request starts.
StopStep(r) ==
    \/ \E s \in Servers :
           Shutdown(r, s) \/ ShutdownDone(r, s) \/ ShutdownExpired(r, s)
    \/ Exit(r)

Next ==
    \E r \in Reqs :
        \/ \E o \in OfferNames : Accept(r, o) \/ lambdaHandler(r, o)
        \/ RequestStep(r)
        \/ StopHandler(r)
        \/ StopStep(r)
        \/ Expire(r)

(***************************************************************************)
(* stopHandler and the goroutines that it starts are scheduled fairly.     *)
(* They take a bounded number of steps, so that none of them is left out.  *)
(* Other requests may take as long as they want.                           *)
(***************************************************************************)
Fairness ==
    \A r \in Reqs : WF_vars(StopHandler(r)) /\ WF_vars(StopStep(r))

Spec == Init /\ [][Next]_vars /\ Fairness

-----------------------------------------------------------------------------
(***************************************************************************)
(* cw.active and the remote nodes' active_conns are the requests inside a  *)
(* wrapper or interceptor: whatever way a handler ends (an answer, an      *)
(* error, a disconnect, a panic), what was counted is given back once.     *)
(***************************************************************************)
Inside(r) == pc[r] \notin {"idle", "accepted", "return", "done"}

ActiveExact ==
    LET counted == {r \in Reqs : ~isLambda /\ Inside(r)}
    IN  /\ active = Cardinality(counted)
        /\ \A ip \in IPs :
               remote[ip].active = Cardinality({r \in counted : Req(r).ip = ip})

\* The response to r may have a body.
HasBody(r) == isLambda \/ bodyAllowed(reply[r].status)

(***************************************************************************)
(* request_count of store.node counts every answer of defaultHandler once, *)
(* a disconnect too, and that of the remote nodes the same answers by      *)
(* client, but for the one being counted.  sent_bytes is the bytes of      *)
(* their bodies, as long as every response may have one, and received_     *)
(* bytes those of the requests' bodies in Lambda, and over HTTP as long as *)
(* there are none (AsDocumented has the other cases).                      *)
(***************************************************************************)
StatsExact ==
    LET Exact(stats, set) ==
            /\ stats.count = Cardinality(set)
            /\ (\A r \in set : HasBody(r)) =>
                   stats.sent = SumFunction([r \in set |-> reply[r].body])
            /\ (\A r \in set : isLambda \/ Req(r).body = 0) =>
                   stats.received = SumFunction([r \in set |-> Req(r).body])
        answered == {r \in Reqs : what[r] # "" /\ Kind(r) = "default" /\ Replied(r)}
        noted == {r \in answered : pc[r] # "reflect"}
    IN  /\ Exact(node, noted)
        /\ \A ip \in IPs : Exact(remote[ip],
               {r \in noted : ~isLambda /\ Req(r).ip = ip /\ pc[r] # "remote"})

\* defaultHandler answered r with a response.
Answered(r) ==
    what[r] # "" /\ Kind(r) = "default" /\ Replied(r) /\ reply[r].status # 0

(***************************************************************************)
(* writeResponse and writeChunkedResponse write as many bytes as           *)
(* Content-Length announces and the statistics count, where HTTP allows a  *)
(* body.                                                                   *)
(***************************************************************************)
BodyExact ==
    \A r \in Reqs : Answered(r) =>
        /\ reply[r].length \subseteq {reply[r].size}
        /\ HasBody(r) => reply[r].body = reply[r].size

\* The parameters that take one value.
Single == {"cpu", "memory", "sleep", "size", "status", "chunk", "delheader",
           "disconnect", "code", "deltrailer", "dataonly", "noop"}

\* A parameter is not malformed (of the values of an added header all but the
\* first are free text), nor given twice where it takes one value.
WellFormed(q, k) ==
    /\ q[k][1].ok
    /\ k \notin {"addheader", "addtrailer"} => \A v \in Range(q[k]) : v.ok
    /\ k \in Single => Len(q[k]) = 1

\* One of the alternatives of a condition names the actual value.
Met(proto, req, k) ==
    \E v \in Range(req.q[k]) : getActualValue(RequestInfo(proto, req), k) \in v.covers

\* Nothing stands against what a request asks for: it has an action, every
\* parameter that is known is well-formed, and every condition is met.
HonouredOffer(proto, req) ==
    LET keys == DOMAIN req.q \intersect validator(proto)
    IN  /\ keys \ IfKeys # {}
        /\ \A k \in keys :
               /\ WellFormed(req.q, k)
               /\ k \in IfKeys => Met(proto, req, k)
               /\ k # "repeat"

Honourable ==
    [p \in {"http", "grpc", "lambda"} |->
        [o \in OfferNames |-> HonouredOffer(p, Offer[o])]]

Honoured(r) == Honourable[Proto(r)][what[r]]

\* r asks for k in a well-formed parameter, and no condition of it is unmet.
Asks(r, k) ==
    LET req == Req(r)
    IN  /\ k \in DOMAIN req.q \intersect validator(Proto(r))
        /\ WellFormed(req.q, k)
        /\ \A c \in DOMAIN req.q \intersect IfKeys :
               WellFormed(req.q, c) => Met(Proto(r), req, c)

(***************************************************************************)
(* A request with nothing against it gets the size and the status that it  *)
(* asks for; a size or status that is malformed, given twice, or under a   *)
(* condition that is not met ("Executes the specified processing when all  *)
(* conditions are met", README.md:381) is not applied; and a target was    *)
(* asked for, by a request whose conditions were met.  Of a well-formed    *)
(* parameter beside a malformed one it says nothing (AsDocumented).        *)
(***************************************************************************)
AsAsked ==
    /\ \A r \in Reqs : Answered(r) =>
           LET Gets(k) == Honoured(r) /\ k \in DOMAIN Req(r).q
           IN  /\ Gets("size") => reply[r].size \in getActionValue(Req(r).q["size"][1])
               /\ Gets("status") => reply[r].status = Req(r).q["status"][1].from
               /\ ~Asks(r, "size") => reply[r].size = JsonLen
               /\ ~Asks(r, "status") => reply[r].status = 200
    /\ \A c \in {"cpu", "memory"} :
           Target[c] # 0 =>
               \E r \in Reqs : /\ what[r] # "" /\ Asks(r, c)
                               /\ Target[c] = Req(r).q[c][1].from

(***************************************************************************)
(* The header maps are shared by all requests of a protocol: a header      *)
(* added by a request is in the responses to later ones until a request    *)
(* deletes or replaces it, in whatever case it writes the name, and a      *)
(* header that was deleted, or that nobody added, is in none.  Of two      *)
(* requests at once either may be the later one.  The responses are those  *)
(* of defaultHandler and of unary RPCs that end with OK: pages and errors  *)
(* of RPCs carry no map, although README.md:339 says "all subsequent       *)
(* responses".                                                             *)
(***************************************************************************)
Alterations(q) ==
    DOMAIN q \intersect {"addheader", "delheader", "addtrailer", "deltrailer"}

Names ==
    UNION {{ToLower(Offer[o].q[k][1].name) : k \in Alterations(Offer[o].q)} :
               o \in OfferNames}

\* The handler of r does what it is asked for: a page or a stop takes no
\* actions, a panic comes before them, and noop is instead of them.
Executes(r) ==
    /\ what[r] # ""
    /\ Kind(r) \in {"default", "unary"}
    /\ Honoured(r)
    /\ ~evaluatePanics(Req(r), Cmds(r))
    /\ "noop" \notin DOMAIN Req(r).q \intersect validator(Proto(r))

\* r adds to, or deletes from, map m under this name.
Alters(r, m, name, actions) ==
    /\ Executes(r)
    /\ \E k \in actions \intersect DOMAIN Req(r).q \intersect validator(Proto(r)) :
           MapOf(r, k) = m /\ ToLower(Req(r).q[k][1].name) = name

Adds(r, m, name) == Alters(r, m, name, {"addheader", "addtrailer"})
Deletes(r, m, name) == Alters(r, m, name, {"delheader", "deltrailer"})

Added(r, m) ==
    Text(Req(r).q[IF m = "trailerMD" THEN "addtrailer" ELSE "addheader"])

HeaderLasts ==
    \A r \in Reqs : Replied(r) => \A m \in DOMAIN reply[r].maps, name \in Names :
        LET alters == {q \in Reqs : Adds(q, m, name) \/ Deletes(q, m, name)}
            shown == name \in DOMAIN reply[r].maps[m]
        IN  /\ shown => \E q \in alters :
                            /\ Adds(q, m, name)
                            /\ reply[r].maps[m][name] = Added(q, m)
            /\ \A q \in alters \intersect (before[r] \union {r}) :
                   (\A p \in alters \ {q} : p \in before[q]) =>
                       IF Deletes(q, m, name)
                       THEN ~shown
                       ELSE shown /\ reply[r].maps[m][name] = Added(q, m)

(***************************************************************************)
(* A line of the log is about one request, whatever others do meanwhile:   *)
(* its own fields ("path", "qstr" and so on, README.md:507-518) with the   *)
(* status of its own response and the size of its body, where it may have  *)
(* one.  Of the lines of h2c connections it says nothing (AsDocumented).   *)
(***************************************************************************)
LineOwn ==
    \A r \in Reqs : line[r].owner # 0 /\ ~Req(r).h2c =>
        /\ line[r].owner = r /\ line[r].status = reply[r].status
        /\ HasBody(r) => line[r].size = reply[r].body

-----------------------------------------------------------------------------
(***************************************************************************)
(* Where README.md and the code disagree about a request that was answered *)
(***************************************************************************)

\* README.md:219-239: a size beside an invalid status is still applied.
ResponseAsDocumented(r) ==
    Asks(r, "size") => reply[r].size \in getActionValue(Req(r).q["size"][1])

\* "received_bytes - the request size (excluding the header)" (README.md:488)
ReceivedAsDocumented ==
    node.received = SumFunction([r \in {q \in Reqs : Answered(q)} |-> Req(r).body])

\* "sent_bytes - the response size (excluding the header)" (README.md:487)
SentAsDocumented ==
    node.sent = SumFunction([r \in {q \in Reqs : Answered(q)} |-> reply[r].body])

\* "path - path", "size - response size", "status - status code"
\* (README.md:507-518)
LineAsDocumented(r) ==
    line[r] = [owner |-> r, size |-> reply[r].body, status |-> reply[r].status]

(***************************************************************************)
(* What README.md says of an answered request, once no other is in         *)
(* progress.  All four statements may fail of one request, so it is the    *)
(* weakest that is stated, that one of them holds.                         *)
(***************************************************************************)
AsDocumented ==
    OpenRequests = {} =>
        \A r \in Reqs : Answered(r) =>
            \/ ResponseAsDocumented(r)
            \/ ReceivedAsDocumented
            \/ SentAsDocumented
            \/ LineAsDocumented(r)

-----------------------------------------------------------------------------
(***************************************************************************)
(* "To stop gracefully (waiting for in-flight requests to complete)"       *)
(* (README.md:436): unless the 30 s are over, the process ends with no     *)
(* request in progress, also when several stop requests or new requests    *)
(* come meanwhile.  It says nothing of h2c, whose hijacked connections     *)
(* Shutdown does not know; README.md makes no such exception.              *)
(***************************************************************************)
InFlightWaited ==
    exited = "graceful" /\ expired = {} =>
        \A r \in cut : Req(r).h2c

(***************************************************************************)
(* "(with 30-second timeout) before exiting" (README.md): if the time      *)
(* comes to its end the process ends, whatever requests do.                *)
(***************************************************************************)
StopsInTime ==
    (\A r \in Reqs : []<>(Stopping(r) => r \in expired \/ exited # "no")) =>
        ((\E r \in Reqs : Stopping(r)) ~> exited # "no")

(***************************************************************************)
(* If the other requests come to their end the process ends, without the   *)
(* time-out's help: stopHandler does not wait for itself (main.go, "would  *)
(* deadlock").                                                             *)
(***************************************************************************)
StopsPromptly ==
    (\A r \in Reqs : []<>(Open(r) => Kind(r) = "stop")) =>
        ((\E r \in Reqs : Stopping(r)) ~> exited # "no")
=============================================================================
