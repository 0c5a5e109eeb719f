----------------------------- MODULE ConnWatch -----------------------------
(***************************************************************************)
(* The connections of the HTTP and gRPC servers: ConnectionWatcher's count *)
(* of them (main.go), the map csMaps from addresses to connections         *)
(* (types.go), the gRPC listener (grpc.go), the hijack of h2c (h2c.go) and *)
(* of WebSockets, and disconnect (main.go), which a request may ask for.   *)
(*                                                                         *)
(* Every change of cw.total comes with the same change of the remote       *)
(* node's TotalConns and belongs to one connection: "counted" holds the    *)
(* changes by connection.                                                  *)
(***************************************************************************)
EXTENDS Integers, FiniteSetsExt

CONSTANTS
    Conns,      \* the connections, each accepted at most once
    NoConn,     \* no connection
    Reqs,       \* bound: the requests in progress at one time
    Addrs,      \* the clients' addresses and ports
    NoAddr,     \* the address of a connection not made yet
    Kinds       \* the servers' protocols

AllKinds == {"http", "h2", "grpc"}

ASSUME ConnsAssumption == IsFiniteSet(Conns) /\ NoConn \notin Conns
ASSUME ReqsAssumption == IsFiniteSet(Reqs)
ASSUME AddrsAssumption == NoAddr \notin Addrs
ASSUME KindsAssumption == Kinds \subseteq AllKinds

VARIABLES
    kind, addr, \* the server and the client's address of each connection
    sock,       \* its TCP connection
    proto,      \* the protocol its requests are logged under
    serve,      \* the goroutine that serves it
    seen,       \* the entry OnStateChange found
    csMap,      \* the connections in csMaps
    marked,     \* curState is StateClosed
    once,       \* grpcTrackedConn.once is used up
    counted,    \* what it contributes to cw.total
    of,         \* the connection of each request
    step,       \* how far the request is
    found       \* the entry its disconnect found

connVars == <<kind, addr, proto>>
watchVars == <<serve, seen>>
stateVars == <<csMap, marked, once, counted>>
reqVars == <<of, step, found>>
vars == <<connVars, sock, watchVars, stateVars, reqVars>>

ServeStates ==
    {"none", "serving", "hijackGet", "hijackApply", "taken", "h2c", "ws",
     "closeGet", "closeApply", "closeDel", "done"}
StepStates == {"idle", "run", "close", "count", "del"}

\* Variables have values of these types, and who uses an entry has one.
TypeOK ==
    /\ kind \in [Conns -> AllKinds \union {"none"}]
    /\ addr \in [Conns -> Addrs \union {NoAddr}]
    /\ sock \in [Conns -> {"none", "open", "closed"}]
    /\ proto \in [Conns -> AllKinds \union {"none", "h2c"}]
    /\ serve \in [Conns -> ServeStates]
    /\ seen \in [Conns -> Conns \union {NoConn}]
    /\ csMap \in SUBSET Conns
    /\ marked \in [Conns -> BOOLEAN]
    /\ once \in [Conns -> BOOLEAN]
    /\ counted \in [Conns -> Int]
    /\ of \in [Reqs -> Conns \union {NoConn}]
    /\ step \in [Reqs -> StepStates]
    /\ found \in [Reqs -> Conns \union {NoConn}]
    /\ \A r \in Reqs : step[r] \in {"close", "count", "del"} => found[r] \in Conns
    /\ \A c \in Conns : serve[c] \in {"hijackApply", "closeApply"} => seen[c] \in Conns

Init ==
    /\ kind = [c \in Conns |-> "none"]
    /\ addr = [c \in Conns |-> NoAddr]
    /\ sock = [c \in Conns |-> "none"]
    /\ proto = [c \in Conns |-> "none"]
    /\ serve = [c \in Conns |-> "none"]
    /\ seen = [c \in Conns |-> NoConn]
    /\ csMap = {}
    /\ marked = [c \in Conns |-> FALSE]
    /\ once = [c \in Conns |-> FALSE]
    /\ counted = [c \in Conns |-> 0]
    /\ of = [r \in Reqs |-> NoConn]
    /\ step = [r \in Reqs |-> "idle"]
    /\ found = [r \in Reqs |-> NoConn]

-----------------------------------------------------------------------------
(***************************************************************************)
(* csMaps.  Its keys are pairs of a remote and a local address, and each   *)
(* server has a local address of its own.                                  *)
(***************************************************************************)

\* The entries under connKey of c's addresses: one at most.
get(c) == {d \in csMap : addr[d] = addr[c] /\ kind[d] = kind[c]}

\* The entries whose key starts with c's remote address.
getByRemoteAddr(c) == {d \in csMap : addr[d] = addr[c]}

del(c) == csMap' = csMap \ get(c)

\* atomic.AddInt64(&cw.total, n); remoteNodes.addTotalConns(..., n)
addTotalConns(c, n) == counted' = [counted EXCEPT ![c] = @ + n]

-----------------------------------------------------------------------------
(***************************************************************************)
(* A connection is accepted: OnStateChange with StateNew, or Accept of     *)
(* grpcConnListener.  An entry with the same key goes.  A client uses an   *)
(* address again once its connection to this server is closed, whether or  *)
(* not the server has noticed.                                             *)
(***************************************************************************)
Accept(c, k, a) ==
    /\ sock[c] = "none"
    /\ \A d \in Conns : kind[d] = k /\ addr[d] = a => sock[d] = "closed"
    /\ kind' = [kind EXCEPT ![c] = k]
    /\ addr' = [addr EXCEPT ![c] = a]
    /\ proto' = [proto EXCEPT ![c] = k]
    /\ sock' = [sock EXCEPT ![c] = "open"]
    /\ serve' = [serve EXCEPT ![c] = "serving"]
    /\ csMap' = {d \in csMap : addr[d] # a \/ kind[d] # k} \union {c}
    /\ addTotalConns(c, 1)
    /\ UNCHANGED <<seen, marked, once, reqVars>>

\* The client closes its connection, or the network does.
ClientCloses(c) ==
    /\ sock[c] = "open"
    /\ sock' = [sock EXCEPT ![c] = "closed"]
    /\ UNCHANGED <<connVars, watchVars, stateVars, reqVars>>

Running(c) == {r \in Reqs : of[r] = c}

(***************************************************************************)
(* Requests.  HTTP/1 runs one at a time, in the goroutine that serves the  *)
(* connection; h2, h2c and gRPC run each in a goroutine of its own.        *)
(***************************************************************************)
Request(r, c) ==
    /\ sock[c] = "open"
    /\ serve[c] \in {"serving", "h2c"}
    /\ proto[c] = "http" => Running(c) = {}
    /\ step[r] = "idle"
    /\ step' = [step EXCEPT ![r] = "run"]
    /\ of' = [of EXCEPT ![r] = c]
    /\ UNCHANGED <<connVars, sock, watchVars, stateVars, found>>

\* The handler of the request returns.
Return(r) ==
    /\ step' = [step EXCEPT ![r] = "idle"]
    /\ of' = [of EXCEPT ![r] = NoConn]
    /\ found' = [found EXCEPT ![r] = NoConn]

\* A request that does not ask for disconnect.
Finish(r) ==
    /\ step[r] = "run"
    /\ Return(r)
    /\ UNCHANGED <<connVars, sock, watchVars, stateVars>>

(***************************************************************************)
(* disconnect                                                              *)
(***************************************************************************)

\* Mutated form of DisconnectFind: used without "if !ok".
DisconnectFindAny(r) ==
    /\ step[r] = "run"
    /\ \E d \in IF getByRemoteAddr(of[r]) = {} THEN {NoConn} ELSE getByRemoteAddr(of[r]) :
           found' = [found EXCEPT ![r] = d]
    /\ step' = [step EXCEPT ![r] = "close"]
    /\ UNCHANGED <<connVars, sock, watchVars, stateVars, of>>

\* csMaps.getByRemoteAddr: the entry that the map's iteration meets first.
DisconnectFind(r) ==
    /\ step[r] = "run"
    /\ \/ getByRemoteAddr(of[r]) = {} /\ Return(r)
       \/ \E d \in getByRemoteAddr(of[r]) :
              /\ found' = [found EXCEPT ![r] = d]
              /\ step' = [step EXCEPT ![r] = "close"]
              /\ UNCHANGED of
    /\ UNCHANGED <<connVars, sock, watchVars, stateVars>>

\* tracked.once.Do(...)
UseOnce(d) ==
    /\ once' = [once EXCEPT ![d] = TRUE]
    /\ counted' = [counted EXCEPT ![d] = @ - (IF once[d] THEN 0 ELSE 1)]

\* Mutated form of DisconnectClose: a gRPC request does not unwrap its
\* connection, and nothing is closed.
DisconnectCloseWrapped(r) ==
    LET d == found[r] IN
    /\ step[r] = "close"
    /\ sock' = [sock EXCEPT ![d] = IF kind[d] = "grpc" THEN @ ELSE "closed"]
    /\ step' = [step EXCEPT ![r] = "count"]
    /\ UNCHANGED <<connVars, watchVars, stateVars, of, found>>

(***************************************************************************)
(* closeConnection, which closes a connection of net and of tls only: not  *)
(* a grpcTrackedConn, which a gRPC request unwraps.  The servers run       *)
(* without -proxy, whose proxyproto.Conn it does not close either.         *)
(***************************************************************************)
DisconnectClose(r) ==
    LET d == found[r] IN
    /\ step[r] = "close"
    /\ \/ /\ kind[d] = "grpc"
          /\ proto[of[r]] = "grpc"
          /\ UseOnce(d)
          /\ sock' = [sock EXCEPT ![d] = "closed"]
       \/ /\ kind[d] = "grpc"
          /\ proto[of[r]] # "grpc"
          /\ UNCHANGED <<once, counted, sock>>
       \/ /\ kind[d] # "grpc"
          /\ sock' = [sock EXCEPT ![d] = "closed"]
          /\ UNCHANGED <<once, counted>>
    /\ step' = [step EXCEPT ![r] = "count"]
    /\ UNCHANGED <<connVars, watchVars, csMap, marked, of, found>>

\* The count goes down for HTTP/1 and h2, unless the state is StateClosed.
DisconnectCount(r) ==
    LET d == found[r] IN
    /\ step[r] = "count"
    /\ IF proto[of[r]] \notin {"grpc", "h2c"} /\ ~marked[d]
       THEN addTotalConns(d, -1)
       ELSE UNCHANGED counted
    /\ step' = [step EXCEPT ![r] = "del"]
    /\ UNCHANGED <<connVars, sock, watchVars, csMap, marked, once, of, found>>

\* csMaps.del(key), and the handler returns.
DisconnectDel(r) ==
    /\ step[r] = "del"
    /\ del(found[r])
    /\ Return(r)
    /\ UNCHANGED <<connVars, sock, watchVars, marked, once, counted>>

-----------------------------------------------------------------------------
(***************************************************************************)
(* The goroutine that serves a connection                                  *)
(***************************************************************************)

\* net/http ends with an HTTP/1 connection between two requests, with an h2
\* connection at any time: it closes it and reports StateClosed.
ServeEnds(c) ==
    /\ serve[c] = "serving"
    /\ kind[c] \in {"http", "h2"}
    /\ kind[c] = "http" => Running(c) = {}
    /\ serve' = [serve EXCEPT ![c] = "closeGet"]
    /\ sock' = [sock EXCEPT ![c] = "closed"]
    /\ UNCHANGED <<connVars, seen, stateVars, reqVars>>

\* A request of HTTP/1 is the preface of h2c or an upgrade to a WebSocket:
\* the connection is hijacked, and net/http reports StateHijacked.
Hijack(c) ==
    /\ sock[c] = "open"
    /\ serve[c] = "serving"
    /\ kind[c] = "http"
    /\ Running(c) = {}
    /\ serve' = [serve EXCEPT ![c] = "hijackGet"]
    /\ UNCHANGED <<connVars, sock, seen, stateVars, reqVars>>

\* OnStateChange: csMaps.get(key), and return if there is no entry.
OnStateChangeGet(c) ==
    /\ serve[c] \in {"hijackGet", "closeGet"}
    /\ \/ /\ get(c) = {}
          /\ serve' = [serve EXCEPT ![c] = IF @ = "hijackGet" THEN "taken" ELSE "done"]
          /\ UNCHANGED seen
       \/ \E d \in get(c) :
              /\ seen' = [seen EXCEPT ![c] = d]
              /\ serve' = [serve EXCEPT ![c] =
                              IF @ = "hijackGet" THEN "hijackApply" ELSE "closeApply"]
    /\ UNCHANGED <<connVars, sock, stateVars, reqVars>>

\* Mutated form of OnStateHijacked: the entry goes, as with StateClosed.
OnStateHijackedDel(c) ==
    /\ serve[c] = "hijackApply"
    /\ addTotalConns(c, -1)
    /\ del(c)
    /\ serve' = [serve EXCEPT ![c] = "taken"]
    /\ seen' = [seen EXCEPT ![c] = NoConn]
    /\ UNCHANGED <<connVars, sock, marked, once, reqVars>>

\* StateHijacked: the entry stays.
OnStateHijacked(c) ==
    /\ serve[c] = "hijackApply"
    /\ addTotalConns(c, -1)
    /\ serve' = [serve EXCEPT ![c] = "taken"]
    /\ seen' = [seen EXCEPT ![c] = NoConn]
    /\ UNCHANGED <<connVars, sock, csMap, marked, once, reqVars>>

\* StateClosed: updateState and the count ...
OnStateClosed(c) ==
    /\ serve[c] = "closeApply"
    /\ marked' = [marked EXCEPT ![seen[c]] = TRUE]
    /\ addTotalConns(c, -1)
    /\ serve' = [serve EXCEPT ![c] = "closeDel"]
    /\ seen' = [seen EXCEPT ![c] = NoConn]
    /\ UNCHANGED <<connVars, sock, csMap, once, reqVars>>

\* ... and then csMaps.del(key).
OnStateClosedDel(c) ==
    /\ serve[c] = "closeDel"
    /\ del(c)
    /\ serve' = [serve EXCEPT ![c] = "done"]
    /\ UNCHANGED <<connVars, sock, seen, marked, once, counted, reqVars>>

\* wsHandler leaves the connection to its pumps.
WsTakes(c) ==
    /\ serve[c] = "taken"
    /\ serve' = [serve EXCEPT ![c] = "ws"]
    /\ UNCHANGED <<connVars, sock, seen, stateVars, reqVars>>

\* initH2CWithPriorKnowledge reads the rest of the preface: the connection
\* counts again for as long as ServeConn runs.
H2cStarts(c) ==
    /\ serve[c] = "taken"
    /\ serve' = [serve EXCEPT ![c] = "h2c"]
    /\ proto' = [proto EXCEPT ![c] = "h2c"]
    /\ addTotalConns(c, 1)
    /\ UNCHANGED <<kind, addr, sock, seen, csMap, marked, once, reqVars>>

\* The preface is another one, and the connection is closed; or it cannot
\* be read, and the connection is left as it is.
H2cFails(c) ==
    /\ serve[c] = "taken"
    /\ serve' = [serve EXCEPT ![c] = "done"]
    /\ \/ sock' = [sock EXCEPT ![c] = "closed"]
       \/ sock[c] = "closed" /\ UNCHANGED sock
    /\ UNCHANGED <<connVars, seen, stateVars, reqVars>>

\* ServeConn returns: the count, and conn.Close().
H2cEnds(c) ==
    /\ serve[c] = "h2c"
    /\ serve' = [serve EXCEPT ![c] = "done"]
    /\ sock' = [sock EXCEPT ![c] = "closed"]
    /\ addTotalConns(c, -1)
    /\ UNCHANGED <<connVars, seen, csMap, marked, once, reqVars>>

\* Mutated form of GrpcClose: the count goes down without the Once.
GrpcCloseAlways(c) ==
    /\ serve[c] = "serving"
    /\ kind[c] = "grpc"
    /\ addTotalConns(c, -1)
    /\ sock' = [sock EXCEPT ![c] = "closed"]
    /\ serve' = [serve EXCEPT ![c] = "done"]
    /\ UNCHANGED <<connVars, seen, csMap, marked, once, reqVars>>

\* The gRPC stack calls grpcTrackedConn.Close.
GrpcClose(c) ==
    /\ serve[c] = "serving"
    /\ kind[c] = "grpc"
    /\ UseOnce(c)
    /\ sock' = [sock EXCEPT ![c] = "closed"]
    /\ serve' = [serve EXCEPT ![c] = "done"]
    /\ UNCHANGED <<connVars, seen, csMap, marked, reqVars>>

-----------------------------------------------------------------------------
disconnect(r) ==
    \/ DisconnectFind(r)
    \/ DisconnectClose(r)
    \/ DisconnectCount(r)
    \/ DisconnectDel(r)

OnStateChange(c) ==
    \/ OnStateChangeGet(c)
    \/ OnStateHijacked(c)
    \/ OnStateClosed(c)
    \/ OnStateClosedDel(c)

Taken(c) == WsTakes(c) \/ H2cStarts(c) \/ H2cFails(c)

Ends(c) == ServeEnds(c) \/ H2cEnds(c) \/ GrpcClose(c)

Next ==
    \/ \E c \in Conns :
           \/ \E k \in Kinds, a \in Addrs : Accept(c, k, a)
           \/ ClientCloses(c)
           \/ Hijack(c)
           \/ OnStateChange(c)
           \/ Taken(c)
           \/ Ends(c)
           \/ \E r \in Reqs : Request(r, c)
    \/ \E r \in Reqs : Finish(r) \/ disconnect(r)

(***************************************************************************)
(* Goroutines are scheduled fairly, handlers return, and who serves a      *)
(* connection notices that it is closed.                                   *)
(***************************************************************************)
Fairness ==
    /\ \A c \in Conns :
           /\ WF_vars(OnStateChange(c))
           /\ WF_vars(Taken(c))
           /\ WF_vars(sock[c] = "closed" /\ Ends(c))
    /\ \A r \in Reqs : WF_vars(Finish(r) \/ disconnect(r))

Spec == Init /\ [][Next]_vars

FairSpec == Spec /\ Fairness

-----------------------------------------------------------------------------
\* No other connection, to whichever server, has c's client address.
OwnAddress(c) == \A d \in Conns \ {c} : addr[d] # addr[c]

\* Whoever has c's client address is, like c, a gRPC connection.
GrpcAddress(c) ==
    \A d \in Conns : addr[d] = addr[c] => kind[d] = "grpc"

\* Nothing that changes what c counts for is under way.
Settled(c) ==
    /\ serve[c] \in {"none", "serving", "h2c", "ws", "done"}
    /\ \A r \in Reqs : found[r] # c

(***************************************************************************)
(* "sync.Once ensures the counter is decremented exactly once even if      *)
(* Close() is called multiple times or concurrently with disconnect()"     *)
(* (grpc.go:62), and the same of HTTP/1 and h2c, where the state of the    *)
(* entry and its absence take the place of the Once: an open connection    *)
(* whose requests are served counts for one, and one that is over, a       *)
(* WebSocket's too, for none.  Of an open WebSocket it says nothing        *)
(* (TotalConns).  It takes a client address that no other connection uses  *)
(* or, in gRPC, where the Once goes with the connection, that only gRPC    *)
(* uses again.                                                             *)
(***************************************************************************)
CountedOnce ==
    \A c \in Conns :
        Settled(c) /\ ((kind[c] = "http" /\ OwnAddress(c)) \/ GrpcAddress(c)) =>
            /\ sock[c] = "open" /\ serve[c] \in {"serving", "h2c"} => counted[c] = 1
            /\ sock[c] = "closed" /\ serve[c] \in {"ws", "done"} => counted[c] = 0

(***************************************************************************)
(* As long as a connection is open, hijacked or not, csMaps leads from its *)
(* client address to it, so that a request finds its own local address     *)
(* (setIPAddress) and disconnect the connection to close.  A client        *)
(* address that another connection uses loses its entry to the other's     *)
(* StateClosed or disconnect.                                              *)
(***************************************************************************)
Findable ==
    \A c \in Conns : sock[c] = "open" /\ OwnAddress(c) => getByRemoteAddr(c) = {c}

(***************************************************************************)
(* A request that asks for disconnect, over HTTP/1, h2, h2c or gRPC, from  *)
(* a client address that no other connection has, gets its connection      *)
(* closed, no longer served and out of csMaps, whatever the other requests *)
(* of the connection and its server do meanwhile.  It is about servers     *)
(* without -proxy (DisconnectClose).                                       *)
(***************************************************************************)
DisconnectEnds ==
    \A c \in Conns :
        OwnAddress(c) /\ (\E r \in Running(c) : step[r] = "close")
            ~> \/ sock[c] = "closed" /\ serve[c] = "done" /\ c \notin csMap
               \/ ~OwnAddress(c)

(***************************************************************************)
(* "total_conns - the number of TCP connections" (README.md:489), when     *)
(* nothing is under way and no two connections have one client address: it *)
(* is then not negative, and every open connection is in it.  An h2        *)
(* disconnect breaks the one and a WebSocket the other, so it is the       *)
(* weaker of the two that is stated, that one of them holds.               *)
(***************************************************************************)
Quiet ==
    \A c \in Conns :
        /\ Settled(c) /\ Running(c) = {}
        /\ sock[c] = "closed" => serve[c] \in {"ws", "done"}
        /\ sock[c] # "none" => OwnAddress(c)

TotalConns ==
    Quiet => \/ MapThenSumSet(LAMBDA c : counted[c], Conns) >= 0
             \/ \A c \in Conns : sock[c] = "open" => counted[c] = 1
=============================================================================
