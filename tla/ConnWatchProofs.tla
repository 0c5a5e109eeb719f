-------------------------- MODULE ConnWatchProofs --------------------------
(***************************************************************************)
(* Proofs about ConnWatch, for any connections, requests and addresses:    *)
(* types, that csMaps leads to every open connection, and that every       *)
(* connection is counted once.                                             *)
(***************************************************************************)
EXTENDS ConnWatch, TLAPS

(***************************************************************************)
(* The inductive invariant                                                 *)
(***************************************************************************)

\* A connection has its addresses, its protocol and a goroutine from Accept
\* on, and before it nothing.
Known(c) ==
    /\ sock[c] = "none" =>
           /\ kind[c] = "none" /\ addr[c] = NoAddr /\ serve[c] = "none"
           /\ counted[c] = 0 /\ ~once[c] /\ ~marked[c] /\ c \notin csMap
    /\ sock[c] # "none" =>
           addr[c] \in Addrs /\ kind[c] # "none" /\ serve[c] # "none"
    /\ proto[c] = kind[c] \/ (kind[c] = "http" /\ proto[c] = "h2c")

\* What the goroutine that serves a connection has done to it.
Served(c) ==
    /\ serve[c] \in {"closeGet", "closeApply", "closeDel", "done"} =>
           sock[c] = "closed"
    /\ kind[c] = "grpc" => serve[c] \in {"serving", "done"}
    /\ serve[c] \in {"hijackGet", "hijackApply", "taken", "ws", "h2c"} =>
           kind[c] = "http"
    /\ serve[c] = "h2c" => proto[c] = "h2c"
    /\ proto[c] = "h2c" => serve[c] \in {"h2c", "done"}
    /\ serve[c] \in {"hijackApply", "closeApply"} =>
           sock[seen[c]] # "none" /\ addr[seen[c]] = addr[c]

\* An open connection is in csMaps.
Entered(c) == sock[c] = "open" /\ OwnAddress(c) => c \in csMap

\* In gRPC the Once says whether the connection still counts.
GrpcCount(c) ==
    /\ once[c] => sock[c] = "closed"
    /\ kind[c] = "grpc" /\ serve[c] = "done" => once[c]
    /\ GrpcAddress(c) => counted[c] = IF once[c] THEN 0 ELSE 1

\* A disconnect has taken c off the count and not yet its entry off csMaps.
Uncounted(c) == \E r \in Reqs : of[r] = c /\ step[r] = "del"

\* In HTTP/1 and h2c it is where the goroutine that serves c is.
HttpCount(c) ==
    kind[c] = "http" /\ OwnAddress(c) =>
        /\ marked[c] => serve[c] \in {"closeDel", "done"}
        /\ serve[c] = "hijackGet" => c \in csMap /\ counted[c] = 1
        /\ serve[c] \in {"hijackApply", "h2c", "closeApply"} => counted[c] = 1
        /\ serve[c] \in {"taken", "ws", "closeDel", "done"} => counted[c] = 0
        /\ serve[c] = "closeGet" => counted[c] = IF c \in csMap THEN 1 ELSE 0
        /\ serve[c] = "serving" =>
               /\ counted[c] = IF c \in csMap /\ ~Uncounted(c) THEN 1 ELSE 0
               /\ \A r \in Reqs :
                      of[r] = c /\ step[r] \in {"close", "count", "del"} =>
                          c \in csMap

ConnInv(c) == Known(c) /\ Served(c) /\ Entered(c) /\ GrpcCount(c) /\ HttpCount(c)

\* A request belongs to a connection, finds one with its address and, if it
\* is its own, closes it; HTTP/1 runs one request at a time.
ReqInv(r) ==
    /\ step[r] = "idle" => of[r] = NoConn
    /\ step[r] # "idle" => of[r] \in Conns /\ sock[of[r]] # "none"
    /\ step[r] \in {"close", "count", "del"} =>
           sock[found[r]] # "none" /\ addr[found[r]] = addr[of[r]]
    /\ step[r] \in {"count", "del"} /\ found[r] = of[r] =>
           sock[found[r]] = "closed"
    /\ of[r] \in Conns /\ proto[of[r]] = "http" =>
           serve[of[r]] = "serving" /\ \A q \in Reqs : of[q] = of[r] => q = r

WatchInv ==
    /\ TypeOK
    /\ \A c \in Conns : ConnInv(c)
    /\ \A r \in Reqs : ReqInv(r)
-----------------------------------------------------------------------------
(***************************************************************************)
(* Type correctness                                                        *)
(***************************************************************************)

\* Nothing is accepted yet.
LEMMA InitType == Init => TypeOK
  BY DEF Init, TypeOK, AllKinds, ServeStates, StepStates

\* The steps of the goroutine that serves a connection keep the types.
LEMMA ServeType ==
  ASSUME TypeOK, NEW c \in Conns,
         \/ ClientCloses(c) \/ Hijack(c) \/ OnStateChange(c) \/ Taken(c) \/ Ends(c)
  PROVE  TypeOK'
<1> USE DEF TypeOK, connVars, watchVars, stateVars, reqVars, addTotalConns
<1>1. CASE ClientCloses(c) \/ Hijack(c)
  BY <1>1 DEF ClientCloses, Hijack, ServeStates
<1>2. CASE OnStateChangeGet(c)
  BY <1>2 DEF OnStateChangeGet, get, ServeStates
<1>3. CASE OnStateHijacked(c)
  BY <1>3 DEF OnStateHijacked, ServeStates
<1>4. CASE OnStateClosed(c)
  BY <1>4 DEF OnStateClosed, ServeStates
<1>5. CASE OnStateClosedDel(c)
  BY <1>5 DEF OnStateClosedDel, del, ServeStates
<1>6. CASE WsTakes(c) \/ H2cStarts(c) \/ H2cFails(c)
  BY <1>6 DEF WsTakes, H2cStarts, H2cFails, ServeStates
<1>7. CASE ServeEnds(c) \/ H2cEnds(c)
  BY <1>7 DEF ServeEnds, H2cEnds, ServeStates
<1>8. CASE GrpcClose(c)
  BY <1>8 DEF GrpcClose, UseOnce, ServeStates
<1> QED
  BY <1>1, <1>2, <1>3, <1>4, <1>5, <1>6, <1>7, <1>8
     DEF OnStateChange, Taken, Ends

\* A new connection and the steps of the requests keep the types.
LEMMA RequestType ==
  ASSUME TypeOK,
         \/ \E c \in Conns, k \in Kinds, a \in Addrs : Accept(c, k, a)
         \/ \E c \in Conns, r \in Reqs : Request(r, c)
         \/ \E r \in Reqs : Finish(r) \/ disconnect(r)
  PROVE  TypeOK'
<1> USE DEF TypeOK, connVars, watchVars, stateVars, reqVars, addTotalConns
<1>1. ASSUME NEW c \in Conns, NEW k \in Kinds, NEW a \in Addrs, Accept(c, k, a)
      PROVE  TypeOK'
  BY <1>1, KindsAssumption DEF Accept, ServeStates
<1>2. ASSUME NEW c \in Conns, NEW r \in Reqs, Request(r, c)
      PROVE  TypeOK'
  BY <1>2 DEF Request, StepStates
<1>3. ASSUME NEW r \in Reqs, Finish(r)
      PROVE  TypeOK'
  BY <1>3 DEF Finish, Return, StepStates
<1>4. ASSUME NEW r \in Reqs, DisconnectFind(r)
      PROVE  TypeOK'
  BY <1>4 DEF DisconnectFind, Return, getByRemoteAddr, StepStates
<1>5. ASSUME NEW r \in Reqs, DisconnectClose(r)
      PROVE  TypeOK'
  <2>1. found[r] \in Conns
    BY <1>5 DEF DisconnectClose
  <2>2. sock' \in [Conns -> {"none", "open", "closed"}]
    BY <1>5, <2>1 DEF DisconnectClose
  <2>3. once' \in [Conns -> BOOLEAN] /\ counted' \in [Conns -> Int]
    <3>1. UseOnce(found[r]) \/ UNCHANGED <<once, counted>>
      BY <1>5 DEF DisconnectClose
    <3>2. CASE UseOnce(found[r])
      <4>1. (IF once[found[r]] THEN 0 ELSE 1) \in Int
        OBVIOUS
      <4> QED
        BY <2>1, <3>2, <4>1 DEF UseOnce
    <3> QED
      BY <3>1, <3>2
  <2>4. /\ UNCHANGED <<kind, addr, proto, serve, seen, csMap, marked, of, found>>
        /\ step' = [step EXCEPT ![r] = "count"]
    BY <1>5 DEF DisconnectClose
  <2> QED
    BY <2>1, <2>2, <2>3, <2>4 DEF StepStates
<1>6. ASSUME NEW r \in Reqs, DisconnectCount(r)
      PROVE  TypeOK'
  BY <1>6 DEF DisconnectCount, StepStates
<1>7. ASSUME NEW r \in Reqs, DisconnectDel(r)
      PROVE  TypeOK'
  BY <1>7 DEF DisconnectDel, del, Return, StepStates
<1> QED
  BY <1>1, <1>2, <1>3, <1>4, <1>5, <1>6, <1>7 DEF disconnect

\* Every step keeps the types.
LEMMA NextType == TypeOK /\ [Next]_vars => TypeOK'
<1> SUFFICES ASSUME TypeOK, [Next]_vars PROVE TypeOK'
  OBVIOUS
<1>1. CASE UNCHANGED vars
  BY <1>1 DEF TypeOK, vars, connVars, watchVars, stateVars, reqVars
<1> QED
  BY <1>1, ServeType, RequestType DEF Next

(***************************************************************************)
(* Every reachable state is well typed; in particular disconnect           *)
(* (main.go:594) and OnStateChange (main.go:188) never go on with an entry *)
(* they did not find.                                                      *)
(***************************************************************************)
THEOREM TypeCorrect == Spec => []TypeOK
  BY InitType, NextType, PTL DEF Spec
-----------------------------------------------------------------------------
(***************************************************************************)
(* Steps of the goroutine that serves a connection                         *)
(***************************************************************************)

(***************************************************************************)
(* Such a step changes its own connection, and of the others at most the   *)
(* entry and the state of those with the same address: it is enough to     *)
(* look at its own.                                                        *)
(***************************************************************************)
LEMMA OwnStep ==
  ASSUME WatchInv, TypeOK', NEW c \in Conns, sock[c] # "none",
         UNCHANGED <<kind, addr, of, step, found>>,
         \A d \in Conns \ {c} :
             /\ sock'[d] = sock[d] /\ proto'[d] = proto[d]
             /\ serve'[d] = serve[d] /\ seen'[d] = seen[d]
             /\ once'[d] = once[d] /\ counted'[d] = counted[d]
             /\ addr[d] # addr[c] =>
                    marked'[d] = marked[d] /\ (d \in csMap' <=> d \in csMap),
         csMap' \subseteq csMap,
         sock'[c] = sock[c] \/ sock'[c] = "closed",
         proto'[c] = "http" => proto[c] = "http",
         serve[c] = "serving" /\ serve'[c] # "serving" =>
             proto[c] # "http" \/ Running(c) = {},
         ConnInv(c)'
  PROVE  WatchInv'
<1>1. \A x \in Conns : /\ sock'[x] = "none" <=> sock[x] = "none"
                       /\ sock[x] = "closed" => sock'[x] = "closed"
  OBVIOUS
<1>2. ASSUME NEW d \in Conns \ {c} PROVE ConnInv(d)'
  <2>1. ConnInv(d)
    BY DEF WatchInv
  <2>2. /\ OwnAddress(d)' <=> OwnAddress(d)
        /\ GrpcAddress(d)' <=> GrpcAddress(d)
        /\ Uncounted(d)' <=> Uncounted(d)
        /\ OwnAddress(d) => addr[d] # addr[c]
    BY DEF OwnAddress, GrpcAddress, Uncounted
  <2>3. Entered(d)' /\ GrpcCount(d)'
    BY <2>1, <2>2 DEF ConnInv, Entered, GrpcCount
  <2>6. Known(d)'
    <3>1. sock[d] = "none" => addr[d] # addr[c]
      BY <2>1, AddrsAssumption DEF WatchInv, ConnInv, Known
    <3> QED
      BY <2>1, <3>1 DEF ConnInv, Known
  <2>4. Served(d)'
    BY <1>1, <2>1 DEF ConnInv, Served, WatchInv, TypeOK
  <2>5. HttpCount(d)'
    BY <2>1, <2>2 DEF ConnInv, HttpCount
  <2> QED
    BY <2>3, <2>4, <2>5, <2>6 DEF ConnInv
<1>3. ASSUME NEW r \in Reqs PROVE ReqInv(r)'
  <2>1. ReqInv(r)
    BY DEF WatchInv
  <2>2. step[r] \in {"close", "count", "del"} => found[r] \in Conns
    BY DEF WatchInv, TypeOK
  <2>3. of[r] \in Conns /\ proto'[of[r]] = "http" => serve'[of[r]] = "serving"
    BY <2>1 DEF ReqInv, Running
  <2>4. of[r] \in Conns /\ proto'[of[r]] = "http" => proto[of[r]] = "http"
    OBVIOUS
  <2> QED
    BY <1>1, <2>1, <2>2, <2>3, <2>4 DEF ReqInv
<1> QED
  BY <1>2, <1>3 DEF WatchInv

\* The client closes, or net/http goes on to a hijack or an end.
LEMMA EndsBegin ==
  ASSUME WatchInv, NEW c \in Conns, ClientCloses(c) \/ Hijack(c) \/ ServeEnds(c)
  PROVE  WatchInv'
<1> USE DEF connVars, watchVars, stateVars, reqVars
<1>0. TypeOK /\ TypeOK' /\ ConnInv(c)
  BY ServeType DEF WatchInv, Ends
<1>1. /\ UNCHANGED <<kind, addr, proto, of, step, found, seen, csMap, marked,
                     once, counted>>
      /\ sock[c] # "none"
  BY <1>0 DEF ClientCloses, Hijack, ServeEnds, ConnInv, Known
<1>2. /\ \A d \in Conns \ {c} : sock'[d] = sock[d] /\ serve'[d] = serve[d]
      /\ \/ sock'[c] = "closed" /\ serve'[c] = serve[c] /\ sock[c] = "open"
         \/ /\ sock'[c] = sock[c] /\ sock[c] = "open" /\ serve'[c] = "hijackGet"
            /\ serve[c] = "serving" /\ kind[c] = "http" /\ Running(c) = {}
         \/ /\ sock'[c] = "closed" /\ serve'[c] = "closeGet" /\ serve[c] = "serving"
            /\ kind[c] \in {"http", "h2"}
            /\ kind[c] = "http" => Running(c) = {}
  BY <1>0 DEF ClientCloses, Hijack, ServeEnds, TypeOK
<1>3. /\ OwnAddress(c)' <=> OwnAddress(c)
      /\ GrpcAddress(c)' <=> GrpcAddress(c)
      /\ Uncounted(c)' <=> Uncounted(c)
  BY <1>1 DEF OwnAddress, GrpcAddress, Uncounted
<1>4. Running(c) = {} => ~Uncounted(c)
  BY DEF Running, Uncounted
<1>5. Known(c)' /\ Entered(c)' /\ GrpcCount(c)'
  BY <1>0, <1>1, <1>2, <1>3 DEF ConnInv, Known, Entered, GrpcCount
<1>6. Served(c)'
  <2>1. serve[c] \in {"hijackApply", "closeApply"} => seen[c] \in Conns
    BY <1>0 DEF TypeOK
  <2>2. sock[seen[c]] # "none" /\ seen[c] \in Conns => sock'[seen[c]] # "none"
    BY <1>2
  <2> QED
    BY <1>0, <1>1, <1>2, <2>1, <2>2 DEF ConnInv, Served, Known
<1>7. HttpCount(c)'
  BY <1>0, <1>1, <1>2, <1>3, <1>4 DEF ConnInv, HttpCount, Entered
<1>8. ConnInv(c)'
  BY <1>5, <1>6, <1>7 DEF ConnInv
<1>9. serve[c] = "serving" /\ serve'[c] # "serving" =>
          proto[c] # "http" \/ Running(c) = {}
  BY <1>0, <1>2 DEF ConnInv, Known
<1> QED
  BY <1>0, <1>1, <1>2, <1>8, <1>9, OwnStep

\* OnStateChange looks for its entry.  An entry under c's addresses is c's
\* own unless another connection has them.
LEMMA GetStep ==
  ASSUME WatchInv, NEW c \in Conns, OnStateChangeGet(c)
  PROVE  WatchInv'
<1> USE DEF connVars, watchVars, stateVars, reqVars
<1>0. TypeOK /\ TypeOK' /\ ConnInv(c)
  BY ServeType DEF WatchInv, OnStateChange
<1>1. /\ UNCHANGED <<kind, addr, proto, sock, of, step, found, csMap, marked,
                     once, counted>>
      /\ sock[c] # "none"
      /\ serve[c] \in {"hijackGet", "closeGet"}
  BY <1>0 DEF OnStateChangeGet, ConnInv, Known
<1>2. /\ \A d \in Conns \ {c} : serve'[d] = serve[d] /\ seen'[d] = seen[d]
      /\ \/ /\ get(c) = {}
            /\ serve'[c] = IF serve[c] = "hijackGet" THEN "taken" ELSE "done"
         \/ /\ seen'[c] \in get(c)
            /\ serve'[c] = IF serve[c] = "hijackGet"
                           THEN "hijackApply" ELSE "closeApply"
  BY <1>0 DEF OnStateChangeGet, TypeOK
<1>3. /\ OwnAddress(c)' <=> OwnAddress(c)
      /\ GrpcAddress(c)' <=> GrpcAddress(c)
  BY <1>1 DEF OwnAddress, GrpcAddress
<1>4. /\ c \in csMap => get(c) # {}
      /\ OwnAddress(c) /\ get(c) # {} => c \in csMap
  BY <1>0 DEF get, OwnAddress, TypeOK
<1>5. \A d \in get(c) : sock[d] # "none" /\ addr[d] = addr[c]
  <2>1. ASSUME NEW d \in get(c) PROVE sock[d] # "none" /\ addr[d] = addr[c]
    <3>1. d \in csMap /\ d \in Conns /\ addr[d] = addr[c]
      BY <1>0 DEF get, TypeOK
    <3> QED
      BY <3>1 DEF WatchInv, ConnInv, Known
  <2> QED
    BY <2>1
<1>6. Known(c)' /\ Entered(c)'
  BY <1>0, <1>1, <1>2, <1>3 DEF ConnInv, Known, Entered
<1>7. GrpcCount(c)' /\ Served(c)'
  BY <1>0, <1>1, <1>2, <1>3, <1>5 DEF ConnInv, GrpcCount, Served
<1>8. HttpCount(c)'
  BY <1>0, <1>1, <1>2, <1>3, <1>4 DEF ConnInv, HttpCount
<1>9. ConnInv(c)'
  BY <1>6, <1>7, <1>8 DEF ConnInv
<1> QED
  BY <1>0, <1>1, <1>2, <1>9, OwnStep

\* OnStateChange applies the state to the entry it has.
LEMMA ApplyStep ==
  ASSUME WatchInv, NEW c \in Conns,
         OnStateHijacked(c) \/ OnStateClosed(c) \/ OnStateClosedDel(c)
  PROVE  WatchInv'
<1> USE DEF connVars, watchVars, stateVars, reqVars, addTotalConns
<1>0. TypeOK /\ TypeOK' /\ ConnInv(c)
  BY ServeType DEF WatchInv, OnStateChange
<1>1. /\ UNCHANGED <<kind, addr, proto, sock, of, step, found, once>>
      /\ sock[c] # "none"
      /\ serve[c] \in {"hijackApply", "closeApply", "closeDel"}
  BY <1>0 DEF OnStateHijacked, OnStateClosed, OnStateClosedDel, ConnInv, Known
<1>2. /\ \A d \in Conns \ {c} :
             serve'[d] = serve[d] /\ seen'[d] = seen[d] /\ counted'[d] = counted[d]
      /\ \/ /\ serve[c] = "hijackApply" /\ serve'[c] = "taken"
            /\ counted'[c] = counted[c] - 1 /\ UNCHANGED <<csMap, marked>>
         \/ /\ serve[c] = "closeApply" /\ serve'[c] = "closeDel"
            /\ counted'[c] = counted[c] - 1 /\ UNCHANGED csMap
            /\ \A d \in Conns \ {seen[c]} : marked'[d] = marked[d]
            /\ addr[seen[c]] = addr[c]
         \/ /\ serve[c] = "closeDel" /\ serve'[c] = "done"
            /\ counted'[c] = counted[c] /\ UNCHANGED marked
            /\ csMap' = csMap \ get(c)
  BY <1>0 DEF OnStateHijacked, OnStateClosed, OnStateClosedDel, del, TypeOK,
     ConnInv, Served
<1>3. /\ OwnAddress(c)' <=> OwnAddress(c)
      /\ GrpcAddress(c)' <=> GrpcAddress(c)
  BY <1>1 DEF OwnAddress, GrpcAddress
<1>4. /\ csMap' \subseteq csMap
      /\ \A d \in Conns : addr[d] # addr[c] =>
             marked'[d] = marked[d] /\ (d \in csMap' <=> d \in csMap)
  BY <1>2 DEF get
<1>5. kind[c] # "grpc"
  BY <1>0, <1>1 DEF ConnInv, Served
<1>6. Known(c)' /\ Served(c)'
  BY <1>0, <1>1, <1>2 DEF ConnInv, Known, Served
<1>7. GrpcCount(c)' /\ Entered(c)'
  BY <1>0, <1>1, <1>2, <1>3, <1>5
     DEF ConnInv, GrpcCount, Served, Entered, GrpcAddress
<1>8. HttpCount(c)'
  BY <1>0, <1>1, <1>2, <1>3 DEF ConnInv, HttpCount
<1>9. ConnInv(c)'
  BY <1>6, <1>7, <1>8 DEF ConnInv
<1> QED
  BY <1>0, <1>1, <1>2, <1>4, <1>9, OwnStep

\* A hijacked connection becomes a WebSocket's or h2c's, or h2c ends.
LEMMA TakenStep ==
  ASSUME WatchInv, NEW c \in Conns, Taken(c) \/ H2cEnds(c)
  PROVE  WatchInv'
<1> USE DEF connVars, watchVars, stateVars, reqVars, addTotalConns
<1>0. TypeOK /\ TypeOK' /\ ConnInv(c)
  BY ServeType DEF WatchInv, Ends
<1>1. /\ UNCHANGED <<kind, addr, of, step, found, once, seen, csMap, marked>>
      /\ sock[c] # "none"
      /\ serve[c] \in {"taken", "h2c"}
  BY <1>0 DEF Taken, WsTakes, H2cStarts, H2cFails, H2cEnds, ConnInv, Known
<1>2. /\ \A d \in Conns \ {c} :
             /\ serve'[d] = serve[d] /\ sock'[d] = sock[d]
             /\ proto'[d] = proto[d] /\ counted'[d] = counted[d]
      /\ \/ /\ serve[c] = "taken" /\ serve'[c] = "ws" /\ sock'[c] = sock[c]
            /\ proto'[c] = proto[c] /\ counted'[c] = counted[c]
         \/ /\ serve[c] = "taken" /\ serve'[c] = "h2c" /\ sock'[c] = sock[c]
            /\ proto'[c] = "h2c" /\ counted'[c] = counted[c] + 1
         \/ /\ serve[c] = "taken" /\ serve'[c] = "done" /\ sock'[c] = "closed"
            /\ proto'[c] = proto[c] /\ counted'[c] = counted[c]
         \/ /\ serve[c] = "h2c" /\ serve'[c] = "done" /\ sock'[c] = "closed"
            /\ proto'[c] = proto[c] /\ counted'[c] = counted[c] - 1
  BY <1>0 DEF Taken, WsTakes, H2cStarts, H2cFails, H2cEnds, TypeOK
<1>3. /\ OwnAddress(c)' <=> OwnAddress(c)
      /\ GrpcAddress(c)' <=> GrpcAddress(c)
  BY <1>1 DEF OwnAddress, GrpcAddress
<1>4. kind[c] = "http"
  BY <1>0, <1>1 DEF ConnInv, Served, Known
<1>5. Known(c)' /\ Served(c)'
  BY <1>0, <1>1, <1>2, <1>4 DEF ConnInv, Known, Served
<1>6. GrpcCount(c)' /\ Entered(c)'
  BY <1>0, <1>1, <1>2, <1>3, <1>4
     DEF ConnInv, GrpcCount, Entered, GrpcAddress
<1>7. HttpCount(c)'
  BY <1>0, <1>1, <1>2, <1>3 DEF ConnInv, HttpCount
<1>8. ConnInv(c)'
  BY <1>5, <1>6, <1>7 DEF ConnInv
<1> QED
  BY <1>0, <1>1, <1>2, <1>8, OwnStep

\* grpcTrackedConn.Close.
LEMMA GrpcCloseStep ==
  ASSUME WatchInv, NEW c \in Conns, GrpcClose(c)
  PROVE  WatchInv'
<1> USE DEF connVars, watchVars, stateVars, reqVars
<1>0. TypeOK /\ TypeOK' /\ ConnInv(c)
  BY ServeType DEF WatchInv, Ends
<1>1. /\ UNCHANGED <<kind, addr, proto, of, step, found, seen, csMap, marked>>
      /\ sock[c] # "none" /\ serve[c] = "serving" /\ kind[c] = "grpc"
      /\ proto[c] = "grpc"
  BY <1>0 DEF GrpcClose, ConnInv, Known
<1>2. /\ \A d \in Conns \ {c} :
             /\ serve'[d] = serve[d] /\ sock'[d] = sock[d]
             /\ once'[d] = once[d] /\ counted'[d] = counted[d]
      /\ serve'[c] = "done" /\ sock'[c] = "closed" /\ once'[c] = TRUE
      /\ counted'[c] = counted[c] - (IF once[c] THEN 0 ELSE 1)
  BY <1>0 DEF GrpcClose, UseOnce, TypeOK
<1>3. GrpcAddress(c)' <=> GrpcAddress(c)
  BY <1>1 DEF GrpcAddress
<1>4. ConnInv(c)'
  BY <1>0, <1>1, <1>2, <1>3
     DEF ConnInv, Known, Served, GrpcCount, Entered, HttpCount
<1> QED
  BY <1>0, <1>1, <1>2, <1>4, OwnStep
-----------------------------------------------------------------------------
(***************************************************************************)
(* A new connection                                                        *)
(***************************************************************************)

\* Accept takes the address from whoever had it, and its entry.
LEMMA AcceptStep ==
  ASSUME WatchInv, NEW c \in Conns, NEW k \in Kinds, NEW a \in Addrs,
         Accept(c, k, a)
  PROVE  WatchInv'
<1> USE DEF connVars, watchVars, stateVars, reqVars, addTotalConns
<1>0. TypeOK /\ TypeOK' /\ ConnInv(c)
  BY RequestType DEF WatchInv
<1>1. /\ UNCHANGED <<seen, marked, once, of, step, found>>
      /\ sock[c] = "none"
      /\ csMap' = {d \in csMap : addr[d] # a \/ kind[d] # k} \union {c}
      /\ \A d \in Conns : kind[d] = k /\ addr[d] = a => sock[d] = "closed"
      /\ k \in AllKinds
  BY KindsAssumption DEF Accept
<1>2. /\ \A d \in Conns \ {c} :
             /\ kind'[d] = kind[d] /\ addr'[d] = addr[d] /\ proto'[d] = proto[d]
             /\ sock'[d] = sock[d] /\ serve'[d] = serve[d]
             /\ counted'[d] = counted[d]
      /\ kind'[c] = k /\ addr'[c] = a /\ proto'[c] = k /\ sock'[c] = "open"
      /\ serve'[c] = "serving" /\ counted'[c] = counted[c] + 1
  BY <1>0 DEF Accept, TypeOK
<1>3. \A r \in Reqs : of[r] # c
  BY <1>1, ConnsAssumption DEF WatchInv, ReqInv
<1>4. ConnInv(c)'
  <2>1. Known(c)' /\ Served(c)' /\ Entered(c)' /\ GrpcCount(c)'
    BY <1>0, <1>1, <1>2 DEF ConnInv, Known, Served, Entered, GrpcCount, AllKinds
  <2>2. HttpCount(c)'
    BY <1>0, <1>1, <1>2, <1>3 DEF ConnInv, Known, HttpCount, Uncounted
  <2> QED
    BY <2>1, <2>2 DEF ConnInv
<1>5. ASSUME NEW d \in Conns \ {c} PROVE ConnInv(d)'
  <2>1. ConnInv(d)
    BY DEF WatchInv
  <2>2. CASE sock[d] = "none"
    <3>1. ~GrpcAddress(d)'
      BY <1>2, <2>1, <2>2 DEF ConnInv, Known, GrpcAddress
    <3> QED
      BY <1>1, <1>2, <2>1, <2>2, <3>1
         DEF ConnInv, Known, Served, Entered, GrpcCount, HttpCount
  <2>3. CASE sock[d] # "none"
    <3>1. /\ OwnAddress(d)' => OwnAddress(d) /\ addr[d] # a
          /\ GrpcAddress(d)' => GrpcAddress(d)
      BY <1>0, <1>1, <1>2, <2>1, <2>3, AddrsAssumption
         DEF ConnInv, Known, OwnAddress, GrpcAddress
    <3>2. Known(d)' /\ GrpcCount(d)' /\ Entered(d)'
      BY <1>1, <1>2, <2>1, <2>3, <3>1 DEF ConnInv, Known, GrpcCount, Entered
    <3>3. Served(d)'
      <4>1. serve[d] \in {"hijackApply", "closeApply"} =>
                seen[d] \in Conns \ {c}
        BY <1>0, <1>1, <2>1 DEF TypeOK, ConnInv, Served
      <4> QED
        BY <1>1, <1>2, <2>1, <4>1 DEF ConnInv, Served
    <3>4. HttpCount(d)'
      <4>1. Uncounted(d)' <=> Uncounted(d)
        BY <1>1 DEF Uncounted
      <4>2. addr[d] # a => (d \in csMap' <=> d \in csMap)
        BY <1>1
      <4> QED
        BY <1>1, <1>2, <2>1, <3>1, <4>1, <4>2 DEF ConnInv, HttpCount
    <3> QED
      BY <3>2, <3>3, <3>4 DEF ConnInv
  <2> QED
    BY <2>2, <2>3
<1>6. ASSUME NEW r \in Reqs PROVE ReqInv(r)'
  <2>1. ReqInv(r)
    BY DEF WatchInv
  <2>2. step[r] \in {"close", "count", "del"} => found[r] \in Conns \ {c}
    BY <1>0, <1>1, <2>1 DEF TypeOK, ReqInv
  <2> QED
    BY <1>1, <1>2, <1>3, <2>1, <2>2 DEF ReqInv
<1> QED
  BY <1>0, <1>4, <1>5, <1>6 DEF WatchInv
-----------------------------------------------------------------------------
(***************************************************************************)
(* Requests                                                                *)
(***************************************************************************)

\* What a request does to itself: its connection has no other address.
LEMMA FoundOwn ==
  ASSUME WatchInv, NEW r \in Reqs, step[r] \in {"close", "count", "del"}
  PROVE  /\ of[r] \in Conns /\ found[r] \in Conns
         /\ addr[found[r]] = addr[of[r]]
         /\ \A x \in Conns : OwnAddress(x) => (of[r] = x <=> found[r] = x)
<1>1. /\ of[r] \in Conns /\ found[r] \in Conns
      /\ addr[found[r]] = addr[of[r]]
  BY DEF WatchInv, ReqInv, TypeOK
<1> QED
  BY <1>1 DEF OwnAddress

\* A request begins or ends, or looks for the entry of its address.
LEMMA SearchStep ==
  ASSUME WatchInv, NEW r \in Reqs,
         (\E c \in Conns : Request(r, c)) \/ Finish(r) \/ DisconnectFind(r)
  PROVE  WatchInv'
<1> USE DEF connVars, watchVars, stateVars, reqVars
<1>0. TypeOK /\ TypeOK'
  BY RequestType DEF WatchInv, disconnect
<1>1. UNCHANGED <<kind, addr, proto, sock, serve, seen, csMap, marked, once,
                  counted>>
  BY DEF Request, Finish, DisconnectFind
<1>2. \A q \in Reqs \ {r} :
          of'[q] = of[q] /\ step'[q] = step[q] /\ found'[q] = found[q]
  BY <1>0 DEF Request, Finish, DisconnectFind, Return, TypeOK
<1>3. /\ step[r] \in {"idle", "run"}
      /\ \/ step'[r] = "idle" /\ of'[r] = NoConn
         \/ /\ step[r] = "idle" /\ step'[r] = "run" /\ of'[r] \in Conns
            /\ sock[of'[r]] = "open" /\ serve[of'[r]] \in {"serving", "h2c"}
            /\ proto[of'[r]] = "http" => Running(of'[r]) = {}
         \/ /\ step[r] = "run" /\ step'[r] = "close" /\ of'[r] = of[r]
            /\ found'[r] \in csMap /\ addr[found'[r]] = addr[of[r]]
  BY <1>0 DEF Request, Finish, DisconnectFind, Return, getByRemoteAddr, TypeOK
<1>4. ASSUME NEW c \in Conns PROVE ConnInv(c)'
  <2>1. ConnInv(c)
    BY DEF WatchInv
  <2>2. /\ OwnAddress(c)' <=> OwnAddress(c)
        /\ GrpcAddress(c)' <=> GrpcAddress(c)
    BY <1>1 DEF OwnAddress, GrpcAddress
  <2>3. Uncounted(c)' <=> Uncounted(c)
    BY <1>2, <1>3 DEF Uncounted
  <2>4. Known(c)' /\ Served(c)' /\ Entered(c)' /\ GrpcCount(c)'
    BY <1>1, <2>1, <2>2 DEF ConnInv, Known, Served, Entered, GrpcCount
  <2>5. OwnAddress(c) /\ of'[r] = c /\ step'[r] \in {"close", "count", "del"}
            => c \in csMap
    BY <1>0, <1>3 DEF OwnAddress, TypeOK
  <2>6. HttpCount(c)'
    BY <1>1, <1>2, <2>1, <2>2, <2>3, <2>5 DEF ConnInv, HttpCount
  <2> QED
    BY <2>4, <2>6 DEF ConnInv
<1>5. ReqInv(r)'
  <2>1. ReqInv(r)
    BY DEF WatchInv
  <2>2. CASE step'[r] = "idle" /\ of'[r] = NoConn
    BY <2>2, ConnsAssumption DEF ReqInv
  <2>3. CASE /\ step'[r] = "run" /\ of'[r] \in Conns
             /\ sock[of'[r]] = "open" /\ serve[of'[r]] \in {"serving", "h2c"}
             /\ proto[of'[r]] = "http" => Running(of'[r]) = {}
    <3>1. serve[of'[r]] = "h2c" => proto[of'[r]] = "h2c"
      BY <2>3 DEF WatchInv, ConnInv, Served
    <3>2. proto[of'[r]] = "http" => \A q \in Reqs : of'[q] = of'[r] => q = r
      BY <1>2, <2>3 DEF Running
    <3> QED
      BY <1>1, <2>3, <3>1, <3>2 DEF ReqInv
  <2>4. CASE /\ step[r] = "run" /\ step'[r] = "close" /\ of'[r] = of[r]
             /\ found'[r] \in csMap /\ addr[found'[r]] = addr[of[r]]
    <3>1. sock[found'[r]] # "none"
      BY <1>0, <2>4 DEF WatchInv, ConnInv, Known, TypeOK
    <3> QED
      BY <1>1, <1>2, <2>1, <2>4, <3>1 DEF ReqInv
  <2> QED
    BY <1>3, <2>2, <2>3, <2>4
<1>6. ASSUME NEW q \in Reqs \ {r} PROVE ReqInv(q)'
  <2>1. ReqInv(q) /\ ReqInv(r)
    BY DEF WatchInv
  <2>2. of[q] \in Conns /\ of'[r] = of[q] => of[r] = of[q] \/ proto[of[q]] # "http"
    BY <1>3, ConnsAssumption DEF Running
  <2> QED
    BY <1>1, <1>2, <2>1, <2>2 DEF ReqInv
<1> QED
  BY <1>0, <1>4, <1>5, <1>6 DEF WatchInv

\* closeConnection: the entry's connection is closed, except that of a gRPC
\* connection by a request that is not gRPC's, and so not its own.
LEMMA CloseStep ==
  ASSUME WatchInv, NEW r \in Reqs, DisconnectClose(r)
  PROVE  WatchInv'
<1> DEFINE d == found[r]
<1> USE DEF connVars, watchVars, stateVars, reqVars
<1>0. TypeOK /\ TypeOK'
  BY RequestType DEF WatchInv, disconnect
<1>1. /\ UNCHANGED <<kind, addr, proto, serve, seen, csMap, marked, of, found>>
      /\ step[r] = "close" /\ step'[r] = "count"
      /\ \A q \in Reqs \ {r} : step'[q] = step[q]
  BY <1>0 DEF DisconnectClose, TypeOK
<1>2. /\ d \in Conns /\ of[r] \in Conns /\ sock[d] # "none"
      /\ ConnInv(d) /\ ConnInv(of[r]) /\ ReqInv(r)
  BY <1>1, FoundOwn DEF WatchInv, ReqInv
<1>3. /\ \A x \in Conns \ {d} :
             sock'[x] = sock[x] /\ once'[x] = once[x] /\ counted'[x] = counted[x]
      /\ \/ /\ kind[d] = "grpc" /\ sock'[d] = "closed" /\ once'[d] = TRUE
            /\ counted'[d] = counted[d] - (IF once[d] THEN 0 ELSE 1)
         \/ /\ kind[d] = "grpc" /\ proto[of[r]] # "grpc" /\ sock'[d] = sock[d]
            /\ once'[d] = once[d] /\ counted'[d] = counted[d]
         \/ /\ kind[d] # "grpc" /\ sock'[d] = "closed"
            /\ once'[d] = once[d] /\ counted'[d] = counted[d]
  BY <1>0, <1>2 DEF DisconnectClose, UseOnce, TypeOK
<1>4. \A x \in Conns : /\ sock'[x] = "none" <=> sock[x] = "none"
                       /\ sock[x] = "closed" => sock'[x] = "closed"
                       /\ sock'[x] = "open" => sock[x] = "open"
  BY <1>2, <1>3
<1>5. ASSUME NEW x \in Conns PROVE ConnInv(x)'
  <2>1. ConnInv(x)
    BY DEF WatchInv
  <2>2. /\ OwnAddress(x)' <=> OwnAddress(x)
        /\ GrpcAddress(x)' <=> GrpcAddress(x)
        /\ GrpcAddress(x) => kind[x] = "grpc"
    BY <1>1 DEF OwnAddress, GrpcAddress
  <2>3. Uncounted(x)' <=> Uncounted(x)
    BY <1>1 DEF Uncounted
  <2>4. Known(x)' /\ Entered(x)'
    BY <1>1, <1>2, <1>3, <1>4, <2>1, <2>2 DEF ConnInv, Known, Entered
  <2>5. Served(x)'
    BY <1>0, <1>1, <1>4, <2>1 DEF ConnInv, Served, TypeOK
  <2>6. GrpcCount(x)'
    BY <1>1, <1>3, <1>4, <2>1, <2>2 DEF ConnInv, GrpcCount
  <2>7. HttpCount(x)'
    <3>1. kind[x] = "http" => counted'[x] = counted[x]
      BY <1>3
    <3>2. \A q \in Reqs : step'[q] \in {"close", "count", "del"} =>
              step[q] \in {"close", "count", "del"}
      BY <1>1
    <3> QED
      BY <1>1, <2>1, <2>2, <2>3, <3>1, <3>2 DEF ConnInv, HttpCount
  <2> QED
    BY <2>4, <2>5, <2>6, <2>7 DEF ConnInv
<1>6. ReqInv(r)'
  <2>1. d = of[r] => sock'[d] = "closed"
    BY <1>2, <1>3 DEF ConnInv, Known
  <2> QED
    BY <1>1, <1>2, <1>4, <2>1 DEF ReqInv
<1>7. ASSUME NEW q \in Reqs \ {r} PROVE ReqInv(q)'
  <2>1. ReqInv(q) /\ (step[q] \in {"close", "count", "del"} => found[q] \in Conns)
    BY DEF WatchInv, TypeOK
  <2> QED
    BY <1>1, <1>4, <2>1 DEF ReqInv
<1> QED
  BY <1>0, <1>5, <1>6, <1>7 DEF WatchInv

\* disconnect's own decrement: only an HTTP/1 or h2 request counts down, and
\* the goroutine that serves an HTTP/1 connection waits for its request.
LEMMA CountStep ==
  ASSUME WatchInv, NEW r \in Reqs, DisconnectCount(r)
  PROVE  WatchInv'
<1> DEFINE d == found[r]
<1> USE DEF connVars, watchVars, stateVars, reqVars, addTotalConns
<1>0. TypeOK /\ TypeOK'
  BY RequestType DEF WatchInv, disconnect
<1>1. /\ UNCHANGED <<kind, addr, proto, sock, serve, seen, csMap, marked, once,
                     of, found>>
      /\ step[r] = "count" /\ step'[r] = "del"
      /\ \A q \in Reqs \ {r} : step'[q] = step[q]
  BY <1>0 DEF DisconnectCount, TypeOK
<1>2. /\ d \in Conns /\ of[r] \in Conns /\ addr[d] = addr[of[r]]
      /\ \A x \in Conns : OwnAddress(x) => (of[r] = x <=> found[r] = x)
  BY <1>1, FoundOwn
<1>3. ConnInv(d) /\ ConnInv(of[r]) /\ ReqInv(r) /\ sock[d] # "none"
  BY <1>1, <1>2 DEF WatchInv, ReqInv
<1>4. /\ \A x \in Conns \ {d} : counted'[x] = counted[x]
      /\ counted'[d] = IF proto[of[r]] \notin {"grpc", "h2c"} /\ ~marked[d]
                       THEN counted[d] - 1 ELSE counted[d]
  BY <1>0, <1>2 DEF DisconnectCount, TypeOK
<1>5. ASSUME NEW x \in Conns PROVE ConnInv(x)'
  <2>1. ConnInv(x)
    BY DEF WatchInv
  <2>2. /\ OwnAddress(x)' <=> OwnAddress(x)
        /\ GrpcAddress(x)' <=> GrpcAddress(x)
    BY <1>1 DEF OwnAddress, GrpcAddress
  <2>3. Known(x)' /\ Entered(x)' /\ Served(x)'
    BY <1>1, <1>3, <1>4, <2>1, <2>2 DEF ConnInv, Known, Entered, Served
  <2>4. GrpcCount(x)'
    <3>1. GrpcAddress(x) => counted'[x] = counted[x]
      BY <1>2, <1>3, <1>4 DEF GrpcAddress, ConnInv, Known
    <3> QED
      BY <1>1, <2>1, <2>2, <3>1 DEF ConnInv, GrpcCount
  <2>5. HttpCount(x)'
    <3> SUFFICES ASSUME kind[x] = "http", OwnAddress(x) PROVE HttpCount(x)'
      BY <1>1, <2>2 DEF HttpCount
    <3>1. CASE x # d
      <4>1. Uncounted(x)' <=> Uncounted(x)
        BY <1>1, <1>2, <3>1 DEF Uncounted
      <4> QED
        BY <1>1, <1>4, <2>1, <3>1, <4>1 DEF ConnInv, HttpCount
    <3>2. CASE x = d /\ proto[x] = "http"
      <4>1. /\ of[r] = x /\ serve[x] = "serving"
            /\ \A q \in Reqs : of[q] = x => q = r
        BY <1>2, <1>3, <3>2 DEF ReqInv
      <4>2. x \in csMap /\ ~Uncounted(x) /\ ~marked[x] /\ counted[x] = 1
        BY <1>1, <2>1, <4>1 DEF ConnInv, HttpCount, Uncounted
      <4>3. Uncounted(x)'
        BY <1>1, <4>1 DEF Uncounted
      <4> QED
        BY <1>1, <1>4, <3>2, <4>1, <4>2, <4>3 DEF HttpCount
    <3>3. CASE x = d /\ proto[x] # "http"
      <4>1. proto[x] = "h2c" /\ serve[x] \in {"h2c", "done"} /\ of[r] = x
        BY <1>2, <2>1, <3>3 DEF ConnInv, Known, Served
      <4> QED
        BY <1>1, <1>4, <2>1, <3>3, <4>1 DEF ConnInv, HttpCount
    <3> QED
      BY <3>1, <3>2, <3>3
  <2> QED
    BY <2>3, <2>4, <2>5 DEF ConnInv
<1>6. ASSUME NEW q \in Reqs PROVE ReqInv(q)'
  <2>1. ReqInv(q)
    BY DEF WatchInv
  <2> QED
    BY <1>1, <2>1 DEF ReqInv
<1> QED
  BY <1>0, <1>5, <1>6 DEF WatchInv

\* csMaps.del at the end of disconnect.
LEMMA DelStep ==
  ASSUME WatchInv, NEW r \in Reqs, DisconnectDel(r)
  PROVE  WatchInv'
<1> DEFINE d == found[r]
<1> USE DEF connVars, watchVars, stateVars, reqVars
<1>0. TypeOK /\ TypeOK'
  BY RequestType DEF WatchInv, disconnect
<1>1. /\ UNCHANGED <<kind, addr, proto, sock, serve, seen, marked, once, counted>>
      /\ csMap' = csMap \ get(d)
      /\ step[r] = "del" /\ step'[r] = "idle" /\ of'[r] = NoConn
      /\ \A q \in Reqs \ {r} :
             step'[q] = step[q] /\ of'[q] = of[q] /\ found'[q] = found[q]
  BY <1>0 DEF DisconnectDel, Return, del, TypeOK
<1>2. /\ d \in Conns /\ of[r] \in Conns /\ addr[d] = addr[of[r]]
      /\ \A x \in Conns : OwnAddress(x) => (of[r] = x <=> found[r] = x)
      /\ ReqInv(r)
  BY <1>1, FoundOwn DEF WatchInv
<1>3. \A x \in Conns : OwnAddress(x) /\ x # d => (x \in csMap' <=> x \in csMap)
  BY <1>1, <1>2 DEF get, OwnAddress
<1>4. d \notin csMap'
  BY <1>1, <1>2 DEF get
<1>5. ASSUME NEW x \in Conns PROVE ConnInv(x)'
  <2>1. ConnInv(x)
    BY DEF WatchInv
  <2>2. /\ OwnAddress(x)' <=> OwnAddress(x)
        /\ GrpcAddress(x)' <=> GrpcAddress(x)
    BY <1>1 DEF OwnAddress, GrpcAddress
  <2>3. Known(x)' /\ GrpcCount(x)' /\ Served(x)'
    BY <1>1, <2>1, <2>2 DEF ConnInv, Known, GrpcCount, Served
  <2>4. Entered(x)'
    BY <1>1, <1>2, <1>3, <2>1, <2>2 DEF ConnInv, Entered, ReqInv
  <2>5. HttpCount(x)'
    <3> SUFFICES ASSUME kind[x] = "http", OwnAddress(x) PROVE HttpCount(x)'
      BY <1>1, <2>2 DEF HttpCount
    <3>1. CASE x # d
      <4>1. Uncounted(x)' <=> Uncounted(x)
        BY <1>1, <1>2, <3>1, ConnsAssumption DEF Uncounted
      <4> QED
        BY <1>1, <1>3, <2>1, <3>1, <4>1, ConnsAssumption DEF ConnInv, HttpCount
    <3>2. CASE x = d /\ proto[x] = "http"
      <4>1. /\ of[r] = x /\ serve[x] = "serving"
            /\ \A q \in Reqs : of[q] = x => q = r
        BY <1>2, <3>2 DEF ReqInv
      <4>2. ~marked[x] /\ counted[x] = 0
        BY <1>1, <2>1, <4>1 DEF ConnInv, HttpCount, Uncounted
      <4>3. \A q \in Reqs : of'[q] # x
        BY <1>1, <4>1, ConnsAssumption
      <4> QED
        BY <1>1, <1>4, <3>2, <4>1, <4>2, <4>3 DEF HttpCount
    <3>3. CASE x = d /\ proto[x] # "http"
      <4>1. proto[x] = "h2c" /\ serve[x] \in {"h2c", "done"}
        BY <2>1, <3>3 DEF ConnInv, Known, Served
      <4> QED
        BY <1>1, <2>1, <3>3, <4>1 DEF ConnInv, HttpCount
    <3> QED
      BY <3>1, <3>2, <3>3
  <2> QED
    BY <2>3, <2>4, <2>5 DEF ConnInv
<1>6. ASSUME NEW q \in Reqs PROVE ReqInv(q)'
  <2>1. ReqInv(q)
    BY DEF WatchInv
  <2>2. CASE q = r
    BY <1>1, <2>2, ConnsAssumption DEF ReqInv
  <2>3. CASE q # r
    BY <1>1, <2>1, <2>3, ConnsAssumption DEF ReqInv
  <2> QED
    BY <2>2, <2>3
<1> QED
  BY <1>0, <1>5, <1>6 DEF WatchInv
-----------------------------------------------------------------------------
\* Nothing is accepted, counted or asked for yet.
LEMMA InitInv == Init => WatchInv
<1> SUFFICES ASSUME Init PROVE WatchInv
  OBVIOUS
<1>1. TypeOK
  BY InitType
<1>2. ASSUME NEW c \in Conns PROVE ConnInv(c)
  <2>1. ~GrpcAddress(c)
    BY DEF Init, GrpcAddress
  <2> QED
    BY <2>1 DEF Init, ConnInv, Known, Served, Entered, GrpcCount, HttpCount
<1>3. ASSUME NEW r \in Reqs PROVE ReqInv(r)
  BY ConnsAssumption DEF Init, ReqInv
<1> QED
  BY <1>1, <1>2, <1>3 DEF WatchInv

\* Every step preserves the invariant.
LEMMA NextInv == WatchInv /\ [Next]_vars => WatchInv'
<1> SUFFICES ASSUME WatchInv, [Next]_vars PROVE WatchInv'
  OBVIOUS
<1>1. CASE UNCHANGED vars
  BY <1>1 DEF WatchInv, ConnInv, ReqInv, Known, Served, Entered, GrpcCount,
     HttpCount, Uncounted, OwnAddress, GrpcAddress, TypeOK,
     vars, connVars, watchVars, stateVars, reqVars
<1>2. ASSUME NEW c \in Conns, OnStateChange(c) \/ Taken(c) \/ Ends(c)
      PROVE  WatchInv'
  BY <1>2, EndsBegin, GetStep, ApplyStep, TakenStep, GrpcCloseStep
     DEF OnStateChange, Ends
<1>3. ASSUME NEW r \in Reqs, Finish(r) \/ disconnect(r)
      PROVE  WatchInv'
  BY <1>3, SearchStep, CloseStep, CountStep, DelStep DEF disconnect
<1> QED
  BY <1>1, <1>2, <1>3, EndsBegin, AcceptStep, SearchStep DEF Next

\* The invariant holds in every reachable state.
LEMMA Invariance == Spec => []WatchInv
  BY InitInv, NextInv, PTL DEF Spec

(***************************************************************************)
(* csMaps leads from the client address of every open connection to it, of *)
(* HTTP/1, h2, h2c, WebSocket or gRPC, whatever OnStateChange (main.go:188)*)
(* and disconnect (main.go:594) do to the others.                          *)
(***************************************************************************)
THEOREM AlwaysFindable == Spec => []Findable
<1>1. WatchInv => Findable
  <2> SUFFICES ASSUME WatchInv, NEW c \in Conns, sock[c] = "open", OwnAddress(c)
               PROVE  getByRemoteAddr(c) = {c}
    BY DEF Findable
  <2>1. c \in csMap /\ csMap \subseteq Conns
    BY DEF WatchInv, ConnInv, Entered, TypeOK
  <2> QED
    BY <2>1 DEF getByRemoteAddr, OwnAddress
<1> QED
  BY <1>1, Invariance, PTL

(***************************************************************************)
(* A connection is counted once: the Once of gRPC (grpc.go:62) and, in     *)
(* HTTP/1 and h2c, the state and the absence of the entry keep disconnect  *)
(* and OnStateChange from both counting it down, for any connections and   *)
(* requests.                                                               *)
(***************************************************************************)
THEOREM AlwaysCountedOnce == Spec => []CountedOnce
<1>1. WatchInv => CountedOnce
  <2> SUFFICES ASSUME WatchInv, NEW c \in Conns, Settled(c),
                      (kind[c] = "http" /\ OwnAddress(c)) \/ GrpcAddress(c)
               PROVE  /\ sock[c] = "open" /\ serve[c] \in {"serving", "h2c"} =>
                             counted[c] = 1
                      /\ sock[c] = "closed" /\ serve[c] \in {"ws", "done"} =>
                             counted[c] = 0
    BY DEF CountedOnce
  <2>1. ConnInv(c)
    BY DEF WatchInv
  <2>2. CASE kind[c] = "http" /\ OwnAddress(c)
    <3>1. sock[c] = "open" /\ serve[c] = "serving" => ~Uncounted(c)
      <4>1. ASSUME NEW r \in Reqs, of[r] = c, step[r] = "del"
            PROVE  sock[c] = "closed"
        <5>1. found[r] = c /\ ReqInv(r)
          BY <2>2, <4>1, FoundOwn DEF WatchInv
        <5> QED
          BY <4>1, <5>1 DEF ReqInv
      <4> QED
        BY <4>1 DEF Uncounted
    <3> QED
      BY <2>1, <2>2, <3>1
         DEF ConnInv, Known, Served, Entered, HttpCount, Settled
  <2>3. CASE GrpcAddress(c)
    BY <2>1, <2>3 DEF ConnInv, Known, Served, GrpcCount, GrpcAddress
  <2> QED
    BY <2>2, <2>3
<1> QED
  BY <1>1, Invariance, PTL
=============================================================================
