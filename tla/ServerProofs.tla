---------------------------- MODULE ServerProofs ----------------------------
(***************************************************************************)
(* Proofs about Server, for any requests, servers and arrivals: types, the *)
(* count of active requests, the bytes of a response, the lines of the     *)
(* log, and what a graceful stop waits for.                                *)
(***************************************************************************)
EXTENDS Server, FiniteSetTheorems, TLAPS

(***************************************************************************)
(* Operators on requests                                                   *)
(***************************************************************************)

\* The lines that writeResponse fills a response with add up.
LEMMA FillExact ==
  ASSUME NEW n \in Nat
  PROVE  Fill(n) = n
<1>1. PICK lines \in Nat, rest \in Nat : lines = n \div 100 /\ rest = n % 100
  OBVIOUS
<1>2. n = 100 * lines + rest
  BY <1>1
<1>3. Fill(n) = lines * 100 + IF rest # 0 THEN rest ELSE 0
  BY <1>1 DEF Fill, loopUnit, randBytes
<1> QED
  BY <1>2, <1>3

\* writeResponse and writeChunkedResponse write what they are asked for.
LEMMA WriteExact ==
  ASSUME NEW n \in Nat
  PROVE  writeResponse(n) = n /\ writeChunkedResponse(n) = n
<1>1. CASE n <= JsonLen + 2
  BY <1>1 DEF writeResponse, writeChunkedResponse
<1>2. CASE n > JsonLen + 2
  <2>1. n - (JsonLen + 2) \in Nat
    BY <1>2, JsonLenAssumption
  <2>2. Fill(n - (JsonLen + 2)) = n - (JsonLen + 2)
    BY <2>1, FillExact
  <2> QED
    BY <1>2, <2>2, JsonLenAssumption DEF writeResponse, writeChunkedResponse
<1> QED
  BY <1>1, <1>2, JsonLenAssumption

\* A command that passed validation is one of the protocol's and matches its
\* regular expression.
LEMMA ValidActions ==
  ASSUME NEW p \in {"http", "grpc", "lambda"}, NEW o \in OfferNames,
         NEW k \in Validated[p][o].actions
  PROVE  /\ k \in DOMAIN Offers[o].q /\ k \in validator(p) \ IfKeys
         /\ FindStringSubmatch(k, Offers[o].q[k])
<1>1. Validated[p][o] = validateCommands(p, Offers[o])
  BY DEF Validated, Offer
<1> QED
  BY <1>1 DEF validateCommands, validateCommandsForGrpc

\* A number that passed validation is one, a percentage at most 100, a status
\* not 0.
LEMMA ValidNumbers ==
  ASSUME NEW p \in {"http", "grpc", "lambda"}, NEW o \in OfferNames,
         NEW k \in Validated[p][o].actions \intersect NumberKeys
  PROVE  /\ Offers[o].q[k][1].range \in BOOLEAN
         /\ Offers[o].q[k][1].from \in Nat /\ Offers[o].q[k][1].to \in Nat
         /\ k \in {"cpu", "memory"} => Offers[o].q[k][1].from <= 100
         /\ k = "status" => Offers[o].q[k][1].from # 0
<1>1. k \in DOMAIN Offers[o].q /\ FindStringSubmatch(k, Offers[o].q[k])
  BY ValidActions
<1>2. k \notin IfKeys \union {"stdout", "stderr"} /\ k \notin {"addheader", "addtrailer"}
  BY DEF NumberKeys, IfKeys
<1>3. Offers[o].q[k][1].ok
  BY <1>1, <1>2 DEF FindStringSubmatch
<1> QED
  BY <1>1, <1>3, OffersAssumption DEF OfferNames

\* A target that passed validation is a percentage.
LEMMA ValidTarget ==
  ASSUME NEW p \in {"http", "grpc", "lambda"}, NEW o \in OfferNames,
         NEW k \in {"cpu", "memory"}, k \in Validated[p][o].actions
  PROVE  Offers[o].q[k][1].from \in 0 .. 100
<1>1. k \in Validated[p][o].actions \intersect NumberKeys
  BY DEF NumberKeys
<1>2. Offers[o].q[k][1].from \in Nat /\ Offers[o].q[k][1].from <= 100
  BY <1>1, ValidNumbers
<1>3. \A n \in Nat : n <= 100 => n \in 0 .. 100
  OBVIOUS
<1> QED
  BY <1>2, <1>3, Zenon

\* The size drawn for a response is a number, and so is its status.
LEMMA DrawnNumbers ==
  ASSUME NEW p \in {"http", "grpc", "lambda"}, NEW o \in OfferNames
  PROVE  /\ Sizes(p, Offers[o], Validated[p][o]) \subseteq Nat
         /\ Status(Offers[o], Validated[p][o]) \in Nat \ {0}
<1>1. ASSUME "size" \in Validated[p][o].actions
      PROVE  getActionValue(Offers[o].q["size"][1]) \subseteq Nat
  BY <1>1, ValidNumbers DEF NumberKeys, getActionValue, lower, upper
<1>2. ASSUME "status" \in Validated[p][o].actions
      PROVE  Offers[o].q["status"][1].from \in Nat \ {0}
  BY <1>2, ValidNumbers DEF NumberKeys
<1> QED
  BY <1>1, <1>2, JsonLenAssumption DEF Sizes, Status

\* Commands have their effect just where the request is to be honoured, and
\* then they are all of its parameters that the protocol knows.
LEMMA HonouredNeeds ==
  ASSUME NEW p \in {"http", "grpc", "lambda"}, NEW o \in OfferNames
  PROVE  /\ needsAction(Validated[p][o]) <=> Honourable[p][o]
         /\ needsAction(Validated[p][o]) =>
                Validated[p][o].actions = (DOMAIN Offers[o].q \intersect validator(p)) \ IfKeys
<1> DEFINE q == Offers[o].q
           known0 == DOMAIN q \intersect validator(p)
           valid == {k \in known0 : FindStringSubmatch(k, q[k])}
           info == RequestInfo(p, Offers[o])
           unmatched == \E k \in valid \intersect IfKeys :
                            ~judgeActualValue(getActualValue(info, k), q[k])
           c == Validated[p][o]
<1>1. c = validateCommands(p, Offers[o]) /\ Honourable[p][o] = HonouredOffer(p, Offers[o])
  BY DEF Validated, Honourable, Offer
<1> DEFINE repeats == p = "grpc" /\ "repeat" \in valid
           cmds == [actions |-> valid \ IfKeys, invalids |-> valid # known0,
                    ifUnmatches |-> unmatched]
<1>2. c = IF p = "grpc" THEN validateCommandsForGrpc("Unary", cmds) ELSE cmds
  BY <1>1 DEF validateCommands
<1>3. isRepeatInvalid("Unary", cmds) <=> "repeat" \in valid
  BY DEF isRepeatInvalid, IfKeys
<1>4. CASE repeats
  <2>1. c.invalids = TRUE
    BY <1>2, <1>3, <1>4 DEF validateCommandsForGrpc
  <2>2. "repeat" \in known0
    BY <1>4
  <2>3. ~HonouredOffer(p, Offers[o])
    BY <2>2 DEF HonouredOffer
  <2> QED
    BY <1>1, <2>1, <2>3 DEF needsAction
<1>5. CASE ~repeats
  <2>1. c = cmds
    BY <1>2, <1>3, <1>5 DEF validateCommandsForGrpc
  <2> HIDE DEF c
  <2>2. needsAction(c) <=> valid = known0 /\ known0 \ IfKeys # {} /\ ~unmatched
    BY <2>1 DEF needsAction
  <2>3. needsAction(c) => c.actions = known0 \ IfKeys
    BY <2>1, <2>2
  <2>4. ASSUME NEW k \in known0, k # "repeat"
        PROVE  FindStringSubmatch(k, q[k]) <=> WellFormed(q, k)
    <3>1. Len(q[k]) \in Nat \ {0} /\ DOMAIN q[k] = 1 .. Len(q[k])
      BY OffersAssumption DEF OfferNames
    <3>2. k \in IfKeys \union {"stdout", "stderr"} \/ k \in {"addheader", "addtrailer"}
            \/ k \in Single
      BY <2>4 DEF validator, validatorForGrpc, validatorForHttp, validatorForLambda,
                 CommonKeys, Single
    <3>3. (\A v \in Range(q[k]) : v.ok) <=> \A i \in DOMAIN q[k] : q[k][i].ok
      BY DEF Range
    <3>4. CASE k \in IfKeys \union {"stdout", "stderr"}
      <4>1. k \notin Single /\ k \notin {"addheader", "addtrailer"}
        BY <3>4 DEF IfKeys, Single
      <4> QED
        BY <3>1, <3>3, <3>4, <4>1 DEF FindStringSubmatch, WellFormed
    <3>5. CASE k \in {"addheader", "addtrailer"}
      <4>1. k \notin Single /\ k \notin IfKeys \union {"stdout", "stderr"}
        BY <3>5 DEF IfKeys, Single
      <4> QED
        BY <3>1, <3>5, <4>1 DEF FindStringSubmatch, WellFormed
    <3>6. CASE k \in Single
      <4>1. k \notin {"addheader", "addtrailer"} /\ k \notin IfKeys \union {"stdout", "stderr"}
        BY <3>6 DEF IfKeys, Single
      <4> QED
        BY <3>1, <3>3, <3>6, <4>1 DEF FindStringSubmatch, WellFormed
    <3> QED
      BY <3>2, <3>4, <3>5, <3>6
  <2>5. valid = known0 => "repeat" \notin known0
    BY <1>5 DEF validator, validatorForHttp, validatorForLambda, CommonKeys, IfKeys
  <2>6. ASSUME NEW k \in known0 \intersect IfKeys
        PROVE  judgeActualValue(getActualValue(info, k), q[k]) <=> Met(p, Offers[o], k)
    BY DEF judgeActualValue, Range, Met
  <2>7. HonouredOffer(p, Offers[o]) <=>
            /\ known0 \ IfKeys # {}
            /\ "repeat" \notin known0
            /\ \A k \in known0 \ {"repeat"} : FindStringSubmatch(k, q[k])
            /\ \A k \in known0 \intersect IfKeys :
                   judgeActualValue(getActualValue(info, k), q[k])
    <3>1. HonouredOffer(p, Offers[o]) <=>
              /\ known0 \ IfKeys # {}
              /\ \A k \in known0 :
                     WellFormed(q, k) /\ (k \in IfKeys => Met(p, Offers[o], k)) /\ k # "repeat"
      BY DEF HonouredOffer
    <3>2. \A k \in known0 : k # "repeat" => (FindStringSubmatch(k, q[k]) <=> WellFormed(q, k))
      BY <2>4
    <3>3. \A k \in known0 \intersect IfKeys :
              judgeActualValue(getActualValue(info, k), q[k]) <=> Met(p, Offers[o], k)
      BY <2>6
    <3> HIDE DEF q, info, known0
    <3> QED
      BY <3>1, <3>2, <3>3
  <2>8. valid = known0 => \A k \in known0 : FindStringSubmatch(k, q[k])
    OBVIOUS
  <2>9. (\A k \in known0 : FindStringSubmatch(k, q[k])) => valid = known0
    OBVIOUS
  <2>10. valid = known0 =>
             (~unmatched <=> \A k \in known0 \intersect IfKeys :
                                judgeActualValue(getActualValue(info, k), q[k]))
    OBVIOUS
  <2> HIDE DEF q, known0, valid, info, unmatched
  <2>11. needsAction(c) <=> HonouredOffer(p, Offers[o])
    BY <2>2, <2>5, <2>7, <2>8, <2>9, <2>10
  <2> QED
    BY <1>1, <2>3, <2>11 DEF known0, q, c
<1> QED
  BY <1>4, <1>5

-----------------------------------------------------------------------------
(***************************************************************************)
(* The inductive invariant                                                 *)
(***************************************************************************)

\* Nothing is known of a request before it arrives.
Fresh(r) ==
    pc[r] = "idle" =>
        /\ what[r] = "" /\ todo[r] = {} /\ reply[r] = NoReply
        /\ line[r] = NoLine /\ logger[r] = NoLine

\* A request that has arrived is an offer, over a server of the mode that the
\* process runs in, from a client that remoteNodes has.
Taken(r) ==
    pc[r] # "idle" =>
        /\ what[r] \in OfferNames
        /\ IF isLambda THEN Req(r).srv \in HttpServers ELSE Req(r).ip \in known

\* What is still to do comes from commands that passed validation.
Doing(r) ==
    todo[r] # {} => /\ pc[r] # "idle" /\ todo[r] \subseteq Cmds(r).actions
                    /\ needsAction(Cmds(r))

\* Each handler serves its own kind of request, and what reflectRequest and the
\* logger are given is what was answered.
Serving(r) ==
    /\ pc[r] \in {"monitor", "marshal"} => Kind(r) = "monitor"
    /\ pc[r] = "act" => size[r] \in Sizes(Proto(r), Req(r), Cmds(r))
    /\ pc[r] \in {"reflect", "remote", "logger"} =>
           reply[r].size = size[r] /\ reply[r].status \in Nat

ReqInv(r) == Fresh(r) /\ Taken(r) /\ Doing(r) /\ Serving(r)

ServerInv == TypeOK /\ ActiveExact /\ \A r \in Reqs : ReqInv(r)

\* BodyExact, of one request.
BodyOf(r) ==
    Answered(r) =>
        /\ reply[r].length \subseteq {reply[r].size}
        /\ HasBody(r) => reply[r].body = reply[r].size

\* What execAction and setTarget do for one request and one target: all that
\* the request asks for or, if it is not honoured, nothing of it.
AskedOf(r) ==
    Answered(r) =>
        LET Gets(k) == Honoured(r) /\ k \in DOMAIN Req(r).q
        IN  /\ IF Gets("size")
               THEN reply[r].size \in getActionValue(Req(r).q["size"][1])
               ELSE reply[r].size = JsonLen
            /\ IF Gets("status")
               THEN reply[r].status = Req(r).q["status"][1].from
               ELSE reply[r].status = 200

SetBy(r, c) ==
    /\ what[r] # "" /\ Honoured(r)
    /\ c \in DOMAIN Req(r).q \intersect validator(Proto(r))
    /\ Target[c] = Req(r).q[c][1].from

(***************************************************************************)
(* The logger of a request that has one of its own holds, when it is       *)
(* logged, what was answered; until then its size is not set.              *)
(***************************************************************************)
OwnLogger(r) ==
    /\ pc[r] = "accepted" => logger[r] = NoLine
    /\ pc[r] # "done" => line[r] = NoLine
    /\ logger[r].owner \in {0, r}
    /\ pc[r] = "page" => logger[r].size = 0
    /\ pc[r] = "log" /\ logger[r].owner = r /\ Proto(r) # "grpc" /\ Kind(r) # "monitor" =>
           logger[r].size = reply[r].size /\ logger[r].status = reply[r].status
    /\ line[r].owner # 0 =>
           line[r] = [owner |-> r, size |-> reply[r].size, status |-> reply[r].status]

LogInv == \A r \in Reqs : pc[r] # "idle" /\ ~Req(r).h2c => OwnLogger(r)

(***************************************************************************)
(* Unless the time is over: nothing is cut off before the end, a call that *)
(* has returned has closed its server, and a closed server has nothing in  *)
(* progress.  A Lambda function stops no server.                           *)
(***************************************************************************)
StopInv ==
    /\ isLambda => \A r \in Reqs, s \in Servers : call[r][s] = "none" /\ shut[s] = "up"
    /\ expired = {} =>
           /\ exited = "no" => cut = {}
           /\ exited = "graceful" => \A r \in cut : Req(r).h2c
           /\ \A r \in Reqs, s \in Servers : call[r][s] = "returned" => shut[s] = "closed"
           /\ \A r \in Reqs, s \in Servers :
                  shut[s] = "closed" /\ Open(r) /\ Req(r).srv = s => Req(r).h2c

-----------------------------------------------------------------------------
(***************************************************************************)
(* Steps                                                                   *)
(***************************************************************************)

\* A step of request r and of what it started.
Step(r) ==
    \/ \E o \in OfferNames : Accept(r, o) \/ lambdaHandler(r, o)
    \/ RequestStep(r) \/ StopHandler(r) \/ StopStep(r) \/ Expire(r)

\* The state that a request has to itself.
Same(q) ==
    /\ what'[q] = what[q] /\ pc'[q] = pc[q] /\ todo'[q] = todo[q] /\ size'[q] = size[q]
    /\ reply'[q] = reply[q] /\ line'[q] = line[q] /\ logger'[q] = logger[q]

\* A step of r is one of a running process, leaves other requests alone, and
\* does not make another request of r.
Frame(r) ==
    /\ exited = "no"
    /\ isLambda' = isLambda
    /\ known \subseteq known'
    /\ pc[r] # "idle" => what'[r] = what[r]
    /\ \A q \in Reqs \ {r} : Same(q)

LEMMA StepFrame ==
  ASSUME TypeOK, NEW r \in Reqs, Step(r)
  PROVE  Frame(r)
<1>0. LoggerOf(r) \in {0, r} /\ 0 \notin Reqs
  <2>1. LoggerOf(r) \in {0, r}
    BY DEF LoggerOf
  <2>2. 0 \notin Reqs
    BY BoundsAssumption DEF Reqs
  <2> QED
    BY <2>1, <2>2
<1> USE DEF Frame, Same, TypeOK, RequestTypes, LogTypes, At, logVars, statVars, stopVars, requestVars
<1>1. ASSUME NEW o \in OfferNames, Accept(r, o) \/ lambdaHandler(r, o)
      PROVE  Frame(r)
  BY <1>1 DEF Accept, lambdaHandler, Arrives
<1>2. CASE handlerWrapper(r) \/ noLogHandlerWrapper(r) \/ handleRequest(r)
             \/ UnaryInterceptor(r) \/ StreamInterceptor(r)
  <2>1. exited = "no" /\ (initLogger(r) \/ UNCHANGED logger)
    BY <1>2 DEF handlerWrapper, noLogHandlerWrapper, handleRequest, UnaryInterceptor,
                StreamInterceptor
  <2>2. \A q \in Reqs \ {r} : logger'[q] = logger[q]
    BY <1>0, <2>1 DEF initLogger
  <2>3. PICK step : Enter(r, step)
    BY <1>2 DEF handlerWrapper, noLogHandlerWrapper, handleRequest, UnaryInterceptor,
                StreamInterceptor
  <2> QED
    BY <2>1, <2>2, <2>3 DEF Enter
<1>3. CASE Render(r) \/ RenderPanics(r)
  BY <1>3 DEF Render, RenderPanics
<1>4. CASE Act(r) \/ ActLast(r)
  <2>1. CASE Act(r)
    BY <2>1 DEF Act
  <2>2. CASE ActLast(r)
    <3>1. PICK a \in todo[r] : ActLast(r)!2!(a)
      BY <2>2 DEF ActLast
    <3> QED
      BY <2>2, <3>1 DEF ActLast
  <2> QED
    BY <1>4, <2>1, <2>2
<1>5. CASE WriteHttp(r) \/ WriteGrpc(r) \/ UnregisteredMethodHandler(r)
  BY <1>5 DEF WriteHttp, WriteGrpc, UnregisteredMethodHandler
<1>6. CASE ReflectNode(r) \/ ReflectRemote(r) \/ updateNode(r) \/ getStoreNodeJSON(r)
  BY <1>6 DEF ReflectNode, ReflectRemote, updateNode, getStoreNodeJSON
<1>7. CASE SetLogger(r) \/ execHandler(r) \/ envHandler(r) \/ filesDLHandler(r)
  <2>1. exited = "no" /\ \A q \in Reqs \ {r} : logger'[q] = logger[q]
    <3>0. DOMAIN logger = {0} \union Reqs
      OBVIOUS
    <3>1. CASE SetLogger(r)
      BY <1>0, <3>1 DEF SetLogger
    <3>2. ASSUME NEW kind, WritePage(r, kind)
          PROVE  exited = "no" /\ \A q \in Reqs \ {r} : logger'[q] = logger[q]
      <4> HIDE DEF TypeOK, RequestTypes
      <4> DEFINE page == Req(r).page
                 old == logger[LoggerOf(r)]
                 new == [owner  |-> old.owner,
                         size   |-> IF page.status = 200 THEN page.size ELSE old.size,
                         status |-> page.status]
      <4>1. exited = "no" /\ logger' = [logger EXCEPT ![LoggerOf(r)] = new]
        BY <3>2 DEF WritePage
      <4> HIDE DEF new
      <4> QED
        BY <1>0, <3>0, <4>1
    <3> QED
      BY <1>7, <3>1, <3>2 DEF execHandler, envHandler, filesDLHandler
  <2> QED
    BY <1>7, <2>1 DEF SetLogger, execHandler, envHandler, filesDLHandler, WritePage
<1>8. CASE Log(r) \/ Leave(r)
  BY <1>8 DEF Log, Leave, Return
<1>9. CASE StopHandler(r)
  BY <1>9 DEF StopHandler, StopNow, StopGraceful, StopReturn
<1>10. CASE StopStep(r) \/ Expire(r)
  BY <1>10 DEF StopStep, Shutdown, ShutdownDone, ShutdownExpired, Exit, Expire
<1> QED
  BY <1>1, <1>2, <1>3, <1>4, <1>5, <1>6, <1>7, <1>8, <1>9, <1>10 DEF Step, RequestStep

-----------------------------------------------------------------------------
(***************************************************************************)
(* The count of active requests                                            *)
(***************************************************************************)

\* The requests that are counted, all of them and those of a client.
Counted == {r \in Reqs : ~isLambda /\ Inside(r)}
CountedOf(ip) == {r \in Counted : Req(r).ip = ip}

\* A wrapper or interceptor counts r when it calls the handler, gives the count
\* back when the handler ends, and nothing else touches it.
CountsIn(r) == pc[r] = "accepted" /\ Inside(r)' /\ AddActive(r, 1)
CountsOut(r) == Inside(r) /\ ~Inside(r)' /\ AddActive(r, -1)
LeavesCount(r) ==
    /\ Inside(r)' <=> Inside(r)
    /\ active' = active
    /\ \A ip \in IPs : remote'[ip].active = remote[ip].active

LEMMA StepCounts ==
  ASSUME TypeOK, NEW r \in Reqs, Step(r)
  PROVE  CountsIn(r) \/ CountsOut(r) \/ LeavesCount(r)
<1> USE DEF At, logVars, statVars, stopVars, requestVars, Inside, TypeOK, RequestTypes,
           StatTypes
<1>1. ASSUME NEW o \in OfferNames, Accept(r, o) \/ lambdaHandler(r, o)
      PROVE  LeavesCount(r)
  BY <1>1 DEF Accept, lambdaHandler, Arrives, LeavesCount
<1>2. CASE handlerWrapper(r) \/ noLogHandlerWrapper(r) \/ UnaryInterceptor(r)
             \/ StreamInterceptor(r)
  BY <1>2 DEF handlerWrapper, noLogHandlerWrapper, UnaryInterceptor, StreamInterceptor,
              Enter, CountsIn
<1>3. CASE handleRequest(r)
  BY <1>3 DEF handleRequest, Enter, CountsIn, AddActive
<1>4. CASE Render(r)
  BY <1>4 DEF Render, LeavesCount
<1>5. CASE RenderPanics(r)
  BY <1>5 DEF RenderPanics, LeavesCount, CountsOut
<1>6. CASE Act(r) \/ ActLast(r)
  <2>1. CASE Act(r)
    BY <2>1 DEF Act, LeavesCount
  <2>2. CASE ActLast(r)
    <3>1. PICK a \in todo[r] : ActLast(r)!2!(a)
      BY <2>2 DEF ActLast
    <3>2. pc[r] = "act" /\ active' = active /\ remote' = remote
      BY <2>2 DEF ActLast
    <3>3. pc'[r] \in {"act", "reflect", "log"}
      BY <3>1, <3>2
    <3> QED
      BY <3>2, <3>3 DEF LeavesCount
  <2> QED
    BY <1>6, <2>1, <2>2
<1>7. CASE WriteHttp(r) \/ WriteGrpc(r) \/ UnregisteredMethodHandler(r)
  BY <1>7 DEF WriteHttp, WriteGrpc, UnregisteredMethodHandler, LeavesCount
<1>8. CASE ReflectNode(r) \/ updateNode(r) \/ getStoreNodeJSON(r)
  BY <1>8 DEF ReflectNode, updateNode, getStoreNodeJSON, LeavesCount
<1>9. CASE ReflectRemote(r)
  <2>1. /\ pc[r] = "remote" /\ pc' = [pc EXCEPT ![r] = "logger"] /\ active' = active
        /\ remote' = [remote EXCEPT ![Req(r).ip] =
                          reflectRequest(@, ReceivedBytes(r), size[r])]
    BY <1>9 DEF ReflectRemote
  <2>2. \A ip \in IPs : remote[ip] \in Stats
    OBVIOUS
  <2>3. ASSUME NEW ip \in IPs
        PROVE  remote'[ip].active = remote[ip].active
    <3>1. CASE ip = Req(r).ip
      <4>1. remote'[ip] = reflectRequest(remote[ip], ReceivedBytes(r), size[r])
        BY <2>1, <3>1
      <4> HIDE DEF TypeOK, RequestTypes
      <4> QED
        BY <2>2, <4>1 DEF reflectRequest, Stats
    <3>2. CASE ip # Req(r).ip
      BY <2>1, <3>2
    <3> QED
      BY <3>1, <3>2
  <2> QED
    BY <2>1, <2>3 DEF LeavesCount
<1>10. CASE SetLogger(r) \/ execHandler(r) \/ envHandler(r) \/ filesDLHandler(r)
  BY <1>10 DEF SetLogger, execHandler, envHandler, filesDLHandler, WritePage, LeavesCount
<1>11. CASE Log(r) \/ Leave(r)
  BY <1>11 DEF Log, Leave, Return, CountsOut
<1>12. CASE StopHandler(r)
  BY <1>12 DEF StopHandler, StopNow, StopGraceful, StopReturn, LeavesCount
<1>13. CASE StopStep(r) \/ Expire(r)
  BY <1>13 DEF StopStep, Shutdown, ShutdownDone, ShutdownExpired, Exit, Expire, LeavesCount
<1> HIDE DEF At, logVars, statVars, stopVars, requestVars, Inside, TypeOK, RequestTypes,
           StatTypes
<1> QED
  BY <1>1, <1>2, <1>3, <1>4, <1>5, <1>6, <1>7, <1>8, <1>9, <1>10, <1>11, <1>12, <1>13
     DEF Step, RequestStep

\* The count of a set that r enters or leaves.
LEMMA CountMoves ==
  ASSUME NEW r \in Reqs, NEW A \in SUBSET Reqs
  PROVE  /\ Cardinality(A) \in Nat
         /\ r \notin A => Cardinality(A \union {r}) = Cardinality(A) + 1
         /\ r \in A => Cardinality(A \ {r}) = Cardinality(A) - 1
<1>1. IsFiniteSet(Reqs)
  BY BoundsAssumption, FS_Interval DEF Reqs
<1>2. IsFiniteSet(A)
  BY <1>1, FS_Subset
<1> QED
  BY <1>2, FS_CardinalityType, FS_AddElement, FS_RemoveElement

LEMMA ActiveKept ==
  ASSUME TypeOK, ActiveExact, NEW r \in Reqs, Frame(r), ReqInv(r),
         CountsIn(r) \/ CountsOut(r) \/ LeavesCount(r)
  PROVE  /\ ActiveExact'
         /\ active' \in Nat
         /\ \A ip \in IPs : remote'[ip].active \in Nat
<1>1. /\ ActiveExact <=> /\ active = Cardinality(Counted)
                         /\ \A ip \in IPs : remote[ip].active = Cardinality(CountedOf(ip))
      /\ ActiveExact' <=> /\ active' = Cardinality(Counted')
                          /\ \A ip \in IPs : remote'[ip].active = Cardinality(CountedOf(ip)')
  BY DEF ActiveExact, Counted, CountedOf
<1>2. Counted \in SUBSET Reqs /\ \A ip \in IPs : CountedOf(ip) \in SUBSET Reqs
  BY DEF Counted, CountedOf
<1>3. Counted' \in SUBSET Reqs /\ \A ip \in IPs : CountedOf(ip)' \in SUBSET Reqs
  BY DEF Counted, CountedOf
<1>4. ActiveExact'
  <2>1. CASE isLambda
    <3>1. Counted = {} /\ \A ip \in IPs : CountedOf(ip) = {}
      BY <2>1 DEF Counted, CountedOf
    <3>2. Counted' = {} /\ \A ip \in IPs : CountedOf(ip)' = {}
      BY <2>1 DEF Counted, CountedOf, Frame
    <3>3. active' = active /\ \A ip \in IPs : remote'[ip].active = remote[ip].active
      BY <2>1 DEF CountsIn, CountsOut, LeavesCount, AddActive
    <3> QED
      BY <1>1, <3>1, <3>2, <3>3
  <2>2. CASE ~isLambda /\ CountsIn(r)
    <3>1. what[r] \in OfferNames /\ Req(r).ip \in IPs /\ Req(r)' = Req(r)
      BY <2>2 DEF ReqInv, Taken, CountsIn, Frame, Req, IPs
    <3>2. r \notin Counted /\ Counted' = Counted \union {r}
      BY <2>2 DEF CountsIn, Counted, Inside, Frame, Same
    <3>3. ASSUME NEW ip \in IPs
          PROVE  CountedOf(ip)' = IF Req(r).ip = ip THEN CountedOf(ip) \union {r}
                                  ELSE CountedOf(ip)
      BY <3>1, <3>2 DEF CountedOf, Counted, Frame, Same, Req
    <3>4. active' = active + 1 /\ remote' = [remote EXCEPT ![Req(r).ip].active = @ + 1]
      BY <2>2 DEF CountsIn, AddActive
    <3>5. active' = Cardinality(Counted')
      BY <1>1, <1>2, <3>2, <3>4, CountMoves
    <3>6. ASSUME NEW ip \in IPs
          PROVE  remote'[ip].active = Cardinality(CountedOf(ip)')
      <4>1. CountedOf(ip) \subseteq Reqs /\ r \notin CountedOf(ip)
        BY <1>2, <3>2 DEF CountedOf
      <4>2. CASE Req(r).ip = ip
        <5>1. remote'[ip].active = remote[ip].active + 1
          BY <3>1, <3>4, <4>2 DEF TypeOK, StatTypes, Stats
        <5> QED
          BY <1>1, <3>3, <4>1, <4>2, <5>1, CountMoves
      <4>3. CASE Req(r).ip # ip
        <5>1. remote'[ip] = remote[ip]
          BY <3>1, <3>4, <4>3 DEF TypeOK, StatTypes
        <5> QED
          BY <1>1, <3>3, <4>3, <5>1
      <4> QED
        BY <4>2, <4>3
    <3> QED
      BY <1>1, <3>5, <3>6
  <2>3. CASE ~isLambda /\ CountsOut(r)
    <3>1. what[r] \in OfferNames /\ Req(r).ip \in IPs /\ Req(r)' = Req(r)
      BY <2>3 DEF ReqInv, Taken, CountsOut, Inside, Frame, Req, IPs
    <3>2. r \in Counted /\ Counted' = Counted \ {r}
      BY <2>3 DEF CountsOut, Counted, Inside, Frame, Same
    <3>3. ASSUME NEW ip \in IPs
          PROVE  CountedOf(ip)' = IF Req(r).ip = ip THEN CountedOf(ip) \ {r}
                                  ELSE CountedOf(ip)
      BY <3>1, <3>2 DEF CountedOf, Counted, Frame, Same, Req
    <3>4. active' = active - 1 /\ remote' = [remote EXCEPT ![Req(r).ip].active = @ - 1]
      BY <2>3 DEF CountsOut, AddActive, TypeOK, StatTypes, Stats
    <3>5. active' = Cardinality(Counted')
      BY <1>1, <1>2, <3>2, <3>4, CountMoves
    <3>6. ASSUME NEW ip \in IPs
          PROVE  remote'[ip].active = Cardinality(CountedOf(ip)')
      <4>1. CountedOf(ip) \subseteq Reqs
        BY <1>2
      <4>2. CASE Req(r).ip = ip
        <5>1. remote'[ip].active = remote[ip].active - 1 /\ r \in CountedOf(ip)
          BY <3>1, <3>2, <3>4, <4>2 DEF TypeOK, StatTypes, Stats, CountedOf
        <5> QED
          BY <1>1, <3>3, <4>1, <4>2, <5>1, CountMoves
      <4>3. CASE Req(r).ip # ip
        <5>1. remote'[ip] = remote[ip]
          BY <3>1, <3>4, <4>3 DEF TypeOK, StatTypes
        <5> QED
          BY <1>1, <3>3, <4>3, <5>1
      <4> QED
        BY <4>2, <4>3
    <3> QED
      BY <1>1, <3>5, <3>6
  <2>4. CASE ~isLambda /\ LeavesCount(r)
    <3>1. Counted' = Counted
      BY <2>4 DEF LeavesCount, Counted, Inside, Frame, Same
    <3>2. \A q \in Counted : Req(q)' = Req(q)
      BY DEF Counted, Inside, Frame, Same, Req
    <3>3. \A ip \in IPs : CountedOf(ip)' = CountedOf(ip)
      BY <3>1, <3>2 DEF CountedOf
    <3> QED
      BY <1>1, <2>4, <3>1, <3>3 DEF LeavesCount
  <2> QED
    BY <2>1, <2>2, <2>3, <2>4
<1> QED
  BY <1>1, <1>3, <1>4, CountMoves

-----------------------------------------------------------------------------
(***************************************************************************)
(* A request                                                               *)
(***************************************************************************)

\* What is asked for does not change.
SameRequest(r) ==
    /\ what'[r] = what[r] /\ Req(r)' = Req(r) /\ Kind(r)' = Kind(r)
    /\ Proto(r)' = Proto(r) /\ Cmds(r)' = Cmds(r)

LEMMA RequestLasts ==
  ASSUME NEW r \in Reqs, Frame(r), NEW q \in Reqs, pc[q] # "idle" \/ q # r
  PROVE  SameRequest(q)
<1>1. what'[q] = what[q] /\ isLambda' = isLambda
  BY DEF Frame, Same
<1> QED
  BY <1>1 DEF SameRequest, Req, Kind, Proto, Cmds

LEMMA OthersInv ==
  ASSUME NEW r \in Reqs, Frame(r), NEW q \in Reqs \ {r}, ReqInv(q)
  PROVE  ReqInv(q)'
<1>1. SameRequest(q)
  BY RequestLasts
<1>2. Same(q) /\ isLambda' = isLambda /\ known \subseteq known'
  BY DEF Frame
<1> QED
  BY <1>1, <1>2 DEF ReqInv, Fresh, Taken, Doing, Serving, Same, SameRequest

\* A protocol has its validator.
LEMMA ProtoType ==
  ASSUME NEW r \in Reqs
  PROVE  Proto(r) \in {"http", "grpc", "lambda"}
BY DEF Proto

\* Handlers are those of requests in progress.
LEMMA IdleWaits ==
  ASSUME NEW r \in Reqs, RequestStep(r) \/ StopHandler(r)
  PROVE  Open(r)
BY DEF At, Open, RequestStep, StopHandler, handlerWrapper, noLogHandlerWrapper,
       handleRequest, UnaryInterceptor, StreamInterceptor, Render, RenderPanics, Act,
       ActLast, WriteHttp, WriteGrpc, ReflectNode, ReflectRemote, SetLogger, execHandler,
       envHandler, filesDLHandler, WritePage, UnregisteredMethodHandler, updateNode,
       getStoreNodeJSON, Log, Leave, StopNow, StopGraceful, StopReturn

LEMMA ReqInvKept ==
  ASSUME TypeOK, NEW r \in Reqs, ReqInv(r), Frame(r), Step(r)
  PROVE  ReqInv(r)'
<1>1. ASSUME NEW o \in OfferNames, Accept(r, o) \/ lambdaHandler(r, o)
      PROVE  ReqInv(r)'
  <2>1. /\ pc[r] = "idle" /\ pc'[r] = "accepted" /\ what'[r] = o /\ isLambda' = isLambda
        /\ todo' = todo
        /\ IF isLambda THEN Offer[o].srv \in HttpServers ELSE Offer[o].ip \in known'
    BY <1>1 DEF Accept, lambdaHandler, Arrives, At, TypeOK, RequestTypes
  <2> QED
    BY <2>1 DEF ReqInv, Fresh, Taken, Doing, Serving, Req
<1>2. CASE pc[r] # "idle"
  <2>1. SameRequest(r) /\ isLambda' = isLambda /\ known \subseteq known'
    BY <1>2, RequestLasts DEF Frame
  <2>2. what[r] \in OfferNames /\ Req(r) = Offers[what[r]]
    BY <1>2 DEF ReqInv, Taken, Req, Offer
  <2>3. Proto(r) \in {"http", "grpc", "lambda"}
    BY ProtoType
  <2>4. ASSUME pc'[r] # "idle", Doing(r)', Serving(r)'
        PROVE  ReqInv(r)'
    BY <1>2, <2>1, <2>4 DEF ReqInv, Fresh, Taken, SameRequest
  <2> USE DEF At, logVars, statVars, stopVars, requestVars, TypeOK, RequestTypes
  <2>5. CASE handlerWrapper(r) \/ noLogHandlerWrapper(r) \/ handleRequest(r)
               \/ UnaryInterceptor(r) \/ StreamInterceptor(r)
    <3>1. /\ pc'[r] \in {"render", "page", "monitor"} /\ todo' = todo
          /\ pc'[r] = "monitor" => Kind(r) = "monitor"
      BY <2>5 DEF handlerWrapper, noLogHandlerWrapper, handleRequest, UnaryInterceptor,
                  StreamInterceptor, Enter
    <3> HIDE DEF TypeOK, RequestTypes
    <3> QED
      BY <1>2, <2>1, <2>4, <3>1 DEF ReqInv, Doing, Serving, SameRequest
  <2>6. CASE Render(r)
    <3>1. /\ pc'[r] \in {"act", "log"} /\ todo'[r] = Todo(Cmds(r))
          /\ size'[r] \in Sizes(Proto(r), Req(r), Cmds(r))
      BY <2>6 DEF Render
    <3> HIDE DEF TypeOK, RequestTypes
    <3> QED
      BY <1>2, <2>1, <2>4, <3>1 DEF Doing, Serving, SameRequest, Todo
  <2>7. CASE RenderPanics(r)
    <3>1. pc'[r] \in {"done", "render"} /\ todo' = todo
      BY <2>7 DEF RenderPanics
    <3> HIDE DEF TypeOK, RequestTypes
    <3> QED
      BY <1>2, <2>1, <2>4, <3>1 DEF ReqInv, Doing, Serving, SameRequest
  <2>8. CASE Act(r)
    <3>1. PICK a \in todo[r] : todo' = [todo EXCEPT ![r] = @ \ {a}]
      BY <2>8 DEF Act
    <3>2. pc[r] = "act" /\ pc' = pc /\ size' = size
      BY <2>8 DEF Act
    <3>3. todo'[r] \subseteq todo[r]
      BY <3>1
    <3> HIDE DEF TypeOK, RequestTypes
    <3> QED
      BY <1>2, <2>1, <2>4, <3>2, <3>3 DEF ReqInv, Doing, Serving, SameRequest
  <2>9. CASE ActLast(r)
    <3>1. PICK a \in todo[r] : ActLast(r)!2!(a)
      BY <2>9 DEF ActLast
    <3>2. pc[r] = "act" /\ todo'[r] = {}
      BY <2>9 DEF ActLast
    <3>3. \/ pc' = pc /\ size' = size
          \/ pc'[r] = "log"
          \/ pc'[r] = "reflect" /\ size'[r] = 0 /\ reply'[r] = Answer(0, 0, {}, 0, <<>>)
      BY <3>1, <3>2
    <3> HIDE DEF TypeOK, RequestTypes
    <3> QED
      BY <1>2, <2>1, <2>4, <3>2, <3>3 DEF ReqInv, Doing, Serving, SameRequest, Answer
  <2>10. CASE WriteHttp(r)
    <3>1. /\ pc'[r] = "reflect" /\ todo' = todo /\ size' = size
          /\ reply'[r].size = size[r] /\ reply'[r].status = Status(Req(r), Cmds(r))
      BY <2>10 DEF WriteHttp, Answer
    <3>2. Status(Req(r), Cmds(r)) \in Nat
      BY <2>2, <2>3, DrawnNumbers DEF Cmds
    <3> HIDE DEF TypeOK, RequestTypes
    <3> QED
      BY <1>2, <2>1, <2>4, <3>1, <3>2 DEF ReqInv, Doing, Serving, SameRequest
  <2>11. CASE \/ WriteGrpc(r) \/ UnregisteredMethodHandler(r) \/ getStoreNodeJSON(r)
              \/ SetLogger(r) \/ execHandler(r) \/ envHandler(r) \/ filesDLHandler(r)
    <3>1. pc'[r] = "log" /\ todo' = todo
      BY <2>11 DEF WriteGrpc, UnregisteredMethodHandler, getStoreNodeJSON, SetLogger,
                   execHandler, envHandler, filesDLHandler, WritePage
    <3> HIDE DEF TypeOK, RequestTypes
    <3> QED
      BY <1>2, <2>1, <2>4, <3>1 DEF ReqInv, Doing, Serving, SameRequest
  <2>12. CASE ReflectNode(r) \/ ReflectRemote(r)
    <3>1. /\ pc[r] \in {"reflect", "remote"} /\ pc'[r] \in {"logger", "remote"}
          /\ todo' = todo /\ size' = size /\ reply' = reply
      BY <2>12 DEF ReflectNode, ReflectRemote
    <3> HIDE DEF TypeOK, RequestTypes
    <3> QED
      BY <1>2, <2>1, <2>4, <3>1 DEF ReqInv, Doing, Serving, SameRequest
  <2>13. CASE updateNode(r)
    <3>1. pc[r] = "monitor" /\ pc'[r] = "marshal" /\ todo' = todo
      BY <2>13 DEF updateNode
    <3> HIDE DEF TypeOK, RequestTypes
    <3> QED
      BY <1>2, <2>1, <2>4, <3>1 DEF ReqInv, Doing, Serving, SameRequest
  <2>14. CASE Log(r) \/ Leave(r) \/ StopHandler(r)
    <3>1. pc'[r] \in {"done", "return", "accepted"} /\ todo' = todo
      BY <2>14 DEF Log, Leave, Return, StopHandler, StopNow, StopGraceful, StopReturn
    <3> HIDE DEF TypeOK, RequestTypes
    <3> QED
      BY <1>2, <2>1, <2>4, <3>1 DEF ReqInv, Doing, Serving, SameRequest
  <2>15. CASE StopStep(r) \/ Expire(r)
    <3>1. pc' = pc /\ todo' = todo /\ size' = size /\ reply' = reply
      BY <2>15 DEF StopStep, Shutdown, ShutdownDone, ShutdownExpired, Exit, Expire
    <3> HIDE DEF TypeOK, RequestTypes
    <3> QED
      BY <1>2, <2>1, <2>4, <3>1 DEF ReqInv, Doing, Serving, SameRequest
  <2> HIDE DEF At, logVars, statVars, stopVars, requestVars, TypeOK, RequestTypes
  <2> QED
    BY <1>1, <2>5, <2>6, <2>7, <2>8, <2>9, <2>10, <2>11, <2>12, <2>13, <2>14, <2>15
       DEF Step, RequestStep
<1>3. CASE pc[r] = "idle" /\ (StopStep(r) \/ Expire(r))
  <2>1. pc' = pc /\ todo' = todo /\ what' = what /\ reply' = reply /\ line' = line
          /\ logger' = logger
    BY <1>3 DEF StopStep, Shutdown, ShutdownDone, ShutdownExpired, Exit, Expire,
                requestVars, logVars
  <2> QED
    BY <1>3, <2>1 DEF ReqInv, Fresh, Taken, Doing, Serving
<1>4. RequestStep(r) \/ StopHandler(r) => pc[r] # "idle"
  BY IdleWaits DEF Open
<1> QED
  BY <1>1, <1>2, <1>3, <1>4 DEF Step

-----------------------------------------------------------------------------
(***************************************************************************)
(* Types                                                                   *)
(***************************************************************************)

\* What is known of the offer that a request is.
LEMMA RequestIs ==
  ASSUME NEW r \in Reqs, ReqInv(r), pc[r] # "idle"
  PROVE  /\ what[r] \in OfferNames
         /\ Req(r) = Offers[what[r]]
         /\ Req(r).ip \in IPs
         /\ Cmds(r) = Validated[Proto(r)][what[r]]
         /\ Proto(r) \in {"http", "grpc", "lambda"}
BY ProtoType DEF ReqInv, Taken, Req, Offer, IPs, Cmds

LEMMA RequestTypesKept ==
  ASSUME RequestTypes, NEW r \in Reqs, ReqInv(r), Step(r)
  PROVE  RequestTypes'
<1> USE DEF RequestTypes, At, requestVars, Steps
<1>1. ASSUME NEW o \in OfferNames, Arrives(r, o)
      PROVE  RequestTypes'
  BY <1>1 DEF Arrives
<1>2. ASSUME NEW step \in Steps, Enter(r, step)
      PROVE  RequestTypes'
  BY <1>2 DEF Enter
<1>3. CASE Render(r)
  <2>1. PICK n \in Sizes(Proto(r), Req(r), Cmds(r)) : size' = [size EXCEPT ![r] = n]
    BY <1>3 DEF Render
  <2>2. n \in Nat
    <3>1. pc[r] # "idle"
      BY <1>3 DEF Render
    <3>2. /\ what[r] \in OfferNames /\ Proto(r) \in {"http", "grpc", "lambda"}
          /\ Req(r) = Offers[what[r]] /\ Cmds(r) = Validated[Proto(r)][what[r]]
      BY <3>1, RequestIs
    <3>3. Sizes(Proto(r), Req(r), Cmds(r)) \subseteq Nat
      BY <3>2, DrawnNumbers
    <3> QED
      BY <3>3
  <2>3. Todo(Cmds(r)) \subseteq Ordered
    BY DEF Todo
  <2> QED
    BY <1>3, <2>1, <2>2, <2>3 DEF Render
<1>4. CASE RenderPanics(r)
  BY <1>4 DEF RenderPanics
<1>5. CASE Act(r)
  <2>1. PICK a \in todo[r] : todo' = [todo EXCEPT ![r] = @ \ {a}]
    BY <1>5 DEF Act
  <2> QED
    BY <1>5, <2>1 DEF Act
<1>6. CASE ActLast(r)
  <2>1. PICK a \in todo[r] : ActLast(r)!2!(a)
    BY <1>6 DEF ActLast
  <2>2. \/ pc' = [pc EXCEPT ![r] = "reflect"]
        \/ pc' = [pc EXCEPT ![r] = "log"]
        \/ pc' = pc
    BY <2>1
  <2>3. size' = [size EXCEPT ![r] = 0] \/ size' = size
    BY <2>1
  <2>4. DOMAIN reply' = Reqs
    BY <2>1
  <2>5. todo' = [todo EXCEPT ![r] = {}] /\ UNCHANGED <<isLambda, what, before>>
    BY <1>6 DEF ActLast
  <2>6. pc' \in [Reqs -> Steps]
    BY <2>2
  <2>7. size' \in [Reqs -> Nat]
    <3>1. CASE size' = [size EXCEPT ![r] = 0]
      BY <3>1
    <3>2. CASE size' = size
      BY <3>2
    <3> QED
      BY <2>3, <3>1, <3>2
  <2>8. todo' \in [Reqs -> SUBSET Ordered]
    BY <2>5
  <2> QED
    BY <2>4, <2>5, <2>6, <2>7, <2>8
<1>7. CASE WriteHttp(r) \/ WriteGrpc(r) \/ UnregisteredMethodHandler(r)
  BY <1>7 DEF WriteHttp, WriteGrpc, UnregisteredMethodHandler
<1>8. ASSUME NEW kind, WritePage(r, kind)
      PROVE  RequestTypes'
  BY <1>8 DEF WritePage
<1>9. CASE ReflectNode(r) \/ ReflectRemote(r) \/ SetLogger(r) \/ updateNode(r)
             \/ getStoreNodeJSON(r)
  BY <1>9 DEF ReflectNode, ReflectRemote, SetLogger, updateNode, getStoreNodeJSON
<1>10. CASE Log(r) \/ Leave(r) \/ StopHandler(r)
  BY <1>10 DEF Log, Leave, Return, StopHandler, StopNow, StopGraceful, StopReturn
<1>11. CASE StopStep(r) \/ Expire(r)
  BY <1>11 DEF StopStep, Shutdown, ShutdownDone, ShutdownExpired, Exit, Expire
<1>12. CASE handlerWrapper(r) \/ noLogHandlerWrapper(r) \/ handleRequest(r)
              \/ UnaryInterceptor(r) \/ StreamInterceptor(r)
  BY <1>2, <1>12 DEF handlerWrapper, noLogHandlerWrapper, handleRequest, UnaryInterceptor,
                     StreamInterceptor
<1> HIDE DEF RequestTypes, At, requestVars, Steps
<1> QED
  BY <1>1, <1>3, <1>4, <1>5, <1>6, <1>7, <1>8, <1>9, <1>10, <1>11, <1>12
     DEF Step, RequestStep, Accept, lambdaHandler, execHandler, envHandler, filesDLHandler

LEMMA LogTypesKept ==
  ASSUME LogTypes, NEW r \in Reqs, ReqInv(r), RequestTypes, Step(r)
  PROVE  LogTypes'
<1>1. LoggerOf(r) \in {0} \union Reqs
  BY DEF LoggerOf
<1>2. CASE initLogger(r) /\ UNCHANGED line
  BY <1>1, <1>2 DEF LogTypes, initLogger
<1>3. CASE SetLogger(r)
  <2>1. reply[r].status \in Nat /\ size[r] \in Nat
    BY <1>3 DEF SetLogger, At, ReqInv, Serving, RequestTypes
  <2> QED
    BY <1>1, <1>3, <2>1 DEF SetLogger, LogTypes
<1>4. ASSUME NEW kind, WritePage(r, kind)
      PROVE  LogTypes'
  <2>1. Req(r).page.status \in Nat /\ Req(r).page.size \in Nat
    BY <1>4, RequestIs, OffersAssumption DEF WritePage, At, OfferNames
  <2> DEFINE page == Req(r).page
             old == logger[LoggerOf(r)]
             new == [owner  |-> old.owner,
                     size   |-> IF page.status = 200 THEN page.size ELSE old.size,
                     status |-> page.status]
  <2>2. logger' = [logger EXCEPT ![LoggerOf(r)] = new] /\ UNCHANGED line
    BY <1>4 DEF WritePage
  <2>3. new \in [owner : {0} \union Reqs, size : Nat, status : Nat]
    BY <1>1, <2>1 DEF LogTypes
  <2> HIDE DEF new
  <2> QED
    BY <1>1, <2>2, <2>3 DEF LogTypes
<1>5. CASE Log(r)
  <2>1. line' = [line EXCEPT ![r] = logger[LoggerOf(r)]] /\ UNCHANGED logger
    BY <1>5 DEF Log, Return
  <2> QED
    BY <1>1, <2>1 DEF LogTypes
<1>6. CASE UNCHANGED logVars
  BY <1>6 DEF LogTypes, logVars
<1>7. CASE RequestStep(r)
  BY <1>2, <1>3, <1>4, <1>5, <1>6, <1>7 DEF RequestStep, logVars,
     handlerWrapper, noLogHandlerWrapper, handleRequest, UnaryInterceptor,
     StreamInterceptor, Enter, Render, RenderPanics, Act, ActLast, WriteHttp, WriteGrpc,
     ReflectNode, ReflectRemote, execHandler, envHandler, filesDLHandler,
     UnregisteredMethodHandler, updateNode, getStoreNodeJSON, Leave, Return
<1>8. CASE ~RequestStep(r)
  BY <1>6, <1>8 DEF Step, Accept, lambdaHandler, Arrives, StopHandler, StopNow, StopGraceful,
     StopReturn, StopStep, Shutdown, ShutdownDone, ShutdownExpired, Exit, Expire
<1> QED
  BY <1>7, <1>8

LEMMA StopTypesKept ==
  ASSUME StopTypes, NEW r \in Reqs, Step(r)
  PROVE  StopTypes'
<1>1. CASE UNCHANGED stopVars
  BY <1>1 DEF StopTypes, stopVars
<1>2. CASE UNCHANGED <<shut, call, expired, cut>> /\ exited' \in {"no", "crash"}
  BY <1>2 DEF StopTypes
<1>3. CASE RequestStep(r)
  BY <1>1, <1>2, <1>3 DEF RequestStep, MapWrite,
     handlerWrapper, noLogHandlerWrapper, handleRequest, UnaryInterceptor,
     StreamInterceptor, Enter, Render, RenderPanics, Act, ActLast, WriteHttp, WriteGrpc,
     ReflectNode, ReflectRemote, execHandler, envHandler, filesDLHandler, WritePage,
     SetLogger, UnregisteredMethodHandler, updateNode, getStoreNodeJSON, Log, Leave, Return
<1>4. ASSUME NEW o \in OfferNames, Accept(r, o) \/ lambdaHandler(r, o)
      PROVE  StopTypes'
  BY <1>2, <1>4 DEF Accept, lambdaHandler, Arrives, At, MapWrite
<1>5. CASE StopHandler(r)
  BY <1>1, <1>5 DEF StopTypes, StopHandler, StopNow, StopGraceful, StopReturn, OpenRequests
<1>6. ASSUME NEW s \in Servers, Shutdown(r, s) \/ ShutdownDone(r, s) \/ ShutdownExpired(r, s)
      PROVE  StopTypes'
  <2>1. call' \in [Reqs -> [Servers -> {"none", "asked", "waiting", "returned"}]]
    BY <1>6 DEF StopTypes, Shutdown, ShutdownDone, ShutdownExpired
  <2>2. shut' \in [Servers -> {"up", "closing", "closed"}]
    BY <1>6 DEF StopTypes, Shutdown, ShutdownDone, ShutdownExpired
  <2>3. cut' \subseteq Reqs
    BY <1>6 DEF StopTypes, Shutdown, ShutdownDone, ShutdownExpired, InFlight, OpenRequests
  <2> QED
    BY <1>6, <2>1, <2>2, <2>3 DEF StopTypes, Shutdown, ShutdownDone, ShutdownExpired
<1>7. CASE Exit(r) \/ Expire(r)
  BY <1>7 DEF StopTypes, Exit, Expire, OpenRequests
<1> QED
  BY <1>3, <1>4, <1>5, <1>6, <1>7 DEF Step, StopStep

LEMMA ActionTypesKept ==
  ASSUME ActionTypes, NEW r \in Reqs, ReqInv(r), Step(r)
  PROVE  ActionTypes'
<1>1. CASE Act(r)
  <2>1. PICK a \in todo[r] \ {"code", "disconnect"} : Act(r)!2!(a)
    BY <1>1 DEF Act
  <2>2. pc[r] # "idle" /\ a \in Cmds(r).actions
    BY <1>1, <2>1 DEF Act, At, ReqInv, Doing
  <2>3. /\ what[r] \in OfferNames /\ Proto(r) \in {"http", "grpc", "lambda"}
        /\ Req(r) = Offers[what[r]] /\ Cmds(r) = Validated[Proto(r)][what[r]]
    BY <2>2, RequestIs
  <2>4. a \in {"cpu", "memory"} => Req(r).q[a][1].from \in 0 .. 100
    BY <2>2, <2>3, ValidTarget
  <2>5. Target' \in [{"cpu", "memory"} -> 0 .. 100]
    <3>1. CASE a \in {"cpu", "memory"}
      <4>1. Target' = [Target EXCEPT ![a] = Req(r).q[a][1].from]
        BY <2>1, <3>1
      <4> QED
        BY <2>4, <3>1, <4>1 DEF ActionTypes
    <3>2. CASE a \notin {"cpu", "memory"}
      BY <2>1, <3>2 DEF ActionTypes
    <3> QED
      BY <3>1, <3>2
  <2>6. DOMAIN maps' = MapNames
    BY <2>1 DEF ActionTypes
  <2> QED
    BY <2>5, <2>6 DEF ActionTypes
<1>2. CASE UNCHANGED <<maps, Target>>
  BY <1>2 DEF ActionTypes
<1>3. CASE RequestStep(r)
  BY <1>1, <1>2, <1>3 DEF RequestStep,
     handlerWrapper, noLogHandlerWrapper, handleRequest, UnaryInterceptor,
     StreamInterceptor, Enter, Render, RenderPanics, ActLast, WriteHttp, WriteGrpc,
     ReflectNode, ReflectRemote, execHandler, envHandler, filesDLHandler, WritePage,
     SetLogger, UnregisteredMethodHandler, updateNode, getStoreNodeJSON, Log, Leave, Return
<1>4. CASE ~RequestStep(r)
  BY <1>2, <1>4 DEF Step, Accept, lambdaHandler, Arrives, StopHandler, StopNow, StopGraceful,
     StopReturn, StopStep, Shutdown, ShutdownDone, ShutdownExpired, Exit, Expire
<1> QED
  BY <1>3, <1>4

LEMMA ReflectStats ==
  ASSUME NEW stats \in Stats, NEW received \in Nat, NEW sent \in Nat
  PROVE  reflectRequest(stats, received, sent) \in Stats
<1>1. [stats EXCEPT !.received = @ + received] \in Stats
  BY DEF Stats
<1>2. ASSUME NEW s \in Stats PROVE [s EXCEPT !.sent = @ + sent] \in Stats
  BY DEF Stats
<1>3. ASSUME NEW s \in Stats PROVE [s EXCEPT !.count = @ + 1] \in Stats
  BY DEF Stats
<1> QED
  BY <1>1, <1>2, <1>3 DEF reflectRequest

LEMMA StatTypesKept ==
  ASSUME StatTypes, RequestTypes, NEW r \in Reqs, ReqInv(r), Step(r),
         active' \in Nat, \A ip \in IPs : remote'[ip].active \in Nat
  PROVE  StatTypes'
<1>1. ASSUME NEW o \in OfferNames, Accept(r, o) \/ lambdaHandler(r, o)
      PROVE  StatTypes'
  BY <1>1 DEF StatTypes, Accept, lambdaHandler, Arrives, IPs
<1>2. ASSUME NEW d \in {1, -1}, AddActive(r, d), pc[r] # "idle"
      PROVE  remote' \in [IPs -> Stats]
  <2>1. Req(r).ip \in IPs
    BY <1>2, RequestIs
  <2> QED
    BY <1>2, <2>1 DEF AddActive, StatTypes, Stats
<1>3. CASE handlerWrapper(r) \/ noLogHandlerWrapper(r) \/ handleRequest(r)
             \/ UnaryInterceptor(r) \/ StreamInterceptor(r)
  <2>1. /\ pc[r] # "idle" /\ UNCHANGED <<node, known, ELBs>>
        /\ AddActive(r, 1) \/ UNCHANGED <<active, remote>>
    BY <1>3 DEF handlerWrapper, noLogHandlerWrapper, handleRequest, UnaryInterceptor,
                StreamInterceptor, Enter, At
  <2> QED
    BY <1>2, <2>1 DEF StatTypes
<1>4. CASE Render(r) \/ RenderPanics(r)
  <2>1. /\ pc[r] # "idle" /\ SetELBs(r) /\ UNCHANGED <<node, known>>
        /\ AddActive(r, -1) \/ UNCHANGED <<active, remote>>
    BY <1>4 DEF Render, RenderPanics, At
  <2>2. ELBs' \subseteq known
    BY <2>1 DEF StatTypes, SetELBs, UsesElb, Proto, ReqInv, Taken
  <2> QED
    BY <1>2, <2>1, <2>2 DEF StatTypes
<1>5. CASE ReflectNode(r) \/ ReflectRemote(r)
  <2>1. pc[r] # "idle" /\ size[r] \in Nat
    BY <1>5 DEF ReflectNode, ReflectRemote, At, RequestTypes
  <2>2. what[r] \in OfferNames /\ Req(r) = Offers[what[r]]
    BY <2>1, RequestIs
  <2>3. ReceivedBytes(r) \in Nat
    BY <2>2, OffersAssumption DEF ReceivedBytes, OfferNames
  <2> DEFINE Reflected(stats) == reflectRequest(stats, ReceivedBytes(r), size[r])
  <2>4. CASE ReflectNode(r)
    <3>1. node \in Stats /\ node' = Reflected(node) /\ UNCHANGED <<active, remote, known, ELBs>>
      BY <2>4 DEF ReflectNode, StatTypes
    <3>2. node' \in Stats
      BY <2>1, <2>3, <3>1, ReflectStats
    <3> QED
      BY <3>1, <3>2 DEF StatTypes
  <2>5. CASE ReflectRemote(r)
    <3>1. /\ remote \in [IPs -> Stats] /\ remote' = [remote EXCEPT ![Req(r).ip] = Reflected(@)]
          /\ UNCHANGED <<active, node, known, ELBs>>
      BY <2>5 DEF ReflectRemote, StatTypes
    <3>2. \A ip \in IPs : Reflected(remote[ip]) \in Stats
      BY <2>1, <2>3, <3>1, ReflectStats
    <3> HIDE DEF Reflected
    <3>3. remote' \in [IPs -> Stats]
      BY <3>1, <3>2
    <3> QED
      BY <3>1, <3>3 DEF StatTypes
  <2> QED
    BY <1>5, <2>4, <2>5
<1>6. CASE updateNode(r)
  BY <1>6 DEF updateNode, StatTypes, Stats
<1>7. CASE Log(r) \/ Leave(r)
  <2>1. pc[r] # "idle" /\ UNCHANGED <<node, known, ELBs>> /\ AddActive(r, -1)
    BY <1>7 DEF Log, Leave, Return, At
  <2> QED
    BY <1>2, <2>1 DEF StatTypes
<1>8. CASE UNCHANGED statVars
  BY <1>8 DEF StatTypes, statVars
<1>9. CASE RequestStep(r)
  BY <1>3, <1>4, <1>5, <1>6, <1>7, <1>8, <1>9 DEF RequestStep, Act, ActLast, WriteHttp,
     WriteGrpc, execHandler, envHandler, filesDLHandler, WritePage, SetLogger,
     UnregisteredMethodHandler, getStoreNodeJSON
<1>10. CASE StopHandler(r) \/ StopStep(r) \/ Expire(r)
  BY <1>8, <1>10 DEF StopHandler, StopNow, StopGraceful, StopReturn, StopStep, Shutdown,
     ShutdownDone, ShutdownExpired, Exit, Expire
<1> QED
  BY <1>1, <1>9, <1>10 DEF Step

-----------------------------------------------------------------------------
(***************************************************************************)
(* The invariant                                                           *)
(***************************************************************************)

LEMMA InvInit ==
  ASSUME Init
  PROVE  ServerInv
<1>1. RequestTypes /\ LogTypes
  BY DEF Init, RequestTypes, LogTypes, NoLine, Steps
<1>2. StatTypes /\ ActionTypes /\ StopTypes
  <2>1. NoStats \in Stats
    BY DEF NoStats, Stats
  <2>2. StatTypes
    BY <2>1 DEF Init, StatTypes
  <2>3. ActionTypes
    <3>1. 0 \in 0 .. 100
      OBVIOUS
    <3>2. Target \in [{"cpu", "memory"} -> 0 .. 100]
      BY <3>1, Zenon DEF Init
    <3> QED
      BY <3>2 DEF Init, ActionTypes
  <2>4. StopTypes
    BY DEF Init, StopTypes
  <2> QED
    BY <2>2, <2>3, <2>4
<1>3. Counted = {} /\ \A ip \in IPs : CountedOf(ip) = {}
  BY DEF Init, Counted, CountedOf, Inside
<1>4. ActiveExact
  BY <1>3, FS_EmptySet DEF Init, ActiveExact, Counted, CountedOf, NoStats
<1>5. ASSUME NEW r \in Reqs
      PROVE  ReqInv(r)
  <2>1. 0 \notin Reqs /\ r \in {0} \union Reqs
    BY BoundsAssumption DEF Reqs
  <2> QED
    BY <2>1 DEF Init, ReqInv, Fresh, Taken, Doing, Serving
<1> QED
  BY <1>1, <1>2, <1>4, <1>5 DEF ServerInv, TypeOK

LEMMA InvStep ==
  ASSUME ServerInv, NEW r \in Reqs, Step(r)
  PROVE  ServerInv' /\ Frame(r)
<1>1. TypeOK /\ ActiveExact /\ ReqInv(r)
  BY DEF ServerInv
<1>2. Frame(r)
  BY <1>1, StepFrame
<1>3. CountsIn(r) \/ CountsOut(r) \/ LeavesCount(r)
  BY <1>1, StepCounts
<1>4. /\ ActiveExact' /\ active' \in Nat
      /\ \A ip \in IPs : remote'[ip].active \in Nat
  BY <1>1, <1>2, <1>3, ActiveKept
<1>5. RequestTypes' /\ LogTypes' /\ ActionTypes' /\ StopTypes'
  BY <1>1, RequestTypesKept, LogTypesKept, ActionTypesKept, StopTypesKept DEF TypeOK
<1>6. StatTypes'
  BY <1>1, <1>4, StatTypesKept DEF TypeOK
<1>7. ReqInv(r)'
  BY <1>1, <1>2, ReqInvKept
<1>8. ASSUME NEW q \in Reqs
      PROVE  ReqInv(q)'
  BY <1>2, <1>7, OthersInv DEF ServerInv
<1> QED
  BY <1>2, <1>4, <1>5, <1>6, <1>8 DEF ServerInv, TypeOK

LEMMA InvStutter ==
  ASSUME ServerInv, UNCHANGED vars
  PROVE  ServerInv'
<1> USE DEF vars, requestVars, logVars, statVars, stopVars
<1>1. RequestTypes' /\ LogTypes' /\ StatTypes' /\ ActionTypes' /\ StopTypes'
  BY DEF ServerInv, TypeOK, RequestTypes, LogTypes, StatTypes, ActionTypes, StopTypes
<1>2. ActiveExact'
  BY DEF ServerInv, ActiveExact, Inside, Req
<1>3. ASSUME NEW r \in Reqs
      PROVE  ReqInv(r)'
  BY DEF ServerInv, ReqInv, Fresh, Taken, Doing, Serving, Req, Kind, Proto, Cmds
<1> QED
  BY <1>1, <1>2, <1>3 DEF ServerInv, TypeOK

LEMMA InvAlways == Spec => []ServerInv
<1>1. ServerInv /\ [Next]_vars => ServerInv'
  BY InvStep, InvStutter DEF Next, Step
<1> QED
  BY InvInit, <1>1, PTL DEF Spec

(***************************************************************************)
(* The variables of the server have their types in every reachable state:  *)
(* whatever way the deferred functions of handlerWrapper and of the        *)
(* interceptors are reached the counts do not become negative, a target is *)
(* a percentage, and an ELB is a node that remoteNodes has.                *)
(***************************************************************************)
THEOREM TypeCorrect == Spec => []TypeOK
<1>1. ServerInv => TypeOK
  BY DEF ServerInv
<1> QED
  BY InvAlways, <1>1, PTL

(***************************************************************************)
(* cw.active and the active_conns of each remote node count the requests   *)
(* between their wrapper's first and last action, for any number of        *)
(* requests of any clients, whichever way their handlers end.              *)
(***************************************************************************)
THEOREM ActiveAlwaysExact == Spec => []ActiveExact
<1>1. ServerInv => ActiveExact
  BY DEF ServerInv
<1> QED
  BY InvAlways, <1>1, PTL

-----------------------------------------------------------------------------
(***************************************************************************)
(* Answers                                                                 *)
(***************************************************************************)

\* An RPC has no handler of HTTP.
LEMMA RpcKind ==
  ASSUME NEW r \in Reqs, ReqInv(r), pc[r] # "idle", Proto(r) = "grpc"
  PROVE  Kind(r) # "default"
<1>1. ~isLambda /\ Req(r).srv \in GrpcServers
  BY DEF Proto
<1>2. what[r] \in OfferNames /\ Req(r) = Offers[what[r]]
  BY RequestIs
<1>3. Req(r).kind \in {"unary", "unregistered"}
  BY <1>1, <1>2, ServersAssumption DEF OfferNames, GrpcKinds
<1> QED
  BY <1>1, <1>3 DEF Kind

\* Only the end of execAction answers for defaultHandler with a response.
LEMMA AnswerStep ==
  ASSUME ServerInv, NEW r \in Reqs, Step(r)
  PROVE  reply'[r] = reply[r] \/ WriteHttp(r) \/ ~Answered(r)'
<1>1. Frame(r) /\ ReqInv(r) /\ RequestTypes
  BY InvStep DEF ServerInv, TypeOK
<1>2. ASSUME pc[r] # "idle", Kind(r) # "default"
      PROVE  ~Answered(r)'
  BY <1>1, <1>2, RequestLasts DEF Answered, SameRequest
<1>3. CASE ActLast(r)
  <2>1. PICK a \in todo[r] : ActLast(r)!2!(a)
    BY <1>3 DEF ActLast
  <2>2. CASE Proto(r) # "grpc"
    <3>1. reply'[r] = Answer(0, 0, {}, 0, <<>>)
      BY <1>1, <2>1, <2>2 DEF RequestTypes
    <3> QED
      BY <3>1 DEF Answered, Answer
  <2>3. CASE Proto(r) = "grpc"
    <3>1. pc[r] # "idle"
      BY <1>3 DEF ActLast, At
    <3> QED
      BY <1>1, <1>2, <2>3, <3>1, RpcKind
  <2> QED
    BY <2>2, <2>3
<1>4. CASE WriteGrpc(r)
  <2>1. pc[r] # "idle" /\ Proto(r) = "grpc"
    BY <1>4 DEF WriteGrpc, At
  <2> QED
    BY <1>1, <1>2, <2>1, RpcKind
<1>5. CASE execHandler(r) \/ envHandler(r) \/ filesDLHandler(r) \/ UnregisteredMethodHandler(r)
  <2>1. pc[r] # "idle" /\ Kind(r) # "default"
    BY <1>5 DEF execHandler, envHandler, filesDLHandler, WritePage, At,
                UnregisteredMethodHandler
  <2> QED
    BY <1>2, <2>1
<1>6. CASE UNCHANGED reply
  BY <1>6
<1>7. CASE RequestStep(r)
  BY <1>3, <1>4, <1>5, <1>6, <1>7 DEF RequestStep, handlerWrapper, noLogHandlerWrapper,
     handleRequest, UnaryInterceptor, StreamInterceptor, Enter, Render, RenderPanics, Act,
     ReflectNode, ReflectRemote, SetLogger, updateNode, getStoreNodeJSON, Log, Leave, Return
<1>8. CASE ~RequestStep(r)
  BY <1>6, <1>8 DEF Step, Accept, lambdaHandler, Arrives, StopHandler, StopNow, StopGraceful,
     StopReturn, StopStep, Shutdown, ShutdownDone, ShutdownExpired, Exit, Expire, requestVars
<1> QED
  BY <1>7, <1>8

\* execAction's response has the size and the status of an honoured request.
LEMMA ResponseAsAsked ==
  ASSUME ServerInv, NEW r \in Reqs, WriteHttp(r), Frame(r)
  PROVE  BodyOf(r)' /\ AskedOf(r)'
<1>1. /\ pc[r] = "act" /\ ReqInv(r) /\ RequestTypes /\ Proto(r) # "grpc"
      /\ isLambda' = isLambda
  BY DEF WriteHttp, At, ServerInv, TypeOK, Frame
<1>2. /\ what[r] \in OfferNames /\ Req(r) = Offers[what[r]]
      /\ Cmds(r) = Validated[Proto(r)][what[r]] /\ Proto(r) \in {"http", "grpc", "lambda"}
  BY <1>1, RequestIs
<1>3. SameRequest(r) /\ Honoured(r)' = Honoured(r)
  BY <1>1, RequestLasts DEF SameRequest, Honoured
<1>4. size[r] \in Nat /\ size[r] \in Sizes(Proto(r), Req(r), Cmds(r))
  BY <1>1 DEF RequestTypes, ReqInv, Serving
<1> DEFINE status == Status(Req(r), Cmds(r))
           chunked == needsAction(Cmds(r)) /\ "chunk" \in Cmds(r).actions
<1>5. /\ reply'[r].size = size[r] /\ reply'[r].status = status
      /\ reply'[r].length \subseteq {size[r]} /\ reply'[r].body = Body(r, status, chunked)
  BY <1>1 DEF WriteHttp, Answer, RequestTypes
<1>6. isLambda \/ bodyAllowed(status) => Body(r, status, chunked) = size[r]
  BY <1>4, WriteExact DEF Body
<1>7. BodyOf(r)'
  BY <1>1, <1>5, <1>6 DEF BodyOf, HasBody
<1>8. /\ needsAction(Cmds(r)) <=> Honoured(r)
      /\ needsAction(Cmds(r)) =>
             Cmds(r).actions = (DOMAIN Req(r).q \intersect validator(Proto(r))) \ IfKeys
  BY <1>2, HonouredNeeds DEF Honoured
<1>9. {"size", "status"} \subseteq validator(Proto(r)) \ IfKeys
  BY <1>1, <1>2 DEF validator, validatorForHttp, validatorForLambda, CommonKeys, IfKeys
<1>10. \A k \in {"size", "status"} :
           needsAction(Cmds(r)) /\ k \in Cmds(r).actions <=> Honoured(r) /\ k \in DOMAIN Req(r).q
  BY <1>8, <1>9
<1>11. IF Honoured(r) /\ "size" \in DOMAIN Req(r).q
       THEN size[r] \in getActionValue(Req(r).q["size"][1])
       ELSE size[r] = JsonLen
  BY <1>1, <1>4, <1>10 DEF Sizes
<1>12. IF Honoured(r) /\ "status" \in DOMAIN Req(r).q
       THEN status = Req(r).q["status"][1].from
       ELSE status = 200
  BY <1>10 DEF Status
<1> HIDE DEF status
<1>13. AskedOf(r)'
  BY <1>3, <1>5, <1>11, <1>12 DEF AskedOf, SameRequest
<1> QED
  BY <1>7, <1>13

AnswerInv == \A r \in Reqs : BodyOf(r) /\ AskedOf(r)

TargetInv == \A c \in {"cpu", "memory"} : Target[c] # 0 => \E r \in Reqs : SetBy(r, c)

LEMMA AnswersKept ==
  ASSUME ServerInv, AnswerInv, NEW r \in Reqs, Step(r)
  PROVE  AnswerInv'
<1>1. Frame(r)
  BY InvStep
<1>2. SUFFICES ASSUME NEW q \in Reqs, Answered(q)', ~(q = r /\ WriteHttp(r))
               PROVE  BodyOf(q)' /\ AskedOf(q)'
  BY <1>1, ResponseAsAsked DEF AnswerInv, BodyOf, AskedOf
<1>3. reply'[q] = reply[q]
  BY <1>1, <1>2, AnswerStep DEF Frame, Same
<1>4. Fresh(q) /\ isLambda' = isLambda
  BY <1>1 DEF ServerInv, ReqInv, Frame
<1>5. pc[q] # "idle"
  <2>1. reply[q].status # -1
    BY <1>2, <1>3 DEF Answered, Replied
  <2>2. pc[q] = "idle" => reply[q] = [status |-> -1]
    BY <1>4 DEF Fresh, NoReply
  <2> QED
    BY <2>1, <2>2
<1>6. SameRequest(q) /\ Honoured(q)' = Honoured(q)
  BY <1>1, <1>5, RequestLasts DEF SameRequest, Honoured
<1>7. Answered(q)
  BY <1>2, <1>3, <1>6 DEF Answered, Replied, SameRequest
<1>8. BodyOf(q) /\ AskedOf(q)
  BY DEF AnswerInv
<1>9. BodyOf(q)'
  BY <1>3, <1>4, <1>7, <1>8 DEF BodyOf, HasBody
<1>10. AskedOf(q)'
  BY <1>3, <1>6, <1>7, <1>8 DEF AskedOf, SameRequest
<1> QED
  BY <1>9, <1>10

LEMMA TargetKept ==
  ASSUME ServerInv, TargetInv, NEW r \in Reqs, Step(r)
  PROVE  TargetInv'
<1>1. Frame(r) /\ \A q \in Reqs : ReqInv(q)
  BY InvStep DEF ServerInv
<1>2. ASSUME NEW q \in Reqs, NEW c, SetBy(q, c), Target'[c] = Target[c]
      PROVE  SetBy(q, c)'
  <2>1. pc[q] # "idle"
    BY <1>1, <1>2 DEF SetBy, ReqInv, Fresh
  <2>2. SameRequest(q) /\ Honoured(q)' = Honoured(q)
    BY <1>1, <2>1, RequestLasts DEF SameRequest, Honoured
  <2> QED
    BY <1>2, <2>2 DEF SetBy, SameRequest
<1>3. CASE UNCHANGED Target
  BY <1>2, <1>3 DEF TargetInv
<1>4. CASE Act(r)
  <2>1. PICK a \in todo[r] \ {"code", "disconnect"} : Act(r)!2!(a)
    BY <1>4 DEF Act
  <2>2. /\ pc[r] # "idle" /\ a \in Cmds(r).actions /\ needsAction(Cmds(r))
    BY <1>1, <1>4, <2>1 DEF Act, At, ReqInv, Doing
  <2>3. /\ what[r] \in OfferNames /\ Proto(r) \in {"http", "grpc", "lambda"}
        /\ Req(r) = Offers[what[r]] /\ Cmds(r) = Validated[Proto(r)][what[r]]
    BY <1>1, <2>2, RequestIs
  <2>4. Honoured(r) /\ a \in DOMAIN Req(r).q \intersect validator(Proto(r)) /\ what[r] # ""
    <3>1. Honoured(r) /\ a \in DOMAIN Req(r).q \intersect validator(Proto(r))
      BY <2>2, <2>3, HonouredNeeds DEF Honoured
    <3>2. what[r] # ""
      BY <2>3, OffersAssumption DEF OfferNames
    <3> QED
      BY <3>1, <3>2
  <2>5. SameRequest(r) /\ Honoured(r)' = Honoured(r)
    BY <1>1, <2>2, RequestLasts DEF SameRequest, Honoured
  <2>6. ASSUME NEW c \in {"cpu", "memory"}, Target'[c] # 0
        PROVE  \E q \in Reqs : SetBy(q, c)'
    <3>1. CASE c = a
      <4>1. Target'[c] = Req(r).q[c][1].from
        BY <2>1, <3>1 DEF ServerInv, TypeOK, ActionTypes
      <4>2. SetBy(r, c)'
        BY <2>4, <2>5, <3>1, <4>1 DEF SetBy, SameRequest
      <4> QED
        BY <4>2
    <3>2. CASE c # a
      <4>1. Target'[c] = Target[c]
        BY <2>1, <3>2 DEF ServerInv, TypeOK, ActionTypes
      <4> QED
        BY <1>2, <2>6, <4>1 DEF TargetInv
    <3> QED
      BY <3>1, <3>2
  <2> QED
    BY <2>6 DEF TargetInv
<1>5. CASE RequestStep(r)
  BY <1>3, <1>4, <1>5 DEF RequestStep,
     handlerWrapper, noLogHandlerWrapper, handleRequest, UnaryInterceptor,
     StreamInterceptor, Enter, Render, RenderPanics, ActLast, WriteHttp, WriteGrpc,
     ReflectNode, ReflectRemote, execHandler, envHandler, filesDLHandler, WritePage,
     SetLogger, UnregisteredMethodHandler, updateNode, getStoreNodeJSON, Log, Leave, Return
<1>6. CASE ~RequestStep(r)
  BY <1>3, <1>6 DEF Step, Accept, lambdaHandler, Arrives, StopHandler, StopNow, StopGraceful,
     StopReturn, StopStep, Shutdown, ShutdownDone, ShutdownExpired, Exit, Expire
<1> QED
  BY <1>5, <1>6

LEMMA AnswersAlways == Spec => [](AnswerInv /\ TargetInv)
<1>1. Init => AnswerInv /\ TargetInv
  <2>1. ASSUME Init
        PROVE  AnswerInv
    <3>1. ASSUME NEW r \in Reqs
          PROVE  ~Answered(r)
      BY <2>1 DEF Init, Answered
    <3> QED
      BY <3>1 DEF AnswerInv, BodyOf, AskedOf
  <2>2. ASSUME Init
        PROVE  TargetInv
    BY <2>2 DEF Init, TargetInv
  <2> QED
    BY <2>1, <2>2
<1>2. ServerInv /\ AnswerInv /\ TargetInv /\ [Next]_vars => AnswerInv' /\ TargetInv'
  <2> SUFFICES ASSUME ServerInv, AnswerInv, TargetInv, [Next]_vars
               PROVE  AnswerInv' /\ TargetInv'
    OBVIOUS
  <2>1. ASSUME NEW r \in Reqs, Step(r)
        PROVE  AnswerInv' /\ TargetInv'
    BY <2>1, AnswersKept, TargetKept
  <2>2. CASE UNCHANGED vars
    <3> USE <2>2 DEF vars, requestVars, logVars, statVars, stopVars
    <3>1. AnswerInv'
      BY DEF AnswerInv, BodyOf, AskedOf, HasBody, Answered, Replied, Honoured, Kind, Proto, Req
    <3>2. TargetInv'
      BY DEF TargetInv, SetBy, Honoured, Proto, Req
    <3> QED
      BY <3>1, <3>2
  <2> QED
    BY <2>1, <2>2 DEF Next, Step
<1> QED
  BY InvAlways, <1>1, <1>2, PTL DEF Spec

\* Whoever answers, with a response, a page or an error, the size of the answer
\* is that of its body, where there may be one.
Sent(r) == Replied(r) /\ HasBody(r) => reply[r].body = reply[r].size

BodyInv == \A r \in Reqs : Sent(r)

LEMMA SentStep ==
  ASSUME ServerInv, NEW r \in Reqs, Step(r), Sent(r)
  PROVE  Sent(r)'
<1>1. Frame(r) /\ ReqInv(r) /\ RequestTypes /\ isLambda' = isLambda
  BY InvStep DEF ServerInv, TypeOK, Frame
<1>2. ASSUME reply'[r].body = reply'[r].size
      PROVE  Sent(r)'
  BY <1>2 DEF Sent
<1>3. CASE ActLast(r)
  <2>1. PICK a \in todo[r] : ActLast(r)!2!(a)
    BY <1>3 DEF ActLast
  <2> DEFINE code == IF a = "code" THEN Req(r).q[a][1].from ELSE 0
  <2>2. \/ UNCHANGED reply
        \/ reply' = [reply EXCEPT ![r] = Answer(0, 0, {}, 0, <<>>)]
        \/ reply' = [reply EXCEPT ![r] = Answer(code, 0, {}, 0, <<>>)]
    BY <2>1, Zenon
  <2> HIDE DEF code
  <2>3. CASE UNCHANGED reply
    BY <1>1, <2>3 DEF Sent, Replied, HasBody
  <2>4. ASSUME NEW c, reply' = [reply EXCEPT ![r] = Answer(c, 0, {}, 0, <<>>)]
        PROVE  Sent(r)'
    <3>1. reply'[r] = Answer(c, 0, {}, 0, <<>>)
      BY <1>1, <2>4 DEF RequestTypes
    <3> QED
      BY <1>2, <3>1 DEF Answer
  <2> QED
    BY <2>2, <2>3, <2>4
<1>4. CASE WriteHttp(r)
  <2> DEFINE status == Status(Req(r), Cmds(r))
             chunked == needsAction(Cmds(r)) /\ "chunk" \in Cmds(r).actions
  <2>1. /\ reply'[r].size = size[r] /\ reply'[r].status = status
        /\ reply'[r].body = Body(r, status, chunked)
    BY <1>1, <1>4 DEF WriteHttp, Answer, RequestTypes
  <2>2. size[r] \in Nat
    BY <1>1 DEF RequestTypes
  <2>3. isLambda \/ bodyAllowed(status) => Body(r, status, chunked) = size[r]
    BY <2>2, WriteExact DEF Body
  <2> HIDE DEF status, chunked
  <2> QED
    BY <1>1, <2>1, <2>3 DEF Sent, HasBody
<1>5. CASE WriteGrpc(r)
  BY <1>1, <1>2, <1>5 DEF WriteGrpc, Answer, RequestTypes, randBytes
<1>6. CASE execHandler(r) \/ envHandler(r) \/ filesDLHandler(r)
  <2>1. PICK kind \in {"exec", "env", "files"} : WritePage(r, kind)
    BY <1>6 DEF execHandler, envHandler, filesDLHandler
  <2>2. PICK page : reply'[r] = Answer(page.status, page.size, {page.size}, page.size, <<>>)
    BY <1>1, <2>1 DEF WritePage, RequestTypes
  <2> QED
    BY <1>2, <2>2 DEF Answer
<1>7. CASE UnregisteredMethodHandler(r)
  BY <1>1, <1>2, <1>7 DEF UnregisteredMethodHandler, Answer, RequestTypes
<1>8. CASE UNCHANGED reply
  BY <1>1, <1>8 DEF Sent, Replied, HasBody
<1>9. CASE RequestStep(r)
  BY <1>3, <1>4, <1>5, <1>6, <1>7, <1>8, <1>9 DEF RequestStep, handlerWrapper,
     noLogHandlerWrapper, handleRequest, UnaryInterceptor, StreamInterceptor, Enter, Render,
     RenderPanics, Act, ReflectNode, ReflectRemote, SetLogger, updateNode, getStoreNodeJSON,
     Log, Leave, Return
<1>10. CASE ~RequestStep(r)
  BY <1>8, <1>10 DEF Step, Accept, lambdaHandler, Arrives, StopHandler, StopNow, StopGraceful,
     StopReturn, StopStep, Shutdown, ShutdownDone, ShutdownExpired, Exit, Expire, requestVars
<1> QED
  BY <1>9, <1>10

LEMMA BodyAlways == Spec => []BodyInv
<1>1. ASSUME Init
      PROVE  BodyInv
  BY <1>1 DEF Init, BodyInv, Sent, Replied, NoReply
<1>2. ServerInv /\ BodyInv /\ [Next]_vars => BodyInv'
  <2> SUFFICES ASSUME ServerInv, BodyInv, [Next]_vars PROVE BodyInv'
    OBVIOUS
  <2>1. ASSUME NEW r \in Reqs, Step(r)
        PROVE  BodyInv'
    <3>1. Frame(r)
      BY <2>1, InvStep
    <3>2. ASSUME NEW q \in Reqs, q # r
          PROVE  Sent(q)'
      <4>1. reply'[q] = reply[q] /\ isLambda' = isLambda /\ Sent(q)
        BY <3>1, <3>2 DEF Frame, Same, BodyInv
      <4> QED
        BY <4>1 DEF Sent, Replied, HasBody
    <3>3. Sent(r)'
      BY <2>1, SentStep DEF BodyInv
    <3> QED
      BY <3>2, <3>3 DEF BodyInv
  <2>2. CASE UNCHANGED vars
    BY <2>2 DEF vars, requestVars, BodyInv, Sent, Replied, HasBody
  <2> QED
    BY <2>1, <2>2 DEF Next, Step
<1> QED
  BY InvAlways, <1>1, <1>2, PTL DEF Spec

(***************************************************************************)
(* Whatever size is asked for, drawn or left to the document, writeResponse*)
(* and writeChunkedResponse write as many bytes as Content-Length says and *)
(* the statistics count.                                                   *)
(***************************************************************************)
THEOREM BodyAlwaysExact == Spec => []BodyExact
<1>1. AnswerInv => BodyExact
  BY DEF AnswerInv, BodyOf, BodyExact
<1> QED
  BY AnswersAlways, <1>1, PTL

\* An honoured request asks for each of its actions.
LEMMA HonouredAsks ==
  ASSUME NEW r \in Reqs, what[r] \in OfferNames, Honoured(r),
         NEW k \in DOMAIN Req(r).q \intersect validator(Proto(r))
  PROVE  Asks(r, k)
<1>1. Proto(r) \in {"http", "grpc", "lambda"} /\ Req(r) = Offer[what[r]]
  BY DEF Proto, Req
<1>2. HonouredOffer(Proto(r), Req(r))
  BY <1>1 DEF Honoured, Honourable
<1>3. IfKeys \subseteq validator(Proto(r))
  BY DEF validator, validatorForGrpc, validatorForHttp, validatorForLambda, CommonKeys, IfKeys
<1> QED
  BY <1>2, <1>3 DEF HonouredOffer, Asks

(***************************************************************************)
(* For any parameters: a request that has no malformed one, none given     *)
(* twice, and only conditions that hold gets what it asks for; no size,    *)
(* status or target comes from a parameter that is malformed or given      *)
(* twice, or from a request with a condition that does not hold.           *)
(***************************************************************************)
THEOREM AlwaysAsAsked == Spec => []AsAsked
<1>1. ServerInv /\ AnswerInv /\ TargetInv => AsAsked
  <2> SUFFICES ASSUME ServerInv, AnswerInv, TargetInv PROVE AsAsked
    OBVIOUS
  <2>1. ASSUME NEW r \in Reqs, what[r] # ""
        PROVE  what[r] \in OfferNames
    BY <2>1 DEF ServerInv, TypeOK, RequestTypes
  <2>2. ASSUME NEW r \in Reqs, Answered(r)
        PROVE  {"size", "status"} \subseteq validator(Proto(r))
    <3>1. ReqInv(r) /\ reply[r].status # -1 /\ Kind(r) = "default"
      BY <2>2 DEF ServerInv, Answered, Replied
    <3>2. pc[r] # "idle"
      <4>1. pc[r] = "idle" => reply[r] = [status |-> -1]
        BY <3>1 DEF ReqInv, Fresh, NoReply
      <4> QED
        BY <3>1, <4>1
    <3>3. Proto(r) \in {"http", "lambda"}
      BY <3>1, <3>2, RpcKind, RequestIs
    <3> QED
      BY <3>3 DEF validator, validatorForHttp, validatorForLambda, CommonKeys
  <2>3. ASSUME NEW r \in Reqs, Answered(r), NEW k \in {"size", "status"},
               Honoured(r), k \in DOMAIN Req(r).q
        PROVE  Asks(r, k)
    BY <2>1, <2>2, <2>3, HonouredAsks DEF Answered
  <2>4. ASSUME NEW c \in {"cpu", "memory"}, Target[c] # 0
        PROVE  \E r \in Reqs : /\ what[r] # "" /\ Asks(r, c)
                               /\ Target[c] = Req(r).q[c][1].from
    <3>1. PICK r \in Reqs : SetBy(r, c)
      BY <2>4 DEF TargetInv
    <3>2. what[r] # "" /\ Asks(r, c)
      BY <2>1, <3>1, HonouredAsks DEF SetBy
    <3> QED
      BY <3>1, <3>2 DEF SetBy
  <2>5. \A r \in Reqs : AskedOf(r)
    BY DEF AnswerInv
  <2> QED
    BY <2>3, <2>4, <2>5 DEF AskedOf, AsAsked
<1> QED
  BY InvAlways, AnswersAlways, <1>1, PTL

-----------------------------------------------------------------------------
(***************************************************************************)
(* The log                                                                 *)
(***************************************************************************)

\* A request that has arrived stays the one it is.
LEMMA ArrivedStays ==
  ASSUME ServerInv, NEW r \in Reqs, Step(r), NEW q \in Reqs, pc[q] # "idle"
  PROVE  pc'[q] # "idle" /\ SameRequest(q)
<1>1. ServerInv' /\ Frame(r)
  BY InvStep
<1>2. SameRequest(q)
  BY <1>1, RequestLasts
<1>3. what[q] \in OfferNames
  BY RequestIs DEF ServerInv
<1>4. what'[q] # ""
  BY <1>2, <1>3, OffersAssumption DEF SameRequest, OfferNames
<1>5. Fresh(q)'
  BY <1>1 DEF ServerInv, ReqInv
<1> QED
  BY <1>2, <1>4, <1>5 DEF Fresh

\* Methods that nobody registered are those of gRPC.
LEMMA UnregisteredIsRpc ==
  ASSUME NEW r \in Reqs, ReqInv(r), pc[r] # "idle", Kind(r) = "unregistered"
  PROVE  Proto(r) = "grpc"
<1>1. what[r] \in OfferNames /\ Req(r) = Offers[what[r]]
  BY RequestIs
<1>2. Req(r).kind = "unregistered"
  BY DEF Kind
<1>3. Req(r).srv \in GrpcServers /\ Req(r).srv \notin HttpServers
  BY <1>1, <1>2, ServersAssumption DEF OfferNames, HttpKinds
<1> QED
  BY <1>3 DEF Proto, ReqInv, Taken

\* noop is a command of gRPC.
LEMMA NoopIsRpc ==
  ASSUME NEW r \in Reqs, ReqInv(r), pc[r] # "idle", "noop" \in Cmds(r).actions
  PROVE  Proto(r) = "grpc"
<1>1. /\ what[r] \in OfferNames /\ Proto(r) \in {"http", "grpc", "lambda"}
      /\ Cmds(r) = Validated[Proto(r)][what[r]]
  BY RequestIs
<1>2. "noop" \in validator(Proto(r))
  BY <1>1, ValidActions
<1> QED
  BY <1>1, <1>2 DEF validator, validatorForHttp, validatorForLambda, CommonKeys, IfKeys

\* A step that does not touch the logger, before the line is written.
LEMMA QuietLogger ==
  ASSUME NEW r \in Reqs, OwnLogger(r), SameRequest(r), pc[r] # "done",
         logger'[r] = logger[r], line'[r] = line[r], pc'[r] \notin {"accepted", "page"},
         pc'[r] = "log" => Proto(r) = "grpc" \/ Kind(r) = "monitor"
  PROVE  OwnLogger(r)'
BY DEF OwnLogger, SameRequest, NoLine

LEMMA OwnLoggerKept ==
  ASSUME ServerInv, NEW r \in Reqs, Step(r), pc[r] # "idle", ~Req(r).h2c, OwnLogger(r)
  PROVE  OwnLogger(r)'
<1>1. Frame(r) /\ SameRequest(r) /\ ReqInv(r) /\ RequestTypes /\ LogTypes
  BY InvStep, ArrivedStays DEF ServerInv, TypeOK
<1>2. LoggerOf(r) = r /\ r # 0 /\ r \in DOMAIN logger
  BY <1>1, BoundsAssumption DEF LoggerOf, Reqs, LogTypes
<1> USE DEF At, RequestTypes, logVars, requestVars
<1>3. CASE initLogger(r) /\ pc[r] = "accepted" /\ UNCHANGED line
             /\ pc'[r] \in {"render", "page", "monitor"}
  <2>1. logger[r] = NoLine /\ line[r] = NoLine
    BY <1>3 DEF OwnLogger
  <2>2. logger'[r] = [NoLine EXCEPT !.owner = r]
    BY <1>2, <1>3, <2>1 DEF initLogger
  <2> QED
    BY <1>3, <2>1, <2>2 DEF OwnLogger, NoLine
<1>4. CASE handlerWrapper(r) \/ handleRequest(r)
  BY <1>1, <1>3, <1>4 DEF handlerWrapper, handleRequest, Enter
<1>5. CASE noLogHandlerWrapper(r) \/ UnaryInterceptor(r) \/ StreamInterceptor(r)
  <2>1. /\ pc[r] = "accepted" /\ UNCHANGED <<logger, line>>
        /\ pc'[r] \in {"render", "page", "monitor"}
    BY <1>1, <1>5 DEF noLogHandlerWrapper, UnaryInterceptor, StreamInterceptor, Enter
  <2> QED
    BY <2>1 DEF OwnLogger, NoLine
<1>6. CASE Render(r)
  <2>1. /\ pc[r] = "render" /\ UNCHANGED <<logger, line>> /\ pc'[r] \in {"act", "log"}
        /\ pc'[r] = "log" => "noop" \in Cmds(r).actions
    BY <1>1, <1>6 DEF Render
  <2> QED
    BY <1>1, <2>1, NoopIsRpc, QuietLogger
<1>7. CASE RenderPanics(r)
  <2>1. pc[r] = "render" /\ UNCHANGED <<logger, line>> /\ pc'[r] \in {"done", "render"}
    BY <1>1, <1>7 DEF RenderPanics
  <2> QED
    BY <1>1, <2>1, QuietLogger
<1>8. CASE Act(r) \/ WriteHttp(r) \/ ReflectNode(r) \/ ReflectRemote(r) \/ updateNode(r)
  <2>1. /\ pc[r] # "done" /\ UNCHANGED <<logger, line>>
        /\ pc'[r] \in {"act", "reflect", "remote", "logger", "marshal"}
    BY <1>1, <1>8 DEF Act, WriteHttp, ReflectNode, ReflectRemote, updateNode
  <2> QED
    BY <1>1, <2>1, QuietLogger
<1>9. CASE ActLast(r)
  <2>1. PICK a \in todo[r] : ActLast(r)!2!(a)
    BY <1>9 DEF ActLast
  <2>2. pc[r] = "act" /\ UNCHANGED <<logger, line>>
    BY <1>9 DEF ActLast
  <2>3. \/ pc'[r] \in {"act", "reflect"}
        \/ pc'[r] = "log" /\ Proto(r) = "grpc"
    BY <1>1, <2>1, <2>2
  <2> QED
    BY <1>1, <2>2, <2>3, QuietLogger
<1>10. CASE WriteGrpc(r) \/ UnregisteredMethodHandler(r) \/ getStoreNodeJSON(r)
  <2>1. /\ pc[r] \in {"act", "page", "marshal"} /\ UNCHANGED <<logger, line>> /\ pc'[r] = "log"
        /\ Proto(r) = "grpc" \/ Kind(r) = "unregistered" \/ pc[r] = "marshal"
    BY <1>1, <1>10 DEF WriteGrpc, UnregisteredMethodHandler, getStoreNodeJSON
  <2>2. Proto(r) = "grpc" \/ Kind(r) = "monitor"
    BY <1>1, <2>1, UnregisteredIsRpc DEF ReqInv, Serving
  <2> QED
    BY <1>1, <2>1, <2>2, QuietLogger
<1>11. CASE SetLogger(r)
  <2>1. /\ pc[r] = "logger" /\ pc'[r] = "log" /\ UNCHANGED <<reply, line>>
        /\ logger'[r] = [owner |-> logger[r].owner, size |-> size[r], status |-> reply[r].status]
    BY <1>1, <1>2, <1>11 DEF SetLogger
  <2>2. reply[r].size = size[r]
    BY <1>1, <2>1 DEF ReqInv, Serving
  <2>3. logger[r].owner \in {0, r} /\ line[r] = NoLine
    BY <2>1 DEF OwnLogger
  <2>4. /\ logger'[r].owner = logger[r].owner /\ logger'[r].size = reply'[r].size
        /\ logger'[r].status = reply'[r].status
    BY <2>1, <2>2
  <2> QED
    BY <2>1, <2>3, <2>4 DEF OwnLogger, NoLine
<1>12. ASSUME NEW kind, WritePage(r, kind)
       PROVE  OwnLogger(r)'
  <2> DEFINE page == Req(r).page
  <2>1. page.status # 200 => page.size = 0
    <3>1. PICK o \in OfferNames : Req(r) = Offers[o]
      BY <1>1, RequestIs
    <3>2. Offers[o].page.status # 200 => Offers[o].page.size = 0
      BY OffersAssumption DEF OfferNames
    <3> QED
      BY <3>1, <3>2
  <2>2. pc[r] = "page" /\ pc'[r] = "log" /\ UNCHANGED line
    BY <1>1, <1>12 DEF WritePage
  <2>3. logger[r].size = 0 /\ logger[r].owner \in {0, r} /\ line[r] = NoLine
    BY <2>2 DEF OwnLogger
  <2>4. reply'[r].status = page.status /\ reply'[r].size = page.size
    BY <1>1, <1>12 DEF WritePage, Answer
  <2>5. logger'[r] = [owner  |-> logger[r].owner,
                      size   |-> IF page.status = 200 THEN page.size ELSE logger[r].size,
                      status |-> page.status]
    BY <1>2, <1>12 DEF WritePage
  <2> HIDE DEF page
  <2> QED
    BY <2>1, <2>2, <2>3, <2>4, <2>5 DEF OwnLogger, NoLine
<1>13. CASE Log(r)
  <2>1. /\ pc[r] = "log" /\ pc'[r] = "done" /\ UNCHANGED <<logger, reply>>
        /\ Proto(r) # "grpc" /\ Kind(r) # "monitor" /\ line'[r] = logger[r]
    BY <1>1, <1>2, <1>13 DEF Log, Return, LogTypes
  <2>2. logger[r].owner = r => logger[r].size = reply[r].size /\ logger[r].status = reply[r].status
    BY <2>1 DEF OwnLogger
  <2>3. logger[r] = [owner |-> logger[r].owner, size |-> logger[r].size,
                     status |-> logger[r].status]
    BY <1>1, <1>2 DEF LogTypes
  <2> QED
    BY <2>1, <2>2, <2>3 DEF OwnLogger
<1>14. CASE Leave(r) \/ StopGraceful(r) \/ StopReturn(r)
  <2>1. /\ pc[r] \in {"log", "accepted", "return"} /\ pc'[r] \in {"done", "return"}
        /\ UNCHANGED <<logger, line>>
    BY <1>1, <1>14 DEF Leave, Return, StopGraceful, StopReturn
  <2> QED
    BY <1>1, <2>1, QuietLogger
<1>15. CASE StopNow(r) \/ StopStep(r) \/ Expire(r)
  <2>1. UNCHANGED <<pc, logger, line, reply>>
    BY <1>15 DEF StopNow, StopStep, Shutdown, ShutdownDone, ShutdownExpired, Exit, Expire
  <2> QED
    BY <1>1, <2>1 DEF OwnLogger, SameRequest
<1> HIDE DEF At, RequestTypes, logVars, requestVars
<1>16. ASSUME NEW o \in OfferNames, Accept(r, o) \/ lambdaHandler(r, o)
       PROVE  FALSE
  BY <1>16 DEF Accept, lambdaHandler, Arrives, At
<1> QED
  BY <1>4, <1>5, <1>6, <1>7, <1>8, <1>9, <1>10, <1>11, <1>12, <1>13, <1>14, <1>15, <1>16
     DEF Step, RequestStep, StopHandler, execHandler, envHandler, filesDLHandler

LEMMA LogKept ==
  ASSUME ServerInv, LogInv, NEW r \in Reqs, Step(r)
  PROVE  LogInv'
<1>1. Frame(r) /\ LogTypes /\ ServerInv'
  BY InvStep DEF ServerInv, TypeOK
<1>2. ASSUME NEW q \in Reqs, pc[q] = "idle", pc'[q] # "idle"
      PROVE  logger'[q] = NoLine /\ line'[q] = NoLine /\ pc'[q] = "accepted"
  <2>1. logger[q] = NoLine /\ line[q] = NoLine /\ ReqInv(q)
    BY <1>2 DEF ServerInv, ReqInv, Fresh
  <2>2. q = r
    BY <1>1, <1>2 DEF Frame, Same
  <2>3. ~(RequestStep(r) \/ StopHandler(r))
    BY <1>2, <2>2, IdleWaits DEF Open
  <2> QED
    BY <1>2, <2>1, <2>2, <2>3 DEF Step, Accept, lambdaHandler, Arrives, StopStep, Shutdown,
       ShutdownDone, ShutdownExpired, Exit, Expire, logVars, requestVars, ServerInv, TypeOK,
       RequestTypes
<1>3. ASSUME NEW q \in Reqs, pc'[q] # "idle", ~(Req(q).h2c)'
      PROVE  OwnLogger(q)'
  <2>1. CASE pc[q] = "idle"
    BY <1>2, <1>3, <2>1 DEF OwnLogger, NoLine
  <2>2. CASE pc[q] # "idle"
    <3>1. ~Req(q).h2c /\ OwnLogger(q) /\ SameRequest(q)
      BY <1>3, <2>2, ArrivedStays DEF LogInv, SameRequest
    <3>2. CASE q = r
      BY <2>2, <3>1, <3>2, OwnLoggerKept
    <3>3. CASE q # r
      BY <1>1, <3>1, <3>3 DEF OwnLogger, Frame, Same, SameRequest
    <3> QED
      BY <3>2, <3>3
  <2> QED
    BY <2>1, <2>2
<1> QED
  BY <1>3 DEF LogInv

LEMMA LogAlways == Spec => []LogInv
<1>1. ASSUME Init
      PROVE  LogInv
  BY <1>1 DEF Init, LogInv
<1>2. ServerInv /\ LogInv /\ [Next]_vars => LogInv'
  <2>1. ASSUME LogInv, UNCHANGED vars
        PROVE  LogInv'
    BY <2>1 DEF vars, requestVars, logVars, statVars, stopVars, LogInv, OwnLogger,
                Req, Kind, Proto
  <2> QED
    BY <2>1, LogKept DEF Next, Step
<1> QED
  BY InvAlways, <1>1, <1>2, PTL DEF Spec

(***************************************************************************)
(* httpLogger.log writes of a request, unless it came over h2c, its own    *)
(* fields with the status of its own response and the size of its body,    *)
(* however the handlers of other requests interleave.                      *)
(***************************************************************************)
THEOREM LineAlwaysOwn == Spec => []LineOwn
<1>1. ServerInv /\ LogInv /\ BodyInv => LineOwn
  <2> SUFFICES ASSUME ServerInv, LogInv, BodyInv, NEW r \in Reqs,
                      line[r].owner # 0, ~Req(r).h2c
               PROVE  /\ line[r].owner = r /\ line[r].status = reply[r].status
                      /\ HasBody(r) => line[r].size = reply[r].body
    BY DEF LineOwn
  <2>1. pc[r] = "idle" => line[r] = NoLine
    BY DEF ServerInv, ReqInv, Fresh
  <2>2. pc[r] # "idle"
    BY <2>1 DEF NoLine
  <2>3. line[r] = [owner |-> r, size |-> reply[r].size, status |-> reply[r].status]
    BY <2>2 DEF LogInv, OwnLogger
  <2>4. Replied(r)
    <3>1. line[r].status \in Nat
      BY DEF ServerInv, TypeOK, LogTypes
    <3> QED
      BY <2>3, <3>1 DEF Replied
  <2> QED
    BY <2>3, <2>4 DEF BodyInv, Sent
<1> QED
  BY InvAlways, LogAlways, BodyAlways, <1>1, PTL

-----------------------------------------------------------------------------
(***************************************************************************)
(* The graceful stop                                                       *)
(***************************************************************************)

\* No request is in progress on a closed server but on hijacked connections.
Drained(s) ==
    shut[s] = "closed" => \A r \in Reqs : Open(r) /\ Req(r).srv = s => Req(r).h2c

\* A step of r leaves a server drained, if r was in progress or comes over a
\* hijacked connection or to another server.
LEMMA DrainedKept ==
  ASSUME ServerInv, NEW r \in Reqs, Step(r), NEW s \in Servers, Drained(s),
         shut'[s] = "closed" => shut[s] = "closed",
         \/ Open(r)' => Open(r)
         \/ shut'[s] = "closed" /\ (Req(r).srv = s)' => (Req(r).h2c)'
  PROVE  Drained(s)'
<1>1. Frame(r)
  BY InvStep
<1>2. ASSUME NEW q \in Reqs, Open(q), Open(q)'
      PROVE  Req(q)' = Req(q)
  BY <1>2, ArrivedStays DEF Open, SameRequest
<1>3. \A q \in Reqs \ {r} : Open(q)' => Open(q)
  BY <1>1 DEF Open, Frame, Same
<1> QED
  BY <1>2, <1>3 DEF Drained

LEMMA StopKept ==
  ASSUME ServerInv, StopInv, NEW r \in Reqs, Step(r)
  PROVE  StopInv'
<1>1. exited = "no" /\ isLambda' = isLambda /\ StopTypes /\ ReqInv(r) /\ Frame(r)
  BY InvStep DEF Frame, ServerInv, TypeOK
<1>2. expired = {} => cut = {} /\ \A s \in Servers : Drained(s)
  BY <1>1 DEF StopInv, Drained
<1>3. ASSUME shut' = shut, call' = call, expired' = expired, cut' = cut, exited' # "graceful",
             \/ Open(r)' => Open(r)
             \/ \A s \in Servers : shut'[s] = "closed" /\ (Req(r).srv = s)' => (Req(r).h2c)'
      PROVE  StopInv'
  <2>1. ASSUME NEW s \in Servers, expired = {}
        PROVE  Drained(s)'
    BY <1>2, <1>3, <2>1, DrainedKept
  <2> QED
    BY <1>1, <1>2, <1>3, <2>1 DEF StopInv, Drained
<1>4. ASSUME NEW o \in OfferNames, Accept(r, o) \/ lambdaHandler(r, o)
      PROVE  StopInv'
  <2>1. /\ shut' = shut /\ call' = call /\ expired' = expired /\ cut' = cut
        /\ exited' # "graceful" /\ Req(r)' = Offer[o]
    BY <1>1, <1>4 DEF Accept, lambdaHandler, Arrives, MapWrite, Req, ServerInv, TypeOK,
                      RequestTypes
  <2>2. \A s \in Servers : shut'[s] = "closed" /\ (Req(r).srv = s)' => (Req(r).h2c)'
    <3>1. CASE isLambda
      BY <2>1, <3>1 DEF StopInv
    <3>2. CASE ~isLambda
      BY <1>4, <2>1, <3>2 DEF Accept, lambdaHandler
    <3> QED
      BY <3>1, <3>2
  <2> QED
    BY <1>3, <2>1, <2>2
<1>5. CASE RequestStep(r)
  <2>1. Open(r)
    BY <1>5, IdleWaits
  <2>2. /\ shut' = shut /\ call' = call /\ expired' = expired /\ cut' = cut
        /\ exited' # "graceful"
    BY <1>1, <1>5 DEF RequestStep, MapWrite, stopVars,
       handlerWrapper, noLogHandlerWrapper, handleRequest, UnaryInterceptor,
       StreamInterceptor, Enter, Render, RenderPanics, Act, ActLast, WriteHttp, WriteGrpc,
       ReflectNode, ReflectRemote, execHandler, envHandler, filesDLHandler, WritePage,
       SetLogger, UnregisteredMethodHandler, updateNode, getStoreNodeJSON, Log, Leave, Return
  <2> QED
    BY <1>3, <2>1, <2>2
<1>6. CASE StopReturn(r)
  <2>1. Open(r)
    BY <1>6 DEF StopReturn, At, Open
  <2> QED
    BY <1>1, <1>3, <1>6, <2>1 DEF StopReturn, stopVars
<1>7. CASE StopNow(r)
  <2>1. /\ shut' = shut /\ call' = call /\ expired' = expired /\ exited' = "fatal"
        /\ Open(r)' = Open(r)
    BY <1>7 DEF StopNow, Open, requestVars
  <2>2. ASSUME NEW s \in Servers, expired = {}
        PROVE  Drained(s)'
    BY <1>2, <2>1, <2>2, DrainedKept
  <2> QED
    BY <1>1, <2>1, <2>2 DEF StopInv, Drained
<1>8. CASE StopGraceful(r)
  <2>1. /\ shut' = shut /\ expired' = expired /\ exited' = exited /\ cut' = cut
        /\ Open(r) /\ ~isLambda
        /\ call' = [call EXCEPT ![r] = [s \in Servers |-> "asked"]]
    BY <1>8 DEF StopGraceful, Open, At, Kind
  <2>2. ASSUME NEW s \in Servers, expired = {}
        PROVE  Drained(s)'
    BY <1>2, <2>1, <2>2, DrainedKept
  <2>3. \A q \in Reqs, s \in Servers : call'[q][s] = "returned" => call[q][s] = "returned"
    BY <1>1, <2>1 DEF StopTypes
  <2> QED
    BY <1>1, <1>2, <2>1, <2>2, <2>3 DEF StopInv, Drained
<1>9. ASSUME NEW s \in Servers, Shutdown(r, s)
      PROVE  StopInv'
  <2>1. /\ expired' = expired /\ exited' = exited /\ cut' = cut /\ Open(r)' = Open(r)
        /\ call[r][s] = "asked" /\ call' = [call EXCEPT ![r][s] = "waiting"]
        /\ shut' = [shut EXCEPT ![s] = IF @ = "up" THEN "closing" ELSE @]
    BY <1>9 DEF Shutdown, Open, requestVars
  <2>2. ~isLambda
    BY <2>1 DEF StopInv
  <2>3. \A t \in Servers : shut'[t] = "closed" <=> shut[t] = "closed"
    BY <1>1, <2>1 DEF StopTypes
  <2>4. ASSUME NEW t \in Servers, expired = {}
        PROVE  Drained(t)'
    BY <1>2, <2>1, <2>3, <2>4, DrainedKept
  <2>5. \A q \in Reqs, t \in Servers : call'[q][t] = "returned" => call[q][t] = "returned"
    BY <1>1, <2>1 DEF StopTypes
  <2> QED
    BY <1>1, <1>2, <2>1, <2>2, <2>3, <2>4, <2>5 DEF StopInv, Drained
<1>10. ASSUME NEW s \in Servers, ShutdownDone(r, s)
       PROVE  StopInv'
  <2>1. /\ expired' = expired /\ exited' = exited /\ cut' = cut /\ pc' = pc /\ what' = what
        /\ call[r][s] = "waiting" /\ call' = [call EXCEPT ![r][s] = "returned"]
        /\ shut' = [shut EXCEPT ![s] = "closed"] /\ InFlight(s) = {}
    BY <1>10 DEF ShutdownDone, requestVars
  <2>2. ~isLambda
    BY <2>1 DEF StopInv
  <2>3. ASSUME NEW t \in Servers, expired = {}
        PROVE  Drained(t)'
    <3>1. CASE t = s
      BY <1>2, <2>1, <2>3, <3>1 DEF Drained, InFlight, OpenRequests, Open, Req
    <3>2. CASE t # s
      BY <1>1, <1>2, <2>1, <2>3, <3>2 DEF Drained, Open, Req, StopTypes
    <3> QED
      BY <3>1, <3>2
  <2>4. ASSUME NEW q \in Reqs, NEW t \in Servers, call'[q][t] = "returned", expired = {}
        PROVE  shut'[t] = "closed"
    <3>1. CASE t = s
      BY <1>1, <2>1, <3>1 DEF StopTypes
    <3>2. CASE t # s
      BY <1>1, <2>1, <2>4, <3>2 DEF StopTypes, StopInv
    <3> QED
      BY <3>1, <3>2
  <2> QED
    BY <1>1, <1>2, <2>1, <2>2, <2>3, <2>4 DEF StopInv, Drained
<1>11. ASSUME NEW s \in Servers, ShutdownExpired(r, s)
       PROVE  StopInv'
  <2>1. call[r][s] = "waiting" /\ expired' = expired /\ expired # {}
    BY <1>11 DEF ShutdownExpired
  <2>2. ~isLambda
    BY <2>1 DEF StopInv
  <2> QED
    BY <1>1, <2>1, <2>2 DEF StopInv
<1>12. CASE Expire(r)
  <2>1. expired' # {} /\ shut' = shut /\ call' = call
    BY <1>12 DEF Expire
  <2> QED
    BY <1>1, <2>1 DEF StopInv
<1>13. CASE Exit(r)
  <2>1. /\ expired' = expired /\ exited' = "graceful" /\ cut' = cut \union OpenRequests
        /\ pc' = pc /\ what' = what /\ call' = call /\ shut' = shut
        /\ \A s \in Servers : call[r][s] = "returned"
    BY <1>13 DEF Exit, requestVars
  <2>2. ASSUME expired = {}, NEW q \in OpenRequests
        PROVE  Req(q).h2c
    <3>1. q \in Reqs /\ Open(q) /\ pc[q] # "idle" /\ ReqInv(q)
      BY DEF OpenRequests, Open, ServerInv
    <3>2. what[q] \in OfferNames /\ Req(q) = Offers[what[q]]
      BY <3>1, RequestIs
    <3>3. PICK s \in Servers : s = Req(q).srv
      BY <3>2, ServersAssumption DEF OfferNames, Servers
    <3>4. shut[s] = "closed" /\ Drained(s)
      BY <1>2, <2>1, <2>2 DEF StopInv
    <3> QED
      BY <3>1, <3>3, <3>4 DEF Drained
  <2>3. ASSUME expired = {}, NEW q \in cut'
        PROVE  (Req(q).h2c)'
    BY <1>2, <2>1, <2>2, <2>3 DEF Req
  <2>4. ASSUME NEW s \in Servers, expired = {}
        PROVE  Drained(s)'
    BY <1>2, <2>1, <2>4 DEF Drained, Open, Req
  <2> QED
    BY <1>1, <2>1, <2>3, <2>4 DEF StopInv, Drained
<1> QED
  BY <1>4, <1>5, <1>6, <1>7, <1>8, <1>9, <1>10, <1>11, <1>12, <1>13
     DEF Step, StopHandler, StopStep

LEMMA StopAlways == Spec => []StopInv
<1>1. ASSUME Init
      PROVE  StopInv
  <2>1. /\ \A s \in Servers : shut[s] = "up"
        /\ \A r \in Reqs, s \in Servers : call[r][s] = "none"
        /\ cut = {} /\ exited = "no"
    BY <1>1 DEF Init
  <2> QED
    BY <2>1 DEF StopInv
<1>2. ServerInv /\ StopInv /\ [Next]_vars => StopInv'
  <2>1. ASSUME StopInv, UNCHANGED vars
        PROVE  StopInv'
    BY <2>1 DEF vars, requestVars, logVars, statVars, stopVars, StopInv, Open, Req
  <2> QED
    BY <2>1, StopKept DEF Next, Step
<1> QED
  BY InvAlways, <1>1, <1>2, PTL DEF Spec

(***************************************************************************)
(* A graceful stop ends the process with requests in progress only where   *)
(* stopHandler's 30 s were over or where Shutdown cannot know of them, for *)
(* any number of servers, of requests and of stop requests at once.        *)
(***************************************************************************)
THEOREM AlwaysInFlightWaited == Spec => []InFlightWaited
<1>1. StopInv => InFlightWaited
  BY DEF StopInv, InFlightWaited
<1> QED
  BY StopAlways, <1>1, PTL
=============================================================================
