------------------------------ MODULE Requests ------------------------------
(***************************************************************************)
(* What a request asks for and what the server makes of it, before and     *)
(* besides any shared state: the addresses it came from, the validation of *)
(* its parameters, the draw of their values, and the number of bytes of    *)
(* the response (types.go, response.go).                                   *)
(*                                                                         *)
(* A query maps parameters to the values given for them, in order.  A      *)
(* value is a record: "ok", whether it matches the parameter's regular     *)
(* expression, and what the parameter needs: "covers", the actual values   *)
(* that a condition accepts (a CIDR block accepts many); "from", "to" and  *)
(* "range" of a number; "name" and "text" of a header.                     *)
(***************************************************************************)
EXTENDS Commands, Sequences

CONSTANTS
    Offers,     \* the requests that clients send, by name
    Host,       \* the actual values of ifhost, ifhostip, ifaz and iftype
    JsonLen,    \* the length of the JSON document, in bytes
    MaxInt      \* the largest int, where max-min+1 overflows

\* The parameters that are numbers.
NumberKeys == {"cpu", "memory", "sleep", "size", "status", "code", "repeat"}

(***************************************************************************)
(* What the code never questions: the name of an offer is not the empty    *)
(* one, a parameter has a value, a number that matches its regular         *)
(* expression is one, a percentage at most 100, a status not 0, and a page *)
(* that is not there has no body.                                          *)
(***************************************************************************)
ASSUME OffersAssumption ==
    /\ "" \notin DOMAIN Offers
    /\ \A o \in DOMAIN Offers :
           /\ Offers[o].h2c \in BOOLEAN
           /\ Offers[o].body \in Nat
           /\ Offers[o].page.status \in Nat /\ Offers[o].page.size \in Nat
           /\ Offers[o].page.status # 200 => Offers[o].page.size = 0
           /\ \A k \in DOMAIN Offers[o].q :
                  /\ Len(Offers[o].q[k]) \in Nat \ {0}
                  /\ DOMAIN Offers[o].q[k] = 1 .. Len(Offers[o].q[k])
           /\ \A k \in DOMAIN Offers[o].q \intersect NumberKeys :
                  LET v == Offers[o].q[k][1]
                  IN  v.ok => /\ v.range \in BOOLEAN /\ v.from \in Nat /\ v.to \in Nat
                              /\ k \in {"cpu", "memory"} => v.from <= 100
                              /\ k = "status" => v.from # 0

ASSUME JsonLenAssumption == JsonLen \in Nat
ASSUME MaxIntAssumption == MaxInt \in Nat

NoQuery == [k \in {} |-> <<>>]

-----------------------------------------------------------------------------
(***************************************************************************)
(* Parameters and their validation                                         *)
(***************************************************************************)

IfKeys ==
    {"ifclientip", "ifproxy1ip", "ifproxy2ip", "ifproxy3ip", "iflasthopip",
     "iftargetip", "ifhostip", "ifhost", "ifaz", "iftype"}

CommonKeys ==
    IfKeys \union {"cpu", "memory", "sleep", "size", "addheader", "delheader",
                   "stdout", "stderr", "disconnect"}

validatorForHttp == CommonKeys \union {"status", "chunk"}

validatorForGrpc ==
    CommonKeys \union
        {"addtrailer", "deltrailer", "code", "repeat", "dataonly", "noop"}

\* runLambda deletes the commands that make no sense there.
validatorForLambda == validatorForHttp \ {"cpu", "memory"}

validator(proto) ==
    CASE proto = "grpc"   -> validatorForGrpc
      [] proto = "lambda" -> validatorForLambda
      [] OTHER            -> validatorForHttp

(***************************************************************************)
(* Whether the values of a parameter match its regular expression once     *)
(* combineValuesWithOr has joined them with " or ".  Conditions and texts  *)
(* may be joined; of headers the rest becomes a part of the first one's    *)
(* text; every other parameter becomes invalid when it is given twice.     *)
(***************************************************************************)
FindStringSubmatch(key, values) ==
    CASE key \in IfKeys \union {"stdout", "stderr"} ->
             \A i \in DOMAIN values : values[i].ok
      [] key \in {"addheader", "addtrailer"} -> values[1].ok
      [] OTHER -> Len(values) = 1 /\ values[1].ok

\* The hop of X-Forwarded-For with this number, "" without one.
Hop(xff, n) == IF Len(xff) >= n THEN xff[n] ELSE ""

\* setIPAddress, of which the entry in ELBs is Server's.  A request made from
\* an event of Lambda has no remote and no local address.
setIPAddress(lambda, req) ==
    LET remoteAddr == IF lambda THEN "" ELSE req.ip
    IN  [client  |-> IF req.xff = <<>> THEN remoteAddr ELSE req.xff[1],
         proxy1  |-> Hop(req.xff, 2),
         proxy2  |-> Hop(req.xff, 3),
         proxy3  |-> Hop(req.xff, 4),
         lasthop |-> IF req.xff = <<>> \/ lambda THEN "" ELSE remoteAddr,
         target  |-> IF lambda THEN Host["ifhostip"] ELSE req.local]

\* The same of an RPC, from its metadata and its peer.
getMDSetFromContext(req) ==
    [client  |-> IF req.xff = <<>> THEN req.ip ELSE req.xff[1],
     proxy1  |-> Hop(req.xff, 2),
     proxy2  |-> Hop(req.xff, 3),
     proxy3  |-> Hop(req.xff, 4),
     lasthop |-> IF req.xff = <<>> THEN "" ELSE req.ip,
     target  |-> req.local]

RequestInfo(proto, req) ==
    IF proto = "grpc"
    THEN getMDSetFromContext(req)
    ELSE setIPAddress(proto = "lambda", req)

getActualValue(info, key) ==
    CASE key = "ifclientip"  -> info.client
      [] key = "ifproxy1ip"  -> info.proxy1
      [] key = "ifproxy2ip"  -> info.proxy2
      [] key = "ifproxy3ip"  -> info.proxy3
      [] key = "iflasthopip" -> info.lasthop
      [] key = "iftargetip"  -> info.target
      [] OTHER               -> Host[key]

\* Mutated form of judgeActualValue: every alternative must match.
judgeActualValueAll(actual, values) ==
    \A i \in DOMAIN values : actual \in values[i].covers

\* One of the alternatives matches.
judgeActualValue(actual, values) ==
    \E i \in DOMAIN values : actual \in values[i].covers

validateCommands(proto, req) ==
    LET info == RequestInfo(proto, req)
        known == DOMAIN req.q \intersect validator(proto)
        valid == {k \in known : FindStringSubmatch(k, req.q[k])}
        cmds == [actions     |-> valid \ IfKeys,
                 invalids    |-> valid # known,
                 ifUnmatches |-> \E k \in valid \intersect IfKeys :
                     ~judgeActualValue(getActualValue(info, k), req.q[k])]
    IN  IF proto = "grpc" THEN validateCommandsForGrpc("Unary", cmds) ELSE cmds

\* rand.Intn(maxValue-minValue+1) of a negative number panics.
Overflows(v) == v.range /\ upper(v) - lower(v) + 1 > MaxInt

\* evaluate draws the value of every action, whether it is needed or not.
evaluatePanics(req, cmds) ==
    \E k \in cmds.actions \intersect {"sleep", "size", "repeat"} :
        Overflows(req.q[k][1])

\* The sizes that execAction and createResponse can take for the body.
Sizes(proto, req, cmds) ==
    IF needsAction(cmds) /\ "size" \in cmds.actions
    THEN getActionValue(req.q["size"][1])
    ELSE {IF proto = "grpc" THEN 0 ELSE JsonLen}

\* The status that execAction answers with.
Status(req, cmds) ==
    IF needsAction(cmds) /\ "status" \in cmds.actions
    THEN req.q["status"][1].from
    ELSE 200

(***************************************************************************)
(* The actions of execAction and execGrpcAction that reach shared state or *)
(* end the request, in the order in which they run.                        *)
(***************************************************************************)
ActionOrder ==
    <<"cpu", "memory", "addheader", "delheader", "addtrailer", "deltrailer",
      "code", "disconnect">>

Ordered == {ActionOrder[i] : i \in DOMAIN ActionOrder}

Todo(cmds) ==
    IF needsAction(cmds) THEN cmds.actions \intersect Ordered ELSE {}

\* a is the next one of the actions still to do.
IsNext(a, actions) ==
    \E i \in DOMAIN ActionOrder :
        /\ ActionOrder[i] = a
        /\ a \in actions
        /\ \A j \in 1 .. i - 1 : ActionOrder[j] \notin actions

-----------------------------------------------------------------------------
(***************************************************************************)
(* The body                                                                *)
(***************************************************************************)

loopUnit == 100

\* randBytes(randSrc, n): n letters.
randBytes(n) == n

\* Lines of loopUnit bytes, and a last one without a line feed.
Fill(n) ==
    (n \div loopUnit) * (randBytes(loopUnit - 1) + 1)
        + IF n % loopUnit # 0 THEN randBytes(n % loopUnit) ELSE 0

\* Mutated form of writeResponse: the last line gets a line feed of its own.
writeResponseLine(size) ==
    LET json == JsonLen + 2
    IN  IF size <= json THEN size ELSE json + Fill(size - json) + 1

(***************************************************************************)
(* The bytes that writeResponse writes: the document and two line feeds,   *)
(* cut off at the size or followed by random letters.                      *)
(***************************************************************************)
writeResponse(size) ==
    LET json == JsonLen + 2
    IN  IF size <= json THEN size ELSE json + Fill(size - json)

\* The same for a response in chunks.
writeChunkedResponse(size) ==
    LET json == JsonLen + 2
    IN  IF size <= json THEN size ELSE json + Fill(size - json)

\* net/http: WriteHeader of 1xx is informational and 200 follows; there is no
\* body with 101, 204 and 304.
bodyAllowed(status) == status \notin {101, 204, 304}

-----------------------------------------------------------------------------
(***************************************************************************)
(* Header maps (types.go, HeaderMap): from names in lower case to texts.   *)
(* A name is a record of its letters and whether it has capitals.          *)
(***************************************************************************)

ToLower(name) == [name EXCEPT !.capitals = FALSE]

\* The text of a header given several times: joined with " or ".
Text(values) == [i \in DOMAIN values |-> values[i].text]

add(m, values) ==
    LET name == ToLower(values[1].name)
    IN  [n \in DOMAIN m \union {name} |-> IF n = name THEN Text(values) ELSE m[n]]

\* Mutated form of del: the name is not converted.
delExact(m, values) == [n \in DOMAIN m \ {values[1].name} |-> m[n]]

del(m, values) == [n \in DOMAIN m \ {ToLower(values[1].name)} |-> m[n]]
=============================================================================
