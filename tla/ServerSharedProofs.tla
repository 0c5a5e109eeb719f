------------------------- MODULE ServerSharedProofs -------------------------
(***************************************************************************)
(* Proofs about the state of Server that requests share and add to: the    *)
(* statistics of the node and of the remote nodes, and the header maps.    *)
(***************************************************************************)
EXTENDS ServerProofs

(***************************************************************************)
(* Sums.  SumFunction is a recursion over subsets of the domain, and what  *)
(* it computes is shown by a smallest counterexample: the sum of f over S  *)
(* is the number of its units, the pairs of an x in S and a number from 1  *)
(* to f[x].                                                                *)
(***************************************************************************)

Units(f, S) == {p \in S \X Nat : p[2] \in 1 .. f[p[1]]}

\* One more element adds its value to the number of units.
LEMMA UnitsAdd ==
  ASSUME NEW U, IsFiniteSet(U), NEW f \in [U -> Nat], NEW S \in SUBSET U, NEW x \in U \ S,
         IsFiniteSet(Units(f, S))
  PROVE  /\ IsFiniteSet(Units(f, S \union {x}))
         /\ Cardinality(Units(f, S \union {x})) = Cardinality(Units(f, S)) + f[x]
<1> DEFINE A == Units(f, S)
           B == {x} \X (1 .. f[x])
<1>1. Units(f, S \union {x}) = A \union B
  BY DEF Units
<1>2. A \intersect B = {}
  BY DEF Units
<1>3. f[x] \in Nat
  OBVIOUS
<1>4. IsFiniteSet(1 .. f[x]) /\ Cardinality(1 .. f[x]) = f[x]
  BY <1>3, FS_Interval
<1>5. IsFiniteSet({x}) /\ Cardinality({x}) = 1
  BY FS_Singleton
<1>6. IsFiniteSet(B) /\ Cardinality(B) = f[x]
  <2>1. Cardinality(B) = Cardinality({x}) * Cardinality(1 .. f[x]) /\ IsFiniteSet(B)
    BY <1>4, <1>5, FS_Product
  <2> QED
    BY <1>3, <1>4, <1>5, <2>1
<1> HIDE DEF A, B
<1>7. /\ IsFiniteSet(A \union B)
      /\ Cardinality(A \union B) =
             Cardinality(A) + Cardinality(B) - Cardinality(A \intersect B)
  BY <1>6, FS_Union DEF A
<1>8. Cardinality(A \intersect B) = 0
  BY <1>2, FS_EmptySet
<1>9. Cardinality(A) \in Nat
  BY FS_CardinalityType DEF A
<1> QED
  <2>1. Cardinality(A \union B) = Cardinality(A) + f[x]
    BY <1>3, <1>6, <1>7, <1>8, <1>9
  <2> QED
    BY <1>1, <1>7, <2>1 DEF A

\* Of the subsets of a finite set with some property one is minimal: this takes
\* the place of an induction over finite sets.
LEMMA MinimalSubset ==
  ASSUME NEW U, IsFiniteSet(U), NEW T, T \subseteq SUBSET U, T # {}
  PROVE  \E s \in T : \A t \in T : ~(t \subseteq s /\ t # s)
<1>1. IsWellFoundedOn(StrictSubsetOrdering(U), FiniteSubsetsOf(U))
  BY FS_StrictSubsetOrderingWellFounded
<1>2. T \subseteq FiniteSubsetsOf(U)
  BY FS_Subset DEF FiniteSubsetsOf
<1>3. PICK s \in T : \A t \in T : ~(<<t, s>> \in StrictSubsetOrdering(U))
  BY <1>1, <1>2, WFMin
<1> QED
  BY <1>3 DEF StrictSubsetOrdering

\* There are finitely many units.
LEMMA UnitsFinite ==
  ASSUME NEW U, IsFiniteSet(U), NEW f \in [U -> Nat], NEW S \in SUBSET U
  PROVE  IsFiniteSet(Units(f, S))
<1> DEFINE T == {s \in SUBSET U : ~IsFiniteSet(Units(f, s))}
<1> SUFFICES ASSUME T # {} PROVE FALSE
  OBVIOUS
<1>1. PICK s \in T : \A t \in T : ~(t \subseteq s /\ t # s)
  <2>1. T \subseteq SUBSET U
    OBVIOUS
  <2> HIDE DEF T
  <2> QED
    BY <2>1, MinimalSubset
<1>2. CASE s = {}
  <2>1. Units(f, s) = {}
    BY <1>2 DEF Units
  <2> QED
    BY <2>1, FS_EmptySet
<1>3. CASE s # {}
  <2>1. PICK x \in s : TRUE
    BY <1>3
  <2>2. s \ {x} \notin T /\ s = (s \ {x}) \union {x}
    BY <1>1
  <2>3. IsFiniteSet(Units(f, s \ {x}))
    BY <2>2
  <2>4. s \ {x} \in SUBSET U /\ x \in U \ (s \ {x})
    OBVIOUS
  <2>5. IsFiniteSet(Units(f, (s \ {x}) \union {x}))
    BY <2>3, <2>4, UnitsAdd
  <2> QED
    BY <2>2, <2>5
<1> QED
  BY <1>2, <1>3

\* A sum is the number of units.
LEMMA SumIsUnits ==
  ASSUME NEW S, IsFiniteSet(S), NEW f \in [S -> Nat]
  PROVE  SumFunction(f) = Cardinality(Units(f, S))
<1> DEFINE F(g) == [s \in SUBSET S |-> IF s = {} THEN 0
                       ELSE f[CHOOSE x \in s : TRUE] + g[s \ {CHOOSE x \in s : TRUE}]]
           u == [s \in SUBSET S |-> Cardinality(Units(f, s))]
           h == CHOOSE g : g = F(g)
<1>1. SumFunction(f) = h[S]
  <2>1. DOMAIN f = S
    OBVIOUS
  <2> QED
    BY <2>1, Zenon DEF SumFunction, SumFunctionOnSet, FoldFunctionOnSet, MapThenFoldSet
<1>2. ASSUME NEW s \in SUBSET S, s # {}
      PROVE  LET x == CHOOSE y \in s : TRUE
             IN  x \in s /\ u[s] = f[x] + u[s \ {x}]
  <2> DEFINE x == CHOOSE y \in s : TRUE
  <2>1. x \in s
    BY <1>2
  <2> HIDE DEF x
  <2>2. s \ {x} \in SUBSET S /\ x \in S \ (s \ {x}) /\ s = (s \ {x}) \union {x}
    BY <2>1
  <2>3. IsFiniteSet(Units(f, s \ {x}))
    BY <2>2, UnitsFinite
  <2>4. Cardinality(Units(f, (s \ {x}) \union {x})) = Cardinality(Units(f, s \ {x})) + f[x]
    BY <2>2, <2>3, UnitsAdd
  <2>5. Cardinality(Units(f, s \ {x})) \in Nat /\ f[x] \in Nat
    BY <2>2, <2>3, FS_CardinalityType
  <2>6. u[s] = Cardinality(Units(f, s)) /\ u[s \ {x}] = Cardinality(Units(f, s \ {x}))
    BY <2>2
  <2>7. Cardinality(Units(f, s)) = Cardinality(Units(f, s \ {x})) + f[x]
    BY <2>2, <2>4
  <2>8. u[s] = f[x] + u[s \ {x}]
    BY <2>5, <2>6, <2>7
  <2> QED
    BY <2>1, <2>8 DEF x
<1>3. u[{}] = 0
  <2>1. Units(f, {}) = {}
    BY DEF Units
  <2> QED
    BY <2>1, FS_EmptySet
<1> HIDE DEF u
<1>4. u = F(u)
  <2>1. ASSUME NEW s \in SUBSET S PROVE u[s] = F(u)[s]
    BY <1>2, <1>3
  <2>2. u = [s \in SUBSET S |-> u[s]]
    BY DEF u
  <2> QED
    BY <2>1, <2>2
<1>5. h = F(h)
  BY <1>4
<1> HIDE DEF h
<1>6. ASSUME NEW s \in SUBSET S PROVE h[s] = u[s]
  <2> DEFINE T == {t \in SUBSET S : h[t] # u[t]}
  <2> SUFFICES ASSUME T # {} PROVE FALSE
    OBVIOUS
  <2>1. PICK t \in T : \A v \in T : ~(v \subseteq t /\ v # t)
    <3>1. T \subseteq SUBSET S
      OBVIOUS
    <3> HIDE DEF T
    <3> QED
      BY <3>1, MinimalSubset
  <2>2. t # {}
    BY <1>3, <1>5, <2>1
  <2> DEFINE x == CHOOSE y \in t : TRUE
  <2>3. x \in t /\ u[t] = f[x] + u[t \ {x}]
    BY <1>2, <2>2
  <2>4. h[t] = f[x] + h[t \ {x}]
    BY <1>5, <2>2
  <2> HIDE DEF x
  <2>5. t \ {x} \notin T
    BY <2>1, <2>3
  <2>6. h[t \ {x}] = u[t \ {x}]
    BY <2>5
  <2> QED
    BY <2>1, <2>3, <2>4, <2>6
<1> QED
  BY <1>1, <1>6 DEF u

\* One more element adds its value to a sum.
LEMMA SumAdds ==
  ASSUME NEW S, IsFiniteSet(S), NEW f \in [S -> Nat], NEW x, x \notin S,
         NEW g \in [S \union {x} -> Nat], \A y \in S : g[y] = f[y]
  PROVE  SumFunction(g) = SumFunction(f) + g[x]
<1> DEFINE U == S \union {x}
<1>1. IsFiniteSet(U)
  BY FS_AddElement
<1>2. x \in U \ S /\ S \in SUBSET U
  OBVIOUS
<1>3. Units(g, S) = Units(f, S)
  BY DEF Units
<1>4. IsFiniteSet(Units(g, S))
  BY <1>1, <1>2, UnitsFinite
<1>5. Cardinality(Units(g, U)) = Cardinality(Units(g, S)) + g[x]
  BY <1>1, <1>2, <1>4, UnitsAdd
<1>6. SumFunction(g) = Cardinality(Units(g, U)) /\ SumFunction(f) = Cardinality(Units(f, S))
  BY <1>1, <1>2, SumIsUnits
<1> QED
  BY <1>2, <1>3, <1>5, <1>6

-----------------------------------------------------------------------------
(***************************************************************************)
(* The inductive invariant of the statistics                               *)
(***************************************************************************)

\* Counted in the node's statistics, and in those of its remote node.
Noted(r) == what[r] # "" /\ Kind(r) = "default" /\ Replied(r) /\ pc[r] # "reflect"
NotedOf(r, ip) == Noted(r) /\ ~isLambda /\ Req(r).ip = ip /\ pc[r] # "remote"

(***************************************************************************)
(* Which handler is where, and that defaultHandler answers once, before it *)
(* counts the answer.                                                      *)
(***************************************************************************)
Answering(r) ==
    /\ pc[r] \in {"render", "act"} /\ Proto(r) # "grpc" => Kind(r) = "default"
    /\ pc[r] = "page" => Kind(r) # "default"
    /\ pc[r] \in {"reflect", "remote", "logger"} => Kind(r) = "default"
    /\ pc[r] = "remote" => ~isLambda
    /\ pc[r] # "idle" /\ Kind(r) = "default" /\ Replied(r) =>
           /\ pc[r] \in {"reflect", "remote", "logger", "log", "done"}
           /\ reply[r].size \in Nat

\* The statistics that count the answers to the requests of a set.
Count(stats, set) ==
    /\ stats.count = Cardinality(set)
    /\ stats.sent = SumFunction([r \in set |-> reply[r].size])
    /\ stats.received = SumFunction([r \in set |-> ReceivedBytes(r)])

\* Both statistics count the answers noted so far.
StatInv ==
    /\ Count(node, {r \in Reqs : Noted(r)})
    /\ \A ip \in IPs : Count(remote[ip], {r \in Reqs : NotedOf(r, ip)})
    /\ \A r \in Reqs : Answering(r)

\* Where the responses may have bodies, their sizes are those of the bodies.
LEMMA SentExact ==
  ASSUME BodyInv, NEW A, A \subseteq Reqs, \A r \in A : Replied(r), \A r \in A : HasBody(r)
  PROVE  [r \in A |-> reply[r].size] = [r \in A |-> reply[r].body]
BY DEF BodyInv, Sent

\* In Lambda, and without bodies, what is measured is what the requests have.
LEMMA ReceivedExact ==
  ASSUME NEW A, \A r \in A : isLambda \/ Req(r).body = 0
  PROVE  [r \in A |-> ReceivedBytes(r)] = [r \in A |-> Req(r).body]
BY DEF ReceivedBytes

\* StatInv is StatsExact with what its induction needs.
LEMMA StatInvExact ==
  ASSUME StatInv, BodyInv
  PROVE  StatsExact
<1> DEFINE answered == {r \in Reqs : what[r] # "" /\ Kind(r) = "default" /\ Replied(r)}
           noted == {r \in answered : pc[r] # "reflect"}
           of(ip) == {r \in noted : ~isLambda /\ Req(r).ip = ip /\ pc[r] # "remote"}
<1>1. noted = {r \in Reqs : Noted(r)}
  BY DEF Noted
<1>2. \A ip \in IPs : of(ip) = {r \in Reqs : NotedOf(r, ip)}
  BY <1>1 DEF NotedOf
<1> DEFINE Exact(stats, set) ==
        /\ stats.count = Cardinality(set)
        /\ (\A r \in set : HasBody(r)) =>
               stats.sent = SumFunction([r \in set |-> reply[r].body])
        /\ (\A r \in set : isLambda \/ Req(r).body = 0) =>
               stats.received = SumFunction([r \in set |-> Req(r).body])
<1>3. ASSUME NEW stats, NEW A, A \subseteq Reqs, \A r \in A : Replied(r), Count(stats, A)
      PROVE  Exact(stats, A)
  <2>1. (\A r \in A : HasBody(r)) => stats.sent = SumFunction([r \in A |-> reply[r].body])
    BY <1>3, SentExact DEF Count
  <2>2. (\A r \in A : isLambda \/ Req(r).body = 0) =>
            stats.received = SumFunction([r \in A |-> Req(r).body])
    BY <1>3, ReceivedExact DEF Count
  <2> QED
    BY <1>3, <2>1, <2>2 DEF Count
<1>4. noted \subseteq Reqs /\ (\A r \in noted : Replied(r)) /\ \A ip : of(ip) \subseteq noted
  OBVIOUS
<1> HIDE DEF noted, of, Exact
<1>5. /\ Count(node, noted)
      /\ \A ip \in IPs : Count(remote[ip], of(ip))
  BY <1>1, <1>2 DEF StatInv
<1>6. /\ Exact(node, noted)
      /\ \A ip \in IPs : Exact(remote[ip], of(ip))
  BY <1>3, <1>4, <1>5
<1> QED
  BY <1>6 DEF StatsExact, Exact, noted, of

\* Statistics stay right while neither they nor the answers counted change.
LEMMA CountStays ==
  ASSUME NEW A \in SUBSET Reqs, NEW old, NEW new, Count(old, A),
         new.count = old.count, new.sent = old.sent, new.received = old.received,
         \A q \in A : reply'[q].size = reply[q].size /\ ReceivedBytes(q)' = ReceivedBytes(q)
  PROVE  Count(new, A)'
<1>1. [q \in A |-> reply'[q].size] = [q \in A |-> reply[q].size]
  OBVIOUS
<1>2. [q \in A |-> ReceivedBytes(q)'] = [q \in A |-> ReceivedBytes(q)]
  OBVIOUS
<1> QED
  BY <1>1, <1>2 DEF Count

\* SumAdds, of requests.
LEMMA RequestSum ==
  ASSUME NEW A \in SUBSET Reqs, NEW r \in Reqs \ A, IsFiniteSet(A),
         NEW u \in [A -> Nat], NEW w \in [A \union {r} -> Nat], \A q \in A : w[q] = u[q]
  PROVE  SumFunction(w) = SumFunction(u) + w[r]
  BY SumAdds

\* reflectRequest counts one more answer.
LEMMA CountAdds ==
  ASSUME NEW A \in SUBSET Reqs, NEW r \in Reqs \ A, NEW old \in Stats, Count(old, A),
         \A q \in A : /\ reply[q].size \in Nat /\ reply'[q].size = reply[q].size
                      /\ ReceivedBytes(q) \in Nat /\ ReceivedBytes(q)' = ReceivedBytes(q),
         NEW sent \in Nat, reply'[r].size = sent,
         NEW received \in Nat, ReceivedBytes(r)' = received,
         NEW new, new = reflectRequest(old, received, sent)
  PROVE  Count(new, A \union {r})'
<1>1. IsFiniteSet(A)
  <2>1. IsFiniteSet(Reqs)
    BY BoundsAssumption, FS_Interval DEF Reqs
  <2> QED
    BY <2>1, FS_Subset
<1>2. /\ new.count = old.count + 1 /\ new.sent = old.sent + sent
      /\ new.received = old.received + received
  <2> DEFINE one == [old EXCEPT !.received = @ + received]
             two == [one EXCEPT !.sent = @ + sent]
  <2>1. new = [two EXCEPT !.count = @ + 1]
    BY DEF reflectRequest
  <2>2. /\ one \in Stats /\ one.received = old.received + received
        /\ one.sent = old.sent /\ one.count = old.count
    BY DEF Stats
  <2> HIDE DEF one
  <2>3. /\ two \in Stats /\ two.received = one.received
        /\ two.sent = one.sent + sent /\ two.count = one.count
    BY <2>2 DEF Stats
  <2> HIDE DEF two
  <2>4. /\ new.received = two.received /\ new.sent = two.sent
        /\ new.count = two.count + 1
    BY <2>1, <2>3 DEF Stats
  <2> QED
    BY <2>2, <2>3, <2>4
<1>3. Cardinality(A \union {r}) = Cardinality(A) + 1
  BY CountMoves
<1> DEFINE f == [q \in A |-> reply[q].size]
           h == [q \in A |-> ReceivedBytes(q)]
           f2 == [q \in A \union {r} |-> IF q = r THEN sent ELSE f[q]]
           h2 == [q \in A \union {r} |-> IF q = r THEN received ELSE h[q]]
<1>4. f \in [A -> Nat] /\ h \in [A -> Nat]
  OBVIOUS
<1>5. f2 = [q \in A \union {r} |-> reply'[q].size]
  OBVIOUS
<1>6. h2 = [q \in A \union {r} |-> ReceivedBytes(q)']
  OBVIOUS
<1>7. Count(old, A) <=> /\ old.count = Cardinality(A) /\ old.sent = SumFunction(f)
                        /\ old.received = SumFunction(h)
  BY DEF Count
<1>8. Count(new, A \union {r})' <=>
          /\ new.count = Cardinality(A \union {r}) /\ new.sent = SumFunction(f2)
          /\ new.received = SumFunction(h2)
  BY <1>5, <1>6 DEF Count
<1> HIDE DEF f, h
<1>9. /\ f2 \in [A \union {r} -> Nat] /\ f2[r] = sent /\ \A q \in A : f2[q] = f[q]
      /\ h2 \in [A \union {r} -> Nat] /\ h2[r] = received /\ \A q \in A : h2[q] = h[q]
      /\ r \notin A
  BY <1>4
<1> HIDE DEF f2, h2
<1>10. ASSUME NEW u \in [A -> Nat], NEW w \in [A \union {r} -> Nat],
              \A q \in A : w[q] = u[q]
       PROVE  SumFunction(w) = SumFunction(u) + w[r]
  BY ONLY <1>1, <1>10, A \in SUBSET Reqs, r \in Reqs \ A, RequestSum
<1>11. SumFunction(f2) = SumFunction(f) + f2[r]
  BY <1>4, <1>9, <1>10
<1>12. SumFunction(h2) = SumFunction(h) + h2[r]
  BY <1>4, <1>9, <1>10
<1> QED
  BY <1>2, <1>3, <1>7, <1>8, <1>9, <1>11, <1>12

\* HTTP requests are those of the router and those of Lambda.
LEMMA HttpKind ==
  ASSUME NEW r \in Reqs, ReqInv(r), pc[r] # "idle"
  PROVE  /\ Proto(r) = "grpc" => Kind(r) \in GrpcKinds
         /\ Proto(r) # "grpc" => Kind(r) \in HttpKinds
         /\ isLambda => Kind(r) \in {"default", "env", "monitor"}
<1>1. what[r] \in OfferNames /\ Req(r) = Offers[what[r]]
  BY RequestIs
<1>2. \/ /\ Req(r).srv \in HttpServers /\ Req(r).srv \notin GrpcServers
         /\ Req(r).kind \in HttpKinds
      \/ /\ Req(r).srv \in GrpcServers /\ Req(r).srv \notin HttpServers
         /\ Req(r).kind \in GrpcKinds
  BY <1>1, ServersAssumption DEF OfferNames
<1>3. isLambda => Req(r).srv \in HttpServers
  BY DEF ReqInv, Taken
<1> QED
  BY <1>2, <1>3 DEF Kind, Proto, HttpKinds, GrpcKinds

\* A step of a request keeps Answering.
LEMMA AnsweringKept ==
  ASSUME ServerInv, NEW r \in Reqs, Answering(r), Step(r)
  PROVE  Answering(r)'
<1>1. Frame(r) /\ ReqInv(r) /\ RequestTypes /\ ReqInv(r)' /\ isLambda' = isLambda /\ RequestTypes'
  BY InvStep DEF ServerInv, TypeOK, Frame
<1>2. pc[r] # "idle" => SameRequest(r)
  BY <1>1, RequestLasts
<1>3. pc[r] # "idle" =>
          /\ Proto(r) = "grpc" => Kind(r) \in GrpcKinds
          /\ Proto(r) # "grpc" => Kind(r) \in HttpKinds
          /\ isLambda => Kind(r) \in {"default", "env", "monitor"}
  BY <1>1, HttpKind
<1>4. CASE reply'[r] = reply[r] /\ pc'[r] = pc[r] /\ pc[r] # "idle"
  BY <1>1, <1>2, <1>4 DEF Answering, SameRequest, Replied
<1>5. CASE \E o \in OfferNames : Accept(r, o) \/ lambdaHandler(r, o)
  <2>1. pc[r] = "idle" /\ pc'[r] = "accepted" /\ reply'[r] = reply[r]
    BY <1>1, <1>5 DEF Accept, lambdaHandler, Arrives, At, RequestTypes
  <2>2. reply'[r] = NoReply
    BY <1>1, <2>1 DEF ReqInv, Fresh
  <2>3. ~Replied(r)'
    BY <2>2 DEF Replied, NoReply
  <2> QED
    BY <2>1, <2>3 DEF Answering
<1>6. CASE handlerWrapper(r) \/ noLogHandlerWrapper(r) \/ handleRequest(r)
             \/ UnaryInterceptor(r) \/ StreamInterceptor(r)
  <2>1. pc[r] = "accepted" /\ reply'[r] = reply[r]
    BY <1>6 DEF handlerWrapper, noLogHandlerWrapper, handleRequest, UnaryInterceptor,
                StreamInterceptor, Enter, At
  <2>2. \/ pc'[r] = "render" /\ Kind(r) \in {"default", "unary"}
        \/ pc'[r] = "page" /\ Kind(r) # "default"
        \/ pc'[r] = "monitor"
    BY <1>1, <1>3, <1>6, <2>1 DEF handlerWrapper, noLogHandlerWrapper, handleRequest,
       UnaryInterceptor, StreamInterceptor, Enter, PageKinds, GrpcKinds, RequestTypes
  <2> QED
    BY <1>2, <1>3, <2>1, <2>2 DEF Answering, SameRequest, Replied, HttpKinds
<1>7. CASE Render(r) \/ RenderPanics(r)
  <2>1. pc[r] = "render" /\ reply'[r] = reply[r] /\ pc'[r] \in {"render", "act", "log", "done"}
    BY <1>1, <1>7 DEF Render, RenderPanics, At, RequestTypes
  <2> QED
    BY <1>2, <1>3, <2>1 DEF Answering, SameRequest, Replied
<1>8. CASE Act(r)
  BY <1>4, <1>8 DEF Act, At
<1>9. CASE ActLast(r)
  <2>1. PICK a \in todo[r] : ActLast(r)!2!(a)
    BY <1>9 DEF ActLast
  <2>2. pc[r] = "act"
    BY <1>9 DEF ActLast, At
  <2>3. CASE Proto(r) # "grpc"
    <3>1. pc'[r] = "reflect" /\ reply'[r] = Answer(0, 0, {}, 0, <<>>)
      BY <1>1, <2>1, <2>3 DEF RequestTypes
    <3>2. reply'[r].size \in Nat /\ Kind(r) = "default"
      BY <2>2, <2>3, <3>1 DEF Answer, Answering
    <3> QED
      BY <1>2, <2>2, <3>1, <3>2 DEF Answering, SameRequest
  <2>4. CASE Proto(r) = "grpc"
    <3>1. pc'[r] \in {"act", "log"}
      BY <1>1, <2>1, <2>2, <2>4 DEF RequestTypes
    <3>2. Kind(r) # "default"
      BY <1>3, <2>2, <2>4 DEF GrpcKinds
    <3> QED
      BY <1>2, <2>2, <2>4, <3>1, <3>2 DEF Answering, SameRequest
  <2> QED
    BY <2>3, <2>4
<1>10. CASE WriteHttp(r)
  <2>1. pc[r] = "act" /\ pc'[r] = "reflect" /\ Proto(r) # "grpc" /\ reply'[r].size = size[r]
    BY <1>1, <1>10 DEF WriteHttp, At, Answer, RequestTypes
  <2>2. reply'[r].size \in Nat /\ Kind(r) = "default"
    BY <1>1, <2>1 DEF RequestTypes, Answering
  <2> QED
    BY <1>2, <2>1, <2>2 DEF Answering, SameRequest
<1>11. CASE WriteGrpc(r)
  <2>1. pc[r] = "act" /\ pc'[r] = "log" /\ Proto(r) = "grpc"
    BY <1>1, <1>11 DEF WriteGrpc, At, RequestTypes
  <2>2. Kind(r) # "default"
    BY <1>3, <2>1 DEF GrpcKinds
  <2> QED
    BY <1>2, <2>1, <2>2 DEF Answering, SameRequest
<1>12. CASE execHandler(r) \/ envHandler(r) \/ filesDLHandler(r) \/ UnregisteredMethodHandler(r)
  <2>1. pc[r] = "page" /\ pc'[r] = "log"
    BY <1>1, <1>12 DEF execHandler, envHandler, filesDLHandler, WritePage, At, RequestTypes,
       UnregisteredMethodHandler
  <2> QED
    BY <1>2, <2>1 DEF Answering, SameRequest
<1>13. CASE ReflectNode(r) \/ ReflectRemote(r) \/ SetLogger(r)
  <2>1. /\ reply'[r] = reply[r] /\ pc[r] \in {"reflect", "remote", "logger"}
        /\ pc'[r] \in {"remote", "logger", "log"}
        /\ pc'[r] = "remote" => ~isLambda
    BY <1>1, <1>13 DEF ReflectNode, ReflectRemote, SetLogger, At, RequestTypes
  <2> QED
    BY <1>1, <1>2, <2>1 DEF Answering, SameRequest, Replied
<1>14. CASE Log(r) \/ Leave(r) \/ updateNode(r) \/ getStoreNodeJSON(r)
  <2>1. /\ reply'[r] = reply[r] /\ pc[r] \in {"log", "monitor", "marshal"}
        /\ pc'[r] \in {"done", "marshal", "log"}
        /\ pc[r] = "log" => pc'[r] = "done"
    BY <1>1, <1>14 DEF Log, Leave, Return, updateNode, getStoreNodeJSON, At, RequestTypes
  <2> QED
    BY <1>1, <1>2, <2>1 DEF Answering, SameRequest, Replied
<1>15. CASE StopHandler(r)
  <2>1. /\ reply'[r] = reply[r] /\ pc[r] \in {"accepted", "return"}
        /\ pc'[r] \in {"accepted", "return", "done"}
    BY <1>1, <1>15 DEF StopHandler, StopNow, StopGraceful, StopReturn, At, RequestTypes, requestVars
  <2> QED
    BY <1>1, <1>2, <2>1 DEF Answering, SameRequest, Replied
<1>16. CASE StopStep(r) \/ Expire(r)
  <2>1. UNCHANGED requestVars
    BY <1>16 DEF StopStep, Shutdown, ShutdownDone, ShutdownExpired, Exit, Expire
  <2> QED
    BY <1>1, <2>1 DEF Answering, Replied, Req, Kind, Proto, requestVars
<1> QED
  BY <1>5, <1>6, <1>7, <1>8, <1>9, <1>10, <1>11, <1>12, <1>13, <1>14, <1>15, <1>16
     DEF Step, RequestStep

\* A request that is counted has had its answer.
LEMMA NotedStays ==
  ASSUME ServerInv, NEW r \in Reqs, Answering(r), Step(r), Noted(r)
  PROVE  reply'[r] = reply[r]
<1>1. RequestTypes /\ pc[r] # "idle"
  BY DEF ServerInv, TypeOK, ReqInv, Fresh, Noted
<1>2. pc[r] \in {"remote", "logger", "log", "done"}
  BY <1>1 DEF Noted, Answering
<1> QED
  BY <1>2 DEF Step, RequestStep, Accept, lambdaHandler, Arrives, At, handlerWrapper,
     noLogHandlerWrapper, handleRequest, UnaryInterceptor, StreamInterceptor, Render,
     RenderPanics, Act, ActLast, WriteHttp, WriteGrpc, ReflectNode, ReflectRemote, SetLogger,
     execHandler, envHandler, filesDLHandler, WritePage, UnregisteredMethodHandler,
     updateNode, getStoreNodeJSON, Log, Leave, Return, StopHandler, StopNow, StopGraceful,
     StopReturn, StopStep, Shutdown, ShutdownDone, ShutdownExpired, Exit, Expire, requestVars

\* defaultHandler answers and goes on to count the answer.
LEMMA ReplyStep ==
  ASSUME ServerInv, NEW r \in Reqs, Answering(r), Step(r), pc[r] # "idle", Kind(r) = "default"
  PROVE  reply'[r] = reply[r] \/ pc'[r] = "reflect"
<1>1. RequestTypes /\ ReqInv(r)
  BY DEF ServerInv, TypeOK
<1>2. Proto(r) # "grpc"
  BY <1>1, HttpKind DEF GrpcKinds
<1>3. CASE ActLast(r)
  <2>1. PICK a \in todo[r] : ActLast(r)!2!(a)
    BY <1>3 DEF ActLast
  <2> QED
    BY <1>1, <1>2, <2>1 DEF RequestTypes
<1>4. CASE WriteHttp(r)
  BY <1>1, <1>4 DEF WriteHttp, RequestTypes
<1>5. ~WriteGrpc(r)
  BY <1>2 DEF WriteGrpc
<1>6. CASE execHandler(r) \/ envHandler(r) \/ filesDLHandler(r) \/ UnregisteredMethodHandler(r)
  BY <1>6 DEF execHandler, envHandler, filesDLHandler, WritePage, UnregisteredMethodHandler
<1> QED
  BY <1>3, <1>4, <1>5, <1>6 DEF Step, RequestStep, Accept, lambdaHandler, Arrives, handlerWrapper,
     noLogHandlerWrapper, handleRequest, UnaryInterceptor, StreamInterceptor, Enter, Render,
     RenderPanics, Act, ReflectNode, ReflectRemote, SetLogger,
     updateNode, getStoreNodeJSON, Log, Leave, Return, StopHandler, StopNow, StopGraceful,
     StopReturn, StopStep, Shutdown, ShutdownDone, ShutdownExpired, Exit, Expire, requestVars

\* The way from reflect to the end.
LEMMA CountedWay ==
  ASSUME RequestTypes, NEW r \in Reqs, Step(r), ~ReflectNode(r), ~ReflectRemote(r)
  PROVE  /\ pc[r] \in {"reflect", "remote"} => pc'[r] = pc[r]
         /\ pc[r] \in {"logger", "log", "done"} => pc'[r] \in {"logger", "log", "done"}
<1> SUFFICES ASSUME pc[r] \in {"reflect", "remote", "logger", "log", "done"}
             PROVE  pc'[r] = pc[r] \/ (pc[r] \in {"logger", "log"} /\ pc'[r] \in {"log", "done"})
  OBVIOUS
<1> QED
  BY DEF Step, RequestStep, Accept, lambdaHandler, Arrives, At, handlerWrapper,
     noLogHandlerWrapper, handleRequest, UnaryInterceptor, StreamInterceptor, Render,
     RenderPanics, Act, ActLast, WriteHttp, WriteGrpc, SetLogger,
     execHandler, envHandler, filesDLHandler, WritePage, UnregisteredMethodHandler,
     updateNode, getStoreNodeJSON, Log, Leave, Return, StopHandler, StopNow, StopGraceful,
     StopReturn, StopStep, Shutdown, ShutdownDone, ShutdownExpired, Exit, Expire, requestVars,
     RequestTypes

\* Which requests are counted changes only with the step that counts them.
LEMMA NotedBy ==
  ASSUME ServerInv, NEW r \in Reqs, Answering(r), Answering(r)', Frame(r), Step(r),
         ~ReflectNode(r), ~ReflectRemote(r)
  PROVE  /\ Noted(r)' <=> Noted(r)
         /\ \A ip \in IPs : NotedOf(r, ip)' <=> NotedOf(r, ip)
<1>1. RequestTypes /\ ReqInv(r) /\ isLambda' = isLambda
  BY DEF ServerInv, TypeOK, Frame
<1>2. CASE pc[r] = "idle"
  <2>1. reply[r] = NoReply /\ reply'[r] = reply[r]
    <3>1. ~RequestStep(r) /\ ~StopHandler(r)
      BY <1>2, IdleWaits DEF Open
    <3> QED
      BY <1>1, <1>2, <3>1 DEF Step, Accept, lambdaHandler, Arrives, StopStep, Shutdown,
         ShutdownDone, ShutdownExpired, Exit, Expire, requestVars, ReqInv, Fresh
  <2>2. ~Replied(r) /\ ~Replied(r)'
    BY <2>1 DEF Replied, NoReply
  <2> QED
    BY <2>2 DEF Noted, NotedOf
<1>3. CASE pc[r] # "idle"
  <2>1. SameRequest(r) /\ what[r] # ""
    BY <1>1, <1>3, RequestLasts, RequestIs, OffersAssumption DEF OfferNames
  <2>2. CASE Noted(r)
    <3>1. /\ reply'[r] = reply[r] /\ Kind(r) = "default"
          /\ pc[r] \in {"remote", "logger", "log", "done"}
      BY <1>3, <2>2, NotedStays DEF Noted, Answering
    <3>2. pc'[r] # "reflect" /\ (pc'[r] = "remote" <=> pc[r] = "remote")
      BY <1>1, <3>1, CountedWay
    <3>3. Noted(r)'
      BY <2>1, <2>2, <3>1, <3>2 DEF Noted, SameRequest, Replied
    <3> QED
      BY <1>1, <2>1, <2>2, <3>2, <3>3 DEF NotedOf, SameRequest
  <2>3. CASE ~Noted(r)
    <3> SUFFICES ASSUME Noted(r)' PROVE FALSE
      BY <2>3 DEF NotedOf
    <3>1. Kind(r) = "default" /\ pc'[r] # "reflect" /\ Replied(r)'
      BY <2>1 DEF Noted, SameRequest
    <3>2. reply'[r] = reply[r]
      BY <1>3, <3>1, ReplyStep
    <3>3. pc[r] = "reflect"
      BY <2>1, <2>3, <3>1, <3>2 DEF Noted, Replied
    <3> QED
      BY <1>1, <3>1, <3>3, CountedWay
  <2> QED
    BY <2>2, <2>3
<1> QED
  BY <1>2, <1>3

\* What the other steps do to the counts.
LEMMA StatsBy ==
  ASSUME TypeOK, NEW r \in Reqs, Step(r), ~ReflectNode(r), ~ReflectRemote(r)
  PROVE  /\ node'.count = node.count /\ node'.sent = node.sent /\ node'.received = node.received
         /\ \A ip \in IPs : /\ remote'[ip].count = remote[ip].count
                            /\ remote'[ip].sent = remote[ip].sent
                            /\ remote'[ip].received = remote[ip].received
<1>1. node \in Stats /\ remote \in [IPs -> Stats]
  BY DEF TypeOK, StatTypes
<1>2. node' = node \/ node' = [node EXCEPT !.active = active]
  BY DEF Step, RequestStep, Accept, lambdaHandler, Arrives, handlerWrapper,
     noLogHandlerWrapper, handleRequest, UnaryInterceptor, StreamInterceptor, Enter, Render,
     RenderPanics, Act, ActLast, WriteHttp, WriteGrpc, SetLogger,
     execHandler, envHandler, filesDLHandler, WritePage, UnregisteredMethodHandler,
     updateNode, getStoreNodeJSON, Log, Leave, Return, StopHandler, StopNow, StopGraceful,
     StopReturn, StopStep, Shutdown, ShutdownDone, ShutdownExpired, Exit, Expire, statVars
<1>3. \/ remote' = remote
      \/ \E d \in {1, -1} : remote' = [remote EXCEPT ![Req(r).ip].active = @ + d]
  BY DEF Step, RequestStep, Accept, lambdaHandler, Arrives, handlerWrapper,
     noLogHandlerWrapper, handleRequest, UnaryInterceptor, StreamInterceptor, Enter, Render,
     RenderPanics, Act, ActLast, WriteHttp, WriteGrpc, SetLogger,
     execHandler, envHandler, filesDLHandler, WritePage, UnregisteredMethodHandler,
     updateNode, getStoreNodeJSON, Log, Leave, Return, StopHandler, StopNow, StopGraceful,
     StopReturn, StopStep, Shutdown, ShutdownDone, ShutdownExpired, Exit, Expire, statVars,
     AddActive
<1>4. node'.count = node.count /\ node'.sent = node.sent /\ node'.received = node.received
  BY <1>1, <1>2 DEF Stats
<1>5. ASSUME NEW d \in {1, -1}, remote' = [remote EXCEPT ![Req(r).ip].active = @ + d],
             NEW ip \in IPs
      PROVE  /\ remote'[ip].count = remote[ip].count
             /\ remote'[ip].sent = remote[ip].sent
             /\ remote'[ip].received = remote[ip].received
  BY <1>1, <1>5 DEF Stats
<1> QED
  BY <1>3, <1>4, <1>5

\* Every step keeps the statistics right.
LEMMA StatKept ==
  ASSUME ServerInv, StatInv, NEW r \in Reqs, Step(r)
  PROVE  StatInv'
<1>1. /\ Frame(r) /\ TypeOK /\ ReqInv(r) /\ Answering(r) /\ isLambda' = isLambda
      /\ node \in Stats /\ remote \in [IPs -> Stats] /\ RequestTypes
  BY InvStep DEF ServerInv, StatInv, Frame, TypeOK, StatTypes
<1>2. Answering(r)'
  BY <1>1, AnsweringKept
<1>3. ASSUME NEW q \in Reqs \ {r}
      PROVE  /\ Answering(q)'
             /\ Noted(q)' <=> Noted(q)
             /\ \A ip \in IPs : NotedOf(q, ip)' <=> NotedOf(q, ip)
  <2>1. SameRequest(q) /\ Same(q) /\ Answering(q)
    BY <1>1, RequestLasts DEF StatInv, Frame
  <2> QED
    BY <1>1, <2>1 DEF Answering, Noted, NotedOf, SameRequest, Same, Replied
<1>4. ASSUME NEW q \in Reqs, pc[q] # "idle"
      PROVE  ReceivedBytes(q) \in Nat /\ ReceivedBytes(q)' = ReceivedBytes(q)
  <2>1. what[q] \in OfferNames /\ Req(q) = Offers[what[q]] /\ Req(q)' = Req(q)
    BY <1>1, <1>4, RequestIs, RequestLasts DEF ServerInv, SameRequest
  <2> QED
    BY <1>1, <2>1, OffersAssumption DEF ReceivedBytes, OfferNames
<1>5. ASSUME NEW q \in Reqs, Noted(q)
      PROVE  /\ reply[q].size \in Nat /\ reply'[q].size = reply[q].size
             /\ ReceivedBytes(q) \in Nat /\ ReceivedBytes(q)' = ReceivedBytes(q)
  <2>1. pc[q] # "idle" /\ Answering(q)
    BY <1>5 DEF Noted, StatInv, ServerInv, ReqInv, Fresh
  <2>2. reply[q].size \in Nat
    BY <1>5, <2>1 DEF Noted, Answering
  <2>3. reply'[q] = reply[q]
    BY <1>1, <1>5, NotedStays DEF Frame, Same
  <2> QED
    BY <1>4, <2>1, <2>2, <2>3
<1> DEFINE A == {q \in Reqs : Noted(q)}
           C(ip) == {q \in Reqs : NotedOf(q, ip)}
<1>6. Count(node, A) /\ \A ip \in IPs : Count(remote[ip], C(ip))
  BY DEF StatInv
<1>7. \A ip \in IPs : C(ip) \subseteq A
  BY DEF NotedOf
<1>8. CASE ~ReflectNode(r) /\ ~ReflectRemote(r)
  <2>1. A' = A /\ \A ip \in IPs : C(ip)' = C(ip)
    <3>1. /\ Noted(r)' <=> Noted(r)
          /\ \A ip \in IPs : NotedOf(r, ip)' <=> NotedOf(r, ip)
      BY <1>1, <1>2, <1>8, NotedBy
    <3>2. ASSUME NEW q \in Reqs
          PROVE  /\ Noted(q)' <=> Noted(q)
                 /\ \A ip \in IPs : NotedOf(q, ip)' <=> NotedOf(q, ip)
      BY <1>3, <3>1
    <3> QED
      BY <3>2, Reqs' = Reqs DEF Reqs
  <2>2. /\ node'.count = node.count /\ node'.sent = node.sent /\ node'.received = node.received
        /\ \A ip \in IPs : /\ remote'[ip].count = remote[ip].count
                           /\ remote'[ip].sent = remote[ip].sent
                           /\ remote'[ip].received = remote[ip].received
    BY <1>1, <1>8, StatsBy
  <2>3. Count(node, A)'
    <3>1. PICK new, set : new = node' /\ set = A
      OBVIOUS
    <3>2. Count(new, set)'
      BY <1>5, <1>6, <2>2, <3>1, CountStays
    <3> HIDE DEF A
    <3> QED
      BY <2>1, <3>1, <3>2 DEF Count
  <2>4. ASSUME NEW ip \in IPs
        PROVE  Count(remote[ip], C(ip))'
    <3>1. PICK new, set : new = remote'[ip] /\ set = C(ip)
      OBVIOUS
    <3>2. Count(new, set)'
      BY <1>5, <1>6, <1>7, <2>2, <3>1, CountStays
    <3> HIDE DEF C
    <3> QED
      BY <2>1, <3>1, <3>2 DEF Count
  <2> QED
    BY <1>2, <1>3, <2>3, <2>4 DEF StatInv
<1>9. CASE ReflectNode(r)
  <2>1. /\ pc[r] = "reflect" /\ pc'[r] = IF isLambda THEN "logger" ELSE "remote"
        /\ node' = reflectRequest(node, ReceivedBytes(r), size[r])
        /\ remote' = remote /\ reply' = reply /\ what' = what
    BY <1>1, <1>9 DEF ReflectNode, At, RequestTypes
  <2>2. reply[r].size = size[r] /\ size[r] \in Nat /\ Replied(r) /\ Kind(r) = "default"
    <3>1. reply[r].size = size[r] /\ reply[r].status \in Nat
      BY <1>1, <2>1 DEF ReqInv, Serving
    <3>2. reply[r].status # -1
      BY <3>1
    <3> QED
      BY <1>1, <2>1, <3>1, <3>2 DEF RequestTypes, Replied, Answering
  <2>3. SameRequest(r) /\ what[r] # ""
    BY <1>1, <2>1, RequestLasts, RequestIs, OffersAssumption DEF OfferNames
  <2>4. ~Noted(r) /\ Noted(r)' /\ \A ip \in IPs : ~NotedOf(r, ip) /\ ~NotedOf(r, ip)'
    BY <1>1, <2>1, <2>2, <2>3 DEF Noted, NotedOf, SameRequest, Replied
  <2>5. A' = A \union {r} /\ \A ip \in IPs : C(ip)' = C(ip)
    BY <1>3, <2>4 DEF Reqs
  <2>6. Count(node, A)'
    <3>1. PICK new, set, received : new = node' /\ set = A /\ received = ReceivedBytes(r)
      OBVIOUS
    <3>2. received \in Nat /\ ReceivedBytes(r)' = received
      BY <1>4, <2>1, <3>1
    <3>3. PICK old, sent : old = node /\ sent = size[r]
      OBVIOUS
    <3>4. set \in SUBSET Reqs /\ r \in Reqs \ set
      BY <2>4, <3>1
    <3>5. \A q \in set : /\ reply[q].size \in Nat /\ reply'[q].size = reply[q].size
                          /\ ReceivedBytes(q) \in Nat /\ ReceivedBytes(q)' = ReceivedBytes(q)
      BY <1>5, <3>1
    <3>6. /\ old \in Stats /\ Count(old, set) /\ sent \in Nat /\ reply'[r].size = sent
          /\ new = reflectRequest(old, received, sent)
      BY <1>1, <1>6, <2>1, <2>2, <3>1, <3>3
    <3>7. Count(new, set \union {r})'
      BY <3>2, <3>4, <3>5, <3>6, CountAdds
    <3> HIDE DEF A
    <3> QED
      BY <2>5, <3>1, <3>7 DEF Count
  <2>7. ASSUME NEW ip \in IPs
        PROVE  Count(remote[ip], C(ip))'
    <3>1. PICK new, set : new = remote'[ip] /\ set = C(ip)
      OBVIOUS
    <3>2. Count(new, set)'
      BY <1>5, <1>6, <1>7, <2>1, <3>1, CountStays
    <3> HIDE DEF C
    <3> QED
      BY <2>5, <3>1, <3>2 DEF Count
  <2> QED
    BY <1>2, <1>3, <2>6, <2>7 DEF StatInv
<1>10. CASE ReflectRemote(r)
  <2>1. /\ pc[r] = "remote" /\ pc'[r] = "logger"
        /\ remote' = [remote EXCEPT ![Req(r).ip] =
                          reflectRequest(@, ReceivedBytes(r), size[r])]
        /\ node' = node /\ reply' = reply /\ what' = what
    BY <1>1, <1>10 DEF ReflectRemote, At, RequestTypes
  <2>2. /\ reply[r].size = size[r] /\ size[r] \in Nat /\ Replied(r) /\ Kind(r) = "default"
        /\ ~isLambda
    <3>1. reply[r].size = size[r] /\ reply[r].status \in Nat
      BY <1>1, <2>1 DEF ReqInv, Serving
    <3>2. reply[r].status # -1
      BY <3>1
    <3> QED
      BY <1>1, <2>1, <3>1, <3>2 DEF RequestTypes, Replied, Answering
  <2>3. SameRequest(r) /\ what[r] # "" /\ Req(r).ip \in IPs
    BY <1>1, <2>1, RequestLasts, RequestIs, OffersAssumption DEF OfferNames, IPs, Req
  <2>4. /\ Noted(r) /\ Noted(r)'
        /\ \A ip \in IPs : ~NotedOf(r, ip) /\ (NotedOf(r, ip)' <=> ip = Req(r).ip)
    BY <1>1, <2>1, <2>2, <2>3 DEF Noted, NotedOf, SameRequest, Replied
  <2>5. A' = A
    BY <1>3, <2>4 DEF Reqs
  <2>6. \A ip \in IPs : C(ip)' = IF ip = Req(r).ip THEN C(ip) \union {r} ELSE C(ip)
    BY <1>3, <2>4 DEF Reqs
  <2>7. Count(node, A)'
    <3>1. PICK new, set : new = node' /\ set = A
      OBVIOUS
    <3>2. Count(new, set)'
      BY <1>5, <1>6, <2>1, <3>1, CountStays
    <3> HIDE DEF A
    <3> QED
      BY <2>5, <3>1, <3>2 DEF Count
  <2>8. ASSUME NEW ip \in IPs, ip # Req(r).ip
        PROVE  Count(remote[ip], C(ip))'
    <3>1. PICK new, set : new = remote'[ip] /\ set = C(ip)
      OBVIOUS
    <3>2. remote'[ip] = remote[ip]
      BY <1>1, <2>1, <2>3, <2>8
    <3>3. Count(new, set)'
      BY <1>5, <1>6, <1>7, <3>1, <3>2, CountStays
    <3>4. C(ip)' = C(ip)
      BY <2>6, <2>8
    <3> HIDE DEF C
    <3> QED
      BY <3>1, <3>3, <3>4 DEF Count
  <2>9. ASSUME NEW ip \in IPs, ip = Req(r).ip
        PROVE  Count(remote[ip], C(ip))'
    <3>1. PICK new, set, received :
              new = remote'[ip] /\ set = C(ip) /\ received = ReceivedBytes(r)
      OBVIOUS
    <3>2. received \in Nat /\ ReceivedBytes(r)' = received
      BY <1>4, <2>1, <3>1
    <3>3. PICK old, sent : old = remote[ip] /\ sent = size[r]
      OBVIOUS
    <3>4. set \in SUBSET Reqs /\ r \in Reqs \ set
      BY <2>4, <3>1
    <3>5. \A q \in set : /\ reply[q].size \in Nat /\ reply'[q].size = reply[q].size
                          /\ ReceivedBytes(q) \in Nat /\ ReceivedBytes(q)' = ReceivedBytes(q)
      BY <1>5, <1>7, <3>1
    <3>6. remote'[ip] = reflectRequest(remote[ip], ReceivedBytes(r), size[r])
      BY <1>1, <2>1, <2>9
    <3>7. /\ old \in Stats /\ Count(old, set) /\ sent \in Nat /\ reply'[r].size = sent
          /\ new = reflectRequest(old, received, sent)
      BY <1>1, <1>6, <2>1, <2>2, <3>1, <3>3, <3>6
    <3>8. Count(new, set \union {r})'
      BY <3>2, <3>4, <3>5, <3>7, CountAdds
    <3>9. C(ip)' = C(ip) \union {r}
      BY <2>6, <2>9
    <3> HIDE DEF C
    <3> QED
      BY <3>1, <3>8, <3>9 DEF Count
  <2> QED
    BY <1>2, <1>3, <2>7, <2>8, <2>9 DEF StatInv
<1> QED
  BY <1>8, <1>9, <1>10

\* They are right at the start.
LEMMA StatInit == Init => StatInv
<1> SUFFICES ASSUME Init PROVE StatInv
  OBVIOUS
<1>1. ASSUME NEW r \in Reqs
      PROVE  /\ Answering(r)
             /\ ~Noted(r)
             /\ \A ip \in IPs : ~NotedOf(r, ip)
  <2>1. what[r] = "" /\ pc[r] = "idle"
    BY DEF Init
  <2> QED
    BY <2>1 DEF Answering, Noted, NotedOf
<1>2. Count(NoStats, {})
  <2>1. IsFiniteSet({}) /\ Cardinality({}) = 0
    BY FS_EmptySet
  <2>2. ASSUME NEW f \in [{} -> Nat] PROVE SumFunction(f) = 0
    <3>1. Units(f, {}) = {}
      BY DEF Units
    <3> QED
      BY <2>1, <3>1, SumIsUnits
  <2>3. /\ [r \in {} |-> reply[r].size] \in [{} -> Nat]
        /\ [r \in {} |-> ReceivedBytes(r)] \in [{} -> Nat]
    OBVIOUS
  <2> QED
    BY <2>1, <2>2, <2>3 DEF Count, NoStats
<1>3. {r \in Reqs : Noted(r)} = {} /\ \A ip \in IPs : {r \in Reqs : NotedOf(r, ip)} = {}
  BY <1>1
<1>4. node = NoStats /\ \A ip \in IPs : remote[ip] = NoStats
  BY DEF Init
<1> QED
  BY <1>1, <1>2, <1>3, <1>4 DEF StatInv

\* They are always right.
LEMMA StatAlways == Spec => []StatInv
<1>1. ASSUME StatInv, UNCHANGED vars
      PROVE  StatInv'
  <2>1. /\ node' = node /\ remote' = remote /\ reply' = reply /\ what' = what /\ pc' = pc
        /\ isLambda' = isLambda
    BY <1>1 DEF vars, requestVars, statVars
  <2>2. ASSUME NEW q \in Reqs
        PROVE  /\ Answering(q)' <=> Answering(q)
               /\ Noted(q)' <=> Noted(q)
               /\ \A ip \in IPs : NotedOf(q, ip)' <=> NotedOf(q, ip)
               /\ ReceivedBytes(q)' = ReceivedBytes(q)
    BY <2>1 DEF Answering, Noted, NotedOf, Replied, Req, Kind, Proto, ReceivedBytes
  <2> DEFINE A == {q \in Reqs : Noted(q)}
             C(ip) == {q \in Reqs : NotedOf(q, ip)}
  <2>3. A' = A /\ \A ip \in IPs : C(ip)' = C(ip)
    BY <2>2 DEF Reqs
  <2>4. ASSUME NEW stats, NEW set \in SUBSET Reqs, Count(stats, set)
        PROVE  Count(stats, set)'
    BY <2>1, <2>2, <2>4, CountStays
  <2>5. Count(node, A)'
    <3>1. PICK stats, set : stats = node /\ set = A
      OBVIOUS
    <3>2. Count(stats, set)'
      BY <1>1, <2>4, <3>1 DEF StatInv
    <3> HIDE DEF A
    <3> QED
      BY <2>1, <2>3, <3>1, <3>2 DEF Count
  <2>6. ASSUME NEW ip \in IPs
        PROVE  Count(remote[ip], C(ip))'
    <3>1. PICK stats, set : stats = remote[ip] /\ set = C(ip)
      OBVIOUS
    <3>2. Count(stats, set)'
      BY <1>1, <2>4, <3>1 DEF StatInv
    <3> HIDE DEF C
    <3> QED
      BY <2>1, <2>3, <3>1, <3>2 DEF Count
  <2> QED
    BY <1>1, <2>2, <2>5, <2>6 DEF StatInv
<1>2. ServerInv /\ StatInv /\ [Next]_vars => StatInv'
  BY <1>1, StatKept DEF Next, Step
<1> QED
  BY <1>2, StatInit, InvAlways, PTL DEF Spec

(***************************************************************************)
(* request_count of store.node counts every answer of defaultHandler once, *)
(* and that of the remote nodes the same answers by client, whatever       *)
(* requests run at the same time; so do sent_bytes the bytes of their      *)
(* bodies, where they may have one, and received_bytes those of the        *)
(* requests' bodies in Lambda (main.go, defaultHandler; nodeinfo.go,       *)
(* reflectRequest).                                                        *)
(***************************************************************************)
THEOREM StatsAlwaysExact == Spec => []StatsExact
<1>1. StatInv /\ BodyInv => StatsExact
  BY StatInvExact
<1> QED
  BY <1>1, StatAlways, BodyAlways, PTL

-----------------------------------------------------------------------------
(***************************************************************************)
(* The inductive invariant of the header maps                              *)
(***************************************************************************)

\* The actions that alter the maps.
Adding == {"addheader", "addtrailer"}
Deleting == {"delheader", "deltrailer"}

\* Action k of r is on map m under this name.
On(r, k, m, name) == MapOf(r, k) = m /\ ToLower(Req(r).q[k][1].name) = name

Altering(r, m, name) == Adds(r, m, name) \/ Deletes(r, m, name)

\* r is at its actions or beyond, with none on map m and this name still to do.
Finished(r, m, name) ==
    /\ pc[r] \notin {"idle", "accepted", "render"}
    /\ \A k \in todo[r] \intersect (Adding \union Deleting) : ~On(r, k, m, name)

\* What r leaves in a map under this name.
Result(r, m, name, map) ==
    IF Deletes(r, m, name)
    THEN name \notin DOMAIN map
    ELSE name \in DOMAIN map /\ map[name] = Added(r, m)

\* r came when all others that alter map m under this name were done.
Latest(r, m, name) ==
    \A p \in Reqs : Altering(p, m, name) /\ p # r => p \in before[r]

(***************************************************************************)
(* Which handlers execute actions, that none is left out, and that headers *)
(* are added before others are deleted.                                    *)
(***************************************************************************)
Executing(r) ==
    /\ pc[r] \in {"render", "act"} => Kind(r) \in {"default", "unary"}
    /\ pc[r] = "act" /\ todo[r] # {} => Executes(r)
    /\ pc[r] \in {"page", "monitor", "marshal", "return"} =>
           Kind(r) \notin {"default", "unary"}
    /\ pc[r] \notin {"idle", "accepted", "render", "act"} /\ Executes(r) => todo[r] = {}
    /\ pc[r] = "act" =>
           /\ "addheader" \in todo[r] /\ "delheader" \in Cmds(r).actions =>
                  "delheader" \in todo[r]
           /\ "addtrailer" \in todo[r] /\ "deltrailer" \in Cmds(r).actions =>
                  "deltrailer" \in todo[r]

\* The requests that were done when r arrived are still done.
Preceded(r) == \A q \in before[r] : pc[q] = "done"

\* A header shown in a copy of map m was added by some request.
From(m, name, map) ==
    name \in DOMAIN map =>
        \E q \in Reqs : Adds(q, m, name) /\ map[name] = Added(q, m)

\* The map is as the latest request that altered it under this name left it.
MapRight(m, name) ==
    /\ From(m, name, maps[m])
    /\ \A q \in Reqs :
           Altering(q, m, name) /\ Finished(q, m, name) /\ Latest(q, m, name) =>
               Result(q, m, name, maps[m])

\* The same of the copy that was sent to r, as of the requests before it.
ReplyRight(r) ==
    Replied(r) =>
        /\ DOMAIN reply[r].maps \subseteq MapNames
        /\ \A m \in DOMAIN reply[r].maps, name \in Names :
               /\ From(m, name, reply[r].maps[m])
               /\ \A q \in before[r] \union {r} :
                      Altering(q, m, name) /\ Latest(q, m, name) =>
                          Result(q, m, name, reply[r].maps[m])

\* All of it.
HeaderInv ==
    /\ \A r \in Reqs : Executing(r) /\ Preceded(r) /\ ReplyRight(r)
    /\ \A m \in MapNames, name \in Names : MapRight(m, name)

\* Deletions come after additions, and the end after both.
LEMMA NextOrder ==
  ASSUME NEW S, NEW a, IsNext(a, S)
  PROVE  /\ a \in S
         /\ a = "delheader" => "addheader" \notin S
         /\ a = "deltrailer" => "addtrailer" \notin S
         /\ a \in {"code", "disconnect"} => S \intersect (Adding \union Deleting) = {}
<1>1. PICK i \in DOMAIN ActionOrder :
          ActionOrder[i] = a /\ a \in S /\ \A j \in 1 .. i - 1 : ActionOrder[j] \notin S
  BY DEF IsNext
<1>2. /\ DOMAIN ActionOrder = 1 .. 8
      /\ ActionOrder[1] = "cpu" /\ ActionOrder[2] = "memory"
      /\ ActionOrder[3] = "addheader" /\ ActionOrder[4] = "delheader"
      /\ ActionOrder[5] = "addtrailer" /\ ActionOrder[6] = "deltrailer"
      /\ ActionOrder[7] = "code" /\ ActionOrder[8] = "disconnect"
  BY DEF ActionOrder
<1>3. \A n \in 1 .. 8 :
          \A j \in 1 .. n - 1 : j \in 1 .. 8 /\ j # n
  OBVIOUS
<1>4. \/ i = 1 \/ i = 2 \/ i = 3 \/ i = 4 \/ i = 5 \/ i = 6 \/ i = 7 \/ i = 8
  BY <1>1, <1>2
<1> HIDE DEF ActionOrder
<1>5. a = "delheader" => i = 4
  BY <1>1, <1>2, <1>4
<1>6. a = "deltrailer" => i = 6
  BY <1>1, <1>2, <1>4
<1>7. a \in {"code", "disconnect"} => i \in {7, 8}
  BY <1>1, <1>2, <1>4
<1>8. i \in 1 .. 8 /\ \A j \in 1 .. 8 : j < i => ActionOrder[j] \notin S
  BY <1>1, <1>2
<1>9. a = "delheader" => "addheader" \notin S
  BY <1>2, <1>5, <1>8
<1>10. a = "deltrailer" => "addtrailer" \notin S
  BY <1>2, <1>6, <1>8
<1>11. a \in {"code", "disconnect"} =>
           /\ "addheader" \notin S /\ "delheader" \notin S
           /\ "addtrailer" \notin S /\ "deltrailer" \notin S
  BY <1>2, <1>7, <1>8
<1> QED
  BY <1>1, <1>9, <1>10, <1>11 DEF Adding, Deleting

\* What is known of a request that has arrived.
LEMMA Arrived ==
  ASSUME ServerInv, NEW r \in Reqs, pc[r] # "idle"
  PROVE  /\ what[r] # "" /\ what[r] \in OfferNames
         /\ Proto(r) \in {"http", "grpc", "lambda"}
         /\ needsAction(Cmds(r)) <=> Honoured(r)
         /\ needsAction(Cmds(r)) =>
                Cmds(r).actions = (DOMAIN Req(r).q \intersect validator(Proto(r))) \ IfKeys
<1>1. ReqInv(r)
  BY DEF ServerInv
<1>2. /\ what[r] \in OfferNames /\ Proto(r) \in {"http", "grpc", "lambda"}
      /\ Req(r) = Offers[what[r]] /\ Cmds(r) = Validated[Proto(r)][what[r]]
  BY <1>1, RequestIs
<1>3. PICK o \in OfferNames, p \in {"http", "grpc", "lambda"} : o = what[r] /\ p = Proto(r)
  BY <1>2
<1>4. /\ needsAction(Validated[p][o]) <=> Honourable[p][o]
      /\ needsAction(Validated[p][o]) =>
             Validated[p][o].actions = (DOMAIN Offers[o].q \intersect validator(p)) \ IfKeys
  BY HonouredNeeds
<1>5. what[r] # ""
  BY <1>2, OffersAssumption DEF OfferNames
<1> QED
  BY <1>2, <1>3, <1>4, <1>5 DEF Honoured

\* What a request alters does not change.
LEMMA AltersLasts ==
  ASSUME NEW q \in Reqs, SameRequest(q), isLambda' = isLambda, NEW m, NEW name
  PROVE  /\ Executes(q)' <=> Executes(q)
         /\ Adds(q, m, name)' <=> Adds(q, m, name)
         /\ Deletes(q, m, name)' <=> Deletes(q, m, name)
         /\ Added(q, m)' = Added(q, m)
         /\ \A k : On(q, k, m, name)' <=> On(q, k, m, name)
<1>1. what'[q] = what[q]
  BY DEF SameRequest
<1>2. Executes(q)' <=> Executes(q)
  BY <1>1 DEF SameRequest, Executes, Honoured
<1>3. \A k : MapOf(q, k)' = MapOf(q, k)
  BY DEF SameRequest, MapOf
<1>4. Req(q)' = Req(q) /\ Proto(q)' = Proto(q)
  BY DEF SameRequest
<1>5. \A acts : Alters(q, m, name, acts)' <=> Alters(q, m, name, acts)
  BY <1>2, <1>3, <1>4 DEF Alters
<1> QED
  BY <1>2, <1>3, <1>4, <1>5 DEF Adds, Deletes, Added, On

\* A request that alters a map has arrived.
LEMMA AltersArrived ==
  ASSUME ServerInv, NEW q \in Reqs, NEW m, NEW name, Altering(q, m, name)
  PROVE  Executes(q) /\ pc[q] # "idle"
<1>1. Executes(q)
  BY DEF Altering, Adds, Deletes, Alters
<1>2. what[q] # ""
  BY <1>1 DEF Executes
<1> QED
  BY <1>1, <1>2 DEF ServerInv, ReqInv, Fresh

\* Where a request goes, and what is left to do.
LEMMA TodoStep ==
  ASSUME ServerInv, NEW r \in Reqs, Step(r), ~Act(r)
  PROVE  /\ pc[r] = "idle" => pc'[r] \in {"idle", "accepted"}
         /\ pc[r] = "accepted" =>
                pc'[r] \in {"accepted", "render", "page", "monitor", "return"}
         /\ pc[r] = "render" =>
                \/ pc'[r] = "render"
                \/ ~evaluatePanics(Req(r), Cmds(r)) /\ todo'[r] = Todo(Cmds(r))
                     /\ pc'[r] = IF needsAction(Cmds(r)) /\ "noop" \in Cmds(r).actions
                                 THEN "log" ELSE "act"
                \/ evaluatePanics(Req(r), Cmds(r)) /\ pc'[r] = "done"
         /\ pc[r] \notin {"idle", "accepted", "render"} =>
                /\ pc'[r] \notin {"idle", "accepted", "render"}
                /\ \/ todo'[r] = todo[r]
                   \/ todo'[r] = {} /\ todo[r] \intersect (Adding \union Deleting) = {}
         /\ pc[r] = "act" => pc'[r] = "act" \/ todo'[r] = {}
         /\ pc[r] = "done" => pc'[r] = "done"
         /\ pc'[r] = "act" => pc[r] \in {"render", "act"}
<1>1. RequestTypes
  BY DEF ServerInv, TypeOK
<1>2. CASE \E o \in OfferNames : Accept(r, o) \/ lambdaHandler(r, o)
  BY <1>1, <1>2 DEF Accept, lambdaHandler, Arrives, At, RequestTypes
<1>3. CASE handlerWrapper(r) \/ noLogHandlerWrapper(r) \/ handleRequest(r)
             \/ UnaryInterceptor(r) \/ StreamInterceptor(r)
  <2>1. pc[r] = "accepted" /\ pc'[r] \in {"render", "page", "monitor"}
    BY <1>1, <1>3 DEF handlerWrapper, noLogHandlerWrapper, handleRequest, UnaryInterceptor,
       StreamInterceptor, Enter, At, RequestTypes
  <2> QED
    BY <2>1
<1>4. CASE Render(r)
  BY <1>1, <1>4 DEF Render, At, RequestTypes
<1>5. CASE RenderPanics(r)
  BY <1>1, <1>5 DEF RenderPanics, At, RequestTypes
<1>6. CASE ActLast(r)
  <2>1. PICK a \in todo[r] \intersect {"code", "disconnect"} : ActLast(r)!2!(a)
    BY <1>6 DEF ActLast
  <2>2. todo[r] \intersect (Adding \union Deleting) = {}
    BY <2>1, NextOrder
  <2>3. pc[r] = "act" /\ todo'[r] = {}
    BY <1>1, <1>6 DEF ActLast, At, RequestTypes
  <2>4. pc'[r] \in {"reflect", "log", "act"}
    BY <1>1, <2>1, <2>3 DEF RequestTypes
  <2> QED
    BY <2>2, <2>3, <2>4
<1>7. CASE WriteHttp(r) \/ WriteGrpc(r)
  <2>1. pc[r] = "act" /\ todo[r] = {} /\ todo'[r] = todo[r] /\ pc'[r] \in {"reflect", "log"}
    BY <1>1, <1>7 DEF WriteHttp, WriteGrpc, At, RequestTypes
  <2> QED
    BY <2>1
<1>8. CASE ReflectNode(r) \/ ReflectRemote(r) \/ SetLogger(r) \/ execHandler(r) \/ envHandler(r)
             \/ filesDLHandler(r) \/ UnregisteredMethodHandler(r) \/ updateNode(r)
             \/ getStoreNodeJSON(r) \/ Log(r) \/ Leave(r)
  <2>1. /\ pc[r] \in {"reflect", "remote", "logger", "page", "monitor", "marshal", "log"}
        /\ pc'[r] \in {"remote", "logger", "log", "marshal", "done"}
        /\ todo'[r] = todo[r]
    BY <1>1, <1>8 DEF ReflectNode, ReflectRemote, SetLogger, execHandler, envHandler,
       filesDLHandler, WritePage, UnregisteredMethodHandler, updateNode, getStoreNodeJSON,
       Log, Leave, Return, At, RequestTypes
  <2> QED
    BY <2>1
<1>9. CASE StopHandler(r)
  <2>1. /\ todo'[r] = todo[r]
        /\ \/ pc[r] = "accepted" /\ pc'[r] \in {"accepted", "return"}
           \/ pc[r] = "return" /\ pc'[r] = "done"
    BY <1>1, <1>9 DEF StopHandler, StopNow, StopGraceful, StopReturn, At, RequestTypes, requestVars
  <2> QED
    BY <2>1
<1>10. CASE StopStep(r) \/ Expire(r)
  <2>1. pc' = pc /\ todo' = todo
    BY <1>10 DEF StopStep, Shutdown, ShutdownDone, ShutdownExpired, Exit, Expire, requestVars
  <2> QED
    BY <2>1
<1> QED
  BY <1>2, <1>3, <1>4, <1>5, <1>6, <1>7, <1>8, <1>9, <1>10 DEF Step, RequestStep

\* before is set once, when a request arrives.
LEMMA BeforeStep ==
  ASSUME ServerInv, NEW r \in Reqs, Step(r)
  PROVE  /\ \A q \in Reqs \ {r} : before'[q] = before[q]
         /\ pc[r] # "idle" => before'[r] = before[r]
         /\ before'[r] = before[r] \/ before'[r] = {q \in Reqs : pc[q] = "done"}
<1>1. RequestTypes
  BY DEF ServerInv, TypeOK
<1>2. CASE \E o \in OfferNames : Accept(r, o) \/ lambdaHandler(r, o)
  BY <1>1, <1>2 DEF Accept, lambdaHandler, Arrives, At, RequestTypes
<1>3. CASE ~ \E o \in OfferNames : Accept(r, o) \/ lambdaHandler(r, o)
  <2>1. UNCHANGED before
    BY <1>3 DEF Step, RequestStep, handlerWrapper, noLogHandlerWrapper, handleRequest,
       UnaryInterceptor, StreamInterceptor, Enter, Render, RenderPanics, Act, ActLast,
       WriteHttp, WriteGrpc, ReflectNode, ReflectRemote, SetLogger, execHandler, envHandler,
       filesDLHandler, WritePage, UnregisteredMethodHandler, updateNode, getStoreNodeJSON,
       Log, Leave, Return, StopHandler, StopNow, StopGraceful, StopReturn, StopStep,
       Shutdown, ShutdownDone, ShutdownExpired, Exit, Expire, requestVars
  <2> QED
    BY <2>1
<1> QED
  BY <1>2, <1>3

\* The handler that a request gets.
LEMMA EnterKind ==
  ASSUME ServerInv, NEW r \in Reqs, Step(r), pc[r] = "accepted"
  PROVE  /\ pc'[r] = "render" => Kind(r) \in {"default", "unary"}
         /\ pc'[r] \in {"page", "monitor", "return"} => Kind(r) \notin {"default", "unary"}
<1>1. RequestTypes /\ ReqInv(r)
  BY DEF ServerInv, TypeOK
<1>2. isLambda => Kind(r) \in {"default", "env", "monitor"}
  BY <1>1, HttpKind
<1>3. CASE handlerWrapper(r) \/ noLogHandlerWrapper(r) \/ handleRequest(r)
             \/ UnaryInterceptor(r) \/ StreamInterceptor(r)
  BY <1>1, <1>2, <1>3 DEF handlerWrapper, noLogHandlerWrapper, handleRequest,
     UnaryInterceptor, StreamInterceptor, Enter, PageKinds, RequestTypes
<1>4. CASE StopHandler(r)
  BY <1>1, <1>4 DEF StopHandler, StopNow, StopGraceful, StopReturn, At, RequestTypes, requestVars
<1>5. CASE pc'[r] = pc[r]
  BY <1>5
<1> QED
  BY <1>3, <1>4, <1>5 DEF Step, RequestStep, Accept, lambdaHandler, Arrives, At, Render,
     RenderPanics, Act, ActLast, WriteHttp, WriteGrpc, ReflectNode, ReflectRemote, SetLogger,
     execHandler, envHandler, filesDLHandler, WritePage, UnregisteredMethodHandler,
     updateNode, getStoreNodeJSON, Log, Leave, StopStep, Shutdown, ShutdownDone,
     ShutdownExpired, Exit, Expire, requestVars

\* The way of a request that is not at its actions.
LEMMA PageWay ==
  ASSUME ServerInv, NEW r \in Reqs, Step(r), ~Act(r),
         pc[r] \notin {"idle", "accepted"}
  PROVE  pc'[r] \in {"page", "monitor", "marshal", "return"} =>
             pc[r] \in {"page", "monitor", "marshal", "return"}
<1>1. RequestTypes
  BY DEF ServerInv, TypeOK
<1>2. CASE ActLast(r)
  <2>1. PICK a \in todo[r] \intersect {"code", "disconnect"} : ActLast(r)!2!(a)
    BY <1>2 DEF ActLast
  <2>2. pc[r] = "act" /\ pc'[r] \in {"reflect", "log", "act"}
    BY <1>1, <1>2, <2>1 DEF ActLast, At, RequestTypes
  <2> QED
    BY <2>2
<1> QED
  BY <1>1, <1>2 DEF RequestTypes, Step, RequestStep, Accept, lambdaHandler, Arrives, At,
     handlerWrapper, noLogHandlerWrapper, handleRequest, UnaryInterceptor, StreamInterceptor,
     Render, RenderPanics, WriteHttp, WriteGrpc, ReflectNode, ReflectRemote, SetLogger,
     execHandler, envHandler, filesDLHandler, WritePage, UnregisteredMethodHandler,
     updateNode, getStoreNodeJSON, Log, Leave, Return, StopHandler, StopNow, StopGraceful,
     StopReturn, StopStep, Shutdown, ShutdownDone, ShutdownExpired, Exit, Expire, requestVars

\* A step of a request keeps Executing.
LEMMA ExecutingKept ==
  ASSUME ServerInv, NEW r \in Reqs, Executing(r), Step(r)
  PROVE  Executing(r)'
<1>1. Frame(r) /\ isLambda' = isLambda /\ RequestTypes
  BY InvStep DEF ServerInv, TypeOK, Frame
<1>2. CASE pc[r] = "idle"
  <2>1. ~Act(r)
    BY <1>2 DEF Act, At
  <2>2. pc'[r] \in {"idle", "accepted"}
    BY <1>2, <2>1, TodoStep
  <2> QED
    BY <2>2 DEF Executing
<1>3. CASE pc[r] # "idle"
  <2>1. SameRequest(r)
    BY <1>1, <1>3, RequestLasts
  <2>2. /\ Kind(r)' = Kind(r) /\ Cmds(r)' = Cmds(r)
        /\ Executes(r)' <=> Executes(r)
    BY <1>1, <2>1, AltersLasts DEF SameRequest
  <2>3. /\ needsAction(Cmds(r)) <=> Honoured(r)
        /\ needsAction(Cmds(r)) =>
               Cmds(r).actions = (DOMAIN Req(r).q \intersect validator(Proto(r))) \ IfKeys
        /\ what[r] # ""
    BY <1>3, Arrived
  <2>4. CASE Act(r)
    <3>1. PICK a \in todo[r] \ {"code", "disconnect"} : Act(r)!2!(a)
      BY <2>4 DEF Act
    <3>2. pc[r] = "act" /\ pc' = pc /\ todo'[r] = todo[r] \ {a}
      BY <1>1, <2>4, <3>1 DEF Act, At, RequestTypes
    <3>3. IsNext(a, todo[r])
      BY <3>1
    <3>4. /\ a = "delheader" => "addheader" \notin todo[r]
          /\ a = "deltrailer" => "addtrailer" \notin todo[r]
      BY <3>3, NextOrder
    <3> QED
      BY <2>2, <3>2, <3>4 DEF Executing
  <2>5. CASE ~Act(r) /\ pc[r] = "accepted"
    <3>1. /\ pc'[r] \in {"accepted", "render", "page", "monitor", "return"}
          /\ pc'[r] = "render" => Kind(r) \in {"default", "unary"}
          /\ pc'[r] \in {"page", "monitor", "return"} => Kind(r) \notin {"default", "unary"}
      BY <2>5, TodoStep, EnterKind
    <3> QED
      BY <2>2, <3>1 DEF Executing, Executes
  <2>6. CASE ~Act(r) /\ pc[r] = "render"
    <3>1. CASE pc'[r] = "render"
      BY <2>2, <2>6, <3>1 DEF Executing
    <3>2. CASE evaluatePanics(Req(r), Cmds(r)) /\ pc'[r] = "done"
      BY <2>2, <3>2 DEF Executing, Executes
    <3>3. CASE ~evaluatePanics(Req(r), Cmds(r)) /\ todo'[r] = Todo(Cmds(r))
                 /\ pc'[r] = IF needsAction(Cmds(r)) /\ "noop" \in Cmds(r).actions
                             THEN "log" ELSE "act"
      <4>1. "noop" \notin IfKeys /\ Kind(r) \in {"default", "unary"}
        BY <2>6 DEF IfKeys, Executing
      <4>2. CASE needsAction(Cmds(r)) /\ "noop" \in Cmds(r).actions
        <5>1. ~Executes(r) /\ pc'[r] = "log"
          BY <2>3, <3>3, <4>2 DEF Executes
        <5> QED
          BY <2>2, <5>1 DEF Executing
      <4>3. CASE ~(needsAction(Cmds(r)) /\ "noop" \in Cmds(r).actions)
        <5>1. pc'[r] = "act"
          BY <3>3, <4>3
        <5>2. todo'[r] # {} => needsAction(Cmds(r))
          BY <3>3 DEF Todo
        <5>3. needsAction(Cmds(r)) => Executes(r)
          BY <2>3, <3>3, <4>1, <4>3 DEF Executes
        <5>4. "delheader" \in Ordered /\ "deltrailer" \in Ordered
          <6>1. /\ DOMAIN ActionOrder = 1 .. 8
                /\ ActionOrder[4] = "delheader" /\ ActionOrder[6] = "deltrailer"
            BY DEF ActionOrder
          <6> HIDE DEF ActionOrder
          <6> QED
            BY <6>1 DEF Ordered
        <5>5. \A k \in {"delheader", "deltrailer"} :
                  needsAction(Cmds(r)) /\ k \in Cmds(r).actions => k \in todo'[r]
          BY <3>3, <5>4 DEF Todo
        <5> QED
          BY <2>2, <4>1, <5>1, <5>2, <5>3, <5>5 DEF Executing
      <4> QED
        BY <4>2, <4>3
    <3> QED
      BY <2>6, <3>1, <3>2, <3>3, TodoStep
  <2>7. CASE ~Act(r) /\ pc[r] \notin {"accepted", "render"}
    <3>1. /\ pc'[r] \notin {"idle", "accepted", "render"}
          /\ todo'[r] = todo[r] \/ todo'[r] = {}
          /\ pc[r] = "act" => pc'[r] = "act" \/ todo'[r] = {}
          /\ pc'[r] = "act" => pc[r] = "act"
      BY <1>3, <2>7, TodoStep
    <3>2. pc'[r] \in {"page", "monitor", "marshal", "return"} =>
              pc[r] \in {"page", "monitor", "marshal", "return"}
      BY <1>3, <2>7, PageWay
    <3> QED
      BY <1>3, <2>2, <2>7, <3>1, <3>2 DEF Executing
  <2> QED
    BY <2>4, <2>5, <2>6, <2>7
<1> QED
  BY <1>2, <1>3

\* Every step keeps Executing and Preceded of every request.
LEMMA RequestsKept ==
  ASSUME ServerInv, \A q \in Reqs : Executing(q) /\ Preceded(q), NEW r \in Reqs, Step(r),
         NEW q \in Reqs
  PROVE  Executing(q)' /\ Preceded(q)'
<1>1. Frame(r) /\ isLambda' = isLambda /\ RequestTypes
  BY InvStep DEF ServerInv, TypeOK, Frame
<1>2. ASSUME NEW p \in Reqs, pc[p] = "done"
      PROVE  pc'[p] = "done"
  <2>1. CASE p = r
    <3>1. ~Act(r)
      BY <1>2, <2>1 DEF Act, At
    <3> QED
      BY <1>2, <2>1, <3>1, TodoStep
  <2>2. CASE p # r
    BY <1>1, <1>2, <2>2 DEF Frame, Same
  <2> QED
    BY <2>1, <2>2
<1>3. \A p \in before'[q] : pc'[p] = "done"
  <2>1. before[q] \subseteq Reqs /\ \A p \in before[q] : pc[p] = "done"
    BY <1>1 DEF RequestTypes, Preceded
  <2>2. before'[q] = before[q] \/ before'[q] = {p \in Reqs : pc[p] = "done"}
    BY BeforeStep
  <2> QED
    BY <1>2, <2>1, <2>2
<1>4. Executing(q)
  OBVIOUS
<1>5. Executing(q)'
  <2>1. CASE q = r
    BY <1>4, <2>1, ExecutingKept
  <2>2. CASE q # r
    <3>1. SameRequest(q) /\ Same(q)
      BY <1>1, <2>2, RequestLasts DEF Frame
    <3>2. Executes(q)' <=> Executes(q)
      BY <1>1, <3>1, AltersLasts
    <3> QED
      BY <1>4, <3>1, <3>2 DEF Executing, SameRequest, Same
  <2> QED
    BY <2>1, <2>2
<1> QED
  BY <1>3, <1>5 DEF Preceded

\* What the next action of a request does to each header of each map.
LEMMA ActMaps ==
  ASSUME ServerInv, NEW r \in Reqs, Executing(r), Act(r)
  PROVE  \E a \in todo[r] :
             /\ pc[r] = "act" /\ pc' = pc /\ reply' = reply /\ todo'[r] = todo[r] \ {a}
             /\ a \in Cmds(r).actions
             /\ \A m \in MapNames : \A name :
                  /\ a \notin Adding \union Deleting \/ ~On(r, a, m, name) =>
                         /\ name \in DOMAIN maps'[m] <=> name \in DOMAIN maps[m]
                         /\ name \in DOMAIN maps[m] => maps'[m][name] = maps[m][name]
                  /\ a \in Adding /\ On(r, a, m, name) =>
                         /\ Adds(r, m, name)
                         /\ name \in DOMAIN maps'[m] /\ maps'[m][name] = Added(r, m)
                  /\ a \in Deleting /\ On(r, a, m, name) =>
                         Deletes(r, m, name) /\ name \notin DOMAIN maps'[m]
<1>1. PICK a \in todo[r] \ {"code", "disconnect"} : Act(r)!2!(a)
  BY DEF Act
<1>2. RequestTypes /\ DOMAIN maps = MapNames /\ ReqInv(r)
  BY DEF ServerInv, TypeOK, ActionTypes
<1>3. pc[r] = "act" /\ pc' = pc /\ reply' = reply /\ todo'[r] = todo[r] \ {a}
  BY <1>1, <1>2 DEF Act, At, RequestTypes
<1>4. Executes(r) /\ a \in Cmds(r).actions /\ needsAction(Cmds(r))
  BY <1>1, <1>2, <1>3 DEF Executing, ReqInv, Doing
<1>5. a \in DOMAIN Req(r).q \intersect validator(Proto(r))
  BY <1>3, <1>4, Arrived
<1>6. MapOf(r, a) \in MapNames
  BY DEF MapOf, MapNames
<1> DEFINE values == Req(r).q[a]
           low == ToLower(values[1].name)
<1>7. ASSUME NEW m \in MapNames, NEW name, a \notin Adding \union Deleting
      PROVE  maps'[m] = maps[m]
  BY <1>1, <1>7 DEF Adding, Deleting
<1>8. ASSUME a \in Adding, NEW m \in MapNames, NEW name
      PROVE  /\ ~On(r, a, m, name) =>
                    /\ name \in DOMAIN maps'[m] <=> name \in DOMAIN maps[m]
                    /\ name \in DOMAIN maps[m] => maps'[m][name] = maps[m][name]
             /\ On(r, a, m, name) =>
                    /\ Adds(r, m, name)
                    /\ name \in DOMAIN maps'[m] /\ maps'[m][name] = Added(r, m)
  <2>1. maps' = [maps EXCEPT ![MapOf(r, a)] = add(@, values)]
    BY <1>1, <1>8 DEF Adding
  <2>2. m # MapOf(r, a) => maps'[m] = maps[m]
    BY <1>2, <2>1
  <2>3. m = MapOf(r, a) => maps'[m] = add(maps[m], values)
    BY <1>2, <2>1
  <2>4. add(maps[m], values) =
            [n \in DOMAIN maps[m] \union {low} |-> IF n = low THEN Text(values) ELSE maps[m][n]]
    BY DEF add
  <2>5. On(r, a, m, name) <=> MapOf(r, a) = m /\ low = name
    BY DEF On
  <2>6. On(r, a, m, name) => Adds(r, m, name)
    BY <1>4, <1>5, <1>8, <2>5 DEF Adds, Alters, Adding
  <2>7. MapOf(r, a) = m => Added(r, m) = Text(values)
    BY <1>8 DEF Added, MapOf, Adding
  <2> HIDE DEF low, values
  <2> QED
    BY <2>2, <2>3, <2>4, <2>5, <2>6, <2>7
<1>9. ASSUME a \in Deleting, NEW m \in MapNames, NEW name
      PROVE  /\ ~On(r, a, m, name) =>
                    /\ name \in DOMAIN maps'[m] <=> name \in DOMAIN maps[m]
                    /\ name \in DOMAIN maps[m] => maps'[m][name] = maps[m][name]
             /\ On(r, a, m, name) =>
                    Deletes(r, m, name) /\ name \notin DOMAIN maps'[m]
  <2>1. maps' = [maps EXCEPT ![MapOf(r, a)] = del(@, values)]
    BY <1>1, <1>9 DEF Deleting
  <2>2. m # MapOf(r, a) => maps'[m] = maps[m]
    BY <1>2, <2>1
  <2>3. m = MapOf(r, a) => maps'[m] = del(maps[m], values)
    BY <1>2, <2>1
  <2>4. del(maps[m], values) = [n \in DOMAIN maps[m] \ {low} |-> maps[m][n]]
    BY DEF del
  <2>5. On(r, a, m, name) <=> MapOf(r, a) = m /\ low = name
    BY DEF On
  <2>6. On(r, a, m, name) => Deletes(r, m, name)
    BY <1>4, <1>5, <1>9, <2>5 DEF Deletes, Alters, Deleting
  <2> HIDE DEF low, values
  <2> QED
    BY <2>2, <2>3, <2>4, <2>5, <2>6
<1>10. Adding \intersect Deleting = {}
  BY DEF Adding, Deleting
<1>11. ASSUME NEW m \in MapNames, NEW name
       PROVE  /\ a \notin Adding \union Deleting \/ ~On(r, a, m, name) =>
                     /\ name \in DOMAIN maps'[m] <=> name \in DOMAIN maps[m]
                     /\ name \in DOMAIN maps[m] => maps'[m][name] = maps[m][name]
              /\ a \in Adding /\ On(r, a, m, name) =>
                     /\ Adds(r, m, name)
                     /\ name \in DOMAIN maps'[m] /\ maps'[m][name] = Added(r, m)
              /\ a \in Deleting /\ On(r, a, m, name) =>
                     Deletes(r, m, name) /\ name \notin DOMAIN maps'[m]
  BY <1>7, <1>8, <1>9, <1>10
<1> QED
  BY <1>3, <1>4, <1>11

\* A request that both adds and deletes a header deletes it last.
LEMMA DeletesLast ==
  ASSUME ServerInv, NEW r \in Reqs, Executing(r), pc[r] = "act",
         NEW a \in todo[r] \intersect Adding, NEW m, NEW name,
         On(r, a, m, name), Deletes(r, m, name)
  PROVE  \E k \in todo[r] \intersect Deleting : On(r, k, m, name)
<1>1. PICK k \in Deleting \intersect DOMAIN Req(r).q \intersect validator(Proto(r)) :
          MapOf(r, k) = m /\ ToLower(Req(r).q[k][1].name) = name
  BY DEF Deletes, Alters, Deleting
<1>2. needsAction(Cmds(r))
  BY Arrived DEF Deletes, Alters, Executes
<1>3. k \in Cmds(r).actions
  BY <1>1, <1>2, Arrived DEF IfKeys, Deleting
<1>4. MapOf(r, a) = m
  BY DEF On
<1>5. \/ a = "addheader" /\ k = "delheader"
      \/ a = "addtrailer" /\ k = "deltrailer"
  BY <1>1, <1>4 DEF MapOf, Adding, Deleting
<1>6. k \in todo[r]
  <2>1. CASE a = "addheader" /\ k = "delheader"
    BY <1>3, <2>1 DEF Executing
  <2>2. CASE a = "addtrailer" /\ k = "deltrailer"
    BY <1>3, <2>2 DEF Executing
  <2> QED
    BY <1>5, <2>1, <2>2
<1> QED
  BY <1>1, <1>6 DEF On

\* Nothing else finishes the alterations of a request.
LEMMA FinishedBack ==
  ASSUME ServerInv, NEW r \in Reqs, Executing(r)', pc[r] # "idle", Step(r), ~Act(r),
         NEW m, NEW name, Altering(r, m, name), Finished(r, m, name)'
  PROVE  Finished(r, m, name)
<1>1. Frame(r) /\ isLambda' = isLambda
  BY InvStep DEF Frame
<1>2. SameRequest(r)
  BY <1>1, RequestLasts
<1>3. /\ \A k : On(r, k, m, name)' <=> On(r, k, m, name)
      /\ Executes(r)' <=> Executes(r)
  BY <1>1, <1>2, AltersLasts
<1>4. Executes(r) /\ Kind(r)' \in {"default", "unary"}
  BY <1>2, AltersArrived DEF Executes, SameRequest
<1>5. pc'[r] \notin {"idle", "accepted", "render"}
  BY DEF Finished
<1>6. pc[r] # "accepted"
  BY <1>4, <1>5, TodoStep DEF Executing
<1>7. pc[r] # "render"
  <2> SUFFICES ASSUME pc[r] = "render" PROVE FALSE
    OBVIOUS
  <2>1. todo'[r] = Todo(Cmds(r))
    BY <1>4, <1>5, TodoStep DEF Executes
  <2>2. PICK k \in Adding \union Deleting :
            k \in DOMAIN Req(r).q \intersect validator(Proto(r)) /\ On(r, k, m, name)
    BY DEF Altering, Adds, Deletes, Alters, On, Adding, Deleting
  <2>3. needsAction(Cmds(r))
    BY <1>4, Arrived DEF Executes
  <2>4. k \in Cmds(r).actions
    BY <2>2, <2>3, Arrived DEF IfKeys, Adding, Deleting
  <2>5. k \in Ordered
    <3>1. /\ DOMAIN ActionOrder = 1 .. 8
          /\ ActionOrder[3] = "addheader" /\ ActionOrder[4] = "delheader"
          /\ ActionOrder[5] = "addtrailer" /\ ActionOrder[6] = "deltrailer"
      BY DEF ActionOrder
    <3> HIDE DEF ActionOrder
    <3> QED
      BY <3>1 DEF Ordered, Adding, Deleting
  <2>6. k \in todo'[r]
    BY <2>1, <2>3, <2>4, <2>5 DEF Todo
  <2> QED
    BY <1>3, <2>2, <2>6 DEF Finished
<1>8. todo'[r] = todo[r] \/ todo[r] \intersect (Adding \union Deleting) = {}
  BY <1>6, <1>7, TodoStep
<1> QED
  BY <1>3, <1>6, <1>7, <1>8 DEF Finished

\* What was altered stays altered, and the latest request was it before.
LEMMA AlterationsKept ==
  ASSUME ServerInv, NEW r \in Reqs, Step(r), NEW m, NEW name
  PROVE  /\ \A q \in Reqs : pc[q] # "idle" =>
                /\ Adds(q, m, name)' <=> Adds(q, m, name)
                /\ Deletes(q, m, name)' <=> Deletes(q, m, name)
                /\ Altering(q, m, name)' <=> Altering(q, m, name)
                /\ Added(q, m)' = Added(q, m)
                /\ \A k : On(q, k, m, name)' <=> On(q, k, m, name)
                /\ Latest(q, m, name)' => Latest(q, m, name)
         /\ \A map : From(m, name, map) => From(m, name, map)'
<1>1. Frame(r) /\ isLambda' = isLambda
  BY InvStep DEF Frame
<1>2. ASSUME NEW q \in Reqs, pc[q] # "idle"
      PROVE  /\ Adds(q, m, name)' <=> Adds(q, m, name)
             /\ Deletes(q, m, name)' <=> Deletes(q, m, name)
             /\ Altering(q, m, name)' <=> Altering(q, m, name)
             /\ Added(q, m)' = Added(q, m)
             /\ \A k : On(q, k, m, name)' <=> On(q, k, m, name)
  <2>1. SameRequest(q)
    BY <1>1, <1>2, RequestLasts
  <2> QED
    BY <1>1, <2>1, AltersLasts DEF Altering
<1>3. ASSUME NEW p \in Reqs, Altering(p, m, name)
      PROVE  pc[p] # "idle"
  BY <1>3, AltersArrived
<1>4. ASSUME NEW q \in Reqs, pc[q] # "idle", Latest(q, m, name)'
      PROVE  Latest(q, m, name)
  <2>1. before'[q] = before[q]
    BY <1>4, BeforeStep
  <2>2. ASSUME NEW p \in Reqs, Altering(p, m, name), p # q
        PROVE  p \in before[q]
    <3>1. Altering(p, m, name)'
      BY <1>2, <1>3, <2>2
    <3> QED
      BY <1>4, <2>1, <2>2, <3>1 DEF Latest
  <2> QED
    BY <2>2 DEF Latest
<1>5. ASSUME NEW map, From(m, name, map)
      PROVE  From(m, name, map)'
  <2> SUFFICES ASSUME name \in DOMAIN map
               PROVE  \E q \in Reqs : Adds(q, m, name)' /\ map[name] = Added(q, m)'
    BY DEF From
  <2>1. PICK q \in Reqs : Adds(q, m, name) /\ map[name] = Added(q, m)
    BY <1>5 DEF From
  <2>2. pc[q] # "idle"
    BY <1>3, <2>1 DEF Altering
  <2> QED
    BY <1>2, <2>1, <2>2
<1> QED
  BY <1>2, <1>4, <1>5

\* Only Act alters the maps.
LEMMA MapsStep ==
  ASSUME NEW r \in Reqs, Step(r), ~Act(r)
  PROVE  maps' = maps
BY DEF Step, RequestStep, Accept, lambdaHandler, Arrives,
   handlerWrapper, noLogHandlerWrapper, handleRequest, UnaryInterceptor, StreamInterceptor,
   Enter, Render, RenderPanics, ActLast, WriteHttp, WriteGrpc, ReflectNode, ReflectRemote,
   SetLogger, execHandler, envHandler, filesDLHandler, WritePage,
   UnregisteredMethodHandler, updateNode, getStoreNodeJSON, Log, Leave, Return,
   StopHandler, StopNow, StopGraceful, StopReturn, StopStep, Shutdown, ShutdownDone,
   ShutdownExpired, Exit, Expire

\* The maps of an answer.
LEMMA AnswerMaps ==
  ASSUME NEW status, NEW n, NEW length, NEW body, NEW shown
  PROVE  Answer(status, n, length, body, shown).maps = shown
BY DEF Answer

\* The copies of the maps that a response shows.
LEMMA ReplyMaps ==
  ASSUME ServerInv, NEW r \in Reqs, Step(r), reply'[r] # reply[r]
  PROVE  \/ DOMAIN reply'[r].maps = {}
         \/ /\ pc[r] = "act" /\ todo[r] = {}
            /\ DOMAIN reply'[r].maps \subseteq MapNames
            /\ \A m \in DOMAIN reply'[r].maps : reply'[r].maps[m] = maps[m]
<1>1. RequestTypes
  BY DEF ServerInv, TypeOK
<1>2. CASE ActLast(r)
  <2>1. PICK a \in todo[r] \intersect {"code", "disconnect"} : ActLast(r)!2!(a)
    BY <1>2 DEF ActLast
  <2>2. reply'[r].maps = <<>>
    <3>1. CASE Proto(r) # "grpc"
      <4>1. reply'[r] = Answer(0, 0, {}, 0, <<>>)
        BY <1>1, <2>1, <3>1 DEF RequestTypes
      <4> QED
        BY <4>1, AnswerMaps
    <3>2. CASE Proto(r) = "grpc"
      <4>1. PICK code : code = IF a = "code" THEN Req(r).q[a][1].from ELSE 0
        OBVIOUS
      <4>2. reply'[r] = Answer(code, 0, {}, 0, <<>>)
        BY <1>1, <2>1, <3>2, <4>1 DEF RequestTypes
      <4> QED
        BY <4>2, AnswerMaps
    <3> QED
      BY <3>1, <3>2
  <2> QED
    BY <2>2
<1>3. CASE execHandler(r) \/ envHandler(r) \/ filesDLHandler(r) \/ UnregisteredMethodHandler(r)
  <2>1. reply'[r].maps = <<>>
    <3>1. CASE UnregisteredMethodHandler(r)
      <4>1. \E code : reply'[r] = Answer(code, 0, {}, 0, <<>>)
        BY <1>1, <3>1 DEF UnregisteredMethodHandler, RequestTypes
      <4> QED
        BY <4>1, AnswerMaps
    <3>2. CASE execHandler(r) \/ envHandler(r) \/ filesDLHandler(r)
      <4>1. PICK page : page = Req(r).page
        OBVIOUS
      <4>2. reply'[r] = Answer(page.status, page.size, {page.size}, page.size, <<>>)
        BY <1>1, <3>2, <4>1 DEF execHandler, envHandler, filesDLHandler, WritePage,
                                RequestTypes
      <4> QED
        BY <4>2, AnswerMaps
    <3> QED
      BY <1>3, <3>1, <3>2
  <2> QED
    BY <2>1
<1>4. CASE WriteHttp(r)
  <2>1. pc[r] = "act" /\ todo[r] = {}
    BY <1>4 DEF WriteHttp, At
  <2>2. reply'[r].maps = [header |-> maps["header"]]
    BY <1>1, <1>4 DEF WriteHttp, Answer, RequestTypes
  <2> QED
    BY <2>1, <2>2 DEF MapNames
<1>5. CASE WriteGrpc(r)
  <2>1. pc[r] = "act" /\ todo[r] = {}
    BY <1>5 DEF WriteGrpc, At
  <2>2. reply'[r].maps = [headerMD |-> maps["headerMD"], trailerMD |-> maps["trailerMD"]]
    BY <1>1, <1>5 DEF WriteGrpc, Answer, RequestTypes
  <2> QED
    BY <2>1, <2>2 DEF MapNames
<1> QED
  BY <1>2, <1>3, <1>4, <1>5 DEF Step, RequestStep, Accept, lambdaHandler, Arrives,
     handlerWrapper, noLogHandlerWrapper, handleRequest, UnaryInterceptor, StreamInterceptor,
     Enter, Render, RenderPanics, Act, ReflectNode, ReflectRemote, SetLogger, updateNode,
     getStoreNodeJSON, Log, Leave, Return, StopHandler, StopNow, StopGraceful, StopReturn,
     StopStep, Shutdown, ShutdownDone, ShutdownExpired, Exit, Expire, requestVars

\* Every step keeps the maps as the latest request left them.
LEMMA MapKept ==
  ASSUME ServerInv, \A q \in Reqs : Executing(q) /\ Preceded(q),
         NEW m \in MapNames, NEW name \in Names, MapRight(m, name),
         NEW r \in Reqs, Step(r)
  PROVE  MapRight(m, name)'
<1>1. Frame(r) /\ isLambda' = isLambda
  BY InvStep DEF Frame
<1>2. /\ \A q \in Reqs : pc[q] # "idle" =>
              /\ Adds(q, m, name)' <=> Adds(q, m, name)
              /\ Deletes(q, m, name)' <=> Deletes(q, m, name)
              /\ Altering(q, m, name)' <=> Altering(q, m, name)
              /\ Added(q, m)' = Added(q, m)
              /\ \A k : On(q, k, m, name)' <=> On(q, k, m, name)
              /\ Latest(q, m, name)' => Latest(q, m, name)
      /\ \A map : From(m, name, map) => From(m, name, map)'
  BY AlterationsKept
<1>3. \A q \in Reqs : Executing(q)'
  BY RequestsKept
<1>4. CASE ~Act(r)
  <2>1. maps' = maps
    BY <1>4, MapsStep
  <2>2. From(m, name, maps[m])'
    BY <1>2, <2>1 DEF MapRight, From
  <2>3. ASSUME NEW q \in Reqs,
               Altering(q, m, name)', Finished(q, m, name)', Latest(q, m, name)'
        PROVE  Result(q, m, name, maps[m])'
    <3>1. pc[q] # "idle"
      <4> SUFFICES ASSUME pc[q] = "idle" PROVE FALSE
        OBVIOUS
      <4>1. pc'[q] \in {"idle", "accepted"}
        BY <1>1, <1>4, TodoStep DEF Frame, Same
      <4> QED
        BY <2>3, <4>1 DEF Finished
    <3>2. Altering(q, m, name) /\ Latest(q, m, name)
      BY <1>2, <2>3, <3>1
    <3>3. Finished(q, m, name)
      <4>1. CASE q = r
        BY <1>3, <1>4, <2>3, <3>1, <3>2, <4>1, FinishedBack
      <4>2. CASE q # r
        BY <1>1, <1>2, <2>3, <3>1, <4>2 DEF Frame, Same, Finished
      <4> QED
        BY <4>1, <4>2
    <3>4. Result(q, m, name, maps[m])
      BY <3>2, <3>3 DEF MapRight
    <3> QED
      BY <1>2, <2>1, <3>1, <3>4 DEF Result
  <2> QED
    BY <2>2, <2>3 DEF MapRight
<1>5. CASE Act(r)
  <2>1. PICK a \in todo[r] :
            /\ pc[r] = "act" /\ pc' = pc /\ reply' = reply /\ todo'[r] = todo[r] \ {a}
            /\ a \in Cmds(r).actions
            /\ a \notin Adding \union Deleting \/ ~On(r, a, m, name) =>
                   /\ name \in DOMAIN maps'[m] <=> name \in DOMAIN maps[m]
                   /\ name \in DOMAIN maps[m] => maps'[m][name] = maps[m][name]
            /\ a \in Adding /\ On(r, a, m, name) =>
                   /\ Adds(r, m, name)
                   /\ name \in DOMAIN maps'[m] /\ maps'[m][name] = Added(r, m)
            /\ a \in Deleting /\ On(r, a, m, name) =>
                   Deletes(r, m, name) /\ name \notin DOMAIN maps'[m]
    BY <1>5, ActMaps
  <2>2. CASE a \notin Adding \union Deleting \/ ~On(r, a, m, name)
    <3>1. /\ name \in DOMAIN maps'[m] <=> name \in DOMAIN maps[m]
          /\ name \in DOMAIN maps[m] => maps'[m][name] = maps[m][name]
      BY <2>1, <2>2
    <3>2. From(m, name, maps[m])'
      <4>1. From(m, name, maps[m]) => From(m, name, maps[m])'
        <5>1. PICK map : map = maps[m]
          OBVIOUS
        <5>2. From(m, name, map) => From(m, name, map)'
          BY <1>2
        <5> QED
          BY <3>1, <5>1, <5>2 DEF From
      <4> QED
        BY <4>1 DEF MapRight
    <3>3. ASSUME NEW q \in Reqs,
                 Altering(q, m, name)', Finished(q, m, name)', Latest(q, m, name)'
          PROVE  Result(q, m, name, maps[m])'
      <4>1. pc[q] # "idle"
        BY <2>1, <3>3 DEF Finished
      <4>2. Altering(q, m, name) /\ Latest(q, m, name)
        BY <1>2, <3>3, <4>1
      <4>3. Finished(q, m, name)
        <5>1. CASE q = r
          BY <1>2, <2>1, <2>2, <3>3, <4>1, <5>1 DEF Finished
        <5>2. CASE q # r
          BY <1>1, <1>2, <3>3, <4>1, <5>2 DEF Frame, Same, Finished
        <5> QED
          BY <5>1, <5>2
      <4>4. Result(q, m, name, maps[m])
        BY <4>2, <4>3 DEF MapRight
      <4> QED
        BY <1>2, <3>1, <4>1, <4>4 DEF Result
    <3> QED
      BY <3>2, <3>3 DEF MapRight
  <2>3. CASE a \in Adding \union Deleting /\ On(r, a, m, name)
    <3>1. pc[r] # "idle" /\ Altering(r, m, name) /\ Altering(r, m, name)'
      BY <1>2, <2>1, <2>3 DEF Altering
    <3>2. From(m, name, maps[m])'
      <4>1. CASE a \in Adding
        BY <1>2, <2>1, <2>3, <3>1, <4>1 DEF From
      <4>2. CASE a \in Deleting
        BY <2>1, <2>3, <4>2 DEF From
      <4> QED
        BY <2>3, <4>1, <4>2
    <3>3. ASSUME NEW q \in Reqs, Finished(q, m, name)', Latest(q, m, name)'
          PROVE  Result(q, m, name, maps[m])'
      <4>1. q = r
        <5> SUFFICES ASSUME q # r PROVE FALSE
          OBVIOUS
        <5>1. r \in before'[q]
          BY <3>1, <3>3 DEF Latest
        <5>2. before'[q] = before[q]
          BY BeforeStep
        <5> QED
          BY <2>1, <5>1, <5>2 DEF Preceded
      <4>2. CASE a \in Deleting
        BY <1>2, <2>1, <2>3, <3>1, <4>1, <4>2 DEF Result
      <4>3. CASE a \in Adding
        <5>1. ~Deletes(r, m, name)
          <6> SUFFICES ASSUME Deletes(r, m, name) PROVE FALSE
            OBVIOUS
          <6>1. PICK k \in todo[r] \intersect Deleting : On(r, k, m, name)
            BY <2>1, <2>3, <4>3, DeletesLast
          <6>2. k \in todo'[r] /\ On(r, k, m, name)'
            BY <1>2, <2>1, <3>1, <4>3, <6>1 DEF Adding, Deleting
          <6> QED
            BY <3>3, <4>1, <6>1, <6>2 DEF Finished
        <5> QED
          BY <1>2, <2>1, <2>3, <3>1, <4>1, <4>3, <5>1 DEF Result
      <4> QED
        BY <2>3, <4>2, <4>3
    <3> QED
      BY <3>2, <3>3 DEF MapRight
  <2> QED
    BY <2>2, <2>3
<1> QED
  BY <1>4, <1>5

\* Every step keeps what a response shows, and a response shows the maps.
LEMMA ReplyKept ==
  ASSUME ServerInv, HeaderInv, NEW r \in Reqs, Step(r), NEW p \in Reqs
  PROVE  ReplyRight(p)'
<1> SUFFICES ASSUME Replied(p)'
             PROVE  /\ DOMAIN reply'[p].maps \subseteq MapNames
                    /\ \A m \in DOMAIN reply'[p].maps, name \in Names :
                          /\ From(m, name, reply[p].maps[m])'
                          /\ \A q \in before'[p] \union {p} :
                                 Altering(q, m, name)' /\ Latest(q, m, name)' =>
                                     Result(q, m, name, reply[p].maps[m])'
  BY DEF ReplyRight, MapNames, Names, OfferNames, Offer, Alterations
<1>1. Frame(r) /\ isLambda' = isLambda /\ RequestTypes
  BY InvStep DEF Frame, ServerInv, TypeOK
<1>2. \A q \in Reqs : Executing(q) /\ Preceded(q) /\ ReplyRight(q)
  BY DEF HeaderInv
<1>3. CASE reply'[p] = reply[p]
  <2>1. Replied(p) /\ pc[p] # "idle"
    <3>1. Replied(p)
      BY <1>3 DEF Replied
    <3>2. pc[p] = "idle" => reply[p] = NoReply
      BY DEF ServerInv, ReqInv, Fresh
    <3> QED
      BY <3>1, <3>2 DEF Replied, NoReply
  <2>2. before'[p] = before[p] /\ before[p] \subseteq Reqs
    BY <1>1, <2>1, BeforeStep DEF RequestTypes
  <2>3. ASSUME NEW q \in before[p] \union {p}
        PROVE  q \in Reqs /\ pc[q] # "idle"
    BY <1>2, <2>1, <2>2 DEF Preceded
  <2>4. DOMAIN reply[p].maps \subseteq MapNames
    BY <1>2, <2>1 DEF ReplyRight
  <2>5. ASSUME NEW m \in DOMAIN reply[p].maps, NEW name \in Names
        PROVE  /\ From(m, name, reply[p].maps[m])'
               /\ \A q \in before[p] \union {p} :
                      Altering(q, m, name)' /\ Latest(q, m, name)' =>
                          Result(q, m, name, reply[p].maps[m])'
    <3>1. PICK map : map = reply[p].maps[m] /\ map = reply'[p].maps[m]
      BY <1>3
    <3>2. From(m, name, map)'
      BY <1>2, <2>1, <3>1, AlterationsKept DEF ReplyRight
    <3>3. ASSUME NEW q \in before[p] \union {p}, Altering(q, m, name)', Latest(q, m, name)'
          PROVE  Result(q, m, name, map)'
      <4>1. Altering(q, m, name) /\ Latest(q, m, name)
        BY <2>3, <3>3, AlterationsKept
      <4>2. Result(q, m, name, map)
        BY <1>2, <2>1, <3>1, <4>1 DEF ReplyRight
      <4> QED
        BY <2>3, <4>2, AlterationsKept DEF Result
    <3> QED
      BY <3>1, <3>2, <3>3 DEF From, Result
  <2> QED
    BY <1>3, <2>2, <2>4, <2>5
<1>4. CASE reply'[p] # reply[p]
  <2>1. p = r
    BY <1>1, <1>4 DEF Frame, Same
  <2>2. CASE DOMAIN reply'[p].maps = {}
    BY <2>2
  <2>3. CASE /\ pc[r] = "act" /\ todo[r] = {}
             /\ DOMAIN reply'[r].maps \subseteq MapNames
             /\ \A m \in DOMAIN reply'[r].maps : reply'[r].maps[m] = maps[m]
    <3>1. before'[p] = before[p] /\ before[p] \subseteq Reqs
      BY <1>1, <2>1, <2>3, BeforeStep DEF RequestTypes
    <3>2. ASSUME NEW q \in before[p] \union {p}
          PROVE  q \in Reqs /\ pc[q] # "idle" /\ (q = p \/ pc[q] = "done")
      BY <1>2, <2>1, <2>3, <3>1 DEF Preceded
    <3>3. ASSUME NEW m \in DOMAIN reply'[p].maps, NEW name \in Names
          PROVE  /\ From(m, name, reply[p].maps[m])'
                 /\ \A q \in before[p] \union {p} :
                        Altering(q, m, name)' /\ Latest(q, m, name)' =>
                            Result(q, m, name, reply[p].maps[m])'
      <4>1. PICK map : map = maps[m] /\ map = reply'[p].maps[m]
        BY <2>1, <2>3
      <4>2. m \in MapNames /\ MapRight(m, name)
        BY <2>1, <2>3 DEF HeaderInv
      <4>3. From(m, name, map)'
        BY <4>1, <4>2, AlterationsKept DEF MapRight
      <4>4. ASSUME NEW q \in before[p] \union {p}, Altering(q, m, name)', Latest(q, m, name)'
            PROVE  Result(q, m, name, map)'
        <5>1. Altering(q, m, name) /\ Latest(q, m, name)
          BY <3>2, <4>4, AlterationsKept
        <5>2. todo[q] = {} /\ pc[q] \notin {"idle", "accepted", "render"}
          <6>1. CASE q = p
            BY <2>1, <2>3, <6>1
          <6>2. CASE pc[q] = "done"
            BY <1>2, <3>2, <5>1, <6>2, AltersArrived DEF Executing
          <6> QED
            BY <3>2, <6>1, <6>2
        <5>3. Finished(q, m, name)
          BY <5>2 DEF Finished
        <5>4. Result(q, m, name, map)
          BY <3>2, <4>1, <4>2, <5>1, <5>3 DEF MapRight
        <5> QED
          BY <3>2, <5>4, AlterationsKept DEF Result
      <4> QED
        BY <4>1, <4>3, <4>4 DEF From, Result
    <3> QED
      BY <2>1, <2>3, <3>1, <3>3
  <2> QED
    BY <1>4, <2>1, <2>2, <2>3, ReplyMaps
<1> QED
  BY <1>3, <1>4

\* HeaderInv says what HeaderLasts does.
LEMMA HeaderInvLasts ==
  ASSUME ServerInv, HeaderInv
  PROVE  HeaderLasts
<1>1. ASSUME NEW r \in Reqs, Replied(r), NEW m \in DOMAIN reply[r].maps, NEW name \in Names
      PROVE  LET alters == {q \in Reqs : Adds(q, m, name) \/ Deletes(q, m, name)}
                 shown == name \in DOMAIN reply[r].maps[m]
             IN  /\ shown => \E q \in alters :
                                 /\ Adds(q, m, name)
                                 /\ reply[r].maps[m][name] = Added(q, m)
                 /\ \A q \in alters \intersect (before[r] \union {r}) :
                        (\A p \in alters \ {q} : p \in before[q]) =>
                            IF Deletes(q, m, name)
                            THEN ~shown
                            ELSE shown /\ reply[r].maps[m][name] = Added(q, m)
  <2>1. ReplyRight(r)
    BY DEF HeaderInv
  <2>2. From(m, name, reply[r].maps[m])
    BY <1>1, <2>1 DEF ReplyRight
  <2>3. ASSUME NEW q \in Reqs \intersect (before[r] \union {r}),
               Altering(q, m, name), Latest(q, m, name)
        PROVE  Result(q, m, name, reply[r].maps[m])
    BY <1>1, <2>1, <2>3 DEF ReplyRight
  <2> QED
    BY <2>2, <2>3 DEF From, Result, Latest, Altering
<1> QED
  BY <1>1 DEF HeaderLasts

\* At the start no map has a header.
LEMMA HeaderInit == Init => HeaderInv
<1> SUFFICES ASSUME Init PROVE HeaderInv
  OBVIOUS
<1>1. ASSUME NEW r \in Reqs
      PROVE  /\ pc[r] = "idle" /\ what[r] = "" /\ before[r] = {} /\ ~Replied(r)
  BY DEF Init, Replied, NoReply
<1>2. ASSUME NEW m \in MapNames
      PROVE  DOMAIN maps[m] = {}
  <2>1. maps[m] = <<>>
    BY DEF Init
  <2> QED
    BY <2>1
<1> QED
  BY <1>1, <1>2 DEF HeaderInv, Executing, Preceded, ReplyRight, MapRight, From, Finished

\* They are always as the latest request left them.
LEMMA HeaderAlways == Spec => []HeaderInv
<1>1. ASSUME ServerInv, HeaderInv, NEW r \in Reqs, Step(r)
      PROVE  HeaderInv'
  <2>1. \A q \in Reqs : Executing(q) /\ Preceded(q)
    BY <1>1 DEF HeaderInv
  <2>2. \A q \in Reqs : Executing(q)' /\ Preceded(q)'
    BY <1>1, <2>1, RequestsKept
  <2>3. \A q \in Reqs : ReplyRight(q)'
    BY <1>1, ReplyKept
  <2>4. \A m \in MapNames, name \in Names : MapRight(m, name)'
    BY <1>1, <2>1, MapKept DEF HeaderInv
  <2> QED
    BY <2>2, <2>3, <2>4 DEF HeaderInv
<1>2. ASSUME ServerInv, HeaderInv, UNCHANGED vars
      PROVE  HeaderInv'
  <2>1. /\ isLambda' = isLambda /\ what' = what /\ pc' = pc /\ todo' = todo
        /\ reply' = reply /\ before' = before /\ maps' = maps
    BY <1>2 DEF vars, requestVars
  <2>2. ASSUME NEW q \in Reqs
        PROVE  SameRequest(q)
    BY <2>1 DEF SameRequest, Req, Kind, Proto, Cmds
  <2>3. ASSUME NEW m, NEW name, NEW q \in Reqs
        PROVE  /\ Adds(q, m, name)' <=> Adds(q, m, name)
               /\ Deletes(q, m, name)' <=> Deletes(q, m, name)
               /\ Added(q, m)' = Added(q, m)
               /\ \A k : On(q, k, m, name)' <=> On(q, k, m, name)
               /\ Executes(q)' <=> Executes(q)
    BY <2>1, <2>2, AltersLasts
  <2>4. ASSUME NEW m, NEW name, NEW q \in Reqs
        PROVE  /\ Altering(q, m, name)' <=> Altering(q, m, name)
               /\ Finished(q, m, name)' <=> Finished(q, m, name)
               /\ \A map : Result(q, m, name, map)' <=> Result(q, m, name, map)
    BY <2>1, <2>3 DEF Altering, Finished, Result
  <2>5. ASSUME NEW m, NEW name, NEW q \in Reqs
        PROVE  /\ Latest(q, m, name)' <=> Latest(q, m, name)
               /\ \A map : From(m, name, map)' <=> From(m, name, map)
    BY <2>1, <2>3, <2>4 DEF Latest, From
  <2>6. ASSUME NEW q \in Reqs
        PROVE  Executing(q)' /\ Preceded(q)' /\ ReplyRight(q)'
    <3>1. Executing(q) /\ Preceded(q) /\ ReplyRight(q)
      BY <1>2 DEF HeaderInv
    <3>2. Executing(q)' /\ Preceded(q)'
      BY <2>1, <2>2, <2>3, <3>1 DEF Executing, Preceded, SameRequest
    <3>3. ReplyRight(q)'
      <4>1. ASSUME Replied(q), NEW m \in DOMAIN reply[q].maps, NEW name \in Names
            PROVE  /\ From(m, name, reply[q].maps[m])'
                   /\ \A p \in (before[q] \union {q}) \intersect Reqs :
                          Altering(p, m, name)' /\ Latest(p, m, name)' =>
                              Result(p, m, name, reply[q].maps[m])'
        <5>1. PICK map : map = reply[q].maps[m]
          OBVIOUS
        <5>2. From(m, name, map)'
          BY <2>5, <3>1, <4>1, <5>1 DEF ReplyRight
        <5>3. \A p \in (before[q] \union {q}) \intersect Reqs :
                  Altering(p, m, name)' /\ Latest(p, m, name)' => Result(p, m, name, map)'
          BY <2>4, <2>5, <3>1, <4>1, <5>1 DEF ReplyRight
        <5> QED
          BY <2>1, <5>1, <5>2, <5>3 DEF From, Result
      <4>2. before[q] \subseteq Reqs
        BY <1>2 DEF ServerInv, TypeOK, RequestTypes
      <4>3. Replied(q)' <=> Replied(q)
        BY <2>1 DEF Replied
      <4>4. Replied(q) => DOMAIN reply[q].maps \subseteq MapNames
        BY <3>1 DEF ReplyRight
      <4> QED
        BY <2>1, <4>1, <4>2, <4>3, <4>4 DEF ReplyRight
    <3> QED
      BY <3>2, <3>3
  <2>7. ASSUME NEW m \in MapNames, NEW name \in Names
        PROVE  MapRight(m, name)'
    BY <1>2, <2>1, <2>3, <2>4, <2>5 DEF HeaderInv, MapRight, From, Result
  <2> QED
    BY <2>6, <2>7 DEF HeaderInv
<1>3. ServerInv /\ HeaderInv /\ [Next]_vars => HeaderInv'
  BY <1>1, <1>2 DEF Next, Step
<1> QED
  BY <1>3, HeaderInit, InvAlways, PTL DEF Spec

(***************************************************************************)
(* A header that a request added is in the responses to all later requests *)
(* of its protocol until one replaces or deletes it, and a header that was *)
(* deleted, or that nobody added, is in none (types.go, HeaderMap; main.go,*)
(* execAction; grpc.go, execGrpcAction): for any requests, however their   *)
(* actions interleave.                                                     *)
(***************************************************************************)
THEOREM HeaderAlwaysLasts == Spec => []HeaderLasts
<1>1. ServerInv /\ HeaderInv => HeaderLasts
  BY HeaderInvLasts
<1> QED
  BY <1>1, InvAlways, HeaderAlways, PTL
=============================================================================
