--------------------------- MODULE WebChainProofs ---------------------------
(***************************************************************************)
(* For any requests and any handlers that panic: nobody's handler runs     *)
(* without the password, none runs twice, and the one that runs is the one *)
(* the service broker API names for the request.                           *)
(***************************************************************************)
EXTENDS WebChain, TLAPS, FiniteSetTheorems, SequenceTheorems

Middlewares == {"Logger", "Recovery", "Static", "Auth", "Renderer"}
Answering == {"Catalog", "CreateInstance", "BindInstance", "Unbind", "DeleteInstance", "NotFound"}

LEMMA HandlersAre ==
    /\ Action = 5
    /\ Handlers[1] = "Logger" /\ Handlers[2] = "Recovery" /\ Handlers[3] = "Static"
    /\ Handlers[4] = "Auth" /\ Handlers[5] = "Renderer"
    BY DEF Action, Handlers

LEMMA PatternsAre ==
    /\ DOMAIN Instances = 1 .. 3 /\ Len(Instances) = 3
    /\ Instances[1] = "v2" /\ Instances[2] = "service_instances" /\ Instances[3] = Param
    /\ DOMAIN Bindings = 1 .. 5 /\ Len(Bindings) = 5
    /\ Bindings[1] = "v2" /\ Bindings[2] = "service_instances" /\ Bindings[3] = Param
    /\ Bindings[4] = "service_bindings" /\ Bindings[5] = Param
<1> DEFINE last == <<"service_bindings", Param>>
           Words == {"v2", "service_instances", "service_bindings", Param}
<1>1. /\ Instances \in Seq(Words) /\ Len(Instances) = 3 /\ DOMAIN Instances = 1 .. 3
      /\ Instances[1] = "v2" /\ Instances[2] = "service_instances" /\ Instances[3] = Param
    BY DEF Instances
<1>2. /\ last \in Seq(Words) /\ Len(last) = 2
      /\ last[1] = "service_bindings" /\ last[2] = Param
    OBVIOUS
<1>3. Bindings = Instances \o last
    BY DEF Bindings
<1> HIDE DEF last, Words
<1>4. /\ Bindings \in Seq(Words) /\ Len(Bindings) = 5
      /\ \A i \in 1 .. 5 : Bindings[i] = IF i <= 3 THEN Instances[i] ELSE last[i - 3]
    <2>1. /\ Bindings \in Seq(Words) /\ Len(Bindings) = Len(Instances) + Len(last)
          /\ \A i \in 1 .. Len(Instances) + Len(last) : Bindings[i] =
                 IF i <= Len(Instances) THEN Instances[i] ELSE last[i - Len(Instances)]
        <3>1. Instances \in Seq(Words) /\ last \in Seq(Words)
            BY <1>1, <1>2
        <3> QED
            BY <1>3, <3>1, ConcatProperties, Zenon
    <2>2. Len(Instances) + Len(last) = 5
        BY <1>1, <1>2
    <2> QED
        BY <1>1, <2>1, <2>2
<1>5. DOMAIN Bindings = 1 .. 5
    BY <1>4
<1> QED
    BY <1>1, <1>2, <1>4, <1>5

LEMMA RoutesAre ==
    /\ DOMAIN Routes = 1 .. 5
    /\ Routes[1] = [method |-> "GET", pattern |-> <<"v2", "catalog">>, handler |-> "Catalog"]
    /\ Routes[2] = [method |-> "PUT", pattern |-> Instances, handler |-> "CreateInstance"]
    /\ Routes[3] = [method |-> "PUT", pattern |-> Bindings, handler |-> "BindInstance"]
    /\ Routes[4] = [method |-> "DELETE", pattern |-> Bindings, handler |-> "Unbind"]
    /\ Routes[5] = [method |-> "DELETE", pattern |-> Instances, handler |-> "DeleteInstance"]
    BY DEF Routes

LEMMA NamesAre ==
    /\ RouteHandlers \cup {"NotFound"} = Answering
    /\ Names = Middlewares \cup Answering
<1>1. RouteHandlers = Answering \ {"NotFound"}
    BY RoutesAre DEF RouteHandlers, Answering
<1>2. {Handlers[i] : i \in DOMAIN Handlers} = Middlewares
    <2>1. DOMAIN Handlers = 1 .. 5
        BY DEF Handlers
    <2> QED
        BY <2>1, HandlersAre DEF Middlewares
<1> QED
    BY <1>1, <1>2 DEF Names, RouteHandlers, Answering

----------------------------------------------------------------------------
(* The routes *)

OfInstance(s, n) == Len(s) = n /\ s[1] = "v2" /\ s[2] = "service_instances" /\ s[3] # ""
OfBinding(s) == OfInstance(s, 5) /\ s[4] = "service_bindings" /\ s[5] # ""

\* What a request is matched with, segment by segment.
LEMMA Matched ==
    ASSUME NEW m \in Methods, NEW path \in [segments : Seq(Segments), slash : BOOLEAN]
    PROVE  /\ Match(Routes[1], m, path) <=>
                  m \in {"GET", "HEAD"} /\ path.segments = <<"v2", "catalog">>
           /\ Match(Routes[2], m, path) <=> m = "PUT" /\ OfInstance(path.segments, 3)
           /\ Match(Routes[3], m, path) <=> m = "PUT" /\ OfBinding(path.segments)
           /\ Match(Routes[4], m, path) <=> m = "DELETE" /\ OfBinding(path.segments)
           /\ Match(Routes[5], m, path) <=> m = "DELETE" /\ OfInstance(path.segments, 3)
<1> DEFINE s == path.segments
<1>1. s \in Seq(Segments)
    OBVIOUS
<1>2. Match(Routes[1], m, path) <=> m \in {"GET", "HEAD"} /\ s = <<"v2", "catalog">>
    <2>1. Match(Routes[1], m, path) <=>
              m \in {"GET", "HEAD"} /\ Len(s) = 2 /\ s[1] = "v2" /\ s[2] = "catalog"
        <3> DEFINE q == <<"v2", "catalog">>
        <3>1. DOMAIN q = 1 .. 2 /\ Len(q) = 2 /\ q[1] = "v2" /\ q[2] = "catalog"
            OBVIOUS
        <3> HIDE DEF q
        <3>2. Routes[1].pattern = q /\ Routes[1].method = "GET"
            BY RoutesAre DEF q
        <3>3. MatchMethod(Routes[1], m) <=> m \in {"GET", "HEAD"}
            BY <3>2 DEF MatchMethod
        <3>4. (\A i \in 1 .. 2 : MatchSegment(q[i], s[i])) <=> s[1] = "v2" /\ s[2] = "catalog"
            <4>1. /\ MatchSegment(q[1], s[1]) <=> s[1] = "v2"
                  /\ MatchSegment(q[2], s[2]) <=> s[2] = "catalog"
                BY <3>1 DEF MatchSegment, Param
            <4>2. 1 .. 2 = {1, 2}
                OBVIOUS
            <4> QED
                BY <4>1, <4>2
        <3> QED
            BY <3>1, <3>2, <3>3, <3>4 DEF Match
    <2>2. Len(s) = 2 /\ s[1] = "v2" /\ s[2] = "catalog" <=> s = <<"v2", "catalog">>
        <3> DEFINE q == <<"v2", "catalog">>
        <3>0. "v2" \in Segments /\ "catalog" \in Segments
            BY DEF Segments, Literals
        <3>1. /\ q \in Seq(Segments) /\ Len(q) = 2 /\ q[1] = "v2" /\ q[2] = "catalog"
              /\ 1 .. 2 = {1, 2}
            BY <3>0
        <3> HIDE DEF q
        <3>2. Len(s) = 2 /\ s[1] = "v2" /\ s[2] = "catalog" => s = q
            BY <1>1, <3>1, SeqEqual
        <3> QED
            BY <3>1, <3>2 DEF q
    <2> QED
        BY <2>1, <2>2
<1>3. ASSUME NEW r, r.pattern = Instances
      PROVE  Match(r, m, path) <=> MatchMethod(r, m) /\ Len(s) = 3 /\ s[1] = "v2"
                 /\ s[2] = "service_instances" /\ s[3] # ""
    <2>1. /\ MatchSegment(Instances[1], s[1]) <=> s[1] = "v2"
          /\ MatchSegment(Instances[2], s[2]) <=> s[2] = "service_instances"
          /\ MatchSegment(Instances[3], s[3]) <=> s[3] # ""
        BY PatternsAre DEF MatchSegment, Param
    <2>2. 1 .. 3 = {1, 2, 3}
        OBVIOUS
    <2>3. (\A i \in 1 .. 3 : MatchSegment(Instances[i], s[i])) <=>
              s[1] = "v2" /\ s[2] = "service_instances" /\ s[3] # ""
        BY <2>1, <2>2
    <2> QED
        BY <1>3, <2>3, PatternsAre DEF Match
<1>4. ASSUME NEW r, r.pattern = Bindings
      PROVE  Match(r, m, path) <=> MatchMethod(r, m) /\ Len(s) = 5 /\ s[1] = "v2"
                 /\ s[2] = "service_instances" /\ s[3] # "" /\ s[4] = "service_bindings"
                 /\ s[5] # ""
    <2>1. /\ MatchSegment(Bindings[1], s[1]) <=> s[1] = "v2"
          /\ MatchSegment(Bindings[2], s[2]) <=> s[2] = "service_instances"
          /\ MatchSegment(Bindings[3], s[3]) <=> s[3] # ""
          /\ MatchSegment(Bindings[4], s[4]) <=> s[4] = "service_bindings"
          /\ MatchSegment(Bindings[5], s[5]) <=> s[5] # ""
        BY PatternsAre DEF MatchSegment, Param
    <2>2. 1 .. 5 = {1, 2, 3, 4, 5}
        OBVIOUS
    <2>3. (\A i \in 1 .. 5 : MatchSegment(Bindings[i], s[i])) <=>
              s[1] = "v2" /\ s[2] = "service_instances" /\ s[3] # ""
              /\ s[4] = "service_bindings" /\ s[5] # ""
        BY <2>1, <2>2
    <2> QED
        BY <1>4, <2>3, PatternsAre DEF Match
<1>5. /\ MatchMethod(Routes[2], m) <=> m = "PUT"
      /\ MatchMethod(Routes[3], m) <=> m = "PUT"
      /\ MatchMethod(Routes[4], m) <=> m = "DELETE"
      /\ MatchMethod(Routes[5], m) <=> m = "DELETE"
    BY RoutesAre DEF MatchMethod
<1>6. Routes[2].pattern = Instances /\ Routes[5].pattern = Instances
    BY RoutesAre
<1>7. Routes[3].pattern = Bindings /\ Routes[4].pattern = Bindings
    BY RoutesAre
<1>8. Match(Routes[2], m, path) <=> m = "PUT" /\ Len(s) = 3 /\ s[1] = "v2"
                 /\ s[2] = "service_instances" /\ s[3] # ""
    BY <1>3, <1>5, <1>6
<1>9. Match(Routes[5], m, path) <=> m = "DELETE" /\ Len(s) = 3 /\ s[1] = "v2"
                 /\ s[2] = "service_instances" /\ s[3] # ""
    BY <1>3, <1>5, <1>6
<1>10. Match(Routes[3], m, path) <=> m = "PUT" /\ Len(s) = 5 /\ s[1] = "v2"
                 /\ s[2] = "service_instances" /\ s[3] # "" /\ s[4] = "service_bindings"
                 /\ s[5] # ""
    BY <1>4, <1>5, <1>7
<1>11. Match(Routes[4], m, path) <=> m = "DELETE" /\ Len(s) = 5 /\ s[1] = "v2"
                 /\ s[2] = "service_instances" /\ s[3] # "" /\ s[4] = "service_bindings"
                 /\ s[5] # ""
    BY <1>4, <1>5, <1>7
<1> QED
    BY <1>2, <1>8, <1>9, <1>10, <1>11 DEF OfInstance, OfBinding

LEMMA OneRoute ==
    ASSUME NEW m \in Methods, NEW path \in [segments : Seq(Segments), slash : BOOLEAN],
           NEW i \in 1 .. 5, NEW j \in 1 .. 5,
           Match(Routes[i], m, path), Match(Routes[j], m, path)
    PROVE  i = j
<1> DEFINE s == path.segments
<1>1. /\ Match(Routes[1], m, path) => m \in {"GET", "HEAD"}
      /\ Match(Routes[2], m, path) => m = "PUT" /\ Len(s) = 3
      /\ Match(Routes[3], m, path) => m = "PUT" /\ Len(s) = 5
      /\ Match(Routes[4], m, path) => m = "DELETE" /\ Len(s) = 5
      /\ Match(Routes[5], m, path) => m = "DELETE" /\ Len(s) = 3
    BY Matched DEF OfInstance, OfBinding
<1> HIDE DEF s
<1> DEFINE Fits(k) == Match(Routes[k], m, path)
<1>2. /\ Fits(1) => ~Fits(2) /\ ~Fits(3) /\ ~Fits(4) /\ ~Fits(5)
      /\ Fits(2) => ~Fits(3) /\ ~Fits(4) /\ ~Fits(5)
      /\ Fits(3) => ~Fits(4) /\ ~Fits(5)
      /\ Fits(4) => ~Fits(5)
    BY <1>1
<1>3. Fits(i) /\ Fits(j)
    OBVIOUS
<1>4. i \in {1, 2, 3, 4, 5} /\ j \in {1, 2, 3, 4, 5}
    OBVIOUS
<1> HIDE DEF Fits
<1> QED
    BY <1>2, <1>3, <1>4

LEMMA Disjoint ==
    ASSUME NEW m \in Methods, NEW path \in [segments : Seq(Segments), slash : BOOLEAN]
    PROVE  /\ Cardinality(Matching(m, path)) <= 1
           /\ Matching(m, path) = {} => Handle(m, path) = "NotFound"
           /\ \A i \in Matching(m, path) : Handle(m, path) = Routes[i].handler
<1>1. Matching(m, path) = {} \/ \E i \in 1 .. 5 : Matching(m, path) = {i}
    BY OneRoute, RoutesAre DEF Matching
<1>2. CASE Matching(m, path) = {}
    BY <1>2, FS_EmptySet DEF Handle
<1>3. ASSUME NEW i \in 1 .. 5, Matching(m, path) = {i}
      PROVE  Cardinality(Matching(m, path)) = 1 /\ Handle(m, path) = Routes[i].handler
    <2>1. (CHOOSE k \in {i} : \A j \in {i} : k <= j) = i
        OBVIOUS
    <2> QED
        <3>1. Matching(m, path) # {} /\ Cardinality(Matching(m, path)) = 1
            BY <1>3, FS_Singleton
        <3> QED
            BY <1>3, <2>1, <3>1, Zenon DEF Handle
<1> QED
    BY <1>1, <1>2, <1>3

LEMMA RoutedRight ==
    ASSUME NEW m \in Methods, NEW path \in [segments : Seq(Segments), slash : BOOLEAN],
           request.method = m, request.path = path
    PROVE  Handle(m, path) = Published
<1> DEFINE s == path.segments
           Fits(k) == Match(Routes[k], m, path)
<1>1. /\ Fits(1) <=> m \in {"GET", "HEAD"} /\ s = <<"v2", "catalog">>
      /\ Fits(2) <=> m = "PUT" /\ OfInstance(s, 3)
      /\ Fits(3) <=> m = "PUT" /\ OfBinding(s)
      /\ Fits(4) <=> m = "DELETE" /\ OfBinding(s)
      /\ Fits(5) <=> m = "DELETE" /\ OfInstance(s, 3)
    BY Matched
<1>2. Published = IF Fits(1) THEN "Catalog" ELSE IF Fits(2) THEN "CreateInstance"
                  ELSE IF Fits(3) THEN "BindInstance" ELSE IF Fits(5) THEN "DeleteInstance"
                  ELSE IF Fits(4) THEN "Unbind" ELSE "NotFound"
    BY <1>1 DEF Published, OfInstance, OfBinding
<1>3. \A i \in 1 .. 5 : i \in Matching(m, path) <=> Fits(i)
    BY RoutesAre DEF Matching
<1>4. Matching(m, path) \in SUBSET {1, 2, 3, 4, 5}
    BY RoutesAre DEF Matching
<1>5. /\ Matching(m, path) = {} => Handle(m, path) = "NotFound"
      /\ \A i \in Matching(m, path) : Handle(m, path) = Routes[i].handler
    BY Disjoint
<1>6. \A i, j \in 1 .. 5 : Fits(i) /\ Fits(j) => i = j
    BY OneRoute
<1>7. /\ Routes[1].handler = "Catalog" /\ Routes[2].handler = "CreateInstance"
      /\ Routes[3].handler = "BindInstance" /\ Routes[4].handler = "Unbind"
      /\ Routes[5].handler = "DeleteInstance"
    BY RoutesAre
<1> HIDE DEF Fits
<1>8. CASE \E i \in {1, 2, 3, 4, 5} : Fits(i)
    <2>1. PICK i \in {1, 2, 3, 4, 5} : Fits(i)
        BY <1>8
    <2>2. \A j \in {1, 2, 3, 4, 5} : Fits(j) <=> j = i
        BY <1>6, <2>1
    <2>3. Handle(m, path) = Routes[i].handler
        BY <1>3, <1>5, <2>1
    <2> QED
        BY <1>2, <1>7, <2>1, <2>2, <2>3
<1>9. CASE \A i \in {1, 2, 3, 4, 5} : ~Fits(i)
    <2>1. Matching(m, path) = {}
        BY <1>3, <1>4, <1>9
    <2> QED
        BY <1>2, <1>5, <1>9, <2>1
<1> QED
    BY <1>8, <1>9

LEMMA HandleIsAnswering ==
    ASSUME NEW m \in Methods, NEW path \in [segments : Seq(Segments), slash : BOOLEAN]
    PROVE  Handle(m, path) \in Answering
<1>1. Matching(m, path) \in SUBSET {1, 2, 3, 4, 5}
    BY RoutesAre DEF Matching
<1>2. \A i \in {1, 2, 3, 4, 5} : Routes[i].handler \in Answering
    BY RoutesAre DEF Answering
<1> QED
    BY <1>1, <1>2, Disjoint DEF Answering

----------------------------------------------------------------------------
(* The chain *)

\* Where the loops are: nothing was written while they go forward, and once they
\* return none goes on.
CallsNest ==
    /\ pc \in {"idle", "run"} =>
        /\ index \in 0 .. Action /\ status = 0
        /\ stack = IF index = 0 THEN <<>>
                   ELSE IF index = 1 THEN <<"Logger">> ELSE <<"Logger", "Recovery">>
    /\ pc = "idle" => index = 0
    /\ pc = "write" => index = Action /\ stack = <<"Logger", "Recovery">>
    /\ pc = "return" => (status # 0 \/ index > Action) /\ index + Len(stack) <= Action + 3

\* Nothing from index on has run, and the router runs last.
Untouched ==
    pc \in {"idle", "run"} =>
        /\ \A i \in 1 .. Action : i > index => visited[Handlers[i]] = 0
        /\ \A h \in Answering : visited[h] = 0

\* Auth was passed.
Admitted == pc = "write" \/ (pc = "run" /\ index >= 4) => request.auth = TRUE

\* A handler of the broker was entered only for a client let in, and by its route.
Entered ==
    \A h \in Answering :
        visited[h] > 0 =>
            request.auth = TRUE /\ h = Handle(request.method, request.path)

ChainInv == TypeOK /\ CallsNest /\ Untouched /\ Admitted /\ Entered /\ HandlersRunOnce

LEMMA RequestTyped ==
    ASSUME TypeOK
    PROVE  /\ request.method \in Methods /\ request.auth \in BOOLEAN
           /\ request.path \in [segments : Seq(Segments), slash : BOOLEAN]
    BY WebChainAssumption DEF TypeOK

LEMMA InitChain == Init => ChainInv
<1> SUFFICES ASSUME Init PROVE ChainInv
    OBVIOUS
<1>1. TypeOK
    BY HandlersAre DEF Init, TypeOK, Codes
<1>2. \A h \in Names : visited[h] = 0
    BY DEF Init
<1>3. Untouched /\ Entered /\ HandlersRunOnce
    BY <1>2, NamesAre, HandlersAre DEF Init, Untouched, Entered, HandlersRunOnce, Middlewares
<1>4. CallsNest /\ Admitted
    BY HandlersAre DEF Init, CallsNest, Admitted
<1> QED
    BY <1>1, <1>3, <1>4 DEF ChainInv

\* Entering a handler that was not entered before.
LEMMA EnterEffect ==
    ASSUME ChainInv, NEW h \in Names, visited[h] = 0, Enter(h)
    PROVE  /\ visited' \in [Names -> 0 .. 2] /\ HandlersRunOnce'
           /\ visited'[h] = 1 /\ \A g \in Names : g # h => visited'[g] = visited[g]
    BY DEF ChainInv, TypeOK, Enter, HandlersRunOnce

LEMMA ReachedIs ==
    ASSUME ChainInv, NEW i \in 1 .. 5, Reached(Handlers[i])
    PROVE  /\ pc = "run" /\ index = i - 1 /\ status = 0
           /\ Handlers[i] \in Names /\ Handlers[i] \in Middlewares /\ visited[Handlers[i]] = 0
<1>1. pc = "run" /\ index \in 0 .. 4 /\ Handlers[index + 1] = Handlers[i] /\ status = 0
    BY HandlersAre DEF ChainInv, CallsNest, Reached
<1>2. index + 1 \in {1, 2, 3, 4, 5} /\ i \in {1, 2, 3, 4, 5}
    BY <1>1
<1>3. index + 1 = i
    BY <1>1, <1>2, HandlersAre
<1>4. Handlers[i] \in Middlewares
    BY <1>2, HandlersAre DEF Middlewares
<1> QED
    BY <1>1, <1>3, <1>4, NamesAre, HandlersAre DEF ChainInv, Untouched

LEMMA KeepsCallNext ==
    ASSUME ChainInv, NEW i \in {1, 2}, CallNext(Handlers[i])
    PROVE  ChainInv'
<1>1. /\ pc = "run" /\ index = i - 1 /\ status = 0 /\ Handlers[i] \in Names
      /\ Handlers[i] \in Middlewares /\ visited[Handlers[i]] = 0
    BY ReachedIs DEF CallNext
<1>2. /\ index' = i /\ Enter(Handlers[i]) /\ stack' = Append(stack, Handlers[i])
      /\ UNCHANGED <<request, pc, pending, status, wire, logged>>
    BY <1>1 DEF CallNext
<1>3. /\ visited' \in [Names -> 0 .. 2] /\ HandlersRunOnce' /\ visited'[Handlers[i]] = 1
      /\ \A g \in Names : g # Handlers[i] => visited'[g] = visited[g]
    BY <1>1, <1>2, EnterEffect
<1>4. stack' = IF i = 1 THEN <<"Logger">> ELSE <<"Logger", "Recovery">>
    <2>1. stack = IF i = 1 THEN <<>> ELSE <<"Logger">>
        BY <1>1 DEF ChainInv, CallsNest
    <2> QED
        BY <1>2, <2>1, HandlersAre
<1>5. TypeOK'
    BY <1>1, <1>2, <1>3, <1>4, HandlersAre DEF ChainInv, TypeOK
<1>6. CallsNest' /\ Admitted'
    BY <1>1, <1>2, <1>4, HandlersAre DEF ChainInv, CallsNest, Admitted
<1>7. Untouched'
    <2>1. \A h \in Answering : visited'[h] = 0
        BY <1>1, <1>3, NamesAre DEF ChainInv, Untouched, Answering, Middlewares
    <2>2. ASSUME NEW j \in 1 .. Action, j > i PROVE visited'[Handlers[j]] = 0
        <3>1. /\ j \in {1, 2, 3, 4, 5} /\ Handlers[j] \in Names /\ Handlers[j] # Handlers[i]
              /\ visited[Handlers[j]] = 0
            BY <1>1, <2>2, HandlersAre, NamesAre DEF Middlewares, ChainInv, Untouched
        <3> QED
            BY <1>3, <3>1
    <2> QED
        BY <1>2, <2>1, <2>2 DEF Untouched
<1>8. Entered'
    BY <1>1, <1>2, <1>3, NamesAre DEF ChainInv, Entered, Answering, Middlewares
<1> QED
    BY <1>3, <1>5, <1>6, <1>7, <1>8 DEF ChainInv

LEMMA KeepsMiddleware ==
    ASSUME ChainInv, NEW i \in {3, 4, 5}, NEW c \in Codes \cup {0},
           Middleware(Handlers[i], c), i = 4 /\ c = 0 => request.auth = TRUE
    PROVE  ChainInv'
<1>1. /\ pc = "run" /\ index = i - 1 /\ status = 0 /\ Handlers[i] \in Names
      /\ Handlers[i] \in Middlewares /\ visited[Handlers[i]] = 0
    BY ReachedIs DEF Middleware
<1>2. /\ index' = i /\ Enter(Handlers[i])
      /\ UNCHANGED <<request, stack, pending, logged>>
    BY <1>1 DEF Middleware, Loop
<1>3. /\ visited' \in [Names -> 0 .. 2] /\ HandlersRunOnce' /\ visited'[Handlers[i]] = 1
      /\ \A g \in Names : g # Handlers[i] => visited'[g] = visited[g]
    BY <1>1, <1>2, EnterEffect
<1>4. /\ status' = c /\ wire' \in {wire, c} /\ pc' = IF c # 0 THEN "return" ELSE "run"
      /\ stack = <<"Logger", "Recovery">>
    <2>1. CASE c = 0
        BY <1>1, <2>1, HandlersAre DEF Middleware, Loop, ChainInv, CallsNest
    <2>2. CASE c # 0
        BY <1>1, <2>2, HandlersAre DEF Middleware, Loop, WriteHeader, ChainInv, CallsNest
    <2> QED
        BY <2>1, <2>2
<1>5. TypeOK'
    BY <1>1, <1>2, <1>3, <1>4, HandlersAre DEF ChainInv, TypeOK
<1>6. CallsNest'
    BY <1>1, <1>2, <1>4, HandlersAre DEF ChainInv, CallsNest
<1>7. Admitted'
    BY <1>1, <1>2, <1>4 DEF ChainInv, Admitted
<1>8. Untouched'
    <2>1. \A h \in Answering : visited'[h] = 0
        BY <1>1, <1>3, NamesAre DEF ChainInv, Untouched, Answering, Middlewares
    <2>2. ASSUME NEW j \in 1 .. Action, j > i PROVE visited'[Handlers[j]] = 0
        <3>1. /\ j \in {1, 2, 3, 4, 5} /\ Handlers[j] \in Names /\ Handlers[j] # Handlers[i]
              /\ visited[Handlers[j]] = 0
            BY <1>1, <2>2, HandlersAre, NamesAre DEF Middlewares, ChainInv, Untouched
        <3> QED
            BY <1>3, <3>1
    <2> QED
        BY <1>2, <2>1, <2>2 DEF Untouched
<1>9. Entered'
    BY <1>1, <1>2, <1>3, NamesAre DEF ChainInv, Entered, Answering, Middlewares
<1> QED
    BY <1>3, <1>5, <1>6, <1>7, <1>8, <1>9 DEF ChainInv

LEMMA KeepsRouteTo ==
    ASSUME ChainInv, RouteTo
    PROVE  ChainInv'
<1> DEFINE h == Handle(request.method, request.path)
<1>1. /\ pc = "run" /\ index = Action /\ status = 0
      /\ stack = <<"Logger", "Recovery">> /\ request.auth = TRUE
    BY HandlersAre DEF RouteTo, ChainInv, CallsNest, Admitted
<1>2. h \in Answering /\ h \in Names /\ visited[h] = 0
    BY <1>1, RequestTyped, HandleIsAnswering, NamesAre DEF ChainInv, Untouched
<1>3. /\ Enter(h) /\ pending' \in Answers(h) /\ pc' = "write"
      /\ UNCHANGED <<request, index, stack, status, wire, logged>>
    BY DEF RouteTo
<1> HIDE DEF h
<1>4. /\ visited' \in [Names -> 0 .. 2] /\ HandlersRunOnce' /\ visited'[h] = 1
      /\ \A g \in Names : g # h => visited'[g] = visited[g]
    BY <1>2, <1>3, EnterEffect
<1>5. pending' \in Seq(Codes)
    <2> DEFINE S == Seq(Codes)
    <2>1. \A x : \A c \in Codes : x = <<c>> => x \in S
        OBVIOUS
    <2>2. \A x : \A c, d \in Codes : x = <<c, d>> => x \in S
        OBVIOUS
    <2>3. {200, 201, 409, 500, 404} \subseteq Codes
        BY DEF Codes
    <2>4. \/ pending' = <<200>> \/ pending' = <<201>> \/ pending' = <<409>>
          \/ pending' = <<500>> \/ pending' = <<404>> \/ pending' = <<500, 201>>
        BY <1>2, <1>3 DEF Answers, Answering
    <2> HIDE DEF S
    <2>5. pending' \in S
        BY <2>1, <2>2, <2>3, <2>4
    <2> QED
        BY <2>5 DEF S
<1>6. TypeOK'
    BY <1>1, <1>3, <1>4, <1>5, HandlersAre DEF ChainInv, TypeOK
<1>7. CallsNest' /\ Untouched' /\ Admitted'
    BY <1>1, <1>3 DEF CallsNest, Untouched, Admitted
<1>8. Entered'
    <2>1. h = Handle(request.method, request.path)'
        BY <1>3 DEF h
    <2> QED
        BY <1>1, <1>2, <1>3, <1>4, <2>1, NamesAre DEF ChainInv, Entered, Untouched
<1> QED
    BY <1>4, <1>6, <1>7, <1>8 DEF ChainInv

LEMMA KeepsJSON ==
    ASSUME ChainInv, JSON
    PROVE  ChainInv'
<1>1. /\ pc = "write" /\ pending # <<>> /\ pending \in Seq(Codes)
      /\ status' = Head(pending) /\ wire' \in {wire, Head(pending)} /\ pending' = Tail(pending)
      /\ UNCHANGED <<request, pc, index, stack, visited, logged>>
    BY DEF JSON, WriteHeader, ChainInv, TypeOK
<1>2. Head(pending) \in Codes /\ Tail(pending) \in Seq(Codes)
    BY <1>1
<1>3. TypeOK'
    BY <1>1, <1>2 DEF ChainInv, TypeOK
<1> QED
    BY <1>1, <1>3 DEF ChainInv, CallsNest, Untouched, Admitted, Entered, HandlersRunOnce

LEMMA KeepsHandlerReturns ==
    ASSUME ChainInv, HandlerReturns
    PROVE  ChainInv'
<1>1. /\ pc = "write" /\ index = 5 /\ stack = <<"Logger", "Recovery">>
      /\ index' = 6 /\ pc' = "return"
      /\ UNCHANGED <<request, stack, visited, pending, status, wire, logged>>
    BY HandlersAre DEF HandlerReturns, Loop, ChainInv, CallsNest
<1>2. TypeOK'
    BY <1>1, HandlersAre DEF ChainInv, TypeOK
<1>3. CallsNest'
    BY <1>1, HandlersAre DEF CallsNest
<1> QED
    BY <1>1, <1>2, <1>3 DEF ChainInv, Untouched, Admitted, Entered, HandlersRunOnce

LEMMA KeepsPanic ==
    ASSUME ChainInv, Panic
    PROVE  ChainInv'
<1>1. index \in {4, 5}
    <2>1. CASE pc = "write"
        BY <2>1, HandlersAre DEF ChainInv, CallsNest
    <2>2. CASE Reached("Renderer")
        BY <2>2, ReachedIs, HandlersAre
    <2> QED
        BY <2>1, <2>2 DEF Panic
<1>2. /\ index' = index + 1 /\ pc' = "return" /\ stack' = <<"Logger">> /\ pending' = <<>>
      /\ status' = 500 /\ wire' \in {wire, 500}
      /\ UNCHANGED <<request, visited, logged>>
    BY DEF Panic, Loop, WriteHeader
<1>3. TypeOK'
    BY <1>1, <1>2, HandlersAre DEF ChainInv, TypeOK, Codes
<1>4. CallsNest'
    BY <1>1, <1>2, HandlersAre DEF CallsNest
<1> QED
    BY <1>2, <1>3, <1>4 DEF ChainInv, Untouched, Admitted, Entered, HandlersRunOnce

LEMMA KeepsReturn ==
    ASSUME ChainInv, Return
    PROVE  ChainInv'
<1>1. /\ pc = "return" /\ stack \in {<<"Logger">>, <<"Logger", "Recovery">>}
      /\ index \in 0 .. 12 /\ index + Len(stack) <= 8 /\ (status # 0 \/ index > 5)
    BY HandlersAre DEF Return, ChainInv, TypeOK, CallsNest
<1>2. /\ index' = index + 1 /\ pc' = "return" /\ logged' \in {logged, status}
      /\ UNCHANGED <<request, visited, pending, status, wire>>
    BY <1>1, HandlersAre DEF Return, Loop
<1>3. /\ stack' = IF stack = <<"Logger">> THEN <<>> ELSE <<"Logger">>
      /\ Len(stack') = Len(stack) - 1 /\ Len(stack) \in 1 .. 2
    BY <1>1 DEF Return
<1>4. TypeOK'
    BY <1>1, <1>2, <1>3, HandlersAre DEF ChainInv, TypeOK
<1>5. CallsNest'
    <2>1. index' + Len(stack') <= 8 /\ (status' # 0 \/ index' > 5)
        BY <1>1, <1>2, <1>3
    <2> QED
        BY <1>2, <2>1, HandlersAre DEF CallsNest
<1> QED
    BY <1>2, <1>4, <1>5 DEF ChainInv, Untouched, Admitted, Entered, HandlersRunOnce

LEMMA NextChain == ChainInv /\ [Next]_vars => ChainInv'
<1> SUFFICES ASSUME ChainInv, [Next]_vars PROVE ChainInv'
    OBVIOUS
<1>1. CASE ServeHTTP
    <2>1. /\ pc = "idle" /\ pc' = "run"
          /\ UNCHANGED <<request, index, stack, visited, pending, status, wire, logged>>
        BY <1>1 DEF ServeHTTP
    <2>2. TypeOK' /\ CallsNest' /\ Untouched'
        BY <2>1 DEF ChainInv, TypeOK, CallsNest, Untouched
    <2>3. Admitted'
        BY <2>1 DEF ChainInv, CallsNest, Admitted
    <2> QED
        BY <2>1, <2>2, <2>3 DEF ChainInv, Entered, HandlersRunOnce
<1>2. CASE Logger \/ Recovery
    BY <1>2, KeepsCallNext, HandlersAre DEF Logger, Recovery
<1>3. CASE Static
    <2> DEFINE c == IF request.method \notin {"GET", "HEAD"} \/ request.static = "none" THEN 0
                    ELSE IF request.static = "dir" /\ ~request.path.slash THEN 302 ELSE 200
    <2>1. c \in Codes \cup {0} /\ Middleware(Handlers[3], c)
        BY <1>3, HandlersAre DEF Static, Codes
    <2> HIDE DEF c
    <2> QED
        BY <2>1, KeepsMiddleware
<1>4. CASE Auth
    <2> DEFINE c == IF request.auth THEN 0 ELSE 401
    <2>1. c \in Codes \cup {0} /\ Middleware(Handlers[4], c)
        BY <1>4, HandlersAre DEF Auth, Codes
    <2>2. c = 0 => request.auth = TRUE
        BY RequestTyped DEF ChainInv
    <2> HIDE DEF c
    <2> QED
        BY <2>1, <2>2, KeepsMiddleware
<1>5. CASE Renderer
    BY <1>5, KeepsMiddleware, HandlersAre DEF Renderer
<1>6. CASE RouteTo \/ JSON \/ HandlerReturns \/ Panic \/ Return
    BY <1>6, KeepsRouteTo, KeepsJSON, KeepsHandlerReturns, KeepsPanic, KeepsReturn
<1>7. CASE Finish
    <2>1. /\ pc' = "done"
          /\ UNCHANGED <<request, index, stack, visited, pending, status, wire, logged>>
        BY <1>7 DEF Finish
    <2> QED
        BY <2>1 DEF ChainInv, TypeOK, CallsNest, Untouched, Admitted, Entered, HandlersRunOnce
<1>8. CASE UNCHANGED vars
    BY <1>8 DEF vars, ChainInv, TypeOK, CallsNest, Untouched, Admitted, Entered, HandlersRunOnce
<1> QED
    BY <1>1, <1>2, <1>3, <1>4, <1>5, <1>6, <1>7, <1>8 DEF Next, Serve

LEMMA ChainInvariant == Spec => []ChainInv
    BY InitChain, NextChain, PTL DEF Spec

\* The calls of Next nest no deeper than Logger and Recovery, and only codes of the
\* handlers are written.
THEOREM ChainTypeCorrect == Spec => []TypeOK
<1>1. ChainInv => TypeOK
    BY DEF ChainInv
<1> QED
    BY <1>1, ChainInvariant, PTL

\* For any request and whatever panics, no handler of the broker is entered without the
\* password.
THEOREM HandlersStayAuthenticated == Spec => []HandlersAuthenticated
<1>1. ChainInv => HandlersAuthenticated
    BY NamesAre DEF ChainInv, Entered, HandlersAuthenticated
<1> QED
    BY <1>1, ChainInvariant, PTL

\* No handler runs twice for one request.
THEOREM HandlersStayRunOnce == Spec => []HandlersRunOnce
<1>1. ChainInv => HandlersRunOnce
    BY DEF ChainInv
<1> QED
    BY <1>1, ChainInvariant, PTL

\* No path of any length matches two routes.
THEOREM RoutesStayDisjoint == Spec => []RoutesAreDisjoint
<1>1. ChainInv => RoutesAreDisjoint
    BY RequestTyped, Disjoint DEF ChainInv, RoutesAreDisjoint
<1> QED
    BY <1>1, ChainInvariant, PTL

\* Whatever its path, a request enters the handler the service broker API names for it,
\* and no other.
THEOREM RequestsRoutedAsPublished == Spec => []RoutedAsPublished
<1>1. ChainInv => RoutedAsPublished
    <2> SUFFICES ASSUME ChainInv PROVE RoutedAsPublished
        OBVIOUS
    <2>1. Handle(request.method, request.path) = Published
        BY RequestTyped, RoutedRight DEF ChainInv
    <2> QED
        BY <2>1, NamesAre DEF ChainInv, Entered, RoutedAsPublished
<1> QED
    BY <1>1, ChainInvariant, PTL

=============================================================================
