------------------------------ MODULE WebChain ------------------------------
(***************************************************************************)
(* One request on its way through martini: the middleware of Classic and   *)
(* App in the order it was added, the router as the last handler, and the  *)
(* response writer that remembers what was written.  context.run is a loop *)
(* that a middleware re-enters by calling Next, so the calls nest: stack   *)
(* holds the middleware whose Next has not returned.                       *)
(***************************************************************************)
EXTENDS Router, FiniteSets

CONSTANTS
    Requests,    \* [method, path, auth, static] of the requests that arrive
    Panicking    \* handlers that may panic before they write

ASSUME WebChainAssumption ==
    \A r \in Requests :
        r \in [method : Methods, path : [segments : Seq(Segments), slash : BOOLEAN],
              auth : BOOLEAN, static : {"none", "file", "dir"}]

VARIABLES
    request,   \* the one being served
    pc,        \* "idle", "run" (the loop of context.run), "write", "return", "done"
    index,     \* context.index
    stack,     \* who called Next, outermost first
    visited,   \* how often each handler was entered
    pending,   \* status codes the router's handler has still to write
    status,    \* responseWriter.status
    wire,      \* the status net/http sends: the first one written
    logged     \* what Logger writes when the request is completed

vars == <<request, pc, index, stack, visited, pending, status, wire, logged>>

Handlers == <<"Logger", "Recovery", "Static", "Auth", "Renderer">>
Action == Len(Handlers)

\* The status codes a route's handler writes, one JSON call each.
Answers(h) ==
    CASE h = "Catalog"        -> {<<200>>}
      [] h = "CreateInstance" -> {<<201>>, <<409>>, <<500>>}
      [] h = "BindInstance"   -> {<<201>>, <<404>>, <<500, 201>>}
      [] h = "Unbind"         -> {<<200>>}
      [] h = "DeleteInstance" -> {<<200>>, <<404>>}
      [] h = "NotFound"       -> {<<404>>}

Names == {Handlers[i] : i \in DOMAIN Handlers} \cup {Routes[i].handler : i \in DOMAIN Routes}
         \cup {"NotFound"}
Codes == {200, 201, 302, 401, 404, 409, 500}

TypeOK ==
    /\ request \in Requests
    /\ pc \in {"idle", "run", "write", "return", "done"}
    /\ index \in 0 .. 2 * (Action + 1)
    /\ stack \in {<<>>, <<"Logger">>, <<"Logger", "Recovery">>}
    /\ visited \in [Names -> 0 .. 2]
    /\ pending \in Seq(Codes)
    /\ {status, wire, logged} \subseteq Codes \cup {0}

\* Every request has a context and a response writer of its own.
Init ==
    /\ request \in Requests /\ pc = "idle"
    /\ index = 0 /\ stack = <<>> /\ visited = [h \in Names |-> 0]
    /\ pending = <<>> /\ status = 0 /\ wire = 0 /\ logged = 0

ServeHTTP ==
    /\ pc = "idle"
    /\ pc' = "run"
    /\ UNCHANGED <<request, index, stack, visited, pending, status, wire, logged>>

----------------------------------------------------------------------------

Enter(h) == visited' = [visited EXCEPT ![h] = @ + 1]

Reached(h) == pc = "run" /\ index < Action /\ Handlers[index + 1] = h

\* responseWriter.WriteHeader: the last code is remembered, the first is sent.
WriteHeader(s) ==
    /\ status' = s
    /\ wire' = IF wire = 0 THEN s ELSE wire

\* Mutant: the loop goes on after a handler has written.
LoopOn(i, s) ==
    /\ index' = i + 1
    /\ pc' = IF i + 1 > Action THEN "return" ELSE "run"

\* The loop of context.run after a handler that left the status at s.
Loop(i, s) ==
    /\ index' = i + 1
    /\ pc' = IF s # 0 \/ i + 1 > Action THEN "return" ELSE "run"

\* context.Next: count on and run the rest.
CallNext(h) ==
    /\ Reached(h)
    /\ Enter(h)
    /\ stack' = Append(stack, h)
    /\ index' = index + 1
    /\ UNCHANGED <<request, pc, pending, status, wire, logged>>

Logger == CallNext("Logger")
Recovery == CallNext("Recovery")

\* A middleware that writes the code s, or nothing when s is 0.
Middleware(h, s) ==
    /\ Reached(h)
    /\ Enter(h)
    /\ IF s = 0 THEN UNCHANGED <<status, wire>> ELSE WriteHeader(s)
    /\ Loop(index, IF s = 0 THEN status ELSE s)
    /\ UNCHANGED <<request, stack, pending, logged>>

\* Files of public/ are served before anybody is authenticated; a directory
\* without the final slash is redirected.
Static ==
    Middleware("Static",
        IF request.method \notin {"GET", "HEAD"} \/ request.static = "none" THEN 0
        ELSE IF request.static = "dir" /\ ~request.path.slash THEN 302 ELSE 200)

Auth == Middleware("Auth", IF request.auth THEN 0 ELSE 401)

Renderer == Middleware("Renderer", 0)

\* router.Handle: the handler of the route, which decides what it writes.
RouteTo ==
    LET h == Handle(request.method, request.path) IN
    /\ pc = "run" /\ index = Action
    /\ Enter(h)
    /\ pending' \in Answers(h)
    /\ pc' = "write"
    /\ UNCHANGED <<request, index, stack, status, wire, logged>>

\* renderer.JSON
JSON ==
    /\ pc = "write" /\ pending # <<>>
    /\ WriteHeader(Head(pending))
    /\ pending' = Tail(pending)
    /\ UNCHANGED <<request, pc, index, stack, visited, logged>>

HandlerReturns ==
    /\ pc = "write" /\ pending = <<>>
    /\ Loop(index, status)
    /\ UNCHANGED <<request, stack, visited, pending, status, wire, logged>>

\* Mutant: Recovery logs the panic and answers nothing.
PanicSilently ==
    /\ \/ pc = "write" /\ status = 0 /\ Handle(request.method, request.path) \in Panicking
       \/ Reached("Renderer") /\ "Renderer" \in Panicking
    /\ stack' = <<"Logger">>
    /\ pending' = <<>>
    /\ Loop(index, status)
    /\ UNCHANGED <<request, visited, status, wire, logged>>

\* A panic unwinds the calls down to Recovery, which writes a 500 and returns to
\* the loop that called it.
Panic ==
    /\ \/ pc = "write" /\ status = 0 /\ Handle(request.method, request.path) \in Panicking
       \/ Reached("Renderer") /\ "Renderer" \in Panicking
    /\ stack' = <<"Logger">>
    /\ pending' = <<>>
    /\ WriteHeader(500)
    /\ Loop(index, 500)
    /\ UNCHANGED <<request, visited, logged>>

\* Mutant: a loop that was left runs its handler again.
ReturnAgain ==
    /\ pc = "return" /\ stack # <<>>
    /\ logged' = IF stack[Len(stack)] = "Logger" THEN status ELSE logged
    /\ stack' = SubSeq(stack, 1, Len(stack) - 1)
    /\ Loop(Len(stack) - 2, 0)
    /\ UNCHANGED <<request, visited, pending, status, wire>>

\* run returns into the middleware that called Next, which returns to its loop.
Return ==
    /\ pc = "return" /\ stack # <<>>
    /\ logged' = IF stack[Len(stack)] = "Logger" THEN status ELSE logged
    /\ stack' = SubSeq(stack, 1, Len(stack) - 1)
    /\ Loop(index, status)
    /\ UNCHANGED <<request, visited, pending, status, wire>>

Finish ==
    /\ pc = "return" /\ stack = <<>>
    /\ pc' = "done"
    /\ UNCHANGED <<request, index, stack, visited, pending, status, wire, logged>>

Serve ==
    \/ Logger \/ Recovery \/ Static \/ Auth \/ Renderer
    \/ RouteTo \/ JSON \/ HandlerReturns \/ Panic \/ Return \/ Finish

Next == ServeHTTP \/ Serve

Fairness == WF_vars(Serve)

Spec == Init /\ [][Next]_vars /\ Fairness

----------------------------------------------------------------------------

RouteHandlers == {Routes[i].handler : i \in DOMAIN Routes}

\* No handler of the broker is entered without the password, although Auth does
\* not stop the chain itself: it only writes.
HandlersAuthenticated ==
    \A h \in RouteHandlers \cup {"NotFound"} : visited[h] > 0 => request.auth

\* However Next, panics and writes nest, no handler is run twice for a request.
HandlersRunOnce == \A h \in Names : visited[h] <= 1

\* The order of App does not matter: no request matches two routes.
RoutesAreDisjoint == Cardinality(Matching(request.method, request.path)) <= 1

\* The service broker API as App's comments name it: only a path of exactly the
\* instance is a provision or deprovision, only one of the binding a bind or unbind.
Published ==
    LET method == request.method
        s == request.path.segments
        instance(n) == Len(s) = n /\ s[1] = "v2" /\ s[2] = "service_instances" /\ s[3] # ""
        binding == instance(5) /\ s[4] = "service_bindings" /\ s[5] # "" IN
    CASE method \in {"GET", "HEAD"} /\ s = <<"v2", "catalog">> -> "Catalog"
      [] method = "PUT" /\ instance(3)    -> "CreateInstance"
      [] method = "PUT" /\ binding        -> "BindInstance"
      [] method = "DELETE" /\ instance(3) -> "DeleteInstance"
      [] method = "DELETE" /\ binding     -> "Unbind"
      [] OTHER -> "NotFound"

\* An unbind never enters DeleteInstance, nor any request a handler it is not for.
RoutedAsPublished ==
    \A h \in RouteHandlers \cup {"NotFound"} : visited[h] > 0 => h = Published

\* Every request is answered and logged, also when its handler panics.
EveryRequestAnswered == pc = "run" ~> pc = "done" /\ wire # 0 /\ logged # 0

=============================================================================
