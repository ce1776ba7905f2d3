----------------------------- MODULE MCWebChain -----------------------------
(* Requests for WebChain: every way to be let in on a path of each kind, and *)
(* every path up to a length for a client who knows the password.            *)
EXTENDS WebChain

CONSTANTS Id, MaxSegments

Path(s, slash) == [segments |-> s, slash |-> slash]

Known ==
    {<<"v2", "catalog">>, <<"v2", "service_instances", Id>>,
     <<"v2", "service_instances", Id, "service_bindings", Id>>, <<Id>>}

Admissions ==
    [method : Methods, path : {Path(s, b) : s \in Known, b \in BOOLEAN},
     auth : BOOLEAN, static : {"none", "file", "dir"}]

Routings ==
    [method : Methods \ {"HEAD"},
     path : {Path(s, FALSE) : s \in UNION {[1 .. n -> Segments] : n \in 0 .. MaxSegments}},
     auth : {TRUE}, static : {"none"}]

MCRequests == Admissions \cup Routings

AllHandlers == {"CreateInstance", "BindInstance", "DeleteInstance", "Renderer"}

=============================================================================
