------------------------------- MODULE Router -------------------------------
(***************************************************************************)
(* Which handler a request is routed to.  martini compiles the pattern of  *)
(* a route to an unanchored regular expression in which a parameter is a   *)
(* non-empty run without slashes, appends an optional slash, and takes the *)
(* first route whose leftmost match is the whole path.                     *)
(*                                                                         *)
(* A path is the sequence of its segments and whether a slash follows the  *)
(* last one; the empty segment stands for a doubled slash.                 *)
(***************************************************************************)
EXTENDS Naturals, Sequences

CONSTANTS Ids     \* segments that are no literal of a pattern

ASSUME RouterAssumption ==
    Ids \cap {"v2", "catalog", "service_instances", "service_bindings", ""} = {}

Literals == {"v2", "catalog", "service_instances", "service_bindings"}
Segments == Literals \cup Ids \cup {""}

Methods == {"GET", "HEAD", "PUT", "DELETE", "POST"}

Param == ":"
Instances == <<"v2", "service_instances", Param>>
Bindings  == Instances \o <<"service_bindings", Param>>

\* In the order App adds them.
Routes == <<
    [method |-> "GET",    pattern |-> <<"v2", "catalog">>, handler |-> "Catalog"],
    [method |-> "PUT",    pattern |-> Instances, handler |-> "CreateInstance"],
    [method |-> "PUT",    pattern |-> Bindings,  handler |-> "BindInstance"],
    [method |-> "DELETE", pattern |-> Bindings,  handler |-> "Unbind"],
    [method |-> "DELETE", pattern |-> Instances, handler |-> "DeleteInstance"] >>

MatchMethod(route, method) ==
    method = route.method \/ (method = "HEAD" /\ route.method = "GET")

MatchSegment(p, s) == IF p = Param THEN s # "" ELSE p = s

\* Mutant: the match need not be the whole path.
MatchPrefix(route, method, path) ==
    /\ MatchMethod(route, method)
    /\ Len(path.segments) >= Len(route.pattern)
    /\ \A i \in DOMAIN route.pattern : MatchSegment(route.pattern[i], path.segments[i])

\* A slash at the end is matched by \/?.
Match(route, method, path) ==
    /\ MatchMethod(route, method)
    /\ Len(path.segments) = Len(route.pattern)
    /\ \A i \in DOMAIN route.pattern : MatchSegment(route.pattern[i], path.segments[i])

Matching(method, path) == {i \in DOMAIN Routes : Match(Routes[i], method, path)}

Handle(method, path) ==
    LET m == Matching(method, path) IN
    IF m = {} THEN "NotFound"
    ELSE Routes[CHOOSE i \in m : \A j \in m : i <= j].handler

=============================================================================
