--------------------------- MODULE ServiceRegistry ---------------------------
(***************************************************************************)
(* What the broker promises the platform through the four routes of        *)
(* main.go:91-104, leaving out how: an instance is provisioned or it is    *)
(* not, every request takes effect at one instant between its arrival and  *)
(* its answer, and the answer is the one that instant calls for.  A broker *)
(* that dies forgets the requests it was serving, each of them before or   *)
(* after its effect, never in the middle of it.                            *)
(***************************************************************************)
CONSTANTS Uuids, Workers

VARIABLES
    provisioned,   \* the service instances that exist
    call           \* what each worker is doing for the platform

registryVars == <<provisioned, call>>

RegistryOps == {"create", "bind", "unbind", "delete"}

\* No answer yet is 0, as no status code is.
Idle == [op |-> "none", answer |-> 0]

RegistryInit ==
    /\ provisioned = {}
    /\ call = [w \in Workers |-> Idle]

Waiting(w, op) == call[w] # Idle /\ call[w].op = op /\ call[w].answer = 0

AnswerCall(w, code) == call' = [call EXCEPT ![w].answer = code]

Invoke(w, op, u) ==
    /\ call[w] = Idle
    /\ call' = [call EXCEPT ![w] = [op |-> op, uuid |-> u, answer |-> 0]]
    /\ UNCHANGED provisioned

Provision(w) ==
    /\ Waiting(w, "create")
    /\ call[w].uuid \notin provisioned
    /\ provisioned' = provisioned \cup {call[w].uuid}
    /\ AnswerCall(w, 201)

ProvisionTwice(w) ==
    /\ Waiting(w, "create")
    /\ call[w].uuid \in provisioned
    /\ AnswerCall(w, 409)
    /\ UNCHANGED provisioned

Deprovision(w) ==
    /\ Waiting(w, "delete")
    /\ call[w].uuid \in provisioned
    /\ provisioned' = provisioned \ {call[w].uuid}
    /\ AnswerCall(w, 200)

Bind(w) ==
    /\ Waiting(w, "bind")
    /\ call[w].uuid \in provisioned
    /\ AnswerCall(w, 201)
    /\ UNCHANGED provisioned

NotFound(w) ==
    /\ Waiting(w, "bind") \/ Waiting(w, "delete")
    /\ call[w].uuid \notin provisioned
    /\ AnswerCall(w, 404)
    /\ UNCHANGED provisioned

UnbindAny(w) ==
    /\ Waiting(w, "unbind")
    /\ AnswerCall(w, 200)
    /\ UNCHANGED provisioned

\* The broker cannot use its encryption key: nothing is done.
Fail(w) ==
    /\ \/ Waiting(w, "create") /\ call[w].uuid \notin provisioned
       \/ Waiting(w, "bind") /\ call[w].uuid \in provisioned
    /\ AnswerCall(w, 500)
    /\ UNCHANGED provisioned

Return(w) ==
    /\ call[w].answer # 0
    /\ call' = [call EXCEPT ![w] = Idle]
    /\ UNCHANGED provisioned

Crash ==
    /\ call' = [w \in Workers |-> Idle]
    /\ UNCHANGED provisioned

RegistryNext ==
    \/ Crash
    \/ \E w \in Workers :
           \/ \E op \in RegistryOps, u \in Uuids : Invoke(w, op, u)
           \/ Provision(w)
           \/ ProvisionTwice(w)
           \/ Deprovision(w)
           \/ Bind(w)
           \/ NotFound(w)
           \/ UnbindAny(w)
           \/ Fail(w)
           \/ Return(w)

RegistrySpec == RegistryInit /\ [][RegistryNext]_registryVars

=============================================================================
