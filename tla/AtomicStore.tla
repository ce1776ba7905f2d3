----------------------------- MODULE AtomicStore -----------------------------
(***************************************************************************)
(* What a rollback-journal database promises its connections: transactions *)
(* that begin from the stored image, change it in private and replace it   *)
(* at once, or leave no trace when a process dies.  A power loss may also  *)
(* take back the last commit as a whole, until the next one is on its way. *)
(***************************************************************************)

CONSTANTS
    Clients,    \* connections
    Images,     \* contents a database may have
    NoImage     \* a connection without a transaction

VARIABLES
    stored,     \* the database
    previous,   \* what a power loss may bring back
    view        \* what each connection reads

storeVars == <<stored, previous, view>>

StoreInit ==
    /\ stored \in Images
    /\ previous = stored
    /\ view = [c \in Clients |-> NoImage]

Others(c) == Clients \ {c}

Begin(c) ==
    /\ view[c] = NoImage
    /\ view' = [view EXCEPT ![c] = stored]
    /\ UNCHANGED <<stored, previous>>

\* One connection at a time has changes of its own.
Change(c) ==
    /\ view[c] # NoImage
    /\ \A d \in Others(c) : view[d] \in {NoImage, stored}
    /\ view'[c] \in Images
    /\ view' = [view EXCEPT ![c] = view'[c]]
    /\ UNCHANGED <<stored, previous>>

\* Nobody reads while the image is replaced.
Commit(c) ==
    /\ view[c] # NoImage
    /\ \A d \in Others(c) : view[d] = NoImage
    /\ stored' = view[c]
    /\ previous' = stored
    /\ UNCHANGED view

Abort(c) ==
    /\ view[c] # NoImage
    /\ view' = [view EXCEPT ![c] = stored]
    /\ UNCHANGED <<stored, previous>>

\* The last commit can no longer be lost.
Secure == previous' = stored /\ UNCHANGED <<stored, view>>

\* Transactions end, or their process does.
Leave(S) ==
    /\ view' = [c \in Clients |-> IF c \in S THEN NoImage ELSE view[c]]
    /\ UNCHANGED <<stored, previous>>

PowerFails ==
    /\ stored' \in {stored, previous}
    /\ previous' = stored'
    /\ view' = [c \in Clients |-> NoImage]

StoreNext ==
    \/ Secure
    \/ \E c \in Clients : Begin(c) \/ Change(c) \/ Commit(c) \/ Abort(c)
    \/ \E S \in SUBSET Clients : Leave(S)
    \/ PowerFails

StoreSpec == StoreInit /\ [][StoreNext]_storeVars

=============================================================================
