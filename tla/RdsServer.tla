----------------------------- MODULE RdsServer -----------------------------
(***************************************************************************)
(* The shared PostgreSQL server that holds the tenants' databases, as far  *)
(* as the statements of actions.go use it: CREATE DATABASE, CREATE USER    *)
(* and GRANT (actions.go:60-62), DROP DATABASE and DROP USER               *)
(* (actions.go:129-130).  The server itself is not part of the repository. *)
(*                                                                         *)
(* Every statement is one atomic action.  A statement the server refuses   *)
(* leaves it unchanged: the handlers never look at the error, so a refusal *)
(* needs no other trace.                                                   *)
(***************************************************************************)
EXTENDS Integers, Secrets

VARIABLES
    dbs,       \* names of the tenant databases that exist
    roles,     \* login roles, each with the password it was created with
    grants,    \* the GRANTs of a database to a role
    sessions   \* databases some application is connected to

rdsVars == <<dbs, roles, grants, sessions>>

Role  == [name : Name, password : Password]
Grant == [db : Name, role : Name]

RdsTypeOK ==
    /\ dbs \subseteq Name
    /\ roles \subseteq Role
    /\ grants \subseteq Grant
    /\ sessions \subseteq Name

RdsInit ==
    /\ dbs = {}
    /\ roles = {}
    /\ grants = {}
    /\ sessions = {}

HasRole(u)     == \E r \in roles : r.name = u
Granted(d, u)  == [db |-> d, role |-> u] \in grants

\* A login asks for no GRANT: CREATE DATABASE gives CONNECT and TEMPORARY to
\* PUBLIC, and nobody revokes them, so that every role is let into every
\* database as long as that exists.
Accepts(d, u, p) == d \in dbs /\ [name |-> u, password |-> p] \in roles

----------------------------------------------------------------------------

\* "database already exists" leaves the existing database as it is.  What PUBLIC
\* has on a new one is the same for all of them (Accepts), and not in grants.
CreateDatabase(d) ==
    /\ dbs' = dbs \cup {d}
    /\ UNCHANGED <<roles, grants, sessions>>

\* "role already exists" leaves the existing role with its old password.
CreateUser(u, p) ==
    /\ roles' = IF HasRole(u)
                THEN roles
                ELSE roles \cup {[name |-> u, password |-> p]}
    /\ UNCHANGED <<dbs, grants, sessions>>

\* Both the database and the role have to exist.
GrantAll(d, u) ==
    /\ grants' = IF d \in dbs /\ HasRole(u)
                 THEN grants \cup {[db |-> d, role |-> u]}
                 ELSE grants
    /\ UNCHANGED <<dbs, roles, sessions>>

\* "database is being accessed by other users" refuses the drop; otherwise
\* the privileges on the database go with it.
DropDatabase(d) ==
    /\ IF d \in sessions
       THEN UNCHANGED <<dbs, grants>>
       ELSE /\ dbs' = dbs \ {d}
            /\ grants' = {g \in grants : g.db # d}
    /\ UNCHANGED <<roles, sessions>>

\* "role cannot be dropped because some objects depend on it": a privilege on
\* a database that still exists keeps its role alive.
DropUser(u) ==
    /\ roles' = IF \E g \in grants : g.role = u
                THEN roles
                ELSE {r \in roles : r.name # u}
    /\ UNCHANGED <<dbs, grants, sessions>>

\* An application logs in with the credentials of its VCAP_SERVICES, to its own
\* database or to that of another tenant.
OpenSession(d, u, p) ==
    /\ Accepts(d, u, p)
    /\ sessions' = sessions \cup {d}
    /\ UNCHANGED <<dbs, roles, grants>>

CloseSession(d) ==
    /\ d \in sessions
    /\ sessions' = sessions \ {d}
    /\ UNCHANGED <<dbs, roles, grants>>

=============================================================================
