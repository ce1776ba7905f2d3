-------------------------- MODULE BrokerInvariants --------------------------
(***************************************************************************)
(* Inductive invariants of Broker: the named parts the proofs of           *)
(* BrokerProofs put together.  TLC checks them as invariants first.        *)
(***************************************************************************)
EXTENDS Broker

----------------------------------------------------------------------------
(* Who owns a name.  Without "entropy" the strings of one creation come    *)
(* from one draw, so they carry the same number.                           *)

OneDraw(r) == r.user = r.db /\ r.db \in 1 .. drawn

\* Rows keep the names they were saved with.
RowsOfOneDraw ==
    \A i \in DOMAIN rows :
        OneDraw(rows[i]) /\ rows[i].cipher.plain = rows[i].db

\* A creation under way has names nobody else has.
CreatesAreFresh ==
    \A w \in Workers : pc[w] \in Creating =>
        /\ req[w].op = "create"
        /\ OneDraw(inst[w]) /\ inst[w].password = inst[w].db
        /\ \A i \in DOMAIN rows : rows[i].db # inst[w].db
        /\ \A v \in Workers \ {w} :
               pc[v] \in Creating => inst[v].db # inst[w].db

\* Only rows of the same instance can share a database.
NamesOfOneInstance ==
    \A i, j \in DOMAIN rows :
        rows[i].db = rows[j].db => rows[i].uuid = rows[j].uuid

\* A deprovision works on the row it found.
DeletesFoundRow ==
    \A w \in Workers : pc[w] \in Deleting =>
        /\ req[w].op = "delete"
        /\ inst[w].id \in DOMAIN rows
        /\ rows[inst[w].id].uuid = req[w].uuid
        /\ rows[inst[w].id].db = inst[w].db
        /\ inst[w].user = inst[w].db

GrantsOfOneDraw == \A g \in grants : g.role = g.db

Ownership ==
    /\ RowsOfOneDraw
    /\ CreatesAreFresh
    /\ NamesOfOneInstance
    /\ DeletesFoundRow
    /\ GrantsOfOneDraw

----------------------------------------------------------------------------
(* What a database that exists comes with, without "ddl" and "rekey".      *)

RolesOfOneDraw == \A r \in roles : r.password = r.name

\* The statements of a creation leave what the row will promise.
CreatesProgress ==
    \A w \in Workers :
        /\ pc[w] \in {"grant", "save"} => HasRole(inst[w].user)
        /\ pc[w] \in {"create_user", "grant"} => inst[w].db \in dbs
        /\ pc[w] = "save" => Granted(inst[w].db, inst[w].user)

\* A saved database cannot outlive its user: the privilege that goes with
\* the database is what makes DROP USER fail before.
RowsBacked ==
    \A i \in DOMAIN rows : rows[i].db \in dbs =>
        HasRole(rows[i].user) /\ Granted(rows[i].db, rows[i].user)

OneKey == \A i \in DOMAIN rows : rows[i].cipher.key = encKey

Belongs(c) ==
    /\ c.user = c.db /\ c.password = c.db
    /\ \E i \in DOMAIN rows : rows[i].db = c.db

BindsBelong ==
    \A w \in Workers :
        pc[w] = "reply" /\ req[w].op = "bind" /\ out[w][1] = 201 =>
            Belongs(inst[w])

CredentialsBelong == \A c \in creds : Belongs(c)

ServerBacks == RolesOfOneDraw /\ CreatesProgress /\ RowsBacked
BindsHonest == OneKey /\ BindsBelong /\ CredentialsBelong
Backing == ServerBacks /\ BindsHonest

----------------------------------------------------------------------------
(* Why an instance the table shows has its database, without "ddl",        *)
(* "soft_delete", "crash", "entropy" and "resend".                         *)

\* Every Save is executed once, so no two rows share a database.
RowsApart == \A i, j \in DOMAIN rows : rows[i].db = rows[j].db => i = j

\* The database of a creation is there until its row is.
CreatedExists ==
    \A w \in Workers :
        pc[w] \in {"create_user", "grant", "save"} => inst[w].db \in dbs

\* Only a deprovision under way leaves a live row without its database.
LiveHasDatabase ==
    \A i \in DOMAIN rows :
        rows[i].live /\ ~BeingDeleted(i) => rows[i].db \in dbs

Presence == RowsApart /\ CreatedExists /\ LiveHasDatabase

----------------------------------------------------------------------------
(* Why nothing is left behind, without "save", "drop", "session", "crash"  *)
(* and "entropy".                                                          *)

\* A privilege goes with its database, so it never keeps a user alive whose
\* database is gone.
GrantsOnDatabases == \A g \in grants : g.db \in dbs

\* What a deprovision has dropped when it comes to mark the row.
DropsDone ==
    \A w \in Workers :
        /\ pc[w] \in {"drop_user", "soft_delete"} => inst[w].db \notin dbs
        /\ pc[w] = "soft_delete" => ~HasRole(inst[w].user)

NobodyConnected == sessions = {}

Tidiness == GrantsOnDatabases /\ DropsDone /\ NobodyConnected /\ NothingLeaks

----------------------------------------------------------------------------
(* One request per instance in flight. *)

Serialized ==
    \A v, w \in Workers :
        /\ v # w
        /\ pc[v] # "idle" /\ pc[w] # "idle"
        => req[v].uuid # req[w].uuid

\* Nobody else can save a row between the check of a creation and its Save.
CreatesUnprovisioned ==
    \A w \in Workers : pc[w] \in Creating => NoLive(req[w].uuid)

Uniqueness == Serialized /\ CreatesUnprovisioned /\ OneLiveRow

----------------------------------------------------------------------------
(* What the refinement of ServiceRegistry rests on. *)

\* The row a deprovision found is still there when it comes to mark it.
CallsInProgress ==
    \A w \in Workers :
        /\ pc[w] \in Creating => req[w].op = "create"
        /\ pc[w] \in Deleting =>
               /\ req[w].op = "delete"
               /\ inst[w].id \in DOMAIN rows
               /\ LiveFor(req[w].uuid, inst[w].id)
        /\ pc[w] = "reply" => out[w][1] \in Codes

RegistryInv == Uniqueness /\ CallsInProgress

=============================================================================
