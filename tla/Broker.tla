------------------------------- MODULE Broker -------------------------------
(***************************************************************************)
(* The service broker (actions.go, main.go): one goroutine per HTTP        *)
(* request runs CreateInstance, BindInstance, the unbind handler or        *)
(* DeleteInstance.  A handler shares nothing in memory with the others but *)
(* works on the same table and the same RDS server, one SQL statement at a *)
(* time, so the statements of concurrent requests interleave and a crash   *)
(* of the process can fall between any two of them.                        *)
(*                                                                         *)
(* No statement's error is looked at: a statement that fails is skipped.   *)
(***************************************************************************)
EXTENDS InstanceTable, RdsServer, FiniteSets

CONSTANTS
    Workers,           \* goroutines serving requests
    Faults,            \* which of FaultKinds can happen
    ClientSerializes,  \* the platform has one request per instance in flight
    MaxCreates         \* bound: random draws, and so rows, of a behaviour

FaultKinds ==
    {"read",         \* the SELECT of a lookup fails
     "ddl",          \* CREATE DATABASE, CREATE USER or GRANT fails
     "save",         \* the INSERT, or its COMMIT, fails
     "resend",       \* the INSERT is executed twice
     "drop",         \* DROP DATABASE or DROP USER fails
     "soft_delete",  \* the UPDATE of deleted_at, or its COMMIT, fails
     "session",      \* applications keep connections to their database open
     "entropy",      \* rand.Read fails
     "crash",        \* the process dies and is started again
     "rekey"}        \* ... with another ENC_KEY

ASSUME BrokerAssumption ==
    /\ Faults \subseteq FaultKinds
    /\ ClientSerializes \in BOOLEAN
    /\ MaxCreates \in Nat

VARIABLES
    pc,       \* where each goroutine is: its next statement
    req,      \* the request it serves
    inst,     \* its local variable "instance"
    out,      \* the status codes it has passed to r.JSON, in order
    encKey,   \* Settings.EncryptionKey of the running process
    drawn,    \* random draws so far
    creds     \* credentials the platform was given by bind

handlerVars == <<pc, req, inst, out>>
vars == <<dbs, roles, grants, sessions, rows,
          pc, req, inst, out, encKey, drawn, creds>>

Ops == {"create", "bind", "unbind", "delete"}
Request == [op : Ops, uuid : Uuids]
NoRequest == [op |-> "none"]

\* instance.Id = 0 until gorm has loaded a row.
Instance == [id : Nat, db : Name, user : Name, password : Password]
NoInstance ==
    [id |-> 0, db |-> 0, user |-> 0, password |-> EmptyPassword]

Creating == {"create_db", "create_user", "grant", "save"}
Deleting == {"drop_db", "drop_user", "soft_delete"}
Labels == {"idle", "lookup", "reply"} \cup Creating \cup Deleting

Codes == {200, 201, 404, 409, 500}
Credential == [db : Name, user : Name, password : Password]

TypeOK ==
    /\ RdsTypeOK
    /\ TableTypeOK
    /\ pc \in [Workers -> Labels]
    /\ req \in [Workers -> Request \cup {NoRequest}]
    /\ \A w \in Workers : pc[w] # "idle" => req[w] \in Request
    /\ inst \in [Workers -> Instance]
    /\ out \in [Workers -> Seq(Codes)]
    /\ encKey \in Keys
    /\ drawn \in Nat
    /\ creds \subseteq Credential

Init ==
    /\ RdsInit
    /\ TableInit
    /\ pc = [w \in Workers |-> "idle"]
    /\ req = [w \in Workers |-> NoRequest]
    /\ inst = [w \in Workers |-> NoInstance]
    /\ out = [w \in Workers |-> <<>>]
    /\ encKey \in Keys
    /\ drawn = 0
    /\ creds = {}

----------------------------------------------------------------------------

Goto(w, label) == pc' = [pc EXCEPT ![w] = label]

\* r.JSON(code, ...) for each code, and the handler returns.
Answer(w, codes) ==
    /\ Goto(w, "reply")
    /\ out' = [out EXCEPT ![w] = codes]

\* The handler issues a statement and goes on whether it succeeds or not.
Try(fault, statement, unaffected) ==
    \/ statement
    \/ fault \in Faults /\ UNCHANGED unaffected

Awaiting(w, op) == pc[w] = "lookup" /\ req[w].op = op

\* What First(&instance) leaves: row i, or nothing - also when it fails.
Found(w, i) == FirstLive(req[w].uuid, i)
MissedUnchecked(w) == TRUE        \* Mutant: nobody looks at instance.Id.
Missed(w)   == NoLive(req[w].uuid) \/ "read" \in Faults

PendingCreates == {w \in Workers : Awaiting(w, "create")}

Receive(w, op, u) ==
    /\ pc[w] = "idle"
    /\ ClientSerializes =>
           \A v \in Workers : pc[v] # "idle" => req[v].uuid # u
    /\ op = "create" => drawn + Cardinality(PendingCreates) < MaxCreates
    /\ Goto(w, "lookup")
    /\ req' = [req EXCEPT ![w] = [op |-> op, uuid |-> u]]
    /\ UNCHANGED <<rdsVars, rows, inst, out, encKey, drawn, creds>>

----------------------------------------------------------------------------
(* CreateInstance *)

CreateConflict(w) ==
    /\ Awaiting(w, "create")
    /\ \E i \in DOMAIN rows : Found(w, i)
    /\ Answer(w, <<409>>)
    /\ UNCHANGED <<rdsVars, rows, req, inst, encKey, drawn, creds>>

\* SetPassword fails: the key has no AES length.
CreateRefused(w) ==
    /\ Awaiting(w, "create")
    /\ Missed(w)
    /\ encKey \notin ValidKeys
    /\ Answer(w, <<500>>)
    /\ UNCHANGED <<rdsVars, rows, req, inst, encKey, drawn, creds>>

CreatePrepare(w) ==
    /\ Awaiting(w, "create")
    /\ Missed(w)
    /\ encKey \in ValidKeys
    /\ drawn' = drawn + 1
    /\ \E d, u, p \in RandStr(drawn + 1, "entropy" \in Faults) :
           inst' = [inst EXCEPT ![w] =
                       [id |-> 0, db |-> d, user |-> u, password |-> p]]
    /\ Goto(w, "create_db")
    /\ UNCHANGED <<rdsVars, rows, req, out, encKey, creds>>

ExecCreateDatabase(w) ==
    /\ pc[w] = "create_db"
    /\ Try("ddl", CreateDatabase(inst[w].db), rdsVars)
    /\ Goto(w, "create_user")
    /\ UNCHANGED <<rows, req, inst, out, encKey, drawn, creds>>

\* Mutant: no GRANT.
ExecCreateUserOnly(w) ==
    /\ pc[w] = "create_user"
    /\ Try("ddl", CreateUser(inst[w].user, inst[w].password), rdsVars)
    /\ Goto(w, "save")
    /\ UNCHANGED <<rows, req, inst, out, encKey, drawn, creds>>

ExecCreateUser(w) ==
    /\ pc[w] = "create_user"
    /\ Try("ddl", CreateUser(inst[w].user, inst[w].password), rdsVars)
    /\ Goto(w, "grant")
    /\ UNCHANGED <<rows, req, inst, out, encKey, drawn, creds>>

ExecGrant(w) ==
    /\ pc[w] = "grant"
    /\ Try("ddl", GrantAll(inst[w].db, inst[w].user), rdsVars)
    /\ Goto(w, "save")
    /\ UNCHANGED <<rows, req, inst, out, encKey, drawn, creds>>

\* Mutant: the password of the latest creation, as one kept in a variable
\* that all goroutines share would be.
NewRowShared(w) ==
    [uuid   |-> req[w].uuid,
     db     |-> inst[w].db,
     user   |-> inst[w].user,
     cipher |-> Encrypt(drawn, encKey),
     live   |-> TRUE]

\* The row the handler saves; the process still has the key it encrypted with.
NewRow(w) ==
    [uuid   |-> req[w].uuid,
     db     |-> inst[w].db,
     user   |-> inst[w].user,
     cipher |-> Encrypt(inst[w].password, encKey),
     live   |-> TRUE]

SaveInstance(w) ==
    /\ pc[w] = "save"
    /\ \/ Insert(NewRow(w))
       \/ "resend" \in Faults /\ InsertTwice(NewRow(w))
       \/ "save" \in Faults /\ UNCHANGED rows
    /\ Answer(w, <<201>>)
    /\ UNCHANGED <<rdsVars, req, inst, encKey, drawn, creds>>

----------------------------------------------------------------------------
(* BindInstance and the unbind handler *)

BindMissing(w) ==
    /\ Awaiting(w, "bind")
    /\ Missed(w)
    /\ Answer(w, <<404>>)
    /\ UNCHANGED <<rdsVars, rows, req, inst, encKey, drawn, creds>>

\* After GetPassword fails the handler answers 500 and then goes on to 201.
BindFound(w) ==
    /\ Awaiting(w, "bind")
    /\ \E i \in DOMAIN rows :
           /\ Found(w, i)
           /\ inst' = [inst EXCEPT ![w] =
                  [id       |-> i,
                   db       |-> rows[i].db,
                   user     |-> rows[i].user,
                   password |-> IF encKey \in ValidKeys
                                THEN Decrypt(rows[i].cipher, encKey)
                                ELSE EmptyPassword]]
    /\ Answer(w, IF encKey \in ValidKeys THEN <<201>> ELSE <<500, 201>>)
    /\ UNCHANGED <<rdsVars, rows, req, encKey, drawn, creds>>

\* Mutant: a status no other handler knows.
UnbindGone(w) ==
    /\ Awaiting(w, "unbind")
    /\ Answer(w, <<410>>)
    /\ UNCHANGED <<rdsVars, rows, req, inst, encKey, drawn, creds>>

Unbind(w) ==
    /\ Awaiting(w, "unbind")
    /\ Answer(w, <<200>>)
    /\ UNCHANGED <<rdsVars, rows, req, inst, encKey, drawn, creds>>

----------------------------------------------------------------------------
(* DeleteInstance *)

DeleteMissing(w) ==
    /\ Awaiting(w, "delete")
    /\ Missed(w)
    /\ Answer(w, <<404>>)
    /\ UNCHANGED <<rdsVars, rows, req, inst, encKey, drawn, creds>>

DeleteFound(w) ==
    /\ Awaiting(w, "delete")
    /\ \E i \in DOMAIN rows :
           /\ Found(w, i)
           /\ inst' = [inst EXCEPT ![w] =
                  [id |-> i, db |-> rows[i].db, user |-> rows[i].user,
                   password |-> EmptyPassword]]
    /\ Goto(w, "drop_db")
    /\ UNCHANGED <<rdsVars, rows, req, out, encKey, drawn, creds>>

\* Mutants: no DROP USER; waiting until nobody is connected.
ExecDropDatabaseOnly(w) ==
    /\ pc[w] = "drop_db"
    /\ Try("drop", DropDatabase(inst[w].db), rdsVars)
    /\ Goto(w, "soft_delete")
    /\ UNCHANGED <<rows, req, inst, out, encKey, drawn, creds>>

ExecDropDatabaseWhenFree(w) ==
    /\ pc[w] = "drop_db"
    /\ inst[w].db \notin sessions
    /\ Try("drop", DropDatabase(inst[w].db), rdsVars)
    /\ Goto(w, "drop_user")
    /\ UNCHANGED <<rows, req, inst, out, encKey, drawn, creds>>

ExecDropDatabase(w) ==
    /\ pc[w] = "drop_db"
    /\ Try("drop", DropDatabase(inst[w].db), rdsVars)
    /\ Goto(w, "drop_user")
    /\ UNCHANGED <<rows, req, inst, out, encKey, drawn, creds>>

ExecDropUser(w) ==
    /\ pc[w] = "drop_user"
    /\ Try("drop", DropUser(inst[w].user), rdsVars)
    /\ Goto(w, "soft_delete")
    /\ UNCHANGED <<rows, req, inst, out, encKey, drawn, creds>>

DeleteRow(w) ==
    /\ pc[w] = "soft_delete"
    /\ Try("soft_delete", SoftDelete(inst[w].id), rows)
    /\ Answer(w, <<200>>)
    /\ UNCHANGED <<rdsVars, req, inst, encKey, drawn, creds>>

----------------------------------------------------------------------------
(* The platform, the applications and the process *)

\* The response reaches the platform.  net/http sends the first status only,
\* so credentials after a 500 are not taken for a binding.
HandedOver(w) ==
    IF req[w].op = "bind" /\ out[w][1] = 201
    THEN {[db |-> inst[w].db, user |-> inst[w].user,
           password |-> inst[w].password]}
    ELSE {}

Reply(w) ==
    /\ pc[w] = "reply"
    /\ creds' = creds \cup HandedOver(w)
    /\ Goto(w, "idle")
    /\ req' = [req EXCEPT ![w] = NoRequest]
    /\ inst' = [inst EXCEPT ![w] = NoInstance]
    /\ out' = [out EXCEPT ![w] = <<>>]
    /\ UNCHANGED <<rdsVars, rows, encKey, drawn>>

Connect(c, d) ==
    /\ "session" \in Faults
    /\ OpenSession(d, c.user, c.password)
    /\ UNCHANGED <<rows, handlerVars, encKey, drawn, creds>>

Disconnect(d) ==
    /\ CloseSession(d)
    /\ UNCHANGED <<rows, handlerVars, encKey, drawn, creds>>

\* Every goroutine is gone; what the server and the table hold stays.  The
\* AutoMigrate of DBInit finds its table and changes nothing.
Restart ==
    /\ "crash" \in Faults
    /\ pc' = [w \in Workers |-> "idle"]
    /\ req' = [w \in Workers |-> NoRequest]
    /\ inst' = [w \in Workers |-> NoInstance]
    /\ out' = [w \in Workers |-> <<>>]
    /\ encKey' \in IF "rekey" \in Faults THEN Keys ELSE {encKey}
    /\ UNCHANGED <<rdsVars, rows, drawn, creds>>

----------------------------------------------------------------------------

CreateInstance(w) ==
    \/ CreateConflict(w)
    \/ CreateRefused(w)
    \/ CreatePrepare(w)
    \/ ExecCreateDatabase(w)
    \/ ExecCreateUser(w)
    \/ ExecGrant(w)
    \/ SaveInstance(w)

BindInstance(w) == BindMissing(w) \/ BindFound(w)

DeleteInstance(w) ==
    \/ DeleteMissing(w)
    \/ DeleteFound(w)
    \/ ExecDropDatabase(w)
    \/ ExecDropUser(w)
    \/ DeleteRow(w)

Handle(w) ==
    \/ CreateInstance(w)
    \/ BindInstance(w)
    \/ Unbind(w)
    \/ DeleteInstance(w)
    \/ Reply(w)

Environment ==
    \/ \E w \in Workers, op \in Ops, u \in Uuids : Receive(w, op, u)
    \/ \E c \in creds, d \in dbs : Connect(c, d)
    \/ \E d \in sessions : Disconnect(d)
    \/ Restart

Next == Environment \/ \E w \in Workers : Handle(w)

\* A goroutine that can run does run, and every statement comes back.
Fairness == \A w \in Workers : WF_vars(Handle(w))

Spec == Init /\ [][Next]_vars /\ Fairness

----------------------------------------------------------------------------
(* What must hold.  Each property names the faults it holds without; the  *)
(* runs and the theorems leave exactly those out.                         *)

Served(u)   == {w \in Workers : req[w].op # "none" /\ req[w].uuid = u}
BeingDeleted(i) == \E w \in Workers : pc[w] \in Deleting /\ inst[w].id = i
Provisioned == {u \in Uuids : ~NoLive(u)}

\* The broker grants nothing on the database of one service instance to the
\* user of another (actions.go:47-48, 60-62): not after any interleaving of
\* creations, lost or repeated statements, crashes and key changes.  It says
\* nothing of what every role has on every database, which is CONNECT and
\* TEMPORARY: the server gives them to PUBLIC and no handler takes them away.
\* Needs: no "entropy".
GrantsApart ==
    \A i, j \in DOMAIN rows :
        Granted(rows[i].db, rows[j].user) => rows[i].uuid = rows[j].uuid

\* Nobody's database disappears because of a request that was not a
\* deprovision of that very instance, still being served when it happens
\* (actions.go:122-129).  Needs: no "entropy".
DroppedByItsOwnDelete ==
    [][\A i \in DOMAIN rows :
          rows[i].db \in dbs \ dbs' =>
              \E w \in Served(rows[i].uuid) : req[w].op = "delete"]_vars

\* Credentials a bind handed out open the database, with all privileges, for
\* as long as it exists: the handler reads the row, decrypts and answers
\* while others create and drop, and a deprovision that was cut short or
\* refused must not have taken the user and left the database
\* (actions.go:77-110, 129-130).  Needs: no "ddl", "entropy", "rekey".
BoundCredentialsWork ==
    \A c \in creds :
        c.db \in dbs => Accepts(c.db, c.user, c.password)
                         /\ Granted(c.db, c.user)

\* An instance the table says exists has its database, its user with the
\* encrypted password and the grant, unless it is being deprovisioned at
\* this moment (actions.go:60-64, 129-132).  Needs: no "ddl",
\* "soft_delete", "crash", "entropy", "resend".
LiveBacked ==
    \A i \in DOMAIN rows :
        rows[i].live /\ ~BeingDeleted(i) =>
            /\ Accepts(rows[i].db, rows[i].user, rows[i].cipher.plain)
            /\ Granted(rows[i].db, rows[i].user)

\* No database and no user is left behind: each one belongs to an instance
\* the table still shows or to a creation that has yet to save it, so a
\* later deprovision can find it (actions.go:60-64, 129-132).  Needs: no
\* "save", "drop", "session", "crash", "entropy".
NothingLeaks ==
    /\ \A d \in dbs :
           \/ \E i \in DOMAIN rows : rows[i].live /\ rows[i].db = d
           \/ \E w \in Workers : pc[w] \in Creating /\ inst[w].db = d
    /\ \A r \in roles :
           \/ \E i \in DOMAIN rows : rows[i].live /\ rows[i].user = r.name
           \/ \E w \in Workers : pc[w] \in Creating /\ inst[w].user = r.name

\* The check of actions.go:27-32 and the Save of line 64, with everything in
\* between, keep one row per instance although no column is unique - if the
\* platform has one request per instance in flight.  Needs:
\* ClientSerializes, no "read", "resend".
OneLiveRow ==
    \A i, j \in DOMAIN rows :
        rows[i].live /\ rows[j].live /\ rows[i].uuid = rows[j].uuid => i = j

\* The handlers implement the registry: 201, 404, 409 and 200 are answered
\* when one atomic provision, lookup or deprovision would, also when the
\* process dies in between.  A request takes effect at its last statement; the
\* answer is the first status written.  Needs: ClientSerializes, no "read",
\* "save", "soft_delete", "resend".
CallOf(w) ==
    IF pc[w] = "idle"
    THEN [op |-> "none", answer |-> 0]
    ELSE [op     |-> req[w].op,
          uuid   |-> req[w].uuid,
          answer |-> IF pc[w] = "reply" THEN out[w][1] ELSE 0]

Calls == [w \in Workers |-> CallOf(w)]

Registry == INSTANCE ServiceRegistry WITH
    provisioned <- Provisioned, call <- Calls

ImplementsRegistry == Registry!RegistrySpec

\* A platform that keeps asking for the deprovision of an instance gets rid
\* of it, however many rows racing creations made for it and whichever
\* drops the server refused (each request deletes the first live row,
\* actions.go:122-132).  Needs: no "soft_delete", "crash", "read".
DeletesConverge ==
    \A u \in Uuids :
        ([]<>\E w \in Served(u) : Awaiting(w, "delete")) => []<>NoLive(u)

\* Every request is answered, or its process dies, whatever fails and
\* whichever statements are refused.
Answered == \A w \in Workers : pc[w] # "idle" ~> pc[w] = "idle"

----------------------------------------------------------------------------
(* What the tests say, and the code does not keep.                         *)

AllOthersIdle(w) == \A v \in Workers \ {w} : pc[v] = "idle"

\* main_test.go:201-206: after a deprovision answered 200 the instance is
\* "actually gone from the DB" (nobody else is being served).
DeletedIsGone ==
    [][\A w \in Workers :
          /\ pc[w] = "soft_delete" /\ pc'[w] = "reply"
          /\ AllOthersIdle(w)
          => NoLive(req[w].uuid)']_vars

=============================================================================
