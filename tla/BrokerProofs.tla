---------------------------- MODULE BrokerProofs ----------------------------
(***************************************************************************)
(* Proofs about Broker, for every set of workers, service instances and    *)
(* keys, every bound MaxCreates and every set of faults a theorem does not *)
(* exclude by name: the table and its passwords; that the handlers         *)
(* implement ServiceRegistry, if the platform serializes the requests of   *)
(* an instance and no lookup, save or mark fails; and the RDS server,      *)
(* where the credentials a bind hands out work, an instance the table      *)
(* shows has its database and its user, and nothing else is there.         *)
(* Backing, Presence and Tidiness are inductive, relative to TypeOK and    *)
(* Ownership.                                                              *)
(***************************************************************************)
EXTENDS BrokerInvariants, SequenceTheorems, TLAPS

----------------------------------------------------------------------------
(* What the operators of the model return. *)

\* A random string is a name, whether or not the entropy ran out.
LEMMA RandStrIsName ==
    ASSUME NEW d \in Nat, NEW e \in BOOLEAN
    PROVE  RandStr(d + 1, e) \subseteq Nat
BY DEF RandStr, ZeroString

LEMMA DecryptType ==
    ASSUME NEW c \in Cipher, NEW k
    PROVE  Decrypt(c, k) \in Password
BY DEF Decrypt, Cipher, Password, Garbled

\* Marking a row keeps the table a table.
LEMMA SoftDeleteType ==
    ASSUME NEW t \in Seq(Row), NEW i
    PROVE  [t EXCEPT ![i].live = FALSE] \in Seq(Row)
<1>1. t \in [1 .. Len(t) -> Row] /\ Len(t) \in Nat
  BY LenProperties
<1>2. ASSUME NEW r \in Row PROVE [r EXCEPT !.live = FALSE] \in Row
  BY DEF Row
<1>3. [t EXCEPT ![i].live = FALSE] \in [1 .. Len(t) -> Row]
  BY <1>1, <1>2
<1> QED
  BY <1>1, <1>3, SeqDef

LEMMA NoInstanceType == NoInstance \in Instance
BY DEF NoInstance, Instance, Name, Password, EmptyPassword

\* A row First can find is a row.
LEMMA RowType ==
    ASSUME rows \in Seq(Row), NEW i \in DOMAIN rows
    PROVE  rows[i] \in Row /\ i \in Nat
<1>1. DOMAIN rows = 1 .. Len(rows) /\ Len(rows) \in Nat
  BY LenProperties
<1> QED
  BY <1>1, ElementOfSeq

LEMMA NewRowType ==
    ASSUME TypeOK, NEW w \in Workers, req[w] \in Request
    PROVE  NewRow(w) \in Row
<1>1. inst[w] \in Instance /\ encKey \in Keys
  BY DEF TypeOK
<1>2. Encrypt(inst[w].password, encKey) \in Cipher
  BY <1>1 DEF Encrypt, Cipher, Instance
<1> QED
  BY <1>1, <1>2 DEF NewRow, Row, Request, Instance

\* After a Save every row is an old one or the new one.
LEMMA InsertedRows ==
    ASSUME rows \in Seq(Row), NEW r \in Row, Insert(r) \/ InsertTwice(r)
    PROVE  /\ rows' \in Seq(Row)
           /\ \A j \in DOMAIN rows : j \in DOMAIN rows' /\ rows'[j] = rows[j]
           /\ \A j \in DOMAIN rows' :
                  (j \in DOMAIN rows /\ rows'[j] = rows[j]) \/ rows'[j] = r
<1> DEFINE s1 == Append(rows, r)
           s2 == Append(s1, r)
<1>1. /\ s1 \in Seq(Row) /\ Len(s1) = Len(rows) + 1
      /\ \A j \in 1 .. Len(rows) : s1[j] = rows[j]
      /\ s1[Len(rows) + 1] = r
  BY AppendProperties
<1> HIDE DEF s1
<1>2. /\ s2 \in Seq(Row) /\ Len(s2) = Len(s1) + 1
      /\ \A j \in 1 .. Len(s1) : s2[j] = s1[j]
      /\ s2[Len(s1) + 1] = r
  BY <1>1, AppendProperties
<1> HIDE DEF s2
<1>3. /\ Len(rows) \in Nat /\ DOMAIN rows = 1 .. Len(rows)
      /\ DOMAIN s1 = 1 .. Len(s1) /\ DOMAIN s2 = 1 .. Len(s2)
  BY <1>1, <1>2, LenProperties
<1>4. CASE rows' = s1
  BY <1>1, <1>3, <1>4
<1>5. CASE rows' = s2
  BY <1>1, <1>2, <1>3, <1>5
<1> QED
  BY <1>4, <1>5 DEF Insert, InsertTwice, s1, s2

\* Marking a row changes its mark only.
LEMMA SoftDeletedRows ==
    ASSUME rows \in Seq(Row), NEW i, SoftDelete(i)
    PROVE  /\ DOMAIN rows' = DOMAIN rows
           /\ \A j \in DOMAIN rows :
                  /\ rows'[j].uuid = rows[j].uuid
                  /\ rows'[j].db = rows[j].db
                  /\ rows'[j].user = rows[j].user
                  /\ rows'[j].cipher = rows[j].cipher
                  /\ rows'[j].live => rows[j].live
<1>1. \A j \in DOMAIN rows : rows[j] \in Row
  BY RowType
<1> QED
  BY <1>1 DEF SoftDelete, Row

----------------------------------------------------------------------------
(* Type correctness. *)

LEMMA TypeInit == Init => TypeOK
BY EmptySeq, NoInstanceType
   DEF Init, TypeOK, RdsInit, RdsTypeOK, TableInit, TableTypeOK, Labels

LEMMA TypeNext == TypeOK /\ [Next]_vars => TypeOK'
<1> SUFFICES ASSUME TypeOK, [Next]_vars PROVE TypeOK'
  OBVIOUS
<1> USE DEF TypeOK, RdsTypeOK, TableTypeOK, Labels, Creating, Deleting
<1> USE DEF rdsVars, Awaiting
<1>1. ASSUME NEW w \in Workers, NEW op \in Ops, NEW u \in Uuids,
             Receive(w, op, u)
      PROVE  TypeOK'
  BY <1>1 DEF Receive, Goto, Request
<1>2. ASSUME NEW w \in Workers, CreateConflict(w)
      PROVE  TypeOK'
  BY <1>2 DEF CreateConflict, Answer, Goto, Codes
<1>3. ASSUME NEW w \in Workers, CreateRefused(w)
      PROVE  TypeOK'
  BY <1>3 DEF CreateRefused, Answer, Goto, Codes
<1>4. ASSUME NEW w \in Workers, CreatePrepare(w)
      PROVE  TypeOK'
  <2>1. inst' \in [Workers -> Instance] /\ drawn' \in Nat
    <3>1. RandStr(drawn + 1, "entropy" \in Faults) \subseteq Nat
      <4>1. ("entropy" \in Faults) \in BOOLEAN
        OBVIOUS
      <4> QED
        BY <4>1, RandStrIsName
    <3> QED
      BY <1>4, <3>1 DEF CreatePrepare, Instance, Name, Password
  <2> QED
    BY <1>4, <2>1 DEF CreatePrepare, Goto
<1>5. ASSUME NEW w \in Workers, ExecCreateDatabase(w)
      PROVE  TypeOK'
  BY <1>5 DEF ExecCreateDatabase, Try, Goto, CreateDatabase, Instance
<1>6. ASSUME NEW w \in Workers, ExecCreateUser(w)
      PROVE  TypeOK'
  BY <1>6 DEF ExecCreateUser, Try, Goto, CreateUser, Instance, Role
<1>7. ASSUME NEW w \in Workers, ExecGrant(w)
      PROVE  TypeOK'
  BY <1>7 DEF ExecGrant, Try, Goto, GrantAll, Instance, Grant
<1>8. ASSUME NEW w \in Workers, SaveInstance(w)
      PROVE  TypeOK'
  <2>1. NewRow(w) \in Row
    BY <1>8, NewRowType DEF SaveInstance
  <2>2. rows' \in Seq(Row)
    <3>1. Append(rows, NewRow(w)) \in Seq(Row)
      BY <2>1, AppendProperties
    <3>2. Append(Append(rows, NewRow(w)), NewRow(w)) \in Seq(Row)
      BY <2>1, <3>1, AppendProperties
    <3> QED
      BY <1>8, <3>1, <3>2 DEF SaveInstance, Insert, InsertTwice
  <2> QED
    BY <1>8, <2>2 DEF SaveInstance, Answer, Goto, Codes
<1>9. ASSUME NEW w \in Workers, BindMissing(w)
      PROVE  TypeOK'
  BY <1>9 DEF BindMissing, Answer, Goto, Codes
<1>10. ASSUME NEW w \in Workers, BindFound(w)
      PROVE  TypeOK'
  <2>1. PICK i \in DOMAIN rows :
            inst' = [inst EXCEPT ![w] =
                [id |-> i, db |-> rows[i].db, user |-> rows[i].user,
                 password |-> IF encKey \in ValidKeys
                              THEN Decrypt(rows[i].cipher, encKey)
                              ELSE EmptyPassword]]
    BY <1>10 DEF BindFound
  <2>2. rows[i] \in Row /\ i \in Nat
    BY RowType
  <2>3. Decrypt(rows[i].cipher, encKey) \in Password
    BY <2>2, DecryptType DEF Row
  <2>4. inst' \in [Workers -> Instance]
    BY <2>1, <2>2, <2>3 DEF Row, Instance, Password, EmptyPassword
  <2> QED
    <3>1. <<201>> \in Seq(Codes) /\ <<500, 201>> \in Seq(Codes)
      <4>1. 201 \in Codes /\ 500 \in Codes
        BY DEF Codes
      <4> QED
        BY <4>1
    <3> QED
      BY <1>10, <2>4, <3>1 DEF BindFound, Answer, Goto
<1>11. ASSUME NEW w \in Workers, Unbind(w)
      PROVE  TypeOK'
  BY <1>11 DEF Unbind, Answer, Goto, Codes
<1>12. ASSUME NEW w \in Workers, DeleteMissing(w)
      PROVE  TypeOK'
  BY <1>12 DEF DeleteMissing, Answer, Goto, Codes
<1>13. ASSUME NEW w \in Workers, DeleteFound(w)
      PROVE  TypeOK'
  <2>1. PICK i \in DOMAIN rows :
            inst' = [inst EXCEPT ![w] =
                [id |-> i, db |-> rows[i].db, user |-> rows[i].user,
                 password |-> EmptyPassword]]
    BY <1>13 DEF DeleteFound
  <2>2. rows[i] \in Row /\ i \in Nat
    BY RowType
  <2>3. inst' \in [Workers -> Instance]
    BY <2>1, <2>2 DEF Row, Instance, Password, EmptyPassword
  <2> QED
    BY <1>13, <2>3 DEF DeleteFound, Goto
<1>14. ASSUME NEW w \in Workers, ExecDropDatabase(w)
      PROVE  TypeOK'
  BY <1>14 DEF ExecDropDatabase, Try, Goto, DropDatabase
<1>15. ASSUME NEW w \in Workers, ExecDropUser(w)
      PROVE  TypeOK'
  BY <1>15 DEF ExecDropUser, Try, Goto, DropUser
<1>16. ASSUME NEW w \in Workers, DeleteRow(w)
      PROVE  TypeOK'
  <2>1. rows' \in Seq(Row)
    <3>1. [rows EXCEPT ![inst[w].id].live = FALSE] \in Seq(Row)
      BY SoftDeleteType
    <3> QED
      BY <1>16, <3>1 DEF DeleteRow, Try, SoftDelete
  <2> QED
    BY <1>16, <2>1 DEF DeleteRow, Answer, Goto, Codes
<1>17. ASSUME NEW w \in Workers, Reply(w)
      PROVE  TypeOK'
  <2>1. HandedOver(w) \subseteq Credential
    BY DEF HandedOver, Instance, Credential
  <2> QED
    BY <1>17, <2>1, EmptySeq, NoInstanceType DEF Reply, Goto
<1>18. ASSUME NEW c \in creds, NEW d \in dbs, Connect(c, d)
      PROVE  TypeOK'
  BY <1>18 DEF Connect, OpenSession, handlerVars
<1>19. ASSUME NEW x \in sessions, Disconnect(x)
      PROVE  TypeOK'
  BY <1>19 DEF Disconnect, CloseSession, handlerVars
<1>20. ASSUME Restart
      PROVE  TypeOK'
  BY <1>20, EmptySeq, NoInstanceType DEF Restart
<1>21. CASE UNCHANGED vars
  BY <1>21 DEF vars
<1> QED
  BY <1>1, <1>2, <1>3, <1>4, <1>5, <1>6, <1>7, <1>8, <1>9, <1>10, <1>11, <1>12, <1>13, <1>14, <1>15, <1>16, <1>17, <1>18, <1>19, <1>20, <1>21
     DEF Next, Environment, Handle, CreateInstance, BindInstance,
         DeleteInstance

\* Every behaviour keeps to the types.
THEOREM TypeCorrect == Spec => []TypeOK
BY TypeInit, TypeNext, PTL DEF Spec

----------------------------------------------------------------------------
(* Names belong to one instance, without "entropy". *)

\* A step that saves and grants nothing, and sends no goroutine into the
\* statements of a creation or a deprovision, keeps the ownership.
LEMMA OwnershipFrame ==
    ASSUME Ownership,
           rows' = rows, drawn' = drawn, grants' \subseteq grants,
           \A v \in Workers : pc'[v] \in Creating \cup Deleting =>
               /\ pc[v] \in Creating <=> pc'[v] \in Creating
               /\ pc[v] \in Deleting <=> pc'[v] \in Deleting
               /\ inst'[v] = inst[v] /\ req'[v] = req[v]
    PROVE  Ownership'
<1> USE DEF Ownership, OneDraw
<1>1. RowsOfOneDraw'
  BY DEF RowsOfOneDraw
<1>2. CreatesAreFresh'
  BY DEF CreatesAreFresh
<1>3. NamesOfOneInstance'
  BY DEF NamesOfOneInstance
<1>4. DeletesFoundRow'
  BY DEF DeletesFoundRow
<1>5. GrantsOfOneDraw'
  BY DEF GrantsOfOneDraw
<1> QED
  BY <1>1, <1>2, <1>3, <1>4, <1>5

LEMMA OwnershipInit == Init => Ownership
BY DEF Init, RdsInit, TableInit, Ownership, RowsOfOneDraw, CreatesAreFresh,
       NamesOfOneInstance, DeletesFoundRow, GrantsOfOneDraw, Creating,
       Deleting

\* The steps OwnershipFrame speaks of.
LEMMA OwnershipQuiet ==
    ASSUME TypeOK, Ownership,
           \/ \E w \in Workers :
                  \/ \E op \in Ops, u \in Uuids : Receive(w, op, u)
                  \/ CreateConflict(w)
                  \/ CreateRefused(w)
                  \/ ExecCreateDatabase(w)
                  \/ ExecCreateUser(w)
                  \/ BindMissing(w)
                  \/ BindFound(w)
                  \/ Unbind(w)
                  \/ DeleteMissing(w)
                  \/ ExecDropDatabase(w)
                  \/ ExecDropUser(w)
                  \/ Reply(w)
           \/ \E c \in creds, d \in dbs : Connect(c, d)
           \/ \E d \in sessions : Disconnect(d)
           \/ Restart
           \/ UNCHANGED vars
    PROVE  Ownership'
<1> USE OwnershipFrame DEF TypeOK, Goto, rdsVars, Creating, Deleting, Labels
<1>1. ASSUME NEW w \in Workers, NEW op \in Ops, NEW u \in Uuids,
             Receive(w, op, u)
      PROVE  Ownership'
  BY <1>1 DEF Receive
<1>2. ASSUME NEW w \in Workers, CreateConflict(w)
      PROVE  Ownership'
  BY <1>2 DEF CreateConflict, Answer
<1>3. ASSUME NEW w \in Workers, CreateRefused(w)
      PROVE  Ownership'
  BY <1>3 DEF CreateRefused, Answer
<1>4. ASSUME NEW w \in Workers, ExecCreateDatabase(w)
      PROVE  Ownership'
  BY <1>4 DEF ExecCreateDatabase, Try, CreateDatabase
<1>5. ASSUME NEW w \in Workers, ExecCreateUser(w)
      PROVE  Ownership'
  BY <1>5 DEF ExecCreateUser, Try, CreateUser
<1>6. ASSUME NEW w \in Workers, BindMissing(w)
      PROVE  Ownership'
  BY <1>6 DEF BindMissing, Answer
<1>7. ASSUME NEW w \in Workers, BindFound(w)
      PROVE  Ownership'
  BY <1>7 DEF BindFound, Answer
<1>8. ASSUME NEW w \in Workers, Unbind(w)
      PROVE  Ownership'
  BY <1>8 DEF Unbind, Answer
<1>9. ASSUME NEW w \in Workers, DeleteMissing(w)
      PROVE  Ownership'
  BY <1>9 DEF DeleteMissing, Answer
<1>10. ASSUME NEW w \in Workers, ExecDropDatabase(w)
      PROVE  Ownership'
  BY <1>10 DEF ExecDropDatabase, Try, DropDatabase
<1>11. ASSUME NEW w \in Workers, ExecDropUser(w)
      PROVE  Ownership'
  BY <1>11 DEF ExecDropUser, Try, DropUser
<1>12. ASSUME NEW w \in Workers, Reply(w)
      PROVE  Ownership'
  BY <1>12 DEF Reply
<1>13. ASSUME NEW c \in creds, NEW d \in dbs, Connect(c, d)
      PROVE  Ownership'
  BY <1>13 DEF Connect, OpenSession, handlerVars
<1>14. ASSUME NEW d \in sessions, Disconnect(d)
      PROVE  Ownership'
  BY <1>14 DEF Disconnect, CloseSession, handlerVars
<1>15. CASE Restart
  BY <1>15 DEF Restart
<1>16. CASE UNCHANGED vars
  BY <1>16 DEF vars
<1> QED
  BY <1>1, <1>2, <1>3, <1>4, <1>5, <1>6, <1>7, <1>8, <1>9, <1>10, <1>11, <1>12, <1>13, <1>14, <1>15, <1>16

LEMMA OwnershipPrepare ==
    ASSUME "entropy" \notin Faults, TypeOK, Ownership,
           NEW w \in Workers, CreatePrepare(w)
    PROVE  Ownership'
<1> USE DEF Ownership, OneDraw
<1> DEFINE new == [id |-> 0, db |-> drawn + 1, user |-> drawn + 1,
                   password |-> drawn + 1]
<1>1. inst' = [inst EXCEPT ![w] = new]
  <2>1. RandStr(drawn + 1, "entropy" \in Faults) = {drawn + 1}
    BY DEF RandStr
  <2> QED
    BY <2>1 DEF CreatePrepare
<1>2. /\ drawn \in Nat /\ drawn' = drawn + 1
      /\ rows' = rows /\ grants' = grants /\ req' = req
      /\ pc' = [pc EXCEPT ![w] = "create_db"]
      /\ req[w].op = "create"
  BY DEF CreatePrepare, Awaiting, Goto, TypeOK, rdsVars
<1>3. /\ inst'[w] = new /\ pc'[w] \in Creating /\ pc'[w] \notin Deleting
      /\ \A v \in Workers \ {w} : inst'[v] = inst[v] /\ pc'[v] = pc[v]
  BY <1>1, <1>2 DEF TypeOK, Creating, Deleting
<1>4. /\ new.db = drawn + 1 /\ new.user = drawn + 1
      /\ new.password = drawn + 1
  OBVIOUS
<1> HIDE DEF new
<1>5. RowsOfOneDraw'
  BY <1>2 DEF RowsOfOneDraw
<1>6. CreatesAreFresh'
  <2>1. \A i \in DOMAIN rows : rows[i].db # drawn + 1
    BY <1>2 DEF RowsOfOneDraw
  <2>2. \A v \in Workers : pc[v] \in Creating => inst[v].db # drawn + 1
    BY <1>2 DEF CreatesAreFresh
  <2> QED
    BY <1>2, <1>3, <1>4, <2>1, <2>2 DEF CreatesAreFresh
<1>7. NamesOfOneInstance'
  BY <1>2 DEF NamesOfOneInstance
<1>8. DeletesFoundRow'
  BY <1>2, <1>3 DEF DeletesFoundRow
<1>9. GrantsOfOneDraw'
  BY <1>2 DEF GrantsOfOneDraw
<1> QED
  BY <1>5, <1>6, <1>7, <1>8, <1>9

LEMMA OwnershipGrant ==
    ASSUME TypeOK, Ownership, NEW w \in Workers, ExecGrant(w)
    PROVE  Ownership'
<1> USE DEF Ownership, OneDraw
<1>1. /\ rows' = rows /\ drawn' = drawn /\ inst' = inst /\ req' = req
      /\ pc' = [pc EXCEPT ![w] = "save"] /\ pc[w] = "grant"
  BY DEF ExecGrant, Goto
<1>2. grants' \subseteq
          grants \cup {[db |-> inst[w].db, role |-> inst[w].user]}
  BY DEF ExecGrant, Try, GrantAll, rdsVars
<1>3. \A v \in Workers :
          /\ pc'[v] \in Creating <=> pc[v] \in Creating
          /\ pc'[v] \in Deleting <=> pc[v] \in Deleting
  BY <1>1 DEF TypeOK, Creating, Deleting
<1>4. pc[w] \in Creating
  BY <1>1 DEF Creating
<1>5. RowsOfOneDraw'
  BY <1>1 DEF RowsOfOneDraw
<1>6. CreatesAreFresh'
  BY <1>1, <1>3 DEF CreatesAreFresh
<1>7. NamesOfOneInstance'
  BY <1>1 DEF NamesOfOneInstance
<1>8. DeletesFoundRow'
  BY <1>1, <1>3 DEF DeletesFoundRow
<1>9. GrantsOfOneDraw'
  BY <1>2, <1>4 DEF GrantsOfOneDraw, CreatesAreFresh
<1> QED
  BY <1>5, <1>6, <1>7, <1>8, <1>9

LEMMA OwnershipSave ==
    ASSUME TypeOK, Ownership, NEW w \in Workers, SaveInstance(w)
    PROVE  Ownership'
<1> USE DEF Ownership, OneDraw
<1>1. /\ drawn' = drawn /\ inst' = inst /\ req' = req /\ grants' = grants
      /\ pc' = [pc EXCEPT ![w] = "reply"] /\ pc[w] = "save"
      /\ Insert(NewRow(w)) \/ InsertTwice(NewRow(w)) \/ rows' = rows
  BY DEF SaveInstance, Answer, Goto, rdsVars
<1>2. /\ pc[w] \in Creating /\ pc'[w] \notin Creating \cup Deleting
      /\ \A v \in Workers \ {w} : pc'[v] = pc[v]
  BY <1>1 DEF TypeOK, Creating, Deleting
<1>3. CASE rows' = rows
  BY <1>1, <1>2, <1>3, OwnershipFrame DEF TypeOK
<1>4. ASSUME Insert(NewRow(w)) \/ InsertTwice(NewRow(w))
      PROVE  Ownership'
  <2> DEFINE r == NewRow(w)
  <2>1. r \in Row
    BY <1>1, NewRowType DEF TypeOK
  <2>2. /\ r.db = inst[w].db /\ r.user = inst[w].user
        /\ r.cipher.plain = inst[w].password
    BY DEF NewRow, Encrypt
  <2> HIDE DEF r
  <2>3. /\ \A j \in DOMAIN rows : j \in DOMAIN rows' /\ rows'[j] = rows[j]
        /\ \A j \in DOMAIN rows' :
               (j \in DOMAIN rows /\ rows'[j] = rows[j]) \/ rows'[j] = r
    BY <1>4, <2>1, InsertedRows DEF TypeOK, TableTypeOK, r
  <2>4. /\ OneDraw(inst[w]) /\ inst[w].password = inst[w].db
        /\ \A i \in DOMAIN rows : rows[i].db # inst[w].db
        /\ \A v \in Workers \ {w} :
               pc[v] \in Creating => inst[v].db # inst[w].db
    BY <1>2 DEF CreatesAreFresh
  <2>5. RowsOfOneDraw'
    BY <1>1, <2>2, <2>3, <2>4 DEF RowsOfOneDraw
  <2>6. CreatesAreFresh'
    BY <1>1, <1>2, <2>2, <2>3, <2>4 DEF CreatesAreFresh
  <2>7. NamesOfOneInstance'
    BY <2>2, <2>3, <2>4 DEF NamesOfOneInstance
  <2>8. DeletesFoundRow'
    BY <1>1, <1>2, <2>3 DEF DeletesFoundRow
  <2>9. GrantsOfOneDraw'
    BY <1>1 DEF GrantsOfOneDraw
  <2> QED
    BY <2>5, <2>6, <2>7, <2>8, <2>9
<1> QED
  BY <1>1, <1>3, <1>4

LEMMA OwnershipFound ==
    ASSUME TypeOK, Ownership, NEW w \in Workers, DeleteFound(w)
    PROVE  Ownership'
<1> USE DEF Ownership, OneDraw
<1>1. /\ drawn' = drawn /\ rows' = rows /\ req' = req /\ grants' = grants
      /\ pc' = [pc EXCEPT ![w] = "drop_db"] /\ req[w].op = "delete"
  BY DEF DeleteFound, Goto, Awaiting, rdsVars
<1>2. PICK i \in DOMAIN rows :
          /\ rows[i].uuid = req[w].uuid
          /\ inst' = [inst EXCEPT ![w] =
                 [id |-> i, db |-> rows[i].db, user |-> rows[i].user,
                  password |-> EmptyPassword]]
  BY DEF DeleteFound, Found, FirstLive, LiveFor
<1>3. /\ inst'[w].id = i /\ inst'[w].db = rows[i].db
      /\ inst'[w].user = rows[i].user
      /\ pc'[w] \notin Creating
      /\ \A v \in Workers \ {w} : pc'[v] = pc[v] /\ inst'[v] = inst[v]
  BY <1>1, <1>2 DEF TypeOK, Creating
<1>4. RowsOfOneDraw'
  BY <1>1 DEF RowsOfOneDraw
<1>5. CreatesAreFresh'
  BY <1>1, <1>3 DEF CreatesAreFresh
<1>6. NamesOfOneInstance'
  BY <1>1 DEF NamesOfOneInstance
<1>7. DeletesFoundRow'
  BY <1>1, <1>2, <1>3 DEF DeletesFoundRow, RowsOfOneDraw
<1>8. GrantsOfOneDraw'
  BY <1>1 DEF GrantsOfOneDraw
<1> QED
  BY <1>4, <1>5, <1>6, <1>7, <1>8

LEMMA OwnershipDeleteRow ==
    ASSUME TypeOK, Ownership, NEW w \in Workers, DeleteRow(w)
    PROVE  Ownership'
<1> USE DEF Ownership, OneDraw
<1>1. /\ drawn' = drawn /\ inst' = inst /\ req' = req /\ grants' = grants
      /\ pc' = [pc EXCEPT ![w] = "reply"]
      /\ SoftDelete(inst[w].id) \/ rows' = rows
  BY DEF DeleteRow, Try, Answer, Goto, rdsVars
<1>2. /\ pc'[w] \notin Creating \cup Deleting
      /\ \A v \in Workers \ {w} : pc'[v] = pc[v]
  BY <1>1 DEF TypeOK, Creating, Deleting
<1>3. /\ DOMAIN rows' = DOMAIN rows
      /\ \A j \in DOMAIN rows :
             /\ rows'[j].uuid = rows[j].uuid
             /\ rows'[j].db = rows[j].db
             /\ rows'[j].user = rows[j].user
             /\ rows'[j].cipher = rows[j].cipher
  BY <1>1, SoftDeletedRows DEF TypeOK, TableTypeOK
<1>4. RowsOfOneDraw'
  BY <1>1, <1>3 DEF RowsOfOneDraw
<1>5. CreatesAreFresh'
  BY <1>1, <1>2, <1>3 DEF CreatesAreFresh
<1>6. NamesOfOneInstance'
  BY <1>3 DEF NamesOfOneInstance
<1>7. DeletesFoundRow'
  BY <1>1, <1>2, <1>3 DEF DeletesFoundRow
<1>8. GrantsOfOneDraw'
  BY <1>1 DEF GrantsOfOneDraw
<1> QED
  BY <1>4, <1>5, <1>6, <1>7, <1>8

LEMMA OwnershipNext ==
    ASSUME "entropy" \notin Faults, TypeOK, Ownership, [Next]_vars
    PROVE  Ownership'
BY OwnershipQuiet, OwnershipPrepare, OwnershipGrant, OwnershipSave,
   OwnershipFound, OwnershipDeleteRow
   DEF Next, Environment, Handle, CreateInstance, BindInstance,
       DeleteInstance

\* The first inductive invariant.
THEOREM OwnershipHolds ==
    ASSUME "entropy" \notin Faults
    PROVE  Spec => []Ownership
<1>1. TypeOK /\ Ownership /\ [Next]_vars => Ownership'
  BY OwnershipNext
<1> QED
  BY <1>1, OwnershipInit, TypeCorrect, PTL DEF Spec

\* A GRANT never joins a user and a database of two tenants, whatever fails but the source
\* of random bytes.  (What PUBLIC has on every database is not a GRANT.)
THEOREM GrantsStayApart ==
    ASSUME "entropy" \notin Faults
    PROVE  Spec => []GrantsApart
<1>1. Ownership => GrantsApart
  BY DEF Ownership, RowsOfOneDraw, OneDraw, NamesOfOneInstance,
         GrantsOfOneDraw, GrantsApart, Granted
<1> QED
  BY <1>1, OwnershipHolds, PTL

\* Only DROP DATABASE of a deprovision takes a database away.
LEMMA OnlyDropDatabaseDrops ==
    ASSUME [Next]_vars, NEW d \in dbs \ dbs'
    PROVE  \E w \in Workers : pc[w] = "drop_db" /\ inst[w].db = d
<1> USE DEF rdsVars, Try
<1>1. ASSUME NEW w \in Workers, Handle(w)
      PROVE  pc[w] = "drop_db" /\ inst[w].db = d
  <2>1. ~ \/ CreateConflict(w) \/ CreateRefused(w) \/ CreatePrepare(w)
          \/ SaveInstance(w) \/ BindMissing(w) \/ BindFound(w)
          \/ Unbind(w) \/ DeleteMissing(w) \/ DeleteFound(w)
          \/ DeleteRow(w) \/ Reply(w)
    BY DEF CreateConflict, CreateRefused, CreatePrepare, SaveInstance,
           BindMissing, BindFound, Unbind, DeleteMissing, DeleteFound,
           DeleteRow, Reply
  <2>2. ~ \/ ExecCreateDatabase(w) \/ ExecCreateUser(w) \/ ExecGrant(w)
          \/ ExecDropUser(w)
    BY DEF ExecCreateDatabase, CreateDatabase, ExecCreateUser, CreateUser,
           ExecGrant, GrantAll, ExecDropUser, DropUser
  <2>3. ExecDropDatabase(w)
    BY <1>1, <2>1, <2>2 DEF Handle, CreateInstance, BindInstance,
                            DeleteInstance
  <2> QED
    BY <2>3 DEF ExecDropDatabase, DropDatabase
<1>2. ~Environment
  BY DEF Environment, Receive, Connect, OpenSession, Disconnect,
         CloseSession, Restart
<1>3. dbs' # dbs
  OBVIOUS
<1> QED
  BY <1>1, <1>2, <1>3 DEF Next, vars

\* Nobody loses a database to the request of another instance.
THEOREM DatabasesAreDroppedByTheirOwners ==
    ASSUME "entropy" \notin Faults
    PROVE  Spec => DroppedByItsOwnDelete
<1> DEFINE A == \A i \in DOMAIN rows :
                    rows[i].db \in dbs \ dbs' =>
                        \E w \in Served(rows[i].uuid) : req[w].op = "delete"
<1>1. TypeOK /\ Ownership /\ [Next]_vars => [A]_vars
  <2> SUFFICES ASSUME TypeOK, Ownership, [Next]_vars,
                      NEW i \in DOMAIN rows, rows[i].db \in dbs \ dbs'
               PROVE  \E w \in Served(rows[i].uuid) : req[w].op = "delete"
    OBVIOUS
  <2>1. PICK w \in Workers : pc[w] = "drop_db" /\ inst[w].db = rows[i].db
    BY OnlyDropDatabaseDrops
  <2>2. /\ req[w].op = "delete"
        /\ inst[w].id \in DOMAIN rows
        /\ rows[inst[w].id].uuid = req[w].uuid
        /\ rows[inst[w].id].db = rows[i].db
    BY <2>1 DEF Ownership, DeletesFoundRow, Deleting
  <2>3. req[w].uuid = rows[i].uuid
    BY <2>2 DEF Ownership, NamesOfOneInstance
  <2> QED
    BY <2>2, <2>3 DEF Served
<1> QED
  BY <1>1, OwnershipHolds, TypeCorrect, PTL DEF Spec, DroppedByItsOwnDelete

----------------------------------------------------------------------------
(* One live row per instance, if requests for an instance are serialized. *)

LEMMA UniquenessFrame ==
    ASSUME Uniqueness, rows' = rows,
           \A v \in Workers :
               /\ pc'[v] # "idle" => pc[v] # "idle" /\ req'[v] = req[v]
               /\ pc'[v] \in Creating => pc[v] \in Creating /\ pc'[v] # "idle"
    PROVE  Uniqueness'
BY DEF Uniqueness, Serialized, CreatesUnprovisioned, OneLiveRow, NoLive,
       LiveFor

\* The steps UniquenessFrame speaks of.
LEMMA UniquenessQuiet ==
    ASSUME TypeOK, Uniqueness,
           \/ \E w \in Workers :
                  \/ CreateConflict(w)
                  \/ CreateRefused(w)
                  \/ ExecCreateDatabase(w)
                  \/ ExecCreateUser(w)
                  \/ ExecGrant(w)
                  \/ BindMissing(w)
                  \/ BindFound(w)
                  \/ Unbind(w)
                  \/ DeleteMissing(w)
                  \/ DeleteFound(w)
                  \/ ExecDropDatabase(w)
                  \/ ExecDropUser(w)
                  \/ Reply(w)
           \/ \E c \in creds, d \in dbs : Connect(c, d)
           \/ \E d \in sessions : Disconnect(d)
           \/ Restart
           \/ UNCHANGED vars
    PROVE  Uniqueness'
<1> USE UniquenessFrame DEF TypeOK, Goto, Creating, Awaiting
<1>1. ASSUME NEW w \in Workers, CreateConflict(w)
      PROVE  Uniqueness'
  BY <1>1 DEF CreateConflict, Answer
<1>2. ASSUME NEW w \in Workers, CreateRefused(w)
      PROVE  Uniqueness'
  BY <1>2 DEF CreateRefused, Answer
<1>3. ASSUME NEW w \in Workers, ExecCreateDatabase(w)
      PROVE  Uniqueness'
  BY <1>3 DEF ExecCreateDatabase
<1>4. ASSUME NEW w \in Workers, ExecCreateUser(w)
      PROVE  Uniqueness'
  BY <1>4 DEF ExecCreateUser
<1>5. ASSUME NEW w \in Workers, ExecGrant(w)
      PROVE  Uniqueness'
  BY <1>5 DEF ExecGrant
<1>6. ASSUME NEW w \in Workers, BindMissing(w)
      PROVE  Uniqueness'
  BY <1>6 DEF BindMissing, Answer
<1>7. ASSUME NEW w \in Workers, BindFound(w)
      PROVE  Uniqueness'
  BY <1>7 DEF BindFound, Answer
<1>8. ASSUME NEW w \in Workers, Unbind(w)
      PROVE  Uniqueness'
  BY <1>8 DEF Unbind, Answer
<1>9. ASSUME NEW w \in Workers, DeleteMissing(w)
      PROVE  Uniqueness'
  BY <1>9 DEF DeleteMissing, Answer
<1>10. ASSUME NEW w \in Workers, DeleteFound(w)
      PROVE  Uniqueness'
  BY <1>10 DEF DeleteFound
<1>11. ASSUME NEW w \in Workers, ExecDropDatabase(w)
      PROVE  Uniqueness'
  BY <1>11 DEF ExecDropDatabase
<1>12. ASSUME NEW w \in Workers, ExecDropUser(w)
      PROVE  Uniqueness'
  BY <1>12 DEF ExecDropUser
<1>13. ASSUME NEW w \in Workers, Reply(w)
      PROVE  Uniqueness'
  BY <1>13 DEF Reply
<1>14. ASSUME NEW c \in creds, NEW d \in dbs, Connect(c, d)
      PROVE  Uniqueness'
  BY <1>14 DEF Connect, handlerVars
<1>15. ASSUME NEW d \in sessions, Disconnect(d)
      PROVE  Uniqueness'
  BY <1>15 DEF Disconnect, handlerVars
<1>16. CASE Restart
  BY <1>16 DEF Restart
<1>17. CASE UNCHANGED vars
  BY <1>17 DEF vars
<1> QED
  BY <1>1, <1>2, <1>3, <1>4, <1>5, <1>6, <1>7, <1>8, <1>9, <1>10, <1>11, <1>12, <1>13, <1>14, <1>15, <1>16, <1>17

LEMMA UniquenessReceive ==
    ASSUME ClientSerializes, TypeOK, Uniqueness,
           NEW w \in Workers, NEW op \in Ops, NEW u \in Uuids,
           Receive(w, op, u)
    PROVE  Uniqueness'
<1>1. /\ rows' = rows
      /\ pc'[w] = "lookup" /\ req'[w].uuid = u
      /\ \A v \in Workers \ {w} : pc'[v] = pc[v] /\ req'[v] = req[v]
      /\ \A v \in Workers : pc[v] # "idle" => req[v].uuid # u
  BY DEF Receive, Goto, TypeOK
<1>2. Serialized'
  BY <1>1 DEF Uniqueness, Serialized
<1>3. CreatesUnprovisioned'
  BY <1>1 DEF Uniqueness, CreatesUnprovisioned, NoLive, LiveFor, Creating
<1>4. OneLiveRow'
  BY <1>1 DEF Uniqueness, OneLiveRow
<1> QED
  BY <1>2, <1>3, <1>4 DEF Uniqueness

LEMMA UniquenessPrepare ==
    ASSUME "read" \notin Faults, TypeOK, Uniqueness,
           NEW w \in Workers, CreatePrepare(w)
    PROVE  Uniqueness'
<1>1. /\ rows' = rows /\ req' = req
      /\ pc[w] # "idle" /\ pc'[w] # "idle"
      /\ \A v \in Workers \ {w} : pc'[v] = pc[v]
      /\ NoLive(req[w].uuid)
  BY DEF CreatePrepare, Awaiting, Goto, TypeOK, Missed
<1>2. Serialized'
  BY <1>1 DEF Uniqueness, Serialized
<1>3. CreatesUnprovisioned'
  BY <1>1 DEF Uniqueness, CreatesUnprovisioned, NoLive, LiveFor
<1>4. OneLiveRow'
  BY <1>1 DEF Uniqueness, OneLiveRow
<1> QED
  BY <1>2, <1>3, <1>4 DEF Uniqueness

LEMMA UniquenessSave ==
    ASSUME "resend" \notin Faults, TypeOK, Uniqueness,
           NEW w \in Workers, SaveInstance(w)
    PROVE  Uniqueness'
<1>1. /\ req' = req /\ pc[w] = "save"
      /\ pc' = [pc EXCEPT ![w] = "reply"]
      /\ Insert(NewRow(w)) \/ rows' = rows
  BY DEF SaveInstance, Answer, Goto
<1>2. /\ pc[w] \in Creating /\ pc[w] # "idle" /\ pc'[w] \notin Creating
      /\ \A v \in Workers \ {w} : pc'[v] = pc[v]
  BY <1>1 DEF TypeOK, Creating
<1>3. CASE rows' = rows
  BY <1>1, <1>2, <1>3, UniquenessFrame DEF Creating
<1>4. ASSUME Insert(NewRow(w))
      PROVE  Uniqueness'
  <2> DEFINE r == NewRow(w)
  <2>1. r \in Row
    BY <1>2, NewRowType DEF TypeOK
  <2>2. r.uuid = req[w].uuid
    BY DEF NewRow
  <2> HIDE DEF r
  <2>3. /\ rows \in Seq(Row) /\ rows' = Append(rows, r)
        /\ Len(rows) \in Nat /\ DOMAIN rows = 1 .. Len(rows)
    BY <1>4, LenProperties DEF Insert, TypeOK, TableTypeOK, r
  <2>4. /\ DOMAIN rows' = 1 .. Len(rows) + 1
        /\ rows'[Len(rows) + 1] = r
        /\ \A j \in DOMAIN rows : rows'[j] = rows[j]
    BY <2>1, <2>3
  <2>5. NoLive(req[w].uuid)
    BY <1>2 DEF Uniqueness, CreatesUnprovisioned
  <2>6. Serialized'
    BY <1>1, <1>2 DEF Uniqueness, Serialized
  <2>7. CreatesUnprovisioned'
    <3> SUFFICES ASSUME NEW v \in Workers, pc'[v] \in Creating,
                        NEW j \in DOMAIN rows',
                        rows'[j].live, rows'[j].uuid = req[v].uuid
                 PROVE  FALSE
      BY <1>1 DEF CreatesUnprovisioned, NoLive, LiveFor
    <3>1. v # w /\ pc[v] \in Creating /\ pc[v] # "idle"
      BY <1>2 DEF Creating
    <3>2. NoLive(req[v].uuid) /\ req[v].uuid # req[w].uuid
      BY <1>2, <3>1 DEF Uniqueness, CreatesUnprovisioned, Serialized
    <3>3. j \in DOMAIN rows \/ j = Len(rows) + 1
      BY <2>3, <2>4
    <3> QED
      BY <2>2, <2>4, <3>2, <3>3 DEF NoLive, LiveFor
  <2>8. OneLiveRow'
    BY <2>2, <2>3, <2>4, <2>5 DEF Uniqueness, OneLiveRow, NoLive, LiveFor
  <2> QED
    BY <2>6, <2>7, <2>8 DEF Uniqueness
<1> QED
  BY <1>1, <1>3, <1>4

LEMMA UniquenessDeleteRow ==
    ASSUME TypeOK, Uniqueness, NEW w \in Workers, DeleteRow(w)
    PROVE  Uniqueness'
<1>1. /\ req' = req /\ pc[w] # "idle"
      /\ pc' = [pc EXCEPT ![w] = "reply"]
      /\ SoftDelete(inst[w].id) \/ rows' = rows
  BY DEF DeleteRow, Try, Answer, Goto
<1>2. /\ pc'[w] \notin Creating
      /\ \A v \in Workers \ {w} : pc'[v] = pc[v]
  BY <1>1 DEF TypeOK, Creating
<1>3. /\ DOMAIN rows' = DOMAIN rows
      /\ \A j \in DOMAIN rows :
             rows'[j].uuid = rows[j].uuid /\ (rows'[j].live => rows[j].live)
  BY <1>1, SoftDeletedRows DEF TypeOK, TableTypeOK
<1>4. Serialized'
  BY <1>1, <1>2 DEF Uniqueness, Serialized
<1>5. CreatesUnprovisioned'
  BY <1>1, <1>2, <1>3 DEF Uniqueness, CreatesUnprovisioned, NoLive, LiveFor
<1>6. OneLiveRow'
  BY <1>3 DEF Uniqueness, OneLiveRow
<1> QED
  BY <1>4, <1>5, <1>6 DEF Uniqueness

LEMMA UniquenessInit == Init => Uniqueness
BY DEF Init, TableInit, Uniqueness, Serialized, CreatesUnprovisioned,
       OneLiveRow, Creating

LEMMA UniquenessNext ==
    ASSUME ClientSerializes, "read" \notin Faults, "resend" \notin Faults,
           TypeOK, Uniqueness, [Next]_vars
    PROVE  Uniqueness'
BY UniquenessQuiet, UniquenessReceive, UniquenessPrepare, UniquenessSave,
   UniquenessDeleteRow
   DEF Next, Environment, Handle, CreateInstance, BindInstance,
       DeleteInstance

\* A platform that serializes the requests of an instance never gets two
\* rows for it, wherever the broker crashes.
THEOREM OneRowPerInstance ==
    ASSUME ClientSerializes, "read" \notin Faults, "resend" \notin Faults
    PROVE  Spec => []OneLiveRow
<1>1. TypeOK /\ Uniqueness /\ [Next]_vars => Uniqueness'
  BY UniquenessNext
<1>2. Uniqueness => OneLiveRow
  BY DEF Uniqueness
<1> QED
  BY <1>1, <1>2, UniquenessInit, TypeCorrect, PTL DEF Spec

----------------------------------------------------------------------------
(* Calls in progress. *)

LEMMA CallsFrame ==
    ASSUME CallsInProgress, rows' = rows,
           \A v \in Workers :
               /\ pc'[v] \in Creating =>
                      \/ req'[v].op = "create"
                      \/ pc[v] \in Creating /\ req'[v] = req[v]
               /\ pc'[v] \in Deleting =>
                      /\ pc[v] \in Deleting
                      /\ req'[v] = req[v]
                      /\ inst'[v] = inst[v]
               /\ pc'[v] = "reply" =>
                      \/ out'[v][1] \in Codes
                      \/ pc[v] = "reply" /\ out'[v] = out[v]
    PROVE  CallsInProgress'
BY DEF CallsInProgress, LiveFor

\* The steps CallsFrame speaks of.
LEMMA CallsQuiet ==
    ASSUME TypeOK, CallsInProgress,
           \/ \E w \in Workers :
                  \/ \E op \in Ops, u \in Uuids : Receive(w, op, u)
                  \/ CreateConflict(w)
                  \/ CreateRefused(w)
                  \/ CreatePrepare(w)
                  \/ ExecCreateDatabase(w)
                  \/ ExecCreateUser(w)
                  \/ ExecGrant(w)
                  \/ BindMissing(w)
                  \/ BindFound(w)
                  \/ Unbind(w)
                  \/ DeleteMissing(w)
                  \/ ExecDropDatabase(w)
                  \/ ExecDropUser(w)
                  \/ Reply(w)
           \/ \E c \in creds, d \in dbs : Connect(c, d)
           \/ \E d \in sessions : Disconnect(d)
           \/ Restart
           \/ UNCHANGED vars
    PROVE  CallsInProgress'
<1> USE CallsFrame DEF TypeOK, Goto, Awaiting, Codes, Creating, Deleting
<1>1. ASSUME NEW w \in Workers, NEW op \in Ops, NEW u \in Uuids,
             Receive(w, op, u)
      PROVE  CallsInProgress'
  BY <1>1 DEF Receive
<1>2. ASSUME NEW w \in Workers, CreateConflict(w)
      PROVE  CallsInProgress'
  BY <1>2 DEF CreateConflict, Answer
<1>3. ASSUME NEW w \in Workers, CreateRefused(w)
      PROVE  CallsInProgress'
  BY <1>3 DEF CreateRefused, Answer
<1>4. ASSUME NEW w \in Workers, CreatePrepare(w)
      PROVE  CallsInProgress'
  BY <1>4 DEF CreatePrepare
<1>5. ASSUME NEW w \in Workers, ExecCreateDatabase(w)
      PROVE  CallsInProgress'
  BY <1>5 DEF ExecCreateDatabase
<1>6. ASSUME NEW w \in Workers, ExecCreateUser(w)
      PROVE  CallsInProgress'
  BY <1>6 DEF ExecCreateUser
<1>7. ASSUME NEW w \in Workers, ExecGrant(w)
      PROVE  CallsInProgress'
  BY <1>7 DEF ExecGrant
<1>8. ASSUME NEW w \in Workers, BindMissing(w)
      PROVE  CallsInProgress'
  BY <1>8 DEF BindMissing, Answer
<1>9. ASSUME NEW w \in Workers, BindFound(w)
      PROVE  CallsInProgress'
  BY <1>9 DEF BindFound, Answer
<1>10. ASSUME NEW w \in Workers, Unbind(w)
      PROVE  CallsInProgress'
  BY <1>10 DEF Unbind, Answer
<1>11. ASSUME NEW w \in Workers, DeleteMissing(w)
      PROVE  CallsInProgress'
  BY <1>11 DEF DeleteMissing, Answer
<1>12. ASSUME NEW w \in Workers, ExecDropDatabase(w)
      PROVE  CallsInProgress'
  BY <1>12 DEF ExecDropDatabase
<1>13. ASSUME NEW w \in Workers, ExecDropUser(w)
      PROVE  CallsInProgress'
  BY <1>13 DEF ExecDropUser
<1>14. ASSUME NEW w \in Workers, Reply(w)
      PROVE  CallsInProgress'
  BY <1>14 DEF Reply
<1>15. ASSUME NEW c \in creds, NEW d \in dbs, Connect(c, d)
      PROVE  CallsInProgress'
  BY <1>15 DEF Connect, handlerVars
<1>16. ASSUME NEW d \in sessions, Disconnect(d)
      PROVE  CallsInProgress'
  BY <1>16 DEF Disconnect, handlerVars
<1>17. CASE Restart
  BY <1>17 DEF Restart
<1>18. CASE UNCHANGED vars
  BY <1>18 DEF vars
<1> QED
  BY <1>1, <1>2, <1>3, <1>4, <1>5, <1>6, <1>7, <1>8, <1>9,
     <1>10, <1>11, <1>12, <1>13, <1>14, <1>15, <1>16, <1>17, <1>18

LEMMA CallsSave ==
    ASSUME TypeOK, CallsInProgress, NEW w \in Workers, SaveInstance(w)
    PROVE  CallsInProgress'
<1>1. /\ req' = req /\ inst' = inst /\ pc[w] = "save"
      /\ pc' = [pc EXCEPT ![w] = "reply"]
      /\ out' = [out EXCEPT ![w] = <<201>>]
      /\ Insert(NewRow(w)) \/ InsertTwice(NewRow(w)) \/ rows' = rows
  BY DEF SaveInstance, Answer, Goto
<1>2. /\ pc'[w] = "reply" /\ out'[w][1] = 201
      /\ \A v \in Workers \ {w} : pc'[v] = pc[v] /\ out'[v] = out[v]
  BY <1>1 DEF TypeOK
<1>3. NewRow(w) \in Row
  BY <1>1, NewRowType DEF TypeOK
<1>4. \A j \in DOMAIN rows : j \in DOMAIN rows' /\ rows'[j] = rows[j]
  BY <1>1, <1>3, InsertedRows DEF TypeOK, TableTypeOK
<1> QED
  BY <1>1, <1>2, <1>4
     DEF CallsInProgress, LiveFor, Creating, Deleting, Codes

LEMMA CallsFound ==
    ASSUME TypeOK, CallsInProgress, NEW w \in Workers, DeleteFound(w)
    PROVE  CallsInProgress'
<1>1. /\ rows' = rows /\ req' = req /\ out' = out /\ req[w].op = "delete"
      /\ pc' = [pc EXCEPT ![w] = "drop_db"]
  BY DEF DeleteFound, Awaiting, Goto
<1>2. PICK i \in DOMAIN rows :
          /\ LiveFor(req[w].uuid, i)
          /\ inst' = [inst EXCEPT ![w] =
                 [id |-> i, db |-> rows[i].db, user |-> rows[i].user,
                  password |-> EmptyPassword]]
  BY DEF DeleteFound, Found, FirstLive
<1>3. /\ pc'[w] = "drop_db" /\ inst'[w].id = i
      /\ \A v \in Workers \ {w} : pc'[v] = pc[v] /\ inst'[v] = inst[v]
  BY <1>1, <1>2 DEF TypeOK
<1> QED
  BY <1>1, <1>2, <1>3 DEF CallsInProgress, LiveFor, Creating, Deleting

\* Nobody else marks the row another deprovision works on: that row is of
\* its own instance, and requests for an instance are serialized.
LEMMA CallsDeleteRow ==
    ASSUME TypeOK, Uniqueness, CallsInProgress,
           NEW w \in Workers, DeleteRow(w)
    PROVE  CallsInProgress'
<1>1. /\ req' = req /\ inst' = inst /\ pc[w] = "soft_delete"
      /\ pc' = [pc EXCEPT ![w] = "reply"]
      /\ out' = [out EXCEPT ![w] = <<200>>]
      /\ SoftDelete(inst[w].id) \/ rows' = rows
  BY DEF DeleteRow, Try, Answer, Goto
<1>2. /\ pc'[w] = "reply" /\ out'[w][1] = 200
      /\ \A v \in Workers \ {w} : pc'[v] = pc[v] /\ out'[v] = out[v]
  BY <1>1 DEF TypeOK
<1>3. CASE rows' = rows
  BY <1>1, <1>2, <1>3, CallsFrame DEF Creating, Deleting, Codes
<1>4. CASE SoftDelete(inst[w].id)
  <2>1. /\ DOMAIN rows' = DOMAIN rows
        /\ \A j \in DOMAIN rows : j # inst[w].id => rows'[j] = rows[j]
    BY <1>4, SoftDeletedRows, LenProperties
       DEF TypeOK, TableTypeOK, SoftDelete
  <2>2. ASSUME NEW v \in Workers, pc'[v] \in Deleting
        PROVE  /\ req[v].op = "delete"
               /\ inst[v].id \in DOMAIN rows'
               /\ LiveFor(req[v].uuid, inst[v].id)'
    <3>1. v # w /\ pc[v] \in Deleting
      BY <1>2, <2>2 DEF Deleting
    <3>2. pc[v] # "idle" /\ pc[w] # "idle" /\ pc[w] \in Deleting
      BY <1>1, <3>1 DEF Deleting
    <3>3. req[v].uuid # req[w].uuid
      BY <3>1, <3>2 DEF Uniqueness, Serialized
    <3>4. /\ req[v].op = "delete" /\ inst[v].id \in DOMAIN rows
          /\ rows[inst[v].id].live /\ rows[inst[v].id].uuid = req[v].uuid
          /\ rows[inst[w].id].uuid = req[w].uuid
      BY <3>1, <3>2 DEF CallsInProgress, LiveFor
    <3>5. inst[v].id # inst[w].id
      BY <3>3, <3>4
    <3> QED
      BY <1>1, <2>1, <3>4, <3>5 DEF LiveFor
  <2> QED
    BY <1>1, <1>2, <2>2 DEF CallsInProgress, LiveFor, Creating, Codes
<1> QED
  BY <1>1, <1>3, <1>4

LEMMA CallsNext ==
    ASSUME TypeOK, Uniqueness, CallsInProgress, [Next]_vars
    PROVE  CallsInProgress'
BY CallsQuiet, CallsSave, CallsFound, CallsDeleteRow
   DEF Next, Environment, Handle, CreateInstance, BindInstance,
       DeleteInstance

\* The invariant of the refinement.
THEOREM RegistryInvHolds ==
    ASSUME ClientSerializes, "read" \notin Faults, "resend" \notin Faults
    PROVE  Spec => []RegistryInv
<1>1. Init => RegistryInv
  BY UniquenessInit
     DEF Init, RegistryInv, CallsInProgress, Creating, Deleting
<1>2. TypeOK /\ RegistryInv /\ [Next]_vars => RegistryInv'
  BY UniquenessNext, CallsNext DEF RegistryInv
<1> QED
  BY <1>1, <1>2, TypeCorrect, PTL DEF Spec

----------------------------------------------------------------------------
(* The steps of the registry. *)

LEMMA CallOfWorker == \A w \in Workers : Calls[w] = CallOf(w)
BY DEF Calls

LEMMA OneCallChanges ==
    ASSUME NEW w \in Workers, NEW c, CallOf(w)' = c,
           \A v \in Workers \ {w} :
               pc'[v] = pc[v] /\ req'[v] = req[v] /\ out'[v] = out[v]
    PROVE  Calls' = [Calls EXCEPT ![w] = c]
BY DEF Calls, CallOf

LEMMA TableAlone ==
    ASSUME rows' = rows
    PROVE  Provisioned' = Provisioned
BY DEF Provisioned, NoLive, LiveFor

\* A goroutine between two statements shows nothing to the platform.
LEMMA SilentStep ==
    ASSUME TypeOK, NEW w \in Workers, NEW label,
           pc[w] \notin {"idle", "reply"}, label \notin {"idle", "reply"},
           pc' = [pc EXCEPT ![w] = label],
           rows' = rows, req' = req, out' = out
    PROVE  UNCHANGED Registry!registryVars
<1>1. \A v \in Workers : CallOf(v)' = CallOf(v)
  BY DEF CallOf, TypeOK
<1>2. Calls' = Calls
  BY <1>1 DEF Calls
<1> QED
  BY <1>2, TableAlone DEF Registry!registryVars

\* A request in progress is a waiting call, and answering it answers the call.
LEMMA WaitingCall ==
    ASSUME TypeOK, NEW w \in Workers, pc[w] \notin {"idle", "reply"}
    PROVE  /\ Registry!Waiting(w, req[w].op)
           /\ Calls[w] = [op |-> req[w].op, uuid |-> req[w].uuid, answer |-> 0]
           /\ Calls[w].uuid = req[w].uuid
           /\ req[w].uuid \in Uuids
<1>1. req[w].op \in Ops /\ req[w].uuid \in Uuids
  BY DEF TypeOK, Request
<1>2. Calls[w] = [op |-> req[w].op, uuid |-> req[w].uuid, answer |-> 0]
  BY CallOfWorker DEF CallOf
<1>3. Calls[w].op = req[w].op /\ Calls[w].answer = 0
      /\ Calls[w].uuid = req[w].uuid
  BY <1>2
<1>4. Calls[w] # Registry!Idle
  <2>1. Registry!Idle.op = "none"
    BY DEF Registry!Idle
  <2>2. req[w].op # "none"
    BY <1>1 DEF Ops
  <2> QED
    BY <1>3, <2>1, <2>2
<1> QED
  BY <1>1, <1>2, <1>3, <1>4 DEF Registry!Waiting

LEMMA AnswerStep ==
    ASSUME TypeOK, NEW w \in Workers, NEW codes, NEW c, codes[1] = c,
           pc[w] \notin {"idle", "reply"}, Answer(w, codes), req' = req
    PROVE  Registry!AnswerCall(w, c)
<1>1. /\ pc'[w] = "reply" /\ out'[w] = codes
      /\ \A v \in Workers \ {w} : pc'[v] = pc[v] /\ out'[v] = out[v]
  BY DEF Answer, Goto, TypeOK
<1>2. CallOf(w)' = [op |-> req[w].op, uuid |-> req[w].uuid, answer |-> c]
  BY <1>1 DEF CallOf
<1>3. Calls' = [Calls EXCEPT ![w] =
                   [op |-> req[w].op, uuid |-> req[w].uuid, answer |-> c]]
  BY <1>1, <1>2, OneCallChanges
<1>4. Calls[w] = [op |-> req[w].op, uuid |-> req[w].uuid, answer |-> 0]
  BY WaitingCall
<1>5. [Calls[w] EXCEPT !.answer = c] =
          [op |-> req[w].op, uuid |-> req[w].uuid, answer |-> c]
  BY <1>4
<1> QED
  BY <1>3, <1>5 DEF Registry!AnswerCall

\* What a lookup says about the registry.
LEMMA LookupHit ==
    ASSUME NEW u \in Uuids, NEW i \in DOMAIN rows, FirstLive(u, i)
    PROVE  u \in Provisioned
BY DEF FirstLive, Provisioned, NoLive

LEMMA LookupMiss ==
    ASSUME "read" \notin Faults, NEW w \in Workers, Missed(w)
    PROVE  req[w].uuid \notin Provisioned
BY DEF Missed, Provisioned

----------------------------------------------------------------------------
(* One lemma per kind of step. *)

LEMMA RefineReceive ==
    ASSUME TypeOK, NEW w \in Workers, NEW op \in Ops, NEW u \in Uuids,
           Receive(w, op, u)
    PROVE  Registry!Invoke(w, op, u)
<1>1. /\ pc[w] = "idle" /\ rows' = rows /\ out' = out
      /\ pc' = [pc EXCEPT ![w] = "lookup"]
      /\ req' = [req EXCEPT ![w] = [op |-> op, uuid |-> u]]
  BY DEF Receive, Goto
<1>2. /\ pc'[w] = "lookup" /\ req'[w] = [op |-> op, uuid |-> u]
      /\ \A v \in Workers \ {w} : pc'[v] = pc[v] /\ req'[v] = req[v]
  BY <1>1 DEF TypeOK
<1>3. CallOf(w)' = [op |-> op, uuid |-> u, answer |-> 0]
  BY <1>2 DEF CallOf
<1>4. Calls' = [Calls EXCEPT ![w] = [op |-> op, uuid |-> u, answer |-> 0]]
  BY <1>1, <1>2, <1>3, OneCallChanges
<1>5. Calls[w] = Registry!Idle
  BY <1>1, CallOfWorker DEF CallOf, Registry!Idle
<1> QED
  BY <1>1, <1>4, <1>5, TableAlone DEF Registry!Invoke

\* Answers to a lookup: the table is as it was, the call is answered.
LEMMA RefineLookup ==
    ASSUME "read" \notin Faults, TypeOK, NEW w \in Workers,
           \/ CreateConflict(w) \/ CreateRefused(w) \/ BindMissing(w)
           \/ BindFound(w) \/ Unbind(w) \/ DeleteMissing(w)
    PROVE  \/ Registry!ProvisionTwice(w) \/ Registry!Fail(w)
           \/ Registry!NotFound(w) \/ Registry!Bind(w)
           \/ Registry!UnbindAny(w)
<1>1. /\ pc[w] \notin {"idle", "reply"} /\ rows' = rows /\ req' = req
  BY DEF CreateConflict, CreateRefused, BindMissing, BindFound, Unbind,
         DeleteMissing, Awaiting
<1>2. Provisioned' = Provisioned
  BY <1>1, TableAlone
<1>3. /\ Registry!Waiting(w, req[w].op) /\ Calls[w].uuid = req[w].uuid
      /\ req[w].uuid \in Uuids
  BY <1>1, WaitingCall
<1>4. CASE CreateConflict(w)
  <2>1. req[w].op = "create" /\ Answer(w, <<409>>)
    BY <1>4 DEF CreateConflict, Awaiting
  <2>2. req[w].uuid \in Provisioned
    BY <1>3, <1>4, LookupHit DEF CreateConflict, Found
  <2>3. Registry!AnswerCall(w, 409)
    BY <1>1, <2>1, AnswerStep
  <2> QED
    BY <1>2, <1>3, <2>1, <2>2, <2>3 DEF Registry!ProvisionTwice
<1>5. CASE CreateRefused(w)
  <2>1. req[w].op = "create" /\ Answer(w, <<500>>)
    BY <1>5 DEF CreateRefused, Awaiting
  <2>2. req[w].uuid \notin Provisioned
    BY <1>5, LookupMiss DEF CreateRefused
  <2>3. Registry!AnswerCall(w, 500)
    BY <1>1, <2>1, AnswerStep
  <2> QED
    BY <1>2, <1>3, <2>1, <2>2, <2>3 DEF Registry!Fail
<1>6. CASE BindMissing(w) \/ DeleteMissing(w)
  <2>1. req[w].op \in {"bind", "delete"} /\ Answer(w, <<404>>)
    BY <1>6 DEF BindMissing, DeleteMissing, Awaiting
  <2>2. req[w].uuid \notin Provisioned
    BY <1>6, LookupMiss DEF BindMissing, DeleteMissing
  <2>3. Registry!AnswerCall(w, 404)
    BY <1>1, <2>1, AnswerStep
  <2> QED
    BY <1>2, <1>3, <2>1, <2>2, <2>3 DEF Registry!NotFound
<1>7. CASE BindFound(w)
  <2>1. req[w].op = "bind"
    BY <1>7 DEF BindFound, Awaiting
  <2>2. req[w].uuid \in Provisioned
    BY <1>3, <1>7, LookupHit DEF BindFound, Found
  <2>3. CASE encKey \in ValidKeys
    <3>1. Answer(w, <<201>>)
      BY <1>7, <2>3 DEF BindFound
    <3>2. Registry!AnswerCall(w, 201)
      BY <1>1, <3>1, AnswerStep
    <3> QED
      BY <1>2, <1>3, <2>1, <2>2, <3>2 DEF Registry!Bind
  <2>4. CASE encKey \notin ValidKeys
    <3>1. Answer(w, <<500, 201>>)
      BY <1>7, <2>4 DEF BindFound
    <3>2. Registry!AnswerCall(w, 500)
      BY <1>1, <3>1, AnswerStep
    <3> QED
      BY <1>2, <1>3, <2>1, <2>2, <3>2 DEF Registry!Fail
  <2> QED
    BY <2>3, <2>4
<1>8. CASE Unbind(w)
  <2>1. req[w].op = "unbind" /\ Answer(w, <<200>>)
    BY <1>8 DEF Unbind, Awaiting
  <2>2. Registry!AnswerCall(w, 200)
    BY <1>1, <2>1, AnswerStep
  <2> QED
    BY <1>2, <1>3, <2>1, <2>2 DEF Registry!UnbindAny
<1> QED
  BY <1>4, <1>5, <1>6, <1>7, <1>8

\* Statements on the way to the last one.
LEMMA RefineStatement ==
    ASSUME TypeOK, NEW w \in Workers,
           \/ CreatePrepare(w) \/ ExecCreateDatabase(w) \/ ExecCreateUser(w)
           \/ ExecGrant(w) \/ DeleteFound(w) \/ ExecDropDatabase(w)
           \/ ExecDropUser(w)
    PROVE  UNCHANGED Registry!registryVars
<1>1. /\ pc[w] \notin {"idle", "reply"}
      /\ rows' = rows /\ req' = req /\ out' = out
      /\ \E label \in {"create_db", "create_user", "grant", "save", "drop_db",
                      "drop_user", "soft_delete"} :
             pc' = [pc EXCEPT ![w] = label]
  BY DEF CreatePrepare, ExecCreateDatabase, ExecCreateUser, ExecGrant,
         DeleteFound, ExecDropDatabase, ExecDropUser, Awaiting, Goto
<1> QED
  BY <1>1, SilentStep

\* The Save of a creation provisions the instance.
LEMMA RefineSave ==
    ASSUME "save" \notin Faults, "resend" \notin Faults, TypeOK, RegistryInv,
           NEW w \in Workers, SaveInstance(w)
    PROVE  Registry!Provision(w)
<1>1. /\ pc[w] = "save" /\ req' = req
      /\ Answer(w, <<201>>) /\ Insert(NewRow(w))
  BY DEF SaveInstance
<1>2. pc[w] \in Creating /\ pc[w] \notin {"idle", "reply"}
  BY <1>1 DEF Creating
<1>3. req[w].op = "create" /\ NoLive(req[w].uuid)
  BY <1>2 DEF RegistryInv, CallsInProgress, Uniqueness, CreatesUnprovisioned
<1>4. Registry!Waiting(w, "create") /\ Calls[w].uuid = req[w].uuid
      /\ req[w].uuid \in Uuids
  BY <1>2, <1>3, WaitingCall
<1>5. Registry!AnswerCall(w, 201)
  BY <1>1, <1>2, AnswerStep
<1>6. NewRow(w) \in Row /\ NewRow(w).uuid = req[w].uuid /\ NewRow(w).live
  BY <1>2, NewRowType DEF TypeOK, NewRow
<1>7. /\ rows \in Seq(Row) /\ rows' = Append(rows, NewRow(w))
      /\ Len(rows) \in Nat /\ DOMAIN rows = 1 .. Len(rows)
  BY <1>1, LenProperties DEF Insert, TypeOK, TableTypeOK
<1>8. /\ DOMAIN rows' = 1 .. Len(rows) + 1
      /\ rows'[Len(rows) + 1] = NewRow(w)
      /\ \A j \in DOMAIN rows : rows'[j] = rows[j]
  BY <1>6, <1>7
<1>9. \A u \in Uuids :
          ~NoLive(u)' <=> ~NoLive(u) \/ u = req[w].uuid
  BY <1>6, <1>7, <1>8 DEF NoLive, LiveFor
<1>10. Provisioned' = Provisioned \cup {req[w].uuid}
  BY <1>4, <1>9 DEF Provisioned
<1>11. req[w].uuid \notin Provisioned
  BY <1>3 DEF Provisioned
<1> QED
  BY <1>4, <1>5, <1>10, <1>11 DEF Registry!Provision

\* Marking the row of a deprovision takes the instance out of the registry:
\* it was its only live row.
LEMMA RefineDeleteRow ==
    ASSUME "soft_delete" \notin Faults, TypeOK, RegistryInv,
           NEW w \in Workers, DeleteRow(w)
    PROVE  Registry!Deprovision(w)
<1> DEFINE k == inst[w].id
<1>1. /\ pc[w] = "soft_delete" /\ req' = req
      /\ Answer(w, <<200>>) /\ SoftDelete(k)
  BY DEF DeleteRow, Try
<1>2. pc[w] \in Deleting /\ pc[w] \notin {"idle", "reply"}
  BY <1>1 DEF Deleting
<1>3. /\ req[w].op = "delete" /\ k \in DOMAIN rows
      /\ rows[k].live /\ rows[k].uuid = req[w].uuid
  BY <1>2 DEF RegistryInv, CallsInProgress, LiveFor
<1>4. Registry!Waiting(w, "delete") /\ Calls[w].uuid = req[w].uuid
      /\ req[w].uuid \in Uuids
  BY <1>2, <1>3, WaitingCall
<1>5. Registry!AnswerCall(w, 200)
  BY <1>1, <1>2, AnswerStep
<1>6. /\ DOMAIN rows' = DOMAIN rows
      /\ \A j \in DOMAIN rows : j # k => rows'[j] = rows[j]
      /\ ~rows'[k].live
  BY <1>1, <1>3, SoftDeletedRows, LenProperties, RowType
     DEF TypeOK, TableTypeOK, SoftDelete, Row
<1>7. \A j \in DOMAIN rows :
          rows[j].live /\ rows[j].uuid = req[w].uuid => j = k
  BY <1>3 DEF RegistryInv, Uniqueness, OneLiveRow
<1>8. \A u \in Uuids :
          ~NoLive(u)' <=> ~NoLive(u) /\ u # req[w].uuid
  BY <1>3, <1>6, <1>7 DEF NoLive, LiveFor
<1>9. Provisioned' = Provisioned \ {req[w].uuid}
  BY <1>8 DEF Provisioned
<1>10. req[w].uuid \in Provisioned
  BY <1>3, <1>4 DEF Provisioned, NoLive, LiveFor
<1> QED
  BY <1>4, <1>5, <1>9, <1>10 DEF Registry!Deprovision

LEMMA RefineReply ==
    ASSUME TypeOK, RegistryInv, NEW w \in Workers, Reply(w)
    PROVE  Registry!Return(w)
<1>1. /\ pc[w] = "reply" /\ rows' = rows
      /\ pc'[w] = "idle"
      /\ \A v \in Workers \ {w} :
             pc'[v] = pc[v] /\ req'[v] = req[v] /\ out'[v] = out[v]
  BY DEF Reply, Goto, TypeOK
<1>2. CallOf(w)' = Registry!Idle
  BY <1>1 DEF CallOf, Registry!Idle
<1>3. Calls' = [Calls EXCEPT ![w] = Registry!Idle]
  BY <1>1, <1>2, OneCallChanges
<1>4. Calls[w].answer = out[w][1]
  <2>1. Calls[w] =
            [op |-> req[w].op, uuid |-> req[w].uuid, answer |-> out[w][1]]
    BY <1>1, CallOfWorker DEF CallOf
  <2> QED
    BY <2>1
<1>5. out[w][1] \in Codes
  BY <1>1 DEF RegistryInv, CallsInProgress
<1> QED
  BY <1>1, <1>3, <1>4, <1>5, TableAlone DEF Registry!Return, Codes

LEMMA RefineRestart ==
    ASSUME Restart
    PROVE  Registry!Crash
<1>1. rows' = rows /\ pc' = [w \in Workers |-> "idle"]
  BY DEF Restart
<1>2. \A w \in Workers : CallOf(w)' = Registry!Idle
  BY <1>1 DEF CallOf, Registry!Idle
<1> QED
  BY <1>1, <1>2, TableAlone DEF Registry!Crash, Calls

\* Applications and stuttering leave the registry alone.
LEMMA RefineElsewhere ==
    ASSUME pc' = pc, req' = req, out' = out, rows' = rows
    PROVE  UNCHANGED Registry!registryVars
BY TableAlone DEF Registry!registryVars, Calls, CallOf

LEMMA RefineInit == Init => Registry!RegistryInit
BY DEF Init, TableInit, Registry!RegistryInit, Registry!Idle, Calls, CallOf,
       Provisioned, NoLive

LEMMA RefineNext ==
    ASSUME "read" \notin Faults, "save" \notin Faults,
           "soft_delete" \notin Faults, "resend" \notin Faults,
           TypeOK, RegistryInv, [Next]_vars
    PROVE  [Registry!RegistryNext]_Registry!registryVars
<1>1. ASSUME NEW w \in Workers, NEW op \in Ops, NEW u \in Uuids,
             Receive(w, op, u)
      PROVE  Registry!RegistryNext
  BY <1>1, RefineReceive
     DEF Registry!RegistryNext, Registry!RegistryOps, Ops
<1>2. ASSUME NEW w \in Workers, Handle(w)
      PROVE  [Registry!RegistryNext]_Registry!registryVars
  BY <1>2, RefineLookup, RefineStatement, RefineSave, RefineDeleteRow,
     RefineReply
     DEF Handle, CreateInstance, BindInstance, DeleteInstance,
         Registry!RegistryNext
<1>3. CASE Restart
  BY <1>3, RefineRestart DEF Registry!RegistryNext
<1>4. ASSUME \/ \E c \in creds, d \in dbs : Connect(c, d)
             \/ \E d \in sessions : Disconnect(d)
             \/ UNCHANGED vars
      PROVE  UNCHANGED Registry!registryVars
  BY <1>4, RefineElsewhere DEF Connect, Disconnect, handlerVars, vars
<1> QED
  BY <1>1, <1>2, <1>3, <1>4 DEF Next, Environment

\* The broker implements the registry: every answer is the one an atomic
\* registry could have given, and a crash never leaves a request half done in
\* the eyes of the platform.
THEOREM BrokerImplementsRegistry ==
    ASSUME ClientSerializes, "read" \notin Faults, "save" \notin Faults,
           "soft_delete" \notin Faults, "resend" \notin Faults
    PROVE  Spec => ImplementsRegistry
<1>1. TypeOK /\ RegistryInv /\ [Next]_vars
          => [Registry!RegistryNext]_Registry!registryVars
  BY RefineNext
<1> QED
  BY <1>1, RefineInit, RegistryInvHolds, TypeCorrect, PTL
     DEF Spec, ImplementsRegistry, Registry!RegistrySpec

----------------------------------------------------------------------------
(* The server's side: no database outlives its user. *)

LEMMA ServerFrame ==
    ASSUME ServerBacks,
           dbs' = dbs, roles' = roles, grants' = grants, rows' = rows,
           \A v \in Workers : pc'[v] \in {"create_user", "grant", "save"} =>
               pc'[v] = pc[v] /\ inst'[v] = inst[v]
    PROVE  ServerBacks'
<1> USE DEF ServerBacks, HasRole, Granted
<1>1. RolesOfOneDraw'
  BY DEF RolesOfOneDraw
<1>2. CreatesProgress'
  BY DEF CreatesProgress
<1>3. RowsBacked'
  BY DEF RowsBacked
<1> QED
  BY <1>1, <1>2, <1>3

\* The steps ServerFrame speaks of.
LEMMA ServerQuiet ==
    ASSUME TypeOK, ServerBacks,
           \/ \E w \in Workers :
                  \/ \E op \in Ops, u \in Uuids : Receive(w, op, u)
                  \/ CreateConflict(w)
                  \/ CreateRefused(w)
                  \/ CreatePrepare(w)
                  \/ BindMissing(w)
                  \/ BindFound(w)
                  \/ Unbind(w)
                  \/ DeleteMissing(w)
                  \/ DeleteFound(w)
                  \/ Reply(w)
           \/ \E c \in creds, d \in dbs : Connect(c, d)
           \/ \E d \in sessions : Disconnect(d)
           \/ Restart
           \/ UNCHANGED vars
    PROVE  ServerBacks'
<1> USE ServerFrame DEF TypeOK, Goto, rdsVars
<1>1. ASSUME NEW w \in Workers, NEW op \in Ops, NEW u \in Uuids,
             Receive(w, op, u)
      PROVE  ServerBacks'
  BY <1>1 DEF Receive
<1>2. ASSUME NEW w \in Workers, CreateConflict(w)
      PROVE  ServerBacks'
  BY <1>2 DEF CreateConflict, Answer
<1>3. ASSUME NEW w \in Workers, CreateRefused(w)
      PROVE  ServerBacks'
  BY <1>3 DEF CreateRefused, Answer
<1>4. ASSUME NEW w \in Workers, CreatePrepare(w)
      PROVE  ServerBacks'
  BY <1>4 DEF CreatePrepare
<1>5. ASSUME NEW w \in Workers, BindMissing(w)
      PROVE  ServerBacks'
  BY <1>5 DEF BindMissing, Answer
<1>6. ASSUME NEW w \in Workers, BindFound(w)
      PROVE  ServerBacks'
  BY <1>6 DEF BindFound, Answer
<1>7. ASSUME NEW w \in Workers, Unbind(w)
      PROVE  ServerBacks'
  BY <1>7 DEF Unbind, Answer
<1>8. ASSUME NEW w \in Workers, DeleteMissing(w)
      PROVE  ServerBacks'
  BY <1>8 DEF DeleteMissing, Answer
<1>9. ASSUME NEW w \in Workers, DeleteFound(w)
      PROVE  ServerBacks'
  BY <1>9 DEF DeleteFound
<1>10. ASSUME NEW w \in Workers, Reply(w)
      PROVE  ServerBacks'
  BY <1>10 DEF Reply
<1>11. ASSUME NEW c \in creds, NEW d \in dbs, Connect(c, d)
      PROVE  ServerBacks'
  BY <1>11 DEF Connect, handlerVars, OpenSession
<1>12. ASSUME NEW d \in sessions, Disconnect(d)
      PROVE  ServerBacks'
  BY <1>12 DEF Disconnect, handlerVars, CloseSession
<1>13. CASE Restart
  BY <1>13 DEF Restart
<1>14. CASE UNCHANGED vars
  BY <1>14 DEF vars
<1> QED
  BY <1>1, <1>2, <1>3, <1>4, <1>5, <1>6, <1>7, <1>8, <1>9, <1>10, <1>11, <1>12, <1>13, <1>14

LEMMA ServerCreateDatabase ==
    ASSUME "ddl" \notin Faults, TypeOK, Ownership, ServerBacks,
           NEW w \in Workers, ExecCreateDatabase(w)
    PROVE  ServerBacks'
<1>1. /\ dbs' = dbs \cup {inst[w].db} /\ roles' = roles /\ grants' = grants
      /\ rows' = rows /\ inst' = inst
      /\ pc' = [pc EXCEPT ![w] = "create_user"] /\ pc[w] = "create_db"
  BY DEF ExecCreateDatabase, Try, CreateDatabase, Goto
<1>2. \A i \in DOMAIN rows : rows[i].db # inst[w].db
  BY <1>1 DEF Ownership, CreatesAreFresh, Creating
<1>3. pc'[w] = "create_user" /\ \A v \in Workers \ {w} : pc'[v] = pc[v]
  BY <1>1 DEF TypeOK
<1>10. RolesOfOneDraw'
  BY <1>1 DEF ServerBacks, RolesOfOneDraw
<1>11. CreatesProgress'
  BY <1>1, <1>3 DEF ServerBacks, CreatesProgress, HasRole, Granted
<1>12. RowsBacked'
  BY <1>1, <1>2 DEF ServerBacks, RowsBacked, HasRole, Granted
<1> QED
  BY <1>10, <1>11, <1>12 DEF ServerBacks

LEMMA ServerCreateUser ==
    ASSUME "ddl" \notin Faults, TypeOK, Ownership, ServerBacks,
           NEW w \in Workers, ExecCreateUser(w)
    PROVE  ServerBacks'
<1> DEFINE new == [name |-> inst[w].user, password |-> inst[w].password]
<1>1. /\ roles' = IF HasRole(inst[w].user) THEN roles ELSE roles \cup {new}
      /\ dbs' = dbs /\ grants' = grants /\ rows' = rows /\ inst' = inst
      /\ pc' = [pc EXCEPT ![w] = "grant"] /\ pc[w] = "create_user"
  BY DEF ExecCreateUser, Try, CreateUser, Goto
<1>2. new.name = inst[w].user /\ new.password = new.name
  BY <1>1 DEF Ownership, CreatesAreFresh, OneDraw, Creating
<1> HIDE DEF new
<1>3. /\ roles \subseteq roles'
      /\ \E r \in roles' : r.name = inst[w].user
  BY <1>1, <1>2 DEF HasRole
<1>4. pc'[w] = "grant" /\ \A v \in Workers \ {w} : pc'[v] = pc[v]
  BY <1>1 DEF TypeOK
<1>10. RolesOfOneDraw'
  BY <1>1, <1>2 DEF ServerBacks, RolesOfOneDraw
<1>11. CreatesProgress'
  BY <1>1, <1>3, <1>4 DEF ServerBacks, CreatesProgress, HasRole, Granted
<1>12. RowsBacked'
  BY <1>1, <1>3 DEF ServerBacks, RowsBacked, HasRole, Granted
<1> QED
  BY <1>10, <1>11, <1>12 DEF ServerBacks

LEMMA ServerGrant ==
    ASSUME "ddl" \notin Faults, TypeOK, Ownership, ServerBacks,
           NEW w \in Workers, ExecGrant(w)
    PROVE  ServerBacks'
<1>1. /\ GrantAll(inst[w].db, inst[w].user)
      /\ rows' = rows /\ inst' = inst
      /\ pc' = [pc EXCEPT ![w] = "save"] /\ pc[w] = "grant"
  BY DEF ExecGrant, Try, Goto
<1>2. inst[w].db \in dbs /\ HasRole(inst[w].user)
  BY <1>1 DEF ServerBacks, CreatesProgress
<1>3. /\ dbs' = dbs /\ roles' = roles
      /\ grants' = grants \cup {[db |-> inst[w].db, role |-> inst[w].user]}
  BY <1>1, <1>2 DEF GrantAll
<1>4. pc'[w] = "save" /\ \A v \in Workers \ {w} : pc'[v] = pc[v]
  BY <1>1 DEF TypeOK
<1>10. RolesOfOneDraw'
  BY <1>3 DEF ServerBacks, RolesOfOneDraw
<1>11. CreatesProgress'
  BY <1>1, <1>2, <1>3, <1>4
     DEF ServerBacks, CreatesProgress, HasRole, Granted
<1>12. RowsBacked'
  BY <1>1, <1>3 DEF ServerBacks, RowsBacked, HasRole, Granted
<1> QED
  BY <1>10, <1>11, <1>12 DEF ServerBacks

LEMMA ServerSave ==
    ASSUME "ddl" \notin Faults, TypeOK, Ownership, ServerBacks,
           NEW w \in Workers, SaveInstance(w)
    PROVE  ServerBacks'
<1>1. /\ dbs' = dbs /\ roles' = roles /\ grants' = grants /\ inst' = inst
      /\ pc' = [pc EXCEPT ![w] = "reply"] /\ pc[w] = "save"
      /\ Insert(NewRow(w)) \/ InsertTwice(NewRow(w)) \/ rows' = rows
  BY DEF SaveInstance, Answer, Goto, rdsVars
<1>2. pc'[w] = "reply" /\ \A v \in Workers \ {w} : pc'[v] = pc[v]
  BY <1>1 DEF TypeOK
<1>3. NewRow(w) \in Row
  BY <1>1, NewRowType DEF TypeOK
<1>4. NewRow(w).db = inst[w].db /\ NewRow(w).user = inst[w].user
  BY DEF NewRow
<1>5. \A j \in DOMAIN rows' :
          (j \in DOMAIN rows /\ rows'[j] = rows[j]) \/ rows'[j] = NewRow(w)
  BY <1>1, <1>3, InsertedRows DEF TypeOK, TableTypeOK
<1>6. HasRole(inst[w].user) /\ Granted(inst[w].db, inst[w].user)
  BY <1>1 DEF ServerBacks, CreatesProgress
<1>10. RolesOfOneDraw'
  BY <1>1 DEF ServerBacks, RolesOfOneDraw
<1>11. CreatesProgress'
  BY <1>1, <1>2 DEF ServerBacks, CreatesProgress, HasRole, Granted
<1>12. RowsBacked'
  BY <1>1, <1>4, <1>5, <1>6 DEF ServerBacks, RowsBacked, HasRole, Granted
<1> QED
  BY <1>10, <1>11, <1>12 DEF ServerBacks

LEMMA ServerDropDatabase ==
    ASSUME "ddl" \notin Faults, TypeOK, Ownership, ServerBacks,
           NEW w \in Workers, ExecDropDatabase(w)
    PROVE  ServerBacks'
<1>1. /\ DropDatabase(inst[w].db) \/ UNCHANGED rdsVars
      /\ rows' = rows /\ inst' = inst
      /\ pc' = [pc EXCEPT ![w] = "drop_user"] /\ pc[w] = "drop_db"
  BY DEF ExecDropDatabase, Try, Goto
<1>2. pc'[w] = "drop_user" /\ \A v \in Workers \ {w} : pc'[v] = pc[v]
  BY <1>1 DEF TypeOK
<1>3. CASE dbs' = dbs /\ grants' = grants /\ roles' = roles
  BY <1>1, <1>2, <1>3, ServerFrame
<1>4. ASSUME /\ dbs' = dbs \ {inst[w].db} /\ roles' = roles
             /\ grants' = {g \in grants : g.db # inst[w].db}
      PROVE  ServerBacks'
  <2>1. \A v \in Workers : pc[v] \in Creating => inst[v].db # inst[w].db
    BY <1>1 DEF Ownership, DeletesFoundRow, CreatesAreFresh, Deleting
  <2>2. \A d, u : Granted(d, u) /\ d # inst[w].db => Granted(d, u)'
    BY <1>4 DEF Granted
  <2>3. RolesOfOneDraw'
    BY <1>4 DEF ServerBacks, RolesOfOneDraw
  <2>4. CreatesProgress'
    BY <1>1, <1>2, <1>4, <2>1, <2>2
       DEF ServerBacks, CreatesProgress, HasRole, Creating
  <2>5. RowsBacked'
    BY <1>1, <1>4, <2>2 DEF ServerBacks, RowsBacked, HasRole
  <2> QED
    BY <2>3, <2>4, <2>5 DEF ServerBacks
<1> QED
  BY <1>1, <1>3, <1>4 DEF DropDatabase, rdsVars

LEMMA ServerDropUser ==
    ASSUME "ddl" \notin Faults, TypeOK, Ownership, ServerBacks,
           NEW w \in Workers, ExecDropUser(w)
    PROVE  ServerBacks'
<1>1. /\ DropUser(inst[w].user) \/ UNCHANGED rdsVars
      /\ rows' = rows /\ inst' = inst
      /\ pc' = [pc EXCEPT ![w] = "soft_delete"] /\ pc[w] = "drop_user"
  BY DEF ExecDropUser, Try, Goto
<1>2. pc'[w] = "soft_delete" /\ \A v \in Workers \ {w} : pc'[v] = pc[v]
  BY <1>1 DEF TypeOK
<1>3. CASE dbs' = dbs /\ grants' = grants /\ roles' = roles
  BY <1>1, <1>2, <1>3, ServerFrame
<1>4. ASSUME /\ dbs' = dbs /\ grants' = grants
             /\ roles' = {r \in roles : r.name # inst[w].user}
             /\ \A g \in grants : g.role # inst[w].user
      PROVE  ServerBacks'
  <2>1. \A v \in Workers :
            pc[v] \in Creating => inst[v].user # inst[w].user
    BY <1>1 DEF Ownership, DeletesFoundRow, CreatesAreFresh, OneDraw, Deleting
  <2>2. \A u : HasRole(u) /\ u # inst[w].user => HasRole(u)'
    BY <1>4 DEF HasRole
  <2>3. \A d, u : Granted(d, u) => u # inst[w].user
    <3>1. \A d, u : [db |-> d, role |-> u].role = u
      OBVIOUS
    <3> QED
      BY <1>4, <3>1 DEF Granted
  <2>4. RolesOfOneDraw'
    BY <1>4 DEF ServerBacks, RolesOfOneDraw
  <2>5. CreatesProgress'
    BY <1>1, <1>2, <1>4, <2>1, <2>2
       DEF ServerBacks, CreatesProgress, Granted, Creating
  <2>6. RowsBacked'
    BY <1>1, <1>4, <2>2, <2>3 DEF ServerBacks, RowsBacked, Granted
  <2> QED
    BY <2>4, <2>5, <2>6 DEF ServerBacks
<1> QED
  BY <1>1, <1>3, <1>4 DEF DropUser, rdsVars

LEMMA ServerDeleteRow ==
    ASSUME "ddl" \notin Faults, TypeOK, Ownership, ServerBacks,
           NEW w \in Workers, DeleteRow(w)
    PROVE  ServerBacks'
<1>1. /\ dbs' = dbs /\ roles' = roles /\ grants' = grants /\ inst' = inst
      /\ pc' = [pc EXCEPT ![w] = "reply"]
      /\ SoftDelete(inst[w].id) \/ rows' = rows
  BY DEF DeleteRow, Try, Answer, Goto, rdsVars
<1>2. pc'[w] = "reply" /\ \A v \in Workers \ {w} : pc'[v] = pc[v]
  BY <1>1 DEF TypeOK
<1>3. /\ DOMAIN rows' = DOMAIN rows
      /\ \A j \in DOMAIN rows :
             rows'[j].db = rows[j].db /\ rows'[j].user = rows[j].user
  BY <1>1, SoftDeletedRows DEF TypeOK, TableTypeOK
<1>10. RolesOfOneDraw'
  BY <1>1 DEF ServerBacks, RolesOfOneDraw
<1>11. CreatesProgress'
  BY <1>1, <1>2 DEF ServerBacks, CreatesProgress, HasRole, Granted
<1>12. RowsBacked'
  BY <1>1, <1>3 DEF ServerBacks, RowsBacked, HasRole, Granted
<1> QED
  BY <1>10, <1>11, <1>12 DEF ServerBacks

LEMMA ServerNext ==
    ASSUME "ddl" \notin Faults, TypeOK, Ownership, ServerBacks, [Next]_vars
    PROVE  ServerBacks'
BY ServerQuiet, ServerCreateDatabase, ServerCreateUser, ServerGrant,
   ServerSave, ServerDropDatabase, ServerDropUser, ServerDeleteRow
   DEF Next, Environment, Handle, CreateInstance, BindInstance,
       DeleteInstance

----------------------------------------------------------------------------
(* The broker's side: what a bind reads from the table is what was saved. *)

LEMMA BindsFrame ==
    ASSUME BindsHonest, encKey' = encKey, creds' = creds, rows' = rows,
           \A v \in Workers :
               pc'[v] = "reply" /\ req'[v].op = "bind" /\ out'[v][1] = 201 =>
                   /\ pc[v] = "reply" /\ req[v].op = "bind"
                   /\ out[v][1] = 201 /\ inst'[v] = inst[v]
    PROVE  BindsHonest'
<1> USE DEF BindsHonest, Belongs
<1>1. OneKey'
  BY DEF OneKey
<1>2. BindsBelong'
  BY DEF BindsBelong
<1>3. CredentialsBelong'
  BY DEF CredentialsBelong
<1> QED
  BY <1>1, <1>2, <1>3

\* The steps BindsFrame speaks of.
LEMMA BindsQuiet ==
    ASSUME "rekey" \notin Faults, TypeOK, BindsHonest,
           \/ \E w \in Workers :
                  \/ \E op \in Ops, u \in Uuids : Receive(w, op, u)
                  \/ CreateConflict(w)
                  \/ CreateRefused(w)
                  \/ CreatePrepare(w)
                  \/ ExecCreateDatabase(w)
                  \/ ExecCreateUser(w)
                  \/ ExecGrant(w)
                  \/ BindMissing(w)
                  \/ Unbind(w)
                  \/ DeleteMissing(w)
                  \/ DeleteFound(w)
                  \/ ExecDropDatabase(w)
                  \/ ExecDropUser(w)
           \/ \E c \in creds, d \in dbs : Connect(c, d)
           \/ \E d \in sessions : Disconnect(d)
           \/ Restart
           \/ UNCHANGED vars
    PROVE  BindsHonest'
<1> USE BindsFrame DEF TypeOK, Goto, Awaiting
<1>1. ASSUME NEW w \in Workers, NEW op \in Ops, NEW u \in Uuids,
             Receive(w, op, u)
      PROVE  BindsHonest'
  BY <1>1 DEF Receive
<1>2. ASSUME NEW w \in Workers, CreateConflict(w)
      PROVE  BindsHonest'
  BY <1>2 DEF CreateConflict, Answer
<1>3. ASSUME NEW w \in Workers, CreateRefused(w)
      PROVE  BindsHonest'
  BY <1>3 DEF CreateRefused, Answer
<1>4. ASSUME NEW w \in Workers, CreatePrepare(w)
      PROVE  BindsHonest'
  BY <1>4 DEF CreatePrepare
<1>5. ASSUME NEW w \in Workers, ExecCreateDatabase(w)
      PROVE  BindsHonest'
  BY <1>5 DEF ExecCreateDatabase
<1>6. ASSUME NEW w \in Workers, ExecCreateUser(w)
      PROVE  BindsHonest'
  BY <1>6 DEF ExecCreateUser
<1>7. ASSUME NEW w \in Workers, ExecGrant(w)
      PROVE  BindsHonest'
  BY <1>7 DEF ExecGrant
<1>8. ASSUME NEW w \in Workers, BindMissing(w)
      PROVE  BindsHonest'
  BY <1>8 DEF BindMissing, Answer
<1>9. ASSUME NEW w \in Workers, Unbind(w)
      PROVE  BindsHonest'
  BY <1>9 DEF Unbind, Answer
<1>10. ASSUME NEW w \in Workers, DeleteMissing(w)
      PROVE  BindsHonest'
  BY <1>10 DEF DeleteMissing, Answer
<1>11. ASSUME NEW w \in Workers, DeleteFound(w)
      PROVE  BindsHonest'
  BY <1>11 DEF DeleteFound
<1>12. ASSUME NEW w \in Workers, ExecDropDatabase(w)
      PROVE  BindsHonest'
  BY <1>12 DEF ExecDropDatabase
<1>13. ASSUME NEW w \in Workers, ExecDropUser(w)
      PROVE  BindsHonest'
  BY <1>13 DEF ExecDropUser
<1>14. ASSUME NEW c \in creds, NEW d \in dbs, Connect(c, d)
      PROVE  BindsHonest'
  BY <1>14 DEF Connect, handlerVars
<1>15. ASSUME NEW d \in sessions, Disconnect(d)
      PROVE  BindsHonest'
  BY <1>15 DEF Disconnect, handlerVars
<1>16. CASE Restart
  BY <1>16 DEF Restart
<1>17. CASE UNCHANGED vars
  BY <1>17 DEF vars
<1> QED
  BY <1>1, <1>2, <1>3, <1>4, <1>5, <1>6, <1>7, <1>8, <1>9,
     <1>10, <1>11, <1>12, <1>13, <1>14, <1>15, <1>16, <1>17

\* Rows may be added or marked, as long as they keep their names and keys.
LEMMA BindsRows ==
    ASSUME BindsHonest, encKey' = encKey, creds' = creds,
           \A j \in DOMAIN rows : j \in DOMAIN rows' /\ rows'[j].db = rows[j].db,
           \A j \in DOMAIN rows' : rows'[j].cipher.key = encKey,
           \A v \in Workers :
               pc'[v] = "reply" /\ req'[v].op = "bind" /\ out'[v][1] = 201 =>
                   /\ pc[v] = "reply" /\ req[v].op = "bind"
                   /\ out[v][1] = 201 /\ inst'[v] = inst[v]
    PROVE  BindsHonest'
<1>1. \A c : Belongs(c) => Belongs(c)'
  BY DEF Belongs
<1>2. OneKey'
  BY DEF OneKey
<1>3. BindsBelong'
  <2> SUFFICES ASSUME NEW v \in Workers, pc'[v] = "reply",
                      req'[v].op = "bind", out'[v][1] = 201
               PROVE  Belongs(inst[v])' /\ inst'[v] = inst[v]
    BY DEF BindsBelong
  <2>1. Belongs(inst[v]) /\ inst'[v] = inst[v]
    BY DEF BindsHonest, BindsBelong
  <2> QED
    BY <2>1 DEF Belongs
<1>4. CredentialsBelong'
  BY <1>1 DEF BindsHonest, CredentialsBelong, Belongs
<1> QED
  BY <1>2, <1>3, <1>4 DEF BindsHonest

LEMMA BindsSave ==
    ASSUME TypeOK, Ownership, BindsHonest,
           NEW w \in Workers, SaveInstance(w)
    PROVE  BindsHonest'
<1>1. /\ encKey' = encKey /\ creds' = creds /\ inst' = inst /\ req' = req
      /\ pc' = [pc EXCEPT ![w] = "reply"] /\ pc[w] = "save"
      /\ out' = [out EXCEPT ![w] = <<201>>]
      /\ Insert(NewRow(w)) \/ InsertTwice(NewRow(w)) \/ rows' = rows
  BY DEF SaveInstance, Answer, Goto
<1>2. req[w].op = "create"
  BY <1>1 DEF Ownership, CreatesAreFresh, Creating
<1>3. \A v \in Workers \ {w} : pc'[v] = pc[v] /\ out'[v] = out[v]
  BY <1>1 DEF TypeOK
<1>4. NewRow(w) \in Row /\ NewRow(w).cipher.key = encKey
  BY <1>1, NewRowType DEF TypeOK, NewRow, Encrypt
<1>5. /\ \A j \in DOMAIN rows : j \in DOMAIN rows' /\ rows'[j] = rows[j]
      /\ \A j \in DOMAIN rows' :
             (j \in DOMAIN rows /\ rows'[j] = rows[j]) \/ rows'[j] = NewRow(w)
  BY <1>1, <1>4, InsertedRows DEF TypeOK, TableTypeOK
<1>6. \A j \in DOMAIN rows' : rows'[j].cipher.key = encKey
  BY <1>4, <1>5 DEF BindsHonest, OneKey
<1> QED
  BY <1>1, <1>2, <1>3, <1>5, <1>6, BindsRows

LEMMA BindsDeleteRow ==
    ASSUME TypeOK, Ownership, BindsHonest, NEW w \in Workers, DeleteRow(w)
    PROVE  BindsHonest'
<1>1. /\ encKey' = encKey /\ creds' = creds /\ inst' = inst /\ req' = req
      /\ pc' = [pc EXCEPT ![w] = "reply"] /\ pc[w] = "soft_delete"
      /\ out' = [out EXCEPT ![w] = <<200>>]
      /\ SoftDelete(inst[w].id) \/ rows' = rows
  BY DEF DeleteRow, Try, Answer, Goto
<1>2. req[w].op = "delete"
  BY <1>1 DEF Ownership, DeletesFoundRow, Deleting
<1>3. \A v \in Workers \ {w} : pc'[v] = pc[v] /\ out'[v] = out[v]
  BY <1>1 DEF TypeOK
<1>4. /\ DOMAIN rows' = DOMAIN rows
      /\ \A j \in DOMAIN rows :
             rows'[j].db = rows[j].db /\ rows'[j].cipher = rows[j].cipher
  BY <1>1, SoftDeletedRows DEF TypeOK, TableTypeOK
<1>5. \A j \in DOMAIN rows' : rows'[j].cipher.key = encKey
  BY <1>4 DEF BindsHonest, OneKey
<1> QED
  BY <1>1, <1>2, <1>3, <1>4, <1>5, BindsRows

LEMMA BindsFound ==
    ASSUME TypeOK, Ownership, BindsHonest, NEW w \in Workers, BindFound(w)
    PROVE  BindsHonest'
<1>1. /\ encKey' = encKey /\ creds' = creds /\ rows' = rows /\ req' = req
      /\ pc' = [pc EXCEPT ![w] = "reply"]
      /\ out' = [out EXCEPT ![w] = IF encKey \in ValidKeys
                                   THEN <<201>> ELSE <<500, 201>>]
  BY DEF BindFound, Answer, Goto
<1>2. PICK i \in DOMAIN rows :
          inst' = [inst EXCEPT ![w] =
              [id |-> i, db |-> rows[i].db, user |-> rows[i].user,
               password |-> IF encKey \in ValidKeys
                            THEN Decrypt(rows[i].cipher, encKey)
                            ELSE EmptyPassword]]
  BY DEF BindFound
<1>3. \A v \in Workers \ {w} :
          pc'[v] = pc[v] /\ out'[v] = out[v] /\ inst'[v] = inst[v]
  BY <1>1, <1>2 DEF TypeOK
<1>4. inst'[w].db = rows[i].db /\ inst'[w].user = rows[i].user
  BY <1>2 DEF TypeOK
<1>5. rows[i].user = rows[i].db /\ rows[i].cipher.plain = rows[i].db
  BY DEF Ownership, RowsOfOneDraw, OneDraw
<1>6. out'[w][1] = 201 => inst'[w].password = rows[i].db
  <2>1. CASE encKey \in ValidKeys
    <3>1. Decrypt(rows[i].cipher, encKey) = rows[i].cipher.plain
      BY DEF Decrypt, BindsHonest, OneKey
    <3> QED
      BY <1>2, <1>5, <2>1, <3>1 DEF TypeOK
  <2>2. CASE encKey \notin ValidKeys
    BY <1>1, <2>2 DEF TypeOK
  <2> QED
    BY <2>1, <2>2
<1>7. OneKey'
  BY <1>1 DEF BindsHonest, OneKey
<1>8. BindsBelong'
  BY <1>1, <1>3, <1>4, <1>5, <1>6 DEF BindsHonest, BindsBelong, Belongs
<1>9. CredentialsBelong'
  BY <1>1 DEF BindsHonest, CredentialsBelong, Belongs
<1> QED
  BY <1>7, <1>8, <1>9 DEF BindsHonest

LEMMA BindsReply ==
    ASSUME TypeOK, BindsHonest, NEW w \in Workers, Reply(w)
    PROVE  BindsHonest'
<1>1. /\ encKey' = encKey /\ rows' = rows
      /\ creds' = creds \cup HandedOver(w) /\ pc[w] = "reply"
  BY DEF Reply
<1>2. /\ pc'[w] = "idle"
      /\ \A v \in Workers \ {w} : /\ pc'[v] = pc[v] /\ out'[v] = out[v]
                                 /\ inst'[v] = inst[v] /\ req'[v] = req[v]
  BY DEF Reply, Goto, TypeOK
<1>3. \A c \in HandedOver(w) : Belongs(c)
  BY <1>1 DEF HandedOver, BindsHonest, BindsBelong, Belongs
<1>4. OneKey'
  BY <1>1 DEF BindsHonest, OneKey
<1>5. BindsBelong'
  BY <1>1, <1>2 DEF BindsHonest, BindsBelong, Belongs
<1>6. CredentialsBelong'
  BY <1>1, <1>3 DEF BindsHonest, CredentialsBelong, Belongs
<1> QED
  BY <1>4, <1>5, <1>6 DEF BindsHonest

LEMMA BindsNext ==
    ASSUME "rekey" \notin Faults, TypeOK, Ownership, BindsHonest, [Next]_vars
    PROVE  BindsHonest'
BY BindsQuiet, BindsSave, BindsDeleteRow, BindsFound, BindsReply
   DEF Next, Environment, Handle, CreateInstance, BindInstance,
       DeleteInstance

----------------------------------------------------------------------------

\* The second inductive invariant: every row and every answer of a bind speak of a
\* user that exists for as long as its database does, under the key of the process
\* (the statements of actions.go:60-64, 77-110 and 129-130).
THEOREM BackingHolds ==
    ASSUME "ddl" \notin Faults, "entropy" \notin Faults,
           "rekey" \notin Faults
    PROVE  Spec => []Backing
<1>1. Init => Backing
  BY DEF Init, RdsInit, TableInit, Backing, ServerBacks, BindsHonest,
         RolesOfOneDraw, CreatesProgress, RowsBacked, OneKey, BindsBelong,
         CredentialsBelong
<1>2. TypeOK /\ Ownership /\ Backing /\ [Next]_vars => Backing'
  BY ServerNext, BindsNext DEF Backing
<1> QED
  BY <1>1, <1>2, OwnershipHolds, TypeCorrect, PTL DEF Spec

\* The user of a row whose database exists can log in.
LEMMA BackedRow ==
    ASSUME TypeOK, Ownership, ServerBacks,
           NEW i \in DOMAIN rows, rows[i].db \in dbs
    PROVE  /\ [name |-> rows[i].db, password |-> rows[i].db] \in roles
           /\ Granted(rows[i].db, rows[i].db)
           /\ rows[i].user = rows[i].db /\ rows[i].cipher.plain = rows[i].db
<1>1. rows[i].user = rows[i].db /\ rows[i].cipher.plain = rows[i].db
  BY DEF Ownership, RowsOfOneDraw, OneDraw
<1>2. HasRole(rows[i].db) /\ Granted(rows[i].db, rows[i].db)
  BY <1>1 DEF ServerBacks, RowsBacked
<1>3. PICK r \in roles : r.name = rows[i].db /\ r.password = rows[i].db
  BY <1>2 DEF HasRole, ServerBacks, RolesOfOneDraw
<1>4. r = [name |-> r.name, password |-> r.password]
  BY DEF TypeOK, RdsTypeOK, Role
<1> QED
  BY <1>1, <1>2, <1>3, <1>4

\* The credentials of a bind open their database, with its privileges, as
\* long as the database exists: whatever is interleaved, lost, repeated or
\* cut short by a crash, unless one of the statements of a creation fails,
\* the random bytes run out or the key is changed.
THEOREM CredentialsWork ==
    ASSUME "ddl" \notin Faults, "entropy" \notin Faults,
           "rekey" \notin Faults
    PROVE  Spec => []BoundCredentialsWork
<1>1. TypeOK /\ Ownership /\ Backing => BoundCredentialsWork
  <2> SUFFICES ASSUME TypeOK, Ownership, Backing,
                      NEW c \in creds, c.db \in dbs
               PROVE  Accepts(c.db, c.user, c.password)
                      /\ Granted(c.db, c.user)
    BY DEF BoundCredentialsWork
  <2>1. PICK i \in DOMAIN rows :
            rows[i].db = c.db /\ c.user = c.db /\ c.password = c.db
    BY DEF Backing, BindsHonest, CredentialsBelong, Belongs
  <2>2. /\ [name |-> c.db, password |-> c.db] \in roles
        /\ Granted(c.db, c.db)
    BY <2>1, BackedRow DEF Backing
  <2> QED
    BY <2>1, <2>2 DEF Accepts
<1> QED
  BY <1>1, BackingHolds, OwnershipHolds, TypeCorrect, PTL

----------------------------------------------------------------------------
(* The database of every instance the table shows. *)

LEMMA PresenceFrame ==
    ASSUME Presence, rows' = rows, dbs' = dbs,
           \A v \in Workers : pc'[v] \in {"create_user", "grant", "save"} =>
               /\ pc[v] \in {"create_user", "grant", "save"}
               /\ inst'[v] = inst[v],
           \A v \in Workers : pc[v] \in Deleting =>
               pc'[v] \in Deleting /\ inst'[v] = inst[v]
    PROVE  Presence'
<1>1. RowsApart'
  BY DEF Presence, RowsApart
<1>2. CreatedExists'
  BY DEF Presence, CreatedExists
<1>3. LiveHasDatabase'
  BY DEF Presence, LiveHasDatabase, BeingDeleted
<1> QED
  BY <1>1, <1>2, <1>3 DEF Presence

\* The steps PresenceFrame speaks of.
LEMMA PresenceQuiet ==
    ASSUME "crash" \notin Faults, TypeOK, Presence,
           \/ \E w \in Workers :
                  \/ \E op \in Ops, u \in Uuids : Receive(w, op, u)
                  \/ CreateConflict(w)
                  \/ CreateRefused(w)
                  \/ CreatePrepare(w)
                  \/ ExecCreateUser(w)
                  \/ ExecGrant(w)
                  \/ BindMissing(w)
                  \/ BindFound(w)
                  \/ Unbind(w)
                  \/ DeleteMissing(w)
                  \/ DeleteFound(w)
                  \/ ExecDropUser(w)
                  \/ Reply(w)
           \/ \E c \in creds, d \in dbs : Connect(c, d)
           \/ \E d \in sessions : Disconnect(d)
           \/ Restart
           \/ UNCHANGED vars
    PROVE  Presence'
<1> USE PresenceFrame DEF TypeOK, Goto, rdsVars, Awaiting, Deleting
<1>1. ASSUME NEW w \in Workers, NEW op \in Ops, NEW u \in Uuids,
             Receive(w, op, u)
      PROVE  Presence'
  BY <1>1 DEF Receive
<1>2. ASSUME NEW w \in Workers, CreateConflict(w)
      PROVE  Presence'
  BY <1>2 DEF CreateConflict, Answer
<1>3. ASSUME NEW w \in Workers, CreateRefused(w)
      PROVE  Presence'
  BY <1>3 DEF CreateRefused, Answer
<1>4. ASSUME NEW w \in Workers, CreatePrepare(w)
      PROVE  Presence'
  BY <1>4 DEF CreatePrepare
<1>5. ASSUME NEW w \in Workers, ExecCreateUser(w)
      PROVE  Presence'
  BY <1>5 DEF ExecCreateUser, Try, CreateUser
<1>6. ASSUME NEW w \in Workers, ExecGrant(w)
      PROVE  Presence'
  BY <1>6 DEF ExecGrant, Try, GrantAll
<1>7. ASSUME NEW w \in Workers, BindMissing(w)
      PROVE  Presence'
  BY <1>7 DEF BindMissing, Answer
<1>8. ASSUME NEW w \in Workers, BindFound(w)
      PROVE  Presence'
  BY <1>8 DEF BindFound, Answer
<1>9. ASSUME NEW w \in Workers, Unbind(w)
      PROVE  Presence'
  BY <1>9 DEF Unbind, Answer
<1>10. ASSUME NEW w \in Workers, DeleteMissing(w)
      PROVE  Presence'
  BY <1>10 DEF DeleteMissing, Answer
<1>11. ASSUME NEW w \in Workers, DeleteFound(w)
      PROVE  Presence'
  BY <1>11 DEF DeleteFound
<1>12. ASSUME NEW w \in Workers, ExecDropUser(w)
      PROVE  Presence'
  BY <1>12 DEF ExecDropUser, Try, DropUser
<1>13. ASSUME NEW w \in Workers, Reply(w)
      PROVE  Presence'
  BY <1>13 DEF Reply
<1>14. ASSUME NEW c \in creds, NEW d \in dbs, Connect(c, d)
      PROVE  Presence'
  BY <1>14 DEF Connect, handlerVars, OpenSession
<1>15. ASSUME NEW d \in sessions, Disconnect(d)
      PROVE  Presence'
  BY <1>15 DEF Disconnect, handlerVars, CloseSession
<1>16. ~Restart
  BY DEF Restart
<1>17. CASE UNCHANGED vars
  BY <1>17 DEF vars
<1> QED
  BY <1>1, <1>2, <1>3, <1>4, <1>5, <1>6, <1>7, <1>8, <1>9, <1>10,
     <1>11, <1>12, <1>13, <1>14, <1>15, <1>16, <1>17

LEMMA PresenceCreateDatabase ==
    ASSUME "ddl" \notin Faults, TypeOK, Presence,
           NEW w \in Workers, ExecCreateDatabase(w)
    PROVE  Presence'
<1>1. /\ dbs' = dbs \cup {inst[w].db} /\ rows' = rows /\ inst' = inst
      /\ pc' = [pc EXCEPT ![w] = "create_user"] /\ pc[w] = "create_db"
  BY DEF ExecCreateDatabase, Try, CreateDatabase, Goto
<1>2. pc'[w] = "create_user" /\ \A v \in Workers : v # w => pc'[v] = pc[v]
  BY <1>1 DEF TypeOK
<1>3. RowsApart'
  BY <1>1 DEF Presence, RowsApart
<1>4. CreatedExists'
  BY <1>1, <1>2 DEF Presence, CreatedExists
<1>5. LiveHasDatabase'
  BY <1>1, <1>2 DEF Presence, LiveHasDatabase, BeingDeleted, Deleting
<1> QED
  BY <1>3, <1>4, <1>5 DEF Presence

LEMMA PresenceSave ==
    ASSUME "resend" \notin Faults, TypeOK, Ownership, Presence,
           NEW w \in Workers, SaveInstance(w)
    PROVE  Presence'
<1>1. /\ dbs' = dbs /\ inst' = inst
      /\ pc' = [pc EXCEPT ![w] = "reply"] /\ pc[w] = "save"
      /\ Insert(NewRow(w)) \/ rows' = rows
  BY DEF SaveInstance, Answer, Goto, rdsVars
<1>2. pc'[w] = "reply" /\ \A v \in Workers : v # w => pc'[v] = pc[v]
  BY <1>1 DEF TypeOK
<1>3. CASE rows' = rows
  BY <1>1, <1>2, <1>3, PresenceFrame DEF Deleting
<1>4. ASSUME Insert(NewRow(w))
      PROVE  Presence'
  <2> DEFINE r == NewRow(w)
             n == Len(rows) + 1
  <2>1. r \in Row /\ r.db = inst[w].db
    BY <1>1, NewRowType DEF TypeOK, NewRow
  <2> HIDE DEF r
  <2>2. rows \in Seq(Row) /\ rows' = Append(rows, r)
    BY <1>4 DEF TypeOK, TableTypeOK, Insert, r
  <2>3. /\ Len(rows) \in Nat
        /\ DOMAIN rows = 1 .. Len(rows) /\ DOMAIN rows' = 1 .. n
        /\ rows'[n] = r
        /\ \A j \in DOMAIN rows : rows'[j] = rows[j]
    BY <2>1, <2>2, AppendProperties, LenProperties
  <2>4. \A j \in DOMAIN rows : rows[j].db # r.db
    BY <1>1, <2>1 DEF Ownership, CreatesAreFresh, Creating
  <2>5. \A j \in DOMAIN rows' : j \in DOMAIN rows \/ j = n
    BY <2>3
  <2>6. r.db \in dbs
    BY <1>1, <2>1 DEF Presence, CreatedExists
  <2> HIDE DEF n
  <2>7. RowsApart'
    BY <2>3, <2>4, <2>5 DEF Presence, RowsApart
  <2>8. CreatedExists'
    BY <1>1, <1>2 DEF Presence, CreatedExists
  <2>9. LiveHasDatabase'
    BY <1>1, <1>2, <2>3, <2>5, <2>6
       DEF Presence, LiveHasDatabase, BeingDeleted, Deleting
  <2> QED
    BY <2>7, <2>8, <2>9 DEF Presence
<1> QED
  BY <1>1, <1>3, <1>4

LEMMA PresenceDropDatabase ==
    ASSUME TypeOK, Ownership, Presence, NEW w \in Workers, ExecDropDatabase(w)
    PROVE  Presence'
<1>1. /\ dbs' = dbs \/ dbs' = dbs \ {inst[w].db}
      /\ rows' = rows /\ inst' = inst
      /\ pc' = [pc EXCEPT ![w] = "drop_user"] /\ pc[w] = "drop_db"
  BY DEF ExecDropDatabase, Try, Goto, DropDatabase, rdsVars
<1>2. pc'[w] = "drop_user" /\ \A v \in Workers : v # w => pc'[v] = pc[v]
  BY <1>1 DEF TypeOK
<1>3. /\ inst[w].id \in DOMAIN rows /\ rows[inst[w].id].db = inst[w].db
      /\ \A v \in Workers : pc[v] \in Creating => inst[v].db # inst[w].db
  BY <1>1 DEF Ownership, DeletesFoundRow, CreatesAreFresh, Deleting
<1>4. RowsApart'
  BY <1>1 DEF Presence, RowsApart
<1>5. CreatedExists'
  BY <1>1, <1>2, <1>3 DEF Presence, CreatedExists, Creating
<1>6. \A i \in DOMAIN rows : ~BeingDeleted(i)' => ~BeingDeleted(i) /\ i # inst[w].id
  BY <1>1, <1>2 DEF BeingDeleted, Deleting
<1>7. LiveHasDatabase'
  BY <1>1, <1>3, <1>6 DEF Presence, LiveHasDatabase, RowsApart
<1> QED
  BY <1>4, <1>5, <1>7 DEF Presence

LEMMA PresenceDeleteRow ==
    ASSUME "soft_delete" \notin Faults, TypeOK, Ownership, Presence,
           NEW w \in Workers, DeleteRow(w)
    PROVE  Presence'
<1>1. /\ dbs' = dbs /\ inst' = inst
      /\ pc' = [pc EXCEPT ![w] = "reply"] /\ pc[w] = "soft_delete"
      /\ SoftDelete(inst[w].id)
  BY DEF DeleteRow, Try, Answer, Goto, rdsVars
<1>2. pc'[w] = "reply" /\ \A v \in Workers : v # w => pc'[v] = pc[v]
  BY <1>1 DEF TypeOK
<1>3. /\ DOMAIN rows' = DOMAIN rows
      /\ \A j \in DOMAIN rows :
             rows'[j].db = rows[j].db /\ (rows'[j].live => rows[j].live)
  BY <1>1, SoftDeletedRows DEF TypeOK, TableTypeOK
<1>4. inst[w].id \in DOMAIN rows
  BY <1>1 DEF Ownership, DeletesFoundRow, Deleting
<1>5. ~rows'[inst[w].id].live
  <2>1. rows[inst[w].id] \in Row
    BY <1>4, RowType DEF TypeOK, TableTypeOK
  <2> QED
    BY <1>1, <1>4, <2>1 DEF SoftDelete, Row
<1>6. RowsApart'
  BY <1>3 DEF Presence, RowsApart
<1>7. CreatedExists'
  BY <1>1, <1>2 DEF Presence, CreatedExists
<1>8. \A i : ~BeingDeleted(i)' => ~BeingDeleted(i) \/ i = inst[w].id
  BY <1>1, <1>2 DEF BeingDeleted
<1>9. LiveHasDatabase'
  BY <1>1, <1>3, <1>5, <1>8 DEF Presence, LiveHasDatabase
<1> QED
  BY <1>6, <1>7, <1>9 DEF Presence

LEMMA PresenceNext ==
    ASSUME "ddl" \notin Faults, "soft_delete" \notin Faults,
           "crash" \notin Faults, "resend" \notin Faults,
           TypeOK, Ownership, Presence, [Next]_vars
    PROVE  Presence'
BY PresenceQuiet, PresenceCreateDatabase, PresenceSave, PresenceDropDatabase,
   PresenceDeleteRow
   DEF Next, Environment, Handle, CreateInstance, BindInstance,
       DeleteInstance

\* Every instance the table shows and nobody is deprovisioning has its database,
\* its user with the password of the row and the grant, whatever is interleaved and
\* whichever saves, drops and lookups fail (actions.go:60-64, 129-132).  Presence is
\* the inductive invariant of this one.
THEOREM LiveStaysBacked ==
    ASSUME "ddl" \notin Faults, "soft_delete" \notin Faults,
           "crash" \notin Faults, "entropy" \notin Faults,
           "resend" \notin Faults
    PROVE  Spec => []LiveBacked
<1>1. Init => ServerBacks /\ Presence
  BY DEF Init, RdsInit, TableInit, ServerBacks, RolesOfOneDraw, CreatesProgress,
         RowsBacked, Presence, RowsApart, CreatedExists, LiveHasDatabase
<1>2. TypeOK /\ Ownership /\ ServerBacks /\ [Next]_vars => ServerBacks'
  BY ServerNext
<1>3. TypeOK /\ Ownership /\ Presence /\ [Next]_vars => Presence'
  BY PresenceNext
<1>4. TypeOK /\ Ownership /\ ServerBacks /\ Presence => LiveBacked
  BY BackedRow DEF Presence, LiveHasDatabase, LiveBacked, Accepts
<1> QED
  BY <1>1, <1>2, <1>3, <1>4, OwnershipHolds, TypeCorrect, PTL DEF Spec

----------------------------------------------------------------------------
(* Nothing is left behind. *)

LEMMA TidyFrame ==
    ASSUME Tidiness, rows' = rows, UNCHANGED rdsVars,
           \A v \in Workers : pc[v] \in Creating =>
               pc'[v] \in Creating /\ inst'[v] = inst[v],
           \A v \in Workers : pc'[v] \in {"drop_user", "soft_delete"} =>
               pc'[v] = pc[v] /\ inst'[v] = inst[v]
    PROVE  Tidiness'
<1>1. GrantsOnDatabases' /\ NobodyConnected'
  BY DEF Tidiness, GrantsOnDatabases, NobodyConnected, rdsVars
<1>2. DropsDone'
  BY DEF Tidiness, DropsDone, HasRole, rdsVars
<1>3. NothingLeaks'
  BY DEF Tidiness, NothingLeaks, rdsVars
<1> QED
  BY <1>1, <1>2, <1>3 DEF Tidiness

\* The steps TidyFrame speaks of; nobody connects and nobody crashes.
LEMMA TidyQuiet ==
    ASSUME "crash" \notin Faults, "session" \notin Faults, TypeOK, Tidiness,
           \/ \E w \in Workers :
                  \/ \E op \in Ops, u \in Uuids : Receive(w, op, u)
                  \/ CreateConflict(w)
                  \/ CreateRefused(w)
                  \/ CreatePrepare(w)
                  \/ BindMissing(w)
                  \/ BindFound(w)
                  \/ Unbind(w)
                  \/ DeleteMissing(w)
                  \/ DeleteFound(w)
                  \/ Reply(w)
           \/ \E c \in creds, d \in dbs : Connect(c, d)
           \/ \E d \in sessions : Disconnect(d)
           \/ Restart
           \/ UNCHANGED vars
    PROVE  Tidiness'
<1> USE TidyFrame DEF TypeOK, Goto, rdsVars, Awaiting, Creating
<1>1. ASSUME NEW w \in Workers, NEW op \in Ops, NEW u \in Uuids,
             Receive(w, op, u)
      PROVE  Tidiness'
  BY <1>1 DEF Receive
<1>2. ASSUME NEW w \in Workers, CreateConflict(w)
      PROVE  Tidiness'
  BY <1>2 DEF CreateConflict, Answer
<1>3. ASSUME NEW w \in Workers, CreateRefused(w)
      PROVE  Tidiness'
  BY <1>3 DEF CreateRefused, Answer
<1>4. ASSUME NEW w \in Workers, CreatePrepare(w)
      PROVE  Tidiness'
  BY <1>4 DEF CreatePrepare
<1>5. ASSUME NEW w \in Workers, BindMissing(w)
      PROVE  Tidiness'
  BY <1>5 DEF BindMissing, Answer
<1>6. ASSUME NEW w \in Workers, BindFound(w)
      PROVE  Tidiness'
  BY <1>6 DEF BindFound, Answer
<1>7. ASSUME NEW w \in Workers, Unbind(w)
      PROVE  Tidiness'
  BY <1>7 DEF Unbind, Answer
<1>8. ASSUME NEW w \in Workers, DeleteMissing(w)
      PROVE  Tidiness'
  BY <1>8 DEF DeleteMissing, Answer
<1>9. ASSUME NEW w \in Workers, DeleteFound(w)
      PROVE  Tidiness'
  BY <1>9 DEF DeleteFound
<1>10. ASSUME NEW w \in Workers, Reply(w)
      PROVE  Tidiness'
  BY <1>10 DEF Reply
<1>11. ~Restart /\ ~(\E c \in creds, d \in dbs : Connect(c, d))
  BY DEF Restart, Connect
<1>12. ~(\E d \in sessions : Disconnect(d))
  BY DEF Tidiness, NobodyConnected
<1>13. CASE UNCHANGED vars
  BY <1>13 DEF vars
<1> QED
  BY <1>1, <1>2, <1>3, <1>4, <1>5, <1>6, <1>7, <1>8, <1>9, <1>10,
     <1>11, <1>12, <1>13

\* The statements of a creation make what its row will name.
LEMMA TidyCreate ==
    ASSUME TypeOK, Ownership, Tidiness, NEW w \in Workers,
           ExecCreateDatabase(w) \/ ExecCreateUser(w) \/ ExecGrant(w)
    PROVE  Tidiness'
<1>1. /\ rows' = rows /\ inst' = inst /\ sessions' = sessions
      /\ dbs' = dbs \/ dbs' = dbs \cup {inst[w].db}
      /\ \/ roles' = roles
         \/ roles' = roles \cup
                {[name |-> inst[w].user, password |-> inst[w].password]}
      /\ \/ grants' = grants
         \/ /\ inst[w].db \in dbs /\ dbs' = dbs
            /\ grants' = grants \cup {[db |-> inst[w].db, role |-> inst[w].user]}
      /\ pc[w] \in Creating
  BY DEF ExecCreateDatabase, ExecCreateUser, ExecGrant, Try, CreateDatabase,
         CreateUser, GrantAll, rdsVars, Creating
<1>2. pc'[w] \in Creating /\ \A v \in Workers : v # w => pc'[v] = pc[v]
  BY DEF ExecCreateDatabase, ExecCreateUser, ExecGrant, Goto, TypeOK, Creating
<1>3. \A v \in Workers : pc[v] \in Deleting =>
          inst[v].db # inst[w].db /\ inst[v].user # inst[w].user
  BY <1>1 DEF Ownership, DeletesFoundRow, CreatesAreFresh, OneDraw
<1>4. GrantsOnDatabases' /\ NobodyConnected'
  BY <1>1 DEF Tidiness, GrantsOnDatabases, NobodyConnected
<1>5. \A r \in roles' : r \in roles \/ r.name = inst[w].user
  BY <1>1
<1>6. DropsDone'
  BY <1>1, <1>2, <1>3, <1>5
     DEF Tidiness, DropsDone, HasRole, Creating, Deleting
<1>7. NothingLeaks'
  <2>1. \A v \in Workers : pc[v] \in Creating => pc'[v] \in Creating
    BY <1>1, <1>2
  <2> QED
    BY <1>1, <1>2, <1>5, <2>1 DEF Tidiness, NothingLeaks
<1> QED
  BY <1>4, <1>6, <1>7 DEF Tidiness

LEMMA InsertedThere ==
    ASSUME rows \in Seq(Row), NEW r \in Row, Insert(r) \/ InsertTwice(r)
    PROVE  \E n \in DOMAIN rows' : rows'[n] = r
<1> DEFINE s1 == Append(rows, r)
           s2 == Append(s1, r)
<1>1. /\ s1 \in Seq(Row) /\ Len(s1) = Len(rows) + 1 /\ s1[Len(s1)] = r
  BY AppendProperties
<1> HIDE DEF s1
<1>2. /\ s2 \in Seq(Row) /\ Len(s2) = Len(s1) + 1 /\ s2[Len(s2)] = r
  BY <1>1, AppendProperties
<1> HIDE DEF s2
<1>3. Len(rows) \in Nat
  BY LenProperties
<1>4. Len(s1) \in DOMAIN s1 /\ Len(s2) \in DOMAIN s2
  BY <1>1, <1>2, <1>3, LenProperties
<1> QED
  BY <1>1, <1>2, <1>4 DEF Insert, InsertTwice, s1, s2

LEMMA TidySave ==
    ASSUME "save" \notin Faults, TypeOK, Tidiness,
           NEW w \in Workers, SaveInstance(w)
    PROVE  Tidiness'
<1>1. /\ UNCHANGED rdsVars /\ inst' = inst
      /\ pc' = [pc EXCEPT ![w] = "reply"] /\ pc[w] = "save"
      /\ Insert(NewRow(w)) \/ InsertTwice(NewRow(w))
  BY DEF SaveInstance, Answer, Goto
<1>2. pc'[w] = "reply" /\ \A v \in Workers : v # w => pc'[v] = pc[v]
  BY <1>1 DEF TypeOK
<1>3. NewRow(w) \in Row
  BY <1>1, NewRowType DEF TypeOK
<1>4. \A j \in DOMAIN rows : j \in DOMAIN rows' /\ rows'[j] = rows[j]
  BY <1>1, <1>3, InsertedRows DEF TypeOK, TableTypeOK
<1>5. \E n \in DOMAIN rows' : /\ rows'[n].live /\ rows'[n].db = inst[w].db
                             /\ rows'[n].user = inst[w].user
  <2>1. \E n \in DOMAIN rows' : rows'[n] = NewRow(w)
    BY <1>1, <1>3, InsertedThere DEF TypeOK, TableTypeOK
  <2> QED
    BY <2>1 DEF NewRow
<1>6. GrantsOnDatabases' /\ NobodyConnected'
  BY <1>1 DEF Tidiness, GrantsOnDatabases, NobodyConnected, rdsVars
<1>7. DropsDone'
  BY <1>1, <1>2 DEF Tidiness, DropsDone, HasRole, rdsVars
<1>8. NothingLeaks'
  BY <1>1, <1>2, <1>4, <1>5 DEF Tidiness, NothingLeaks, rdsVars
<1> QED
  BY <1>6, <1>7, <1>8 DEF Tidiness

LEMMA TidyDropDatabase ==
    ASSUME "drop" \notin Faults, TypeOK, Tidiness,
           NEW w \in Workers, ExecDropDatabase(w)
    PROVE  Tidiness'
<1>1. /\ dbs' = dbs \ {inst[w].db} /\ roles' = roles /\ sessions' = sessions
      /\ grants' = {g \in grants : g.db # inst[w].db}
      /\ rows' = rows /\ inst' = inst
      /\ pc' = [pc EXCEPT ![w] = "drop_user"] /\ pc[w] = "drop_db"
  BY DEF ExecDropDatabase, Try, Goto, DropDatabase, rdsVars, Tidiness,
         NobodyConnected
<1>2. pc'[w] = "drop_user" /\ \A v \in Workers : v # w => pc'[v] = pc[v]
  BY <1>1 DEF TypeOK
<1>3. GrantsOnDatabases' /\ NobodyConnected'
  BY <1>1 DEF Tidiness, GrantsOnDatabases, NobodyConnected
<1>4. DropsDone'
  BY <1>1, <1>2 DEF Tidiness, DropsDone, HasRole
<1>5. NothingLeaks'
  <2>1. \A v \in Workers : pc[v] \in Creating => pc'[v] \in Creating
    BY <1>1, <1>2 DEF Creating
  <2> QED
    BY <1>1, <2>1 DEF Tidiness, NothingLeaks
<1> QED
  BY <1>3, <1>4, <1>5 DEF Tidiness

\* No privilege is left on the database, so the user can go.
LEMMA TidyDropUser ==
    ASSUME "drop" \notin Faults, TypeOK, Ownership, Tidiness,
           NEW w \in Workers, ExecDropUser(w)
    PROVE  Tidiness'
<1>1. /\ DropUser(inst[w].user) /\ rows' = rows /\ inst' = inst
      /\ pc' = [pc EXCEPT ![w] = "soft_delete"] /\ pc[w] = "drop_user"
  BY DEF ExecDropUser, Try, Goto
<1>2. pc'[w] = "soft_delete" /\ \A v \in Workers : v # w => pc'[v] = pc[v]
  BY <1>1 DEF TypeOK
<1>3. inst[w].db \notin dbs /\ inst[w].user = inst[w].db
  BY <1>1 DEF Tidiness, DropsDone, Ownership, DeletesFoundRow, Deleting
<1>4. \A g \in grants : g.role # inst[w].user
  BY <1>3 DEF Tidiness, GrantsOnDatabases, Ownership, GrantsOfOneDraw
<1>5. /\ roles' = {r \in roles : r.name # inst[w].user}
      /\ dbs' = dbs /\ grants' = grants /\ sessions' = sessions
  BY <1>1, <1>4 DEF DropUser
<1>6. GrantsOnDatabases' /\ NobodyConnected'
  BY <1>5 DEF Tidiness, GrantsOnDatabases, NobodyConnected
<1>7. DropsDone'
  BY <1>1, <1>2, <1>3, <1>5 DEF Tidiness, DropsDone, HasRole
<1>8. NothingLeaks'
  <2>1. \A v \in Workers : pc[v] \in Creating => pc'[v] \in Creating
    BY <1>1, <1>2 DEF Creating
  <2> QED
    BY <1>1, <1>5, <2>1 DEF Tidiness, NothingLeaks
<1> QED
  BY <1>6, <1>7, <1>8 DEF Tidiness

\* The row that is marked names nothing that is still there.
LEMMA TidyDeleteRow ==
    ASSUME TypeOK, Ownership, Tidiness, NEW w \in Workers, DeleteRow(w)
    PROVE  Tidiness'
<1>1. /\ UNCHANGED rdsVars /\ inst' = inst
      /\ pc' = [pc EXCEPT ![w] = "reply"] /\ pc[w] = "soft_delete"
      /\ SoftDelete(inst[w].id) \/ rows' = rows
  BY DEF DeleteRow, Try, Answer, Goto
<1>2. pc'[w] = "reply" /\ \A v \in Workers : v # w => pc'[v] = pc[v]
  BY <1>1 DEF TypeOK
<1>3. /\ inst[w].id \in DOMAIN rows
      /\ rows[inst[w].id].db = inst[w].db /\ inst[w].user = inst[w].db
      /\ rows[inst[w].id].user = inst[w].user
      /\ inst[w].db \notin dbs /\ ~HasRole(inst[w].user)
  BY <1>1 DEF Ownership, DeletesFoundRow, RowsOfOneDraw, OneDraw, Tidiness,
              DropsDone, Deleting
<1>4. DOMAIN rows' = DOMAIN rows /\ \A j \in DOMAIN rows : j # inst[w].id =>
          rows'[j] = rows[j]
  <2>1. DOMAIN rows' = DOMAIN rows
    BY <1>1, SoftDeletedRows DEF TypeOK, TableTypeOK
  <2> QED
    BY <1>1, <2>1 DEF SoftDelete
<1>5. GrantsOnDatabases' /\ NobodyConnected'
  BY <1>1 DEF Tidiness, GrantsOnDatabases, NobodyConnected, rdsVars
<1>6. DropsDone'
  BY <1>1, <1>2 DEF Tidiness, DropsDone, HasRole, rdsVars
<1>7. NothingLeaks'
  <2>1. \A v \in Workers : pc[v] \in Creating => pc'[v] \in Creating
    BY <1>1, <1>2 DEF Creating
  <2>2. \A d \in dbs : d # inst[w].db
    BY <1>3
  <2>3. \A r \in roles : r.name # inst[w].user
    BY <1>3 DEF HasRole
  <2> QED
    BY <1>1, <1>3, <1>4, <2>1, <2>2, <2>3 DEF Tidiness, NothingLeaks, rdsVars
<1> QED
  BY <1>5, <1>6, <1>7 DEF Tidiness

\* Every database and every user on the server belongs to an instance the table
\* shows or to a creation that has yet to save it, so a later deprovision finds it
\* (actions.go:60-64, 129-132): lookups and marks may fail, statements of a creation
\* may fail, Saves may be resent and keys may be refused.  Tidiness is inductive; the
\* user can be dropped because its only privilege went with the database.
THEOREM NothingStaysBehind ==
    ASSUME "save" \notin Faults, "drop" \notin Faults,
           "session" \notin Faults, "crash" \notin Faults,
           "entropy" \notin Faults
    PROVE  Spec => []NothingLeaks
<1>1. Init => Tidiness
  BY DEF Init, RdsInit, Tidiness, GrantsOnDatabases, DropsDone, NobodyConnected,
         NothingLeaks
<1>2. TypeOK /\ Ownership /\ Tidiness /\ [Next]_vars => Tidiness'
  BY TidyQuiet, TidyCreate, TidySave, TidyDropDatabase, TidyDropUser, TidyDeleteRow
     DEF Next, Environment, Handle, CreateInstance, BindInstance,
         DeleteInstance
<1>3. Tidiness => NothingLeaks
  BY DEF Tidiness
<1> QED
  BY <1>1, <1>2, <1>3, OwnershipHolds, TypeCorrect, PTL DEF Spec

=============================================================================
