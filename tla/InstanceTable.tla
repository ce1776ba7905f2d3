--------------------------- MODULE InstanceTable ---------------------------
(***************************************************************************)
(* The broker's own table "instances" (models.go) and the three ways the   *)
(* handlers reach it through gorm:                                         *)
(*   db.Where("uuid = ?", id).First(&instance)   FirstLive, NoLive         *)
(*   db.Save(&instance)                          Insert                    *)
(*   db.Delete(&instance)                        SoftDelete                *)
(* rows[i] is the row with primary key i.  No column but the key is unique *)
(* and no row is ever removed: Instance has a DeletedAt field, so gorm     *)
(* turns DELETE into an UPDATE of deleted_at and filters such rows out of  *)
(* every later query.                                                      *)
(***************************************************************************)
EXTENDS Integers, Sequences, Secrets

CONSTANT Uuids     \* the :id of the service instances in the URLs

VARIABLE rows

\* The password column is ciphertext; its salt is a column of the same row.
Row == [uuid : Uuids, db : Name, user : Name, cipher : Cipher,
        live : BOOLEAN]

TableTypeOK == rows \in Seq(Row)

TableInit == rows = <<>>

LiveFor(u, i) == rows[i].live /\ rows[i].uuid = u

NoLive(u) == \A i \in DOMAIN rows : ~LiveFor(u, i)

\* Mutants: First() without the Where, and on an Unscoped() table.
FirstLiveAny(u, i) ==
    /\ rows[i].live
    /\ \A j \in DOMAIN rows : rows[j].live => i <= j

FirstUnscoped(u, i) ==
    /\ rows[i].uuid = u
    /\ \A j \in DOMAIN rows : rows[j].uuid = u => i <= j

\* ORDER BY id LIMIT 1 over the rows whose deleted_at is not set.
FirstLive(u, i) ==
    /\ LiveFor(u, i)
    /\ \A j \in DOMAIN rows : LiveFor(u, j) => i <= j

Insert(r) == rows' = Append(rows, r)

\* Without a transaction the driver resends an INSERT whose answer was lost.
InsertTwice(r) == rows' = Append(Append(rows, r), r)

\* UPDATE ... SET deleted_at = now WHERE <not deleted> AND id = i: a second
\* delete of the same row matches nothing and is no error.
SoftDelete(i) == rows' = [rows EXCEPT ![i].live = FALSE]

=============================================================================
