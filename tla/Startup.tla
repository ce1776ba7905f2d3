------------------------------ MODULE Startup ------------------------------
(***************************************************************************)
(* How a broker process comes up: main reads its settings, App opens the   *)
(* database and lets gorm migrate the table of instances, then martini     *)
(* listens.  Several processes (a new version beside the old one) migrate  *)
(* the same table at the same time.                                        *)
(*                                                                         *)
(* gorm.Open is sql.Open, which contacts nobody, so its error check cannot *)
(* notice a server that is down, and no statement of AutoMigrate reports   *)
(* an error to DBInit: a failing server shows only in what is missing.     *)
(***************************************************************************)
EXTENDS Naturals, FiniteSets

CONSTANTS
    Procs,       \* broker processes
    Columns,     \* of the table of instances: the exported fields of Instance
    None,
    MaxStarts,   \* bound: starts of one process
    MaxErrors    \* bound: statements that fail for no fault of their own

ASSUME StartupAssumption ==
    /\ Procs # {} /\ Columns # {} /\ IsFiniteSet(Columns) /\ None \notin Columns
    /\ MaxStarts \in Nat /\ MaxErrors \in Nat

VARIABLES
    table,    \* the columns of the table, {} when there is no table
    pc,
    todo,     \* fields the loop of autoMigrate has still to visit
    field,    \* the one it is about to add
    failed,   \* scope.HasError()
    starts,
    errors    \* statements that failed so far

vars == <<table, pc, todo, field, failed, starts, errors>>

Labels == {"off", "open", "create", "fields", "alter", "run", "serving", "exited"}

TypeOK ==
    /\ table \subseteq Columns
    /\ pc \in [Procs -> Labels]
    /\ todo \in [Procs -> SUBSET Columns]
    /\ field \in [Procs -> Columns \cup {None}]
    /\ failed \in [Procs -> BOOLEAN]
    /\ starts \in [Procs -> 0 .. MaxStarts]
    /\ errors \in 0 .. MaxErrors

\* The table of an earlier version, of this one, or none.
Init ==
    /\ table \in SUBSET Columns
    /\ pc = [p \in Procs |-> "off"]
    /\ todo = [p \in Procs |-> {}]
    /\ field = [p \in Procs |-> None]
    /\ failed = [p \in Procs |-> FALSE]
    /\ starts = [p \in Procs |-> 0]
    /\ errors = 0

Goto(p, label) == pc' = [pc EXCEPT ![p] = label]

----------------------------------------------------------------------------

\* main up to App: without ENC_KEY the process returns.
Main(p) ==
    /\ pc[p] \in {"off", "exited"}
    /\ starts[p] < MaxStarts
    /\ starts' = [starts EXCEPT ![p] = @ + 1]
    /\ \/ Goto(p, "open")
       \/ Goto(p, "exited")
    /\ todo' = [todo EXCEPT ![p] = {}]
    /\ field' = [field EXCEPT ![p] = None]
    /\ failed' = [failed EXCEPT ![p] = FALSE]
    /\ UNCHANGED <<table, errors>>

\* A statement fails: the server is down, the connection is lost.
Failing == errors < MaxErrors /\ errors' = errors + 1

\* A query of the catalog whose error is dropped: a failing one has counted 0.
Counted(present, found) ==
    \/ found = present /\ UNCHANGED errors
    \/ present /\ ~found /\ Failing

\* Mutant: gorm takes an old table for an up to date one.
HasTableOnly(p) ==
    /\ pc[p] = "open"
    /\ \E found \in BOOLEAN :
           Counted(table # {}, found) /\ Goto(p, IF found THEN "run" ELSE "create")
    /\ UNCHANGED <<table, todo, field, failed, starts>>

HasTable(p) ==
    /\ pc[p] = "open"
    /\ \E found \in BOOLEAN :
           /\ Counted(table # {}, found)
           /\ IF found
              THEN Goto(p, "fields") /\ todo' = [todo EXCEPT ![p] = Columns]
              ELSE Goto(p, "create") /\ UNCHANGED todo
    /\ UNCHANGED <<table, field, failed, starts>>

\* CREATE TABLE or ALTER TABLE, whose answer can be lost when it took effect.
Executed(possible, after, ok) ==
    \/ possible /\ ok /\ table' = after /\ UNCHANGED errors
    \/ ~possible /\ ~ok /\ UNCHANGED <<table, errors>>
    \/ possible /\ ~ok /\ table' \in {table, after} /\ Failing

CreateTable(p) ==
    /\ pc[p] = "create"
    /\ \E ok \in BOOLEAN : Executed(table = {}, Columns, ok)
    /\ Goto(p, "run")
    /\ UNCHANGED <<todo, field, failed, starts>>

\* Mutant: the loop forgets which field it found missing.
HasColumnUnnamed(p) ==
    /\ pc[p] = "fields"
    /\ \E c \in todo[p] :
           /\ todo' = [todo EXCEPT ![p] = @ \ {c}]
           /\ \E found \in BOOLEAN :
                  /\ Counted(c \in table, found)
                  /\ IF found THEN UNCHANGED pc ELSE Goto(p, "alter")
    /\ UNCHANGED <<table, field, failed, starts>>

\* The fields are a Go map: they are visited in any order.
HasColumn(p) ==
    /\ pc[p] = "fields"
    /\ \E c \in todo[p] :
           /\ todo' = [todo EXCEPT ![p] = @ \ {c}]
           /\ \E found \in BOOLEAN :
                  /\ Counted(c \in table, found)
                  /\ IF found
                     THEN UNCHANGED <<pc, field>>
                     ELSE Goto(p, "alter") /\ field' = [field EXCEPT ![p] = c]
    /\ UNCHANGED <<table, failed, starts>>

\* Mutant: an ALTER that failed is tried again.
AddColumnRetry(p) ==
    /\ pc[p] = "alter"
    /\ \E ok \in BOOLEAN :
           /\ Executed(field[p] \notin table, table \cup {field[p]}, ok)
           /\ Goto(p, IF ok THEN "fields" ELSE "alter")
    /\ UNCHANGED <<todo, field, failed, starts>>

\* After one error Exec does nothing for the rest of the scope.
AddColumn(p) ==
    LET c == field[p] IN
    /\ pc[p] = "alter"
    /\ IF failed[p] THEN UNCHANGED <<table, failed, errors>>
       ELSE \E ok \in BOOLEAN :
                /\ Executed(c \notin table, table \cup {c}, ok)
                /\ failed' = [failed EXCEPT ![p] = ~ok]
    /\ Goto(p, "fields")
    /\ field' = [field EXCEPT ![p] = None]
    /\ UNCHANGED <<todo, starts>>

\* DBInit logs "Migrated" and returns nil whatever happened.
Migrated(p) ==
    /\ pc[p] = "fields" /\ todo[p] = {}
    /\ Goto(p, "run")
    /\ UNCHANGED <<table, todo, field, failed, starts, errors>>

\* ListenAndServe returns only with an error, which is fatal.
Run(p) ==
    /\ pc[p] = "run"
    /\ \/ Goto(p, "serving")
       \/ Goto(p, "exited")
    /\ UNCHANGED <<table, todo, field, failed, starts, errors>>

Crash(p) ==
    /\ pc[p] # "off"
    /\ Goto(p, "off")
    /\ UNCHANGED <<table, todo, field, failed, starts, errors>>

Step(p) ==
    \/ HasTable(p) \/ CreateTable(p) \/ HasColumn(p) \/ AddColumn(p)
    \/ Migrated(p) \/ Run(p)

Next == \E p \in Procs : Main(p) \/ Step(p) \/ Crash(p)

\* A process that started goes on; nobody has to start it.
Fairness == \A p \in Procs : WF_vars(Step(p))

Spec == Init /\ [][Next]_vars /\ Fairness

----------------------------------------------------------------------------

Up(p) == pc[p] = "serving"

\* Processes that migrate at the same time get in each other's way, and one whose
\* ALTER failed adds nothing more and serves; the table is complete all the same once
\* each of them, killed and restarted or not, has come up.  A server that fails is
\* noticed by nobody, so this needs one that does not.
MigrationsAddUp == errors = 0 /\ (\A p \in Procs : Up(p)) => table = Columns

\* A lone process, killed in the middle of a migration or not, brings any table up
\* to date before it serves.
LoneStartMigrates ==
    \A p \in Procs :
        errors = 0 /\ Up(p) /\ (\A q \in Procs \ {p} : starts[q] = 0)
            => table = Columns

\* A process that started serves, exits or is killed, whatever the server does.
StartupEnds ==
    \A p \in Procs : pc[p] = "open" ~> pc[p] \in {"serving", "exited", "off"}

=============================================================================
