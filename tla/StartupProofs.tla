---------------------------- MODULE StartupProofs ----------------------------
(***************************************************************************)
(* Proofs about Startup, for every set of processes and columns and every  *)
(* number of starts: the migrations of several processes add up as long as *)
(* no statement fails for no fault of its own.                             *)
(***************************************************************************)
EXTENDS Startup, TLAPS

----------------------------------------------------------------------------
(* The inductive invariant. *)

InFlight == {"fields", "alter", "run", "serving"}

\* Somebody else added the column since it was found missing, so the ALTER will fail.
Stale(p) == pc[p] = "alter" /\ field[p] \in table

\* A migration that has failed, or is about to.
Spoiled(p) == pc[p] \in InFlight /\ (failed[p] \/ Stale(p))

\* What a process has made sure of where it stands.
Sound(p) ==
    /\ pc[p] = "alter" => field[p] \in Columns
    /\ starts[p] = 0 => pc[p] = "off"
    /\ pc[p] \in {"fields", "alter"} => table # {}
    /\ errors = 0 =>
        /\ pc[p] \in {"open", "create"} => ~failed[p]
        /\ pc[p] = "create" => table \in {{}, Columns}
        /\ ~failed[p] =>
            /\ pc[p] = "fields" => Columns \subseteq table \cup todo[p]
            /\ pc[p] = "alter" => Columns \subseteq table \cup todo[p] \cup {field[p]}
            /\ pc[p] \in {"run", "serving"} => table = Columns

\* Whoever spoils the migration of another made the last change of the table and is
\* itself unspoiled: so not everybody is, and nobody is who is alone.
SomebodyUnspoiled == errors = 0 => \E p \in Procs : ~Spoiled(p)

AloneUnspoiled ==
    \A p \in Procs :
        errors = 0 /\ (\A q \in Procs : q # p => starts[q] = 0) => ~Spoiled(p)

StartupInv ==
    /\ TypeOK
    /\ \A p \in Procs : Sound(p)
    /\ SomebodyUnspoiled
    /\ AloneUnspoiled

----------------------------------------------------------------------------
(* What every step has in common. *)

\* The process at work is the only one whose place and variables change.
OthersKept(p) ==
    \A q \in Procs : q # p =>
        /\ pc'[q] = pc[q] /\ todo'[q] = todo[q] /\ field'[q] = field[q]
        /\ failed'[q] = failed[q] /\ starts'[q] = starts[q]

\* No statement takes a column away, and what makes the table makes all of it.
Grows ==
    /\ table \subseteq table' /\ table' \subseteq Columns
    /\ table = {} => table' \in {{}, Columns}
    /\ errors' = 0 => errors = 0

LEMMA SoundElsewhere ==
    ASSUME NEW p \in Procs, \A q \in Procs : Sound(q), OthersKept(p), Grows,
           Sound(p)'
    PROVE  \A q \in Procs : Sound(q)'
<1> SUFFICES ASSUME NEW q \in Procs, q # p PROVE Sound(q)'
  OBVIOUS
<1>1. /\ pc'[q] = pc[q] /\ todo'[q] = todo[q] /\ field'[q] = field[q]
      /\ failed'[q] = failed[q] /\ starts'[q] = starts[q]
  BY DEF OthersKept
<1>2. Sound(q)
  OBVIOUS
<1>3. pc[q] = "create" /\ errors' = 0 => table' \in {{}, Columns}
  BY <1>2 DEF Sound, Grows
<1> QED
  BY <1>1, <1>2, <1>3 DEF Sound, Grows

\* A step that leaves the table alone and spoils nothing.
LEMMA UnspoiledFrame ==
    ASSUME NEW p \in Procs, SomebodyUnspoiled, AloneUnspoiled, OthersKept(p),
           table' = table, errors' = 0 => errors = 0,
           starts'[p] = 0 => starts[p] = 0,
           errors' = 0 /\ Spoiled(p)' => Spoiled(p)
    PROVE  SomebodyUnspoiled' /\ AloneUnspoiled'
<1>1. \A q \in Procs : errors' = 0 /\ Spoiled(q)' => Spoiled(q)
  BY DEF OthersKept, Spoiled, Stale
<1>2. \A q \in Procs : starts'[q] = 0 => starts[q] = 0
  BY DEF OthersKept
<1>3. SomebodyUnspoiled'
  BY <1>1 DEF SomebodyUnspoiled
<1>4. AloneUnspoiled'
  BY <1>1, <1>2 DEF AloneUnspoiled
<1> QED
  BY <1>3, <1>4

\* A step of a process that is unspoiled after it, whatever it did to the others.
LEMMA UnspoiledStep ==
    ASSUME NEW p \in Procs, Sound(p), pc[p] # "off", starts' = starts,
           errors' = 0 => ~Spoiled(p)'
    PROVE  SomebodyUnspoiled' /\ AloneUnspoiled'
<1>1. starts'[p] # 0
  BY DEF Sound
<1> QED
  BY <1>1 DEF SomebodyUnspoiled, AloneUnspoiled

----------------------------------------------------------------------------
(* One lemma for each action. *)

LEMMA StartupInit == Init => StartupInv
<1> SUFFICES ASSUME Init PROVE StartupInv
  OBVIOUS
<1>1. \A p \in Procs : pc[p] = "off" /\ starts[p] = 0
  BY DEF Init
<1>2. TypeOK
  BY StartupAssumption DEF Init, TypeOK, Labels
<1>3. \A p \in Procs : Sound(p) /\ ~Spoiled(p)
  BY <1>1 DEF Sound, Spoiled, InFlight
<1> QED
  BY <1>2, <1>3, StartupAssumption DEF StartupInv, SomebodyUnspoiled, AloneUnspoiled

LEMMA KeepsMain ==
    ASSUME StartupInv, NEW p \in Procs, Main(p)
    PROVE  StartupInv'
<1>1. /\ pc'[p] \in {"open", "exited"} /\ failed'[p] = FALSE
      /\ starts'[p] \in 1 .. MaxStarts /\ table' = table /\ errors' = errors
      /\ OthersKept(p)
  BY StartupAssumption DEF Main, Goto, OthersKept, StartupInv, TypeOK
<1>2. TypeOK'
  BY StartupAssumption DEF Main, Goto, StartupInv, TypeOK, Labels
<1>3. Sound(p)' /\ ~Spoiled(p)'
  BY <1>1 DEF Sound, Spoiled, InFlight
<1>4. Grows
  BY <1>1 DEF Grows, StartupInv, TypeOK
<1>5. \A q \in Procs : Sound(q)'
  BY <1>1, <1>3, <1>4, SoundElsewhere DEF StartupInv
<1>6. SomebodyUnspoiled' /\ AloneUnspoiled'
  BY <1>1, <1>3, UnspoiledFrame DEF StartupInv
<1> QED
  BY <1>2, <1>5, <1>6 DEF StartupInv

LEMMA CountedErrors ==
    ASSUME TypeOK, NEW present \in BOOLEAN, NEW found \in BOOLEAN,
           Counted(present, found)
    PROVE  /\ errors' \in 0 .. MaxErrors /\ (errors' = 0 => errors = 0)
           /\ found => present
           /\ errors' = 0 => (found <=> present)
BY StartupAssumption DEF Counted, Failing, TypeOK

LEMMA KeepsHasTable ==
    ASSUME StartupInv, NEW p \in Procs, HasTable(p)
    PROVE  StartupInv'
<1>1. PICK found \in BOOLEAN :
          /\ Counted(table # {}, found)
          /\ IF found
             THEN Goto(p, "fields") /\ todo' = [todo EXCEPT ![p] = Columns]
             ELSE Goto(p, "create") /\ UNCHANGED todo
  BY DEF HasTable
<1>2. /\ errors' \in 0 .. MaxErrors /\ (errors' = 0 => errors = 0)
      /\ found => table # {}
      /\ errors' = 0 => (found <=> table # {})
  BY <1>1, CountedErrors DEF StartupInv
<1>3. /\ pc[p] = "open" /\ table' = table /\ field' = field
      /\ failed' = failed /\ starts' = starts /\ OthersKept(p)
      /\ pc'[p] = IF found THEN "fields" ELSE "create"
      /\ found => todo'[p] = Columns
  BY <1>1 DEF HasTable, Goto, OthersKept, StartupInv, TypeOK
<1>4. TypeOK'
  BY <1>1, <1>2, <1>3 DEF Goto, StartupInv, TypeOK, Labels
<1>5. errors' = 0 => failed'[p] = FALSE
  BY <1>2, <1>3 DEF StartupInv, Sound, TypeOK
<1>6. Sound(p)'
  BY <1>2, <1>3, <1>5 DEF StartupInv, Sound
<1>7. errors' = 0 => ~Spoiled(p)'
  BY <1>3, <1>5 DEF Spoiled, Stale
<1>8. Grows
  BY <1>2, <1>3 DEF Grows, StartupInv, TypeOK
<1>9. \A q \in Procs : Sound(q)'
  BY <1>3, <1>6, <1>8, SoundElsewhere DEF StartupInv
<1>10. SomebodyUnspoiled' /\ AloneUnspoiled'
  BY <1>2, <1>3, <1>7, UnspoiledFrame DEF StartupInv
<1> QED
  BY <1>4, <1>9, <1>10 DEF StartupInv

LEMMA KeepsCreateTable ==
    ASSUME StartupInv, NEW p \in Procs, CreateTable(p)
    PROVE  StartupInv'
<1>1. PICK ok \in BOOLEAN : Executed(table = {}, Columns, ok)
  BY DEF CreateTable
<1>2. /\ errors' \in 0 .. MaxErrors /\ (errors' = 0 => errors = 0)
      /\ table' \in {table, Columns}
      /\ errors' = 0 => table' = IF table = {} THEN Columns ELSE table
  BY <1>1, StartupAssumption DEF Executed, Failing, StartupInv, TypeOK
<1>3. /\ pc[p] = "create" /\ pc'[p] = "run" /\ todo' = todo /\ field' = field
      /\ failed' = failed /\ starts' = starts /\ OthersKept(p)
  BY DEF CreateTable, Goto, OthersKept, StartupInv, TypeOK
<1>4. TypeOK'
  BY <1>2, <1>3 DEF CreateTable, Goto, StartupInv, TypeOK, Labels
<1>5. errors' = 0 => failed'[p] = FALSE /\ table' = Columns
  BY <1>2, <1>3 DEF StartupInv, Sound, TypeOK
<1>6. Sound(p)'
  BY <1>3, <1>5 DEF StartupInv, Sound
<1>7. errors' = 0 => ~Spoiled(p)'
  BY <1>3, <1>5 DEF Spoiled, Stale
<1>8. Grows
  BY <1>2 DEF Grows, StartupInv, TypeOK
<1>9. \A q \in Procs : Sound(q)'
  BY <1>3, <1>6, <1>8, SoundElsewhere DEF StartupInv
<1>10. SomebodyUnspoiled' /\ AloneUnspoiled'
  BY <1>3, <1>7, UnspoiledStep DEF StartupInv
<1> QED
  BY <1>4, <1>9, <1>10 DEF StartupInv

LEMMA KeepsHasColumn ==
    ASSUME StartupInv, NEW p \in Procs, HasColumn(p)
    PROVE  StartupInv'
<1>1. PICK c \in todo[p], found \in BOOLEAN :
          /\ todo' = [todo EXCEPT ![p] = @ \ {c}]
          /\ Counted(c \in table, found)
          /\ IF found
             THEN UNCHANGED <<pc, field>>
             ELSE Goto(p, "alter") /\ field' = [field EXCEPT ![p] = c]
  BY DEF HasColumn
<1>2. /\ errors' \in 0 .. MaxErrors /\ (errors' = 0 => errors = 0)
      /\ errors' = 0 => (found <=> c \in table)
  <2>1. (c \in table) \in BOOLEAN
    OBVIOUS
  <2> QED
    BY <1>1, <2>1, CountedErrors DEF StartupInv
<1>3. /\ pc[p] = "fields" /\ table' = table
      /\ failed' = failed /\ starts' = starts /\ OthersKept(p)
      /\ c \in Columns /\ todo'[p] = todo[p] \ {c}
      /\ found => pc'[p] = "fields"
      /\ ~found => pc'[p] = "alter" /\ field'[p] = c
  BY <1>1 DEF HasColumn, Goto, OthersKept, StartupInv, TypeOK
<1>4. TypeOK'
  BY <1>1, <1>2, <1>3 DEF Goto, StartupInv, TypeOK, Labels
<1>5. Sound(p)'
  BY <1>2, <1>3 DEF StartupInv, Sound
<1>6. errors' = 0 /\ Spoiled(p)' => Spoiled(p)
  BY <1>2, <1>3 DEF Spoiled, Stale, InFlight
<1>7. Grows
  BY <1>2, <1>3 DEF Grows, StartupInv, TypeOK
<1>8. \A q \in Procs : Sound(q)'
  BY <1>3, <1>5, <1>7, SoundElsewhere DEF StartupInv
<1>9. SomebodyUnspoiled' /\ AloneUnspoiled'
  BY <1>2, <1>3, <1>6, UnspoiledFrame DEF StartupInv
<1> QED
  BY <1>4, <1>8, <1>9 DEF StartupInv

\* An ALTER takes effect, or finds that somebody was faster, or is not executed
\* at all after an earlier failure.
LEMMA KeepsAddColumn ==
    ASSUME StartupInv, NEW p \in Procs, AddColumn(p)
    PROVE  StartupInv'
<1> DEFINE c == field[p]
<1>1. /\ pc[p] = "alter" /\ pc'[p] = "fields" /\ todo' = todo
      /\ field'[p] = None /\ starts' = starts /\ OthersKept(p)
      /\ c \in Columns /\ table # {}
  BY DEF AddColumn, Goto, OthersKept, StartupInv, TypeOK, Sound
<1>2. /\ errors' \in 0 .. MaxErrors /\ (errors' = 0 => errors = 0)
      /\ table' \in {table, table \cup {c}}
      /\ failed' \in [Procs -> BOOLEAN]
      /\ \/ failed[p] /\ failed'[p] /\ table' = table
         \/ ~failed[p] /\ ~failed'[p] /\ table' = table \cup {c}
         \/ failed'[p] /\ (errors' = 0 => c \in table /\ table' = table)
  <2>1. CASE failed[p]
    BY <2>1 DEF AddColumn, StartupInv, TypeOK
  <2>2. CASE ~failed[p]
    <3>1. PICK ok \in BOOLEAN :
              /\ Executed(c \notin table, table \cup {c}, ok)
              /\ failed' = [failed EXCEPT ![p] = ~ok]
      BY <2>2 DEF AddColumn
    <3>2. failed' \in [Procs -> BOOLEAN] /\ failed'[p] = ~ok
      BY <3>1 DEF StartupInv, TypeOK
    <3>3. CASE c \notin table /\ ok /\ table' = table \cup {c} /\ UNCHANGED errors
      BY <2>2, <3>2, <3>3 DEF StartupInv, TypeOK
    <3>4. CASE c \in table /\ ~ok /\ UNCHANGED <<table, errors>>
      BY <3>2, <3>4 DEF StartupInv, TypeOK
    <3>5. CASE ~ok /\ table' \in {table, table \cup {c}} /\ Failing
      <4>1. errors' \in 1 .. MaxErrors
        BY <3>5, StartupAssumption DEF Failing, StartupInv, TypeOK
      <4> QED
        BY <3>2, <3>5, <4>1
    <3> QED
      BY <3>1, <3>3, <3>4, <3>5 DEF Executed
  <2> QED
    BY <2>1, <2>2
<1>3. TypeOK'
  <2>1. /\ pc' \in [Procs -> Labels] /\ field' \in [Procs -> Columns \cup {None}]
    BY DEF AddColumn, Goto, StartupInv, TypeOK, Labels
  <2> QED
    BY <1>1, <1>2, <2>1 DEF StartupInv, TypeOK
<1> HIDE DEF c
<1>4. errors = 0 /\ ~failed[p] => Columns \subseteq table \cup todo[p] \cup {c}
  BY <1>1 DEF StartupInv, Sound, c
<1>5. errors' = 0 /\ ~failed'[p] => Columns \subseteq table' \cup todo'[p]
  BY <1>1, <1>2, <1>4
<1>6. Sound(p)'
  BY <1>1, <1>2, <1>5 DEF StartupInv, Sound
<1>7. Grows
  BY <1>1, <1>2 DEF Grows, StartupInv, TypeOK
<1>8. \A q \in Procs : Sound(q)'
  BY <1>1, <1>6, <1>7, SoundElsewhere DEF StartupInv
<1>9. SomebodyUnspoiled' /\ AloneUnspoiled'
  <2>1. CASE ~failed'[p]
    <3>1. ~Spoiled(p)'
      BY <1>1, <2>1 DEF Spoiled, Stale
    <3> QED
      BY <1>1, <3>1, UnspoiledStep DEF StartupInv
  <2>2. CASE failed'[p] /\ errors' = 0
    <3>1. table' = table /\ Spoiled(p)
      BY <1>1, <1>2, <2>2 DEF Spoiled, Stale, InFlight, c
    <3> QED
      BY <1>1, <1>2, <3>1, UnspoiledFrame DEF StartupInv
  <2>3. CASE errors' # 0
    BY <2>3 DEF SomebodyUnspoiled, AloneUnspoiled
  <2> QED
    BY <2>1, <2>2, <2>3
<1> QED
  BY <1>3, <1>8, <1>9 DEF StartupInv

LEMMA KeepsQuietSteps ==
    ASSUME StartupInv, NEW p \in Procs, Migrated(p) \/ Run(p) \/ Crash(p)
    PROVE  StartupInv'
<1>1. /\ table' = table /\ todo' = todo /\ field' = field /\ failed' = failed
      /\ starts' = starts /\ errors' = errors /\ OthersKept(p)
      /\ pc[p] # "off"
      /\ \/ pc[p] = "fields" /\ todo[p] = {} /\ pc'[p] = "run"
         \/ pc[p] = "run" /\ pc'[p] \in {"serving", "exited"}
         \/ pc'[p] = "off"
  BY DEF Migrated, Run, Crash, Goto, OthersKept, StartupInv, TypeOK
<1>2. TypeOK'
  <2>1. pc' \in [Procs -> Labels]
    BY DEF Migrated, Run, Crash, Goto, StartupInv, TypeOK, Labels
  <2> QED
    BY <1>1, <2>1 DEF StartupInv, TypeOK
<1>3. Sound(p)'
  BY <1>1 DEF StartupInv, Sound, TypeOK
<1>4. Spoiled(p)' => Spoiled(p)
  BY <1>1 DEF Spoiled, Stale, InFlight
<1>5. Grows
  BY <1>1 DEF Grows, StartupInv, TypeOK
<1>6. \A q \in Procs : Sound(q)'
  BY <1>1, <1>3, <1>5, SoundElsewhere DEF StartupInv
<1>7. SomebodyUnspoiled' /\ AloneUnspoiled'
  BY <1>1, <1>4, UnspoiledFrame DEF StartupInv
<1> QED
  BY <1>2, <1>6, <1>7 DEF StartupInv

LEMMA StartupNext ==
    ASSUME StartupInv, [Next]_vars
    PROVE  StartupInv'
<1>1. CASE UNCHANGED vars
  BY <1>1 DEF vars, StartupInv, TypeOK, Sound, SomebodyUnspoiled, AloneUnspoiled,
              Spoiled, Stale
<1> QED
  BY <1>1, KeepsMain, KeepsHasTable, KeepsCreateTable, KeepsHasColumn,
     KeepsAddColumn, KeepsQuietSteps DEF Next, Step

THEOREM StartupInvariant == Spec => []StartupInv
BY StartupInit, StartupNext, PTL DEF Spec

----------------------------------------------------------------------------

\* The variables of a starting process keep their types.
THEOREM StartupTypeCorrect == Spec => []TypeOK
<1>1. StartupInv => TypeOK
  BY DEF StartupInv
<1> QED
  BY <1>1, StartupInvariant, PTL

\* However many processes run gorm's AutoMigrate on one table at the same time,
\* the table is complete when all of them serve, although gorm stops adding columns
\* after the first ALTER that finds its column added by somebody else and DBInit
\* tells nobody (db.go:63 and gorm's autoMigrate): whoever spoiled the last
\* migration has finished its own.
THEOREM ConcurrentMigrationsAddUp == Spec => []MigrationsAddUp
<1>1. StartupInv => MigrationsAddUp
  BY DEF StartupInv, SomebodyUnspoiled, MigrationsAddUp, Up, Spoiled, InFlight, Sound
<1> QED
  BY <1>1, StartupInvariant, PTL

\* A process that has the table for itself brings it up to date before it serves,
\* also when it was killed in the middle of a migration before.
THEOREM LoneMigrationsComplete == Spec => []LoneStartMigrates
<1>1. StartupInv => LoneStartMigrates
  BY DEF StartupInv, AloneUnspoiled, LoneStartMigrates, Up, Spoiled, InFlight, Sound
<1> QED
  BY <1>1, StartupInvariant, PTL

=============================================================================
