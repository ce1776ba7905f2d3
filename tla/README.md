# A verification project for rds-broker

The repository is a Cloud Foundry service broker: the platform asks it over
HTTP to create, bind, unbind and delete PostgreSQL databases on one shared RDS
server, and it remembers what it made in a table of its own. This directory
models that program in TLA+, together with the parts of its vendored libraries
that decide what a request, a statement or a start of the process can do; it
checks the models with TLC and proves the most important results with TLAPS.

By lines almost the whole repository is one file, the SQLite amalgamation that
comes with `go-sqlite3`. The broker itself reaches it only in its tests
(`gorm.Open("sqlite3", ":memory:")`, `db.go:32-34`). Its three protocols that
are about concurrency and crashes - file locks, rollback journal, write-ahead
log - are modelled here; its SQL compiler, virtual machine, b-tree and memory
management are not.

## Inventory

| Component | Code | State | Operations | Hard part |
|---|---|---|---|---|
| Request handlers | `actions.go`, `main.go:91-104` | the local `instance` of each goroutine; nothing shared in memory | `CreateInstance`, `BindInstance`, the unbind closure, `DeleteInstance` | four statements in a row without a transaction, run by concurrent goroutines, no error looked at |
| Instance table | `models.go`, gorm | rows of `instances` | `Where.First`, `Save`, `Delete` (soft) | no unique column, failed reads look like missing rows, failed writes like done ones |
| Names and passwords | `helpers.go`, `models.go:29-59` | none | `randStr`, `Encrypt`, `Decrypt`, `SetPassword`, `GetPassword` | the error of `rand.Read` is dropped; CFB has no integrity check |
| Shared RDS server | statements of `actions.go:60-62, 129-130` | databases, roles, privileges, sessions | `CREATE DATABASE`, `CREATE USER`, `GRANT`, `DROP DATABASE`, `DROP USER` | drops that are refused |
| Connection pool, transactions, driver | `db.go:53`, gorm `scope.go`, lib/pq | at most ten connections, each with a transaction status; a queue | `Exec`, `First`, `Save`, `Delete` down to one exchange with the server | lost connections, `ErrBadConn` and its retries, dropped errors of `Begin` and `Commit` |
| Startup and migration | `main.go:26-67`, `db.go`, gorm `autoMigrate` | the columns of the table | `main`, `App`, `DBInit`, `HasTable`, `HasColumn`, `CREATE`/`ALTER TABLE` | two processes migrate at once, are killed, statements fail unnoticed |
| Web chain | martini, auth, render | one context and response writer per request | middleware, `Next`, routing, rendering, `Recovery` | nested re-entrant loop, panics that unwind it, two answers to one request |
| Catalog | `catalog.go`, `structs.go` | none | `BuildCatalog` | none |
| SQLite file locks | `os_unix.c` in the amalgamation | `unixInodeInfo` per process, `fcntl` locks in the system | `unixLock`, `posixUnlock`, `unixClose`, `unixOpen` | POSIX locks belong to processes, not to handles |
| SQLite rollback journal | `pager.c` | database file, journal, caches | read and write transactions, spill, commit, rollback, hot-journal recovery | deaths and power losses between any two system calls |
| SQLite write-ahead log | `wal.c` | log, wal-index in shared memory, its locks | snapshots, append, restart, passive checkpoint, recovery | shared memory that is read without locks |
| Rest of SQLite, `inject`, `cfenv` | vendored | - | - | not modelled, see below |

The handlers interact only through the two databases: the table and the RDS
server. The platform calls them over HTTP through the chain, they send each
statement through the pool, applications log in to the server with the
credentials a bind returned, and the process can die between any two statements.
Nothing repairs what a dead or failed request left behind.

What makes each component correct:

- handlers: the answers are those of an atomic registry of instances; no
  request drops the database of another tenant or grants anything on it; credentials that were handed
  out work while their database exists; nothing is left that no row shows;
- table: one live row per instance; a deprovision eventually empties it;
- names and passwords: different instances have different names; a stored
  password is read back, and under another key it is not;
- server: a database does not outlive its user;
- pool: no connection leaks, is shared, or comes back with a transaction open,
  and every operation returns;
- startup: a process serves or ends, and the table becomes complete;
- chain: no handler without the password, none twice, the one the path is for,
  and an answer in every case;
- SQLite: one writer, alone while it writes; transactions that are atomic
  through deaths and power losses; caches and snapshots that are never stale.

## Modules

| Module | Models | State and actions |
|---|---|---|
| `Secrets` | `helpers.go`, `models.go:29-59` | A random string is the number of its draw (or `ZeroString` without entropy), a ciphertext the pair of plaintext and key. |
| `Passwords` | the same, byte for byte | `RandStr`, base64, CFB over a block cipher that is a parameter, `SetPassword`, `GetPassword`. |
| `InstanceTable` | `models.go`, gorm | `rows[i]` is the row with primary key `i`; `FirstLive`/`NoLive` are what `First` finds, `Insert` what `Save` does, `SoftDelete` what `Delete` does, `InsertTwice` a resent `INSERT`. |
| `RdsServer` | external | `dbs`, `roles`, `grants`, `sessions` and one action per statement, a refusal leaving them unchanged. |
| `Broker` | `actions.go`, `main.go:91-104` | `pc[w]` is the next statement of goroutine `w`, `req[w]` its request, `inst[w]` its variable `instance`, `out[w]` the codes it passed to `r.JSON`. One action per statement of each handler. `Reply` delivers the answer; `creds` remembers what the platform was given. `Restart` is a crash and a new start. |
| `ServiceRegistry` | the promise of `main.go:91-104` | The set of provisioned instances and the calls being served; every call has its effect in one step. |
| `SqlSession` | gorm on `database/sql` on lib/pq | `conn` are the slots of the pool, `free` and `waiting` its bookkeeping, `pc[w]`, `held[w]`, `inTx[w]` one operation of gorm. Each exchange with the server ends with an answer, an error or a lost connection. `database/sql` is not in the repository; its part is external. |
| `Startup` | `main`, `App`, `DBInit`, gorm's migration | `table` is the set of columns, `pc[p]` where process `p` is, `todo[p]` the fields its loop has still to visit. |
| `Router` | `router.go`, the routes of `main.go:82-104` | Constant operators: the five routes, `Match` as the compiled pattern matches, `Handle` as the first full match. |
| `WebChain` | martini's context, `Classic`, auth, render | One request: `index` and `stack` are the nested calls of `context.run`, `status` what martini remembers, `wire` what is sent. |
| `FileLock` | `os.h`, what the pager relies on | `level` of each handle, `reserved`, the `Process` of a handle; the promise of a lock protocol, `SaysReserved` that of `xCheckReservedLock`. |
| `UnixLock` | `os_unix.c` | `os` are the `fcntl` locks per process, `inode` the account of a process, `step[h]` where a call is between two system calls; `CheckReservedLock` is the answer of `unixCheckReservedLock`. |
| `AtomicStore` | the promise of a database file | `stored`, what each connection sees, and the last image a power loss may bring back. |
| `RollbackPager` | `pager.c` | `db`/`dbMaybe` and `jrnl`/`dead` are what processes see of the files and what a power loss may leave; `pc`, `mem` are `eState` and the other fields of a pager. Extends `FileLock`. |
| `Wal` | `wal.c` | `log`, `shm` (both header copies, `nBackfill`, marks), `lock`, and `wal[c]`, the `Wal` object of a connection. One action per access to shared memory or per lock. |
| `BrokerInvariants` | - | The inductive invariants of `Broker`, in named parts. |
| `BrokerProofs`, `SqlSessionProofs`, `StartupProofs`, `WebChainProofs`, `UnixLockProofs`, `PagerProofs`, `StoreProofs`, `WalProofs` | - | Theorems. |
| `MC...` | - | Model values, inputs and symmetry for TLC. |

How they compose:

- `Broker` extends `InstanceTable` and `RdsServer` (shared state, each action
  says what it leaves alone) and instantiates `ServiceRegistry` with a refinement
  mapping: an instance is provisioned when it has a live row, and a call is
  answered when the first status is written.
- `MCBroker` instantiates `Passwords` next to `Secrets` and compares the symbols
  with the bytes (`PasswordsAreSecrets`).
- `SqlSession` is where the faults of `Broker` come from: a statement that did
  nothing, that took effect though its answer was lost, or that ran twice because
  `Begin` failed and the driver asked for a retry.
- `WebChain` extends `Router`; what a route's handler writes are the codes of
  `Broker`.
- `UnixLock` implements `FileLock` (the level other handles can observe of a call
  in progress is `Seen`), `RollbackPager` is built on `FileLock` and implements
  `AtomicStore` (`stored` is what recovery would make of the files now). What the
  pager relies on is shown of the lock protocol: the levels by `ImplementsFileLock`,
  the answer to "is somebody `RESERVED`" by `ChecksAgree`.

### Faults of the broker

`Faults` is a set of named faults; a behaviour may or may not exhibit those that
are in it. None is part of the handlers' code: each is the failure of something
the code calls and whose error it drops.

| Fault | What fails | Where the error is dropped |
|---|---|---|
| `read` | the `SELECT` of a lookup | `actions.go:27, 80, 122` |
| `ddl` | `CREATE DATABASE`, `CREATE USER`, `GRANT` | `actions.go:60-62` |
| `save` | the `INSERT` or its `COMMIT` | `actions.go:64` |
| `resend` | the `INSERT` runs twice: `Begin` failed silently (gorm `scope.go:501`), the connection was lost after the `INSERT`, `database/sql` repeats it | gorm `scope.go:501`, lib/pq `error.go:462-495` |
| `drop` | `DROP DATABASE`, `DROP USER` | `actions.go:129-130` |
| `soft_delete` | the `UPDATE` of `deleted_at` | `actions.go:132` |
| `session` | nothing; applications stay connected, so drops are refused | `actions.go:129` |
| `entropy` | `rand.Read` | `helpers.go:54` |
| `crash` | the process | - |
| `rekey` | the new process has another `ENC_KEY` | - |

Repeating one of the other statements changes nothing (a second `CREATE` or
`DROP` is refused), so `resend` is about the `INSERT` only.

`ClientSerializes` says that the platform has one request per instance in
flight. The broker does not enforce it; the runs and theorems that need it name
it.

### Faults of the other modules

- `SqlSession`: a connection is refused or is lost at any exchange, with or
  without the statement it carried, and the driver sees it as `ErrBadConn` or as
  another error (`MaxCuts`).
- `Startup`: a statement fails, and may have taken effect (`MaxErrors`); a process
  is killed and started again (`MaxStarts`).
- `WebChain`: handlers in `Panicking` may panic before they write.
- `UnixLock`: a process dies at any moment.
- `RollbackPager`: a process dies between two system calls, with all its threads
  (`MaxCrashes`); an `EXCLUSIVE` for a recovery is refused and the handle stays
  `PENDING`, or `SHARED`, until `pager_unlock` (`BusyHot`); the power goes (`MaxPower`), after which each page, record and header that was not
  synced is old or new, independently, and a deleted journal may be back.
- `Wal`: a connection dies, or all do (`MaxCrashes`).

## Runs

| Run | Question and properties | Instance |
|---|---|---|
| `tenants` | Does a request drop, or grant anything on, the database of another tenant, do credentials work while their database exists? `TypeOK`, `GrantsApart`, `BoundCredentialsWork`, `DroppedByItsOwnDelete` | 2 workers, 2 instances, 2 draws; read, save, resend, drop, soft_delete, session, crash |
| `leaks` | Is anything left that no row shows? `NothingLeaks` | 2 workers, 1 instance, 3 draws; read, ddl, resend, soft_delete |
| `registry` | Are the answers those of an atomic registry, are the symbols the bytes? `RegistryInv`, `OneLiveRow`, `ImplementsRegistry`, `PasswordsAreSecrets` | 2 workers, 2 instances, 2 draws, 3 keys of which AES takes 2, serialized; ddl, crash, rekey (refused drops are left to the theorem, which has them) |
| `converge` | Is a live row backed, is every request answered, do repeated deprovisions end? `LiveBacked`, `DeletesConverge`, `Answered` | 2 workers, 1 instance, 2 draws; save, drop, session |
| `pool` | Is the pool intact however statements end, do they end? `TypeOK`, `ConnectionsAccounted`, `PoolClean`, `StatementsReturn` | 3 goroutines, 2 connections, 3 operations, 1 lost connection, 2 tries |
| `migrate` | Does the table become complete, does each start end? `TypeOK`, `MigrationsAddUp`, `LoneStartMigrates`, `StartupEnds` | 3 processes, 2 columns, 2 starts each, 1 failing statement, any earlier table |
| `chain` | `TypeOK`, `HandlersAuthenticated`, `HandlersRunOnce`, `RoutesAreDisjoint`, `RoutedAsPublished`, `EveryRequestAnswered` | every path of at most 5 segments with each method for a client that is let in; 4 kinds of path with each method, with and without password, file, directory, final slash; 4 handlers that may panic |
| `fcntl` | Do the system calls keep what the levels promise? `TypeOK`, `LocksBacked`, `ChecksAgree`, `ImplementsFileLock`, `PendingIsServed` | two handles of one process, one of another |
| `pager` | Are transactions atomic and isolated? `TypeOK`, `HotIsPlayedBack`, `CachesAreTold`, `WriterAlone`, `ReservedReads`, `TransactionsAreAtomic` | 2 pagers of two processes, 2 pages of which the second is new, 2 transactions, 2 deaths, 1 power loss |
| `wal` | Do snapshots hold, is the last commit found? `TypeOK`, `SnapshotsHold`, `NewestIsFound` | 3 connections (two read and write, one reads and checkpoints), 2 pages, 2 marks, 2 transactions, 3 frames, 1 checkpoint, 1 death, not half way through a reset of the log |
| `deletedIsGone` | violated: a deprovision answered 200 leaves a row | 2 workers, no fault |
| `backfill` | violated: `nBackfill` above `mxFrame` | 3 connections, 2 checkpoints |

### Why the bounds are enough

- `Broker`: all conflicts in the code are between two requests, each statement
  works on one row, and a third request meets the states two can produce.
  `MaxCreates` bounds the random draws and with them the rows: two make a
  duplicate row or two tenants, three let a creation follow a race.
- `SqlSession`: three goroutines on two connections is the smallest pool with a
  queue and two connections that a retry can choose between; the code's ten
  connections and ten tries differ in number only. One lost connection leaves a
  bad one behind that a later operation takes.
- `Startup`: two columns let an `ALTER` fail with another one still to come; three
  processes let one start while two are in each other's way.
- `WebChain`: five segments is the length of the longest pattern; a longer path
  matches no pattern for the same reason a path of five does not match three.
- `UnixLock`: the smallest set with both kinds of conflict, within a process and
  between two.
- `RollbackPager`: page 1 has the change counter; the first transaction makes the
  file longer, so that its recovery has to cut it, the second one changes a page
  that is in the other pager's cache. Two deaths let a recovery be interrupted.
  The two are in different processes, one of which may die while the other keeps its
  cache. Among threads of one process the locks differ (who joins, who is refused by
  the account of the process, what `unixCheckReservedLock` sees): `fcntl` has two
  threads and a process beside them, and the theorems of the pager hold for any number
  of threads and processes, three of them under `NoRace`. `MCThreads.cfg` is this run with two threads of one process
  and `ChecksRace = FALSE`; its properties hold too.
- `Wal`: two transactions, one before and one after the log starts over, of which
  the older has more frames than the newer can overwrite. One checkpoint is what the
  log needs to start over; that more of them change nothing is what the theorem adds.

The faults a `Broker` run leaves out are those its property really does not
survive; the comment above each property names them, and they are the hazards of
this code: an ignored `CREATE` error makes a live row without a database, an
ignored `Save` error or a crash an orphaned database.

Symmetry (workers, instances, valid keys, connections of one role, pages) is used
in `tenants`, `leaks`, `registry`, `wal` and `backfill`, which check safety only. Deadlock is
not checked in `pool`, `migrate`, `chain`, `wal` and `backfill`: there the bounded
work is done, the one request is served, or the broker is up.

### Fairness

- `Broker`, `SqlSession`, `Startup`, `WebChain`: weak fairness of each goroutine's
  or process's steps. The Go scheduler runs a goroutine that can run, and every
  statement returns, with an error if need be. Nothing is assumed about the
  platform, the applications, new operations or restarts. The code sets no
  statement timeout, so a server that never answers is outside of this
  assumption. In `SqlSession` a goroutine in the queue has a turn when a
  connection is free and it is the first in line.
- `UnixLock`: calls return; whoever has less than `PENDING` gives it up again and
  again (a transaction of the pager ends); a writer in `PENDING` tries again,
  which is the busy handler. Strong fairness, because another call of the same
  process can hold the mutex in between. `PendingIsServed` excepts behaviours in
  which threads go on joining a reader of their own process, because `unixLock`
  gives those `SHARED` without a system call.
- `RollbackPager`, `Wal`: none; only safety is checked.

### Findings

1. `deletedIsGone`: two racing creations of one instance make two rows, and one
   deprovision, answered 200, leaves the second (`actions.go:27, 64`).
2. `backfill`: a passive checkpoint works with a header it read without the
   `WRITE` lock. If an earlier checkpoint copied everything and a writer restarts
   the log after that read, the checkpoint stores its old frame number into the
   `nBackfill` of the new log (`sqlite3-binding.c:48775, 48859, 50054`), and readers
   then ignore frames that are not in the database: with the constants of `backfill`
   `SnapshotsHold` is violated too. `StaleCheckpoints` admits a checkpoint that copies
   with a header from before a restart of the log. It is `TRUE` in `backfill` and
   `FALSE` in `wal`, where one checkpoint per behaviour leaves no room for it anyway.

### What the code does and the properties leave out

These are limits of the code that a reader of the properties should know. Each
shows as an excluded fault or as an exception in a property.

- `CREATE DATABASE` (`actions.go:60`) gives `CONNECT` and `TEMPORARY` on the new
  database to `PUBLIC`, and no handler revokes them (`actions.go:60-62`). So the user
  of one instance can log in to the database of another, and as long as he is
  connected its `DROP DATABASE` is refused. `Connect` in `Broker` has such sessions;
  `GrantsApart` is about the privileges the broker grants and not about these.
- Between two threads of a process a hot journal may be overlooked. A writer died, and
  two threads of another process are readers and have found its journal. The first asks
  for `EXCLUSIVE` and is refused because of the second (`sqlite3-binding.c:25556-25559`);
  until its `pager_unlock` (line 45057) the level of the process is `PENDING` (lines
  25607-25610), though it has no `RESERVED`. The second now asks
  `unixCheckReservedLock`, which takes any level of its process above `SHARED` for
  `RESERVED` (line 25298), so that the journal counts as one of a live writer, and reads
  what the dead one left. `sqlite3PagerSharedLock` (lines 44872-44873) intends that
  without a `RESERVED` lock the journal is played back. `ChecksRace` admits the
  coincidence, in which `CheckReserved` finds a thread of the own process in the step
  `busy`; `MCBusy.cfg` shows that `HotIsPlayedBack` is then violated. The theorems
  about hot journals, caches and atomicity assume that it does not happen (`NoRace`).
- A creation whose `INSERT` failed is answered 201 (`actions.go:64`), and so is one
  whose `COMMIT` failed: `CommitOrRollback` drops that error too (gorm
  `scope.go:516`).
- `BindInstance` does not return after its 500 and writes a second body
  (`actions.go:87-89, 109`). The connection sends the first status, martini's
  response writer and so the log have the last (`response_writer.go:46`).
- A crash between `DROP DATABASE` and the soft delete leaves an instance whose
  binds succeed and whose database is gone (`actions.go:129-132`).
- A process whose `ALTER` fails because another one was faster adds no further
  column, logs "Migrated" and serves (gorm `scope_private.go:570`); the table is
  incomplete until the other one is done.
- A thread becomes a reader while another process waits in `PENDING`, when its own
  process has a reader (`sqlite3-binding.c:25486-25495`).
- A death between the two stores of `walRestartLog`, the header without frames and
  `nBackfill = 0` (`sqlite3-binding.c:49714-49715`), leaves a valid index with an
  old `nBackfill`; once the new log has as many frames, readers ignore it and miss
  what it committed. `DiesInReset` admits such a death; the runs have it `FALSE`.
  With it, one page, one mark and a third transaction `SnapshotsHold` is violated.

## Proofs

The theorems hold for every set of workers, instances, keys, goroutines,
connections, processes, handles, pages, read marks and transactions, every bound on
creations, frames, checkpoints, deaths and power losses, every path a request may have, and every set of faults
without those a theorem excludes. The only assumptions on constants are the named
ones of the modules (`BrokerAssumption`, `KeysAssumption`, `SessionAssumption`,
`StartupAssumption`, `RouterAssumption`, `WebChainAssumption`, `UnixAssumption`,
`PagerAssumption`, `WalAssumption`), which say what kind of value a constant is and that values that
stand for nothing differ from the real ones; TLC evaluates them in the runs.

| Theorem | Module | Assumes | Says |
|---|---|---|---|
| `TypeCorrect` | `Broker` | nothing | `[]TypeOK` |
| `OwnershipHolds` | `Broker` | no entropy fault | `[]Ownership`, the inductive invariant of the next two |
| `GrantsStayApart` | `Broker` | no entropy fault | `[]GrantsApart` |
| `DatabasesAreDroppedByTheirOwners` | `Broker` | no entropy fault | `DroppedByItsOwnDelete` |
| `OneRowPerInstance` | `Broker` | serialized, no read or resend fault | `[]OneLiveRow` |
| `BackingHolds` | `Broker` | no entropy, ddl or rekey fault | `[]Backing`, the inductive invariant of the next one |
| `CredentialsWork` | `Broker` | no entropy, ddl or rekey fault | `[]BoundCredentialsWork` |
| `LiveStaysBacked` | `Broker` | no ddl, soft_delete, crash, entropy or resend fault | `[]LiveBacked` |
| `NothingStaysBehind` | `Broker` | no save, drop, session, crash or entropy fault | `[]NothingLeaks` |
| `RegistryInvHolds` | `Broker` | serialized, no read or resend fault | `[]RegistryInv`, the inductive invariant of the next one |
| `BrokerImplementsRegistry` | `Broker` | serialized, no read, save, soft_delete or resend fault | `Spec => ImplementsRegistry` |
| `SessionTypeCorrect` | `SqlSession` | nothing | `[]TypeOK` |
| `ConnectionsStayAccounted` | `SqlSession` | nothing | `[]ConnectionsAccounted` |
| `PoolStaysClean` | `SqlSession` | nothing | `[]PoolClean` |
| `StartupTypeCorrect` | `Startup` | nothing | `[]TypeOK` |
| `ConcurrentMigrationsAddUp` | `Startup` | nothing | `[]MigrationsAddUp` |
| `LoneMigrationsComplete` | `Startup` | nothing | `[]LoneStartMigrates` |
| `ChainTypeCorrect` | `WebChain` | nothing | `[]TypeOK` |
| `HandlersStayAuthenticated` | `WebChain` | nothing | `[]HandlersAuthenticated` |
| `HandlersStayRunOnce` | `WebChain` | nothing | `[]HandlersRunOnce` |
| `RoutesStayDisjoint` | `WebChain` | nothing | `[]RoutesAreDisjoint` |
| `RequestsRoutedAsPublished` | `WebChain` | nothing | `[]RoutedAsPublished` |
| `WritersAreAlone` | `FileLock` | nothing | `LockSpec => []WriterAlone` |
| `ReservedIsKept` | `FileLock` | nothing | `LockSpec => []ReservedReads` |
| `UnixTypeCorrect` | `UnixLock` | nothing | `[]TypeOK` |
| `LocksStayBacked` | `UnixLock` | nothing | `[]LocksBacked` |
| `UnixImplementsFileLock` | `UnixLock` | nothing | `Spec => ImplementsFileLock` |
| `ChecksStayTrue` | `UnixLock` | nothing | `[]ChecksAgree` |
| `PagerTypeCorrect` | `RollbackPager` | nothing | `[]TypeOK` |
| `PagersWriteAlone` | `RollbackPager` | nothing | `[]WriterAlone` |
| `HotJournalsArePlayedBack` | `RollbackPager` | `NoRace` | `[]HotIsPlayedBack` |
| `CachesStayFresh` | `RollbackPager` | `NoRace` | `[]CachesAreTold` |
| `PagersAreAtomic` | `RollbackPager` | `NoRace` | `Spec => TransactionsAreAtomic` |
| `WalTypeCorrect` | `Wal` | nothing | `[]TypeOK` |
| `WalFindsNewest` | `Wal` | nothing | `[]NewestIsFound` |
| `WalSnapshotsHold` | `Wal` | no death half way through a reset, no checkpoint with a header from before one | `[]SnapshotsHold` |

`NoRace` is `ChecksRace => \A p \in Handles : Peers(p) = {}`: either each process has one
handle of the file, or no thread looks for `RESERVED` in the moment in which another one
of its process gives up a recovery. Without it the three theorems are false, see "What
the code does and the properties leave out".

**Tenants** (`BrokerProofs`). `GrantsApart` is not inductive: it says nothing of a
creation whose row is not saved yet. `Ownership` adds that a creation under way has
names no row and no other creation has, that a deprovision works on names of a row
of its own instance, and that privileges join a user and a database of one draw. A
step that touches neither rows nor privileges keeps it (`OwnershipFrame`); the five
remaining actions have a lemma each. `OneLiveRow` needs that nobody else can save a
row of the instance between the check and the `Save` (`CreatesUnprovisioned`), which
is what serialization gives.

**Server and table** (`BrokerProofs`). `BoundCredentialsWork` needs that a database
in the table cannot lose its user before it is dropped (`RowsBacked`): the privilege
that disappears together with the database is what makes `DROP USER` fail before, so
even a refused or lost `DROP DATABASE` leaves a working pair. The other half is that
a bind reads what was saved under the same key (`OneKey`, `BindsBelong`).

`LiveBacked` adds `Presence` to `Backing`: rows share no names (`RowsApart`), a
creation that is about to save has created its database (`CreatedExists`), and a
live row that no deprovision works on has its database (`LiveHasDatabase`). The last
one needs that nobody drops the database of a row before the request that will
delete the row holds it, which a crash between the two statements breaks, and that a
creation's database is there when it saves, which an ignored `CREATE` error breaks:
the two excluded faults are those steps.

`NothingLeaks` adds `Tidiness`: a privilege names an existing database
(`GrantsOnDatabases`), a deprovision past a statement has its effect (`DropsDone`),
and nobody is connected. The order of the code's statements is what makes it
inductive: dropping the database takes the privilege along, and only then can the
user be dropped.

**Registry** (`BrokerProofs`). The refinement maps the initial states and every
step: a statement between the lookup and the last one is a stutter, `SaveInstance` is
`Provision`, `DeleteRow` is `Deprovision`, and each answer that follows a lookup
directly is the step of the registry with that code. What makes it work is
`RegistryInv`, which says of a request under way what the table must still show when
it finishes: for a creation that the instance has no live row, for a deprovision
that the row it found is live, for an answer that it begins with a status code.
`ImplementsRegistry` is a safety property, so no fairness is involved.

**Pool** (`SqlSessionProofs`). `SessionInv` is `TypeOK` with three parts: a goroutine
that is idle or done holds nothing and one that reads rows holds a connection
(`HandlersTidy`); every open connection is free or held, and a held one is open, not
free and held by one goroutine only (`Accounted`); and a transaction that the server
has open belongs to the goroutine that holds its connection, which is not marked bad
(`TransactionsOwned`). `ConnectionsAccounted` is the second part. `PoolClean` is what
the third part says of the free connections, so the proof shows what keeps the pool
clean: every way out of a transaction, a failed `ROLLBACK` included, ends it or marks
the connection before the goroutine gives it back.

**Migration** (`StartupProofs`). A process is spoiled when its `ALTER` failed, or is
about to fail because another one added the column since it looked. `MigrationsAddUp`
speaks of the moment when all serve, so it is not inductive. `Sound` says what each
process has made sure of where it stands: unless it failed, the columns it has passed
are in the table. `SomebodyUnspoiled` is the reason the property holds: at any time
some process is not spoiled, because the one whose `ALTER` spoils the others added
the column itself. When all serve, that one has seen every column. The same for a
process that is alone is `AloneUnspoiled`.

**Chain** (`WebChainProofs`). `ChainInv` says where the nested loops of
`Context.run` are (`CallsNest`: nothing is written while they go forward, and once
they return none of them goes on), that nothing from `index` on has run
(`Untouched`), that whoever is past the authentication was let in (`Admitted`), and
that an answering handler was entered for such a request and by its own route
(`Entered`). `CallsNest` is what makes `HandlersRunOnce` true of a loop that handlers
re-enter by `Next`: the index is shared, so a frame that resumes finds it behind
every handler an inner frame ran, or finds an answer written. That no path matches
two routes (`Disjoint`) is proved for paths of any length from the fixed segments of
the patterns.

**Locks** (`UnixLockProofs`, `PagerProofs`). `WriterAlone` and `ReservedReads` are
proved of `FileLock` with any number of handles; together they are inductive
(`LockInv`), since `RESERVED` is given to one handle at a time and the levels above
it only to the holder or, for a hot journal, to a reader that is alone.

`UnixInv` says of each process that its account of the file agrees with its handles
(`Account`: the level of the inode and the number of its readers are those of its
handles, a call under way has the locks its step needs, and what the process has
from the operating system is what that account needs), that the locks of two
processes do not conflict (`NoConflicts`), and that nobody else has a shared lock
while a process is seen as `EXCLUSIVE`, also after it gave back the first of its locks
(`SeenAlone`). With it every system call maps to the lock step of `FileLock` or to a
stutter. `SHARED` within a process that has it is given without a system call; that is
right because the lock of the process covers the new handle too, and the account says
that no handle of the process is above it in a way that excludes readers.

`ChecksStayTrue` follows from the same invariant: the level of the inode is that of the
highest handle of the process (`PeersOf`), and a lock on the reserved byte that another
process has is a write-lock (`NeverRead`), which is one of a handle with `RESERVED`.

`PagerInv` joins `LockInv` with the kind of every value (`Values`), the lock that each
step of a pager implies, which is what `assert_pager_state` checks (`Locked`),
`RESERVED` for whoever is in a transaction (`Placed`), and what a pager at work knows:
its change counter, the page it writes, the journal it opened (`Working`). It gives
`PagerTypeCorrect`; and since every step of a pager is a lock step or leaves the locks
alone (`PagerKeepsLocks`), the theorems of `FileLock` hold of the pager
(`PagersWriteAlone`).

**Journal** (`PagerProofs`). `CachesAreTold` compares a cache with a file that others
write, so it needs to know of every step what the database is that a recovery would
restore (`Stored`), and that only the end of a transaction changes it. `CacheInv`,
relative to `PagerInv`, has these parts:

- `Disk`: either nothing is in the file that a power loss could take away (`Settled`),
  or the journal is hot, its first header is on the disk and no older journal can come
  back (`Armed`). Every journal that a power loss may leave is well formed
  (`JournalOK`: all parts but the last have synced headers, parts ascend, a page has
  one record), and no page that existed before its transaction can be lost (`Whole`).
- `Guarded`: while the journal is hot nobody reads or prepares to write, and whoever
  has `RESERVED` has `EXCLUSIVE` too. This is what the three separate system calls of
  `hasHotJournal` come down to, and the part that needs `NoRace`: that a journal is not
  hot while the check says yes is only right when somebody has `RESERVED`.
  `HotJournalsArePlayedBack` is this part.
- `Writing`: the records are the originals, and the file still has them as long as the
  header of their part is not written (`JournalOf`); a page that changed and was there
  before is in the journal, the others are what the file has, and the change counter
  in the cache is one above the stored one exactly when the transaction commits
  (`CacheOfWriter`).
- `Restoring`: in a rollback or a recovery each record is in the file or still to be
  played back, so its end leaves what `Stored` was.
- `Durable`: a journal is deleted only when the file is synced.
- `Fresh`: of a pager that has written nothing, a version counter that equals the
  stored one means that each cached page does too, and it is never above it. The
  second half is why a commit makes every other cache stale at once.

The proof has one lemma per action. The operators are reduced first: what
`Playable` and `Recovered` return, page by page, is a lemma (`PlayedFirst`,
`RecoveredPages`), and a step changes `Stored` only through them. That `Stored` stays
what it was while a transaction writes the file is proved along the way
(`SameRecovery` and the lemmas of each step); it changes only in `EndTransaction` and
`PowerLoss`.

**Atomic store** (`StoreProofs`). `CacheInv` says what processes see; that a power loss
brings back the stored database, whatever mixture of unsynced writes it leaves, needs
`StoreInv` about the disk, relative to `CacheInv`:

- `JournalsKnown`: a header is on the disk only if it is in the file, and the records it
  counts are then synced (`HeadersKnown`), which is what the two syncs of `syncJournal`
  are for; a journal whose deletion may be undone is the one that was deleted
  (`Certain`), no journal comes back while another one is hot, and all that may come
  back agree on the database they bring.
- `FilesBacked`: when the journal's first header is on the disk, each page of the
  database before the transaction is on the disk in the file, with nothing else there
  that a power loss could choose, or in a part of the journal with a synced header
  (`Backed`). When only the file has the header, the database file is not written yet.
- `AtWork`: the records are synced when the header is written; a journal that is played
  back has no header in doubt, so a recovery that dies halfway is done again.

The remainder of a journal is then played back no further than the journal itself and
at least as far as the synced headers reach (`RemainderPlayed`), and `PowerBrings` shows
that the outcome is `Stored`, or what a journal restores whose deletion is not on the
disk. With that every action maps to one step of `AtomicStore` or to a stutter:
`Validate` is `Begin`, `WritePage` and `CommitPhaseOne` are `Change`, `Rollback` is
`Abort`, `EndRead` and `Die` are `Leave`, the deletion of a journal by its committing
owner is `Commit`, the sync of a journal is `Secure`; all other steps change neither
`Stored` nor what anybody sees, because whoever writes the file has `EXCLUSIVE`
(`SameViews`) and every reader sees `Stored` (`StoredIsSeen`).

**Write-ahead log** (`WalProofs`). Four invariants, each relative to the ones before:

- `LocksInv`: the kind of every value (`Values`), which locks of the wal-index each
  connection has at each step and what it knows there (`Holds`, `Stands`), and that a
  backfill excludes readers of mark 0 and a restart those of the others (`Apart`).
- `LogInv`: the committed log ends at one frame (`Ends`), which is where the header
  says unless a restart has left the old frames in the file. What follows it and would
  still be valid is at most one transaction that was never published (`Tentative`).
  That survives a new transaction because a frame's checksum runs over the frames
  before: what an older writer left continues another transaction than the one that
  now ends there (`FrameEnds`; `Writes` has that no other frame is of the writer's
  transaction). So a recovery that counts all valid frames finds the last commit or
  makes one of the unpublished transaction (`FoundIsNewest`), and the header of a
  wal-index that may be used is always that of the last commit, however many
  connections die and wherever.
- `SaltInv`: a writer appends under the salt that the header in the wal-index has or
  under one that nobody else has seen, so a header with the current salt is one of the
  current round of the log.
- `SnapInv`: the header, and the log as a recovery would read it, show the last commit
  (`HeaderShows`, `LogShows`); the frames that `nBackfill` counts are in the database
  (`Backfilled`); a reader's snapshot is the image of its commit, its mark is not
  above it, and one on mark 0 has its image in the database file (`Sees`); a checkpoint
  copies the last frames of the log as it is, none beyond the snapshot of a reader whose
  mark it has looked at, and no restart is under way (`Copies`). The proof shows what keeps a
  page from being copied over one that somebody reads: whoever ignores the log excludes
  the copying, and whoever reads from it has a later or the same frame of the page.

`TypeOK` and `NewestIsFound` need nothing more. `SnapInv` holds only without the two
faults that `DiesInReset` and `StaleCheckpoints` stand for, which are the last item of
"What the code does and the properties leave out" and finding 2; both leave an
`nBackfill` of an older log in the wal-index, and readers trust it. The predicate `Calm`
gathers what most steps have in common, that nothing a snapshot depends on is changed.

Only model-checked, and why:

- The liveness properties (`DeletesConverge`, `Answered`, `EveryRequestAnswered`,
  `StartupEnds`, `StatementsReturn`, `PendingIsServed`): liveness and `ENABLED` are
  out of reach of the prover.
- `PasswordsAreSecrets`: it compares the symbols of `Secrets` with the bytes that
  `Passwords` computes under one small cipher, which is a calculation.

## Not modelled, and why

- Most of the SQLite amalgamation: tokenizer, parser, code generator, query
  planner, virtual machine, b-tree, memory allocators, page cache replacement,
  full-text and R-tree extensions, and the C and Go glue of `go-sqlite3`. It is
  third-party code that the broker's own tests reach with an in-memory database
  only, most of it is sequential, and its subject (the meaning of SQL) is not what
  the broker relies on. This is why the share of the repository's lines the models
  cover is small although the broker's own code is covered nearly completely.
- Broker: a statement that the server completes after the process that sent it
  died (a crash falls before or after a statement, not into it); the metadata
  columns (`plan_id`, `org_guid`, `space_guid`), which are stored and never read;
  the texts of answers and of SQL statements; `catalog.go`, a constant.
- `SqlSession`: the wire protocol below one exchange, prepared statements, `COPY`,
  `LISTEN`; how often a lost statement took effect (`Broker` has that as `resend`).
- `Startup`: the parsing of settings and the cloud foundry environment. `App`
  returns nil only when `gorm.Open` fails, which contacts no server, so the nil
  application of `main.go:55` is out of reach.
- `WebChain`: templates, groups, URL building, and injection by type; a handler that
  panics after it has written.
- `RollbackPager`: savepoints and statement journals, master journals (several
  databases), `TRUNCATE`, `PERSIST` and `MEMORY` journal modes, exclusive locking
  mode, sectors larger than a page, I/O errors, an empty or shrinking file.
- `Wal`: `FULL` and `RESTART` checkpoints, `sqlite3WalClose`, savepoints, power
  losses, read-only shared memory.

## Plan

Done: all modules above, their runs, and the theorems of `Broker`, `SqlSession`,
`Startup`, `WebChain`, `FileLock`, `UnixLock`, `RollbackPager` and `Wal`.

Next would be `FULL` and `RESTART` checkpoints in `Wal`, savepoints in
`RollbackPager`, and the b-tree above the pager.
