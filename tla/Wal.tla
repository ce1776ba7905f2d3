--------------------------------- MODULE Wal ---------------------------------
(***************************************************************************)
(* wal.c: connections that read snapshots of a database, append            *)
(* transactions to its write-ahead log and copy the log back into it, at   *)
(* the same time.  They meet in the wal-index, in shared memory, under the *)
(* locks of the wal-index, and read some of it without a lock.  Checkpoints*)
(* are passive ones; a process may die between any two steps, and if all   *)
(* do the wal-index is built again from the log.                           *)
(***************************************************************************)
EXTENDS Naturals, Sequences, FiniteSets, FiniteSetsExt

CONSTANTS
    Clients,         \* connections
    Pages,           \* pages of the database
    Marks,           \* read marks but mark 0: WAL_NREADER - 1
    Readers,         \* bound: connections that only read
    Checkpointers,   \* bound: connections that run checkpoints
    MaxTx,           \* bound: write transactions
    MaxFrames,       \* bound: frames in the log
    MaxCheckpoints,  \* bound: checkpoints
    MaxCrashes,      \* bound: processes that die
    DiesInReset,     \* bound: whether one may die half way through a reset
    StaleCheckpoints,  \* bound: whether one copies with a header from before a reset
    None             \* no connection

ASSUME WalAssumption ==
    /\ Marks \in Nat \ {0} /\ MaxTx \in Nat /\ MaxFrames \in Nat
    /\ None \notin Clients /\ None \notin 0 .. Marks
    /\ Readers \subseteq Clients /\ Checkpointers \subseteq Clients
    /\ DiesInReset \in BOOLEAN /\ StaleCheckpoints \in BOOLEAN

VARIABLES
    log,      \* the frames in the file, those of earlier rounds included
    logSalt,  \* the salt in its header, 0 if it has none
    db,       \* the database file
    shm,      \* the wal-index: two copies of the header, nBackfill, aReadMark
    lock,     \* holders of WRITE, CKPT and READ: shared, READ(0) for a backfill,
              \* the others for a restart
    pc,       \* where each connection is
    wal,      \* its Wal object and the locals of its call
    history,  \* the images committed so far
    count     \* the bounded numbers: transactions, salts, checkpoints, crashes

vars == <<log, logSalt, db, shm, lock, pc, wal, history, count>>

NotUsed == MaxFrames + 1
MarkIds == 1 .. Marks

\* WalIndexHdr; commit stands for iChange and the checksum: which commit it is of.
Hdr(mx, salt, commit) == [mxFrame |-> mx, salt |-> salt, commit |-> commit]
NoHdr == Hdr(0, 0, 0)
NoWal == [hdr |-> NoHdr, read |-> None, mark |-> 0, at |-> 0, iter |-> <<>>,
          safe |-> 0, todo |-> {}, tx |-> 0]

ReadLocks == 0 .. Marks

Init ==
    /\ log = <<>> /\ logSalt = 0
    /\ db = [p \in Pages |-> 0]
    /\ shm = [init |-> FALSE, h1 |-> NoHdr, h2 |-> NoHdr, nBackfill |-> 0,
              marks |-> [i \in MarkIds |-> 0]]
    /\ lock = [write |-> None, ckpt |-> None,
               shared |-> [i \in ReadLocks |-> {}],
               backfill |-> None, restart |-> None]
    /\ pc = [c \in Clients |-> "idle"]
    /\ wal = [c \in Clients |-> NoWal]
    /\ history = <<[p \in Pages |-> 0]>>
    /\ count = [tx |-> 0, salt |-> 0, checkpoints |-> 0, crashes |-> 0]

----------------------------------------------------------------------------

Goto(c, s) == pc' = [pc EXCEPT ![c] = s]
Fields(c, w) == wal' = [wal EXCEPT ![c] = w]

\* walLockExclusive on a read lock, for as long as a mark is changed, succeeds
Free(i) == lock.shared[i] = {} /\ (i > 0 => lock.restart = None)

\* The snapshot's frame of a page: the last one up to mxFrame (sqlite3WalFindFrame).
Frame(p, mx) == Max({0} \cup {f \in 1 .. mx : log[f].page = p})

Image(mx) ==
    [p \in Pages |-> IF Frame(p, mx) = 0 THEN db[p] ELSE log[Frame(p, mx)].tx]

\* What a connection reads: READ_LOCK(0) ignores the log.
Reads(c) == Image(IF wal[c].read = 0 THEN 0 ELSE wal[c].hdr.mxFrame)

\* walDecodeFrame: the salts are those of the header, and the checksum runs over all
\* frames before.
Valid(f) ==
    /\ log[f].salt = logSalt
    /\ log[f].after = IF f = 1 THEN 0 ELSE log[f - 1].tx

\* Mutant: frames count whatever round of the log they are from.
IntactAnySalt == Len(log)

Intact == Max({n \in 0 .. Len(log) : \A f \in 1 .. n : Valid(f)})

Committed(n) == Max({0} \cup {f \in 1 .. n : log[f].commit > 0})

----------------------------------------------------------------------------
(* The header of the wal-index: walIndexReadHdr *)

HdrIsGood == shm.init /\ shm.h1 = shm.h2

\* For a read transaction, or for a checkpoint that has its lock.
ReadHdr(c) ==
    /\ pc[c] \in {"idle", "ckpt"}
    /\ IF HdrIsGood
       THEN /\ Fields(c, [wal[c] EXCEPT !.hdr = shm.h1])
            /\ Goto(c, IF pc[c] = "idle" THEN "begin" ELSE "scan")
            /\ UNCHANGED lock
       ELSE /\ lock.write = None
            /\ lock' = [lock EXCEPT !.write = c]
            /\ Goto(c, IF pc[c] = "idle" THEN "fix" ELSE "ckfix")
            /\ UNCHANGED wal
    /\ UNCHANGED <<log, logSalt, db, shm, history, count>>

\* walIndexRecover, with all locks; what it finds committed is.  Without them, or if
\* another connection repaired the header, the caller tries again.
Recover(c) ==
    LET n == Committed(Intact)
        hdr == Hdr(n, logSalt, IF n = 0 THEN Len(history) ELSE log[n].commit) IN
    /\ pc[c] \in {"fix", "ckfix"}
    /\ IF ~HdrIsGood /\ (\A i \in ReadLocks : Free(i)) /\ lock.ckpt \in {None, c}
       THEN /\ shm' = [init |-> TRUE, h1 |-> hdr, h2 |-> hdr, nBackfill |-> 0,
                       marks |-> [i \in MarkIds |->
                           IF i = 1 /\ n > 0 THEN n ELSE NotUsed]]
            /\ history' = IF hdr.commit > Len(history)
                          THEN Append(history, Image(n)) ELSE history
       ELSE UNCHANGED <<shm, history>>
    /\ lock' = [lock EXCEPT !.write = None]
    /\ Goto(c, IF pc[c] = "fix" THEN "idle" ELSE "ckpt")
    /\ UNCHANGED <<log, logSalt, db, wal, count>>

----------------------------------------------------------------------------
(* Read transactions: walTryBeginRead *)

\* A log that is all in the database is ignored, unless a checkpoint is at work.
TryBegin(c) ==
    /\ pc[c] = "begin"
    /\ IF shm.nBackfill = wal[c].hdr.mxFrame /\ lock.backfill = None
       THEN IF shm.h1 = wal[c].hdr
            THEN /\ lock' = [lock EXCEPT !.shared[0] = lock.shared[0] \cup {c}]
                 /\ Fields(c, [wal[c] EXCEPT !.read = 0])
                 /\ Goto(c, "read")
            ELSE Goto(c, "idle") /\ UNCHANGED <<lock, wal>>
       ELSE Goto(c, "pick") /\ UNCHANGED <<lock, wal>>
    /\ UNCHANGED <<log, logSalt, db, shm, history, count>>

\* Where to go when something changed meanwhile: WAL_RETRY, with the header of the
\* transaction if it already writes.
Retry(c) == Goto(c, IF wal[c].tx > 0 THEN "pick" ELSE "idle")

\* The read mark that is closest to the snapshot, or a free one moved there.
PickMark(c) ==
    LET mx == wal[c].hdr.mxFrame
        usable == {i \in MarkIds : shm.marks[i] <= mx}
        best == Max({i \in usable : \A j \in usable : shm.marks[j] <= shm.marks[i]})
        exact == usable # {} /\ shm.marks[best] = mx
        free == {i \in MarkIds : Free(i)} IN
    /\ pc[c] = "pick"
    /\ \/ /\ ~exact /\ free # {}
          /\ shm' = [shm EXCEPT !.marks[Min(free)] = mx]
          /\ Fields(c, [wal[c] EXCEPT !.at = Min(free), !.mark = mx])
          /\ Goto(c, "lock")
       \/ /\ exact \/ (free = {} /\ usable # {})
          /\ Fields(c, [wal[c] EXCEPT !.at = best, !.mark = shm.marks[best]])
          /\ Goto(c, "lock")
          /\ UNCHANGED shm
       \/ /\ free = {} /\ usable = {}
          /\ Retry(c)
          /\ UNCHANGED <<shm, wal>>
    /\ UNCHANGED <<log, logSalt, db, lock, history, count>>

\* Mutant: what happened before the lock was there is not looked at.
LockMarkUnchecked(c) ==
    /\ pc[c] = "lock"
    /\ lock' = [lock EXCEPT !.shared[wal[c].at] = lock.shared[wal[c].at] \cup {c}]
    /\ Fields(c, [wal[c] EXCEPT !.read = wal[c].at])
    /\ Goto(c, IF wal[c].tx > 0 THEN "write" ELSE "read")
    /\ UNCHANGED <<log, logSalt, db, shm, history, count>>

\* With the shared lock, if it can have it, neither the mark nor the header may have
\* changed.
LockMark(c) ==
    LET i == wal[c].at IN
    /\ pc[c] = "lock"
    /\ IF lock.restart = None /\ shm.marks[i] = wal[c].mark /\ shm.h1 = wal[c].hdr
       THEN /\ lock' = [lock EXCEPT !.shared[i] = lock.shared[i] \cup {c}]
            /\ Fields(c, [wal[c] EXCEPT !.read = i])
            /\ Goto(c, IF wal[c].tx > 0 THEN "write" ELSE "read")
       ELSE Retry(c) /\ UNCHANGED <<lock, wal>>
    /\ UNCHANGED <<log, logSalt, db, shm, history, count>>

EndRead(c) ==
    /\ pc[c] = "read"
    /\ lock' = [lock EXCEPT !.shared[wal[c].read] = lock.shared[wal[c].read] \ {c}]
    /\ Fields(c, NoWal)
    /\ Goto(c, "idle")
    /\ UNCHANGED <<log, logSalt, db, shm, history, count>>

----------------------------------------------------------------------------
(* Write transactions *)

\* sqlite3WalBeginWriteTransaction; SQLITE_BUSY_SNAPSHOT for an old snapshot.
BeginWrite(c) ==
    /\ pc[c] = "read" /\ c \notin Readers /\ count.tx < MaxTx
    /\ lock.write = None /\ wal[c].hdr = shm.h1
    /\ lock' = [lock EXCEPT !.write = c]
    /\ count' = [count EXCEPT !.tx = @ + 1]
    /\ Fields(c, [wal[c] EXCEPT !.tx = count.tx + 1])
    /\ Goto(c, IF wal[c].read = 0 THEN "restart" ELSE "write")
    /\ UNCHANGED <<log, logSalt, db, shm, history>>

\* In any case the writer then gets a mark of its own.
LeaveMarkZero(c, w) ==
    /\ Fields(c, [w EXCEPT !.read = None])
    /\ lock' = [lock EXCEPT !.shared[0] = lock.shared[0] \ {c}, !.restart = None]
    /\ Goto(c, "pick")

\* walRestartLog: if nobody reads from the log it starts over, under the locks of all
\* marks: a header without frames, in both copies, ...
RestartLog(c) ==
    /\ pc[c] = "restart"
    /\ IF shm.nBackfill > 0 /\ \A i \in MarkIds : Free(i)
       THEN LET hdr == Hdr(0, count.salt + 1, wal[c].hdr.commit) IN
            /\ Fields(c, [wal[c] EXCEPT !.hdr = hdr])
            /\ shm' = [shm EXCEPT !.h2 = hdr]
            /\ count' = [count EXCEPT !.salt = @ + 1]
            /\ lock' = [lock EXCEPT !.restart = c]
            /\ Goto(c, "reset")
       ELSE LeaveMarkZero(c, wal[c]) /\ UNCHANGED <<shm, count>>
    /\ UNCHANGED <<log, logSalt, db, history>>

ResetHeader(c) ==
    /\ pc[c] = "reset"
    /\ shm' = [shm EXCEPT !.h1 = wal[c].hdr]
    /\ Goto(c, "resetinfo")
    /\ UNCHANGED <<log, logSalt, db, lock, wal, history, count>>

\* ... and then nothing copied and no mark in use.
ResetInfo(c) ==
    /\ pc[c] = "resetinfo"
    /\ shm' = [shm EXCEPT !.nBackfill = 0,
                          !.marks = [i \in MarkIds |-> IF i = 1 THEN 0 ELSE NotUsed]]
    /\ LeaveMarkZero(c, wal[c])
    /\ UNCHANGED <<log, logSalt, db, history, count>>

\* sqlite3WalFrames: a new log gets its header, with the salt of the restart or, as
\* long as the connection has seen no checkpoint, a new one.
WriteLogHeader(c) ==
    /\ pc[c] = "write" /\ wal[c].hdr.mxFrame = 0 /\ wal[c].todo = {}
    /\ \E fresh \in IF wal[c].hdr.salt = 0 THEN {TRUE} ELSE BOOLEAN :
           /\ logSalt' = IF fresh THEN count.salt + 1 ELSE wal[c].hdr.salt
           /\ count' = [count EXCEPT !.salt = IF fresh THEN @ + 1 ELSE @]
    /\ \E pages \in (SUBSET Pages) \ {{}} :
           Fields(c, [wal[c] EXCEPT !.todo = pages, !.hdr.salt = logSalt'])
    /\ Goto(c, "frames")
    /\ UNCHANGED <<log, db, shm, lock, history>>

StartFrames(c) ==
    /\ pc[c] = "write" /\ wal[c].hdr.mxFrame > 0
    /\ \E pages \in (SUBSET Pages) \ {{}} : Fields(c, [wal[c] EXCEPT !.todo = pages])
    /\ Goto(c, "frames")
    /\ UNCHANGED <<log, logSalt, db, shm, lock, history, count>>

\* One frame for each page; the last one of a transaction has the commit mark.
WriteFrame(c, p) ==
    LET w == wal[c]
        f == w.hdr.mxFrame + 1
        last == w.todo = {p}
        frame == [page |-> p, tx |-> w.tx, salt |-> w.hdr.salt,
                  after |-> IF f = 1 THEN 0 ELSE log[f - 1].tx,
                  commit |-> IF last THEN w.hdr.commit + 1 ELSE 0] IN
    /\ pc[c] = "frames" /\ p \in w.todo /\ f <= MaxFrames
    /\ log' = [g \in 1 .. Max({f, Len(log)}) |-> IF g = f THEN frame ELSE log[g]]
    /\ Fields(c, [w EXCEPT !.todo = w.todo \ {p},
                           !.hdr = Hdr(f, w.hdr.salt, w.hdr.commit + IF last THEN 1 ELSE 0)])
    /\ Goto(c, IF last THEN "publish" ELSE "frames")
    /\ UNCHANGED <<logSalt, db, shm, lock, history, count>>

\* walIndexWriteHdr: the second copy, then the first.  With the first the transaction
\* is committed; a writer that dies before leaves it to a recovery to commit it, or
\* to a reader that had seen the old header and writes, to overwrite it.
PublishSecond(c) ==
    /\ pc[c] = "publish"
    /\ shm' = [shm EXCEPT !.h2 = wal[c].hdr]
    /\ Goto(c, "published")
    /\ UNCHANGED <<log, logSalt, db, lock, wal, history, count>>

PublishFirst(c) ==
    /\ pc[c] = "published"
    /\ shm' = [shm EXCEPT !.h1 = wal[c].hdr]
    /\ history' = Append(history, Reads(c))
    /\ lock' = [lock EXCEPT !.write = None]
    /\ Fields(c, [wal[c] EXCEPT !.tx = 0])
    /\ Goto(c, "read")
    /\ UNCHANGED <<log, logSalt, db, count>>

\* sqlite3WalUndo: frames without a commit stay in the file and count for nothing.
Undo(c) ==
    /\ pc[c] \in {"write", "frames"}
    /\ lock' = [lock EXCEPT !.write = None]
    /\ Fields(c, [wal[c] EXCEPT !.hdr = shm.h1, !.todo = {}, !.tx = 0])
    /\ Goto(c, "read")
    /\ UNCHANGED <<log, logSalt, db, shm, history, count>>

----------------------------------------------------------------------------
(* Checkpoints: sqlite3WalCheckpoint, walCheckpoint *)

BeginCheckpoint(c) ==
    /\ pc[c] = "idle" /\ c \in Checkpointers /\ lock.ckpt = None
    /\ count.checkpoints < MaxCheckpoints
    /\ lock' = [lock EXCEPT !.ckpt = c]
    /\ count' = [count EXCEPT !.checkpoints = @ + 1]
    /\ Goto(c, "ckpt")
    /\ UNCHANGED <<log, logSalt, db, shm, wal, history>>

EndCheckpoint(c, l) ==
    /\ lock' = [l EXCEPT !.ckpt = None]
    /\ Goto(c, "idle")
    /\ Fields(c, NoWal)

\* Mutant: an early return that leaves the checkpoint lock behind.
ScanReturns(c) ==
    /\ pc[c] = "scan"
    /\ IF shm.nBackfill >= wal[c].hdr.mxFrame
       THEN Goto(c, "idle") /\ Fields(c, NoWal)
       ELSE /\ StaleCheckpoints \/ wal[c].hdr.salt = shm.h1.salt
            /\ Fields(c, [wal[c] EXCEPT !.safe = wal[c].hdr.mxFrame, !.at = 1,
                              !.iter = [p \in Pages |-> Frame(p, wal[c].hdr.mxFrame)]])
            /\ Goto(c, "marks")
    /\ UNCHANGED <<log, logSalt, db, shm, lock, history, count>>

\* walIteratorInit: the last frame of each page, as of the header just read.  The log may
\* have started over since, which StaleCheckpoints admits: CKPT does not exclude it.
Scan(c) ==
    /\ pc[c] = "scan"
    /\ IF shm.nBackfill >= wal[c].hdr.mxFrame
       THEN EndCheckpoint(c, lock)
       ELSE /\ StaleCheckpoints \/ wal[c].hdr.salt = shm.h1.salt
            /\ Fields(c, [wal[c] EXCEPT !.safe = wal[c].hdr.mxFrame, !.at = 1,
                              !.iter = [p \in Pages |-> Frame(p, wal[c].hdr.mxFrame)]])
            /\ Goto(c, "marks")
            /\ UNCHANGED lock
    /\ UNCHANGED <<log, logSalt, db, shm, history, count>>

\* A mark below the end of the log is moved, or stops the checkpoint if it is in use.
CheckMark(c) ==
    LET w == wal[c]
        mark == shm.marks[w.at]
        below == w.safe > mark IN
    /\ pc[c] = "marks" /\ w.at \in MarkIds
    /\ shm' = IF below /\ Free(w.at)
              THEN [shm EXCEPT !.marks[w.at] = IF w.at = 1 THEN w.safe ELSE NotUsed]
              ELSE shm
    /\ Fields(c, [w EXCEPT !.at = @ + 1, !.safe = IF below /\ ~Free(w.at) THEN mark ELSE @])
    /\ UNCHANGED <<log, logSalt, db, lock, pc, history, count>>

\* Nobody may read the database file alone while pages are copied into it.
LockBackfill(c) ==
    LET w == wal[c] IN
    /\ pc[c] = "marks" /\ w.at \notin MarkIds
    /\ IF shm.nBackfill < w.safe /\ Free(0)
       THEN /\ lock' = [lock EXCEPT !.backfill = c]
            /\ Fields(c, [w EXCEPT !.todo =
                   {p \in Pages : w.iter[p] > shm.nBackfill /\ w.iter[p] <= w.safe}])
            /\ Goto(c, "copy")
       ELSE EndCheckpoint(c, lock)
    /\ UNCHANGED <<log, logSalt, db, shm, history, count>>

CopyPage(c, p) ==
    /\ pc[c] = "copy" /\ p \in wal[c].todo
    /\ db' = [db EXCEPT ![p] = log[wal[c].iter[p]].tx]
    /\ Fields(c, [wal[c] EXCEPT !.todo = wal[c].todo \ {p}])
    /\ UNCHANGED <<log, logSalt, shm, lock, pc, history, count>>

EndBackfill(c) ==
    /\ pc[c] = "copy" /\ wal[c].todo = {}
    /\ shm' = [shm EXCEPT !.nBackfill = wal[c].safe]
    /\ EndCheckpoint(c, [lock EXCEPT !.backfill = None])
    /\ UNCHANGED <<log, logSalt, db, history, count>>

----------------------------------------------------------------------------
(* Faults *)

Unlocked(dead) ==
    LET kept(h) == IF h \in dead THEN None ELSE h
    IN [write |-> kept(lock.write), ckpt |-> kept(lock.ckpt),
        shared |-> [i \in ReadLocks |-> lock.shared[i] \ dead],
        backfill |-> kept(lock.backfill), restart |-> kept(lock.restart)]

\* When the last process is gone, the next one to come clears the wal-index.  The
\* death of one that neither writes nor checkpoints only ends its reading.
Die(dead) ==
    /\ count.crashes < MaxCrashes
    /\ \E c \in dead : pc[c] # "idle"
    /\ dead = Clients \/ \A c \in dead : c \in {lock.write, lock.ckpt}
    /\ \A c \in dead : pc[c] = "resetinfo" => DiesInReset \/ dead = Clients
    /\ lock' = Unlocked(dead)
    /\ pc' = [c \in Clients |-> IF c \in dead THEN "idle" ELSE pc[c]]
    /\ wal' = [c \in Clients |-> IF c \in dead THEN NoWal ELSE wal[c]]
    /\ shm' = IF dead = Clients
              THEN [init |-> FALSE, h1 |-> NoHdr, h2 |-> NoHdr, nBackfill |-> 0,
                    marks |-> [i \in MarkIds |-> 0]]
              ELSE shm
    /\ count' = [count EXCEPT !.crashes = @ + 1]
    /\ UNCHANGED <<log, logSalt, db, history>>

Next ==
    \/ \E c \in Clients :
           \/ ReadHdr(c) \/ Recover(c) \/ TryBegin(c) \/ PickMark(c) \/ LockMark(c)
           \/ EndRead(c) \/ BeginWrite(c) \/ RestartLog(c) \/ ResetHeader(c)
           \/ ResetInfo(c) \/ WriteLogHeader(c)
           \/ StartFrames(c) \/ PublishSecond(c) \/ PublishFirst(c) \/ Undo(c)
           \/ BeginCheckpoint(c) \/ Scan(c) \/ CheckMark(c) \/ LockBackfill(c)
           \/ EndBackfill(c)
           \/ \E p \in Pages : WriteFrame(c, p) \/ CopyPage(c, p)
    \/ \E dead \in {Clients} \cup {{c} : c \in Clients} : Die(dead)

Spec == Init /\ [][Next]_vars

----------------------------------------------------------------------------

Steps == {"idle", "fix", "ckfix", "begin", "pick", "lock", "read", "restart", "reset",
          "resetinfo", "write",
          "frames", "publish", "published", "ckpt", "scan", "marks", "copy"}

\* Types, and which locks go with which step.
TypeOK ==
    /\ db \in [Pages -> 0 .. MaxTx]
    /\ shm.marks \in [MarkIds -> 0 .. NotUsed] /\ shm.nBackfill \in 0 .. MaxFrames
    /\ pc \in [Clients -> Steps]
    /\ \A c \in Clients :
           /\ pc[c] = "read" <=> wal[c].read # None /\ wal[c].tx = 0
           /\ wal[c].read # None => c \in lock.shared[wal[c].read]
           /\ wal[c].tx > 0 => lock.write = c
           /\ pc[c] \in {"ckpt", "ckfix", "scan", "marks", "copy"} <=> lock.ckpt = c
           /\ pc[c] = "copy" <=> lock.backfill = c
           /\ pc[c] \in {"reset", "resetinfo"} <=> lock.restart = c

\* Every transaction reads one committed image from its beginning to its end, while
\* others commit, checkpoint, restart the log, die and recover.
SnapshotsHold ==
    \A c \in Clients :
        pc[c] = "read" => Reads(c) = history[wal[c].hdr.commit]

\* A header that can be used is the one of the last commit: none is lost, whoever
\* dies, and an undone transaction does not come back.
NewestIsFound ==
    HdrIsGood => shm.h1.commit = Len(history)

\* Violated: "The nBackfill number is never greater than WalIndexHdr.mxFrame."
BackfillWithinLog ==
    HdrIsGood /\ lock.restart = None => shm.nBackfill <= shm.h1.mxFrame

=============================================================================
