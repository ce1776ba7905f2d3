---------------------------- MODULE RollbackPager ----------------------------
(***************************************************************************)
(* pager.c with a rollback journal (journal_mode=DELETE, synchronous=FULL):*)
(* pagers that share a database file through the lock levels of FileLock,  *)
(* their caches, the journal, the hot-journal recovery, processes that die *)
(* and power losses, after which a file has any mixture of what was        *)
(* written since its last sync.                                            *)
(***************************************************************************)
EXTENDS FileLock, Sequences, FiniteSets, FiniteSetsExt, SequencesExt

CONSTANTS
    LastPage,    \* largest page number
    FirstSize,   \* pages of the database at first
    MaxTx,       \* bound: transactions
    MaxCrashes,  \* bound: processes that die
    MaxPower,    \* bound: power losses
    ChecksRace,  \* threads of a process look for RESERVED while one cannot recover
    None         \* no page, no journal


VARIABLES
    db,       \* the database file as processes see it
    dbMaybe,  \* what a power loss may leave of each page
    jrnl,     \* the journal file, or None
    dead,     \* what the directory on the disk may have as the journal instead
    pc,       \* eState of a pager, and where it is on the way to the next one
    mem,      \* the other fields of a pager
    tx,       \* transactions so far
    faults    \* processes that died, and power losses

files == <<db, dbMaybe, jrnl, dead>>
vars == <<lockVars, db, dbMaybe, jrnl, dead, pc, mem, tx, faults>>

Pages == 1 .. LastPage
Image == [Pages -> 0 .. MaxTx \cup {None}]

\* Page 1 holds the change counter; a page beyond the end of the file is None.
FirstImage == [i \in Pages |-> IF i <= FirstSize THEN 0 ELSE None]
NoPages == [i \in Pages |-> None]

\* eState: OPEN, READER, WRITER_LOCKED, _CACHEMOD, _DBMOD, _FINISHED; the rest are
\* the steps of PagerSharedLock, syncJournal, CommitPhaseOne, playback.
InCheck == {"shared", "exists", "unreserved", "hot", "validate"}
InRecovery == {"recover", "replay", "replayed", "rest"}
InFlush == {"sync", "header", "resync", "store", "finished"}
InWrite == {"locked", "cachemod", "dbmod", "lock"} \cup InFlush
InRollback == {"undo", "undone"}
Steps == {"open", "reader", "leave", "busy"} \cup InCheck \cup InRecovery \cup InWrite
             \cup InRollback

NoMem == [cache |-> NoPages, dirty |-> {}, vers |-> None, logged |-> {},
          orig |-> 0, commit |-> FALSE, todo |-> <<>>]

\* The journal: the size of the database before, for each of its parts whether the
\* header has the magic number or is still zero, and what of that is on the disk, the
\* page records, of which the first safe ones are on the disk.  A record that was lost
\* has no valid checksum.
NewJournal(n) == [orig |-> n, magic |-> <<FALSE>>, magics |-> <<{FALSE}>>,
                  recs |-> <<>>, safe |-> 0]
Record(i, image, part) == [page |-> i, image |-> image, part |-> part, valid |-> TRUE]

Journals ==
    [orig : Pages, magic : Seq(BOOLEAN), magics : Seq(SUBSET BOOLEAN), safe : Nat,
     recs : Seq([page : Pages, image : 0 .. MaxTx \cup {None}, part : Nat, valid : BOOLEAN])]

ASSUME PagerAssumption ==
    /\ LastPage \in Nat /\ MaxTx \in Nat /\ ChecksRace \in BOOLEAN
    /\ FirstSize \in 1 .. LastPage
    /\ None \notin Nat \cup Journals \cup Image

Part(j) == Len(j.magic)
PagesOf(j, part) == {j.recs[r].page : r \in {r \in DOMAIN j.recs : j.recs[r].part = part}}

Init ==
    /\ LockInit
    /\ db = FirstImage
    /\ dbMaybe = [i \in Pages |-> {FirstImage[i]}]
    /\ jrnl = None /\ dead = {}
    /\ pc = [p \in Handles |-> "open"]
    /\ mem = [p \in Handles |-> NoMem]
    /\ tx = 0
    /\ faults = [crashes |-> 0, power |-> 0]

----------------------------------------------------------------------------
(* The files *)

Store(i, v) ==
    /\ db' = [db EXCEPT ![i] = v]
    /\ dbMaybe' = [dbMaybe EXCEPT ![i] = @ \cup {v}]

\* pager_truncate, to the size of the file before the transaction
Truncate(n) ==
    /\ db' = [i \in Pages |-> IF i > n THEN None ELSE db[i]]
    /\ dbMaybe' = [i \in Pages |-> IF i > n THEN dbMaybe[i] \cup {None} ELSE dbMaybe[i]]

SyncDb == dbMaybe' = [i \in Pages |-> {db[i]}] /\ UNCHANGED db

\* fsync of the journal; the first one after its creation syncs the directory.
SyncJournal ==
    /\ jrnl' = [jrnl EXCEPT !.magics = [s \in DOMAIN @ |-> {jrnl.magic[s]}],
                            !.safe = Len(jrnl.recs)]
    /\ dead' = {}

\* sqlite3OsDelete without a sync of the directory
DeleteJournal == dead' = dead \cup {jrnl} /\ jrnl' = None

\* readJournalHdr and pager_playback_one_page for a hot journal: parts without a
\* header and what follows a bad checksum count for nothing.
Playable(j) ==
    LET ends == {r \in DOMAIN j.recs : ~(j.recs[r].valid /\ j.magic[j.recs[r].part])} IN
    IF ends = {} THEN j.recs ELSE SubSeq(j.recs, 1, Min(ends) - 1)

Hot(j) == j # None /\ j.magic[1]

\* The database that a recovery makes of the files: a page has one record at most.
RecordsOf(i, j) == {r \in DOMAIN Playable(j) : Playable(j)[r].page = i}

Recovered(image, j) ==
    IF ~Hot(j) THEN image
    ELSE [i \in Pages |->
             IF i > j.orig THEN None
             ELSE IF RecordsOf(i, j) = {} THEN image[i]
             ELSE Playable(j)[CHOOSE r \in RecordsOf(i, j) : TRUE].image]

----------------------------------------------------------------------------
(* Read transactions: sqlite3PagerSharedLock *)

Goto(p, s) == pc' = [pc EXCEPT ![p] = s]
Fields(p, m) == mem' = [mem EXCEPT ![p] = m]

LockShared(p) ==
    /\ pc[p] = "open" /\ GetShared(p) /\ Goto(p, "shared")
    /\ UNCHANGED <<files, mem, tx, faults>>

\* hasHotJournal: does the file exist, has nobody a RESERVED lock, and is the
\* first byte of its header written?  One system call at a time.
CheckExists(p) ==
    /\ pc[p] = "shared"
    /\ Goto(p, IF jrnl = None THEN "validate" ELSE "exists")
    /\ UNCHANGED <<lockVars, files, mem, tx, faults>>

\* xCheckReservedLock takes the PENDING of a thread that cannot recover for RESERVED.
CheckReserved(p) ==
    /\ pc[p] = "exists"
    /\ ChecksRace \/ \A q \in Peers(p) : pc[q] # "busy"
    /\ Goto(p, IF SaysReserved(p) THEN "validate" ELSE "unreserved")
    /\ UNCHANGED <<lockVars, files, mem, tx, faults>>

\* A journal that cannot be opened any more is taken for a hot one.
CheckFirstByte(p) ==
    /\ pc[p] = "unreserved"
    /\ Goto(p, IF jrnl = None \/ Hot(jrnl) THEN "hot" ELSE "validate")
    /\ UNCHANGED <<lockVars, files, mem, tx, faults>>

\* Mutant: a recovery keeps out the writers and not the readers.
LockHotReserved(p) ==
    /\ pc[p] = "hot"
    /\ GetReserved(p)
    /\ Goto(p, "recover")
    /\ UNCHANGED <<files, mem, tx, faults>>

LockHot(p) ==
    /\ pc[p] = "hot"
    /\ GetExclusive(p)
    /\ Goto(p, "recover")
    /\ UNCHANGED <<files, mem, tx, faults>>

\* SQLITE_BUSY.  Where readers are left the lock is PENDING until pager_unlock; it stays
\* SHARED where a thread is above it, or another process has the pending byte, for a
\* moment also one that comes to read.
BusyHot(p) ==
    /\ pc[p] = "hot"
    /\ \/ GetPending(p) /\ \E q \in Others(p) : level[q] # Unlocked
       \/ UNCHANGED lockVars
          /\ \/ ~PeersBelow(p)
             \/ \E q \in Others(p) \ Peers(p) : level[q] \notin {Shared, Reserved}
    /\ Goto(p, "busy")
    /\ UNCHANGED <<files, mem, tx, faults>>

\* The journal may be gone meanwhile.  Otherwise it is synced, then played back;
\* the first record empties the cache.
Recover(p) ==
    /\ pc[p] = "recover"
    /\ IF jrnl = None
       THEN /\ Downgrade(p) /\ Goto(p, "validate")
            /\ UNCHANGED <<files, mem>>
       ELSE /\ SyncJournal
            /\ IF Hot(jrnl) THEN Truncate(jrnl.orig) ELSE UNCHANGED <<db, dbMaybe>>
            /\ LET recs == Playable(jrnl) IN
               Fields(p, [mem[p] EXCEPT !.todo = recs,
                                        !.cache = IF recs = <<>> THEN @ ELSE NoPages])
            /\ Goto(p, "replay")
            /\ UNCHANGED lockVars
    /\ UNCHANGED <<tx, faults>>

\* pager_playback_one_page, of a hot journal or of the pager's own transaction
PlayBack(p) ==
    /\ pc[p] \in {"replay", "undo"} /\ mem[p].todo # <<>>
    /\ LET r == Head(mem[p].todo) IN Store(r.page, r.image)
    /\ Fields(p, [mem[p] EXCEPT !.todo = Tail(@)])
    /\ UNCHANGED <<lockVars, jrnl, dead, pc, tx, faults>>

EndPlayBack(p) ==
    /\ pc[p] \in {"replay", "undo"} /\ mem[p].todo = <<>>
    /\ SyncDb
    /\ Goto(p, IF pc[p] = "undo" THEN "undone" ELSE "replayed")
    /\ UNCHANGED <<lockVars, jrnl, dead, mem, tx, faults>>

\* The cache is good as long as the change counter is the one it was read under;
\* the b-tree layer then reads page 1.
Validate(p) ==
    /\ pc[p] = "validate"
    /\ LET m == mem[p]
           kept == IF m.vers = db[1] THEN m.cache ELSE NoPages IN
       Fields(p, [m EXCEPT !.cache = [kept EXCEPT ![1] = db[1]], !.vers = db[1]])
    /\ Goto(p, "reader")
    /\ UNCHANGED <<lockVars, files, tx, faults>>

\* sqlite3PagerAcquire, readDbPage
ReadPage(p, i) ==
    /\ pc[p] = "reader" /\ mem[p].cache[i] = None /\ db[i] # None
    /\ Fields(p, [mem[p] EXCEPT !.cache[i] = db[i]])
    /\ UNCHANGED <<lockVars, files, pc, tx, faults>>

\* pager_unlock
EndRead(p) ==
    /\ pc[p] \in {"reader", "busy"} /\ Release({p}) /\ Goto(p, "open")
    /\ UNCHANGED <<files, mem, tx, faults>>

----------------------------------------------------------------------------
(* Write transactions *)

\* sqlite3PagerBegin
BeginWrite(p) ==
    /\ pc[p] = "reader" /\ tx < MaxTx
    /\ GetReserved(p)
    /\ tx' = tx + 1
    /\ Fields(p, [mem[p] EXCEPT !.orig = Cardinality({i \in Pages : db[i] # None}),
                                !.logged = {}, !.commit = FALSE])
    /\ Goto(p, "locked")
    /\ UNCHANGED <<files, faults>>

\* pager_write: the original goes to the journal before the page changes; the
\* first page of a transaction opens the journal, with a header of zeros.
ToLog(p, i) == i <= mem[p].orig /\ i \notin mem[p].logged

Original(p, i) == IF mem[p].cache[i] # None THEN mem[p].cache[i] ELSE db[i]

LogPage(p, i) ==
    LET j == IF pc[p] = "locked" THEN NewJournal(mem[p].orig) ELSE jrnl IN
    jrnl' = IF ToLog(p, i)
            THEN [j EXCEPT !.recs = Append(@, Record(i, Original(p, i), Part(j)))]
            ELSE j

Modified(p, i, v) ==
    [mem[p] EXCEPT !.cache[i] = v, !.dirty = @ \cup {i},
                   !.logged = IF ToLog(p, i) THEN @ \cup {i} ELSE @]

WritePage(p, i) ==
    /\ pc[p] \in {"locked", "cachemod", "dbmod"}
    /\ i > 1 /\ Original(p, i - 1) # None
    /\ Original(p, i) # tx
    /\ LogPage(p, i)
    /\ Fields(p, Modified(p, i, tx))
    /\ Goto(p, IF pc[p] = "locked" THEN "cachemod" ELSE pc[p])
    /\ UNCHANGED <<lockVars, db, dbMaybe, dead, tx, faults>>

\* Mutant: the change counter stays as it is.
CommitUncounted(p) ==
    /\ pc[p] \in {"cachemod", "dbmod"}
    /\ Fields(p, [mem[p] EXCEPT !.commit = TRUE])
    /\ Goto(p, "lock")
    /\ UNCHANGED <<lockVars, files, tx, faults>>

\* CommitPhaseOne: the change counter is on page 1, written like any other page.
CommitPhaseOne(p) ==
    /\ pc[p] \in {"cachemod", "dbmod"}
    /\ LogPage(p, 1)
    /\ Fields(p, [Modified(p, 1, mem[p].vers + 1) EXCEPT !.commit = TRUE])
    /\ Goto(p, "lock")
    /\ UNCHANGED <<lockVars, db, dbMaybe, dead, tx, faults>>

\* syncJournal, for a commit or, when the cache is full, for pages that cannot be
\* written before their originals are safe (pagerStress): first EXCLUSIVE.
BeginSync(p) ==
    /\ pc[p] \in {"lock", "cachemod", "dbmod"}
    /\ pc[p] = "dbmod" => PagesOf(jrnl, Part(jrnl)) # {}
    /\ IF level[p] = Exclusive THEN UNCHANGED lockVars ELSE GetExclusive(p)
    /\ Goto(p, "sync")
    /\ UNCHANGED <<files, mem, tx, faults>>

\* SQLITE_BUSY: readers are left, the lock is PENDING.
BusySync(p) ==
    /\ pc[p] \in {"lock", "cachemod"}
    /\ GetPending(p)
    /\ UNCHANGED <<files, pc, mem, tx, faults>>

\* The records are synced, then counted in the header, then the header is synced.
SyncRecords(p) ==
    /\ pc[p] = "sync"
    /\ SyncJournal
    /\ Goto(p, "header")
    /\ UNCHANGED <<lockVars, db, dbMaybe, mem, tx, faults>>

WriteHeader(p) ==
    /\ pc[p] = "header"
    /\ jrnl' = [jrnl EXCEPT !.magic[Part(jrnl)] = TRUE,
                            !.magics[Part(jrnl)] = @ \cup {TRUE}]
    /\ Goto(p, "resync")
    /\ UNCHANGED <<lockVars, db, dbMaybe, dead, mem, tx, faults>>

AfterSync(p) == Goto(p, IF mem[p].commit THEN "store" ELSE "dbmod")

\* Mutant: the header is not synced before the pages are written.
NoResync(p) ==
    /\ pc[p] = "resync"
    /\ jrnl' = IF mem[p].commit THEN jrnl
               ELSE [jrnl EXCEPT !.magic = Append(@, FALSE), !.magics = Append(@, {FALSE})]
    /\ AfterSync(p)
    /\ UNCHANGED <<lockVars, db, dbMaybe, dead, mem, tx, faults>>

\* A transaction that goes on starts another part of the journal.
SyncHeader(p) ==
    /\ pc[p] = "resync"
    /\ LET safe == [jrnl EXCEPT !.magics[Part(jrnl)] = {TRUE}] IN
       jrnl' = IF mem[p].commit THEN safe
               ELSE [safe EXCEPT !.magic = Append(@, FALSE), !.magics = Append(@, {FALSE})]
    /\ AfterSync(p)
    /\ UNCHANGED <<lockVars, db, dbMaybe, dead, mem, tx, faults>>

\* pager_write_pagelist, of all dirty pages or of one that is spilled
StorePage(p, i) ==
    /\ pc[p] \in {"store", "dbmod"} /\ i \in mem[p].dirty
    /\ pc[p] = "dbmod" => i \notin PagesOf(jrnl, Part(jrnl))
    /\ Store(i, mem[p].cache[i])
    /\ Fields(p, [mem[p] EXCEPT !.dirty = @ \ {i},
                                !.vers = IF i = 1 THEN mem[p].cache[1] ELSE @])
    /\ UNCHANGED <<lockVars, jrnl, dead, pc, tx, faults>>

\* A clean page leaves the cache.
Evict(p, i) ==
    /\ pc[p] \in {"reader", "dbmod"}
    /\ i # 1 /\ i \notin mem[p].dirty /\ mem[p].cache[i] # None
    /\ Fields(p, [mem[p] EXCEPT !.cache[i] = None])
    /\ UNCHANGED <<lockVars, files, pc, tx, faults>>

\* sqlite3PagerSync, the end of CommitPhaseOne
SyncStored(p) ==
    /\ pc[p] = "store" /\ mem[p].dirty = {}
    /\ SyncDb
    /\ Goto(p, "finished")
    /\ UNCHANGED <<lockVars, jrnl, dead, mem, tx, faults>>

\* pager_end_transaction: without its journal the transaction is committed, or
\* rolled back, or a hot journal done with; then the lock goes down to SHARED.
EndTransaction(p) ==
    /\ pc[p] \in {"finished", "undone", "replayed"}
    /\ DeleteJournal
    /\ Goto(p, IF pc[p] = "replayed" THEN "rest" ELSE "leave")
    /\ UNCHANGED <<lockVars, db, dbMaybe, mem, tx, faults>>

UnlockDb(p) ==
    /\ pc[p] \in {"leave", "rest", "locked"}
    /\ Downgrade(p)
    /\ Goto(p, IF pc[p] = "rest" THEN "validate" ELSE "reader")
    /\ UNCHANGED <<files, mem, tx, faults>>

\* sqlite3PagerRollback, pager_playback: the cache has its originals back; the file
\* has if it was written, from the parts of the journal that are synced.
Rollback(p) ==
    LET m == mem[p]
        was(i) == jrnl.recs[CHOOSE r \in DOMAIN jrnl.recs : jrnl.recs[r].page = i].image
        modified == Hot(jrnl) IN
    /\ pc[p] \in {"cachemod", "lock", "dbmod", "finished"}
    /\ Fields(p, [m EXCEPT
           !.cache = [i \in Pages |-> IF i > m.orig \/ @[i] = None THEN None
                                      ELSE IF i \in m.logged THEN was(i) ELSE @[i]],
           !.vers = IF 1 \in m.logged THEN was(1) ELSE @,
           !.dirty = {},
           !.todo = IF modified THEN Playable(jrnl) ELSE <<>>])
    /\ IF modified THEN Truncate(m.orig) /\ Goto(p, "undo")
       ELSE UNCHANGED <<db, dbMaybe>> /\ Goto(p, "undone")
    /\ UNCHANGED <<lockVars, jrnl, dead, tx, faults>>

----------------------------------------------------------------------------
(* Faults *)

\* The process of p dies, with all its threads.
Die(p) ==
    LET S == Peers(p) \cup {p} IN
    /\ pc[p] # "open" /\ faults.crashes < MaxCrashes
    /\ Release(S)
    /\ pc' = [q \in Handles |-> IF q \in S THEN "open" ELSE pc[q]]
    /\ mem' = [q \in Handles |-> IF q \in S THEN NoMem ELSE mem[q]]
    /\ faults' = [faults EXCEPT !.crashes = @ + 1]
    /\ UNCHANGED <<files, tx>>

\* What a power loss may leave of a journal: any of the records and headers that
\* are not synced.
Survivor(j, r, lost) == [j.recs[r] EXCEPT !.valid = @ /\ (r <= j.safe \/ r \notin lost)]

Remainder(j, magic, lost) ==
    [j EXCEPT !.magic = magic, !.magics = [s \in DOMAIN j.magics |-> {magic[s]}],
              !.safe = Len(j.recs), !.recs = [r \in DOMAIN j.recs |-> Survivor(j, r, lost)]]

Remains(j) ==
    IF j = None THEN {None}
    ELSE {Remainder(j, magic, lost) :
             magic \in {m \in [DOMAIN j.magic -> BOOLEAN] :
                           \A s \in DOMAIN m : m[s] \in j.magics[s]},
             lost \in SUBSET DOMAIN j.recs}

PowerLoss ==
    /\ faults.power < MaxPower
    /\ \E image \in [Pages -> UNION {dbMaybe[i] : i \in Pages}] :
           /\ \A i \in Pages : image[i] \in dbMaybe[i]
           /\ db' = image
           /\ dbMaybe' = [i \in Pages |-> {image[i]}]
    /\ jrnl' \in UNION {Remains(j) : j \in dead \cup {jrnl}}
    /\ dead' = {}
    /\ Release(Handles)
    /\ pc' = [p \in Handles |-> "open"]
    /\ mem' = [p \in Handles |-> NoMem]
    /\ faults' = [faults EXCEPT !.power = @ + 1]
    /\ UNCHANGED tx

Next ==
    \/ \E p \in Handles :
           \/ LockShared(p) \/ CheckExists(p) \/ CheckReserved(p) \/ CheckFirstByte(p)
           \/ LockHot(p) \/ BusyHot(p) \/ Recover(p) \/ PlayBack(p) \/ EndPlayBack(p) \/ Validate(p)
           \/ EndRead(p) \/ BeginWrite(p) \/ CommitPhaseOne(p)
           \/ BeginSync(p) \/ BusySync(p) \/ SyncRecords(p) \/ WriteHeader(p)
           \/ SyncHeader(p) \/ SyncStored(p) \/ EndTransaction(p) \/ UnlockDb(p)
           \/ Rollback(p) \/ Die(p)
           \/ \E i \in Pages : ReadPage(p, i) \/ WritePage(p, i) \/ StorePage(p, i)
                               \/ Evict(p, i)
    \/ PowerLoss

Spec == Init /\ [][Next]_vars

----------------------------------------------------------------------------

\* Types, and the lock that each state of a pager goes with (assert_pager_state).
TypeOK ==
    /\ LockTypeOK
    /\ db \in Image
    /\ \A i \in Pages : db[i] \in dbMaybe[i]
    /\ pc \in [Handles -> Steps]
    /\ \A p \in Handles :
           /\ pc[p] = "open" <=> level[p] = Unlocked
           /\ pc[p] \in InCheck \cup {"reader"} => level[p] = Shared
           /\ pc[p] = "busy" => level[p] \in {Shared, Pending}
           /\ pc[p] \in InWrite => level[p] >= Reserved
           /\ pc[p] \in InRecovery \cup InFlush => level[p] = Exclusive
           /\ pc[p] \in InWrite \ {"locked"} => jrnl # None

\* sqlite3PagerSharedLock: "If a journal file exists, and there is no RESERVED lock on the
\* database file, then it either needs to be played back or deleted" - whoever reads the
\* database has no journal beside it that somebody has yet to play back, however pagers
\* come, recover, give up and die.
HotIsPlayedBack == \A p \in Handles : pc[p] = "reader" => ~Hot(jrnl)

\* Design note 9: an idle pager whose version of page 1 is still the one in the file
\* has no other stale page in its cache.
CachesAreTold ==
    \A p \in Handles :
        pc[p] = "open" /\ mem[p].vers = db[1] /\ ~Hot(jrnl)
        => \A i \in Pages : mem[p].cache[i] \in {None, db[i]}

\* The image a pager reads: its cache over the file.
Reads(p) == [i \in Pages |-> Original(p, i)]

Stored == Recovered(db, jrnl)

View(p) ==
    IF pc[p] \in InWrite \cup {"reader", "leave"} THEN Reads(p)
    ELSE IF pc[p] \in InRollback THEN Stored
    ELSE None

Views == [p \in Handles |-> View(p)]

\* The databases that deletions which are not on the disk would bring back.
Undone == {Recovered(db, j) : j \in dead} \ {Stored}
Previous == IF Undone = {} THEN Stored ELSE CHOOSE image \in Undone : TRUE

Promise == INSTANCE AtomicStore WITH
    Clients <- Handles, Images <- Image, NoImage <- None,
    stored <- Stored, previous <- Previous, view <- Views

\* Transactions are atomic and isolated through every interleaving of system calls,
\* death of a process, and power loss.
TransactionsAreAtomic == Promise!StoreSpec

=============================================================================
