----------------------------- MODULE PagerProofs -----------------------------
(***************************************************************************)
(* For any number of handles the locking methods keep a writer alone with  *)
(* the file, and RESERVED with one handle that may read; and any number of *)
(* pagers that use them keep to the lock each of their states goes with.   *)
(* What the rollback journal gives them, for any number of pages,          *)
(* transactions, deaths and power losses: a recovery finds the database of *)
(* the last commit in the file and the journal, and the change counter     *)
(* tells a pager when its cache is out of date.                            *)
(***************************************************************************)
EXTENDS RollbackPager, TLAPS, SequenceTheorems, FiniteSetTheorems,
        WellFoundedInduction, NaturalsInduction

LockInv == LockTypeOK /\ WriterAlone /\ ReservedReads

\* No step of a handle or of the operating system breaks any of the three.
LEMMA LockStep == LockInv /\ [LockNext]_lockVars => LockInv'
<1> SUFFICES ASSUME LockInv, [LockNext]_lockVars PROVE LockInv'
    OBVIOUS
<1> USE DEF LockInv, LockTypeOK, WriterAlone, ReservedReads, Levels, Unlocked,
            Shared, Reserved, Pending, Exclusive, Others, Set
<1>1. ASSUME NEW h \in Handles, GetShared(h) PROVE LockInv'
    BY <1>1 DEF GetShared
<1>2. ASSUME NEW h \in Handles, GetReserved(h) PROVE LockInv'
    BY <1>2 DEF GetReserved
<1>3. ASSUME NEW h \in Handles, GetPending(h) PROVE LockInv'
    BY <1>3 DEF GetPending
<1>4. ASSUME NEW h \in Handles, GetExclusive(h) PROVE LockInv'
    BY <1>4 DEF GetExclusive
<1>5. ASSUME NEW h \in Handles, Downgrade(h) PROVE LockInv'
    BY <1>5 DEF Downgrade
<1>6. ASSUME NEW S \in SUBSET Handles, Release(S) PROVE LockInv'
    BY <1>6 DEF Release
<1>7. CASE UNCHANGED lockVars
    BY <1>7 DEF lockVars
<1> QED
    BY <1>1, <1>2, <1>3, <1>4, <1>5, <1>6, <1>7 DEF LockNext

LEMMA LockInvariant == LockSpec => []LockInv
<1>1. LockInit => LockInv
    BY DEF LockInit, LockInv, LockTypeOK, WriterAlone, ReservedReads, Levels,
           Unlocked, Shared, Reserved, Pending, Exclusive
<1> QED
    BY <1>1, LockStep, PTL DEF LockSpec

\* A handle that may write the file (EXCLUSIVE) is the only one with any lock on it.
THEOREM WritersAreAlone == LockSpec => []WriterAlone
<1>1. LockInv => WriterAlone
    BY DEF LockInv
<1> QED
    BY <1>1, LockInvariant, PTL

\* RESERVED has one holder at most, which keeps it, and reads, until it goes down.
THEOREM ReservedIsKept == LockSpec => []ReservedReads
<1>1. LockInv => ReservedReads
    BY DEF LockInv
<1> QED
    BY <1>1, LockInvariant, PTL

----------------------------------------------------------------------------
(* The pager on top of the locks *)

\* The pager takes and gives back its locks in no other way than FileLock offers.
LEMMA PagerLocks == Next => [LockNext]_lockVars
<1> USE DEF LockNext
<1>1. ASSUME NEW p \in Handles, \/ LockShared(p) \/ CheckExists(p) \/ CheckReserved(p)
                               \/ CheckFirstByte(p) \/ LockHot(p) \/ BusyHot(p)
                               \/ Recover(p)
      PROVE  [LockNext]_lockVars
    BY <1>1 DEF LockShared, CheckExists, CheckReserved, CheckFirstByte, LockHot, BusyHot, Recover
<1>2. ASSUME NEW p \in Handles, \/ PlayBack(p) \/ EndPlayBack(p) \/ Validate(p)
                               \/ EndRead(p) \/ BeginWrite(p) \/ CommitPhaseOne(p)
      PROVE  [LockNext]_lockVars
    BY <1>2 DEF PlayBack, EndPlayBack, Validate, EndRead, BeginWrite, CommitPhaseOne
<1>3. ASSUME NEW p \in Handles, \/ BeginSync(p) \/ BusySync(p) \/ SyncRecords(p)
                               \/ WriteHeader(p) \/ SyncHeader(p) \/ SyncStored(p)
      PROVE  [LockNext]_lockVars
    BY <1>3 DEF BeginSync, BusySync, SyncRecords, WriteHeader, SyncHeader, SyncStored
<1>4. ASSUME NEW p \in Handles, \/ EndTransaction(p) \/ UnlockDb(p) \/ Rollback(p) \/ Die(p)
      PROVE  [LockNext]_lockVars
    <2>1. Peers(p) \cup {p} \in SUBSET Handles
        BY DEF Peers, Others
    <2> QED
        BY <1>4, <2>1 DEF EndTransaction, UnlockDb, Rollback, Die
<1>5. ASSUME NEW p \in Handles, NEW i \in Pages,
             ReadPage(p, i) \/ WritePage(p, i) \/ StorePage(p, i) \/ Evict(p, i)
      PROVE  [LockNext]_lockVars
    BY <1>5 DEF ReadPage, WritePage, StorePage, Evict
<1>6. ASSUME PowerLoss PROVE [LockNext]_lockVars
    BY <1>6 DEF PowerLoss
<1> HIDE DEF LockNext
<1> QED
    BY <1>1, <1>2, <1>3, <1>4, <1>5, <1>6 DEF Next

\* So what the lock levels promise holds of every pager.
LEMMA PagerKeepsLocks == Spec => LockSpec
<1>1. Init => LockInit
    BY DEF Init
<1>2. [Next]_vars => [LockNext]_lockVars
    BY PagerLocks DEF vars, lockVars
<1> QED
    BY <1>1, <1>2, PTL DEF Spec, LockSpec

----------------------------------------------------------------------------
(* Values *)

\* What page i may hold after n transactions: page 1 always exists, and its change
\* counter is no higher than n.
Content(i, n) == IF i = 1 THEN 0 .. n ELSE 0 .. MaxTx \cup {None}
CacheOf(i, n) == Content(i, n) \cup {None}

Entries(n) ==
    {r \in [page : Pages, image : 0 .. MaxTx \cup {None}, part : Nat, valid : BOOLEAN] :
        r.image \in Content(r.page, n)}

JournalsOf(n) ==
    {j \in Journals :
        /\ j.recs \in Seq(Entries(n))
        /\ j.magic # <<>> /\ Len(j.magics) = Len(j.magic)}

Fields0 == [cache : [Pages -> 0 .. MaxTx \cup {None}], dirty : SUBSET Pages,
            vers : 0 .. MaxTx \cup {None}, logged : SUBSET Pages, orig : 0 .. LastPage,
            commit : BOOLEAN, todo : Seq(Entries(MaxTx))]

PagerFields(n) ==
    {m \in Fields0 :
        /\ m.cache[1] \in CacheOf(1, n) /\ m.vers \in CacheOf(1, n)
        /\ m.todo \in Seq(Entries(n))}

Values ==
    /\ tx \in 0 .. MaxTx
    /\ db \in Image
    /\ dbMaybe \in [Pages -> SUBSET (0 .. MaxTx \cup {None})]
    /\ \A i \in Pages : db[i] \in dbMaybe[i] /\ dbMaybe[i] \subseteq Content(i, tx)
    /\ jrnl \in JournalsOf(tx) \cup {None}
    /\ dead \subseteq JournalsOf(tx)
    /\ mem \in [Handles -> PagerFields(tx)]

\* Who may change the journal.
Owning == InWrite \cup InRollback \cup {"leave"} \cup InRecovery
InTransaction == InWrite \cup InRollback \cup {"leave"}

\* A pager in a transaction, the journal j and n transactions so far.
Working(s, m, j, n) ==
    /\ s \in InTransaction \cup {"reader"} => m.vers # None
    /\ s \in InWrite => m.orig \in Pages
    /\ s = "locked" => m.logged = {}
    /\ s \in {"locked", "cachemod", "dbmod"} => ~m.commit
    /\ s \in InWrite /\ ~m.commit => m.vers < n /\ 1 \notin m.dirty
    /\ s \notin InWrite \ {"locked", "finished"} => m.dirty = {}
    /\ \A i \in m.dirty : m.cache[i] # None
    /\ s \in (InWrite \ {"locked"}) \cup InRollback \cup {"replay", "replayed"} => j # None
    /\ s \in InWrite \ {"locked"} =>
           \A i \in m.logged : \E r \in DOMAIN j.recs : j.recs[r].page = i

\* The lock that goes with a state (assert_pager_state).
Locked(s, l) ==
    /\ s \in Steps
    /\ s = "open" <=> l = Unlocked
    /\ s \in InCheck \cup {"reader"} => l = Shared
    /\ s = "busy" => l \in {Shared, Pending}
    /\ s \in InWrite => l >= Reserved
    /\ s \in InRecovery \cup InFlush => l = Exclusive

\* RESERVED goes with a transaction.
Placed(p) == pc[p] \in InTransaction <=> p \in reserved

PagerInv ==
    /\ LockInv
    /\ Values
    /\ pc \in [Handles -> Steps]
    /\ \A p \in Handles :
           Locked(pc[p], level[p]) /\ Placed(p) /\ Working(pc[p], mem[p], jrnl, tx)

----------------------------------------------------------------------------
(* What every step has in common *)

\* The lock levels and the place of RESERVED, as other handles see them.
Kept(p) ==
    \A q \in Handles : q # p =>
        /\ level'[q] = level[q] /\ (q \in reserved' <=> q \in reserved)
        /\ pc'[q] = pc[q] /\ mem'[q] = mem[q]

LEMMA MoreTransactions ==
    ASSUME NEW n \in Nat, NEW k \in Nat, n <= k
    PROVE  /\ \A i \in Pages : Content(i, n) \subseteq Content(i, k)
           /\ Entries(n) \subseteq Entries(k)
           /\ JournalsOf(n) \subseteq JournalsOf(k)
           /\ PagerFields(n) \subseteq PagerFields(k)
<1>1. \A i : Content(i, n) \subseteq Content(i, k)
    BY DEF Content
<1>2. Entries(n) \subseteq Entries(k)
    BY <1>1 DEF Entries
<1>3. \A s \in Seq(Entries(n)) : s \in Seq(Entries(k))
    BY <1>2, SeqMonotonic
<1>4. JournalsOf(n) \subseteq JournalsOf(k)
    BY <1>3 DEF JournalsOf
<1>5. PagerFields(n) \subseteq PagerFields(k)
    BY <1>1, <1>3 DEF PagerFields, CacheOf
<1> QED
    BY <1>1, <1>2, <1>4, <1>5

\* One pager at a time may change the journal.
LEMMA OneOwner ==
    ASSUME PagerInv, NEW p \in Handles, pc[p] \in Owning
    PROVE  \A q \in Handles : q # p => pc[q] \notin Owning
<1> SUFFICES ASSUME NEW q \in Handles, q # p, pc[q] \in Owning PROVE FALSE
    OBVIOUS
<1>1. \A h \in Handles : pc[h] \in Owning =>
          h \in reserved \/ level[h] = Exclusive
    BY DEF PagerInv, Locked, Placed, Owning, InTransaction
<1>2. \A h \in Handles : pc[h] \in Owning => level[h] # Unlocked
    BY <1>1 DEF PagerInv, LockInv, ReservedReads, LockTypeOK, Levels, Unlocked, Reserved,
              Exclusive
<1> QED
    BY <1>1, <1>2 DEF PagerInv, LockInv, WriterAlone, ReservedReads

LEMMA HandleStep ==
    ASSUME PagerInv, NEW p \in Handles, Kept(p), Values', LockInv',
           pc' \in [Handles -> Steps],
           jrnl' = jrnl \/ pc[p] \in Owning,
           tx' \in {tx, tx + 1},
           Locked(pc'[p], level'[p]),
           pc'[p] \in InTransaction <=> p \in reserved',
           Working(pc'[p], mem'[p], jrnl', tx')
    PROVE  PagerInv'
<1>1. ASSUME NEW q \in Handles, q # p
      PROVE  Locked(pc[q], level[q])' /\ Placed(q)'
    BY <1>1 DEF PagerInv, Kept, Placed, Locked
<1>2. ASSUME NEW q \in Handles, q # p
      PROVE  Working(pc[q], mem[q], jrnl', tx')
    <2>1. Working(pc[q], mem[q], jrnl, tx)
        BY <1>2 DEF PagerInv
    <2>2. tx \in Nat
        BY DEF PagerInv, Values
    <2>3. mem[q].vers \in CacheOf(1, tx)
        BY <1>2 DEF PagerInv, Values, PagerFields
    <2>4. CASE jrnl' = jrnl
        BY <2>1, <2>2, <2>3, <2>4, PagerAssumption DEF Working, CacheOf, Content, InTransaction
    <2>5. CASE pc[q] \notin Owning
        BY <2>1, <2>5 DEF Working, Owning, InTransaction, InRecovery
    <2> QED
        BY <2>4, <2>5, <1>2, OneOwner
<1>3. ASSUME NEW q \in Handles, q # p
      PROVE  Working(pc[q], mem[q], jrnl, tx)'
    BY <1>2, <1>3 DEF Kept, Working
<1> QED
    BY <1>1, <1>3 DEF PagerInv, Placed, Locked, Working

LEMMA SameValues ==
    ASSUME Values, UNCHANGED <<files, tx>>, mem' \in [Handles -> PagerFields(tx)]
    PROVE  Values'
BY DEF Values, files

\* What the locking methods leave behind for a handle p.
LEMMA Locking ==
    ASSUME LockTypeOK, NEW p \in Handles
    PROVE  /\ GetShared(p) => level'[p] = Shared /\ reserved' = reserved
           /\ GetReserved(p) => level'[p] = Reserved /\ reserved' = {p} /\ reserved = {}
                                /\ level[p] = Shared
           /\ GetPending(p) => level'[p] = Pending /\ reserved' = reserved
           /\ GetExclusive(p) => level'[p] = Exclusive /\ reserved' = reserved
           /\ Downgrade(p) => level'[p] = Shared /\ reserved' = reserved \ {p}
           /\ Release({p}) => level'[p] = Unlocked /\ reserved' = reserved \ {p}
           /\ \/ GetShared(p) \/ GetReserved(p) \/ GetPending(p) \/ GetExclusive(p)
              \/ Downgrade(p) \/ Release({p})
              => \A q \in Handles : q # p => level'[q] = level[q]
BY DEF LockTypeOK, GetShared, GetReserved, GetPending, GetExclusive, Downgrade, Release, Set

LEMMA CheckSteps ==
    ASSUME PagerInv, LockInv', NEW p \in Handles,
           LockShared(p) \/ CheckExists(p) \/ CheckReserved(p) \/ CheckFirstByte(p)
    PROVE  PagerInv'
<1>1. Kept(p)
    BY Locking DEF PagerInv, LockInv, Kept, LockShared, CheckExists, CheckReserved,
                   CheckFirstByte, Goto, lockVars
<1>2. Values'
    BY SameValues DEF PagerInv, Values, LockShared, CheckExists, CheckReserved, CheckFirstByte
<1>3. /\ pc[p] \in {"open", "shared", "exists", "unreserved"}
      /\ pc'[p] \in InCheck /\ pc' \in [Handles -> Steps]
    BY DEF PagerInv, LockShared, CheckExists, CheckReserved, CheckFirstByte, Goto, InCheck,
           Steps
<1>4. level'[p] = Shared /\ reserved' = reserved
    BY <1>3, Locking DEF PagerInv, LockInv, LockShared, CheckExists, CheckReserved,
                         CheckFirstByte, lockVars, Locked, InCheck
<1>5. UNCHANGED <<jrnl, tx, mem>>
    BY DEF LockShared, CheckExists, CheckReserved, CheckFirstByte, files
<1>6. Locked(pc'[p], level'[p])
    BY <1>3, <1>4 DEF Locked, InCheck, Steps, InWrite, InRecovery, InFlush, Unlocked, Shared
<1>7. pc'[p] \in InTransaction <=> p \in reserved'
    BY <1>3, <1>4 DEF PagerInv, Placed, InTransaction, InCheck, InWrite, InRollback, InFlush
<1>8. Working(pc'[p], mem'[p], jrnl', tx')
    BY <1>3, <1>5 DEF PagerInv, Working, InTransaction, InCheck, InWrite, InRollback, InFlush
<1> QED
    BY <1>1, <1>2, <1>3, <1>5, <1>6, <1>7, <1>8, HandleStep

LEMMA LockHotStep ==
    ASSUME PagerInv, LockInv', NEW p \in Handles, LockHot(p) \/ BusyHot(p)
    PROVE  PagerInv'
<1>1. Kept(p)
    BY Locking DEF PagerInv, LockInv, Kept, LockHot, BusyHot, Goto, lockVars
<1>2. Values'
    BY SameValues DEF PagerInv, Values, LockHot, BusyHot
<1>3. /\ pc[p] = "hot" /\ pc' \in [Handles -> Steps] /\ p \notin reserved
      /\ level[p] = Shared /\ UNCHANGED <<jrnl, tx, mem>>
    BY DEF PagerInv, LockHot, BusyHot, Goto, Steps, InRecovery, InCheck, Placed, Locked,
           InTransaction, InWrite, InRollback, InFlush, files
<1>4. /\ \/ pc'[p] = "recover" /\ level'[p] = Exclusive
         \/ pc'[p] = "busy" /\ level'[p] \in {Shared, Pending}
      /\ p \notin reserved'
    BY <1>3, Locking DEF PagerInv, LockInv, LockHot, BusyHot, Goto, lockVars
<1>5. Locked(pc'[p], level'[p])
    BY <1>4 DEF Locked, InCheck, Steps, InWrite, InRecovery, InFlush, Unlocked, Shared,
                Pending, Exclusive
<1>6. pc'[p] \in InTransaction <=> p \in reserved'
    BY <1>4 DEF InTransaction, InWrite, InRollback, InFlush
<1>7. Working(pc'[p], mem'[p], jrnl', tx')
    BY <1>3, <1>4 DEF PagerInv, Working, InTransaction, InWrite, InRollback, InFlush
<1> QED
    BY <1>1, <1>2, <1>3, <1>5, <1>6, <1>7, HandleStep

LEMMA EndReadStep ==
    ASSUME PagerInv, LockInv', NEW p \in Handles, EndRead(p)
    PROVE  PagerInv'
<1>1. Kept(p)
    BY Locking DEF PagerInv, LockInv, Kept, EndRead, Goto
<1>2. Values'
    BY SameValues DEF PagerInv, Values, EndRead
<1>3. /\ pc[p] \in {"reader", "busy"} /\ pc' \in [Handles -> Steps] /\ pc'[p] = "open"
      /\ UNCHANGED <<jrnl, tx, mem>>
    BY DEF PagerInv, EndRead, Goto, Steps, files
<1>4. level'[p] = Unlocked /\ p \notin reserved'
    BY <1>3, Locking DEF PagerInv, LockInv, EndRead, Goto
<1>5. Locked(pc'[p], level'[p])
    BY <1>3, <1>4 DEF Locked, InCheck, Steps, InWrite, InRecovery, InFlush
<1>6. pc'[p] \in InTransaction <=> p \in reserved'
    BY <1>3, <1>4 DEF InTransaction, InWrite, InRollback, InFlush
<1>7. Working(pc'[p], mem'[p], jrnl', tx')
    BY <1>3 DEF PagerInv, Working, InTransaction, InWrite, InRollback, InFlush
<1> QED
    BY <1>1, <1>2, <1>3, <1>5, <1>6, <1>7, HandleStep

\* A transaction takes no lock without RESERVED, which it keeps.
LEMMA SyncLockSteps ==
    ASSUME PagerInv, LockInv', NEW p \in Handles, BeginSync(p) \/ BusySync(p)
    PROVE  PagerInv'
<1>1. Kept(p)
    BY Locking DEF PagerInv, LockInv, Kept, BeginSync, BusySync, Goto, lockVars
<1>2. Values'
    BY SameValues DEF PagerInv, Values, BeginSync, BusySync
<1>3. /\ pc[p] \in {"lock", "cachemod", "dbmod"} /\ pc' \in [Handles -> Steps]
      /\ reserved' = reserved
      /\ \/ pc'[p] = "sync" /\ level'[p] = Exclusive
         \/ pc'[p] = pc[p] /\ level'[p] = Pending
      /\ UNCHANGED <<jrnl, tx, mem>>
    BY Locking DEF PagerInv, LockInv, BeginSync, BusySync, Goto, Steps, files, lockVars, InWrite,
                   InFlush
<1>4. Locked(pc'[p], level'[p])
    BY <1>3 DEF PagerInv, Locked, InCheck, Steps, InWrite, InRecovery, InFlush, Pending,
                Exclusive, Unlocked, Reserved
<1>5. pc'[p] \in InTransaction <=> p \in reserved'
    BY <1>3 DEF PagerInv, Placed, InTransaction, InWrite, InRollback, InFlush
<1>6. Working(pc'[p], mem'[p], jrnl', tx')
    BY <1>3 DEF PagerInv, Working, InTransaction, InWrite, InRollback, InFlush
<1> QED
    BY <1>1, <1>2, <1>3, <1>4, <1>5, <1>6, HandleStep

LEMMA UnlockDbStep ==
    ASSUME PagerInv, LockInv', NEW p \in Handles, UnlockDb(p)
    PROVE  PagerInv'
<1>1. Kept(p)
    BY Locking DEF PagerInv, LockInv, Kept, UnlockDb, Goto
<1>2. Values'
    BY SameValues DEF PagerInv, Values, UnlockDb
<1>3. /\ pc[p] \in {"leave", "rest", "locked"} /\ pc' \in [Handles -> Steps]
      /\ pc'[p] = IF pc[p] = "rest" THEN "validate" ELSE "reader"
      /\ level'[p] = Shared /\ p \notin reserved'
      /\ UNCHANGED <<jrnl, tx, mem>>
    BY Locking DEF PagerInv, LockInv, UnlockDb, Goto, Steps, files, InCheck
<1>4. Locked(pc'[p], level'[p])
    BY <1>3 DEF Locked, InCheck, Steps, InWrite, InRecovery, InFlush, Shared, Unlocked
<1>5. pc'[p] \in InTransaction <=> p \in reserved'
    BY <1>3 DEF InTransaction, InWrite, InRollback, InFlush
<1>6. Working(pc'[p], mem'[p], jrnl', tx')
    BY <1>3 DEF PagerInv, Working, InTransaction, InWrite, InRollback, InFlush
<1> QED
    BY <1>1, <1>2, <1>3, <1>4, <1>5, <1>6, HandleStep

\* A step of p that leaves the locks, the files and the count of transactions alone.
LEMMA FieldsStep ==
    ASSUME PagerInv, LockInv', NEW p \in Handles, NEW m \in PagerFields(tx), NEW s \in Steps,
           Fields(p, m), Goto(p, s), UNCHANGED <<lockVars, files, tx>>,
           Locked(s, level[p]), s \in InTransaction <=> pc[p] \in InTransaction,
           Working(s, m, jrnl, tx)
    PROVE  PagerInv'
<1>1. /\ mem' \in [Handles -> PagerFields(tx)] /\ mem'[p] = m
      /\ pc' \in [Handles -> Steps] /\ pc'[p] = s
      /\ Kept(p)
    BY DEF PagerInv, Values, Fields, Goto, lockVars, Kept
<1>2. Values'
    BY <1>1, SameValues DEF PagerInv
<1>3. UNCHANGED <<jrnl, tx, level, reserved>>
    BY DEF files, lockVars
<1>4. pc'[p] \in InTransaction <=> p \in reserved'
    BY <1>1, <1>3 DEF PagerInv, Placed
<1> QED
    BY <1>1, <1>2, <1>3, <1>4, HandleStep

LEMMA ValidateStep ==
    ASSUME PagerInv, LockInv', NEW p \in Handles, Validate(p)
    PROVE  PagerInv'
<1> DEFINE kept == IF mem[p].vers = db[1] THEN mem[p].cache ELSE NoPages
           cache == [kept EXCEPT ![1] = db[1]]
           m == [mem[p] EXCEPT !.cache = cache, !.vers = db[1]]
<1>1. /\ mem[p] \in PagerFields(tx) /\ 1 \in Pages
      /\ db[1] \in 0 .. tx /\ db[1] \in 0 .. MaxTx /\ db[1] # None
    BY PagerAssumption DEF PagerInv, Values, Image, Content, Pages
<1>2. cache \in [Pages -> 0 .. MaxTx \cup {None}] /\ cache[1] = db[1]
    BY <1>1 DEF PagerFields, Fields0, NoPages
<1>3. /\ m.cache = cache /\ m.vers = db[1] /\ m.dirty = mem[p].dirty
      /\ m.todo = mem[p].todo /\ m \in Fields0
    <2> HIDE DEF cache
    <2> QED
        BY <1>1, <1>2 DEF PagerFields, Fields0
<1>4. m \in PagerFields(tx)
    <2> HIDE DEF m, cache
    <2> QED
        BY <1>1, <1>2, <1>3 DEF PagerFields, CacheOf, Content
<1>5. pc[p] = "validate" /\ Fields(p, m) /\ Goto(p, "reader") /\ UNCHANGED <<lockVars, files, tx>>
    BY DEF Validate
<1>6. mem[p].dirty = {}
    BY <1>5 DEF PagerInv, Working, InWrite, InFlush
<1>7. Working("reader", m, jrnl, tx)
    <2> HIDE DEF m
    <2> QED
        BY <1>1, <1>3, <1>6 DEF Working, InTransaction, InWrite, InRollback, InFlush
<1>8. Locked("reader", level[p])
    BY <1>5 DEF PagerInv, Locked, InCheck, Steps, InWrite, InRecovery, InFlush, Shared, Unlocked
<1> HIDE DEF m
<1> QED
    BY <1>4, <1>5, <1>7, <1>8, FieldsStep
       DEF Steps, InTransaction, InWrite, InRollback, InFlush

LEMMA CacheSteps ==
    ASSUME PagerInv, LockInv', NEW p \in Handles, NEW i \in Pages,
           ReadPage(p, i) \/ Evict(p, i)
    PROVE  PagerInv'
<1> DEFINE v == IF ReadPage(p, i) THEN db[i] ELSE None
           m == [mem[p] EXCEPT !.cache[i] = v]
<1>1. mem[p] \in PagerFields(tx) /\ i \in Pages /\ mem[p].cache[i] # v
    BY DEF PagerInv, Values, ReadPage, Evict
<1>2. v \in 0 .. MaxTx \cup {None} /\ (i = 1 => v \in 0 .. tx)
    BY PagerAssumption DEF PagerInv, Values, Image, Content, Pages, ReadPage, Evict
<1>3. /\ m \in Fields0 /\ m.vers = mem[p].vers /\ m.todo = mem[p].todo
      /\ m.dirty = mem[p].dirty /\ m.orig = mem[p].orig /\ m.commit = mem[p].commit
      /\ m.logged = mem[p].logged
      /\ \A k \in Pages : m.cache[k] = IF k = i THEN v ELSE mem[p].cache[k]
    <2> HIDE DEF v
    <2> QED
        BY <1>1, <1>2 DEF PagerFields, Fields0
<1>4. m \in PagerFields(tx)
    <2> HIDE DEF m, v
    <2>1. 1 \in Pages
        BY PagerAssumption DEF Pages
    <2> QED
        BY <1>1, <1>2, <1>3, <2>1 DEF PagerFields, CacheOf, Content
<1>5. Fields(p, m) /\ Goto(p, pc[p]) /\ UNCHANGED <<lockVars, files, tx>>
    BY DEF ReadPage, Evict, PagerInv, Goto
<1>6. i \notin mem[p].dirty
    BY DEF PagerInv, Working, ReadPage, Evict, InWrite, InFlush
<1>7. Working(pc[p], m, jrnl, tx)
    <2>1. Working(pc[p], mem[p], jrnl, tx)
        BY DEF PagerInv
    <2>2. \A k \in mem[p].dirty : k \in Pages
        BY <1>1 DEF PagerFields, Fields0
    <2>3. \A k \in m.dirty : m.cache[k] # None
        <3> HIDE DEF m, v
        <3> QED
            BY <1>3, <1>6, <2>1, <2>2 DEF Working
    <2> HIDE DEF m, v
    <2> QED
        BY <1>3, <2>1, <2>3 DEF Working
<1>8. Locked(pc[p], level[p]) /\ pc[p] \in Steps
    BY DEF PagerInv
<1> HIDE DEF m, v
<1> QED
    BY <1>4, <1>5, <1>7, <1>8, FieldsStep

----------------------------------------------------------------------------
(* Write transactions *)

LEMMA FileSize ==
    ASSUME Values
    PROVE  /\ Cardinality({i \in Pages : db[i] # None}) \in Pages
           /\ 1 \in Pages /\ db[1] # None
<1> DEFINE S == {i \in Pages : db[i] # None}
<1>1. 1 \in Pages /\ db[1] # None
    BY PagerAssumption DEF Values, Content, Pages
<1>2. IsFiniteSet(Pages) /\ Cardinality(Pages) = LastPage
    BY FS_Interval, PagerAssumption DEF Pages
<1>3. IsFiniteSet(S) /\ Cardinality(S) <= LastPage
    BY <1>2, FS_Subset
<1>4. Cardinality(S) \in Nat /\ Cardinality(S) # 0
    BY <1>1, <1>3, FS_CardinalityType, FS_EmptySet
<1> QED
    BY <1>1, <1>3, <1>4, PagerAssumption DEF Pages

LEMMA BeginWriteStep ==
    ASSUME PagerInv, LockInv', NEW p \in Handles, BeginWrite(p)
    PROVE  PagerInv'
<1> DEFINE size == Cardinality({i \in Pages : db[i] # None})
           m == [mem[p] EXCEPT !.orig = size, !.logged = {}, !.commit = FALSE]
<1>1. size \in Pages /\ 1 \in Pages /\ mem[p] \in PagerFields(tx) /\ tx \in Nat /\ tx' = tx + 1
    BY FileSize DEF PagerInv, Values, BeginWrite
<1>2. /\ m \in Fields0 /\ m.vers = mem[p].vers /\ m.todo = mem[p].todo
      /\ m.dirty = mem[p].dirty /\ m.orig = size /\ ~m.commit /\ m.logged = {}
      /\ m.cache = mem[p].cache
    <2>1. size \in 0 .. LastPage
        BY <1>1 DEF Pages
    <2> HIDE DEF size
    <2> QED
        BY <1>1, <2>1 DEF PagerFields, Fields0
<1> HIDE DEF m, size
<1>3. m \in PagerFields(tx)
    BY <1>1, <1>2 DEF PagerFields
<1>4. /\ mem' = [mem EXCEPT ![p] = m] /\ pc[p] = "reader" /\ pc' = [pc EXCEPT ![p] = "locked"]
      /\ GetReserved(p) /\ UNCHANGED files /\ tx < MaxTx
    BY DEF BeginWrite, Fields, Goto, m, size
<1>5. /\ mem' \in [Handles -> PagerFields(tx')] /\ mem'[p] = m
      /\ tx' \in 0 .. MaxTx /\ pc' \in [Handles -> Steps] /\ pc'[p] = "locked"
    BY <1>1, <1>3, <1>4, MoreTransactions, PagerAssumption
       DEF PagerInv, Values, Steps, InWrite
<1>6. Values'
    BY <1>1, <1>4, <1>5, MoreTransactions DEF PagerInv, Values, files
<1>7. /\ Kept(p) /\ level'[p] = Reserved /\ reserved' = {p}
    BY <1>4, Locking DEF PagerInv, LockInv, Kept, Values
<1>8. Locked("locked", Reserved)
    BY DEF Locked, InCheck, Steps, InWrite, InRecovery, InFlush, Reserved, Unlocked
<1>9. Working("locked", m, jrnl', tx')
    <2>1. Working("reader", mem[p], jrnl, tx)
        BY <1>4 DEF PagerInv
    <2>2. mem[p].vers \in 0 .. tx /\ mem[p].dirty = {}
        BY <1>1, <2>1, PagerAssumption
           DEF Working, PagerFields, CacheOf, Content, InTransaction, InWrite, InFlush
    <2> QED
        BY <1>1, <1>2, <2>2, PagerAssumption DEF Working, InWrite, InFlush, InRollback
<1>10. "locked" \in InTransaction /\ jrnl' = jrnl
    BY <1>4 DEF InTransaction, InWrite, files
<1> QED
    BY <1>1, <1>5, <1>6, <1>7, <1>8, <1>9, <1>10, HandleStep

\* A step of the pager that has the journal, which leaves the locks alone.
LEMMA OwnerStep ==
    ASSUME PagerInv, LockInv', NEW p \in Handles, NEW m \in PagerFields(tx), NEW s \in Steps,
           mem' = [mem EXCEPT ![p] = m], Goto(p, s), UNCHANGED <<lockVars, tx>>,
           pc[p] \in Owning, Values',
           Locked(s, level[p]), s \in InTransaction <=> pc[p] \in InTransaction,
           Working(s, m, jrnl', tx)
    PROVE  PagerInv'
<1>1. /\ mem'[p] = m
      /\ pc' \in [Handles -> Steps] /\ pc'[p] = s
      /\ Kept(p) /\ tx' = tx
    BY DEF PagerInv, Values, Goto, lockVars, Kept
<1>2. UNCHANGED <<level, reserved>>
    BY DEF lockVars
<1>3. pc'[p] \in InTransaction <=> p \in reserved'
    BY <1>1, <1>2 DEF PagerInv, Placed
<1> QED
    BY <1>1, <1>2, <1>3, HandleStep

LEMMA ModifiedFields ==
    ASSUME PagerInv, NEW p \in Handles, NEW i \in Pages, NEW v \in 0 .. MaxTx \cup {None}
    PROVE  LET m == Modified(p, i, v) IN
           /\ m.vers = mem[p].vers /\ m.orig = mem[p].orig /\ m.commit = mem[p].commit
           /\ m.todo = mem[p].todo /\ m.dirty = mem[p].dirty \cup {i}
           /\ m.logged = IF ToLog(p, i) THEN mem[p].logged \cup {i} ELSE mem[p].logged
           /\ \A k \in Pages : m.cache[k] = IF k = i THEN v ELSE mem[p].cache[k]
           /\ m \in Fields0
<1> DEFINE log == IF ToLog(p, i) THEN mem[p].logged \cup {i} ELSE mem[p].logged
           c == [mem[p].cache EXCEPT ![i] = v]
           d == mem[p].dirty \cup {i}
<1>1. mem[p] \in PagerFields(tx)
    BY DEF PagerInv, Values
<1>2. log \in SUBSET Pages
    BY <1>1 DEF PagerFields, Fields0
<1> DEFINE m == Modified(p, i, v)
<1>3. m = [mem[p] EXCEPT !.cache = c, !.dirty = d, !.logged = log]
    BY <1>1 DEF Modified, PagerFields, Fields0
<1>4. /\ c \in [Pages -> 0 .. MaxTx \cup {None}] /\ d \in SUBSET Pages
      /\ \A k \in Pages : c[k] = IF k = i THEN v ELSE mem[p].cache[k]
    BY <1>1 DEF PagerFields, Fields0
<1> DEFINE n == [mem[p] EXCEPT !.cache = c, !.dirty = d, !.logged = log]
<1>5. /\ n.vers = mem[p].vers /\ n.orig = mem[p].orig /\ n.commit = mem[p].commit
      /\ n.todo = mem[p].todo /\ n.dirty = d /\ n.logged = log /\ n.cache = c
      /\ n \in Fields0
    <2> HIDE DEF log, c, d
    <2> QED
        BY <1>1, <1>2, <1>4 DEF PagerFields, Fields0
<1> HIDE DEF n, m
<1>6. m = n
    BY <1>3 DEF n
<1> QED
    BY <1>4, <1>5, <1>6 DEF m

\* The page a transaction changes: what it writes to the journal, and to its cache.
LEMMA ModifyingPage ==
    ASSUME PagerInv, NEW p \in Handles, NEW i \in Pages, NEW v \in Content(i, tx),
           v # None,
           pc[p] \in {"locked", "cachemod", "dbmod"}, LogPage(p, i)
    PROVE  LET m == Modified(p, i, v) IN
           /\ m \in PagerFields(tx)
           /\ m.vers = mem[p].vers /\ m.orig = mem[p].orig /\ m.commit = mem[p].commit
           /\ m.dirty = mem[p].dirty \cup {i}
           /\ \A k \in m.dirty : m.cache[k] # None
           /\ jrnl' \in JournalsOf(tx) /\ jrnl' # None
           /\ \A k \in m.logged : \E r \in DOMAIN jrnl'.recs : jrnl'.recs[r].page = k
<1> DEFINE log == IF ToLog(p, i) THEN mem[p].logged \cup {i} ELSE mem[p].logged
           m == Modified(p, i, v)
           j == IF pc[p] = "locked" THEN NewJournal(mem[p].orig) ELSE jrnl
           r == Record(i, Original(p, i), Part(j))
<1>1. mem[p] \in PagerFields(tx) /\ 1 \in Pages /\ v \in 0 .. MaxTx \cup {None}
    BY PagerAssumption DEF PagerInv, Values, Content, Pages
<1>2. Working(pc[p], mem[p], jrnl, tx) /\ mem[p].orig \in Pages
    BY DEF PagerInv, Working, InWrite
<1>3. /\ m.vers = mem[p].vers /\ m.orig = mem[p].orig /\ m.commit = mem[p].commit
      /\ m.todo = mem[p].todo /\ m.dirty = mem[p].dirty \cup {i} /\ m.logged = log
      /\ \A k \in Pages : m.cache[k] = IF k = i THEN v ELSE mem[p].cache[k]
      /\ m \in Fields0
    <2>1. v \in 0 .. MaxTx \cup {None}
        BY <1>1
    <2> HIDE DEF m, log
    <2>2. /\ m.vers = mem[p].vers /\ m.orig = mem[p].orig /\ m.commit = mem[p].commit
          /\ m.todo = mem[p].todo /\ m.dirty = mem[p].dirty \cup {i}
          /\ m.logged = IF ToLog(p, i) THEN mem[p].logged \cup {i} ELSE mem[p].logged
          /\ \A k \in Pages : m.cache[k] = IF k = i THEN v ELSE mem[p].cache[k]
          /\ m \in Fields0
        BY <2>1, ModifiedFields DEF m
    <2> QED
        BY <2>2 DEF log
<1> HIDE DEF m
<1>4. m \in PagerFields(tx)
    BY <1>1, <1>3 DEF PagerFields, CacheOf
<1>5. \A k \in m.dirty : m.cache[k] # None
    <2>1. mem[p].dirty \subseteq Pages
        BY <1>1 DEF PagerFields, Fields0
    <2> QED
        BY <1>2, <1>3, <2>1 DEF Working
<1>6. j \in JournalsOf(tx) /\ j # None
    <2>1. CASE pc[p] = "locked"
        <3>1. j = NewJournal(mem[p].orig)
            BY <2>1
        <3>2. /\ <<FALSE>> \in Seq(BOOLEAN) /\ <<{FALSE}>> \in Seq(SUBSET BOOLEAN)
              /\ Len(<<FALSE>>) = 1 /\ Len(<<{FALSE}>>) = 1 /\ <<FALSE>> # <<>>
              /\ \A S : <<>> \in Seq(S)
            BY EmptySeq
        <3>3. NewJournal(mem[p].orig) \in JournalsOf(tx)
            BY <1>2, <3>2 DEF NewJournal, JournalsOf, Journals
        <3> QED
            BY <3>1, <3>3, PagerAssumption DEF JournalsOf
    <2>2. CASE pc[p] # "locked"
        BY <1>2, <2>2 DEF PagerInv, Values, Working, InWrite
    <2> QED
        BY <2>1, <2>2
<1>7. /\ r \in Entries(tx) /\ r.page = i
    <2>1. Original(p, i) \in Content(i, tx) /\ Original(p, i) \in 0 .. MaxTx \cup {None}
        BY <1>1 DEF PagerInv, Values, Image, Original, PagerFields, Fields0, CacheOf, Content
    <2>2. Part(j) \in Nat
        BY <1>6, LenProperties DEF Part, JournalsOf, Journals
    <2> HIDE DEF j
    <2> QED
        BY <2>1, <2>2 DEF Record, Entries
<1> HIDE DEF r, j
<1>8. jrnl' = IF ToLog(p, i) THEN [j EXCEPT !.recs = Append(j.recs, r)] ELSE j
    BY DEF LogPage, r, j
<1>9. jrnl' \in JournalsOf(tx) /\ jrnl' # None
    <2>1. /\ Append(j.recs, r) \in Seq(Entries(tx))
        BY <1>6, <1>7, AppendProperties DEF JournalsOf
    <2>2. Entries(tx) \subseteq
              [page : Pages, image : 0 .. MaxTx \cup {None}, part : Nat, valid : BOOLEAN]
        BY DEF Entries
    <2>3. Append(j.recs, r) \in
              Seq([page : Pages, image : 0 .. MaxTx \cup {None}, part : Nat, valid : BOOLEAN])
        BY <2>1, <2>2, SeqMonotonic
    <2> QED
        BY <1>6, <1>8, <2>1, <2>3, PagerAssumption DEF JournalsOf, Journals
<1>10. \A k \in m.logged : \E q \in DOMAIN jrnl'.recs : jrnl'.recs[q].page = k
    <2>1. \A k \in mem[p].logged : \E q \in DOMAIN j.recs : j.recs[q].page = k
        BY <1>2 DEF Working, j, InWrite
    <2>2. CASE ~ToLog(p, i)
        BY <1>3, <1>8, <2>1, <2>2
    <2>3. CASE ToLog(p, i)
        <3>1. jrnl'.recs = Append(j.recs, r)
            BY <1>6, <1>8, <2>3 DEF JournalsOf, Journals
        <3>2. /\ \A q \in DOMAIN j.recs : q \in DOMAIN jrnl'.recs /\ jrnl'.recs[q] = j.recs[q]
              /\ Len(j.recs) + 1 \in DOMAIN jrnl'.recs /\ jrnl'.recs[Len(j.recs) + 1] = r
            BY <1>6, <1>7, <3>1, AppendProperties, LenProperties DEF JournalsOf
        <3> QED
            BY <1>3, <1>7, <2>1, <3>2
    <2> QED
        BY <2>2, <2>3
<1> QED
    BY <1>3, <1>4, <1>5, <1>9, <1>10 DEF m

LEMMA WritePageStep ==
    ASSUME PagerInv, LockInv', NEW p \in Handles, NEW i \in Pages, WritePage(p, i)
    PROVE  PagerInv'
<1> DEFINE m == Modified(p, i, tx)
           s == IF pc[p] = "locked" THEN "cachemod" ELSE pc[p]
<1>1. /\ pc[p] \in {"locked", "cachemod", "dbmod"} /\ i # 1 /\ LogPage(p, i)
      /\ mem' = [mem EXCEPT ![p] = m] /\ Goto(p, s)
      /\ UNCHANGED <<lockVars, db, dbMaybe, dead, tx>>
    BY DEF WritePage, Fields
<1>2. tx \in Content(i, tx) /\ tx # None
    BY <1>1, PagerAssumption DEF PagerInv, Values, Content
<1>3. /\ m \in PagerFields(tx)
      /\ m.vers = mem[p].vers /\ m.orig = mem[p].orig /\ m.commit = mem[p].commit
      /\ m.dirty = mem[p].dirty \cup {i}
      /\ \A k \in m.dirty : m.cache[k] # None
      /\ jrnl' \in JournalsOf(tx) /\ jrnl' # None
      /\ \A k \in m.logged : \E r \in DOMAIN jrnl'.recs : jrnl'.recs[r].page = k
    BY <1>1, <1>2, ModifyingPage
<1> HIDE DEF m
<1>4. Values'
    <2>1. mem' \in [Handles -> PagerFields(tx)]
        BY <1>1, <1>3 DEF PagerInv, Values
    <2> QED
        BY <1>1, <1>3, <2>1 DEF PagerInv, Values
<1>5. /\ s \in {"cachemod", "dbmod"} /\ s \in Steps /\ s \in InTransaction
      /\ pc[p] \in InTransaction /\ pc[p] \in Owning
    BY <1>1 DEF Steps, InTransaction, InWrite, Owning
<1>6. Locked(s, level[p])
    BY <1>1, <1>5 DEF PagerInv, Locked, InCheck, InWrite, InRecovery, InFlush
<1>7. Working(s, m, jrnl', tx)
    <2>1. Working(pc[p], mem[p], jrnl, tx)
        BY DEF PagerInv
    <2> HIDE DEF s
    <2> QED
        BY <1>1, <1>3, <1>5, <2>1 DEF Working, InTransaction, InWrite, InRollback, InFlush
<1> HIDE DEF s
<1> QED
    BY <1>1, <1>3, <1>4, <1>5, <1>6, <1>7, OwnerStep

LEMMA CommitStep ==
    ASSUME PagerInv, LockInv', NEW p \in Handles, CommitPhaseOne(p)
    PROVE  PagerInv'
<1> DEFINE v == mem[p].vers + 1
           w == Modified(p, 1, v)
           m == [w EXCEPT !.commit = TRUE]
<1>1. /\ pc[p] \in {"cachemod", "dbmod"} /\ LogPage(p, 1)
      /\ mem' = [mem EXCEPT ![p] = m] /\ Goto(p, "lock")
      /\ UNCHANGED <<lockVars, db, dbMaybe, dead, tx>>
    BY DEF CommitPhaseOne, Fields
<1>2. Working(pc[p], mem[p], jrnl, tx) /\ mem[p] \in PagerFields(tx) /\ tx \in 0 .. MaxTx
    BY DEF PagerInv, Values
<1>3. mem[p].vers \in 0 .. tx /\ mem[p].vers < tx
    BY <1>1, <1>2, PagerAssumption
       DEF Working, InTransaction, InWrite, PagerFields, CacheOf, Content
<1>4. v \in Content(1, tx) /\ v # None /\ 1 \in Pages
    BY <1>2, <1>3, PagerAssumption DEF Content, Pages
<1> HIDE DEF v
<1>5. /\ w \in PagerFields(tx)
      /\ w.vers = mem[p].vers /\ w.orig = mem[p].orig
      /\ \A k \in w.dirty : w.cache[k] # None
      /\ jrnl' \in JournalsOf(tx) /\ jrnl' # None
      /\ \A k \in w.logged : \E r \in DOMAIN jrnl'.recs : jrnl'.recs[r].page = k
    BY <1>1, <1>4, ModifyingPage
<1> HIDE DEF w
<1>6. /\ m \in PagerFields(tx) /\ m.vers = mem[p].vers /\ m.orig = mem[p].orig /\ m.commit
      /\ m.dirty = w.dirty /\ m.cache = w.cache /\ m.logged = w.logged
    BY <1>5 DEF PagerFields, Fields0
<1> HIDE DEF m
<1>7. Values'
    <2>1. mem' \in [Handles -> PagerFields(tx)]
        BY <1>1, <1>6 DEF PagerInv, Values
    <2> QED
        BY <1>1, <1>5, <2>1 DEF PagerInv, Values
<1>8. /\ "lock" \in Steps /\ "lock" \in InTransaction
      /\ pc[p] \in InTransaction /\ pc[p] \in Owning
    BY <1>1 DEF Steps, InTransaction, InWrite, Owning
<1>9. Locked("lock", level[p])
    BY <1>1, <1>8 DEF PagerInv, Locked, InCheck, InWrite, InRecovery, InFlush
<1>10. Working("lock", m, jrnl', tx)
    BY <1>1, <1>2, <1>5, <1>6 DEF Working, InTransaction, InWrite, InRollback, InFlush
<1> QED
    BY <1>1, <1>6, <1>7, <1>8, <1>9, <1>10, OwnerStep

\* An owner's step that changes the journal and nothing else of the values.
LEMMA JournalStep ==
    ASSUME PagerInv, LockInv', NEW p \in Handles, NEW s \in Steps,
           Goto(p, s), UNCHANGED <<lockVars, tx, mem, db, dbMaybe>>,
           pc[p] \in Owning, jrnl' \in JournalsOf(tx) \cup {None}, dead' \subseteq JournalsOf(tx),
           Locked(s, level[p]), s \in InTransaction <=> pc[p] \in InTransaction,
           Working(s, mem[p], jrnl', tx)
    PROVE  PagerInv'
<1>1. Values'
    BY DEF PagerInv, Values
<1>2. mem[p] \in PagerFields(tx) /\ mem' = [mem EXCEPT ![p] = mem[p]]
    BY DEF PagerInv, Values
<1> QED
    BY <1>1, <1>2, OwnerStep

LEMMA SyncedJournal ==
    ASSUME NEW n, jrnl \in JournalsOf(n), SyncJournal
    PROVE  /\ jrnl' \in JournalsOf(n) /\ jrnl'.recs = jrnl.recs /\ jrnl'.orig = jrnl.orig
           /\ jrnl'.magic = jrnl.magic /\ dead' = {}
<1> DEFINE synced == [s \in DOMAIN jrnl.magics |-> {jrnl.magic[s]}]
           k == Len(jrnl.recs)
<1>1. /\ jrnl \in Journals /\ jrnl.recs \in Seq(Entries(n))
      /\ jrnl.magic # <<>> /\ Len(jrnl.magics) = Len(jrnl.magic)
    BY DEF JournalsOf
<1>2. /\ jrnl.magic \in Seq(BOOLEAN) /\ jrnl.magics \in Seq(SUBSET BOOLEAN)
      /\ Len(jrnl.magic) \in Nat /\ k \in Nat
      /\ DOMAIN jrnl.magics = 1 .. Len(jrnl.magic)
      /\ \A s \in 1 .. Len(jrnl.magic) : jrnl.magic[s] \in BOOLEAN
    BY <1>1, LenProperties, ElementOfSeq DEF Journals
<1>3. synced \in Seq(SUBSET BOOLEAN) /\ Len(synced) = Len(jrnl.magic)
    <2>1. synced \in [1 .. Len(jrnl.magic) -> SUBSET BOOLEAN]
        BY <1>2
    <2> QED
        BY <1>2, <2>1, SeqDef, LenProperties
<1>4. jrnl' = [jrnl EXCEPT !.magics = synced, !.safe = k] /\ dead' = {}
    BY DEF SyncJournal
<1> HIDE DEF synced, k
<1> QED
    BY <1>1, <1>2, <1>3, <1>4 DEF JournalsOf, Journals

LEMMA SyncRecordsStep ==
    ASSUME PagerInv, LockInv', NEW p \in Handles, SyncRecords(p)
    PROVE  PagerInv'
<1>1. /\ pc[p] = "sync" /\ SyncJournal /\ Goto(p, "header")
      /\ UNCHANGED <<lockVars, db, dbMaybe, mem, tx>>
    BY DEF SyncRecords
<1>2. Working(pc[p], mem[p], jrnl, tx) /\ jrnl \in JournalsOf(tx)
    BY <1>1 DEF PagerInv, Values, Working, InWrite, InFlush
<1>3. /\ jrnl' \in JournalsOf(tx) /\ jrnl'.recs = jrnl.recs /\ jrnl' # None
      /\ dead' = {}
    BY <1>1, <1>2, SyncedJournal, PagerAssumption DEF JournalsOf
<1>4. Locked("header", level[p])
    BY <1>1 DEF PagerInv, Locked, InCheck, InWrite, InRecovery, InFlush, Steps
<1>5. Working("header", mem[p], jrnl', tx)
    BY <1>1, <1>2, <1>3 DEF Working, InTransaction, InWrite, InRollback, InFlush
<1>6. /\ "header" \in Steps /\ "header" \in InTransaction
      /\ pc[p] \in InTransaction /\ pc[p] \in Owning
    BY <1>1 DEF Steps, InTransaction, InWrite, InFlush, Owning
<1> QED
    BY <1>1, <1>3, <1>4, <1>5, <1>6, JournalStep

\* The last part of a journal.
LEMMA LastPart ==
    ASSUME NEW n, NEW j \in JournalsOf(n)
    PROVE  /\ Part(j) \in Nat \ {0} /\ Part(j) \in 1 .. Len(j.magic)
           /\ Part(j) \in DOMAIN j.magic /\ Part(j) \in DOMAIN j.magics
           /\ j.magic \in Seq(BOOLEAN) /\ j.magics \in Seq(SUBSET BOOLEAN)
           /\ DOMAIN j.magic = 1 .. Len(j.magic) /\ DOMAIN j.magics = 1 .. Len(j.magic)
BY EmptySeq, LenProperties DEF JournalsOf, Journals, Part

LEMMA WriteHeaderStep ==
    ASSUME PagerInv, LockInv', NEW p \in Handles, WriteHeader(p)
    PROVE  PagerInv'
<1> DEFINE magic == [jrnl.magic EXCEPT ![Part(jrnl)] = TRUE]
           last == jrnl.magics[Part(jrnl)] \cup {TRUE}
           magics == [jrnl.magics EXCEPT ![Part(jrnl)] = last]
<1>1. /\ pc[p] = "header" /\ Goto(p, "resync")
      /\ UNCHANGED <<lockVars, db, dbMaybe, dead, mem, tx>>
    BY DEF WriteHeader
<1>2. Working(pc[p], mem[p], jrnl, tx) /\ jrnl \in JournalsOf(tx)
    BY <1>1 DEF PagerInv, Values, Working, InWrite, InFlush
<1>3. jrnl' = [jrnl EXCEPT !.magic = magic, !.magics = magics]
    BY <1>2 DEF WriteHeader, JournalsOf, Journals
<1>4. /\ magic \in Seq(BOOLEAN) /\ Len(magic) = Len(jrnl.magic)
      /\ magics \in Seq(SUBSET BOOLEAN) /\ Len(magics) = Len(jrnl.magics)
    <2>1. last \in SUBSET BOOLEAN
        BY <1>2, LastPart, ElementOfSeq DEF JournalsOf
    <2>2. /\ Part(jrnl) \in 1 .. Len(jrnl.magic) /\ Part(jrnl) \in 1 .. Len(jrnl.magics)
          /\ jrnl.magic \in Seq(BOOLEAN) /\ jrnl.magics \in Seq(SUBSET BOOLEAN)
        BY <1>2, LastPart DEF JournalsOf
    <2>3. magic \in Seq(BOOLEAN) /\ Len(magic) = Len(jrnl.magic)
        BY <2>2, ExceptSeq
    <2>4. magics \in Seq(SUBSET BOOLEAN) /\ Len(magics) = Len(jrnl.magics)
        <3> HIDE DEF last
        <3> QED
            BY <2>1, <2>2, ExceptSeq
    <2> QED
        BY <2>3, <2>4
<1>5. magic # <<>>
    BY <1>2, <1>4, LastPart, EmptySeq
<1> HIDE DEF magic, magics
<1>6. jrnl' \in JournalsOf(tx) /\ jrnl'.recs = jrnl.recs /\ jrnl' # None
    BY <1>2, <1>3, <1>4, <1>5, PagerAssumption DEF JournalsOf, Journals
<1>7. Locked("resync", level[p])
    BY <1>1 DEF PagerInv, Locked, InCheck, InWrite, InRecovery, InFlush, Steps
<1>8. Working("resync", mem[p], jrnl', tx)
    BY <1>1, <1>2, <1>6 DEF Working, InTransaction, InWrite, InRollback, InFlush
<1>9. /\ "resync" \in Steps /\ "resync" \in InTransaction
      /\ pc[p] \in InTransaction /\ pc[p] \in Owning
    BY <1>1 DEF Steps, InTransaction, InWrite, InFlush, Owning
<1>10. dead' \subseteq JournalsOf(tx)
    BY <1>1 DEF PagerInv, Values
<1> QED
    BY <1>1, <1>6, <1>7, <1>8, <1>9, <1>10, JournalStep

LEMMA SyncHeaderStep ==
    ASSUME PagerInv, LockInv', NEW p \in Handles, SyncHeader(p)
    PROVE  PagerInv'
<1> DEFINE magics == [jrnl.magics EXCEPT ![Part(jrnl)] = {TRUE}]
           safe == [jrnl EXCEPT !.magics = magics]
           more == Append(jrnl.magic, FALSE)
           moreMagics == Append(magics, {FALSE})
           s == IF mem[p].commit THEN "store" ELSE "dbmod"
<1>1. /\ pc[p] = "resync" /\ Goto(p, s)
      /\ UNCHANGED <<lockVars, db, dbMaybe, dead, mem, tx>>
    BY DEF SyncHeader, AfterSync
<1>2. Working(pc[p], mem[p], jrnl, tx) /\ jrnl \in JournalsOf(tx)
    BY <1>1 DEF PagerInv, Values, Working, InWrite, InFlush
<1>3. /\ magics \in Seq(SUBSET BOOLEAN) /\ Len(magics) = Len(jrnl.magics)
    <2>1. /\ {TRUE} \in SUBSET BOOLEAN /\ Part(jrnl) \in 1 .. Len(jrnl.magics)
          /\ jrnl.magics \in Seq(SUBSET BOOLEAN)
        BY <1>2, LastPart DEF JournalsOf
    <2> QED
        BY <2>1, ExceptSeq
<1> HIDE DEF magics
<1>4. safe \in JournalsOf(tx) /\ safe.recs = jrnl.recs /\ safe.magic = jrnl.magic
      /\ safe.magics = magics
    BY <1>2, <1>3 DEF JournalsOf, Journals
<1>5. jrnl' = IF mem[p].commit THEN safe
              ELSE [safe EXCEPT !.magic = more, !.magics = moreMagics]
    BY <1>2, <1>4 DEF SyncHeader, magics, JournalsOf, Journals
<1>6. /\ more \in Seq(BOOLEAN) /\ Len(more) = Len(jrnl.magic) + 1 /\ more # <<>>
      /\ moreMagics \in Seq(SUBSET BOOLEAN) /\ Len(moreMagics) = Len(magics) + 1
    <2>1. jrnl.magic \in Seq(BOOLEAN) /\ FALSE \in BOOLEAN /\ {FALSE} \in SUBSET BOOLEAN
        BY <1>2, LastPart
    <2>2. more \in Seq(BOOLEAN) /\ Len(more) = Len(jrnl.magic) + 1 /\ more # <<>>
        BY <2>1, AppendProperties
    <2>3. moreMagics \in Seq(SUBSET BOOLEAN) /\ Len(moreMagics) = Len(magics) + 1
        BY <1>3, <2>1, AppendProperties
    <2> QED
        BY <2>2, <2>3
<1> HIDE DEF safe, more, moreMagics
<1>7. jrnl' \in JournalsOf(tx) /\ jrnl'.recs = jrnl.recs /\ jrnl' # None
    <2>1. Len(jrnl.magics) = Len(jrnl.magic)
        BY <1>2 DEF JournalsOf
    <2> QED
        BY <1>3, <1>4, <1>5, <1>6, <2>1, PagerAssumption DEF JournalsOf, Journals
<1>8. s \in {"store", "dbmod"}
    OBVIOUS
<1>9. Locked(s, level[p])
    BY <1>1, <1>8 DEF PagerInv, Locked, InCheck, InWrite, InRecovery, InFlush, Steps, Reserved,
                       Exclusive, Unlocked
<1>10. Working(s, mem[p], jrnl', tx)
    BY <1>1, <1>2, <1>7, <1>8 DEF Working, InTransaction, InWrite, InRollback, InFlush
<1>11. /\ s \in Steps /\ s \in InTransaction
       /\ pc[p] \in InTransaction /\ pc[p] \in Owning
    BY <1>1, <1>8 DEF Steps, InTransaction, InWrite, InFlush, Owning
<1>12. dead' \subseteq JournalsOf(tx)
    BY <1>1 DEF PagerInv, Values
<1> HIDE DEF s
<1> QED
    BY <1>1, <1>7, <1>9, <1>10, <1>11, <1>12, JournalStep

\* Without its journal a transaction is over.
LEMMA EndTransactionStep ==
    ASSUME PagerInv, LockInv', NEW p \in Handles, EndTransaction(p)
    PROVE  PagerInv'
<1> DEFINE s == IF pc[p] = "replayed" THEN "rest" ELSE "leave"
<1>1. /\ pc[p] \in {"finished", "undone", "replayed"} /\ Goto(p, s)
      /\ UNCHANGED <<lockVars, db, dbMaybe, mem, tx>>
      /\ dead' = dead \cup {jrnl} /\ jrnl' = None
    BY DEF EndTransaction, DeleteJournal
<1>2. Working(pc[p], mem[p], jrnl, tx) /\ jrnl \in JournalsOf(tx)
    BY <1>1 DEF PagerInv, Values, Working, InWrite, InFlush, InRollback
<1>3. Locked(s, level[p])
    BY <1>1 DEF PagerInv, Locked, InCheck, InWrite, InRecovery, InFlush, Steps
<1>4. Working(s, mem[p], jrnl', tx)
    BY <1>1, <1>2 DEF Working, InTransaction, InWrite, InRollback, InFlush
<1>5. /\ s \in Steps /\ (s \in InTransaction <=> pc[p] \in InTransaction)
      /\ pc[p] \in Owning
    BY <1>1 DEF Steps, InTransaction, InWrite, InFlush, InRollback, InRecovery, Owning
<1>6. dead' \subseteq JournalsOf(tx)
    BY <1>1, <1>2 DEF PagerInv, Values
<1> HIDE DEF s
<1> QED
    BY <1>1, <1>3, <1>4, <1>5, <1>6, JournalStep

\* A page that is stored may be on the disk from now on.
LEMMA Storing ==
    ASSUME Values, NEW i \in Pages, NEW v \in Content(i, tx), v \in 0 .. MaxTx \cup {None},
           Store(i, v), UNCHANGED <<jrnl, dead, tx>>, mem' \in [Handles -> PagerFields(tx)]
    PROVE  Values'
<1>1. /\ db' \in Image
      /\ \A k \in Pages : db'[k] = IF k = i THEN v ELSE db[k]
      /\ dbMaybe' \in [Pages -> SUBSET (0 .. MaxTx \cup {None})]
      /\ \A k \in Pages : dbMaybe'[k] = IF k = i THEN dbMaybe[i] \cup {v} ELSE dbMaybe[k]
    BY DEF Values, Store, Image
<1>2. \A k \in Pages : db'[k] \in dbMaybe'[k] /\ dbMaybe'[k] \subseteq Content(k, tx)
    BY <1>1 DEF Values
<1> QED
    BY <1>1, <1>2 DEF Values

LEMMA StorePageStep ==
    ASSUME PagerInv, LockInv', NEW p \in Handles, NEW i \in Pages, StorePage(p, i)
    PROVE  PagerInv'
<1> DEFINE vers == IF i = 1 THEN mem[p].cache[1] ELSE mem[p].vers
           dirty == mem[p].dirty \ {i}
           m == [mem[p] EXCEPT !.dirty = dirty, !.vers = vers]
<1>1. /\ pc[p] \in {"store", "dbmod"} /\ i \in mem[p].dirty /\ Store(i, mem[p].cache[i])
      /\ mem' = [mem EXCEPT ![p] = m]
      /\ UNCHANGED <<lockVars, jrnl, dead, pc, tx>>
    BY DEF StorePage, Fields
<1>2. /\ Working(pc[p], mem[p], jrnl, tx) /\ mem[p] \in PagerFields(tx)
      /\ mem[p].cache[i] # None /\ mem[p].cache[i] \in 0 .. MaxTx
    <2>1. Working(pc[p], mem[p], jrnl, tx) /\ mem[p] \in PagerFields(tx)
        BY DEF PagerInv, Values
    <2>2. mem[p].cache[i] # None
        BY <1>1, <2>1 DEF Working
    <2>3. mem[p].cache[i] \in 0 .. MaxTx \cup {None}
        BY <2>1 DEF PagerFields, Fields0
    <2> QED
        BY <2>1, <2>2, <2>3
<1>3. mem[p].cache[i] \in Content(i, tx)
    BY <1>2 DEF PagerFields, CacheOf, Content
<1>4. /\ dirty \in SUBSET Pages /\ vers \in 0 .. MaxTx \cup {None}
      /\ vers \in CacheOf(1, tx) /\ (vers # mem[p].vers => 1 \in mem[p].dirty)
      /\ vers # None
    BY <1>1, <1>2 DEF PagerFields, Fields0, Working, InTransaction, InWrite, InFlush
<1>5. /\ m.dirty = dirty /\ m.vers = vers /\ m \in Fields0
      /\ m.cache = mem[p].cache /\ m.todo = mem[p].todo /\ m.logged = mem[p].logged
      /\ m.orig = mem[p].orig /\ m.commit = mem[p].commit
    <2> HIDE DEF vers, dirty
    <2> QED
        BY <1>2, <1>4 DEF PagerFields, Fields0
<1> HIDE DEF m
<1>6. m \in PagerFields(tx)
    <2> HIDE DEF vers
    <2> QED
        BY <1>2, <1>4, <1>5 DEF PagerFields
<1>7. Values'
    <2>1. mem' \in [Handles -> PagerFields(tx)]
        BY <1>1, <1>6 DEF PagerInv, Values
    <2> QED
        BY <1>1, <1>2, <1>3, <2>1, Storing DEF PagerInv
<1>8. /\ Locked(pc[p], level[p]) /\ pc[p] \in Steps /\ pc[p] \in Owning /\ Goto(p, pc[p])
    BY <1>1 DEF PagerInv, Owning, InWrite, InFlush, Goto
<1>9. Working(pc[p], m, jrnl', tx)
    <2>1. /\ \A k \in m.dirty : k \in mem[p].dirty
          /\ 1 \in mem[p].dirty => mem[p].commit
        BY <1>1, <1>2, <1>5 DEF Working, InWrite, InFlush
    <2> HIDE DEF dirty, vers
    <2> QED
        BY <1>1, <1>2, <1>4, <1>5, <2>1 DEF Working, InTransaction, InWrite, InFlush, InRollback
<1> QED
    BY <1>1, <1>6, <1>7, <1>8, <1>9, OwnerStep

\* fsync of the database file
LEMMA SyncingDb ==
    ASSUME Values, SyncDb, UNCHANGED <<jrnl, dead, tx, mem>>
    PROVE  Values'
BY DEF Values, SyncDb, Image

LEMMA SyncedStep ==
    ASSUME PagerInv, LockInv', NEW p \in Handles, SyncStored(p) \/ EndPlayBack(p)
    PROVE  PagerInv'
<1> DEFINE s == IF pc[p] = "store" THEN "finished"
                ELSE IF pc[p] = "undo" THEN "undone" ELSE "replayed"
<1>1. /\ pc[p] \in {"store", "replay", "undo"} /\ Goto(p, s) /\ SyncDb
      /\ pc[p] = "store" => mem[p].dirty = {}
      /\ UNCHANGED <<lockVars, jrnl, dead, mem, tx>>
    BY DEF SyncStored, EndPlayBack
<1>2. /\ Working(pc[p], mem[p], jrnl, tx) /\ mem[p] \in PagerFields(tx)
      /\ mem' = [mem EXCEPT ![p] = mem[p]]
    BY <1>1 DEF PagerInv, Values
<1>3. Values'
    BY <1>1, SyncingDb DEF PagerInv
<1>4. Locked(s, level[p])
    BY <1>1 DEF PagerInv, Locked, InCheck, InWrite, InRecovery, InFlush, InRollback, Steps
<1>5. Working(s, mem[p], jrnl', tx)
    BY <1>1, <1>2 DEF Working, InTransaction, InWrite, InRollback, InFlush
<1>6. /\ s \in Steps /\ (s \in InTransaction <=> pc[p] \in InTransaction)
      /\ pc[p] \in Owning
    BY <1>1 DEF Steps, InTransaction, InWrite, InFlush, InRollback, InRecovery, Owning
<1> HIDE DEF s
<1> QED
    BY <1>1, <1>2, <1>3, <1>4, <1>5, <1>6, OwnerStep

----------------------------------------------------------------------------
(* Playing a journal back *)

LEMMA LeastExists ==
    ASSUME NEW S \in SUBSET Nat, S # {}
    PROVE  Min(S) \in S /\ \A k \in S : Min(S) <= k
<1>1. \E x \in S : \A y \in S : ~(<<y, x>> \in OpToRel(<, Nat))
    BY WFMin, NatLessThanWellFounded, Zenon
<1>2. \A x, y \in Nat : y < x => <<y, x>> \in OpToRel(<, Nat)
    BY Zenon DEF OpToRel
<1>3. \E x \in S : \A y \in S : x <= y
    <2>1. PICK x \in S : \A y \in S : ~(<<y, x>> \in OpToRel(<, Nat))
        BY <1>1
    <2>2. \A y \in S : ~(y < x)
        BY <1>2, <2>1
    <2> QED
        BY <2>2
<1> QED
    BY <1>3 DEF Min

\* What is played back are the first records of the journal.
LEMMA PlayedRecords ==
    ASSUME NEW n, NEW j \in JournalsOf(n)
    PROVE  /\ Playable(j) \in Seq(Entries(n))
           /\ \E k \in 0 .. Len(j.recs) : Playable(j) = SubSeq(j.recs, 1, k)
<1> DEFINE ends == {r \in DOMAIN j.recs : ~(j.recs[r].valid /\ j.magic[j.recs[r].part])}
<1>1. /\ j.recs \in Seq(Entries(n)) /\ DOMAIN j.recs = 1 .. Len(j.recs)
      /\ Len(j.recs) \in Nat
      /\ \A r \in 1 .. Len(j.recs) : j.recs[r] \in Entries(n)
    BY LenProperties, ElementOfSeq DEF JournalsOf
<1>2. CASE ends = {}
    BY <1>1, <1>2, SubSeqFull DEF Playable
<1>3. CASE ends # {}
    <2> DEFINE k == Min(ends) - 1
    <2>1. ends \in SUBSET Nat /\ ends \subseteq 1 .. Len(j.recs)
        BY <1>1
    <2> HIDE DEF ends
    <2>2. Min(ends) \in 1 .. Len(j.recs)
        BY <1>3, <2>1, LeastExists
    <2>3. k \in 0 .. Len(j.recs)
        BY <1>1, <2>2
    <2>4. Playable(j) = SubSeq(j.recs, 1, k)
        BY <1>3 DEF Playable, ends
    <2> HIDE DEF k
    <2>5. SubSeq(j.recs, 1, k) \in Seq(Entries(n))
        BY <1>1, <2>3, SubSeqProperties
    <2> QED
        BY <2>3, <2>4, <2>5
<1> QED
    BY <1>2, <1>3

LEMMA Truncating ==
    ASSUME Values, NEW n \in Pages, Truncate(n), UNCHANGED tx,
           jrnl' \in JournalsOf(tx) \cup {None}, dead' \subseteq JournalsOf(tx),
           mem' \in [Handles -> PagerFields(tx)]
    PROVE  Values'
<1>1. \A i \in Pages : i > n => i # 1
    BY PagerAssumption DEF Pages
<1>2. /\ db' \in Image
      /\ \A i \in Pages : db'[i] = IF i > n THEN None ELSE db[i]
      /\ dbMaybe' \in [Pages -> SUBSET (0 .. MaxTx \cup {None})]
      /\ \A i \in Pages : dbMaybe'[i] = IF i > n THEN dbMaybe[i] \cup {None} ELSE dbMaybe[i]
    BY DEF Values, Truncate, Image
<1>3. \A i \in Pages : db'[i] \in dbMaybe'[i] /\ dbMaybe'[i] \subseteq Content(i, tx)
    BY <1>1, <1>2 DEF Values, Content
<1> QED
    BY <1>2, <1>3 DEF Values

LEMMA PlayBackStep ==
    ASSUME PagerInv, LockInv', NEW p \in Handles, PlayBack(p)
    PROVE  PagerInv'
<1> DEFINE todo == Tail(mem[p].todo)
           m == [mem[p] EXCEPT !.todo = todo]
           r == Head(mem[p].todo)
<1>1. /\ pc[p] \in {"replay", "undo"} /\ mem[p].todo # <<>> /\ Store(r.page, r.image)
      /\ mem' = [mem EXCEPT ![p] = m]
      /\ UNCHANGED <<lockVars, jrnl, dead, pc, tx>>
    BY DEF PlayBack, Fields, PagerInv, Values, PagerFields, Fields0
<1>2. Working(pc[p], mem[p], jrnl, tx) /\ mem[p] \in PagerFields(tx) /\ tx \in 0 .. MaxTx
    BY DEF PagerInv, Values
<1>3. r \in Entries(tx) /\ todo \in Seq(Entries(tx))
    BY <1>1, <1>2, HeadTailProperties DEF PagerFields
<1>4. todo \in Seq(Entries(MaxTx))
    <2>1. Entries(tx) \subseteq Entries(MaxTx)
        BY <1>2, MoreTransactions, PagerAssumption
    <2> HIDE DEF todo
    <2> QED
        BY <1>3, <2>1, SeqMonotonic
<1> HIDE DEF r, todo
<1>5. /\ m \in PagerFields(tx) /\ m.vers = mem[p].vers /\ m.dirty = mem[p].dirty
      /\ m.cache = mem[p].cache /\ m.orig = mem[p].orig /\ m.commit = mem[p].commit
      /\ m.logged = mem[p].logged
    BY <1>2, <1>3, <1>4 DEF PagerFields, Fields0
<1> HIDE DEF m
<1>6. Values'
    <2>1. mem' \in [Handles -> PagerFields(tx)]
        BY <1>1, <1>5 DEF PagerInv, Values
    <2>2. r.page \in Pages /\ r.image \in Content(r.page, tx) /\ r.image \in 0 .. MaxTx \cup {None}
        BY <1>3 DEF Entries
    <2> QED
        BY <1>1, <2>1, <2>2, Storing DEF PagerInv
<1>7. Locked(pc[p], level[p]) /\ pc[p] \in Steps /\ pc[p] \in Owning /\ Goto(p, pc[p])
    BY <1>1 DEF PagerInv, Owning, InRollback, InRecovery, Goto
<1>8. Working(pc[p], m, jrnl', tx)
    BY <1>1, <1>2, <1>5 DEF Working
<1> QED
    BY <1>1, <1>5, <1>6, <1>7, <1>8, OwnerStep

LEMMA RecoverStep ==
    ASSUME PagerInv, LockInv', NEW p \in Handles, Recover(p)
    PROVE  PagerInv'
<1>1. pc[p] = "recover" /\ UNCHANGED tx
    BY DEF Recover
<1>2. Working(pc[p], mem[p], jrnl, tx) /\ mem[p] \in PagerFields(tx) /\ tx \in 0 .. MaxTx
    BY DEF PagerInv, Values
<1>3. CASE jrnl = None
    <2>1. /\ Downgrade(p) /\ pc' = [pc EXCEPT ![p] = "validate"] /\ UNCHANGED <<files, mem>>
        BY <1>3 DEF Recover, Goto
    <2>2. Kept(p) /\ level'[p] = Shared /\ p \notin reserved'
        BY <2>1, Locking DEF PagerInv, LockInv, Kept, Values
    <2>3. pc' \in [Handles -> Steps] /\ pc'[p] = "validate"
        BY <2>1 DEF PagerInv, Steps, InCheck
    <2>4. Values'
        BY <1>1, <2>1, SameValues DEF PagerInv, Values
    <2>5. Locked("validate", Shared)
        BY DEF Locked, InCheck, InWrite, InRecovery, InFlush, Steps, Shared, Unlocked
    <2>6. Working("validate", mem[p], jrnl, tx)
        BY <1>1, <1>2 DEF Working, InTransaction, InWrite, InRollback, InFlush
    <2>7. "validate" \notin InTransaction /\ jrnl' = jrnl /\ mem' = mem
        BY <2>1 DEF InTransaction, InWrite, InRollback, InFlush, files
    <2> QED
        BY <1>1, <2>2, <2>3, <2>4, <2>5, <2>6, <2>7, HandleStep
<1>4. CASE jrnl # None
    <2> DEFINE recs == Playable(jrnl)
               cache == IF recs = <<>> THEN mem[p].cache ELSE NoPages
               m == [mem[p] EXCEPT !.todo = recs, !.cache = cache]
    <2>1. /\ SyncJournal /\ Goto(p, "replay") /\ UNCHANGED lockVars
          /\ IF Hot(jrnl) THEN Truncate(jrnl.orig) ELSE UNCHANGED <<db, dbMaybe>>
          /\ mem' = [mem EXCEPT ![p] = m]
        BY <1>2, <1>4 DEF Recover, Fields, PagerFields, Fields0
    <2>2. jrnl \in JournalsOf(tx) /\ jrnl.orig \in Pages
        BY <1>4 DEF PagerInv, Values, JournalsOf, Journals
    <2>3. /\ jrnl' \in JournalsOf(tx) /\ jrnl' # None /\ dead' = {}
        BY <2>1, <2>2, SyncedJournal, PagerAssumption DEF JournalsOf
    <2>4. /\ recs \in Seq(Entries(tx)) /\ recs \in Seq(Entries(MaxTx))
        <3>1. Entries(tx) \subseteq Entries(MaxTx) /\ recs \in Seq(Entries(tx))
            BY <1>2, <2>2, MoreTransactions, PlayedRecords, PagerAssumption
        <3> HIDE DEF recs
        <3> QED
            BY <3>1, SeqMonotonic
    <2>5. cache \in [Pages -> 0 .. MaxTx \cup {None}] /\ cache[1] \in CacheOf(1, tx)
        <3>1. 1 \in Pages
            BY PagerAssumption DEF Pages
        <3> QED
            BY <1>2, <3>1 DEF PagerFields, Fields0, NoPages, CacheOf
    <2> HIDE DEF recs, cache
    <2>6. /\ m \in PagerFields(tx) /\ m.vers = mem[p].vers /\ m.dirty = mem[p].dirty
          /\ m.orig = mem[p].orig /\ m.commit = mem[p].commit /\ m.logged = mem[p].logged
        BY <1>2, <2>4, <2>5 DEF PagerFields, Fields0
    <2> HIDE DEF m
    <2>7. Values'
        <3>1. mem' \in [Handles -> PagerFields(tx)]
            BY <2>1, <2>6 DEF PagerInv, Values
        <3>2. CASE Hot(jrnl)
            BY <1>1, <2>1, <2>2, <2>3, <3>1, <3>2, Truncating DEF PagerInv
        <3>3. CASE ~Hot(jrnl)
            BY <1>1, <2>1, <2>3, <3>1, <3>3 DEF PagerInv, Values
        <3> QED
            BY <3>2, <3>3
    <2>8. Locked("replay", level[p])
        BY <1>1 DEF PagerInv, Locked, InCheck, InWrite, InRecovery, InFlush, Steps
    <2>9. Working("replay", m, jrnl', tx)
        <3>1. mem[p].dirty = {}
            BY <1>1, <1>2 DEF Working, InWrite, InFlush
        <3> QED
            BY <2>3, <2>6, <3>1 DEF Working, InTransaction, InWrite, InRollback, InFlush
    <2>10. /\ "replay" \in Steps /\ ("replay" \in InTransaction <=> pc[p] \in InTransaction)
           /\ pc[p] \in Owning
        BY <1>1 DEF Steps, InTransaction, InWrite, InFlush, InRollback, InRecovery, Owning
    <2> QED
        BY <1>1, <2>1, <2>6, <2>7, <2>8, <2>9, <2>10, OwnerStep
<1> QED
    BY <1>3, <1>4

\* A journal has the original of every page that is logged.
LEMMA OriginalLogged ==
    ASSUME NEW n, NEW j \in JournalsOf(n), NEW k \in Pages,
           \E r \in DOMAIN j.recs : j.recs[r].page = k
    PROVE  j.recs[CHOOSE r \in DOMAIN j.recs : j.recs[r].page = k].image
               \in Content(k, n) \cap (0 .. MaxTx \cup {None})
<1> DEFINE q == CHOOSE r \in DOMAIN j.recs : j.recs[r].page = k
<1>1. q \in DOMAIN j.recs /\ j.recs[q].page = k
    OBVIOUS
<1>2. j.recs[q] \in Entries(n)
    BY <1>1, LenProperties, ElementOfSeq DEF JournalsOf
<1> HIDE DEF q
<1>3. j.recs[q].image \in Content(k, n) /\ j.recs[q].image \in 0 .. MaxTx \cup {None}
    BY <1>1, <1>2 DEF Entries
<1> QED
    BY <1>3 DEF q

LEMMA RollbackStep ==
    ASSUME PagerInv, LockInv', NEW p \in Handles, Rollback(p)
    PROVE  PagerInv'
<1> DEFINE was(k) == jrnl.recs[CHOOSE r \in DOMAIN jrnl.recs : jrnl.recs[r].page = k].image
           cache == [k \in Pages |->
                        IF k > mem[p].orig \/ mem[p].cache[k] = None THEN None
                        ELSE IF k \in mem[p].logged THEN was(k) ELSE mem[p].cache[k]]
           vers == IF 1 \in mem[p].logged THEN was(1) ELSE mem[p].vers
           todo == IF Hot(jrnl) THEN Playable(jrnl) ELSE <<>>
           m == [mem[p] EXCEPT !.cache = cache, !.vers = vers, !.dirty = {}, !.todo = todo]
           s == IF Hot(jrnl) THEN "undo" ELSE "undone"
<1>1. /\ pc[p] \in {"cachemod", "lock", "dbmod", "finished"}
      /\ Goto(p, s)
      /\ IF Hot(jrnl) THEN Truncate(mem[p].orig) ELSE UNCHANGED <<db, dbMaybe>>
      /\ UNCHANGED <<lockVars, jrnl, dead, tx>>
    BY DEF Rollback
<1>2. /\ Working(pc[p], mem[p], jrnl, tx) /\ mem[p] \in PagerFields(tx) /\ tx \in 0 .. MaxTx
      /\ jrnl \in JournalsOf(tx) /\ mem[p].orig \in Pages /\ mem[p].vers # None
      /\ jrnl # None /\ 1 \in Pages
    BY <1>1, PagerAssumption
       DEF PagerInv, Values, Working, InTransaction, InWrite, InFlush, Pages
<1>3. mem' = [mem EXCEPT ![p] = m]
    BY <1>2 DEF Rollback, Fields, PagerFields, Fields0
<1>4. \A k \in mem[p].logged : k \in Pages /\ was(k) \in Content(k, tx)
                               /\ was(k) \in 0 .. MaxTx \cup {None}
    <2>1. \A k \in mem[p].logged : k \in Pages
        BY <1>2 DEF PagerFields, Fields0
    <2>2. \A k \in mem[p].logged : \E r \in DOMAIN jrnl.recs : jrnl.recs[r].page = k
        BY <1>1, <1>2 DEF Working, InWrite, InFlush
    <2>3. ASSUME NEW k \in mem[p].logged
          PROVE  was(k) \in Content(k, tx) /\ was(k) \in 0 .. MaxTx \cup {None}
        <3>1. k \in Pages /\ \E r \in DOMAIN jrnl.recs : jrnl.recs[r].page = k
            BY <2>1, <2>2
        <3>2. was(k) \in Content(k, tx) \cap (0 .. MaxTx \cup {None})
            BY <1>2, <3>1, OriginalLogged
        <3> HIDE DEF was
        <3> QED
            BY <3>2
    <2> QED
        BY <2>1, <2>3
<1>5. /\ todo \in Seq(Entries(tx)) /\ todo \in Seq(Entries(MaxTx))
    <2>1. Entries(tx) \subseteq Entries(MaxTx) /\ todo \in Seq(Entries(tx))
        BY <1>2, MoreTransactions, PlayedRecords, EmptySeq, PagerAssumption
    <2> HIDE DEF todo
    <2> QED
        BY <2>1, SeqMonotonic
<1> HIDE DEF was, todo
<1>6. /\ cache \in [Pages -> 0 .. MaxTx \cup {None}] /\ cache[1] \in CacheOf(1, tx)
      /\ vers \in 0 .. MaxTx \cup {None} /\ vers \in CacheOf(1, tx) /\ vers # None
    BY <1>2, <1>4, PagerAssumption DEF PagerFields, Fields0, CacheOf, Content
<1> HIDE DEF cache, vers
<1>7. /\ m \in PagerFields(tx) /\ m.vers = vers /\ m.dirty = {} /\ m.cache = cache
      /\ m.orig = mem[p].orig /\ m.commit = mem[p].commit /\ m.logged = mem[p].logged
    <2>1. {} \in SUBSET Pages
        OBVIOUS
    <2> QED
        BY <1>2, <1>5, <1>6, <2>1 DEF PagerFields, Fields0
<1> HIDE DEF m
<1>8. Values'
    <2>1. mem' \in [Handles -> PagerFields(tx)]
        BY <1>3, <1>7 DEF PagerInv, Values
    <2>2. jrnl' \in JournalsOf(tx) \cup {None} /\ dead' \subseteq JournalsOf(tx)
        BY <1>1, <1>2 DEF PagerInv, Values
    <2>3. CASE Hot(jrnl)
        BY <1>1, <1>2, <2>1, <2>2, <2>3, Truncating DEF PagerInv
    <2>4. CASE ~Hot(jrnl)
        BY <1>1, <2>1, <2>2, <2>4 DEF PagerInv, Values
    <2> QED
        BY <2>3, <2>4
<1>9. s \in {"undo", "undone"}
    OBVIOUS
<1> HIDE DEF s
<1>10. Locked(s, level[p])
    BY <1>1, <1>9 DEF PagerInv, Locked, InCheck, InWrite, InRecovery, InFlush, InRollback, Steps
<1>11. Working(s, m, jrnl', tx)
    BY <1>1, <1>2, <1>6, <1>7, <1>9 DEF Working, InTransaction, InWrite, InRollback, InFlush
<1>12. s \in Steps /\ s \in InTransaction /\ pc[p] \in InTransaction /\ pc[p] \in Owning
    BY <1>1, <1>9 DEF Steps, InTransaction, InWrite, InFlush, InRollback, Owning
<1> QED
    BY <1>1, <1>3, <1>7, <1>8, <1>10, <1>11, <1>12, OwnerStep

----------------------------------------------------------------------------
(* Faults *)

LEMMA NothingInMemory ==
    ASSUME NEW n \in Nat, NEW j
    PROVE  NoMem \in PagerFields(n) /\ Working("open", NoMem, j, n)
<1>1. 1 \in Pages
    BY PagerAssumption DEF Pages
<1>2. \A S : <<>> \in Seq(S)
    BY EmptySeq
<1>3. NoPages \in [Pages -> 0 .. MaxTx \cup {None}] /\ NoPages[1] = None
    BY <1>1 DEF NoPages
<1>4. /\ NoMem \in Fields0 /\ NoMem.cache = NoPages /\ NoMem.vers = None
      /\ NoMem.todo = <<>>
    BY <1>2, <1>3, PagerAssumption DEF NoMem, Fields0
<1>5. NoMem \in PagerFields(n)
    BY <1>2, <1>3, <1>4 DEF PagerFields, CacheOf
<1> QED
    BY <1>5 DEF NoMem, Working, InTransaction, InWrite, InRollback, InFlush

\* The handles of a process that dies, and the others.
Dying(p) == Peers(p) \cup {p}

LEMMA Deaths ==
    ASSUME PagerInv, NEW p \in Handles, Die(p)
    PROVE  /\ UNCHANGED <<files, tx>>
           /\ \A q \in Handles :
                  IF q \in Dying(p)
                  THEN pc'[q] = "open" /\ mem'[q] = NoMem /\ level'[q] = Unlocked
                       /\ q \notin reserved'
                  ELSE /\ pc'[q] = pc[q] /\ mem'[q] = mem[q] /\ level'[q] = level[q]
                       /\ q \in reserved' <=> q \in reserved
           /\ DOMAIN pc' = Handles /\ DOMAIN mem' = Handles
           /\ pc' = [q \in Handles |-> pc'[q]] /\ mem' = [q \in Handles |-> mem'[q]]
BY DEF Die, Dying, Release

LEMMA DieStep ==
    ASSUME PagerInv, LockInv', NEW p \in Handles, Die(p)
    PROVE  PagerInv'
<1>1. NoMem \in PagerFields(tx) /\ Working("open", NoMem, jrnl, tx)
    BY NothingInMemory DEF PagerInv, Values
<1>2. "open" \in Steps /\ "open" \notin InTransaction /\ Locked("open", Unlocked)
    BY DEF Locked, InCheck, InWrite, InRecovery, InFlush, Steps, InTransaction, InRollback
<1>3. /\ \A q \in Handles : mem'[q] \in PagerFields(tx) /\ pc'[q] \in Steps
      /\ mem' \in [Handles -> PagerFields(tx)] /\ pc' \in [Handles -> Steps]
    <2>1. \A q \in Handles : mem'[q] \in PagerFields(tx) /\ pc'[q] \in Steps
        BY <1>1, <1>2, Deaths DEF PagerInv, Values
    <2> QED
        BY <2>1, Deaths
<1>4. Values'
    BY <1>3, Deaths, SameValues DEF PagerInv
<1>5. ASSUME NEW q \in Handles
      PROVE  (Locked(pc[q], level[q]) /\ Placed(q) /\ Working(pc[q], mem[q], jrnl, tx))'
    <2>1. jrnl' = jrnl /\ tx' = tx
        BY Deaths DEF files
    <2>2. CASE q \in Dying(p)
        <3>1. pc'[q] = "open" /\ mem'[q] = NoMem /\ level'[q] = Unlocked /\ q \notin reserved'
            BY <2>2, Deaths
        <3> QED
            BY <1>1, <1>2, <2>1, <3>1 DEF Locked, Placed, Working
    <2>3. CASE q \notin Dying(p)
        <3>1. /\ pc'[q] = pc[q] /\ mem'[q] = mem[q] /\ level'[q] = level[q]
              /\ q \in reserved' <=> q \in reserved
            BY <2>3, Deaths
        <3>2. Locked(pc[q], level[q]) /\ Placed(q) /\ Working(pc[q], mem[q], jrnl, tx)
            BY DEF PagerInv
        <3> QED
            BY <2>1, <3>1, <3>2 DEF Locked, Placed, Working
    <2> QED
        BY <2>2, <2>3
<1> QED
    BY <1>3, <1>4, <1>5 DEF PagerInv

LEMMA RemainingJournal ==
    ASSUME NEW n, NEW j \in JournalsOf(n), NEW k \in Remains(j)
    PROVE  k \in JournalsOf(n)
<1>1. j # None
    BY PagerAssumption DEF JournalsOf
<1>2. PICK magic \in {m \in [DOMAIN j.magic -> BOOLEAN] :
                         \A s \in DOMAIN m : m[s] \in j.magics[s]},
           lost \in SUBSET DOMAIN j.recs :
           k = Remainder(j, magic, lost)
    BY <1>1 DEF Remains
<1> DEFINE magics == [s \in DOMAIN j.magics |-> {magic[s]}]
           recs == [r \in DOMAIN j.recs |-> Survivor(j, r, lost)]
           safe == Len(j.recs)
<1>3. k = [j EXCEPT !.magic = magic, !.magics = magics, !.safe = safe, !.recs = recs]
    BY <1>2 DEF Remainder
<1>4. /\ j.recs \in Seq(Entries(n)) /\ j \in Journals /\ safe \in Nat
      /\ j.magic # <<>> /\ Len(j.magics) = Len(j.magic)
      /\ DOMAIN j.recs = 1 .. safe
      /\ \A r \in 1 .. safe : j.recs[r] \in Entries(n)
    BY LenProperties, ElementOfSeq DEF JournalsOf
<1>5. /\ Len(j.magic) \in Nat /\ DOMAIN j.magic = 1 .. Len(j.magic)
      /\ DOMAIN j.magics = 1 .. Len(j.magic) /\ Len(j.magic) # 0
    BY LastPart, LenProperties, EmptySeq DEF JournalsOf, Journals
<1>6. magic \in Seq(BOOLEAN) /\ Len(magic) = Len(j.magic) /\ magic # <<>>
    <2>1. magic \in [1 .. Len(j.magic) -> BOOLEAN]
        BY <1>5
    <2> QED
        BY <1>5, <2>1, SeqDef, LenProperties, EmptySeq
<1>7. magics \in Seq(SUBSET BOOLEAN) /\ Len(magics) = Len(j.magic)
    <2>1. magics \in [1 .. Len(j.magic) -> SUBSET BOOLEAN]
        BY <1>5
    <2> QED
        BY <1>5, <2>1, SeqDef, LenProperties
<1>8. /\ recs \in Seq(Entries(n))
      /\ recs \in Seq([page : Pages, image : 0 .. MaxTx \cup {None}, part : Nat,
                       valid : BOOLEAN])
    <2>1. \A r \in 1 .. safe : recs[r] \in Entries(n)
        BY <1>4 DEF Entries, Survivor
    <2>2. recs \in [1 .. safe -> Entries(n)]
        BY <1>4, <2>1
    <2>3. Entries(n) \subseteq [page : Pages, image : 0 .. MaxTx \cup {None}, part : Nat,
                                valid : BOOLEAN]
        BY DEF Entries
    <2> HIDE DEF recs, safe
    <2>4. recs \in Seq(Entries(n))
        BY <1>4, <2>2, SeqDef
    <2> QED
        BY <2>3, <2>4, SeqMonotonic
<1> HIDE DEF magics, recs, safe
<1>9. /\ k \in Journals /\ k.recs = recs /\ k.magic = magic /\ k.magics = magics
    BY <1>3, <1>4, <1>6, <1>7, <1>8 DEF Journals
<1> QED
    BY <1>4, <1>6, <1>7, <1>8, <1>9 DEF JournalsOf

LEMMA PowerLossStep ==
    ASSUME PagerInv, LockInv', PowerLoss
    PROVE  PagerInv'
<1>1. PICK image \in [Pages -> UNION {dbMaybe[i] : i \in Pages}] :
          /\ \A i \in Pages : image[i] \in dbMaybe[i]
          /\ db' = image
          /\ dbMaybe' = [i \in Pages |-> {image[i]}]
    BY DEF PowerLoss
<1>2. /\ dead' = {} /\ Release(Handles) /\ UNCHANGED tx
      /\ pc' = [q \in Handles |-> "open"] /\ mem' = [q \in Handles |-> NoMem]
    BY DEF PowerLoss
<1>3. jrnl' \in JournalsOf(tx) \cup {None}
    <2>1. PICK j \in dead \cup {jrnl} : jrnl' \in Remains(j)
        BY DEF PowerLoss
    <2>2. CASE j = None
        BY <2>1, <2>2 DEF Remains
    <2>3. CASE j # None
        BY <2>1, <2>3, RemainingJournal DEF PagerInv, Values
    <2> QED
        BY <2>2, <2>3
<1>4. NoMem \in PagerFields(tx) /\ Working("open", NoMem, jrnl', tx)
    BY NothingInMemory DEF PagerInv, Values
<1>5. Values'
    <2>1. \A i \in Pages : image[i] \in dbMaybe[i] /\ dbMaybe[i] \subseteq Content(i, tx)
                           /\ dbMaybe[i] \subseteq 0 .. MaxTx \cup {None}
        BY <1>1 DEF PagerInv, Values
    <2>2. db' \in Image
        BY <1>1, <2>1 DEF Image
    <2>3. /\ dbMaybe' \in [Pages -> SUBSET (0 .. MaxTx \cup {None})]
          /\ \A i \in Pages : db'[i] \in dbMaybe'[i] /\ dbMaybe'[i] \subseteq Content(i, tx)
        BY <1>1, <2>1
    <2>4. mem' \in [Handles -> PagerFields(tx)]
        BY <1>2, <1>4
    <2> QED
        BY <1>2, <1>3, <2>2, <2>3, <2>4 DEF PagerInv, Values
<1>6. \A q \in Handles : level'[q] = Unlocked /\ q \notin reserved'
    BY <1>2 DEF Release
<1>7. Locked("open", Unlocked) /\ "open" \notin InTransaction /\ "open" \in Steps
    BY DEF Locked, InCheck, InWrite, InRecovery, InFlush, Steps, InTransaction, InRollback
<1>8. ASSUME NEW q \in Handles
      PROVE  (Locked(pc[q], level[q]) /\ Placed(q) /\ Working(pc[q], mem[q], jrnl, tx))'
    <2>1. pc'[q] = "open" /\ mem'[q] = NoMem /\ tx' = tx
        BY <1>2
    <2> QED
        BY <1>4, <1>6, <1>7, <2>1 DEF Locked, Placed, Working
<1> QED
    BY <1>2, <1>5, <1>7, <1>8 DEF PagerInv

----------------------------------------------------------------------------

LEMMA PagerInit == Init => PagerInv
<1> SUFFICES ASSUME Init PROVE PagerInv
    OBVIOUS
<1>1. LockInv
    BY DEF Init, LockInit, LockInv, LockTypeOK, WriterAlone, ReservedReads, Levels,
           Unlocked, Shared, Reserved, Pending, Exclusive
<1>2. /\ tx = 0 /\ tx \in 0 .. MaxTx /\ 1 \in Pages /\ 1 <= FirstSize
      /\ NoMem \in PagerFields(tx) /\ Working("open", NoMem, jrnl, tx)
    BY NothingInMemory, PagerAssumption DEF Init, Pages
<1>3. Values
    <2>1. \A i \in Pages : FirstImage[i] \in Content(i, 0)
        BY <1>2, PagerAssumption DEF FirstImage, Content
    <2>2. db \in Image
        BY PagerAssumption DEF Init, FirstImage, Image
    <2>3. dbMaybe \in [Pages -> SUBSET (0 .. MaxTx \cup {None})]
        BY PagerAssumption DEF Init, FirstImage
    <2> QED
        BY <1>2, <2>1, <2>2, <2>3 DEF Init, Values
<1>4. Locked("open", Unlocked) /\ "open" \notin InTransaction /\ "open" \in Steps
    BY DEF Locked, InCheck, InWrite, InRecovery, InFlush, Steps, InTransaction, InRollback
<1> QED
    BY <1>1, <1>2, <1>3, <1>4 DEF Init, LockInit, PagerInv, Placed

LEMMA PagerNext == PagerInv /\ [Next]_vars => PagerInv'
<1> SUFFICES ASSUME PagerInv, [Next]_vars PROVE PagerInv'
    OBVIOUS
<1>1. LockInv'
    BY LockStep, PagerLocks DEF PagerInv, vars, lockVars
<1>2. ASSUME NEW p \in Handles, \/ LockShared(p) \/ CheckExists(p) \/ CheckReserved(p)
                               \/ CheckFirstByte(p) \/ LockHot(p) \/ BusyHot(p)
                               \/ Recover(p)
      PROVE  PagerInv'
    BY <1>1, <1>2, CheckSteps, LockHotStep, RecoverStep
<1>3. ASSUME NEW p \in Handles, \/ PlayBack(p) \/ EndPlayBack(p) \/ Validate(p)
                               \/ EndRead(p) \/ BeginWrite(p) \/ CommitPhaseOne(p)
      PROVE  PagerInv'
    BY <1>1, <1>3, PlayBackStep, SyncedStep, ValidateStep, EndReadStep, BeginWriteStep, CommitStep
<1>4. ASSUME NEW p \in Handles, \/ BeginSync(p) \/ BusySync(p) \/ SyncRecords(p)
                               \/ WriteHeader(p) \/ SyncHeader(p) \/ SyncStored(p)
      PROVE  PagerInv'
    BY <1>1, <1>4, SyncLockSteps, SyncRecordsStep, WriteHeaderStep, SyncHeaderStep, SyncedStep
<1>5. ASSUME NEW p \in Handles, \/ EndTransaction(p) \/ UnlockDb(p) \/ Rollback(p) \/ Die(p)
      PROVE  PagerInv'
    BY <1>1, <1>5, EndTransactionStep, UnlockDbStep, RollbackStep, DieStep
<1>6. ASSUME NEW p \in Handles, NEW i \in Pages,
             ReadPage(p, i) \/ WritePage(p, i) \/ StorePage(p, i) \/ Evict(p, i)
      PROVE  PagerInv'
    BY <1>1, <1>6, CacheSteps, WritePageStep, StorePageStep
<1>7. CASE PowerLoss
    BY <1>1, <1>7, PowerLossStep
<1>8. CASE UNCHANGED vars
    BY <1>8 DEF vars, files, lockVars, PagerInv, LockInv, LockTypeOK, WriterAlone, ReservedReads,
                Values, Placed, Working, Locked
<1> QED
    BY <1>2, <1>3, <1>4, <1>5, <1>6, <1>7, <1>8 DEF Next

LEMMA PagerInvariant == Spec => []PagerInv
BY PagerInit, PagerNext, PTL DEF Spec

\* Every state of a pager goes with its lock (assert_pager_state), for any number of
\* pagers, pages, transactions, deaths and power losses.
THEOREM PagerTypeCorrect == Spec => []TypeOK
<1>1. PagerInv => TypeOK
    <2> SUFFICES ASSUME PagerInv PROVE TypeOK
        OBVIOUS
    <2>1. LockTypeOK /\ db \in Image /\ pc \in [Handles -> Steps]
        BY DEF PagerInv, LockInv, Values
    <2>2. \A i \in Pages : db[i] \in dbMaybe[i]
        BY DEF PagerInv, Values
    <2>3. ASSUME NEW p \in Handles
          PROVE  /\ pc[p] = "open" <=> level[p] = Unlocked
                 /\ pc[p] \in InCheck \cup {"reader"} => level[p] = Shared
                 /\ pc[p] = "busy" => level[p] \in {Shared, Pending}
                 /\ pc[p] \in InWrite => level[p] >= Reserved
                 /\ pc[p] \in InRecovery \cup InFlush => level[p] = Exclusive
                 /\ pc[p] \in InWrite \ {"locked"} => jrnl # None
        BY <2>3 DEF PagerInv, Locked, Working
    <2> QED
        BY <2>1, <2>2, <2>3 DEF TypeOK
<1> QED
    BY <1>1, PagerInvariant, PTL

\* However pagers race for the locks, die and recover, one that may write the file is
\* alone with it.
THEOREM PagersWriteAlone == Spec => []WriterAlone
<1>1. LockInv => WriterAlone
    BY DEF LockInv
<1> QED
    BY <1>1, PagerKeepsLocks, LockInvariant, PTL

----------------------------------------------------------------------------
(* Stale caches: what the change counter tells *)

PrefixClosed(f) == \A i, k \in Pages : k <= i /\ f[i] # None => f[k] # None

\* All parts of a journal but the last are synced with their headers, and a page has
\* one record, of what it was.
JournalOK(j) ==
    /\ \A s \in 1 .. Len(j.magic) : j.magic[s] \in j.magics[s]
    /\ \A s \in 1 .. Len(j.magic) - 1 : j.magics[s] = {TRUE}
    /\ \A r \in 1 .. Len(j.recs) :
           /\ j.recs[r].page <= j.orig /\ j.recs[r].image # None
           /\ j.recs[r].part \in 1 .. Len(j.magic)
    /\ \A q, r \in 1 .. Len(j.recs) :
           /\ j.recs[q].page = j.recs[r].page => q = r
           /\ q <= r => j.recs[q].part <= j.recs[r].part

\* No power loss takes away a page that was there before the transaction.
Whole(j) == \A i \in Pages : i <= j.orig => None \notin dbMaybe[i]

\* Before anything is written to the database file a journal is on the disk that
\* undoes it.
Settled == PrefixClosed(db) /\ \A i \in Pages : dbMaybe[i] = {db[i]}
Armed == Hot(jrnl) /\ jrnl.magics[1] = {TRUE} /\ dead = {}

Disk ==
    /\ \A j \in dead \cup {jrnl} : j # None => JournalOK(j) /\ Whole(j)
    /\ Settled \/ Armed

\* A hot journal is left alone by all but its owner.
NeverHot == {"validate", "reader", "locked", "cachemod", "leave", "rest"}

Guarded(p) ==
    Hot(jrnl) => /\ pc[p] \notin NeverHot
                 /\ p \in reserved => level[p] = Exclusive

Active == InWrite \ {"locked"}

ReadFrom(m, f) == [i \in Pages |-> IF m.cache[i] # None THEN m.cache[i] ELSE f[i]]

\* Of the transaction of a pager: its records are the originals of the pages it
\* changed, and the file has them until their part of the journal is synced.
JournalOf(s, m, f, j, d) ==
    /\ j.orig = m.orig
    /\ \A r \in 1 .. Len(j.recs) :
           /\ j.recs[r].valid /\ j.recs[r].page \in m.logged
           /\ ~j.magic[j.recs[r].part] => f[j.recs[r].page] = j.recs[r].image
    /\ s \in {"cachemod", "lock", "sync", "header", "dbmod"} => ~j.magic[Len(j.magic)]
    /\ s \in {"resync", "store", "finished"} => j.magic[Len(j.magic)]
    /\ s \in {"store", "finished"} => j.magics[Len(j.magic)] = {TRUE}
    /\ s = "dbmod" => Len(j.magic) > 1
    /\ s = "header" \/ Hot(j) => d = {}

CacheOfWriter(m, f, b) ==
    /\ \A i \in Pages :
           /\ i \in m.dirty /\ i <= m.orig => i \in m.logged
           /\ i \notin m.dirty => m.cache[i] \in {None, f[i]}
    /\ PrefixClosed(ReadFrom(m, f))
    /\ IF m.commit
       THEN /\ 1 \in m.logged /\ m.cache[1] = b[1] + 1
            /\ m.vers = IF 1 \in m.dirty THEN b[1] ELSE b[1] + 1
       ELSE /\ 1 \notin m.logged /\ 1 \notin m.dirty
            /\ m.cache[1] = b[1] /\ m.vers = b[1]

Writing(s, m, f, j, d) ==
    /\ s \in InWrite /\ ~Hot(j) => \A i \in Pages : f[i] # None <=> i <= m.orig
    /\ s \in Active => JournalOf(s, m, f, j, d) /\ CacheOfWriter(m, f, Recovered(f, j))
    /\ s \in {"store", "finished"} => m.commit

\* Of a journal that is being played back: what is still to do.
Restoring(s, m, f, j) ==
    /\ s \in {"replay", "undo"} =>
           /\ \A r \in DOMAIN Playable(j) :
                  \/ f[Playable(j)[r].page] = Playable(j)[r].image
                  \/ \E t \in DOMAIN m.todo : m.todo[t] = Playable(j)[r]
           /\ \A t \in DOMAIN m.todo : \E r \in DOMAIN Playable(j) : m.todo[t] = Playable(j)[r]
           /\ Hot(j) => \A i \in Pages : i > j.orig => f[i] = None
    /\ s \in {"undone", "replayed"} => \A i \in Pages : f[i] = Recovered(f, j)[i]

Durable(s) ==
    /\ s \in {"replay", "undo"} /\ Hot(jrnl) => Armed
    /\ s \in {"finished", "undone", "replayed"} => Settled

\* A cache of the version b of the database has no page of another one.
Fresh(s, m, b) ==
    s \notin Active =>
        /\ m.vers # None => m.vers <= b[1]
        /\ m.vers = b[1] => \A i \in Pages : m.cache[i] \in {None, b[i]}
        /\ s \in {"reader", "locked", "undo", "undone", "leave"} =>
               m.vers = b[1] /\ m.cache[1] = b[1]

CacheInv ==
    /\ Disk
    /\ \A p \in Handles :
           /\ Guarded(p)
           /\ Writing(pc[p], mem[p], db, jrnl, dead)
           /\ Restoring(pc[p], mem[p], db, jrnl)
           /\ Durable(pc[p])
           /\ Fresh(pc[p], mem[p], Stored)

----------------------------------------------------------------------------
(* What a recovery makes of the files *)

Played(j) ==
    {r \in 1 .. Len(j.recs) :
        \A q \in 1 .. r : j.recs[q].valid /\ j.magic[j.recs[q].part]}

LEMMA PlayedFirst ==
    ASSUME NEW n, NEW j \in JournalsOf(n)
    PROVE  /\ Len(j.recs) \in Nat /\ DOMAIN j.recs = 1 .. Len(j.recs)
           /\ \A r \in 1 .. Len(j.recs) : j.recs[r] \in Entries(n)
           /\ DOMAIN Playable(j) = Played(j) /\ Playable(j) \in Seq(Entries(n))
           /\ \A r \in Played(j) : Playable(j)[r] = j.recs[r]
<1> DEFINE ends == {r \in DOMAIN j.recs : ~(j.recs[r].valid /\ j.magic[j.recs[r].part])}
<1>1. /\ j.recs \in Seq(Entries(n)) /\ DOMAIN j.recs = 1 .. Len(j.recs)
      /\ Len(j.recs) \in Nat
      /\ \A r \in 1 .. Len(j.recs) : j.recs[r] \in Entries(n)
    BY LenProperties, ElementOfSeq DEF JournalsOf
<1>2. CASE ends = {}
    <2>1. Playable(j) = j.recs
        BY <1>2 DEF Playable
    <2>2. Played(j) = 1 .. Len(j.recs)
        BY <1>1, <1>2 DEF Played
    <2> QED
        BY <1>1, <2>1, <2>2
<1>3. CASE ends # {}
    <2> DEFINE k == Min(ends) - 1
    <2>1. ends \in SUBSET Nat /\ ends \subseteq 1 .. Len(j.recs)
        BY <1>1
    <2>2. \A r \in 1 .. Len(j.recs) :
              r \in ends <=> ~(j.recs[r].valid /\ j.magic[j.recs[r].part])
        BY <1>1
    <2>3. Playable(j) = SubSeq(j.recs, 1, k)
        BY <1>3 DEF Playable
    <2> HIDE DEF ends
    <2>4. Min(ends) \in ends /\ \A r \in ends : Min(ends) <= r
        BY <1>3, <2>1, LeastExists
    <2>5. k \in 0 .. Len(j.recs) /\ k + 1 \in ends /\ \A r \in ends : k + 1 <= r
          /\ k + 1 \in 1 .. Len(j.recs)
        <3>1. Min(ends) \in 1 .. Len(j.recs)
            BY <2>1, <2>4
        <3>2. k + 1 = Min(ends) /\ k \in 0 .. Len(j.recs)
            BY <1>1, <3>1
        <3> HIDE DEF k
        <3> QED
            BY <2>4, <3>1, <3>2
    <2> HIDE DEF k
    <2>6. Played(j) = 1 .. k
        <3>1. ASSUME NEW r \in 1 .. k PROVE r \in Played(j)
            BY <1>1, <2>2, <2>5 DEF Played
        <3>2. ASSUME NEW r \in Played(j) PROVE r \in 1 .. k
            <4>1. r \in 1 .. Len(j.recs) /\ \A q \in 1 .. r : q \notin ends
                BY <1>1, <2>2 DEF Played
            <4> QED
                BY <1>1, <2>5, <4>1
        <3> QED
            BY <3>1, <3>2
    <2>7. /\ SubSeq(j.recs, 1, k) \in Seq(Entries(n))
          /\ DOMAIN SubSeq(j.recs, 1, k) = 1 .. k
          /\ \A r \in 1 .. k : SubSeq(j.recs, 1, k)[r] = j.recs[r]
        BY <1>1, <2>5, SubSeqProperties, LenProperties
    <2> QED
        BY <1>1, <2>3, <2>6, <2>7
<1> QED
    BY <1>2, <1>3

\* Without a first header nothing is played back.
LEMMA NothingPlayed ==
    ASSUME NEW n, NEW j \in JournalsOf(n), JournalOK(j), ~Hot(j)
    PROVE  /\ Len(j.magic) = 1 /\ ~j.magic[1] /\ Played(j) = {}
           /\ \A r \in 1 .. Len(j.recs) : j.recs[r].part = 1
<1>1. j # None
    BY PagerAssumption DEF JournalsOf
<1>2. ~j.magic[1]
    BY <1>1 DEF Hot
<1> DEFINE len == Len(j.magic)
<1>3. /\ len \in Nat \ {0}
      /\ \A s \in 1 .. len : j.magic[s] \in j.magics[s]
      /\ \A s \in 1 .. len - 1 : j.magics[s] = {TRUE}
      /\ \A r \in 1 .. Len(j.recs) : j.recs[r].part \in 1 .. len
    BY LastPart DEF Part, JournalOK
<1> HIDE DEF len
<1>4. len = 1
    <2>1. CASE len > 1
        <3>1. 1 \in 1 .. len - 1 /\ 1 \in 1 .. len
            BY <1>3, <2>1
        <3>2. j.magics[1] = {TRUE} /\ j.magic[1] \in j.magics[1]
            BY <1>3, <3>1
        <3>3. j.magic[1] = TRUE
            BY <3>2, Zenon
        <3> QED
            BY <1>2, <3>3, Zenon
    <2> QED
        BY <1>3, <2>1
<1>5. \A r \in 1 .. Len(j.recs) : j.recs[r].part = 1
    BY <1>3, <1>4
<1>6. Played(j) = {}
    BY <1>2, <1>5, PlayedFirst DEF Played
<1> QED
    BY <1>2, <1>4, <1>5, <1>6 DEF len

\* The database after a recovery, page by page.
LEMMA RecoveredPages ==
    ASSUME NEW n, NEW j \in JournalsOf(n), JournalOK(j), Hot(j), NEW f
    PROVE  /\ \A i \in Pages : i > j.orig => Recovered(f, j)[i] = None
           /\ \A r \in Played(j) :
                  /\ j.recs[r].page \in Pages /\ j.recs[r].page <= j.orig
                  /\ Recovered(f, j)[j.recs[r].page] = j.recs[r].image
           /\ \A i \in Pages :
                  i <= j.orig /\ (\A r \in Played(j) : j.recs[r].page # i)
                  => Recovered(f, j)[i] = f[i]
<1>1. /\ DOMAIN Playable(j) = Played(j) /\ j.orig \in Nat
      /\ \A r \in Played(j) : Playable(j)[r] = j.recs[r] /\ j.recs[r].page \in Pages
                               /\ r \in 1 .. Len(j.recs)
    <2>1. j.orig \in Nat
        BY PagerAssumption DEF JournalsOf, Journals, Pages
    <2>2. DOMAIN Playable(j) = Played(j) /\ \A r \in Played(j) : Playable(j)[r] = j.recs[r]
        BY PlayedFirst
    <2>3. \A r \in Played(j) : r \in 1 .. Len(j.recs)
        BY DEF Played
    <2>4. \A r \in 1 .. Len(j.recs) : j.recs[r].page \in Pages
        BY PlayedFirst DEF Entries
    <2> QED
        BY <2>1, <2>2, <2>3, <2>4
<1>2. \A i \in Pages : RecordsOf(i, j) = {r \in Played(j) : j.recs[r].page = i}
    BY <1>1 DEF RecordsOf
<1>3. \A i \in Pages : Recovered(f, j)[i] =
          IF i > j.orig THEN None
          ELSE IF RecordsOf(i, j) = {} THEN f[i]
          ELSE Playable(j)[CHOOSE r \in RecordsOf(i, j) : TRUE].image
    BY DEF Recovered
<1>4. ASSUME NEW r \in Played(j)
      PROVE  /\ j.recs[r].page \in Pages /\ j.recs[r].page <= j.orig
             /\ Recovered(f, j)[j.recs[r].page] = j.recs[r].image
    <2> DEFINE i == j.recs[r].page
    <2>1. i \in Pages /\ i <= j.orig
        BY <1>1 DEF JournalOK
    <2>2. \A q \in RecordsOf(i, j) : q = r
        BY <1>1, <1>2, <2>1 DEF JournalOK
    <2>3. r \in RecordsOf(i, j)
        BY <1>2, <2>1
    <2>4. (CHOOSE q \in RecordsOf(i, j) : TRUE) = r
        BY <2>2, <2>3
    <2>5. ~(i > j.orig)
        BY <1>1, <2>1, PagerAssumption DEF Pages
    <2> HIDE DEF i
    <2>6. Recovered(f, j)[i] = Playable(j)[r].image
        BY <1>3, <2>1, <2>3, <2>4, <2>5
    <2> QED
        BY <1>1, <2>1, <2>6 DEF i
<1>5. ASSUME NEW i \in Pages, i <= j.orig, \A r \in Played(j) : j.recs[r].page # i
      PROVE  Recovered(f, j)[i] = f[i]
    <2>1. RecordsOf(i, j) = {} /\ ~(i > j.orig)
        BY <1>1, <1>2, <1>5, PagerAssumption DEF Pages
    <2> QED
        BY <1>3, <2>1
<1> QED
    BY <1>3, <1>4, <1>5

\* Two recoveries that play the same records have the same outcome, if they begin with
\* the same pages otherwise.
LEMMA SameRecovery ==
    ASSUME NEW n, NEW j \in JournalsOf(n), NEW k \in JournalsOf(n),
           JournalOK(j), JournalOK(k), Hot(j), Hot(k), k.orig = j.orig,
           Played(k) = Played(j), \A r \in Played(j) : k.recs[r].page = j.recs[r].page
                                                      /\ k.recs[r].image = j.recs[r].image,
           NEW f, NEW g,
           \A i \in Pages :
               i <= j.orig /\ (\A r \in Played(j) : j.recs[r].page # i) => g[i] = f[i]
    PROVE  \A i \in Pages : Recovered(g, k)[i] = Recovered(f, j)[i]
<1> SUFFICES ASSUME NEW i \in Pages PROVE Recovered(g, k)[i] = Recovered(f, j)[i]
    OBVIOUS
<1>1. CASE i > j.orig
    BY <1>1, RecoveredPages
<1>2. CASE \E r \in Played(j) : j.recs[r].page = i
    BY <1>2, RecoveredPages
<1>3. CASE i <= j.orig /\ \A r \in Played(j) : j.recs[r].page # i
    <2>1. \A r \in Played(k) : k.recs[r].page # i
        BY <1>3
    <2>2. Recovered(g, k)[i] = g[i]
        BY <1>3, <2>1, RecoveredPages
    <2>3. Recovered(f, j)[i] = f[i]
        BY <1>3, RecoveredPages
    <2> QED
        BY <1>3, <2>2, <2>3
<1> QED
    BY <1>1, <1>2, <1>3, PagerAssumption DEF Pages, JournalsOf, Journals

----------------------------------------------------------------------------
(* What every step has in common *)

\* A pager that has EXCLUSIVE is the only one at work.
LEMMA OthersOpen ==
    ASSUME PagerInv, NEW p \in Handles, level[p] = Exclusive, NEW q \in Handles, q # p
    PROVE  pc[q] = "open" /\ level[q] = Unlocked /\ q \notin reserved
<1>1. level[q] = Unlocked
    BY DEF PagerInv, LockInv, WriterAlone
<1>2. pc[q] = "open"
    BY <1>1 DEF PagerInv, Locked
<1>3. q \notin reserved
    BY <1>2 DEF PagerInv, Placed, InTransaction, InWrite, InFlush, InRollback
<1> QED
    BY <1>1, <1>2, <1>3

StoredKept == \A i \in Pages : Stored'[i] = Stored[i]

\* What a step of p has to keep: the stored database, and what CacheInv says of p.
LEMMA CacheStep ==
    ASSUME PagerInv, CacheInv, NEW p \in Handles, Kept(p), Disk',
           UNCHANGED files \/ pc[p] \in Owning,
           Hot(jrnl') => Hot(jrnl) \/ level[p] = Exclusive,
           \A i \in Pages : Stored'[i] = Stored[i],
           Guarded(p)', Writing(pc'[p], mem'[p], db', jrnl', dead'),
           Restoring(pc'[p], mem'[p], db', jrnl'), Durable(pc[p])',
           Fresh(pc'[p], mem'[p], Stored')
    PROVE  CacheInv' /\ StoredKept
<1>1. ASSUME NEW q \in Handles, q # p
      PROVE  Guarded(q)'
    <2>1. level'[q] = level[q] /\ (q \in reserved' <=> q \in reserved) /\ pc'[q] = pc[q]
        BY <1>1 DEF Kept
    <2>2. CASE Hot(jrnl)
        BY <2>1, <2>2 DEF CacheInv, Guarded
    <2>3. CASE ~Hot(jrnl) /\ Hot(jrnl')
        <3>1. pc[q] = "open" /\ q \notin reserved
            BY <1>1, <2>3, OthersOpen
        <3> QED
            BY <2>1, <3>1 DEF Guarded, NeverHot
    <2>4. CASE ~Hot(jrnl')
        BY <2>4 DEF Guarded
    <2> QED
        BY <2>2, <2>3, <2>4
<1>2. ASSUME NEW q \in Handles, q # p
      PROVE  /\ Writing(pc'[q], mem'[q], db', jrnl', dead')
             /\ Restoring(pc'[q], mem'[q], db', jrnl') /\ Durable(pc[q])'
    <2>1. mem'[q] = mem[q] /\ pc'[q] = pc[q]
        BY <1>2 DEF Kept
    <2>2. CASE UNCHANGED files
        <3>1. /\ Writing(pc[q], mem[q], db, jrnl, dead) /\ Restoring(pc[q], mem[q], db, jrnl)
              /\ Durable(pc[q])
            BY DEF CacheInv
        <3>2. UNCHANGED <<db, dbMaybe, jrnl, dead>>
            BY <2>2 DEF files
        <3>3. Writing(pc'[q], mem'[q], db', jrnl', dead')
            BY <2>1, <3>1, <3>2
        <3>4. Restoring(pc'[q], mem'[q], db', jrnl')
            BY <2>1, <3>1, <3>2
        <3>5. Durable(pc[q])'
            BY <2>1, <3>1, <3>2 DEF Durable, Armed, Settled
        <3> QED
            BY <3>3, <3>4, <3>5
    <2>3. CASE pc[p] \in Owning
        <3>1. pc'[q] \notin Owning
            BY <1>2, <2>1, <2>3, OneOwner
        <3> QED
            BY <3>1 DEF Writing, Restoring, Durable, Owning, Active, InWrite, InFlush,
                        InRollback, InRecovery
    <2> QED
        BY <2>2, <2>3
<1>3. ASSUME NEW q \in Handles, q # p
      PROVE  Fresh(pc'[q], mem'[q], Stored')
    <2>1. mem'[q] = mem[q] /\ pc'[q] = pc[q] /\ Fresh(pc[q], mem[q], Stored)
        BY <1>3 DEF Kept, CacheInv
    <2>2. 1 \in Pages
        BY PagerAssumption DEF Pages
    <2> HIDE DEF Stored
    <2> QED
        BY <2>1, <2>2 DEF Fresh
<1> QED
    BY <1>1, <1>2, <1>3 DEF CacheInv, StoredKept

\* A step of p that leaves the files alone.
LEMMA QuietStep ==
    ASSUME PagerInv, CacheInv, NEW p \in Handles, Kept(p), UNCHANGED files,
           Guarded(p)', Writing(pc'[p], mem'[p], db, jrnl, dead),
           Restoring(pc'[p], mem'[p], db, jrnl), Durable(pc'[p]),
           Fresh(pc'[p], mem'[p], Stored)
    PROVE  CacheInv' /\ StoredKept
<1>1. UNCHANGED <<db, dbMaybe, jrnl, dead>>
    BY DEF files
<1>2. Disk'
    BY <1>1 DEF CacheInv, Disk, Settled, Armed, Whole
<1>3. Stored' = Stored
    BY <1>1 DEF Stored
<1>4. Durable(pc[p])'
    BY <1>1 DEF Durable, Armed, Settled
<1> HIDE DEF Stored
<1> QED
    BY <1>1, <1>2, <1>3, <1>4, CacheStep

----------------------------------------------------------------------------
(* Reading *)

\* Where nothing is said of a pager but its version.
Aside == {"open", "shared", "exists", "unreserved", "hot", "recover", "busy"}

\* No thread asks for RESERVED while another one of its process gives up a recovery.
NoRace == ChecksRace => \A p \in Handles : Peers(p) = {}

LEMMA CacheChecks ==
    ASSUME NoRace, PagerInv, CacheInv, NEW p \in Handles,
           LockShared(p) \/ CheckExists(p) \/ CheckReserved(p) \/ CheckFirstByte(p)
    PROVE  CacheInv' /\ StoredKept
<1>1. /\ Kept(p) /\ UNCHANGED files /\ mem'[p] = mem[p] /\ (p \in reserved' <=> p \in reserved)
    BY Locking DEF PagerInv, LockInv, Kept, LockShared, CheckExists, CheckReserved,
                   CheckFirstByte, Goto, lockVars, files
<1>2. /\ pc[p] \in Aside
      /\ pc'[p] \in Aside \cup {"validate"} /\ p \notin reserved
    BY DEF PagerInv, LockShared, CheckExists, CheckReserved, CheckFirstByte, Goto, Aside,
           Placed, InTransaction, InWrite, InFlush, InRollback
<1>3. pc'[p] = "validate" => ~Hot(jrnl)
    <2> SUFFICES ASSUME pc'[p] = "validate", Hot(jrnl) PROVE FALSE
        OBVIOUS
    <2>1. pc[p] = "exists" /\ CheckReserved(p) /\ SaysReserved(p) /\ level[p] = Shared
        BY DEF PagerInv, LockShared, CheckExists, CheckReserved, CheckFirstByte, Goto, Hot,
               Locked, InCheck
    <2>2. \A q \in Handles : q # p => level[q] # Exclusive
        BY <2>1 DEF PagerInv, LockInv, WriterAlone, Shared, Unlocked
    <2>3. reserved = {}
        BY <1>2, <2>2 DEF CacheInv, Guarded, PagerInv, LockInv, LockTypeOK
    <2>4. PICK q \in Peers(p) : level[q] > Shared
        BY <2>1, <2>3 DEF SaysReserved, Shared
    <2>5. q \in Handles /\ q # p /\ level[q] # Exclusive /\ pc[q] \notin InTransaction
        BY <2>2, <2>3, <2>4 DEF PagerInv, Placed, Peers, Others
    <2>6. pc[q] = "busy"
        BY <2>4, <2>5 DEF PagerInv, Locked, Steps, InTransaction, InRecovery, InCheck, Shared,
                          Unlocked
    <2> QED
        BY <2>1, <2>4, <2>5, <2>6 DEF NoRace, CheckReserved
<1>4. Guarded(p)'
    BY <1>1, <1>2, <1>3 DEF Guarded, Aside, NeverHot, files
<1>5. /\ Writing(pc'[p], mem'[p], db, jrnl, dead) /\ Restoring(pc'[p], mem'[p], db, jrnl)
      /\ Durable(pc'[p])
    BY <1>2 DEF Aside, Writing, Restoring, Durable, InWrite, InFlush, Active
<1>6. Fresh(pc'[p], mem'[p], Stored)
    BY <1>1, <1>2 DEF CacheInv, Fresh, Aside, Active, InWrite, InFlush
<1> QED
    BY <1>1, <1>4, <1>5, <1>6, QuietStep

LEMMA CacheLockHot ==
    ASSUME PagerInv, CacheInv, NEW p \in Handles, LockHot(p) \/ BusyHot(p)
    PROVE  CacheInv' /\ StoredKept
<1>1. /\ Kept(p) /\ UNCHANGED files /\ mem'[p] = mem[p] /\ p \notin reserved'
      /\ pc[p] = "hot" /\ pc'[p] \in {"recover", "busy"}
    <2>1. pc[p] = "hot" /\ p \notin reserved
        BY DEF PagerInv, LockHot, BusyHot, Placed, InTransaction, InWrite, InFlush, InRollback
    <2> QED
        BY <2>1, Locking DEF PagerInv, LockInv, Kept, LockHot, BusyHot, Goto, lockVars
<1>2. Guarded(p)'
    BY <1>1 DEF Guarded, NeverHot
<1>3. /\ Writing(pc'[p], mem'[p], db, jrnl, dead) /\ Restoring(pc'[p], mem'[p], db, jrnl)
      /\ Durable(pc'[p])
    BY <1>1 DEF Writing, Restoring, Durable, InWrite, InFlush, Active
<1>4. Fresh(pc'[p], mem'[p], Stored)
    BY <1>1 DEF CacheInv, Fresh, Active, InWrite, InFlush
<1> QED
    BY <1>1, <1>2, <1>3, <1>4, QuietStep

\* The lock goes down to SHARED or is given back.
LEMMA CacheUnlocks ==
    ASSUME PagerInv, CacheInv, NEW p \in Handles, EndRead(p) \/ UnlockDb(p)
    PROVE  CacheInv' /\ StoredKept
<1>1. /\ Kept(p) /\ UNCHANGED files /\ mem'[p] = mem[p] /\ p \notin reserved'
      /\ \/ pc[p] \in {"reader", "busy"} /\ pc'[p] = "open"
         \/ pc[p] = "rest" /\ pc'[p] = "validate"
         \/ pc[p] \in {"leave", "locked"} /\ pc'[p] = "reader"
    BY Locking DEF PagerInv, LockInv, Kept, EndRead, UnlockDb, Goto
<1>2. pc'[p] # "open" => ~Hot(jrnl)
    BY <1>1 DEF CacheInv, Guarded, NeverHot
<1>3. Guarded(p)'
    BY <1>1, <1>2 DEF Guarded, NeverHot, files
<1>4. /\ Writing(pc'[p], mem'[p], db, jrnl, dead) /\ Restoring(pc'[p], mem'[p], db, jrnl)
      /\ Durable(pc'[p])
    BY <1>1 DEF Writing, Restoring, Durable, InWrite, InFlush, Active
<1>5. Fresh(pc'[p], mem'[p], Stored)
    BY <1>1 DEF CacheInv, Fresh, Active, InWrite, InFlush
<1> QED
    BY <1>1, <1>3, <1>4, <1>5, QuietStep

LEMMA CacheDies ==
    ASSUME PagerInv, CacheInv, NEW p \in Handles, Die(p)
    PROVE  CacheInv' /\ StoredKept
<1>1. UNCHANGED <<db, dbMaybe, jrnl, dead>>
    BY Deaths DEF files
<1>2. Disk'
    BY <1>1 DEF CacheInv, Disk, Settled, Armed, Whole
<1>3. Stored' = Stored
    BY <1>1 DEF Stored
<1>4. /\ \A f, k, d : Writing("open", NoMem, f, k, d)
      /\ \A f, k : Restoring("open", NoMem, f, k)
      /\ \A b : Fresh("open", NoMem, b)
    BY DEF Writing, Restoring, Fresh, NoMem, NoPages, InWrite, InFlush, Active
<1> HIDE DEF Stored
<1>5. ASSUME NEW q \in Handles
      PROVE  /\ Guarded(q)' /\ Writing(pc'[q], mem'[q], db', jrnl', dead')
             /\ Restoring(pc'[q], mem'[q], db', jrnl') /\ Durable(pc[q])'
             /\ Fresh(pc'[q], mem'[q], Stored')
    <2>1. CASE q \in Dying(p)
        <3>1. pc'[q] = "open" /\ mem'[q] = NoMem /\ q \notin reserved'
            BY <2>1, Deaths
        <3> QED
            BY <1>4, <3>1 DEF Guarded, NeverHot, Durable
    <2>2. CASE q \notin Dying(p)
        <3>1. /\ pc'[q] = pc[q] /\ mem'[q] = mem[q] /\ level'[q] = level[q]
              /\ q \in reserved' <=> q \in reserved
            BY <2>2, Deaths
        <3>2. /\ Guarded(q) /\ Writing(pc[q], mem[q], db, jrnl, dead)
              /\ Restoring(pc[q], mem[q], db, jrnl) /\ Durable(pc[q])
              /\ Fresh(pc[q], mem[q], Stored)
            BY DEF CacheInv
        <3>3. Guarded(q)' /\ Durable(pc[q])'
            BY <1>1, <3>1, <3>2 DEF Guarded, Durable, Armed, Settled
        <3> QED
            BY <1>1, <1>3, <3>1, <3>2, <3>3
    <2> QED
        BY <2>1, <2>2
<1> QED
    BY <1>2, <1>3, <1>5 DEF CacheInv, StoredKept

\* Without a hot journal the stored database is the file.
LEMMA ColdStored == ~Hot(jrnl) => Stored = db
BY DEF Stored, Recovered

LEMMA CacheValidates ==
    ASSUME PagerInv, CacheInv, NEW p \in Handles, Validate(p)
    PROVE  CacheInv' /\ StoredKept
<1> DEFINE kept == IF mem[p].vers = db[1] THEN mem[p].cache ELSE NoPages
           cache == [kept EXCEPT ![1] = db[1]]
           m == [mem[p] EXCEPT !.cache = cache, !.vers = db[1]]
<1>1. /\ mem[p] \in PagerFields(tx) /\ 1 \in Pages /\ db[1] \in 0 .. tx
    BY PagerAssumption DEF PagerInv, Values, Content, Pages
<1>2. /\ pc[p] = "validate" /\ mem' = [mem EXCEPT ![p] = m] /\ pc' = [pc EXCEPT ![p] = "reader"]
      /\ UNCHANGED <<lockVars, files>>
    BY DEF Validate, Fields, Goto
<1>3. ~Hot(jrnl) /\ Stored = db
    BY <1>2, ColdStored DEF CacheInv, Guarded, NeverHot
<1>4. \A i \in Pages : cache[i] \in {None, db[i]} /\ cache[1] = db[1]
    <2>1. mem[p].vers = db[1] => \A i \in Pages : mem[p].cache[i] \in {None, db[i]}
        BY <1>2, <1>3 DEF CacheInv, Fresh, Active, InWrite, InFlush
    <2> QED
        BY <1>1, <2>1 DEF PagerFields, Fields0, NoPages
<1> HIDE DEF cache
<1>5. m.cache = cache /\ m.vers = db[1]
    BY <1>1 DEF PagerFields, Fields0
<1> HIDE DEF m
<1>6. /\ Kept(p) /\ mem'[p] = m /\ pc'[p] = "reader"
    BY <1>2 DEF PagerInv, Values, Kept, lockVars
<1>7. Guarded(p)'
    BY <1>2, <1>3 DEF Guarded, files
<1>8. /\ Writing("reader", m, db, jrnl, dead) /\ Restoring("reader", m, db, jrnl)
      /\ Durable("reader")
    BY DEF Writing, Restoring, Durable, InWrite, InFlush, Active
<1>9. Fresh("reader", m, Stored)
    BY <1>1, <1>3, <1>4, <1>5 DEF Fresh
<1> QED
    BY <1>2, <1>6, <1>7, <1>8, <1>9, QuietStep

LEMMA CachePages ==
    ASSUME PagerInv, CacheInv, NEW p \in Handles, NEW i \in Pages,
           ReadPage(p, i) \/ Evict(p, i)
    PROVE  CacheInv' /\ StoredKept
<1> DEFINE v == IF ReadPage(p, i) THEN db[i] ELSE None
           m == [mem[p] EXCEPT !.cache[i] = v]
<1>1. /\ mem[p] \in PagerFields(tx) /\ mem[p].cache[i] # v /\ 1 \in Pages
      /\ mem' = [mem EXCEPT ![p] = m] /\ UNCHANGED <<lockVars, files, pc>>
      /\ pc[p] \in {"reader", "dbmod"} /\ (pc[p] = "dbmod" => i \notin mem[p].dirty)
    BY PagerAssumption DEF PagerInv, Values, ReadPage, Evict, Fields, Pages
<1>2. /\ i = 1 => v = db[1] /\ mem[p].cache[1] = None
      /\ v \in {None, db[i]}
      /\ pc[p] = "dbmod" => v = None /\ i # 1
    BY DEF ReadPage, Evict
<1>3. /\ m.vers = mem[p].vers /\ m.dirty = mem[p].dirty /\ m.orig = mem[p].orig
      /\ m.commit = mem[p].commit /\ m.logged = mem[p].logged
      /\ \A k \in Pages : m.cache[k] = IF k = i THEN v ELSE mem[p].cache[k]
    <2> HIDE DEF v
    <2> QED
        BY <1>1 DEF PagerFields, Fields0
<1> HIDE DEF m, v
<1>4. /\ Kept(p) /\ mem'[p] = m /\ pc'[p] = pc[p]
    BY <1>1 DEF PagerInv, Values, Kept, lockVars
<1>5. Guarded(p)'
    BY <1>1 DEF CacheInv, Guarded, files, lockVars
<1>6. Restoring(pc[p], m, db, jrnl) /\ Durable(pc[p])
    BY <1>1 DEF Restoring, Durable
<1>7. Writing(pc[p], m, db, jrnl, dead)
    <2>1. CASE pc[p] = "reader"
        BY <2>1 DEF Writing, InWrite, InFlush, Active
    <2>2. CASE pc[p] = "dbmod"
        <3>1. Writing("dbmod", mem[p], db, jrnl, dead)
            BY <2>2 DEF CacheInv
        <3>2. CacheOfWriter(mem[p], db, Recovered(db, jrnl)) /\ JournalOf("dbmod", mem[p], db, jrnl, dead)
            BY <3>1 DEF Writing, Active, InWrite
        <3>3. mem[p].cache[i] = db[i] /\ v = None
            BY <1>1, <1>2, <2>2, <3>2 DEF CacheOfWriter
        <3>4. ReadFrom(m, db) = ReadFrom(mem[p], db)
            BY <1>3, <3>3 DEF ReadFrom
        <3>5. CacheOfWriter(m, db, Recovered(db, jrnl))
            BY <1>1, <1>2, <1>3, <2>2, <3>2, <3>4 DEF CacheOfWriter
        <3>6. JournalOf("dbmod", m, db, jrnl, dead)
            BY <1>3, <3>2 DEF JournalOf
        <3> QED
            BY <1>3, <2>2, <3>1, <3>5, <3>6 DEF Writing
    <2> QED
        BY <1>1, <2>1, <2>2
<1>8. Fresh(pc[p], m, Stored)
    <2>1. CASE pc[p] = "reader"
        <3>1. Stored = db /\ Fresh(pc[p], mem[p], db)
            BY <2>1, ColdStored DEF CacheInv, Guarded, NeverHot
        <3> QED
            BY <1>1, <1>2, <1>3, <2>1, <3>1 DEF Fresh, Active, InWrite, InFlush
    <2>2. CASE pc[p] = "dbmod"
        BY <2>2 DEF Fresh, Active, InWrite
    <2> QED
        BY <1>1, <2>1, <2>2
<1> QED
    BY <1>1, <1>4, <1>5, <1>6, <1>7, <1>8, QuietStep

----------------------------------------------------------------------------
(* Writing *)

\* A file without holes has the pages up to its size.
LEMMA SizeOfFile ==
    ASSUME Values, PrefixClosed(db)
    PROVE  \A i \in Pages : db[i] # None <=> i <= Cardinality({k \in Pages : db[k] # None})
<1> DEFINE S == {k \in Pages : db[k] # None}
           T == Pages \ S
<1>1. \A i \in Pages : i \in S <=> db[i] # None
    OBVIOUS
<1>2. CASE T = {}
    <2>1. S = 1 .. LastPage
        BY <1>2 DEF Pages
    <2> HIDE DEF S
    <2>2. Cardinality(S) = LastPage
        BY <2>1, FS_Interval, PagerAssumption
    <2> QED
        BY <1>1, <2>1, <2>2, PagerAssumption DEF Pages, S
<1>3. CASE T # {}
    <2> DEFINE least == Min(T)
    <2>1. T \in SUBSET Nat /\ \A k \in T : k \in Pages /\ k \notin S
        BY DEF Pages
    <2>2. \A k \in Pages : k \notin T => k \in S
        OBVIOUS
    <2>3. \A i, k \in Pages : k <= i /\ i \in S => k \in S
        BY DEF PrefixClosed
    <2>4. S \subseteq Pages
        OBVIOUS
    <2> HIDE DEF S, T
    <2>5. least \in T /\ \A k \in T : least <= k
        BY <1>3, <2>1, LeastExists
    <2> HIDE DEF least
    <2>6. least \in Pages /\ least \in 1 .. LastPage
        BY <2>1, <2>5 DEF Pages
    <2>7. ASSUME NEW k \in Pages PROVE k \in S <=> k <= least - 1
        <3>1. k \in 1 .. LastPage
            BY DEF Pages
        <3>2. k < least => k \in S
            BY <2>2, <2>5, <2>6, <3>1, PagerAssumption
        <3>3. least <= k => k \notin S
            BY <2>1, <2>3, <2>5, <2>6
        <3> QED
            BY <2>6, <3>1, <3>2, <3>3, PagerAssumption
    <2>8. S = 1 .. least - 1
        <3>1. ASSUME NEW k \in 1 .. least - 1 PROVE k \in S
            <4>1. k \in Pages /\ k <= least - 1
                BY <2>6, PagerAssumption DEF Pages
            <4> QED
                BY <2>7, <4>1
        <3>2. ASSUME NEW k \in S PROVE k \in 1 .. least - 1
            <4>1. k \in Pages /\ k <= least - 1
                BY <2>4, <2>7
            <4> QED
                BY <2>6, <4>1, PagerAssumption DEF Pages
        <3> QED
            BY <3>1, <3>2
    <2>9. Cardinality(S) = least - 1
        BY <2>6, <2>8, FS_Interval, PagerAssumption
    <2> QED
        BY <1>1, <2>7, <2>9 DEF S
<1> QED
    BY <1>2, <1>3

LEMMA CacheBegins ==
    ASSUME PagerInv, CacheInv, NEW p \in Handles, BeginWrite(p)
    PROVE  CacheInv' /\ StoredKept
<1> DEFINE size == Cardinality({i \in Pages : db[i] # None})
           m == [mem[p] EXCEPT !.orig = size, !.logged = {}, !.commit = FALSE]
<1>1. /\ mem[p] \in PagerFields(tx) /\ pc[p] = "reader" /\ GetReserved(p)
      /\ mem' = [mem EXCEPT ![p] = m] /\ pc' = [pc EXCEPT ![p] = "locked"] /\ UNCHANGED files
    BY DEF PagerInv, Values, BeginWrite, Fields, Goto
<1>2. ~Hot(jrnl)
    BY <1>1 DEF CacheInv, Guarded, NeverHot
<1>3. \A i \in Pages : db[i] # None <=> i <= size
    BY <1>2, SizeOfFile DEF PagerInv, CacheInv, Disk, Armed, Settled
<1> HIDE DEF size
<1>4. m.orig = size /\ m.vers = mem[p].vers /\ m.cache = mem[p].cache
    BY <1>1 DEF PagerFields, Fields0
<1> HIDE DEF m
<1>5. /\ Kept(p) /\ mem'[p] = m /\ pc'[p] = "locked"
    BY <1>1, Locking DEF PagerInv, LockInv, Values, Kept
<1>6. Guarded(p)'
    BY <1>1, <1>2 DEF Guarded, files
<1>7. Restoring("locked", m, db, jrnl) /\ Durable("locked")
    BY DEF Restoring, Durable
<1>8. Writing("locked", m, db, jrnl, dead)
    BY <1>3, <1>4 DEF Writing, Active
<1>9. Fresh("locked", m, Stored)
    BY <1>1, <1>4 DEF CacheInv, Fresh, Active, InWrite, InFlush
<1> QED
    BY <1>1, <1>5, <1>6, <1>7, <1>8, <1>9, QuietStep

LEMMA CacheLocks ==
    ASSUME PagerInv, CacheInv, NEW p \in Handles, BeginSync(p) \/ BusySync(p)
    PROVE  CacheInv' /\ StoredKept
<1>1. /\ Kept(p) /\ UNCHANGED files /\ mem'[p] = mem[p] /\ reserved' = reserved
      /\ pc[p] \in {"lock", "cachemod", "dbmod"}
      /\ \/ pc'[p] = "sync" /\ level'[p] = Exclusive
         \/ pc'[p] = pc[p] /\ level[p] # Exclusive
    <2>1. CASE BeginSync(p)
        BY <2>1, Locking DEF PagerInv, LockInv, Kept, BeginSync, Goto, lockVars
    <2>2. CASE BusySync(p)
        <3>1. level[p] # Exclusive
            BY <2>2 DEF BusySync, GetPending, Shared, Reserved, Exclusive
        <3> QED
            BY <2>2, <3>1, Locking DEF PagerInv, LockInv, Kept, BusySync
    <2> QED
        BY <2>1, <2>2
<1>2. Guarded(p)'
    <2>1. p \in reserved
        BY <1>1 DEF PagerInv, Placed, InTransaction, InWrite
    <2> QED
        BY <1>1, <2>1 DEF CacheInv, Guarded, NeverHot, files
<1>3. Restoring(pc'[p], mem[p], db, jrnl) /\ Durable(pc'[p])
    BY <1>1 DEF Restoring, Durable
<1>4. Writing(pc'[p], mem[p], db, jrnl, dead)
    <2>1. Writing(pc[p], mem[p], db, jrnl, dead)
        BY DEF CacheInv
    <2> QED
        BY <1>1, <2>1 DEF Writing, JournalOf, InWrite, InFlush, Active
<1>5. Fresh(pc'[p], mem[p], Stored)
    BY <1>1 DEF Fresh, Active, InWrite, InFlush
<1> QED
    BY <1>1, <1>2, <1>3, <1>4, <1>5, QuietStep

LEMMA EmptyJournal ==
    ASSUME NEW o \in Pages, NEW n
    PROVE  LET j == NewJournal(o) IN
           /\ j \in JournalsOf(n) /\ JournalOK(j) /\ j.orig = o
           /\ Len(j.magic) = 1 /\ ~j.magic[1] /\ Len(j.recs) = 0
<1> DEFINE j == NewJournal(o)
<1>1. j.orig = o
    BY DEF NewJournal
<1>2. j.magic = <<FALSE>>
    BY DEF NewJournal
<1>3. j.magics = <<{FALSE}>>
    BY DEF NewJournal
<1>4. j.recs = <<>>
    BY DEF NewJournal
<1>5. /\ <<FALSE>> \in Seq(BOOLEAN) /\ <<{FALSE}>> \in Seq(SUBSET BOOLEAN)
      /\ Len(<<FALSE>>) = 1 /\ Len(<<{FALSE}>>) = 1 /\ <<FALSE>> # <<>>
      /\ \A S : <<>> \in Seq(S)
    BY EmptySeq
<1>6. j \in JournalsOf(n)
    BY <1>5 DEF NewJournal, JournalsOf, Journals
<1> HIDE DEF j
<1>7. Len(j.magic) = 1 /\ Len(j.recs) = 0
    BY <1>2, <1>4, <1>5, EmptySeq
<1>8. j.magic[1] = FALSE /\ j.magics[1] = {FALSE}
    BY <1>2, <1>3
<1>9. JournalOK(j)
    <2>1. \A s \in 1 .. Len(j.magic) : s = 1
        BY <1>7
    <2>2. 1 .. Len(j.magic) - 1 = {} /\ 1 .. Len(j.recs) = {}
        BY <1>7
    <2> QED
        BY <1>8, <2>1, <2>2 DEF JournalOK
<1> QED
    BY <1>1, <1>6, <1>7, <1>8, <1>9 DEF j

\* The journal a page is written to, made now or before.
LEMMA JournalAtHand ==
    ASSUME PagerInv, CacheInv, NEW p \in Handles, pc[p] \in {"locked", "cachemod", "dbmod"},
           NEW j, j = IF pc[p] = "locked" THEN NewJournal(mem[p].orig) ELSE jrnl,
           NEW s, pc[p] = "locked" => s = "cachemod", pc[p] # "locked" => s = pc[p]
    PROVE  /\ j \in JournalsOf(tx) /\ JournalOK(j) /\ Whole(j) /\ (Hot(j) <=> Hot(jrnl))
           /\ JournalOf(s, mem[p], db, j, dead) /\ CacheOfWriter(mem[p], db, Stored)
           /\ \A i \in Pages : Recovered(db, j)[i] = Stored[i]
           /\ ~Hot(j) => \A i \in Pages : db[i] # None <=> i <= mem[p].orig
<1>1. /\ Working(pc[p], mem[p], jrnl, tx) /\ mem[p] \in PagerFields(tx) /\ mem[p].orig \in Pages
      /\ Writing(pc[p], mem[p], db, jrnl, dead) /\ 1 \in Pages
    BY PagerAssumption DEF PagerInv, Values, CacheInv, Working, InWrite, Pages
<1>2. CASE pc[p] # "locked"
    <2>1. j = jrnl /\ s = pc[p] /\ jrnl # None
        BY <1>1, <1>2 DEF Working, InWrite
    <2>2. jrnl \in JournalsOf(tx) /\ JournalOK(jrnl) /\ Whole(jrnl)
        BY <2>1 DEF PagerInv, Values, CacheInv, Disk
    <2>3. JournalOf(pc[p], mem[p], db, jrnl, dead) /\ CacheOfWriter(mem[p], db, Stored)
        BY <1>1, <1>2 DEF Writing, Active, InWrite, Stored
    <2>4. ~Hot(j) => \A i \in Pages : db[i] # None <=> i <= mem[p].orig
        BY <1>1, <2>1 DEF Writing, InWrite
    <2>5. Recovered(db, j) = Stored
        BY <2>1 DEF Stored
    <2> HIDE DEF Stored
    <2> QED
        BY <2>1, <2>2, <2>3, <2>4, <2>5
<1>3. CASE pc[p] = "locked"
    <2>1. j = NewJournal(mem[p].orig) /\ s = "cachemod"
        BY <1>3
    <2>2. /\ j \in JournalsOf(tx) /\ JournalOK(j) /\ j.orig = mem[p].orig
          /\ Len(j.magic) = 1 /\ ~j.magic[1] /\ Len(j.recs) = 0
        BY <1>1, <2>1, EmptyJournal
    <2>6. ~Hot(j) /\ ~Hot(jrnl) /\ Stored = db /\ Recovered(db, j) = db
        BY <1>3, <2>2, ColdStored DEF CacheInv, Guarded, NeverHot, Hot, Recovered
    <2>7. Settled /\ \A i \in Pages : db[i] # None <=> i <= mem[p].orig
        BY <1>1, <1>3, <2>6 DEF CacheInv, Disk, Armed, Writing, InWrite
    <2>8. Whole(j)
        BY <2>2, <2>7 DEF Whole, Settled
    <2>9. JournalOf("cachemod", mem[p], db, j, dead)
        BY <2>2, <2>6 DEF JournalOf
    <2>10. CacheOfWriter(mem[p], db, db)
        <3>1. /\ mem[p].dirty = {} /\ mem[p].logged = {} /\ ~mem[p].commit /\ mem[p].vers # None
            BY <1>1, <1>3 DEF Working, InWrite, InFlush, InTransaction
        <3>2. Fresh("locked", mem[p], db)
            BY <1>3, <2>6 DEF CacheInv
        <3>3. /\ mem[p].vers = db[1] /\ mem[p].cache[1] = db[1]
              /\ \A i \in Pages : mem[p].cache[i] \in {None, db[i]}
            BY <3>2 DEF Fresh, Active, InWrite, InFlush
        <3>4. \A i \in Pages : ReadFrom(mem[p], db)[i] = db[i]
            BY <3>3 DEF ReadFrom
        <3>5. PrefixClosed(ReadFrom(mem[p], db))
            BY <2>7, <3>4 DEF Settled, PrefixClosed
        <3> QED
            BY <3>1, <3>3, <3>5 DEF CacheOfWriter
    <2> HIDE DEF Stored
    <2> QED
        BY <2>1, <2>2, <2>6, <2>7, <2>8, <2>9, <2>10
<1> QED
    BY <1>2, <1>3

LEMMA SameFile ==
    ASSUME NEW n, NEW j \in JournalsOf(n), NEW k \in JournalsOf(n),
           JournalOK(j), JournalOK(k), Hot(j) <=> Hot(k), k.orig = j.orig,
           Played(k) = Played(j), \A r \in Played(j) : k.recs[r] = j.recs[r],
           NEW f
    PROVE  \A i \in Pages : Recovered(f, k)[i] = Recovered(f, j)[i]
<1>1. CASE ~Hot(j)
    BY <1>1 DEF Recovered
<1>2. CASE Hot(j)
    BY <1>2, SameRecovery
<1> QED
    BY <1>1, <1>2

\* Another record in the last part, which has no header yet.
LEMMA LoggedPage ==
    ASSUME PagerInv, NEW j \in JournalsOf(tx), NEW k \in JournalsOf(tx), JournalOK(j), Whole(j),
           NEW m, NEW l, NEW s \in {"cachemod", "dbmod"}, NEW i \in Pages,
           i \notin m.logged, i <= m.orig, JournalOf(s, m, db, j, dead),
           k.recs = Append(j.recs, Record(i, db[i], Part(j))),
           k.magic = j.magic, k.magics = j.magics, k.orig = j.orig,
           l.orig = m.orig, l.logged = m.logged \cup {i}
    PROVE  /\ JournalOK(k) /\ Whole(k) /\ (Hot(k) <=> Hot(j)) /\ JournalOf(s, l, db, k, dead)
           /\ k.orig = j.orig /\ Played(k) = Played(j)
           /\ \A q \in Played(j) : k.recs[q] = j.recs[q]
<1> DEFINE r == Record(i, db[i], Part(j))
           len == Len(j.magic)
           old == Len(j.recs)
<1>1. /\ j \in Journals /\ j.recs \in Seq(Entries(tx)) /\ old \in Nat /\ len \in Nat \ {0}
      /\ j # None /\ k # None
    BY LenProperties, LastPart, PagerAssumption DEF JournalsOf, Part
<1>2. r.page = i /\ r.image = db[i] /\ r.part = len /\ r.valid
    BY DEF Record, Part
<1>3. db[i] # None
    BY DEF PagerInv, Values, Whole, JournalOf
<1>4. r \in Entries(tx)
    BY <1>1 DEF Record, Part, Entries, PagerInv, Values, Image
<1> HIDE DEF r
<1>5. /\ k.recs = Append(j.recs, r) /\ k.magic = j.magic /\ k.magics = j.magics /\ k.orig = j.orig
    BY DEF r
<1>6. /\ Len(k.recs) = old + 1 /\ k.recs[old + 1] = r
      /\ \A q \in 1 .. old : k.recs[q] = j.recs[q]
    BY <1>1, <1>4, <1>5, AppendProperties
<1>7. /\ \A q \in 1 .. old : /\ j.recs[q].valid /\ j.recs[q].page \in m.logged
                             /\ j.recs[q].page # i
                             /\ ~j.magic[j.recs[q].part] => db[j.recs[q].page] = j.recs[q].image
      /\ ~j.magic[len] /\ j.orig = m.orig
    BY DEF JournalOf
<1>8. /\ \A t \in 1 .. len : j.magic[t] \in j.magics[t]
      /\ \A t \in 1 .. len - 1 : j.magics[t] = {TRUE}
      /\ \A q \in 1 .. old : j.recs[q].page <= j.orig /\ j.recs[q].image # None
                             /\ j.recs[q].part \in 1 .. len
      /\ \A q, t \in 1 .. old : /\ j.recs[q].page = j.recs[t].page => q = t
                                /\ q <= t => j.recs[q].part <= j.recs[t].part
    BY DEF JournalOK
<1> HIDE DEF len, old
<1>9. JournalOK(k)
    <2>1. \A q \in 1 .. old + 1 : k.recs[q].page <= j.orig /\ k.recs[q].image # None
                                  /\ k.recs[q].part \in 1 .. len
        BY <1>1, <1>2, <1>3, <1>6, <1>7, <1>8
    <2>2. \A q, t \in 1 .. old + 1 : /\ k.recs[q].page = k.recs[t].page => q = t
                                     /\ q <= t => k.recs[q].part <= k.recs[t].part
        BY <1>1, <1>2, <1>6, <1>7, <1>8
    <2> QED
        BY <1>5, <1>6, <1>8, <2>1, <2>2 DEF JournalOK, len
<1>10. Whole(k) /\ (Hot(k) <=> Hot(j))
    BY <1>1, <1>5 DEF Whole, Hot
<1>11. JournalOf(s, l, db, k, dead)
    <2>1. ASSUME NEW q \in 1 .. old + 1
          PROVE  /\ k.recs[q].valid /\ k.recs[q].page \in l.logged
                 /\ ~k.magic[k.recs[q].part] => db[k.recs[q].page] = k.recs[q].image
        <3>1. CASE q = old + 1
            BY <1>2, <1>6, <3>1
        <3>2. CASE q \in 1 .. old
            <4>1. k.recs[q] = j.recs[q] /\ k.magic = j.magic
                BY <1>5, <1>6, <3>2
            <4> QED
                BY <1>7, <3>2, <4>1
        <3>3. q = old + 1 \/ q \in 1 .. old
            BY <1>1
        <3> QED
            BY <3>1, <3>2, <3>3
    <2> QED
        BY <1>5, <1>6, <1>10, <2>1 DEF JournalOf
<1>12. Played(k) = Played(j)
    <2>1. ASSUME NEW q \in Played(j) PROVE q \in Played(k)
        BY <1>1, <1>5, <1>6 DEF Played, old
    <2>2. ASSUME NEW q \in Played(k) PROVE q \in Played(j)
        <3>1. q \in 1 .. old + 1 /\ \A t \in 1 .. q : k.magic[k.recs[t].part]
            BY <1>6, <2>2 DEF Played
        <3>2. q # old + 1
            BY <1>1, <1>2, <1>5, <1>6, <1>7, <3>1
        <3>3. q \in 1 .. old
            BY <1>1, <3>1, <3>2
        <3>4. \A t \in 1 .. q : j.recs[t].valid /\ j.magic[j.recs[t].part]
            BY <1>1, <1>5, <1>6, <1>7, <3>1, <3>3
        <3> QED
            BY <3>3, <3>4 DEF Played, old
    <2> QED
        BY <2>1, <2>2
<1>13. \A q \in Played(j) : k.recs[q] = j.recs[q]
    BY <1>6 DEF Played, old
<1> QED
    BY <1>5, <1>9, <1>10, <1>11, <1>12, <1>13

\* A page that is changed: the journal, and the cache over the file.
LEMMA CacheModifies ==
    ASSUME PagerInv, CacheInv, NEW p \in Handles, pc[p] \in {"locked", "cachemod", "dbmod"},
           NEW i \in Pages, NEW v \in Content(i, tx), v # None, LogPage(p, i),
           NEW s, pc[p] = "locked" => s = "cachemod", pc[p] # "locked" => s = pc[p]
    PROVE  LET m == Modified(p, i, v) IN
           /\ jrnl' \in JournalsOf(tx) /\ JournalOK(jrnl') /\ Whole(jrnl')
           /\ Hot(jrnl') <=> Hot(jrnl)
           /\ JournalOf(s, m, db, jrnl', dead)
           /\ \A x \in Pages : Recovered(db, jrnl')[x] = Stored[x]
           /\ ~Hot(jrnl') => \A x \in Pages : db[x] # None <=> x <= m.orig
           /\ \A x \in Pages :
                  /\ x \in m.dirty /\ x <= m.orig => x \in m.logged
                  /\ x \notin m.dirty => m.cache[x] \in {None, db[x]}
                  /\ ReadFrom(m, db)[x] = IF x = i THEN v ELSE ReadFrom(mem[p], db)[x]
           /\ CacheOfWriter(mem[p], db, Stored)
<1> DEFINE j == IF pc[p] = "locked" THEN NewJournal(mem[p].orig) ELSE jrnl
           m == Modified(p, i, v)
<1>1. /\ j \in JournalsOf(tx) /\ JournalOK(j) /\ Whole(j) /\ (Hot(j) <=> Hot(jrnl))
      /\ JournalOf(s, mem[p], db, j, dead) /\ CacheOfWriter(mem[p], db, Stored)
      /\ \A x \in Pages : Recovered(db, j)[x] = Stored[x]
      /\ ~Hot(j) => \A x \in Pages : db[x] # None <=> x <= mem[p].orig
    BY JournalAtHand
<1>2. /\ m.orig = mem[p].orig /\ m.dirty = mem[p].dirty \cup {i}
      /\ m.logged = IF ToLog(p, i) THEN mem[p].logged \cup {i} ELSE mem[p].logged
      /\ \A x \in Pages : m.cache[x] = IF x = i THEN v ELSE mem[p].cache[x]
      /\ jrnl' \in JournalsOf(tx)
    <2>1. v \in 0 .. MaxTx \cup {None}
        BY PagerAssumption DEF PagerInv, Values, Content
    <2>2. jrnl' \in JournalsOf(tx)
        BY ModifyingPage
    <2>3. /\ m.vers = mem[p].vers /\ m.orig = mem[p].orig /\ m.commit = mem[p].commit
          /\ m.todo = mem[p].todo /\ m.dirty = mem[p].dirty \cup {i}
          /\ m.logged = IF ToLog(p, i) THEN mem[p].logged \cup {i} ELSE mem[p].logged
          /\ \A k \in Pages : m.cache[k] = IF k = i THEN v ELSE mem[p].cache[k]
          /\ m \in Fields0
        BY <2>1, ModifiedFields DEF m
    <2> HIDE DEF m
    <2> QED
        BY <2>2, <2>3
<1>3. /\ \A x \in mem[p].dirty : x \in Pages
      /\ mem[p].orig \in Nat
    BY PagerAssumption DEF PagerInv, Values, PagerFields, Fields0
<1>4. jrnl' = IF ToLog(p, i)
              THEN [j EXCEPT !.recs = Append(j.recs, Record(i, Original(p, i), Part(j)))]
              ELSE j
    BY DEF LogPage
<1> HIDE DEF j, m
<1>5. /\ \A x \in Pages :
             /\ x \in mem[p].dirty /\ x <= mem[p].orig => x \in mem[p].logged
             /\ x \notin mem[p].dirty => mem[p].cache[x] \in {None, db[x]}
    BY <1>1 DEF CacheOfWriter
<1>6. /\ \A x \in Pages :
             /\ x \in m.dirty /\ x <= m.orig => x \in m.logged
             /\ x \notin m.dirty => m.cache[x] \in {None, db[x]}
             /\ ReadFrom(m, db)[x] = IF x = i THEN v ELSE ReadFrom(mem[p], db)[x]
    BY <1>2, <1>5 DEF ToLog, ReadFrom
<1> DEFINE Done ==
               /\ JournalOK(jrnl') /\ Whole(jrnl') /\ (Hot(jrnl') <=> Hot(jrnl))
               /\ JournalOf(s, m, db, jrnl', dead)
               /\ \A x \in Pages : Recovered(db, jrnl')[x] = Stored[x]
               /\ ~Hot(jrnl') => \A x \in Pages : db[x] # None <=> x <= m.orig
<1>7. ASSUME ~ToLog(p, i) PROVE Done
    <2>1. jrnl' = j /\ m.logged = mem[p].logged /\ m.orig = mem[p].orig
        BY <1>2, <1>4, <1>7
    <2>2. JournalOf(s, m, db, j, dead)
        BY <1>1, <2>1 DEF JournalOf
    <2> HIDE DEF Stored
    <2> QED
        BY <1>1, <2>1, <2>2
<1>8. ASSUME ToLog(p, i) PROVE Done
    <2>1. i \notin mem[p].logged /\ i <= mem[p].orig
        BY <1>8 DEF ToLog
    <2>2. Original(p, i) = db[i]
        BY <1>5, <2>1 DEF Original
    <2>3. /\ jrnl'.recs = Append(j.recs, Record(i, db[i], Part(j)))
          /\ jrnl'.magic = j.magic /\ jrnl'.magics = j.magics /\ jrnl'.orig = j.orig
        BY <1>1, <1>4, <1>8, <2>2 DEF JournalsOf, Journals
    <2>4. m.orig = mem[p].orig /\ m.logged = mem[p].logged \cup {i}
        BY <1>2, <1>8
    <2>5. s \in {"cachemod", "dbmod"}
        OBVIOUS
    <2>6. /\ JournalOK(jrnl') /\ Whole(jrnl') /\ (Hot(jrnl') <=> Hot(j))
          /\ JournalOf(s, m, db, jrnl', dead)
          /\ jrnl'.orig = j.orig /\ Played(jrnl') = Played(j)
          /\ \A q \in Played(j) : jrnl'.recs[q] = j.recs[q]
        <3>1. j \in JournalsOf(tx) /\ JournalOK(j) /\ Whole(j)
              /\ JournalOf(s, mem[p], db, j, dead)
            BY <1>1
        <3>2. jrnl' \in JournalsOf(tx)
            BY <1>2
        <3>3. JournalOK(jrnl') /\ Whole(jrnl')
            BY <2>1, <2>3, <2>4, <2>5, <3>1, <3>2, LoggedPage
        <3>4. (Hot(jrnl') <=> Hot(j)) /\ JournalOf(s, m, db, jrnl', dead)
            BY <2>1, <2>3, <2>4, <2>5, <3>1, <3>2, LoggedPage
        <3>5. jrnl'.orig = j.orig /\ Played(jrnl') = Played(j)
            BY <2>1, <2>3, <2>4, <2>5, <3>1, <3>2, LoggedPage
        <3>6. ASSUME NEW q \in Played(j) PROVE jrnl'.recs[q] = j.recs[q]
            <4>1. q \in 1 .. Len(j.recs)
                BY DEF Played
            <4>2. j.recs \in Seq(Entries(tx)) /\ jrnl'.recs \in Seq(Entries(tx))
                BY <1>1, <1>2 DEF JournalsOf
            <4> DEFINE r == Record(i, db[i], Part(j))
            <4>3. jrnl'.recs = Append(j.recs, r)
                BY <2>3
            <4> HIDE DEF r
            <4>4. Append(j.recs, r)[q] = j.recs[q]
                BY <4>1, <4>2
            <4> QED
                BY <4>3, <4>4
        <3> QED
            BY <3>3, <3>4, <3>5, <3>6
    <2>7. \A x \in Pages : Recovered(db, jrnl')[x] = Recovered(db, j)[x]
        BY <1>1, <1>2, <2>6, SameFile
    <2> HIDE DEF Stored
    <2> QED
        BY <1>1, <2>4, <2>6, <2>7
<1> QED
    BY <1>1, <1>2, <1>6, <1>7, <1>8 DEF m

\* A journal that has begun another part is hot for good.
LEMMA FirstPartSynced ==
    ASSUME NEW n, NEW j \in JournalsOf(n), JournalOK(j), Hot(j), ~j.magic[Len(j.magic)]
    PROVE  j.magics[1] = {TRUE} /\ Len(j.magic) > 1
<1> DEFINE len == Len(j.magic)
<1>1. len \in Nat \ {0} /\ \A s \in 1 .. len - 1 : j.magics[s] = {TRUE}
    BY LastPart DEF Part, JournalOK
<1>2. j.magic[1] /\ ~j.magic[len]
    BY DEF Hot
<1> HIDE DEF len
<1>3. len # 1
    BY <1>2
<1>4. 1 \in 1 .. len - 1 /\ len > 1
    <2>1. len \in Nat \ {0}
        BY <1>1
    <2> QED
        BY <1>3, <2>1
<1>5. j.magics[1] = {TRUE}
    BY <1>1, <1>4
<1> QED
    BY <1>4, <1>5 DEF len

\* The files after another page has been logged.
LEMMA LoggedDisk ==
    ASSUME PagerInv, CacheInv, NEW p \in Handles, pc[p] \in {"locked", "cachemod", "dbmod"},
           UNCHANGED <<lockVars, db, dbMaybe, dead>>, NEW m, NEW s \in {"cachemod", "lock", "dbmod"},
           pc'[p] = s, pc[p] = "dbmod" => s # "cachemod",
           jrnl' \in JournalsOf(tx), JournalOK(jrnl'), Whole(jrnl'), Hot(jrnl') <=> Hot(jrnl),
           JournalOf(s, m, db, jrnl', dead)
    PROVE  Disk' /\ Guarded(p)'
<1>1. \A j \in dead' \cup {jrnl'} : j # None => JournalOK(j) /\ Whole(j)'
    BY DEF CacheInv, Disk, Whole
<1>2. Settled => Settled'
    BY DEF Settled
<1>3. Armed => Armed'
    <2> SUFFICES ASSUME Armed PROVE Armed'
        OBVIOUS
    <2>1. Hot(jrnl') /\ ~jrnl'.magic[Len(jrnl'.magic)]
        BY DEF Armed, JournalOf
    <2>2. jrnl'.magics[1] = {TRUE}
        BY <2>1, FirstPartSynced
    <2> QED
        BY <2>1, <2>2 DEF Armed
<1>4. Guarded(p)'
    <2> SUFFICES ASSUME Hot(jrnl') PROVE s \notin NeverHot /\ (p \in reserved => level[p] = Exclusive)
        BY DEF Guarded, lockVars
    <2> QED
        BY DEF CacheInv, Guarded, NeverHot
<1> QED
    BY <1>1, <1>2, <1>3, <1>4 DEF CacheInv, Disk

LEMMA CacheWrites ==
    ASSUME PagerInv, CacheInv, NEW p \in Handles, NEW i \in Pages, WritePage(p, i)
    PROVE  CacheInv' /\ StoredKept
<1> DEFINE m == Modified(p, i, tx)
           s == IF pc[p] = "locked" THEN "cachemod" ELSE pc[p]
<1>1. /\ pc[p] \in {"locked", "cachemod", "dbmod"} /\ i # 1 /\ LogPage(p, i)
      /\ mem' = [mem EXCEPT ![p] = m] /\ pc' = [pc EXCEPT ![p] = s]
      /\ UNCHANGED <<lockVars, db, dbMaybe, dead, tx>>
      /\ 1 \in Pages /\ i - 1 \in Pages /\ Original(p, i - 1) # None
    BY PagerAssumption DEF WritePage, Fields, Goto, Pages
<1>2. tx \in Content(i, tx) /\ tx # None /\ tx \in 0 .. MaxTx \cup {None}
    BY <1>1, PagerAssumption DEF PagerInv, Values, Content
<1>3. /\ s \in {"cachemod", "dbmod"} /\ (pc[p] = "locked" => s = "cachemod")
      /\ (pc[p] # "locked" => s = pc[p])
    BY <1>1
<1> HIDE DEF s
<1>4. /\ jrnl' \in JournalsOf(tx) /\ JournalOK(jrnl') /\ Whole(jrnl')
      /\ Hot(jrnl') <=> Hot(jrnl)
      /\ JournalOf(s, m, db, jrnl', dead)
      /\ \A x \in Pages : Recovered(db, jrnl')[x] = Stored[x]
      /\ ~Hot(jrnl') => \A x \in Pages : db[x] # None <=> x <= m.orig
      /\ \A x \in Pages :
             /\ x \in m.dirty /\ x <= m.orig => x \in m.logged
             /\ x \notin m.dirty => m.cache[x] \in {None, db[x]}
             /\ ReadFrom(m, db)[x] = IF x = i THEN tx ELSE ReadFrom(mem[p], db)[x]
      /\ CacheOfWriter(mem[p], db, Stored)
    BY <1>1, <1>2, <1>3, CacheModifies
<1>5. /\ m.vers = mem[p].vers /\ m.commit = mem[p].commit /\ m.dirty = mem[p].dirty \cup {i}
      /\ m.logged = IF ToLog(p, i) THEN mem[p].logged \cup {i} ELSE mem[p].logged
      /\ \A x \in Pages : m.cache[x] = IF x = i THEN tx ELSE mem[p].cache[x]
    <2>1. tx \in 0 .. MaxTx \cup {None}
        BY <1>2
    <2>2. /\ m.vers = mem[p].vers /\ m.orig = mem[p].orig /\ m.commit = mem[p].commit
          /\ m.todo = mem[p].todo /\ m.dirty = mem[p].dirty \cup {i}
          /\ m.logged = IF ToLog(p, i) THEN mem[p].logged \cup {i} ELSE mem[p].logged
          /\ \A k \in Pages : m.cache[k] = IF k = i THEN tx ELSE mem[p].cache[k]
          /\ m \in Fields0
        BY <2>1, ModifiedFields
    <2> HIDE DEF m
    <2> QED
        BY <2>2
<1> HIDE DEF m
<1>6. /\ Kept(p) /\ mem'[p] = m /\ pc'[p] = s /\ UNCHANGED lockVars
    BY <1>1 DEF PagerInv, Values, Kept, lockVars
<1>7. ~mem[p].commit
    BY <1>1 DEF PagerInv, Working
<1>8. Disk' /\ Guarded(p)'
    <2>1. pc[p] = "dbmod" => s # "cachemod"
        BY <1>3
    <2>2. UNCHANGED <<lockVars, db, dbMaybe, dead>> /\ JournalOf(s, m, db, jrnl', dead')
        BY <1>1, <1>4
    <2> QED
        BY <1>1, <1>3, <1>4, <1>6, <2>1, <2>2, LoggedDisk
<1>9. Stored' = Recovered(db, jrnl')
    BY <1>1 DEF Stored
<1>10. CacheOfWriter(m, db, Stored')
    <2>1. PrefixClosed(ReadFrom(m, db))
        <3>1. PrefixClosed(ReadFrom(mem[p], db))
            BY <1>4 DEF CacheOfWriter
        <3>2. ReadFrom(mem[p], db)[i - 1] # None
            BY <1>1 DEF ReadFrom, Original
        <3>3. \A x \in Pages : x <= i => x = i \/ x <= i - 1
            BY DEF Pages
        <3> DEFINE f == ReadFrom(mem[p], db)
                   g == ReadFrom(m, db)
        <3> HIDE DEF f, g
        <3>4. /\ PrefixClosed(f) /\ f[i - 1] # None
              /\ \A x \in Pages : g[x] = IF x = i THEN tx ELSE f[x]
            BY <1>4, <3>1, <3>2 DEF f, g
        <3>5. PrefixClosed(g)
            BY <1>1, <1>2, <3>3, <3>4 DEF PrefixClosed
        <3> QED
            BY <3>5 DEF g
    <2>2. /\ 1 \notin m.logged /\ 1 \notin m.dirty /\ ~m.commit
          /\ m.cache[1] = Stored[1] /\ m.vers = Stored[1]
        BY <1>1, <1>4, <1>5, <1>7 DEF CacheOfWriter
    <2>3. Stored'[1] = Stored[1]
        BY <1>1, <1>4, <1>9
    <2> HIDE DEF Stored
    <2> QED
        BY <1>4, <2>1, <2>2, <2>3 DEF CacheOfWriter
<1>11. Writing(pc'[p], mem'[p], db', jrnl', dead')
    BY <1>1, <1>3, <1>4, <1>6, <1>9, <1>10 DEF Writing
<1>12. Restoring(pc'[p], mem'[p], db', jrnl') /\ Durable(pc[p])'
    BY <1>3, <1>6 DEF Restoring, Durable
<1>13. Fresh(pc'[p], mem'[p], Stored')
    BY <1>3, <1>6 DEF Fresh, Active, InWrite
<1>14. \A x \in Pages : Stored'[x] = Stored[x]
    BY <1>4, <1>9
<1>15. pc[p] \in Owning
    BY <1>1 DEF Owning, InWrite
<1> HIDE DEF Stored
<1> QED
    BY <1>4, <1>6, <1>8, <1>11, <1>12, <1>13, <1>14, <1>15, CacheStep

LEMMA CacheCommits ==
    ASSUME PagerInv, CacheInv, NEW p \in Handles, CommitPhaseOne(p)
    PROVE  CacheInv' /\ StoredKept
<1> DEFINE v == mem[p].vers + 1
           w == Modified(p, 1, v)
           m == [w EXCEPT !.commit = TRUE]
<1>1. /\ pc[p] \in {"cachemod", "dbmod"} /\ LogPage(p, 1)
      /\ mem' = [mem EXCEPT ![p] = m] /\ pc' = [pc EXCEPT ![p] = "lock"]
      /\ UNCHANGED <<lockVars, db, dbMaybe, dead, tx>>
    BY DEF CommitPhaseOne, Fields, Goto
<1>2. Working(pc[p], mem[p], jrnl, tx) /\ mem[p] \in PagerFields(tx) /\ tx \in 0 .. MaxTx
      /\ mem[p].orig \in Pages
    BY <1>1 DEF PagerInv, Values, Working, InWrite
<1>3. /\ mem[p].vers \in 0 .. tx /\ mem[p].vers < tx /\ ~mem[p].commit
    BY <1>1, <1>2, PagerAssumption
       DEF Working, InTransaction, InWrite, PagerFields, CacheOf, Content
<1>4. /\ v \in Content(1, tx) /\ v # None /\ 1 \in Pages /\ v \in 0 .. MaxTx \cup {None}
      /\ v = mem[p].vers + 1
    BY <1>2, <1>3, PagerAssumption DEF Content, Pages
<1> HIDE DEF v
<1>5. /\ jrnl' \in JournalsOf(tx) /\ JournalOK(jrnl') /\ Whole(jrnl')
      /\ Hot(jrnl') <=> Hot(jrnl)
      /\ JournalOf(pc[p], w, db, jrnl', dead)
      /\ \A x \in Pages : Recovered(db, jrnl')[x] = Stored[x]
      /\ ~Hot(jrnl') => \A x \in Pages : db[x] # None <=> x <= w.orig
      /\ \A x \in Pages :
             /\ x \in w.dirty /\ x <= w.orig => x \in w.logged
             /\ x \notin w.dirty => w.cache[x] \in {None, db[x]}
             /\ ReadFrom(w, db)[x] = IF x = 1 THEN v ELSE ReadFrom(mem[p], db)[x]
      /\ CacheOfWriter(mem[p], db, Stored)
    BY <1>1, <1>4, CacheModifies
<1>6. /\ w.vers = mem[p].vers /\ w.orig = mem[p].orig /\ w.commit = mem[p].commit
      /\ w.todo = mem[p].todo /\ w.dirty = mem[p].dirty \cup {1}
      /\ w.logged = IF ToLog(p, 1) THEN mem[p].logged \cup {1} ELSE mem[p].logged
      /\ \A k \in Pages : w.cache[k] = IF k = 1 THEN v ELSE mem[p].cache[k]
      /\ w \in Fields0
    <2>1. v \in 0 .. MaxTx \cup {None}
        BY <1>4
    <2>2. 1 \in Pages
        BY <1>4
    <2> QED
        BY <2>1, <2>2, ModifiedFields
<1> HIDE DEF w
<1>7. /\ m.vers = mem[p].vers /\ m.orig = mem[p].orig /\ m.commit
      /\ m.dirty = w.dirty /\ m.logged = w.logged /\ m.cache = w.cache
    BY <1>6 DEF Fields0
<1> HIDE DEF m
<1>8. /\ Kept(p) /\ mem'[p] = m /\ pc'[p] = "lock" /\ UNCHANGED lockVars
    BY <1>1 DEF PagerInv, Values, Kept, lockVars
<1>9. JournalOf("lock", m, db, jrnl', dead)
    BY <1>1, <1>5, <1>6, <1>7 DEF JournalOf
<1>10. Disk' /\ Guarded(p)'
    <2>1. UNCHANGED <<lockVars, db, dbMaybe, dead>> /\ JournalOf("lock", m, db, jrnl', dead')
        BY <1>1, <1>9
    <2> QED
        BY <1>1, <1>5, <1>8, <2>1, LoggedDisk
<1>11. Stored' = Recovered(db, jrnl')
    BY <1>1 DEF Stored
<1>12. CacheOfWriter(m, db, Stored')
    <2> DEFINE f == ReadFrom(mem[p], db)
               g == ReadFrom(m, db)
    <2>1. PrefixClosed(f) /\ \A x \in Pages : g[x] = IF x = 1 THEN v ELSE f[x]
        BY <1>5, <1>7 DEF CacheOfWriter, ReadFrom
    <2> HIDE DEF f, g
    <2>2. PrefixClosed(g)
        BY <1>4, <2>1 DEF PrefixClosed, Pages
    <2>3. 1 \notin mem[p].logged /\ mem[p].vers = Stored[1]
        BY <1>3, <1>5 DEF CacheOfWriter
    <2>4. 1 \in m.logged /\ 1 \in m.dirty /\ m.cache[1] = v /\ v = Stored[1] + 1
          /\ m.vers = Stored[1]
        BY <1>2, <1>4, <1>6, <1>7, <2>3 DEF ToLog, Pages
    <2>5. Stored'[1] = Stored[1]
        BY <1>4, <1>5, <1>11
    <2>6. \A x \in Pages : /\ x \in m.dirty /\ x <= m.orig => x \in m.logged
                           /\ x \notin m.dirty => m.cache[x] \in {None, db[x]}
        BY <1>5, <1>6, <1>7
    <2> HIDE DEF Stored
    <2> QED
        BY <1>7, <2>2, <2>4, <2>5, <2>6 DEF CacheOfWriter, g
<1>13. Writing(pc'[p], mem'[p], db', jrnl', dead')
    BY <1>1, <1>5, <1>6, <1>7, <1>8, <1>9, <1>11, <1>12 DEF Writing
<1>14. Restoring(pc'[p], mem'[p], db', jrnl') /\ Durable(pc[p])'
    BY <1>8 DEF Restoring, Durable
<1>15. Fresh(pc'[p], mem'[p], Stored')
    BY <1>8 DEF Fresh, Active, InWrite
<1>16. \A x \in Pages : Stored'[x] = Stored[x]
    BY <1>5, <1>11
<1>17. pc[p] \in Owning
    BY <1>1 DEF Owning, InWrite
<1> HIDE DEF Stored
<1> QED
    BY <1>5, <1>8, <1>10, <1>13, <1>14, <1>15, <1>16, <1>17, CacheStep

----------------------------------------------------------------------------
(* Syncing the journal *)

LEMMA SyncedMagics ==
    ASSUME NEW n, jrnl \in JournalsOf(n), SyncJournal
    PROVE  \A s \in 1 .. Len(jrnl.magic) : jrnl'.magics[s] = {jrnl.magic[s]}
<1> DEFINE synced == [s \in DOMAIN jrnl.magics |-> {jrnl.magic[s]}]
           k == Len(jrnl.recs)
<1>1. jrnl' = [jrnl EXCEPT !.magics = synced, !.safe = k]
    BY DEF SyncJournal
<1>2. \A s \in 1 .. Len(jrnl.magic) : synced[s] = {jrnl.magic[s]}
    BY LastPart
<1> HIDE DEF synced, k
<1>3. jrnl'.magics = synced
    BY <1>1 DEF JournalsOf, Journals
<1> QED
    BY <1>2, <1>3

\* Of a journal that is sound, all parts but the last have their headers.
LEMMA EarlierParts ==
    ASSUME NEW n, NEW j \in JournalsOf(n), JournalOK(j)
    PROVE  \A s \in 1 .. Len(j.magic) : s # Len(j.magic) => j.magic[s] = TRUE
<1> DEFINE len == Len(j.magic)
<1>1. len \in Nat \ {0} /\ \A s \in 1 .. len - 1 : j.magics[s] = {TRUE}
    BY LastPart DEF Part, JournalOK
<1>2. \A s \in 1 .. len : j.magic[s] \in j.magics[s]
    BY DEF JournalOK
<1> HIDE DEF len
<1> SUFFICES ASSUME NEW s \in 1 .. len, s # len PROVE j.magic[s] = TRUE
    BY DEF len
<1>3. s \in 1 .. len - 1
    BY <1>1
<1>4. j.magics[s] = {TRUE} /\ j.magic[s] \in j.magics[s]
    BY <1>1, <1>2, <1>3
<1> QED
    BY <1>4, Zenon

\* fsync of the journal
LEMMA SyncedDisk ==
    ASSUME PagerInv, CacheInv, jrnl # None, SyncJournal
    PROVE  /\ jrnl' \in JournalsOf(tx) /\ JournalOK(jrnl') /\ Whole(jrnl')
           /\ (Hot(jrnl') <=> Hot(jrnl)) /\ Playable(jrnl') = Playable(jrnl)
           /\ \A f : Recovered(f, jrnl') = Recovered(f, jrnl)
           /\ dead' = {} /\ (Hot(jrnl) => Armed')
           /\ jrnl'.recs = jrnl.recs /\ jrnl'.magic = jrnl.magic /\ jrnl'.orig = jrnl.orig
<1> DEFINE len == Len(jrnl.magic)
<1>1. /\ jrnl \in JournalsOf(tx) /\ JournalOK(jrnl) /\ Whole(jrnl)
    BY DEF PagerInv, Values, CacheInv, Disk
<1>2. /\ jrnl' \in JournalsOf(tx) /\ jrnl'.recs = jrnl.recs /\ jrnl'.orig = jrnl.orig
      /\ jrnl'.magic = jrnl.magic /\ dead' = {} /\ jrnl' # None
      /\ \A s \in 1 .. len : jrnl'.magics[s] = {jrnl.magic[s]}
    BY <1>1, SyncedJournal, SyncedMagics, PagerAssumption DEF JournalsOf
<1>3. /\ len \in Nat \ {0}
      /\ \A s \in 1 .. len : s # len => jrnl.magic[s] = TRUE
      /\ \A s \in 1 .. len : jrnl.magic[s] \in BOOLEAN
    BY <1>1, EarlierParts, LastPart, ElementOfSeq DEF Part
<1>4. JournalOK(jrnl')
    <2>1. \A s \in 1 .. len : jrnl.magic[s] \in jrnl'.magics[s]
        BY <1>2
    <2>2. \A s \in 1 .. len - 1 : jrnl'.magics[s] = {TRUE}
        <3> HIDE DEF len
        <3>1. \A s \in 1 .. len - 1 : s \in 1 .. len /\ s # len
            BY <1>3
        <3> QED
            BY <1>2, <1>3, <3>1
    <2> QED
        BY <1>1, <1>2, <2>1, <2>2 DEF JournalOK
<1>5. Whole(jrnl')
    BY <1>1, <1>2 DEF Whole
<1>6. Hot(jrnl') <=> Hot(jrnl)
    BY <1>2 DEF Hot
<1>7. Playable(jrnl') = Playable(jrnl)
    BY <1>2 DEF Playable
<1>8. \A f : Recovered(f, jrnl') = Recovered(f, jrnl)
    BY <1>2, <1>6, <1>7 DEF Recovered, RecordsOf
<1>9. Hot(jrnl) => Armed'
    <2> SUFFICES ASSUME Hot(jrnl) PROVE Armed'
        OBVIOUS
    <2>1. 1 \in 1 .. len
        BY <1>3
    <2>2. jrnl'.magics[1] = {jrnl.magic[1]} /\ jrnl.magic[1] /\ jrnl.magic[1] \in BOOLEAN
        BY <1>2, <1>3, <2>1 DEF Hot
    <2>3. jrnl'.magics[1] = {TRUE}
        BY <2>2
    <2> QED
        BY <1>2, <1>6, <2>3 DEF Armed
<1> QED
    BY <1>2, <1>4, <1>5, <1>6, <1>7, <1>8, <1>9

LEMMA CacheSyncs ==
    ASSUME PagerInv, CacheInv, NEW p \in Handles, SyncRecords(p)
    PROVE  CacheInv' /\ StoredKept
<1>1. /\ pc[p] = "sync" /\ SyncJournal /\ pc' = [pc EXCEPT ![p] = "header"]
      /\ UNCHANGED <<lockVars, db, dbMaybe, mem, tx>>
    BY DEF SyncRecords, Goto
<1>2. /\ Kept(p) /\ mem'[p] = mem[p] /\ pc'[p] = "header" /\ jrnl # None /\ level[p] = Exclusive
    BY <1>1 DEF PagerInv, Values, Kept, lockVars, Working, Locked, InWrite, InFlush
<1>3. /\ jrnl' \in JournalsOf(tx) /\ JournalOK(jrnl') /\ Whole(jrnl')
      /\ (Hot(jrnl') <=> Hot(jrnl)) /\ Playable(jrnl') = Playable(jrnl)
      /\ \A f : Recovered(f, jrnl') = Recovered(f, jrnl)
      /\ dead' = {} /\ (Hot(jrnl) => Armed')
      /\ jrnl'.recs = jrnl.recs /\ jrnl'.magic = jrnl.magic /\ jrnl'.orig = jrnl.orig
    BY <1>1, <1>2, SyncedDisk
<1>4. Disk'
    <2>1. \A j \in dead' \cup {jrnl'} : JournalOK(j) /\ Whole(j)'
        BY <1>1, <1>3 DEF Whole
    <2>2. Settled' \/ Armed'
        BY <1>1, <1>3 DEF CacheInv, Disk, Settled, Armed
    <2> QED
        BY <2>1, <2>2 DEF Disk
<1>5. Stored' = Stored
    BY <1>1, <1>3 DEF Stored
<1>6. Guarded(p)'
    BY <1>1, <1>2 DEF Guarded, NeverHot, lockVars
<1>7. Writing("header", mem[p], db, jrnl', dead')
    <2>1. Writing("sync", mem[p], db, jrnl, dead)
        BY <1>1 DEF CacheInv
    <2>2. JournalOf("sync", mem[p], db, jrnl, dead)
          /\ CacheOfWriter(mem[p], db, Recovered(db, jrnl'))
        BY <1>3, <2>1 DEF Writing, Active, InWrite, InFlush
    <2>3. JournalOf("header", mem[p], db, jrnl', dead')
        BY <1>3, <2>2 DEF JournalOf
    <2>4. ~Hot(jrnl') => \A i \in Pages : db[i] # None <=> i <= mem[p].orig
        BY <1>3, <2>1 DEF Writing, InWrite, InFlush
    <2> QED
        BY <2>2, <2>3, <2>4 DEF Writing
<1>8. Restoring("header", mem[p], db', jrnl') /\ Durable(pc[p])'
    BY <1>2 DEF Restoring, Durable
<1>9. Fresh("header", mem[p], Stored')
    BY DEF Fresh, Active, InWrite, InFlush
<1>10. pc[p] \in Owning
    BY <1>1 DEF Owning, InWrite, InFlush
<1> HIDE DEF Stored
<1> QED
    BY <1>1, <1>2, <1>3, <1>4, <1>5, <1>6, <1>7, <1>8, <1>9, <1>10, CacheStep

LEMMA SameVersion ==
    ASSUME NEW m, NEW f, NEW b, NEW c, CacheOfWriter(m, f, b), c[1] = b[1]
    PROVE  CacheOfWriter(m, f, c)
BY DEF CacheOfWriter

\* The header counts the records: from now on they are played back, and the file has
\* what they say.
LEMMA HeaderCounts ==
    ASSUME Values, NEW j \in JournalsOf(tx), NEW k \in JournalsOf(tx), JournalOK(j), JournalOK(k),
           k.recs = j.recs, k.orig = j.orig, Hot(k),
           \A s \in 1 .. Len(j.magic) : s # Len(j.magic) => k.magic[s] = j.magic[s],
           k.magic[Len(j.magic)] = TRUE,
           NEW m, JournalOf("header", m, db, j, dead),
           ~Hot(j) => \A i \in Pages : db[i] # None <=> i <= j.orig
    PROVE  /\ Played(k) = 1 .. Len(j.recs)
           /\ \A i \in Pages : Recovered(db, k)[i] = Recovered(db, j)[i]
<1> DEFINE len == Len(j.magic)
           all == 1 .. Len(j.recs)
<1>1. /\ len \in Nat \ {0} /\ len \in 1 .. len /\ ~j.magic[len]
      /\ \A s \in 1 .. len : s # len => j.magic[s] = TRUE
      /\ \A s \in 1 .. len : k.magic[s] = TRUE
    BY EarlierParts, LastPart DEF Part, JournalOf
<1>2. \A r \in all : /\ j.recs[r].valid /\ j.recs[r].part \in 1 .. len
                     /\ ~j.magic[j.recs[r].part] => db[j.recs[r].page] = j.recs[r].image
                     /\ j.recs[r].page \in Pages
    BY PlayedFirst DEF JournalOf, JournalOK, Entries
<1>3. \A q, r \in all : q <= r => j.recs[q].part <= j.recs[r].part
    BY DEF JournalOK
<1>4. Len(j.recs) \in Nat
    BY PlayedFirst
<1> HIDE DEF len
<1>5. Played(k) = all
    <2>1. ASSUME NEW r \in all PROVE r \in Played(k)
        BY <1>1, <1>2, <1>4 DEF Played
    <2> QED
        BY <2>1 DEF Played
<1>6. \A r \in all : r \notin Played(j) => j.recs[r].part = len
    <2> SUFFICES ASSUME NEW r \in all, r \notin Played(j) PROVE j.recs[r].part = len
        OBVIOUS
    <2>1. PICK q \in 1 .. r : ~(j.recs[q].valid /\ j.magic[j.recs[q].part])
        BY DEF Played
    <2>2. q \in all /\ q <= r
        BY <1>4
    <2>3. j.recs[q].part = len
        BY <1>1, <1>2, <2>1, <2>2
    <2>4. j.recs[r].part \in 1 .. len /\ len <= j.recs[r].part
        BY <1>2, <1>3, <2>2, <2>3
    <2> QED
        BY <1>1, <2>4
<1>7. \A r \in all : r \notin Played(j) => db[j.recs[r].page] = j.recs[r].image
    BY <1>1, <1>2, <1>6
<1>8. ASSUME NEW i \in Pages
      PROVE  Recovered(db, k)[i] = Recovered(db, j)[i]
    <2>1. CASE ~Hot(j)
        <3>1. Recovered(db, j) = db /\ Played(j) = {}
            BY <2>1, NothingPlayed DEF Recovered
        <3>2. CASE i > k.orig
            <4>1. Recovered(db, k)[i] = None
                BY <3>2, RecoveredPages
            <4>2. db[i] = None
                BY <2>1, <3>2, PagerAssumption DEF Pages, JournalsOf, Journals
            <4> QED
                BY <3>1, <4>1, <4>2
        <3>3. CASE \E r \in all : j.recs[r].page = i
            <4>1. PICK r \in all : j.recs[r].page = i
                BY <3>3
            <4>2. Recovered(db, k)[i] = j.recs[r].image
                BY <1>5, <4>1, RecoveredPages
            <4>3. db[i] = j.recs[r].image
                BY <1>7, <3>1, <4>1
            <4> QED
                BY <3>1, <4>2, <4>3
        <3>4. CASE i <= k.orig /\ \A r \in all : j.recs[r].page # i
            <4>1. Recovered(db, k)[i] = db[i]
                BY <1>5, <3>4, RecoveredPages
            <4> QED
                BY <3>1, <4>1
        <3> QED
            BY <3>2, <3>3, <3>4, PagerAssumption DEF Pages, JournalsOf, Journals
    <2>2. CASE Hot(j)
        <3>1. CASE i > k.orig
            BY <2>2, <3>1, RecoveredPages
        <3>2. CASE \E r \in all : j.recs[r].page = i
            <4>1. PICK r \in all : j.recs[r].page = i
                BY <3>2
            <4>2. Recovered(db, k)[i] = j.recs[r].image
                BY <1>5, <4>1, RecoveredPages
            <4>3. CASE r \in Played(j)
                BY <2>2, <4>1, <4>2, <4>3, RecoveredPages
            <4>4. CASE r \notin Played(j)
                <5>1. db[i] = j.recs[r].image /\ i <= j.orig
                    BY <1>7, <4>1, <4>4 DEF JournalOK
                <5>2. \A q \in Played(j) : j.recs[q].page # i
                    BY <4>1, <4>4 DEF JournalOK, Played
                <5>3. Recovered(db, j)[i] = db[i]
                    BY <2>2, <5>1, <5>2, RecoveredPages
                <5> QED
                    BY <4>2, <5>1, <5>3
            <4> QED
                BY <4>3, <4>4
        <3>3. CASE i <= k.orig /\ \A r \in all : j.recs[r].page # i
            <4>1. Recovered(db, k)[i] = db[i]
                BY <1>5, <3>3, RecoveredPages
            <4>2. \A r \in Played(j) : j.recs[r].page # i
                BY <3>3 DEF Played
            <4>3. Recovered(db, j)[i] = db[i]
                BY <2>2, <3>3, <4>2, RecoveredPages
            <4> QED
                BY <4>1, <4>3
        <3> QED
            BY <3>1, <3>2, <3>3, PagerAssumption DEF Pages, JournalsOf, Journals
    <2> QED
        BY <2>1, <2>2
<1> QED
    BY <1>5, <1>8

LEMMA HeaderWritten ==
    ASSUME NEW n, jrnl \in JournalsOf(n),
           jrnl' = [jrnl EXCEPT !.magic[Part(jrnl)] = TRUE,
                                !.magics[Part(jrnl)] = @ \cup {TRUE}]
    PROVE  /\ jrnl'.recs = jrnl.recs /\ jrnl'.orig = jrnl.orig
           /\ Len(jrnl'.magic) = Len(jrnl.magic) /\ jrnl'.magic[Len(jrnl.magic)] = TRUE
           /\ TRUE \in jrnl'.magics[Len(jrnl.magic)]
           /\ \A s \in 1 .. Len(jrnl.magic) : s # Len(jrnl.magic) =>
                  jrnl'.magic[s] = jrnl.magic[s] /\ jrnl'.magics[s] = jrnl.magics[s]
<1> DEFINE part == Part(jrnl)
           magic == [jrnl.magic EXCEPT ![part] = TRUE]
           last == jrnl.magics[part] \cup {TRUE}
           magics == [jrnl.magics EXCEPT ![part] = last]
<1>1. /\ jrnl.magic \in Seq(BOOLEAN) /\ part \in 1 .. Len(jrnl.magic) /\ part \in DOMAIN jrnl.magics
      /\ DOMAIN jrnl.magic = 1 .. Len(jrnl.magic) /\ DOMAIN jrnl.magics = 1 .. Len(jrnl.magic)
      /\ part = Len(jrnl.magic)
    BY LastPart DEF Part
<1>2. jrnl' = [jrnl EXCEPT !.magic = magic, !.magics = magics]
    BY DEF JournalsOf, Journals
<1> HIDE DEF part
<1>3. /\ Len(magic) = Len(jrnl.magic) /\ magic[part] = TRUE
      /\ \A s \in 1 .. Len(jrnl.magic) : s # part => magic[s] = jrnl.magic[s]
    BY <1>1, ExceptSeq
<1>4. /\ TRUE \in magics[part]
      /\ \A s \in 1 .. Len(jrnl.magic) : s # part => magics[s] = jrnl.magics[s]
    BY <1>1
<1> HIDE DEF magic, magics
<1>5. /\ jrnl'.recs = jrnl.recs /\ jrnl'.orig = jrnl.orig
      /\ jrnl'.magic = magic /\ jrnl'.magics = magics
    BY <1>2 DEF JournalsOf, Journals
<1> QED
    BY <1>1, <1>3, <1>4, <1>5

LEMMA CacheHeader ==
    ASSUME PagerInv, CacheInv, PagerInv', NEW p \in Handles, WriteHeader(p)
    PROVE  CacheInv' /\ StoredKept
<1> DEFINE len == Len(jrnl.magic)
<1>1. /\ pc[p] = "header" /\ pc' = [pc EXCEPT ![p] = "resync"]
      /\ UNCHANGED <<lockVars, db, dbMaybe, dead, mem, tx>>
      /\ jrnl' = [jrnl EXCEPT !.magic[Part(jrnl)] = TRUE, !.magics[Part(jrnl)] = @ \cup {TRUE}]
    BY DEF WriteHeader, Goto
<1>2. /\ Kept(p) /\ mem'[p] = mem[p] /\ pc'[p] = "resync" /\ jrnl # None /\ level[p] = Exclusive
    BY <1>1 DEF PagerInv, Values, Kept, lockVars, Working, Locked, InWrite, InFlush
<1>3. jrnl \in JournalsOf(tx) /\ JournalOK(jrnl) /\ Whole(jrnl)
    BY <1>2 DEF PagerInv, Values, CacheInv, Disk
<1>4. jrnl' \in JournalsOf(tx) /\ jrnl' # None
    BY <1>1, <1>2 DEF PagerInv, Values, Working, InWrite, InFlush
<1>5. /\ jrnl'.recs = jrnl.recs /\ jrnl'.orig = jrnl.orig
      /\ Len(jrnl'.magic) = len /\ jrnl'.magic[len] = TRUE
      /\ TRUE \in jrnl'.magics[len]
      /\ \A s \in 1 .. len : s # len =>
             jrnl'.magic[s] = jrnl.magic[s] /\ jrnl'.magics[s] = jrnl.magics[s]
    BY <1>1, <1>3, HeaderWritten
<1>6. /\ Writing("header", mem[p], db, jrnl, dead)
      /\ JournalOf("header", mem[p], db, jrnl, dead)
      /\ CacheOfWriter(mem[p], db, Stored)
    BY <1>1 DEF CacheInv, Writing, Active, InWrite, InFlush, Stored
<1>7. /\ len \in Nat \ {0} /\ ~jrnl.magic[len] /\ dead = {}
      /\ \A s \in 1 .. len : s # len => jrnl.magic[s] = TRUE
    BY <1>3, <1>6, LastPart, EarlierParts DEF Part, JournalOf
<1> HIDE DEF len
<1>8. JournalOK(jrnl')
    <2>1. /\ \A s \in 1 .. len : jrnl.magic[s] \in jrnl.magics[s]
          /\ \A s \in 1 .. len - 1 : jrnl.magics[s] = {TRUE}
        BY <1>3 DEF JournalOK, len
    <2>2. \A s \in 1 .. len : jrnl'.magic[s] \in jrnl'.magics[s]
        BY <1>5, <2>1
    <2>3. \A s \in 1 .. len - 1 : jrnl'.magics[s] = {TRUE}
        <3>1. \A s \in 1 .. len - 1 : s \in 1 .. len /\ s # len
            BY <1>7
        <3> QED
            BY <1>5, <2>1, <3>1
    <2>4. /\ \A r \in 1 .. Len(jrnl.recs) :
                 /\ jrnl.recs[r].page <= jrnl.orig /\ jrnl.recs[r].image # None
                 /\ jrnl.recs[r].part \in 1 .. len
          /\ \A q, r \in 1 .. Len(jrnl.recs) :
                 /\ jrnl.recs[q].page = jrnl.recs[r].page => q = r
                 /\ q <= r => jrnl.recs[q].part <= jrnl.recs[r].part
        BY <1>3 DEF JournalOK, len
    <2>5. Len(jrnl'.magic) = len /\ jrnl'.recs = jrnl.recs /\ jrnl'.orig = jrnl.orig
        BY <1>5
    <2> QED
        BY <2>2, <2>3, <2>4, <2>5 DEF JournalOK
<1>9. Whole(jrnl')
    BY <1>3, <1>5 DEF Whole
<1>10. Hot(jrnl')
    <2>1. 1 \in 1 .. len
        BY <1>7
    <2>2. jrnl'.magic[1] = TRUE
        BY <1>5, <1>7, <2>1
    <2> QED
        BY <1>4, <2>2 DEF Hot
<1>11. Disk'
    <2>1. \A j \in dead' \cup {jrnl'} : JournalOK(j) /\ Whole(j)'
        BY <1>1, <1>7, <1>8, <1>9 DEF Whole
    <2>2. Settled => Settled'
        BY <1>1 DEF Settled
    <2>3. Armed => Armed'
        <3> SUFFICES ASSUME Armed PROVE Armed'
            OBVIOUS
        <3>1. len > 1 /\ jrnl.magics[1] = {TRUE}
            BY <1>3, <1>7, FirstPartSynced DEF Armed, len
        <3>2. 1 \in 1 .. len /\ 1 # len
            BY <1>7, <3>1
        <3>3. jrnl'.magics[1] = {TRUE}
            BY <1>5, <3>1, <3>2
        <3> QED
            BY <1>1, <1>10, <3>3 DEF Armed
    <2> QED
        BY <2>1, <2>2, <2>3 DEF CacheInv, Disk
<1>12. /\ Played(jrnl') = 1 .. Len(jrnl.recs)
       /\ \A i \in Pages : Recovered(db, jrnl')[i] = Recovered(db, jrnl)[i]
    <2>1. ~Hot(jrnl) => \A i \in Pages : db[i] # None <=> i <= jrnl.orig
        BY <1>6 DEF Writing, JournalOf, InWrite, InFlush
    <2>2. Values
        BY DEF PagerInv
    <2>3. /\ jrnl'.magic[Len(jrnl.magic)] = TRUE
          /\ \A s \in 1 .. Len(jrnl.magic) : s # Len(jrnl.magic) =>
                 jrnl'.magic[s] = jrnl.magic[s]
        BY <1>5 DEF len
    <2> QED
        BY <1>3, <1>4, <1>5, <1>6, <1>8, <1>10, <2>1, <2>2, <2>3, HeaderCounts
<1>13. \A i \in Pages : Stored'[i] = Stored[i]
    BY <1>1, <1>12 DEF Stored
<1>14. Guarded(p)'
    BY <1>1, <1>2 DEF Guarded, NeverHot, lockVars
<1>15. Writing("resync", mem[p], db, jrnl', dead')
    <2>1. CacheOfWriter(mem[p], db, Recovered(db, jrnl'))
        <3>1. Recovered(db, jrnl')[1] = Stored[1]
            BY <1>12, PagerAssumption DEF Pages, Stored
        <3> HIDE DEF Stored
        <3> QED
            BY <1>6, <3>1, SameVersion
    <2>2. ASSUME NEW r \in 1 .. Len(jrnl'.recs)
          PROVE  /\ jrnl'.recs[r].valid /\ jrnl'.recs[r].page \in mem[p].logged
                 /\ jrnl'.magic[jrnl'.recs[r].part]
        <3>1. r \in Played(jrnl')
            BY <1>5, <1>12
        <3>2. r \in 1 .. r
            BY <1>3, <1>5, PlayedFirst
        <3> QED
            BY <1>5, <1>6, <3>1, <3>2 DEF Played, JournalOf
    <2>3. JournalOf("resync", mem[p], db, jrnl', dead')
        BY <1>1, <1>5, <1>6, <1>7, <2>2 DEF JournalOf
    <2> QED
        BY <1>10, <2>1, <2>3 DEF Writing
<1>16. Restoring("resync", mem[p], db', jrnl') /\ Durable(pc[p])'
    BY <1>2 DEF Restoring, Durable
<1>17. Fresh("resync", mem[p], Stored')
    BY DEF Fresh, Active, InWrite, InFlush
<1>18. pc[p] \in Owning
    BY <1>1 DEF Owning, InWrite, InFlush
<1> HIDE DEF Stored
<1> QED
    BY <1>1, <1>2, <1>11, <1>13, <1>14, <1>15, <1>16, <1>17, <1>18, CacheStep

\* The header is on the disk, and the transaction ends or begins another part.
LEMMA HeaderSynced ==
    ASSUME NEW n, jrnl \in JournalsOf(n), NEW p, SyncHeader(p)
    PROVE  LET len == Len(jrnl.magic) IN
           /\ jrnl'.recs = jrnl.recs /\ jrnl'.orig = jrnl.orig
           /\ jrnl'.magics[len] = {TRUE}
           /\ \A s \in 1 .. len : jrnl'.magic[s] = jrnl.magic[s]
           /\ \A s \in 1 .. len : s # len => jrnl'.magics[s] = jrnl.magics[s]
           /\ mem[p].commit => Len(jrnl'.magic) = len
           /\ ~mem[p].commit => /\ Len(jrnl'.magic) = len + 1 /\ jrnl'.magic[len + 1] = FALSE
                                /\ jrnl'.magics[len + 1] = {FALSE}
<1> DEFINE len == Len(jrnl.magic)
           part == Part(jrnl)
           on == {TRUE}
           off == {FALSE}
           magics == [jrnl.magics EXCEPT ![part] = on]
           safe == [jrnl EXCEPT !.magics = magics]
           more == Append(jrnl.magic, FALSE)
           moreMagics == Append(magics, off)
<1>1. /\ jrnl.magic \in Seq(BOOLEAN) /\ jrnl.magics \in Seq(SUBSET BOOLEAN)
      /\ part = len /\ len \in 1 .. len /\ len \in Nat \ {0}
      /\ len \in 1 .. Len(jrnl.magics) /\ Len(jrnl.magics) = len
    BY LastPart DEF Part, JournalsOf
<1>2. /\ magics \in Seq(SUBSET BOOLEAN) /\ Len(magics) = len /\ magics[len] = {TRUE}
      /\ \A s \in 1 .. len : s # len => magics[s] = jrnl.magics[s]
    <2>1. on \in SUBSET BOOLEAN
        OBVIOUS
    <2> HIDE DEF len, part, on
    <2>2. magics \in Seq(SUBSET BOOLEAN) /\ Len(magics) = Len(jrnl.magics)
        BY <1>1, <2>1, ExceptSeq
    <2>3. magics[part] = on /\ \A s \in 1 .. Len(jrnl.magics) : s # part => magics[s] = jrnl.magics[s]
        BY <1>1, <2>1, ExceptSeq
    <2> QED
        BY <1>1, <2>2, <2>3 DEF on
<1> HIDE DEF magics
<1>3. safe.recs = jrnl.recs /\ safe.magic = jrnl.magic /\ safe.magics = magics
      /\ safe.orig = jrnl.orig /\ safe \in Journals
    BY <1>2 DEF JournalsOf, Journals
<1>4. jrnl' = IF mem[p].commit THEN safe
              ELSE [safe EXCEPT !.magic = more, !.magics = moreMagics]
    BY <1>3 DEF SyncHeader, magics, part, on, off, JournalsOf, Journals
<1>5. /\ Len(more) = len + 1 /\ more[len + 1] = FALSE
      /\ \A s \in 1 .. len : more[s] = jrnl.magic[s]
      /\ Len(moreMagics) = len + 1 /\ moreMagics[len + 1] = {FALSE}
      /\ \A s \in 1 .. len : moreMagics[s] = magics[s]
    <2>1. jrnl.magic \in Seq(BOOLEAN) /\ FALSE \in BOOLEAN /\ {FALSE} \in SUBSET BOOLEAN
        BY <1>1
    <2>2. /\ Len(more) = len + 1 /\ more[len + 1] = FALSE
          /\ \A s \in 1 .. len : more[s] = jrnl.magic[s]
        BY <2>1, AppendProperties
    <2>3. /\ Len(moreMagics) = len + 1 /\ moreMagics[len + 1] = {FALSE}
          /\ \A s \in 1 .. len : moreMagics[s] = magics[s]
        <3>1. off \in SUBSET BOOLEAN
            OBVIOUS
        <3> HIDE DEF len, off
        <3>2. Len(moreMagics) = Len(magics) + 1
            BY <1>2, <3>1, AppendProperties
        <3>3. moreMagics[Len(magics) + 1] = off
            BY <1>2, <3>1, AppendProperties
        <3>4. \A s \in 1 .. Len(magics) : moreMagics[s] = magics[s]
            BY <1>2, <3>1, AppendProperties
        <3> QED
            BY <1>2, <3>2, <3>3, <3>4 DEF off
    <2> QED
        BY <2>2, <2>3
<1> HIDE DEF safe, more, moreMagics
<1>6. CASE mem[p].commit
    BY <1>2, <1>3, <1>4, <1>6
<1>7. CASE ~mem[p].commit
    <2>1. /\ jrnl'.recs = safe.recs /\ jrnl'.orig = safe.orig
          /\ jrnl'.magic = more /\ jrnl'.magics = moreMagics
        BY <1>3, <1>4, <1>7 DEF Journals
    <2> QED
        BY <1>1, <1>2, <1>3, <1>5, <1>7, <2>1
<1> QED
    BY <1>6, <1>7

LEMMA CacheSynced ==
    ASSUME PagerInv, CacheInv, PagerInv', NEW p \in Handles, SyncHeader(p)
    PROVE  CacheInv' /\ StoredKept
<1> DEFINE len == Len(jrnl.magic)
           s == IF mem[p].commit THEN "store" ELSE "dbmod"
<1>1. /\ pc[p] = "resync" /\ pc' = [pc EXCEPT ![p] = s]
      /\ UNCHANGED <<lockVars, db, dbMaybe, dead, mem, tx>>
    BY DEF SyncHeader, Goto, AfterSync
<1>2. /\ Kept(p) /\ mem'[p] = mem[p] /\ pc'[p] = s /\ jrnl # None /\ level[p] = Exclusive
    BY <1>1 DEF PagerInv, Values, Kept, lockVars, Working, Locked, InWrite, InFlush
<1>3. jrnl \in JournalsOf(tx) /\ JournalOK(jrnl) /\ Whole(jrnl)
    BY <1>2 DEF PagerInv, Values, CacheInv, Disk
<1>4. jrnl' \in JournalsOf(tx) /\ jrnl' # None
    BY <1>1, <1>2 DEF PagerInv, Values, Working, InWrite, InFlush
<1>5. /\ jrnl'.recs = jrnl.recs /\ jrnl'.orig = jrnl.orig
      /\ jrnl'.magics[len] = {TRUE}
      /\ \A t \in 1 .. len : jrnl'.magic[t] = jrnl.magic[t]
      /\ \A t \in 1 .. len : t # len => jrnl'.magics[t] = jrnl.magics[t]
      /\ mem[p].commit => Len(jrnl'.magic) = len
      /\ ~mem[p].commit => /\ Len(jrnl'.magic) = len + 1 /\ jrnl'.magic[len + 1] = FALSE
                           /\ jrnl'.magics[len + 1] = {FALSE}
    BY <1>3, HeaderSynced
<1>6. /\ Writing("resync", mem[p], db, jrnl, dead)
      /\ JournalOf("resync", mem[p], db, jrnl, dead)
      /\ CacheOfWriter(mem[p], db, Stored)
    BY <1>1 DEF CacheInv, Writing, Active, InWrite, InFlush, Stored
<1>7. /\ len \in Nat \ {0} /\ jrnl.magic[len] = TRUE
      /\ \A t \in 1 .. len : jrnl.magic[t] = TRUE
    <2>1. len \in Nat \ {0} /\ \A t \in 1 .. len : t # len => jrnl.magic[t] = TRUE
        BY <1>3, LastPart, EarlierParts DEF Part
    <2>2. jrnl.magic[len] /\ jrnl.magic[len] \in BOOLEAN
        BY <1>3, <1>6, LastPart, ElementOfSeq DEF Part, JournalOf
    <2>3. jrnl.magic[len] = TRUE
        BY <2>2, Zenon
    <2> QED
        BY <2>1, <2>3
<1>8. /\ \A t \in 1 .. len - 1 : jrnl.magics[t] = {TRUE}
      /\ \A r \in 1 .. Len(jrnl.recs) :
             /\ jrnl.recs[r].page <= jrnl.orig /\ jrnl.recs[r].image # None
             /\ jrnl.recs[r].part \in 1 .. len
      /\ \A q, r \in 1 .. Len(jrnl.recs) :
             /\ jrnl.recs[q].page = jrnl.recs[r].page => q = r
             /\ q <= r => jrnl.recs[q].part <= jrnl.recs[r].part
    BY <1>3 DEF JournalOK
<1> DEFINE more == Len(jrnl'.magic)
<1>9. /\ more \in {len, len + 1} /\ (mem[p].commit <=> more = len)
      /\ \A t \in 1 .. len : jrnl'.magic[t] = TRUE /\ jrnl'.magics[t] = {TRUE}
    <2> HIDE DEF len, more
    <2>1. \A t \in 1 .. len : t = len \/ t \in 1 .. len - 1
        BY <1>7
    <2>2. \A t \in 1 .. len : jrnl'.magic[t] = TRUE
        BY <1>5, <1>7
    <2>3. \A t \in 1 .. len : jrnl'.magics[t] = {TRUE}
        BY <1>5, <1>7, <1>8, <2>1
    <2>4. more \in {len, len + 1} /\ (mem[p].commit <=> more = len)
        <3>1. mem[p].commit => more = len
            BY <1>5 DEF more
        <3>2. ~mem[p].commit => more = len + 1
            BY <1>5 DEF more
        <3> QED
            BY <1>7, <3>1, <3>2
    <2> QED
        BY <2>2, <2>3, <2>4
<1> HIDE DEF len
<1>10. JournalOK(jrnl')
    <2> HIDE DEF more
    <2>1. \A t \in 1 .. more : t \in 1 .. len \/ (t = len + 1 /\ ~mem[p].commit)
        <3>1. more # len => ~mem[p].commit
            BY <1>9
        <3>2. len \in Nat /\ more \in {len, len + 1}
            BY <1>7, <1>9
        <3>3. \A t \in 1 .. more : t \in 1 .. len \/ (t = len + 1 /\ more # len)
            BY <3>2
        <3> QED
            BY <3>1, <3>3
    <2>2. \A t \in 1 .. more : jrnl'.magic[t] \in jrnl'.magics[t]
        BY <1>5, <1>9, <2>1
    <2>3. \A t \in 1 .. more - 1 : jrnl'.magics[t] = {TRUE}
        <3>1. \A t \in 1 .. more - 1 : t \in 1 .. len
            BY <1>7, <1>9
        <3> QED
            BY <1>9, <3>1
    <2>4. \A r \in 1 .. Len(jrnl.recs) : jrnl.recs[r].part \in 1 .. more
        BY <1>7, <1>8, <1>9
    <2>5. Len(jrnl'.magic) = more /\ jrnl'.recs = jrnl.recs /\ jrnl'.orig = jrnl.orig
        BY <1>5 DEF more
    <2> QED
        BY <1>8, <2>2, <2>3, <2>4, <2>5 DEF JournalOK
<1>11. Whole(jrnl')
    BY <1>3, <1>5 DEF Whole
<1>12. Hot(jrnl) /\ Hot(jrnl') /\ jrnl'.magics[1] = {TRUE} /\ dead = {}
    <2>1. 1 \in 1 .. len
        BY <1>7
    <2>2. Hot(jrnl) /\ Hot(jrnl') /\ jrnl'.magics[1] = {TRUE}
        BY <1>2, <1>4, <1>7, <1>9, <2>1 DEF Hot
    <2> QED
        BY <1>6, <2>2 DEF JournalOf
<1>13. Disk' /\ Armed'
    <2>1. \A j \in dead' \cup {jrnl'} : JournalOK(j) /\ Whole(j)'
        BY <1>1, <1>12, <1>10, <1>11 DEF Whole
    <2>2. Armed'
        BY <1>1, <1>12 DEF Armed
    <2> QED
        BY <2>1, <2>2 DEF Disk
<1>14. \A r \in 1 .. Len(jrnl.recs) :
           jrnl.magic[jrnl.recs[r].part] = TRUE /\ jrnl'.magic[jrnl.recs[r].part] = TRUE
    BY <1>7, <1>8, <1>9
<1>15. \A i \in Pages : Stored'[i] = Stored[i]
    <2>1. Len(jrnl.recs) \in Nat /\ DOMAIN jrnl.recs = 1 .. Len(jrnl.recs)
        BY <1>3, PlayedFirst
    <2>2. Played(jrnl') = Played(jrnl)
        <3>1. \A r \in 1 .. Len(jrnl.recs) : \A q \in 1 .. r : q \in 1 .. Len(jrnl.recs)
            BY <2>1
        <3>2. ASSUME NEW r \in 1 .. Len(jrnl.recs)
              PROVE  r \in Played(jrnl') <=> r \in Played(jrnl)
            BY <1>5, <1>14, <3>1 DEF Played
        <3> QED
            BY <1>5, <3>2 DEF Played
    <2>3. \A i \in Pages : Recovered(db, jrnl')[i] = Recovered(db, jrnl)[i]
        BY <1>3, <1>4, <1>5, <1>10, <1>12, <2>2, SameFile
    <2> QED
        BY <1>1, <2>3 DEF Stored
<1>16. Guarded(p)'
    BY <1>1, <1>2 DEF Guarded, NeverHot, lockVars
<1>17. Writing(s, mem[p], db, jrnl', dead')
    <2>1. CacheOfWriter(mem[p], db, Recovered(db, jrnl'))
        <3>1. Recovered(db, jrnl')[1] = Stored[1]
            BY <1>1, <1>15, PagerAssumption DEF Pages, Stored
        <3> HIDE DEF Stored
        <3> QED
            BY <1>6, <3>1, SameVersion
    <2>2. s = "store" => /\ jrnl'.magic[more] = TRUE /\ jrnl'.magics[more] = {TRUE}
                         /\ mem[p].commit
        <3>1. len \in 1 .. len
            BY <1>7
        <3> HIDE DEF more
        <3> QED
            BY <1>9, <3>1
    <2>3. s = "dbmod" => jrnl'.magic[more] = FALSE /\ more > 1
        <3> HIDE DEF more
        <3>1. /\ ~mem[p].commit => more = len + 1 /\ jrnl'.magic[len + 1] = FALSE
              /\ len \in Nat \ {0}
            BY <1>5, <1>7, <1>9
        <3> QED
            BY <3>1
    <2>4. s \in {"store", "dbmod"}
        OBVIOUS
    <2>5. JournalOf(s, mem[p], db, jrnl', dead')
        <3> HIDE DEF s
        <3> QED
            BY <1>1, <1>5, <1>6, <1>12, <1>14, <2>2, <2>3, <2>4 DEF JournalOf
    <2> QED
        BY <1>12, <2>1, <2>2, <2>5 DEF Writing
<1>18. Restoring(s, mem[p], db', jrnl') /\ Durable(pc[p])'
    BY <1>2 DEF Restoring, Durable
<1>19. Fresh(s, mem[p], Stored')
    BY DEF Fresh, Active, InWrite, InFlush
<1>20. pc[p] \in Owning
    BY <1>1 DEF Owning, InWrite, InFlush
<1> HIDE DEF Stored, s
<1> QED
    BY <1>1, <1>2, <1>12, <1>13, <1>15, <1>16, <1>17, <1>18, <1>19, <1>20, CacheStep

----------------------------------------------------------------------------
(* Writing the database file *)

\* Every page that goes to the file has its original on the disk.
LEMMA OriginalsSafe ==
    ASSUME PagerInv, CacheInv, NEW p \in Handles, pc[p] \in {"store", "dbmod"}
    PROVE  /\ Armed /\ jrnl \in JournalsOf(tx) /\ JournalOK(jrnl)
           /\ JournalOf(pc[p], mem[p], db, jrnl, dead) /\ CacheOfWriter(mem[p], db, Stored)
           /\ \A r \in 1 .. Len(jrnl.recs) :
                  ~(pc[p] = "dbmod" /\ jrnl.recs[r].part = Len(jrnl.magic))
                  => r \in Played(jrnl) /\ jrnl.magic[jrnl.recs[r].part] = TRUE
<1> DEFINE len == Len(jrnl.magic)
<1>1. jrnl # None /\ jrnl \in JournalsOf(tx) /\ JournalOK(jrnl)
    BY DEF PagerInv, Values, CacheInv, Disk, Working, InWrite, InFlush
<1>2. /\ JournalOf(pc[p], mem[p], db, jrnl, dead) /\ CacheOfWriter(mem[p], db, Stored)
    BY DEF CacheInv, Writing, Active, InWrite, InFlush, Stored
<1>3. /\ len \in Nat \ {0} /\ len \in 1 .. len
      /\ \A s \in 1 .. len : s # len => jrnl.magic[s] = TRUE
      /\ \A s \in 1 .. len : jrnl.magic[s] \in BOOLEAN
    BY <1>1, EarlierParts, LastPart, ElementOfSeq DEF Part
<1>4. \A s \in 1 .. len : s # len => jrnl.magics[s] = {TRUE}
    <2>1. \A s \in 1 .. len - 1 : jrnl.magics[s] = {TRUE}
        BY <1>1 DEF JournalOK
    <2> HIDE DEF len
    <2>2. \A s \in 1 .. len : s # len => s \in 1 .. len - 1
        BY <1>3
    <2> QED
        BY <2>1, <2>2
<1>5. /\ pc[p] = "store" => jrnl.magic[len] = TRUE /\ jrnl.magics[len] = {TRUE}
      /\ pc[p] = "dbmod" => len > 1
    <2>1. /\ pc[p] = "store" => jrnl.magic[len] /\ jrnl.magics[len] = {TRUE}
          /\ pc[p] = "dbmod" => len > 1
        BY <1>2 DEF JournalOf
    <2>2. jrnl.magic[len] => jrnl.magic[len] = TRUE
        <3>1. jrnl.magic[len] \in BOOLEAN
            BY <1>3
        <3> QED
            BY <3>1, Zenon
    <2> QED
        BY <2>1, <2>2
<1>6. \A r \in 1 .. Len(jrnl.recs) : jrnl.recs[r].valid /\ jrnl.recs[r].part \in 1 .. len
    BY <1>1, <1>2 DEF JournalOK, JournalOf
<1>7. \A q, r \in 1 .. Len(jrnl.recs) : q <= r => jrnl.recs[q].part <= jrnl.recs[r].part
    BY <1>1 DEF JournalOK
<1> HIDE DEF len
<1>8. Armed
    <2>1. 1 \in 1 .. len
        BY <1>3
    <2>2. jrnl.magic[1] = TRUE /\ jrnl.magics[1] = {TRUE}
        <3>1. CASE len = 1
            <4>1. pc[p] = "store"
                BY <1>3, <1>5, <3>1
            <4>2. jrnl.magic[len] = TRUE /\ jrnl.magics[len] = {TRUE}
                BY <1>5, <4>1
            <4> QED
                BY <3>1, <4>2
        <3>2. CASE len # 1
            BY <1>3, <1>4, <2>1, <3>2
        <3> QED
            BY <3>1, <3>2
    <2> QED
        BY <1>1, <1>2, <2>2 DEF Armed, Hot, JournalOf
<1>9. ASSUME NEW r \in 1 .. Len(jrnl.recs),
             ~(pc[p] = "dbmod" /\ jrnl.recs[r].part = len)
      PROVE  r \in Played(jrnl) /\ jrnl.magic[jrnl.recs[r].part] = TRUE
    <2>1. r \in Nat /\ \A q \in 1 .. r : q \in 1 .. Len(jrnl.recs) /\ q <= r
        BY <1>1, PlayedFirst
    <2>2. ASSUME NEW q \in 1 .. r
          PROVE  jrnl.recs[q].valid /\ jrnl.magic[jrnl.recs[q].part] = TRUE
        <3>1. CASE pc[p] = "store"
            BY <1>3, <1>5, <1>6, <2>1, <3>1
        <3>2. CASE pc[p] = "dbmod"
            <4>1. /\ jrnl.recs[r].part \in 1 .. len /\ jrnl.recs[r].part # len
                  /\ jrnl.recs[q].part \in 1 .. len
                  /\ jrnl.recs[q].part <= jrnl.recs[r].part
                BY <1>6, <1>7, <1>9, <2>1, <3>2
            <4>2. jrnl.recs[q].part # len
                BY <1>3, <4>1
            <4> QED
                BY <1>3, <1>6, <2>1, <4>1, <4>2
        <3> QED
            BY <3>1, <3>2
    <2>3. r \in 1 .. r
        BY <2>1
    <2> QED
        BY <2>2, <2>3 DEF Played
<1> QED
    BY <1>1, <1>2, <1>8, <1>9 DEF len

LEMMA CacheStores ==
    ASSUME PagerInv, CacheInv, NEW p \in Handles, NEW i \in Pages, StorePage(p, i)
    PROVE  CacheInv' /\ StoredKept
<1> DEFINE v == mem[p].cache[i]
           vers == IF i = 1 THEN mem[p].cache[1] ELSE mem[p].vers
           dirty == mem[p].dirty \ {i}
           m == [mem[p] EXCEPT !.dirty = dirty, !.vers = vers]
<1>1. /\ pc[p] \in {"store", "dbmod"} /\ i \in mem[p].dirty /\ Store(i, v)
      /\ pc[p] = "dbmod" => i \notin PagesOf(jrnl, Part(jrnl))
      /\ mem' = [mem EXCEPT ![p] = m]
      /\ UNCHANGED <<lockVars, jrnl, dead, pc, tx>>
    BY DEF StorePage, Fields
<1>2. /\ Working(pc[p], mem[p], jrnl, tx) /\ mem[p] \in PagerFields(tx)
      /\ v # None /\ jrnl # None /\ level[p] >= Reserved
    BY <1>1 DEF PagerInv, Values, Working, Locked, InWrite, InFlush
<1>3. /\ Armed /\ jrnl \in JournalsOf(tx) /\ JournalOK(jrnl)
      /\ JournalOf(pc[p], mem[p], db, jrnl, dead) /\ CacheOfWriter(mem[p], db, Stored)
      /\ \A r \in 1 .. Len(jrnl.recs) :
             ~(pc[p] = "dbmod" /\ jrnl.recs[r].part = Len(jrnl.magic))
             => r \in Played(jrnl) /\ jrnl.magic[jrnl.recs[r].part] = TRUE
    BY <1>1, OriginalsSafe
<1>4. /\ \A x \in Pages : db'[x] = IF x = i THEN v ELSE db[x]
      /\ \A x \in Pages : dbMaybe'[x] = IF x = i THEN dbMaybe[i] \cup {v} ELSE dbMaybe[x]
    BY <1>1 DEF PagerInv, Values, Store, Image
<1>5. /\ m.dirty = dirty /\ m.vers = vers /\ m.cache = mem[p].cache
      /\ m.logged = mem[p].logged /\ m.orig = mem[p].orig /\ m.commit = mem[p].commit
    <2> HIDE DEF vers, dirty
    <2> QED
        BY <1>2 DEF PagerFields, Fields0
<1> HIDE DEF m
<1>6. /\ Kept(p) /\ mem'[p] = m /\ pc'[p] = pc[p]
    BY <1>1 DEF PagerInv, Values, Kept, lockVars
\* No record that is not counted yet is about this page.
<1>7. \A r \in 1 .. Len(jrnl.recs) :
          jrnl.recs[r].page = i => r \in Played(jrnl) /\ jrnl.magic[jrnl.recs[r].part] = TRUE
    <2>1. pc[p] = "dbmod" => \A r \in 1 .. Len(jrnl.recs) :
              jrnl.recs[r].part = Len(jrnl.magic) => jrnl.recs[r].page # i
        <3>1. DOMAIN jrnl.recs = 1 .. Len(jrnl.recs)
            BY <1>3, PlayedFirst
        <3> QED
            BY <1>1, <3>1 DEF PagesOf, Part
    <2> QED
        BY <1>3, <2>1
<1>8. \A x \in Pages : Stored'[x] = Stored[x]
    <2>1. i <= jrnl.orig => \E r \in Played(jrnl) : jrnl.recs[r].page = i
        <3> SUFFICES ASSUME i <= jrnl.orig PROVE \E r \in Played(jrnl) : jrnl.recs[r].page = i
            OBVIOUS
        <3>1. i \in mem[p].logged
            BY <1>1, <1>3 DEF CacheOfWriter, JournalOf
        <3>2. PICK r \in DOMAIN jrnl.recs : jrnl.recs[r].page = i
            BY <1>1, <1>2, <3>1 DEF Working, InWrite, InFlush
        <3>3. r \in 1 .. Len(jrnl.recs)
            BY <1>3, PlayedFirst
        <3> QED
            BY <1>7, <3>2, <3>3
    <2>2. \A x \in Pages :
              x <= jrnl.orig /\ (\A r \in Played(jrnl) : jrnl.recs[r].page # x) => db'[x] = db[x]
        BY <1>4, <2>1
    <2>3. \A x \in Pages : Recovered(db', jrnl)[x] = Recovered(db, jrnl)[x]
        <3>1. Hot(jrnl)
            BY <1>3 DEF Armed
        <3> QED
            BY <1>3, <2>2, <3>1, SameRecovery
    <2> QED
        BY <1>1, <2>3 DEF Stored
<1>9. Disk'
    <2>1. Armed'
        BY <1>1, <1>3 DEF Armed
    <2>2. dead' = {} /\ jrnl' = jrnl
        BY <1>1, <1>3 DEF Armed
    <2>3. Whole(jrnl)'
        BY <1>1, <1>2, <1>4 DEF CacheInv, Disk, Whole
    <2> QED
        BY <1>3, <2>1, <2>2, <2>3 DEF Disk
<1>10. Guarded(p)'
    BY <1>1 DEF CacheInv, Guarded, lockVars
<1>11. Writing(pc[p], m, db', jrnl, dead)
    <2>1. JournalOf(pc[p], m, db', jrnl, dead)
        <3>1. ASSUME NEW r \in 1 .. Len(jrnl.recs), ~jrnl.magic[jrnl.recs[r].part]
              PROVE  db'[jrnl.recs[r].page] = jrnl.recs[r].image
            <4>1. jrnl.recs[r].page \in Pages /\ db[jrnl.recs[r].page] = jrnl.recs[r].image
                BY <1>3, <3>1, PlayedFirst DEF JournalOf, Entries
            <4>2. jrnl.recs[r].page # i
                BY <1>7, <3>1
            <4> QED
                BY <1>4, <4>1, <4>2
        <3> QED
            BY <1>3, <1>5, <3>1 DEF JournalOf
    <2>2. CacheOfWriter(m, db', Stored)
        <3>1. \A x \in mem[p].dirty : x \in Pages
            BY <1>2 DEF PagerFields, Fields0
        <3>2. ReadFrom(m, db') = ReadFrom(mem[p], db)
            BY <1>2, <1>4, <1>5 DEF ReadFrom
        <3>3. \A x \in Pages : /\ x \in m.dirty /\ x <= m.orig => x \in m.logged
                               /\ x \notin m.dirty => m.cache[x] \in {None, db'[x]}
            BY <1>3, <1>4, <1>5 DEF CacheOfWriter
        <3>4. IF m.commit
              THEN /\ 1 \in m.logged /\ m.cache[1] = Stored[1] + 1
                   /\ m.vers = IF 1 \in m.dirty THEN Stored[1] ELSE Stored[1] + 1
              ELSE /\ 1 \notin m.logged /\ 1 \notin m.dirty
                   /\ m.cache[1] = Stored[1] /\ m.vers = Stored[1]
            <4> HIDE DEF Stored
            <4> QED
                BY <1>1, <1>3, <1>5 DEF CacheOfWriter
        <3>5. PrefixClosed(ReadFrom(m, db'))
            BY <1>3, <3>2 DEF CacheOfWriter
        <3> HIDE DEF Stored
        <3> QED
            BY <3>3, <3>4, <3>5 DEF CacheOfWriter
    <2>3. CacheOfWriter(m, db', Recovered(db', jrnl))
        <3>1. Recovered(db', jrnl)[1] = Stored[1]
            BY <1>1, <1>8, PagerAssumption DEF Pages, Stored
        <3> HIDE DEF Stored
        <3> QED
            BY <2>2, <3>1, SameVersion
    <2>4. pc[p] = "store" => m.commit
        BY <1>5 DEF CacheInv, Writing
    <2> QED
        BY <1>1, <1>3, <2>1, <2>3, <2>4 DEF Writing, Armed
<1>12. Restoring(pc[p], m, db', jrnl) /\ Durable(pc[p])'
    BY <1>1 DEF Restoring, Durable
<1>13. Fresh(pc[p], m, Stored')
    BY <1>1 DEF Fresh, Active, InWrite, InFlush
<1>14. pc[p] \in Owning
    BY <1>1 DEF Owning, InWrite, InFlush
<1> HIDE DEF Stored
<1> QED
    BY <1>1, <1>6, <1>8, <1>9, <1>10, <1>11, <1>12, <1>13, <1>14, CacheStep

\* fsync of the database file keeps what a journal needs.
LEMMA SyncedWhole ==
    ASSUME Values, SyncDb, UNCHANGED <<jrnl, dead>>,
           \A j \in dead \cup {jrnl} : j # None => JournalOK(j) /\ Whole(j)
    PROVE  \A j \in dead' \cup {jrnl'} : j # None => JournalOK(j) /\ Whole(j)'
BY DEF Values, SyncDb, Whole

LEMMA CacheFinishes ==
    ASSUME PagerInv, CacheInv, NEW p \in Handles, SyncStored(p)
    PROVE  CacheInv' /\ StoredKept
<1>1. /\ pc[p] = "store" /\ mem[p].dirty = {} /\ SyncDb /\ db' = db
      /\ pc' = [pc EXCEPT ![p] = "finished"]
      /\ UNCHANGED <<lockVars, jrnl, dead, mem, tx>>
    BY DEF SyncStored, SyncDb, Goto
<1>2. /\ Kept(p) /\ mem'[p] = mem[p] /\ pc'[p] = "finished"
    BY <1>1 DEF PagerInv, Values, Kept, lockVars
<1>3. /\ Armed /\ JournalOf("store", mem[p], db, jrnl, dead) /\ CacheOfWriter(mem[p], db, Stored)
      /\ mem[p].commit
    BY <1>1, OriginalsSafe DEF CacheInv, Writing
<1>4. Settled'
    <2>1. \A x \in Pages : ReadFrom(mem[p], db)[x] = db[x]
        BY <1>1, <1>3 DEF CacheOfWriter, ReadFrom
    <2>2. PrefixClosed(db)
        BY <1>3, <2>1 DEF CacheOfWriter, PrefixClosed
    <2> QED
        BY <1>1, <2>2 DEF Settled, SyncDb
<1>5. Disk'
    BY <1>1, <1>4, SyncedWhole DEF Disk, CacheInv, PagerInv
<1>6. Stored' = Stored
    BY <1>1 DEF Stored
<1>7. Guarded(p)'
    BY <1>1, <1>2 DEF CacheInv, Guarded, NeverHot, lockVars
<1>8. Writing("finished", mem[p], db', jrnl', dead')
    <2>1. JournalOf("finished", mem[p], db, jrnl, dead)
        BY <1>3 DEF JournalOf
    <2> QED
        BY <1>1, <1>3, <2>1 DEF Writing, Armed, Stored
<1>9. Restoring("finished", mem[p], db', jrnl') /\ Durable(pc[p])'
    BY <1>2, <1>4 DEF Restoring, Durable
<1>10. Fresh("finished", mem[p], Stored')
    BY DEF Fresh, Active, InWrite, InFlush
<1>11. pc[p] \in Owning
    BY <1>1 DEF Owning, InWrite, InFlush
<1> HIDE DEF Stored
<1> QED
    BY <1>1, <1>2, <1>5, <1>6, <1>7, <1>8, <1>9, <1>10, <1>11, CacheStep

----------------------------------------------------------------------------
(* Playing back *)

LEMMA CachePlayedBack ==
    ASSUME PagerInv, CacheInv, NEW p \in Handles, EndPlayBack(p)
    PROVE  CacheInv' /\ StoredKept
<1> DEFINE s == IF pc[p] = "undo" THEN "undone" ELSE "replayed"
<1>1. /\ pc[p] \in {"replay", "undo"} /\ mem[p].todo = <<>> /\ SyncDb /\ db' = db
      /\ pc' = [pc EXCEPT ![p] = s]
      /\ UNCHANGED <<lockVars, jrnl, dead, mem, tx>>
    BY DEF EndPlayBack, SyncDb, Goto
<1>2. /\ Kept(p) /\ mem'[p] = mem[p] /\ pc'[p] = s /\ jrnl # None
    BY <1>1 DEF PagerInv, Values, Kept, lockVars, Working, InRollback
<1>3. /\ jrnl \in JournalsOf(tx) /\ JournalOK(jrnl) /\ Whole(jrnl) /\ (Settled \/ Armed)
      /\ Restoring(pc[p], mem[p], db, jrnl)
    BY <1>2 DEF PagerInv, Values, CacheInv, Disk
<1>4. \A r \in Played(jrnl) : db[jrnl.recs[r].page] = jrnl.recs[r].image
    <2>1. DOMAIN mem[p].todo = {}
        BY <1>1
    <2>2. DOMAIN Playable(jrnl) = Played(jrnl) /\ \A r \in Played(jrnl) : Playable(jrnl)[r] = jrnl.recs[r]
        BY <1>3, PlayedFirst
    <2> QED
        BY <1>1, <1>3, <2>1, <2>2 DEF Restoring
<1>5. Hot(jrnl) => \A i \in Pages : db[i] # None <=> i <= jrnl.orig
    <2>1. \A i \in Pages : i <= jrnl.orig => db[i] # None
        BY <1>3 DEF Whole, PagerInv, Values
    <2>2. Hot(jrnl) => \A i \in Pages : i > jrnl.orig => db[i] = None
        BY <1>1, <1>3 DEF Restoring
    <2>3. \A i \in Pages : i <= jrnl.orig \/ i > jrnl.orig
        BY <1>3, PagerAssumption DEF Pages, JournalsOf, Journals
    <2> QED
        BY <2>1, <2>2, <2>3
<1>6. PrefixClosed(db)
    <2>1. CASE Hot(jrnl)
        BY <1>3, <1>5, <2>1, PagerAssumption DEF PrefixClosed, Pages, JournalsOf, Journals
    <2>2. CASE ~Hot(jrnl)
        BY <1>3, <2>2 DEF Settled, Armed
    <2> QED
        BY <2>1, <2>2
<1>7. Settled'
    BY <1>1, <1>6 DEF Settled, SyncDb
<1>8. Disk'
    BY <1>1, <1>7, SyncedWhole DEF Disk, CacheInv, PagerInv
<1>9. \A i \in Pages : db[i] = Recovered(db, jrnl)[i]
    <2> SUFFICES ASSUME NEW i \in Pages PROVE db[i] = Recovered(db, jrnl)[i]
        OBVIOUS
    <2>1. CASE ~Hot(jrnl)
        BY <2>1 DEF Recovered
    <2>2. CASE Hot(jrnl)
        <3>1. CASE i > jrnl.orig
            BY <1>1, <1>3, <2>2, <3>1, RecoveredPages DEF Restoring
        <3>2. CASE \E r \in Played(jrnl) : jrnl.recs[r].page = i
            BY <1>3, <1>4, <2>2, <3>2, RecoveredPages
        <3>3. CASE i <= jrnl.orig /\ \A r \in Played(jrnl) : jrnl.recs[r].page # i
            BY <1>3, <2>2, <3>3, RecoveredPages
        <3> QED
            BY <1>3, <3>1, <3>2, <3>3, PagerAssumption DEF Pages, JournalsOf, Journals
    <2> QED
        BY <2>1, <2>2
<1>10. Stored' = Stored
    BY <1>1 DEF Stored
<1>11. s \in {"undone", "replayed"} /\ (s = "undone" => pc[p] = "undo")
    OBVIOUS
<1> HIDE DEF s
<1>12. Guarded(p)'
    BY <1>1, <1>2, <1>11 DEF CacheInv, Guarded, NeverHot, lockVars
<1>13. Writing(s, mem[p], db', jrnl', dead')
    BY <1>11 DEF Writing, Active, InWrite, InFlush
<1>14. Restoring(s, mem[p], db', jrnl') /\ Durable(pc[p])'
    BY <1>1, <1>2, <1>7, <1>9, <1>11 DEF Restoring, Durable
<1>15. Fresh(s, mem[p], Stored')
    <2> HIDE DEF Stored
    <2> QED
        BY <1>1, <1>10, <1>11 DEF CacheInv, Fresh, Active, InWrite, InFlush
<1>16. pc[p] \in Owning
    BY <1>1 DEF Owning, InRollback, InRecovery
<1> HIDE DEF Stored
<1> QED
    BY <1>1, <1>2, <1>8, <1>10, <1>12, <1>13, <1>14, <1>15, <1>16, CacheStep

LEMMA CachePlaysBack ==
    ASSUME PagerInv, CacheInv, NEW p \in Handles, PlayBack(p)
    PROVE  CacheInv' /\ StoredKept
<1> DEFINE todo == Tail(mem[p].todo)
           m == [mem[p] EXCEPT !.todo = todo]
           r == Head(mem[p].todo)
<1>1. /\ pc[p] \in {"replay", "undo"} /\ mem[p].todo # <<>> /\ Store(r.page, r.image)
      /\ mem' = [mem EXCEPT ![p] = m]
      /\ UNCHANGED <<lockVars, jrnl, dead, pc, tx>>
    BY DEF PlayBack, Fields, PagerInv, Values, PagerFields, Fields0
<1>2. /\ mem[p] \in PagerFields(tx) /\ jrnl # None /\ mem[p].todo \in Seq(Entries(tx))
      /\ Restoring(pc[p], mem[p], db, jrnl) /\ Durable(pc[p]) /\ Fresh(pc[p], mem[p], Stored)
    BY <1>1 DEF PagerInv, Values, Working, InRollback, PagerFields, CacheInv
<1>3. jrnl \in JournalsOf(tx) /\ JournalOK(jrnl) /\ Whole(jrnl)
    BY <1>2 DEF PagerInv, Values, CacheInv, Disk
<1>4. /\ DOMAIN Playable(jrnl) = Played(jrnl)
      /\ \A q \in Played(jrnl) : Playable(jrnl)[q] = jrnl.recs[q] /\ q \in 1 .. Len(jrnl.recs)
    BY <1>3, PlayedFirst DEF Played
<1>5. /\ 1 \in DOMAIN mem[p].todo /\ r = mem[p].todo[1]
      /\ \A t \in DOMAIN mem[p].todo :
             t = 1 \/ (t - 1 \in DOMAIN todo /\ todo[t - 1] = mem[p].todo[t])
      /\ \A t \in DOMAIN todo : t + 1 \in DOMAIN mem[p].todo /\ todo[t] = mem[p].todo[t + 1]
    <2> DEFINE full == mem[p].todo
    <2>1. full \in Seq(Entries(tx)) /\ full # <<>>
        BY <1>1, <1>2
    <2> HIDE DEF full
    <2>2. /\ Tail(full) \in Seq(Entries(tx)) /\ Len(Tail(full)) = Len(full) - 1
          /\ \A t \in 1 .. Len(Tail(full)) : Tail(full)[t] = full[t + 1]
          /\ Head(full) = full[1]
        BY <2>1, HeadTailProperties
    <2>3. /\ DOMAIN full = 1 .. Len(full) /\ DOMAIN Tail(full) = 1 .. Len(Tail(full))
          /\ Len(full) \in Nat /\ Len(full) # 0
        BY <2>1, <2>2, LenProperties, EmptySeq
    <2>4. \A t \in DOMAIN full :
              t = 1 \/ (t - 1 \in DOMAIN Tail(full) /\ Tail(full)[t - 1] = full[t])
        <3> SUFFICES ASSUME NEW t \in DOMAIN full, t # 1
                     PROVE  t - 1 \in DOMAIN Tail(full) /\ Tail(full)[t - 1] = full[t]
            OBVIOUS
        <3>1. t - 1 \in 1 .. Len(Tail(full)) /\ (t - 1) + 1 = t
            BY <2>2, <2>3
        <3>2. Tail(full)[t - 1] = full[(t - 1) + 1]
            BY <2>2, <3>1
        <3> QED
            BY <2>3, <3>1, <3>2
    <2>5. \A t \in DOMAIN Tail(full) : t + 1 \in DOMAIN full /\ Tail(full)[t] = full[t + 1]
        BY <2>2, <2>3
    <2> QED
        BY <2>2, <2>3, <2>4, <2>5 DEF full
<1> HIDE DEF r, todo
<1>6. PICK q \in Played(jrnl) : r = jrnl.recs[q]
    BY <1>1, <1>2, <1>4, <1>5 DEF Restoring
<1>7. Hot(jrnl) /\ Armed
    <2>1. Hot(jrnl)
        BY <1>3, <1>6, NothingPlayed
    <2> QED
        BY <1>1, <1>2, <2>1 DEF Durable
<1>8. /\ r.page \in Pages /\ r.page <= jrnl.orig /\ r.image # None
      /\ \A t \in Played(jrnl) : jrnl.recs[t].page = r.page => jrnl.recs[t] = r
      /\ \A t \in Played(jrnl) : jrnl.recs[t].page \in Pages
    BY <1>3, <1>4, <1>6, PlayedFirst DEF JournalOK, Entries
<1>9. /\ m.cache = mem[p].cache /\ m.vers = mem[p].vers /\ m.todo = todo
    BY <1>2 DEF PagerFields, Fields0
<1> HIDE DEF m
<1>10. /\ Kept(p) /\ mem'[p] = m /\ pc'[p] = pc[p]
    BY <1>1 DEF PagerInv, Values, Kept, lockVars
<1>11. /\ \A x \in Pages : db'[x] = IF x = r.page THEN r.image ELSE db[x]
       /\ \A x \in Pages :
              dbMaybe'[x] = IF x = r.page THEN dbMaybe[x] \cup {r.image} ELSE dbMaybe[x]
    BY <1>1, <1>8 DEF PagerInv, Values, Store, Image
<1>12. \A x \in Pages : Stored'[x] = Stored[x]
    <2>1. \A x \in Pages :
              x <= jrnl.orig /\ (\A t \in Played(jrnl) : jrnl.recs[t].page # x) => db'[x] = db[x]
        BY <1>6, <1>11
    <2>2. \A x \in Pages : Recovered(db', jrnl)[x] = Recovered(db, jrnl)[x]
        BY <1>3, <1>7, <2>1, SameRecovery
    <2> QED
        BY <1>1, <2>2 DEF Stored
<1>13. Armed' /\ Disk'
    <2>1. Armed'
        BY <1>1, <1>7 DEF Armed
    <2>2. dead' = {} /\ jrnl' = jrnl
        BY <1>1, <1>7 DEF Armed
    <2>3. Whole(jrnl)'
        <3>1. \A x \in Pages : None \in dbMaybe'[x] => None \in dbMaybe[x]
            BY <1>8, <1>11
        <3>2. jrnl'.orig = jrnl.orig
            BY <1>1
        <3> QED
            BY <1>1, <1>3, <3>1, <3>2 DEF Whole
    <2> QED
        BY <1>3, <2>1, <2>2, <2>3 DEF Disk
<1>14. Guarded(p)'
    BY <1>1 DEF CacheInv, Guarded, lockVars
<1>15. Writing(pc[p], m, db', jrnl', dead')
    BY <1>1 DEF Writing, Active, InWrite, InFlush
<1>16. Restoring(pc[p], m, db', jrnl)
    <2>1. ASSUME NEW t \in Played(jrnl)
          PROVE  \/ db'[jrnl.recs[t].page] = jrnl.recs[t].image
                 \/ \E u \in DOMAIN todo : todo[u] = jrnl.recs[t]
        <3>1. \/ db[jrnl.recs[t].page] = jrnl.recs[t].image
              \/ \E u \in DOMAIN mem[p].todo : mem[p].todo[u] = jrnl.recs[t]
            BY <1>1, <1>2, <1>4 DEF Restoring
        <3>2. CASE jrnl.recs[t] = r
            BY <1>8, <1>11, <3>2
        <3>3. CASE jrnl.recs[t] # r
            <4>1. jrnl.recs[t].page # r.page /\ jrnl.recs[t].page \in Pages
                BY <1>8, <3>3
            <4>2. db'[jrnl.recs[t].page] = db[jrnl.recs[t].page]
                BY <1>11, <4>1
            <4>3. (\E u \in DOMAIN mem[p].todo : mem[p].todo[u] = jrnl.recs[t])
                  => \E u \in DOMAIN todo : todo[u] = jrnl.recs[t]
                BY <1>5, <3>3
            <4> QED
                BY <3>1, <4>2, <4>3
        <3> QED
            BY <3>2, <3>3
    <2>2. \A u \in DOMAIN todo : \E t \in DOMAIN Playable(jrnl) : todo[u] = Playable(jrnl)[t]
        BY <1>1, <1>2, <1>5 DEF Restoring
    <2>3. \A x \in Pages : x > jrnl.orig => db'[x] = None
        <3>1. \A x \in Pages : x > jrnl.orig => x # r.page
            BY <1>3, <1>8, PagerAssumption DEF Pages, JournalsOf, Journals
        <3> QED
            BY <1>1, <1>2, <1>7, <1>11, <3>1 DEF Restoring
    <2> QED
        BY <1>1, <1>4, <1>9, <2>1, <2>2, <2>3 DEF Restoring
<1>17. Durable(pc[p])'
    BY <1>1, <1>13 DEF Durable
<1>18. Fresh(pc[p], m, Stored')
    <2>1. Stored'[1] = Stored[1] /\ 1 \in Pages
        BY <1>12, PagerAssumption DEF Pages
    <2> HIDE DEF Stored
    <2> QED
        BY <1>2, <1>9, <1>12, <2>1 DEF Fresh
<1>19. pc[p] \in Owning
    BY <1>1 DEF Owning, InRollback, InRecovery
<1> HIDE DEF Stored
<1> QED
    BY <1>1, <1>7, <1>10, <1>12, <1>13, <1>14, <1>15, <1>16, <1>17, <1>18, <1>19, CacheStep

\* pager_truncate, to the size the journal has
LEMMA TruncatedTo ==
    ASSUME Values, NEW n \in Pages, Truncate(n)
    PROVE  /\ \A i \in Pages : db'[i] = IF i > n THEN None ELSE db[i]
           /\ \A i \in Pages : i <= n => db'[i] = db[i] /\ dbMaybe'[i] = dbMaybe[i]
BY PagerAssumption DEF Truncate, Pages

LEMMA CacheRecovers ==
    ASSUME PagerInv, CacheInv, NEW p \in Handles, Recover(p)
    PROVE  CacheInv' /\ StoredKept
<1>1. /\ pc[p] = "recover" /\ mem[p] \in PagerFields(tx) /\ level[p] = Exclusive
      /\ Fresh("recover", mem[p], Stored)
    BY DEF PagerInv, Values, Recover, CacheInv, Locked, InRecovery
<1>2. CASE jrnl = None
    <2>1. /\ Downgrade(p) /\ pc' = [pc EXCEPT ![p] = "validate"] /\ UNCHANGED <<files, mem>>
        BY <1>2 DEF Recover, Goto
    <2>2. Kept(p) /\ mem'[p] = mem[p] /\ pc'[p] = "validate"
        BY <2>1, Locking DEF PagerInv, LockInv, Kept, Values
    <2>3. Guarded(p)'
        BY <1>2, <2>1 DEF Guarded, Hot, files
    <2>4. /\ Writing("validate", mem[p], db, jrnl, dead) /\ Restoring("validate", mem[p], db, jrnl)
          /\ Durable("validate")
        BY DEF Writing, Restoring, Durable, InWrite, InFlush, Active
    <2>5. Fresh("validate", mem[p], Stored)
        BY <1>1 DEF Fresh, Active, InWrite, InFlush
    <2> QED
        BY <2>1, <2>2, <2>3, <2>4, <2>5, QuietStep
<1>3. CASE jrnl # None
    <2> DEFINE recs == Playable(jrnl)
               cache == IF recs = <<>> THEN mem[p].cache ELSE NoPages
               m == [mem[p] EXCEPT !.todo = recs, !.cache = cache]
    <2>1. /\ SyncJournal /\ pc' = [pc EXCEPT ![p] = "replay"] /\ UNCHANGED lockVars
          /\ IF Hot(jrnl) THEN Truncate(jrnl.orig) ELSE UNCHANGED <<db, dbMaybe>>
          /\ mem' = [mem EXCEPT ![p] = m]
        BY <1>1, <1>3 DEF Recover, Fields, Goto, PagerFields, Fields0
    <2>2. jrnl \in JournalsOf(tx) /\ jrnl.orig \in Pages /\ JournalOK(jrnl)
        BY <1>3 DEF PagerInv, Values, JournalsOf, Journals, CacheInv, Disk
    <2>3. /\ jrnl' \in JournalsOf(tx) /\ JournalOK(jrnl') /\ Whole(jrnl')
          /\ (Hot(jrnl') <=> Hot(jrnl)) /\ Playable(jrnl') = Playable(jrnl)
          /\ \A f : Recovered(f, jrnl') = Recovered(f, jrnl)
          /\ dead' = {} /\ (Hot(jrnl) => Armed')
          /\ jrnl'.recs = jrnl.recs /\ jrnl'.magic = jrnl.magic /\ jrnl'.orig = jrnl.orig
        BY <1>3, <2>1, SyncedDisk
    <2>4. /\ \A i \in Pages : i <= jrnl.orig => db'[i] = db[i] /\ dbMaybe'[i] = dbMaybe[i]
          /\ Hot(jrnl) => \A i \in Pages : i > jrnl.orig => db'[i] = None
          /\ ~Hot(jrnl) => UNCHANGED <<db, dbMaybe>>
        <3>1. CASE Hot(jrnl)
            <4>1. /\ \A i \in Pages : db'[i] = IF i > jrnl.orig THEN None ELSE db[i]
                  /\ \A i \in Pages : i <= jrnl.orig => db'[i] = db[i] /\ dbMaybe'[i] = dbMaybe[i]
                BY <2>1, <2>2, <3>1, TruncatedTo DEF PagerInv
            <4> QED
                BY <3>1, <4>1
        <3>2. CASE ~Hot(jrnl)
            BY <2>1, <3>2
        <3> QED
            BY <3>1, <3>2
    <2>5. \A i \in Pages : cache[i] \in {None, mem[p].cache[i]}
        BY DEF NoPages
    <2> HIDE DEF cache, recs
    <2>6. m.todo = recs /\ m.cache = cache /\ m.vers = mem[p].vers
        BY <1>1 DEF PagerFields, Fields0
    <2> HIDE DEF m
    <2>7. Kept(p) /\ mem'[p] = m /\ pc'[p] = "replay"
        BY <2>1 DEF PagerInv, Values, Kept, lockVars
    <2>8. Disk'
        <3>1. Whole(jrnl)'
            BY <2>3, <2>4 DEF Whole
        <3>2. Settled' \/ Armed'
            BY <2>3, <2>4 DEF CacheInv, Disk, Settled, Armed
        <3> QED
            BY <2>3, <3>1, <3>2 DEF Disk, Whole
    <2>9. \A i \in Pages : Stored'[i] = Stored[i]
        <3>1. Stored' = Recovered(db', jrnl)
            BY <2>3 DEF Stored
        <3>2. CASE Hot(jrnl)
            <4>1. \A i \in Pages : Recovered(db', jrnl)[i] = Recovered(db, jrnl)[i]
                BY <2>2, <2>4, <3>2, SameRecovery
            <4> QED
                BY <3>1, <4>1 DEF Stored
        <3>3. CASE ~Hot(jrnl)
            BY <2>4, <3>1, <3>3 DEF Stored
        <3> QED
            BY <3>2, <3>3
    <2>10. Guarded(p)'
        BY <1>1, <2>1, <2>7 DEF Guarded, NeverHot, lockVars
    <2>11. Writing("replay", m, db', jrnl', dead')
        BY DEF Writing, Active, InWrite, InFlush
    <2>12. Restoring("replay", m, db', jrnl')
        <3>1. m.todo = Playable(jrnl')
            BY <2>3, <2>6 DEF recs
        <3>2. Hot(jrnl') => \A i \in Pages : i > jrnl'.orig => db'[i] = None
            BY <2>3, <2>4
        <3> QED
            BY <3>1, <3>2 DEF Restoring
    <2>13. Durable(pc[p])'
        BY <2>3, <2>7 DEF Durable
    <2>14. Fresh("replay", m, Stored')
        <3>1. Stored'[1] = Stored[1] /\ 1 \in Pages
            BY <2>9, PagerAssumption DEF Pages
        <3> HIDE DEF Stored
        <3> QED
            BY <1>1, <2>5, <2>6, <2>9, <3>1 DEF Fresh, Active, InWrite, InFlush
    <2>15. pc[p] \in Owning
        BY <1>1 DEF Owning, InRecovery
    <2> HIDE DEF Stored
    <2> QED
        BY <2>3, <2>7, <2>8, <2>9, <2>10, <2>11, <2>12, <2>13, <2>14, <2>15, CacheStep
<1> QED
    BY <1>2, <1>3

----------------------------------------------------------------------------
(* The end of a transaction *)

LEMMA StoredCounter ==
    ASSUME PagerInv, CacheInv
    PROVE  1 \in Pages /\ Stored[1] \in 0 .. tx
<1>1. 1 \in Pages /\ db[1] \in 0 .. tx
    BY PagerAssumption DEF PagerInv, Values, Content, Pages
<1>2. CASE ~Hot(jrnl)
    BY <1>1, <1>2, ColdStored
<1>3. CASE Hot(jrnl)
    <2>1. jrnl \in JournalsOf(tx) /\ JournalOK(jrnl) /\ jrnl.orig \in Pages
        BY <1>3 DEF Hot, PagerInv, Values, CacheInv, Disk, JournalsOf, Journals
    <2>2. CASE \E r \in Played(jrnl) : jrnl.recs[r].page = 1
        <3>1. PICK r \in Played(jrnl) : jrnl.recs[r].page = 1
            BY <2>2
        <3>2. Stored[1] = jrnl.recs[r].image
            BY <1>3, <2>1, <3>1, RecoveredPages DEF Stored
        <3>3. jrnl.recs[r] \in Entries(tx)
            BY <2>1, <3>1, PlayedFirst DEF Played
        <3> QED
            BY <1>1, <3>1, <3>2, <3>3 DEF Entries, Content
    <2>3. CASE \A r \in Played(jrnl) : jrnl.recs[r].page # 1
        <3>1. 1 <= jrnl.orig
            BY <2>1 DEF Pages
        <3>2. Stored[1] = db[1]
            BY <1>1, <1>3, <2>1, <2>3, <3>1, RecoveredPages DEF Stored
        <3> QED
            BY <1>1, <3>2
    <2> QED
        BY <2>2, <2>3
<1> QED
    BY <1>2, <1>3

\* Without its journal what is in the file is the database.
LEMMA CacheEnds ==
    ASSUME PagerInv, CacheInv, NEW p \in Handles, EndTransaction(p)
    PROVE  CacheInv' /\ (pc[p] # "finished" => StoredKept)
<1> DEFINE s == IF pc[p] = "replayed" THEN "rest" ELSE "leave"
<1>1. /\ pc[p] \in {"finished", "undone", "replayed"} /\ pc' = [pc EXCEPT ![p] = s]
      /\ UNCHANGED <<lockVars, db, dbMaybe, mem, tx>>
      /\ dead' = dead \cup {jrnl} /\ jrnl' = None
    BY DEF EndTransaction, DeleteJournal, Goto
<1>2. /\ Kept(p) /\ mem'[p] = mem[p] /\ pc'[p] = s /\ jrnl # None /\ Working(pc[p], mem[p], jrnl, tx)
    BY <1>1 DEF PagerInv, Values, Kept, lockVars, Working, InWrite, InFlush, InRollback
<1>3. /\ Settled /\ Settled'
    BY <1>1 DEF CacheInv, Durable, Settled
<1>4. Disk'
    BY <1>1, <1>3 DEF CacheInv, Disk, Whole
<1>5. ~Hot(jrnl') /\ Stored' = db
    BY <1>1 DEF Hot, Stored, Recovered
<1>6. s \in {"rest", "leave"} /\ (s = "rest" <=> pc[p] = "replayed")
    OBVIOUS
<1> HIDE DEF s
<1>7. \A q \in Handles : Guarded(q)'
    BY <1>5 DEF Guarded
<1>8. Writing(s, mem[p], db', jrnl', dead') /\ Restoring(s, mem[p], db', jrnl') /\ Durable(pc[p])'
    BY <1>2, <1>6 DEF Writing, Restoring, Durable, Active, InWrite, InFlush
<1>9. CASE pc[p] \in {"undone", "replayed"}
    <2>1. \A i \in Pages : Stored'[i] = Stored[i]
        BY <1>5, <1>9 DEF CacheInv, Restoring, Stored
    <2>2. Stored'[1] = Stored[1] /\ 1 \in Pages
        BY <2>1, PagerAssumption DEF Pages
    <2>3. Fresh(s, mem[p], Stored')
        <3> HIDE DEF Stored
        <3> QED
            BY <1>6, <1>9, <2>1, <2>2 DEF CacheInv, Fresh, Active, InWrite, InFlush
    <2>4. pc[p] \in Owning
        BY <1>9 DEF Owning, InRollback, InRecovery
    <2> HIDE DEF Stored
    <2> QED
        BY <1>2, <1>4, <1>5, <1>7, <1>8, <2>1, <2>3, <2>4, CacheStep
<1>10. CASE pc[p] = "finished"
    <2>1. s = "leave" /\ level[p] = Exclusive /\ mem[p].dirty = {}
        BY <1>2, <1>6, <1>10 DEF PagerInv, Locked, InFlush, Working, InWrite
    <2>2. CacheOfWriter(mem[p], db, Stored) /\ mem[p].commit
        BY <1>10 DEF CacheInv, Writing, Active, InWrite, InFlush, Stored
    <2>3. 1 \in Pages /\ Stored[1] \in 0 .. tx /\ tx \in Nat
        BY StoredCounter DEF PagerInv, Values
    <2>4. /\ db[1] = Stored[1] + 1 /\ mem[p].vers = db[1] /\ mem[p].cache[1] = db[1]
          /\ \A i \in Pages : mem[p].cache[i] \in {None, db[i]}
        <3>1. /\ mem[p].cache[1] = Stored[1] + 1 /\ mem[p].vers = Stored[1] + 1
              /\ \A i \in Pages : mem[p].cache[i] \in {None, db[i]}
            <4> HIDE DEF Stored
            <4> QED
                BY <2>1, <2>2 DEF CacheOfWriter
        <3>2. Stored[1] + 1 # None
            <4> HIDE DEF Stored
            <4> QED
                BY <2>3, PagerAssumption
        <3>3. mem[p].cache[1] = db[1]
            <4> HIDE DEF Stored
            <4> QED
                BY <2>3, <3>1, <3>2
        <3> QED
            BY <3>1, <3>3
    <2> HIDE DEF Stored
    <2>5. Fresh(s, mem[p], Stored')
        BY <1>5, <2>1, <2>3, <2>4 DEF Fresh
    <2>6. ASSUME NEW q \in Handles, q # p
          PROVE  /\ Writing(pc'[q], mem'[q], db', jrnl', dead')
                 /\ Restoring(pc'[q], mem'[q], db', jrnl') /\ Durable(pc[q])'
                 /\ Fresh(pc'[q], mem'[q], Stored')
        <3>1. pc[q] = "open" /\ pc'[q] = "open" /\ mem'[q] = mem[q]
            BY <1>2, <2>1, <2>6, OthersOpen DEF Kept
        <3>2. Fresh("open", mem[q], Stored) /\ mem[q] \in PagerFields(tx)
            BY <3>1 DEF CacheInv, PagerInv, Values
        <3>3. mem[q].vers # None => mem[q].vers \in Nat /\ mem[q].vers <= Stored[1]
            BY <2>3, <3>2 DEF Fresh, Active, InWrite, InFlush, PagerFields, CacheOf, Content
        <3>4. db[1] # None /\ (mem[q].vers # None => mem[q].vers <= db[1] /\ mem[q].vers # db[1])
            BY <2>3, <2>4, <3>3, PagerAssumption
        <3>5. Fresh("open", mem[q], db)
            BY <3>4 DEF Fresh
        <3> QED
            BY <1>5, <3>1, <3>5
               DEF Writing, Restoring, Durable, Active, InWrite, InFlush
    <2>7. CacheInv'
        BY <1>2, <1>4, <1>7, <1>8, <2>5, <2>6 DEF CacheInv
    <2> QED
        BY <1>10, <2>7
<1> QED
    BY <1>1, <1>9, <1>10

\* The records of a transaction are what the stored database has.
LEMMA OriginalsStored ==
    ASSUME Values, NEW j \in JournalsOf(tx), JournalOK(j), NEW s, NEW m, NEW d,
           JournalOf(s, m, db, j, d)
    PROVE  \A r \in 1 .. Len(j.recs) : Recovered(db, j)[j.recs[r].page] = j.recs[r].image
<1> DEFINE len == Len(j.magic)
<1>1. /\ len \in Nat \ {0}
      /\ \A t \in 1 .. len : t # len => j.magic[t] = TRUE
    BY EarlierParts, LastPart DEF Part
<1>2. /\ \A r \in 1 .. Len(j.recs) :
             /\ j.recs[r].valid /\ j.recs[r].part \in 1 .. len /\ j.recs[r].page \in Pages
             /\ j.recs[r].page <= j.orig
             /\ ~j.magic[j.recs[r].part] => db[j.recs[r].page] = j.recs[r].image
      /\ \A q, r \in 1 .. Len(j.recs) :
             /\ j.recs[q].page = j.recs[r].page => q = r
             /\ q <= r => j.recs[q].part <= j.recs[r].part
      /\ Len(j.recs) \in Nat
    BY PlayedFirst DEF JournalOf, JournalOK, Entries
<1> HIDE DEF len
<1> SUFFICES ASSUME NEW r \in 1 .. Len(j.recs)
             PROVE  Recovered(db, j)[j.recs[r].page] = j.recs[r].image
    OBVIOUS
<1>3. CASE r \in Played(j)
    <2>1. Hot(j)
        BY <1>3, NothingPlayed
    <2> QED
        BY <1>3, <2>1, RecoveredPages
<1>4. CASE r \notin Played(j)
    <2>1. PICK q \in 1 .. r : ~(j.recs[q].valid /\ j.magic[j.recs[q].part])
        BY <1>4 DEF Played
    <2>2. q \in 1 .. Len(j.recs) /\ q <= r
        BY <1>2
    <2>3. j.recs[q].part = len /\ ~j.magic[j.recs[q].part]
        BY <1>1, <1>2, <2>1, <2>2
    <2>4. j.recs[r].part \in 1 .. len /\ len <= j.recs[r].part
        BY <1>2, <2>2, <2>3
    <2>5. j.recs[r].part = len
        BY <1>1, <2>4
    <2>6. db[j.recs[r].page] = j.recs[r].image
        BY <1>2, <2>3, <2>5
    <2>7. CASE ~Hot(j)
        BY <2>6, <2>7 DEF Recovered
    <2>8. CASE Hot(j)
        <3>1. \A t \in Played(j) : j.recs[t].page # j.recs[r].page
            BY <1>2, <1>4 DEF Played
        <3> QED
            BY <1>2, <2>6, <2>8, <3>1, RecoveredPages
    <2> QED
        BY <2>7, <2>8
<1> QED
    BY <1>3, <1>4

\* What a rollback makes of the cache
LEMMA CacheRestored ==
    ASSUME PagerInv, CacheInv, NEW p \in Handles, pc[p] \in {"cachemod", "lock", "dbmod", "finished"},
           NEW i \in Pages
    PROVE  LET m == mem[p]
               was == jrnl.recs[CHOOSE r \in DOMAIN jrnl.recs : jrnl.recs[r].page = i].image
           IN /\ i > m.orig => Stored[i] = None
              /\ i \in m.logged => was = Stored[i]
              /\ i <= m.orig /\ i \notin m.logged => m.cache[i] \in {None, Stored[i]}
<1> DEFINE m == mem[p]
           q == CHOOSE r \in DOMAIN jrnl.recs : jrnl.recs[r].page = i
<1>1. /\ jrnl # None /\ jrnl \in JournalsOf(tx) /\ JournalOK(jrnl)
      /\ Working(pc[p], m, jrnl, tx)
    BY DEF PagerInv, Values, CacheInv, Disk, Working, InWrite, InFlush
<1>2. /\ JournalOf(pc[p], m, db, jrnl, dead) /\ CacheOfWriter(m, db, Stored)
      /\ ~Hot(jrnl) => \A x \in Pages : db[x] # None <=> x <= m.orig
    BY DEF CacheInv, Writing, Active, InWrite, InFlush, Stored
<1>3. /\ jrnl.orig = m.orig /\ m.orig \in Nat
      /\ \A r \in 1 .. Len(jrnl.recs) : jrnl.recs[r].page \in m.logged
    BY <1>1, <1>2, PagerAssumption DEF JournalOf, JournalsOf, Journals, Pages
<1> HIDE DEF m
<1>4. i > m.orig => Stored[i] = None
    <2>1. CASE Hot(jrnl)
        BY <1>1, <1>3, <2>1, RecoveredPages DEF Stored
    <2>2. CASE ~Hot(jrnl)
        <3>1. Stored[i] = db[i]
            BY <2>2, ColdStored
        <3> QED
            BY <1>2, <1>3, <2>2, <3>1 DEF Pages
    <2> QED
        BY <2>1, <2>2
<1>5. i \in m.logged => jrnl.recs[q].image = Stored[i]
    <2> SUFFICES ASSUME i \in m.logged PROVE jrnl.recs[q].image = Stored[i]
        OBVIOUS
    <2>1. \E r \in DOMAIN jrnl.recs : jrnl.recs[r].page = i
        BY <1>1 DEF Working, InWrite, InFlush
    <2>2. q \in DOMAIN jrnl.recs /\ jrnl.recs[q].page = i
        BY <2>1
    <2> HIDE DEF q
    <2>3. q \in 1 .. Len(jrnl.recs)
        BY <1>1, <2>2, PlayedFirst
    <2>4. Values
        BY DEF PagerInv
    <2>5. \A r \in 1 .. Len(jrnl.recs) :
              Recovered(db, jrnl)[jrnl.recs[r].page] = jrnl.recs[r].image
        BY <1>1, <1>2, <2>4, OriginalsStored
    <2> QED
        BY <2>2, <2>3, <2>5 DEF Stored
<1>6. i <= m.orig /\ i \notin m.logged => m.cache[i] \in {None, Stored[i]}
    <2> SUFFICES ASSUME i <= m.orig, i \notin m.logged PROVE m.cache[i] \in {None, Stored[i]}
        OBVIOUS
    <2>1. m.cache[i] \in {None, db[i]}
        BY <1>2 DEF CacheOfWriter
    <2>2. Stored[i] = db[i]
        <3>1. CASE Hot(jrnl)
            <4>1. \A r \in Played(jrnl) : jrnl.recs[r].page # i
                BY <1>3 DEF Played
            <4> QED
                BY <1>1, <1>3, <3>1, <4>1, RecoveredPages DEF Stored
        <3>2. CASE ~Hot(jrnl)
            BY <3>2, ColdStored
        <3> QED
            BY <3>1, <3>2
    <2> QED
        BY <2>1, <2>2
<1> QED
    BY <1>4, <1>5, <1>6 DEF m, q

LEMMA CacheRollsBack ==
    ASSUME PagerInv, CacheInv, NEW p \in Handles, Rollback(p)
    PROVE  CacheInv' /\ StoredKept
<1> DEFINE was(k) == jrnl.recs[CHOOSE r \in DOMAIN jrnl.recs : jrnl.recs[r].page = k].image
           cache == [k \in Pages |->
                        IF k > mem[p].orig \/ mem[p].cache[k] = None THEN None
                        ELSE IF k \in mem[p].logged THEN was(k) ELSE mem[p].cache[k]]
           vers == IF 1 \in mem[p].logged THEN was(1) ELSE mem[p].vers
           todo == IF Hot(jrnl) THEN Playable(jrnl) ELSE <<>>
           m == [mem[p] EXCEPT !.cache = cache, !.vers = vers, !.dirty = {}, !.todo = todo]
           s == IF Hot(jrnl) THEN "undo" ELSE "undone"
<1>1. /\ pc[p] \in {"cachemod", "lock", "dbmod", "finished"}
      /\ pc' = [pc EXCEPT ![p] = s]
      /\ IF Hot(jrnl) THEN Truncate(mem[p].orig) ELSE UNCHANGED <<db, dbMaybe>>
      /\ UNCHANGED <<lockVars, jrnl, dead, tx>>
    BY DEF Rollback, Goto
<1>2. /\ mem[p] \in PagerFields(tx) /\ jrnl \in JournalsOf(tx) /\ jrnl # None /\ JournalOK(jrnl)
      /\ Whole(jrnl) /\ mem[p].orig \in Pages /\ 1 \in Pages /\ Working(pc[p], mem[p], jrnl, tx)
    BY <1>1, PagerAssumption
       DEF PagerInv, Values, Working, InTransaction, InWrite, InFlush, Pages, CacheInv, Disk
<1>3. mem' = [mem EXCEPT ![p] = m]
    BY <1>2 DEF Rollback, Fields, PagerFields, Fields0
<1>4. /\ JournalOf(pc[p], mem[p], db, jrnl, dead) /\ CacheOfWriter(mem[p], db, Stored)
    BY <1>1 DEF CacheInv, Writing, Active, InWrite, InFlush, Stored
<1>5. \A k \in Pages : /\ k > mem[p].orig => Stored[k] = None
                       /\ k \in mem[p].logged => was(k) = Stored[k]
                       /\ k <= mem[p].orig /\ k \notin mem[p].logged =>
                              mem[p].cache[k] \in {None, Stored[k]}
    BY <1>1, CacheRestored
<1> HIDE DEF was
<1>6. \A k \in Pages : cache[k] \in {None, Stored[k]}
    <2> SUFFICES ASSUME NEW k \in Pages PROVE cache[k] \in {None, Stored[k]}
        OBVIOUS
    <2>1. k > mem[p].orig \/ k <= mem[p].orig
        BY <1>2 DEF Pages
    <2> HIDE DEF Stored
    <2> QED
        BY <1>5, <2>1
<1>7. vers = Stored[1] /\ cache[1] = Stored[1]
    <2>1. Stored[1] \in Nat /\ Stored[1] # None
        BY StoredCounter, PagerAssumption DEF PagerInv, Values
    <2>2. IF mem[p].commit
          THEN 1 \in mem[p].logged /\ mem[p].cache[1] = Stored[1] + 1
          ELSE 1 \notin mem[p].logged /\ mem[p].cache[1] = Stored[1] /\ mem[p].vers = Stored[1]
        <3> HIDE DEF Stored
        <3> QED
            BY <1>4 DEF CacheOfWriter
    <2>3. mem[p].cache[1] # None /\ ~(1 > mem[p].orig)
        <3> HIDE DEF Stored
        <3> QED
            BY <1>2, <2>1, <2>2, PagerAssumption DEF Pages
    <2>4. cache[1] = IF 1 \in mem[p].logged THEN was(1) ELSE mem[p].cache[1]
        BY <1>2, <2>3
    <2> HIDE DEF Stored, cache
    <2> QED
        BY <1>2, <1>5, <2>2, <2>4
<1> HIDE DEF cache, vers, todo
<1>8. m.cache = cache /\ m.vers = vers /\ m.todo = todo
    BY <1>2 DEF PagerFields, Fields0
<1> HIDE DEF m
<1>9. s \in {"undo", "undone"} /\ (s = "undo" <=> Hot(jrnl))
    OBVIOUS
<1> HIDE DEF s
<1>10. Kept(p) /\ mem'[p] = m /\ pc'[p] = s
    BY <1>1, <1>3 DEF PagerInv, Values, Kept, lockVars
<1>11. /\ \A i \in Pages : i <= jrnl.orig => db'[i] = db[i] /\ dbMaybe'[i] = dbMaybe[i]
       /\ Hot(jrnl) => \A i \in Pages : i > jrnl.orig => db'[i] = None
       /\ ~Hot(jrnl) => UNCHANGED <<db, dbMaybe>>
    <2>1. CASE Hot(jrnl)
        <3>1. mem[p].orig = jrnl.orig
            BY <1>4 DEF JournalOf
        <3>2. /\ \A i \in Pages : db'[i] = IF i > jrnl.orig THEN None ELSE db[i]
              /\ \A i \in Pages : i <= jrnl.orig => db'[i] = db[i] /\ dbMaybe'[i] = dbMaybe[i]
            BY <1>1, <1>2, <2>1, <3>1, TruncatedTo DEF PagerInv
        <3> QED
            BY <2>1, <3>2
    <2>2. CASE ~Hot(jrnl)
        BY <1>1, <2>2
    <2> QED
        BY <2>1, <2>2
<1>12. Hot(jrnl) => Armed
    <2> SUFFICES ASSUME Hot(jrnl) PROVE jrnl.magics[1] = {TRUE} /\ dead = {}
        BY DEF Armed
    <2>1. dead = {}
        BY <1>4 DEF JournalOf
    <2>2. CASE ~jrnl.magic[Len(jrnl.magic)]
        BY <1>2, <2>1, <2>2, FirstPartSynced
    <2>3. CASE jrnl.magic[Len(jrnl.magic)]
        <3> DEFINE len == Len(jrnl.magic)
        <3>1. jrnl.magics[len] = {TRUE}
            BY <1>1, <1>4, <2>3 DEF JournalOf
        <3>2. len \in Nat \ {0} /\ \A t \in 1 .. len - 1 : jrnl.magics[t] = {TRUE}
            BY <1>2, LastPart DEF Part, JournalOK
        <3> HIDE DEF len
        <3>3. len = 1 \/ 1 \in 1 .. len - 1
            BY <3>2
        <3>4. jrnl.magics[1] = {TRUE}
            BY <3>1, <3>2, <3>3
        <3> QED
            BY <2>1, <3>4
    <2> QED
        BY <2>2, <2>3
<1>13. Hot(jrnl) => Armed'
    BY <1>1, <1>12 DEF Armed
<1>14. ~Hot(jrnl) => Settled'
    BY <1>11 DEF CacheInv, Disk, Settled, Armed
<1>15. Disk'
    <2>1. \A j \in dead' \cup {jrnl'} : j # None => JournalOK(j) /\ Whole(j)'
        <3>1. CASE Hot(jrnl)
            <4>1. dead' = {} /\ jrnl' = jrnl
                BY <1>1, <1>12, <3>1 DEF Armed
            <4>2. Whole(jrnl)'
                BY <1>1, <1>2, <1>11 DEF Whole
            <4> QED
                BY <1>2, <4>1, <4>2
        <3>2. CASE ~Hot(jrnl)
            BY <1>1, <1>11, <3>2 DEF CacheInv, Disk, Whole
        <3> QED
            BY <3>1, <3>2
    <2> QED
        BY <1>13, <1>14, <2>1 DEF Disk
<1>16. \A i \in Pages : Stored'[i] = Stored[i]
    <2>1. CASE Hot(jrnl)
        <3>1. \A i \in Pages : Recovered(db', jrnl)[i] = Recovered(db, jrnl)[i]
            BY <1>2, <1>11, <2>1, SameRecovery
        <3> QED
            BY <1>1, <3>1 DEF Stored
    <2>2. CASE ~Hot(jrnl)
        BY <1>1, <1>11, <2>2 DEF Stored
    <2> QED
        BY <2>1, <2>2
<1>17. Guarded(p)'
    BY <1>1, <1>9, <1>10 DEF CacheInv, Guarded, NeverHot, lockVars
<1>18. Writing(s, m, db', jrnl', dead')
    BY <1>9 DEF Writing, Active, InWrite, InFlush
<1>19. Restoring(s, m, db', jrnl')
    <2>1. CASE Hot(jrnl)
        <3>1. s = "undo" /\ m.todo = Playable(jrnl) /\ jrnl' = jrnl
            BY <1>1, <1>8, <1>9, <2>1 DEF todo
        <3> QED
            BY <1>11, <2>1, <3>1 DEF Restoring
    <2>2. CASE ~Hot(jrnl)
        <3>1. s = "undone" /\ jrnl' = jrnl
            BY <1>1, <1>9, <2>2
        <3> QED
            BY <2>2, <3>1 DEF Restoring, Recovered
    <2> QED
        BY <2>1, <2>2
<1>20. Durable(pc[p])'
    BY <1>1, <1>9, <1>10, <1>13, <1>14 DEF Durable
<1>21. Fresh(s, m, Stored')
    <2>1. Stored'[1] = Stored[1] /\ Stored[1] \in Nat
        BY <1>16, StoredCounter
    <2> HIDE DEF Stored
    <2> QED
        BY <1>6, <1>7, <1>8, <1>16, <2>1 DEF Fresh
<1>22. pc[p] \in Owning
    BY <1>1 DEF Owning, InWrite, InFlush
<1> HIDE DEF Stored
<1> QED
    BY <1>1, <1>10, <1>15, <1>16, <1>17, <1>18, <1>19, <1>20, <1>21, <1>22, CacheStep

----------------------------------------------------------------------------
(* Power losses *)

\* What is left of a journal has the same records, some of them without a valid
\* checksum, and of each header what the disk had.
LEMMA RemainderOK ==
    ASSUME NEW n, NEW j \in JournalsOf(n), NEW k \in Remains(j), JournalOK(j)
    PROVE  /\ k # None /\ JournalOK(k) /\ k.orig = j.orig
           /\ 1 \in 1 .. Len(j.magic) /\ k.magic[1] \in j.magics[1]
           /\ k.magics[1] = {k.magic[1]}
<1>1. j # None
    BY PagerAssumption DEF JournalsOf
<1>2. PICK magic \in {m \in [DOMAIN j.magic -> BOOLEAN] :
                         \A s \in DOMAIN m : m[s] \in j.magics[s]},
           lost \in SUBSET DOMAIN j.recs :
           k = Remainder(j, magic, lost)
    BY <1>1 DEF Remains
<1> DEFINE len == Len(j.magic)
           magics == [s \in DOMAIN j.magics |-> {magic[s]}]
           recs == [r \in DOMAIN j.recs |-> Survivor(j, r, lost)]
           size == Len(j.recs)
<1>3. k = [j EXCEPT !.magic = magic, !.magics = magics, !.safe = size, !.recs = recs]
    BY <1>2 DEF Remainder
<1>4. /\ j \in Journals /\ size \in Nat /\ DOMAIN j.recs = 1 .. size
      /\ Len(j.magics) = len
      /\ \A r \in 1 .. size : j.recs[r] \in Entries(n)
    BY LenProperties, ElementOfSeq DEF JournalsOf
<1>5. /\ len \in Nat /\ DOMAIN j.magic = 1 .. len /\ DOMAIN j.magics = 1 .. len /\ len # 0
    BY LastPart, LenProperties, EmptySeq DEF JournalsOf, Journals
<1>6. /\ k.recs = recs /\ k.magic = magic /\ k.magics = magics /\ k.orig = j.orig
    <2> HIDE DEF magics, recs, size
    <2> QED
        BY <1>3, <1>4 DEF Journals
<1>7. /\ k \in JournalsOf(n) /\ k # None
    BY RemainingJournal, PagerAssumption DEF JournalsOf
<1>8. Len(k.magic) = len /\ Len(k.recs) = size
    <2>1. magic \in [1 .. len -> BOOLEAN] /\ DOMAIN recs = 1 .. size
        BY <1>4, <1>5
    <2>2. k.magic \in Seq(BOOLEAN) /\ k.recs \in Seq(Entries(n))
        BY <1>7 DEF JournalsOf, Journals
    <2>3. DOMAIN k.magic = 1 .. len /\ DOMAIN k.recs = 1 .. size
        BY <1>6, <2>1
    <2> HIDE DEF len, size
    <2>4. Len(k.magic) = len
        BY <1>5, <2>2, <2>3, LenProperties
    <2>5. Len(k.recs) = size
        BY <1>4, <2>2, <2>3, LenProperties
    <2> QED
        BY <2>4, <2>5
<1>9. \A s \in 1 .. len : k.magic[s] \in j.magics[s] /\ k.magics[s] = {k.magic[s]}
    BY <1>2, <1>5, <1>6
<1>10. \A r \in 1 .. size : /\ k.recs[r].page = j.recs[r].page
                            /\ k.recs[r].image = j.recs[r].image
                            /\ k.recs[r].part = j.recs[r].part
    <2>1. ASSUME NEW r \in 1 .. size
          PROVE  /\ k.recs[r].page = j.recs[r].page
                 /\ k.recs[r].image = j.recs[r].image
                 /\ k.recs[r].part = j.recs[r].part
        <3>1. k.recs[r] = Survivor(j, r, lost) /\ j.recs[r] \in Entries(n)
            BY <1>4, <1>6, <2>1
        <3> QED
            BY <3>1 DEF Survivor, Entries
    <2> QED
        BY <2>1
<1> HIDE DEF len, size
<1>11. 1 \in 1 .. len /\ \A s \in 1 .. len - 1 : s \in 1 .. len
    BY <1>5
<1>12. JournalOK(k)
    <2>1. \A s \in 1 .. len : k.magic[s] \in k.magics[s]
        BY <1>9, Zenon
    <2>2. ASSUME NEW s \in 1 .. len - 1 PROVE k.magics[s] = {TRUE}
        <3>1. j.magics[s] = {TRUE}
            BY DEF JournalOK, len
        <3>2. k.magic[s] = TRUE /\ k.magics[s] = {k.magic[s]}
            BY <1>9, <1>11, <3>1, Zenon
        <3> QED
            BY <3>2, Zenon
    <2>3. \A r \in 1 .. size :
              /\ j.recs[r].page <= j.orig /\ j.recs[r].image # None
              /\ j.recs[r].part \in 1 .. len
        BY DEF JournalOK, len, size
    <2>4. \A q, r \in 1 .. size :
              /\ j.recs[q].page = j.recs[r].page => q = r
              /\ q <= r => j.recs[q].part <= j.recs[r].part
        BY DEF JournalOK, size
    <2>5. \A r \in 1 .. size :
              /\ k.recs[r].page <= k.orig /\ k.recs[r].image # None
              /\ k.recs[r].part \in 1 .. len
        BY <1>6, <1>10, <2>3
    <2>6. \A q, r \in 1 .. size :
              /\ k.recs[q].page = k.recs[r].page => q = r
              /\ q <= r => k.recs[q].part <= k.recs[r].part
        BY <1>10, <2>4
    <2> QED
        BY <1>8, <2>1, <2>2, <2>5, <2>6 DEF JournalOK
<1> QED
    BY <1>6, <1>7, <1>9, <1>11, <1>12 DEF len

LEMMA CacheLosesPower ==
    ASSUME PagerInv, CacheInv, PowerLoss
    PROVE  CacheInv'
<1>1. PICK image \in [Pages -> UNION {dbMaybe[i] : i \in Pages}] :
          /\ \A i \in Pages : image[i] \in dbMaybe[i]
          /\ db' = image
          /\ dbMaybe' = [i \in Pages |-> {image[i]}]
    BY DEF PowerLoss
<1>2. /\ dead' = {} /\ \A q \in Handles : q \notin reserved'
      /\ \A q \in Handles : pc'[q] = "open" /\ mem'[q] = NoMem
    BY DEF PowerLoss, Release
<1>3. PICK j \in dead \cup {jrnl} : jrnl' \in Remains(j)
    BY DEF PowerLoss
<1>4. /\ j # None => j \in JournalsOf(tx) /\ JournalOK(j) /\ Whole(j)
      /\ j = None => jrnl' = None
    BY <1>3 DEF PagerInv, Values, CacheInv, Disk, Remains
<1>5. \A i \in Pages : db'[i] \in dbMaybe[i] /\ dbMaybe'[i] = {db'[i]}
    BY <1>1
<1>6. jrnl' # None => JournalOK(jrnl') /\ Whole(jrnl)'
    <2>1. SUFFICES ASSUME j # None PROVE JournalOK(jrnl') /\ Whole(jrnl)'
        BY <1>4
    <2>2. JournalOK(jrnl') /\ jrnl'.orig = j.orig
        BY <1>3, <1>4, <2>1, RemainderOK
    <2>3. \A i \in Pages : i <= j.orig => None \notin dbMaybe[i]
        BY <1>4, <2>1 DEF Whole
    <2> QED
        BY <1>5, <2>2, <2>3 DEF Whole
<1>7. Settled' \/ Armed'
    <2>1. CASE Settled
        <3>1. \A i \in Pages : db'[i] = db[i]
            BY <1>5, <2>1 DEF Settled
        <3>2. PrefixClosed(db)'
            BY <2>1, <3>1 DEF Settled, PrefixClosed
        <3> QED
            BY <1>5, <3>2 DEF Settled
    <2>2. CASE Armed
        <3>1. /\ j # None /\ j.magics[1] = {TRUE}
              /\ jrnl' \in Remains(j)
            BY <1>3, <2>2 DEF Armed, Hot
        <3>2. /\ jrnl' # None /\ jrnl'.magic[1] \in {TRUE}
              /\ jrnl'.magics[1] = {jrnl'.magic[1]}
            BY <1>4, <3>1, RemainderOK
        <3>3. jrnl'.magic[1] = TRUE
            BY <3>2, Zenon
        <3>4. jrnl'.magics[1] = {TRUE}
            BY <3>2, <3>3, Zenon
        <3> QED
            BY <1>2, <3>2, <3>3, <3>4 DEF Armed, Hot
    <2> QED
        BY <2>1, <2>2 DEF CacheInv, Disk
<1>8. Disk'
    BY <1>2, <1>6, <1>7 DEF Disk
<1>9. ASSUME NEW q \in Handles
      PROVE  (/\ Guarded(q)
              /\ Writing(pc[q], mem[q], db, jrnl, dead)
              /\ Restoring(pc[q], mem[q], db, jrnl)
              /\ Durable(pc[q])
              /\ Fresh(pc[q], mem[q], Stored))'
    <2>1. Guarded(q)'
        BY <1>2 DEF Guarded, NeverHot
    <2>2. \A f, k, d, b : /\ Writing("open", NoMem, f, k, d)
                          /\ Restoring("open", NoMem, f, k)
                          /\ Fresh("open", NoMem, b)
        <3>1. "open" \notin InWrite /\ "open" \notin Active
            BY DEF InWrite, InFlush, Active
        <3>2. \A f, k, d : Writing("open", NoMem, f, k, d)
            BY <3>1 DEF Writing, InWrite, InFlush
        <3>3. \A f, k : Restoring("open", NoMem, f, k)
            BY DEF Restoring
        <3>4. \A b : Fresh("open", NoMem, b)
            BY DEF Fresh, NoMem, NoPages
        <3> QED
            BY <3>2, <3>3, <3>4
    <2>3. Durable(pc[q])'
        BY <1>2 DEF Durable
    <2> QED
        BY <1>2, <2>1, <2>2, <2>3
<1> QED
    BY <1>8, <1>9 DEF CacheInv

----------------------------------------------------------------------------
(* Every reachable state *)

LEMMA CacheInit == Init => CacheInv
<1> SUFFICES ASSUME Init PROVE CacheInv
    OBVIOUS
<1>1. /\ db = FirstImage /\ dbMaybe = [i \in Pages |-> {FirstImage[i]}]
      /\ jrnl = None /\ dead = {}
      /\ \A p \in Handles : pc[p] = "open" /\ mem[p] = NoMem
    BY DEF Init
<1>2. \A i, k \in Pages : k <= i /\ i <= FirstSize => k <= FirstSize
    BY PagerAssumption DEF Pages
<1>3. 0 # None
    BY PagerAssumption
<1>4. PrefixClosed(FirstImage)
    BY <1>2, <1>3 DEF PrefixClosed, FirstImage
<1>5. Disk
    BY <1>1, <1>4 DEF Disk, Settled
<1>6. ~Hot(jrnl)
    BY <1>1 DEF Hot
<1>7. /\ \A f, k, d : Writing("open", NoMem, f, k, d)
      /\ \A f, k : Restoring("open", NoMem, f, k)
      /\ \A b : Fresh("open", NoMem, b)
    <2>1. \A f, k, d : Writing("open", NoMem, f, k, d)
        BY DEF Writing, InWrite, InFlush, Active
    <2>2. \A f, k : Restoring("open", NoMem, f, k)
        BY DEF Restoring
    <2>3. \A b : Fresh("open", NoMem, b)
        BY DEF Fresh, NoMem, NoPages
    <2> QED
        BY <2>1, <2>2, <2>3
<1>8. ASSUME NEW p \in Handles PROVE Guarded(p) /\ Durable(pc[p])
    BY <1>1, <1>6 DEF Guarded, Durable
<1> QED
    BY <1>1, <1>5, <1>7, <1>8 DEF CacheInv

LEMMA CacheStutters == ASSUME CacheInv, UNCHANGED vars PROVE CacheInv'
BY DEF CacheInv, vars, files, lockVars, Disk, Settled, Armed, Whole, Guarded, Durable, Stored

LEMMA CacheNext ==
    ASSUME NoRace, PagerInv, PagerInv', CacheInv, [Next]_vars
    PROVE  CacheInv'
<1>1. ASSUME NEW p \in Handles, \/ LockShared(p) \/ CheckExists(p) \/ CheckReserved(p)
                               \/ CheckFirstByte(p) \/ LockHot(p) \/ BusyHot(p)
                               \/ Recover(p)
      PROVE  CacheInv'
    BY <1>1, CacheChecks, CacheLockHot, CacheRecovers
<1>2. ASSUME NEW p \in Handles, \/ PlayBack(p) \/ EndPlayBack(p) \/ Validate(p)
                               \/ EndRead(p) \/ BeginWrite(p) \/ CommitPhaseOne(p)
      PROVE  CacheInv'
    BY <1>2, CachePlaysBack, CachePlayedBack, CacheValidates, CacheUnlocks, CacheBegins,
       CacheCommits
<1>3. ASSUME NEW p \in Handles, \/ BeginSync(p) \/ BusySync(p) \/ SyncRecords(p)
                               \/ WriteHeader(p) \/ SyncHeader(p) \/ SyncStored(p)
      PROVE  CacheInv'
    BY <1>3, CacheLocks, CacheSyncs, CacheHeader, CacheSynced, CacheFinishes
<1>4. ASSUME NEW p \in Handles, \/ EndTransaction(p) \/ UnlockDb(p) \/ Rollback(p) \/ Die(p)
      PROVE  CacheInv'
    BY <1>4, CacheEnds, CacheUnlocks, CacheRollsBack, CacheDies
<1>5. ASSUME NEW p \in Handles, NEW i \in Pages,
             ReadPage(p, i) \/ WritePage(p, i) \/ StorePage(p, i) \/ Evict(p, i)
      PROVE  CacheInv'
    BY <1>5, CachePages, CacheWrites, CacheStores
<1>6. CASE PowerLoss
    BY <1>6, CacheLosesPower
<1>7. CASE UNCHANGED vars
    BY <1>7, CacheStutters
<1> QED
    BY <1>1, <1>2, <1>3, <1>4, <1>5, <1>6, <1>7 DEF Next

LEMMA CacheInvariant ==
    ASSUME NoRace
    PROVE  Spec => []CacheInv
<1>1. PagerInv /\ PagerInv' /\ CacheInv /\ [Next]_vars => CacheInv'
    BY CacheNext
<1> QED
    BY <1>1, CacheInit, PagerInvariant, PTL DEF Spec

\* Where no thread asks for RESERVED while another one of its process gives up a recovery,
\* whoever reads has no journal beside the file that is yet to be played back.
THEOREM HotJournalsArePlayedBack ==
    ASSUME NoRace
    PROVE  Spec => []HotIsPlayedBack
<1>1. CacheInv => HotIsPlayedBack
    BY DEF CacheInv, Guarded, NeverHot, HotIsPlayedBack
<1>2. Spec => []CacheInv
    BY CacheInvariant
<1> QED
    BY <1>1, <1>2, PTL

\* Whatever commits, rollbacks, recoveries, deaths and power losses an idle pager misses,
\* the change counter on page 1 betrays them: a cache whose version is the one in the file
\* has no page of another version of the database (design note 9), where no thread asks for
\* RESERVED while another one of its process gives up a recovery.
THEOREM CachesStayFresh ==
    ASSUME NoRace
    PROVE  Spec => []CachesAreTold
<1>1. CacheInv => CachesAreTold
    <2> SUFFICES ASSUME CacheInv,
                        NEW p \in Handles, pc[p] = "open", mem[p].vers = db[1], ~Hot(jrnl),
                        NEW i \in Pages
                 PROVE  mem[p].cache[i] \in {None, db[i]}
        BY DEF CachesAreTold
    <2>1. Stored = db /\ "open" \notin Active
        BY ColdStored DEF Active, InWrite, InFlush
    <2>2. Fresh("open", mem[p], db)
        BY <2>1 DEF CacheInv
    <2> QED
        BY <2>1, <2>2 DEF Fresh
<1>2. Spec => []CacheInv
    BY CacheInvariant
<1> QED
    BY <1>1, <1>2, PTL

=============================================================================
