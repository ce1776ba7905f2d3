----------------------------- MODULE StoreProofs -----------------------------
(***************************************************************************)
(* The pagers implement AtomicStore, for any number of them, of pages, of  *)
(* transactions, deaths and power losses.  To what a journal gives the     *)
(* caches (CacheInv) StoreInv adds what is on the disk: every page of the  *)
(* stored database is there in the file or in a part of the journal whose  *)
(* header is synced.                                                       *)
(***************************************************************************)
EXTENDS PagerProofs

----------------------------------------------------------------------------
(* Atomic transactions: what a power loss may leave *)

\* The headers that may be on the disk are as they are in the file, but for one
\* whose magic number is not synced; the records that such a header counts are.
HeadersKnown(j) ==
    /\ \A s \in 1 .. Len(j.magic) : TRUE \in j.magics[s] => j.magic[s] = TRUE
    /\ \A r \in 1 .. Len(j.recs) : j.magic[j.recs[r].part] = TRUE => r <= j.safe

\* A power loss leaves nothing else of the journal for a recovery than there is.
Certain(j) == \A s \in 1 .. Len(j.magic) : j.magics[s] = {j.magic[s]}

\* The file has on the disk what a recovery makes of the page, or the journal has.
Backed(i) ==
    \/ dbMaybe[i] = {Stored[i]}
    \/ \E r \in Played(jrnl) :
           jrnl.recs[r].page = i /\ jrnl.magics[jrnl.recs[r].part] = {TRUE}

Undoing == {"undo", "undone", "replay", "replayed"}

JournalsKnown ==
    /\ Hot(jrnl) => dead = {}
    /\ \A j \in dead \cup {jrnl} : j # None => HeadersKnown(j)
    /\ \A j \in dead : Certain(j)
    /\ \A j, k \in dead : Recovered(db, j) # Stored /\ Recovered(db, k) # Stored
                          => Recovered(db, j) = Recovered(db, k)

FilesBacked ==
    /\ Hot(jrnl) /\ ~Armed => \A i \in Pages : db[i] = Stored[i]
    /\ Armed => \A i \in Pages : i <= jrnl.orig => Backed(i)

AtWork(p) ==
    /\ pc[p] = "header" => \A r \in 1 .. Len(jrnl.recs) : r <= jrnl.safe
    /\ pc[p] \in Undoing => jrnl # None /\ Certain(jrnl)

StoreInv == JournalsKnown /\ FilesBacked /\ \A p \in Handles : AtWork(p)

----------------------------------------------------------------------------
(* The stored database as an image *)

LEMMA RecoveredImage ==
    ASSUME NEW n, NEW j, j = None \/ j \in JournalsOf(n), NEW f \in Image
    PROVE  Recovered(f, j) \in Image
<1>1. CASE ~Hot(j)
    BY <1>1 DEF Recovered
<1>2. CASE Hot(j)
    <2>1. j \in JournalsOf(n)
        BY <1>2 DEF Hot
    <2>2. Playable(j) \in Seq(Entries(n)) /\ DOMAIN Playable(j) = 1 .. Len(Playable(j))
        BY <2>1, PlayedFirst, LenProperties
    <2>3. \A r \in DOMAIN Playable(j) : Playable(j)[r].image \in 0 .. MaxTx \cup {None}
        <3>1. \A r \in DOMAIN Playable(j) : Playable(j)[r] \in Entries(n)
            BY <2>2, ElementOfSeq
        <3> QED
            BY <3>1 DEF Entries
    <2> DEFINE v(i) == IF i > j.orig THEN None
                       ELSE IF RecordsOf(i, j) = {} THEN f[i]
                       ELSE Playable(j)[CHOOSE r \in RecordsOf(i, j) : TRUE].image
    <2>4. ASSUME NEW i \in Pages PROVE v(i) \in 0 .. MaxTx \cup {None}
        <3>1. RecordsOf(i, j) # {} =>
                  (CHOOSE r \in RecordsOf(i, j) : TRUE) \in DOMAIN Playable(j)
            BY DEF RecordsOf
        <3>2. f[i] \in 0 .. MaxTx \cup {None}
            BY DEF Image
        <3> QED
            BY <2>3, <3>1, <3>2
    <2>5. Recovered(f, j) = [i \in Pages |-> v(i)]
        BY <1>2 DEF Recovered
    <2> HIDE DEF v
    <2> QED
        BY <2>4, <2>5 DEF Image
<1> QED
    BY <1>1, <1>2

LEMMA StoredImage == ASSUME PagerInv PROVE Stored \in Image
BY RecoveredImage DEF PagerInv, Values, Stored

LEMMA SameImage ==
    ASSUME NEW f \in Image, NEW g \in Image, \A i \in Pages : f[i] = g[i]
    PROVE  f = g
BY DEF Image

LEMMA SameStored ==
    ASSUME PagerInv, PagerInv', StoredKept
    PROVE  Stored' = Stored
<1>1. Stored \in Image /\ Stored' \in Image
    <2>1. Stored' \in Image
        BY RecoveredImage DEF PagerInv, Values, Stored
    <2> QED
        BY <2>1, StoredImage
<1> HIDE DEF Stored
<1> QED
    BY <1>1, SameImage DEF StoredKept

----------------------------------------------------------------------------
(* What each step keeps *)

LEMMA FilesRest ==
    ASSUME StoreInv, UNCHANGED files,
           \A q \in Handles : pc'[q] = pc[q] \/ pc'[q] \notin Undoing \cup {"header"}
    PROVE  StoreInv'
<1>1. UNCHANGED <<db, dbMaybe, jrnl, dead>> /\ Stored' = Stored
    BY DEF files, Stored
<1>2. JournalsKnown'
    <2> HIDE DEF Stored
    <2> QED
        BY <1>1 DEF StoreInv, JournalsKnown
<1>3. FilesBacked'
    <2> HIDE DEF Stored
    <2>1. ASSUME NEW i \in Pages, Backed(i) PROVE Backed(i)'
        BY <1>1, <2>1 DEF Backed
    <2>2. (Armed' <=> Armed) /\ (Hot(jrnl') <=> Hot(jrnl))
        BY <1>1 DEF Armed
    <2> QED
        BY <1>1, <2>1, <2>2 DEF StoreInv, FilesBacked
<1>4. ASSUME NEW q \in Handles PROVE AtWork(q)'
    <2>1. AtWork(q) /\ (pc'[q] = pc[q] \/ pc'[q] \notin Undoing \cup {"header"})
        BY DEF StoreInv
    <2> QED
        BY <1>1, <2>1 DEF AtWork, Undoing
<1> QED
    BY <1>2, <1>3, <1>4 DEF StoreInv

LEMMA StoreQuiet ==
    ASSUME StoreInv, NEW p \in Handles, Kept(p), UNCHANGED files,
           pc'[p] = pc[p] \/ pc'[p] \notin Undoing \cup {"header"}
    PROVE  StoreInv'
BY FilesRest DEF Kept

\* Nobody else is at work when the owner of the journal takes a step.
LEMMA OthersAtWork ==
    ASSUME PagerInv, NEW p \in Handles, Kept(p), pc[p] \in Owning,
           NEW q \in Handles, q # p
    PROVE  AtWork(q)'
<1>1. pc'[q] = pc[q] /\ pc[q] \notin Owning
    BY OneOwner DEF Kept
<1> QED
    BY <1>1 DEF AtWork, Undoing, Owning, InWrite, InFlush, InRollback, InRecovery

LEMMA LastCertain ==
    ASSUME NEW n, NEW j \in JournalsOf(n), JournalOK(j), HeadersKnown(j),
           ~j.magic[Len(j.magic)] \/ j.magics[Len(j.magic)] = {TRUE}
    PROVE  Certain(j)
<1> DEFINE len == Len(j.magic)
<1>1. /\ len \in Nat \ {0}
      /\ \A s \in 1 .. len : j.magic[s] \in BOOLEAN /\ j.magics[s] \in SUBSET BOOLEAN
    <2>1. len \in Nat \ {0}
        BY LastPart DEF Part
    <2>2. /\ j.magic \in Seq(BOOLEAN) /\ j.magics \in Seq(SUBSET BOOLEAN)
          /\ Len(j.magics) = len
        BY DEF JournalsOf, Journals
    <2>3. DOMAIN j.magic = 1 .. len /\ DOMAIN j.magics = 1 .. len
        BY <2>2, LenProperties
    <2>4. \A s \in 1 .. len : j.magic[s] \in BOOLEAN
        BY <2>2, <2>3, ElementOfSeq
    <2>5. \A s \in 1 .. len : j.magics[s] \in SUBSET BOOLEAN
        BY <2>2, <2>3, ElementOfSeq
    <2> QED
        BY <2>1, <2>4, <2>5
<1>2. /\ \A s \in 1 .. len : j.magic[s] \in j.magics[s]
      /\ \A s \in 1 .. len - 1 : j.magics[s] = {TRUE}
      /\ \A s \in 1 .. len : TRUE \in j.magics[s] => j.magic[s] = TRUE
    BY DEF JournalOK, HeadersKnown
<1> HIDE DEF len
<1>3. ASSUME NEW s \in 1 .. len PROVE j.magics[s] = {j.magic[s]}
    <2>1. CASE j.magics[s] = {TRUE}
        <3>1. j.magic[s] = TRUE
            BY <1>2, <2>1, Zenon
        <3> QED
            BY <2>1, <3>1, Zenon
    <2>2. CASE j.magics[s] # {TRUE}
        <3>1. s = len
            <4>1. s \notin 1 .. len - 1
                BY <1>2, <2>2, Zenon
            <4> QED
                BY <1>1, <4>1
        <3>2. j.magic[s] = FALSE
            <4>1. ~j.magic[s]
                BY <2>2, <3>1 DEF len
            <4> QED
                BY <1>1, <4>1, Zenon
        <3>3. TRUE \notin j.magics[s]
            BY <1>2, <3>2, Zenon
        <3>4. \A b \in j.magics[s] : b = FALSE
            BY <1>1, <3>3, Zenon
        <3>5. FALSE \in j.magics[s]
            BY <1>2, <3>2, Zenon
        <3> QED
            BY <3>2, <3>4, <3>5, Zenon
    <2> QED
        BY <2>1, <2>2
<1> QED
    BY <1>3 DEF Certain, len

LEMMA PlayedHeader ==
    ASSUME NEW n, NEW j \in JournalsOf(n), JournalOK(j), NEW r \in Played(j)
    PROVE  /\ j.magic[j.recs[r].part] = TRUE
           /\ r \in 1 .. Len(j.recs) /\ j.recs[r].part \in 1 .. Len(j.magic)
<1>1. r \in 1 .. Len(j.recs) /\ Len(j.recs) \in Nat
    BY PlayedFirst DEF Played
<1>2. j.magic[j.recs[r].part]
    BY <1>1 DEF Played
<1>3. j.recs[r].part \in 1 .. Len(j.magic)
    BY <1>1 DEF JournalOK
<1>4. j.magic[j.recs[r].part] \in BOOLEAN
    <2>1. j.magic \in Seq(BOOLEAN)
        BY DEF JournalsOf, Journals
    <2>2. j.recs[r].part \in DOMAIN j.magic
        BY <1>3, <2>1, LenProperties
    <2> QED
        BY <2>1, <2>2, ElementOfSeq
<1>5. j.magic[j.recs[r].part] = TRUE
    BY <1>2, <1>4, Zenon
<1> QED
    BY <1>1, <1>3, <1>5

LEMMA JournalSynced ==
    ASSUME PagerInv, CacheInv, StoreInv, jrnl # None, SyncJournal, StoredKept,
           \A i \in Pages : i <= jrnl.orig => dbMaybe'[i] = dbMaybe[i]
    PROVE  /\ JournalsKnown' /\ FilesBacked' /\ Certain(jrnl)'
           /\ \A r \in 1 .. Len(jrnl'.recs) : r <= jrnl'.safe
<1>1. jrnl \in JournalsOf(tx) /\ JournalOK(jrnl)
    BY DEF PagerInv, Values, CacheInv, Disk
<1>2. /\ jrnl' \in JournalsOf(tx) /\ JournalOK(jrnl')
      /\ (Hot(jrnl') <=> Hot(jrnl)) /\ dead' = {} /\ (Hot(jrnl) => Armed')
      /\ jrnl'.recs = jrnl.recs /\ jrnl'.magic = jrnl.magic /\ jrnl'.orig = jrnl.orig
    BY SyncedDisk
<1>3. \A s \in 1 .. Len(jrnl.magic) : jrnl'.magics[s] = {jrnl.magic[s]}
    BY <1>1, SyncedMagics
<1>4. jrnl'.safe = Len(jrnl.recs) /\ Len(jrnl.recs) \in Nat
    <2>1. Len(jrnl.recs) \in Nat
        BY <1>1, PlayedFirst
    <2> QED
        BY <1>1, <2>1 DEF SyncJournal, JournalsOf, Journals
<1>5. \A r \in 1 .. Len(jrnl'.recs) : r <= jrnl'.safe
    BY <1>2, <1>4
<1>6. Certain(jrnl)'
    BY <1>2, <1>3 DEF Certain
<1>7. HeadersKnown(jrnl)'
    <2>1. ASSUME NEW s \in 1 .. Len(jrnl'.magic), TRUE \in jrnl'.magics[s]
          PROVE  jrnl'.magic[s] = TRUE
        BY <1>2, <1>3, <2>1
    <2> QED
        BY <1>5, <2>1 DEF HeadersKnown
<1>8. JournalsKnown'
    BY <1>2, <1>7 DEF JournalsKnown
<1>9. ASSUME NEW i \in Pages, i <= jrnl.orig, Hot(jrnl)
      PROVE  Backed(i)'
    <2>1. Stored'[i] = Stored[i] /\ dbMaybe'[i] = dbMaybe[i]
        BY <1>9 DEF StoredKept
    <2>2. Played(jrnl') = Played(jrnl)
        BY <1>2 DEF Played
    <2>3. CASE dbMaybe[i] = {Stored[i]}
        <3> HIDE DEF Stored
        <3> QED
            BY <2>1, <2>3 DEF Backed
    <2>4. CASE \E r \in Played(jrnl) : jrnl.recs[r].page = i
        <3>1. PICK r \in Played(jrnl) : jrnl.recs[r].page = i
            BY <2>4
        <3>2. jrnl.magic[jrnl.recs[r].part] = TRUE /\ jrnl.recs[r].part \in 1 .. Len(jrnl.magic)
            BY <1>1, PlayedHeader
        <3>3. jrnl'.magics[jrnl'.recs[r].part] = {TRUE}
            BY <1>2, <1>3, <3>2
        <3> QED
            BY <1>2, <2>2, <3>1, <3>3 DEF Backed
    <2>5. CASE ~Armed
        <3>1. dbMaybe[i] = {db[i]} /\ db[i] = Stored[i]
            BY <1>9, <2>5 DEF CacheInv, Disk, Settled, StoreInv, FilesBacked
        <3> QED
            BY <2>3, <3>1
    <2>6. CASE Armed
        <3>1. Backed(i)
            BY <1>9, <2>6 DEF StoreInv, FilesBacked
        <3> QED
            BY <2>3, <2>4, <3>1 DEF Backed
    <2> QED
        BY <2>5, <2>6
<1>10. FilesBacked'
    <2>1. Armed' => Hot(jrnl)
        BY <1>2 DEF Armed
    <2> QED
        BY <1>2, <1>9, <2>1 DEF FilesBacked
<1> QED
    BY <1>5, <1>6, <1>8, <1>10

\* What does not write the journals leaves what is known of them.
LEMMA JournalsKept ==
    ASSUME StoreInv, UNCHANGED <<jrnl, dead>>, db' = db \/ Hot(jrnl), Stored' = Stored
    PROVE  JournalsKnown'
<1> HIDE DEF Stored
<1>1. JournalsKnown
    BY DEF StoreInv
<1>2. db' = db \/ dead = {}
    BY <1>1 DEF JournalsKnown
<1> QED
    BY <1>1, <1>2 DEF JournalsKnown

LEMMA StoreFlushed ==
    ASSUME PagerInv, StoreInv, NEW p \in Handles, Kept(p), pc[p] \in Owning,
           SyncDb, UNCHANGED <<jrnl, dead>>, AtWork(p)'
    PROVE  StoreInv'
<1>1. db' = db /\ Stored' = Stored /\ dbMaybe' = [i \in Pages |-> {db[i]}]
    BY DEF SyncDb, Stored
<1>2. JournalsKnown'
    BY <1>1, JournalsKept
<1>3. ASSUME NEW i \in Pages, Backed(i) PROVE Backed(i)'
    <2>1. db[i] \in dbMaybe[i]
        BY DEF PagerInv, Values
    <2> HIDE DEF Stored
    <2>2. dbMaybe[i] = {Stored[i]} => dbMaybe'[i] = {Stored[i]}
        BY <1>1, <2>1
    <2> QED
        BY <1>1, <1>3, <2>2 DEF Backed
<1>4. FilesBacked'
    <2>1. (Armed' <=> Armed) /\ (Hot(jrnl') <=> Hot(jrnl))
        BY DEF Armed
    <2> HIDE DEF Stored
    <2> QED
        BY <1>1, <1>3, <2>1 DEF StoreInv, FilesBacked
<1> QED
    BY <1>2, <1>4, OthersAtWork DEF StoreInv

LEMMA StoreSynced ==
    ASSUME PagerInv, StoreInv, NEW p \in Handles, EndPlayBack(p) \/ SyncStored(p)
    PROVE  StoreInv'
<1>1. /\ Kept(p) /\ SyncDb /\ UNCHANGED <<jrnl, dead>>
      /\ pc[p] \in {"replay", "undo", "store"} /\ pc'[p] \in {"undone", "replayed", "finished"}
      /\ pc[p] = "store" => pc'[p] = "finished"
    BY DEF EndPlayBack, SyncStored, PagerInv, Values, Kept, lockVars, Goto
<1>2. AtWork(p)'
    BY <1>1 DEF StoreInv, AtWork, Undoing, Certain
<1>3. pc[p] \in Owning
    BY <1>1 DEF Owning, InWrite, InFlush, InRollback, InRecovery
<1> QED
    BY <1>1, <1>2, <1>3, StoreFlushed

LEMMA StoreRecords ==
    ASSUME PagerInv, CacheInv, PagerInv', StoreInv, NEW p \in Handles, SyncRecords(p)
    PROVE  StoreInv'
<1>1. /\ pc[p] = "sync" /\ SyncJournal /\ pc' = [pc EXCEPT ![p] = "header"]
      /\ UNCHANGED <<lockVars, db, dbMaybe, mem>>
    BY DEF SyncRecords, Goto
<1>2. /\ Kept(p) /\ pc'[p] = "header" /\ jrnl # None
    BY <1>1 DEF PagerInv, Values, Kept, lockVars, Working, InWrite, InFlush
<1>3. StoredKept
    BY CacheSyncs
<1>4. /\ JournalsKnown' /\ FilesBacked' /\ \A r \in 1 .. Len(jrnl'.recs) : r <= jrnl'.safe
    BY <1>1, <1>2, <1>3, JournalSynced
<1>5. AtWork(p)' /\ pc[p] \in Owning
    BY <1>1, <1>2, <1>4 DEF AtWork, Undoing, Owning, InWrite, InFlush
<1> QED
    BY <1>2, <1>4, <1>5, OthersAtWork DEF StoreInv

LEMMA StoreRecovers ==
    ASSUME PagerInv, CacheInv, PagerInv', StoreInv, NEW p \in Handles, Recover(p)
    PROVE  StoreInv'
<1>1. /\ pc[p] = "recover"
      /\ IF jrnl = None THEN UNCHANGED files /\ pc' = [pc EXCEPT ![p] = "validate"]
                        ELSE SyncJournal /\ pc' = [pc EXCEPT ![p] = "replay"]
      /\ jrnl # None => IF Hot(jrnl) THEN Truncate(jrnl.orig) ELSE UNCHANGED dbMaybe
    BY DEF Recover, Goto
<1>2. Kept(p)
    BY Locking DEF PagerInv, LockInv, Values, Kept, Recover, Goto, Fields, lockVars
<1>3. CASE jrnl = None
    <2>1. UNCHANGED files /\ pc'[p] = "validate"
        BY <1>1, <1>3 DEF PagerInv
    <2> QED
        BY <1>2, <2>1, StoreQuiet DEF Undoing
<1>4. CASE jrnl # None
    <2>1. jrnl.orig \in Pages
        BY <1>4 DEF PagerInv, Values, JournalsOf, Journals
    <2>2. \A i \in Pages : i <= jrnl.orig => dbMaybe'[i] = dbMaybe[i]
        <3>1. CASE Hot(jrnl)
            BY <1>1, <1>4, <2>1, <3>1, TruncatedTo DEF PagerInv
        <3>2. CASE ~Hot(jrnl)
            BY <1>1, <1>4, <3>2
        <3> QED
            BY <3>1, <3>2
    <2>3. StoredKept
        BY CacheRecovers
    <2>4. JournalsKnown' /\ FilesBacked' /\ Certain(jrnl)'
        BY <1>1, <1>4, <2>2, <2>3, JournalSynced
    <2>5. jrnl' # None
        BY <1>1, <1>4, SyncedDisk, PagerAssumption DEF JournalsOf
    <2>6. pc'[p] = "replay" /\ pc[p] \in Owning
        BY <1>1, <1>4 DEF PagerInv, Owning, InRecovery
    <2>7. AtWork(p)'
        BY <2>4, <2>5, <2>6 DEF AtWork
    <2> QED
        BY <1>2, <2>4, <2>6, <2>7, OthersAtWork DEF StoreInv
<1> QED
    BY <1>3, <1>4

LEMMA PlayedNext ==
    ASSUME PagerInv, CacheInv, NEW p \in Handles, pc[p] \in {"replay", "undo"},
           mem[p].todo # <<>>
    PROVE  /\ Armed /\ jrnl \in JournalsOf(tx) /\ JournalOK(jrnl)
           /\ \E q \in Played(jrnl) : Head(mem[p].todo) = jrnl.recs[q]
<1> DEFINE full == mem[p].todo
<1>1. /\ full \in Seq(Entries(tx)) /\ jrnl # None
      /\ Restoring(pc[p], mem[p], db, jrnl) /\ Durable(pc[p])
    BY DEF PagerInv, Values, Working, InRollback, PagerFields, CacheInv
<1>2. jrnl \in JournalsOf(tx) /\ JournalOK(jrnl)
    BY <1>1 DEF PagerInv, Values, CacheInv, Disk
<1>3. /\ DOMAIN Playable(jrnl) = Played(jrnl)
      /\ \A q \in Played(jrnl) : Playable(jrnl)[q] = jrnl.recs[q]
    BY <1>2, PlayedFirst
<1>4. 1 \in DOMAIN full /\ Head(full) = full[1]
    <2>1. full # <<>>
        OBVIOUS
    <2> HIDE DEF full
    <2>2. DOMAIN full = 1 .. Len(full) /\ Len(full) \in Nat /\ Len(full) # 0
        BY <1>1, <2>1, LenProperties, EmptySeq
    <2> QED
        BY <1>1, <2>1, <2>2, HeadTailProperties
<1>5. \E q \in Played(jrnl) : full[1] = jrnl.recs[q]
    BY <1>1, <1>3, <1>4 DEF Restoring
<1>6. Armed
    <2>1. Hot(jrnl)
        BY <1>2, <1>5, NothingPlayed
    <2> QED
        BY <1>1, <2>1 DEF Durable
<1> QED
    BY <1>2, <1>4, <1>5, <1>6

\* A page that is written is in a part of the journal that is on the disk.
LEMMA StoreBacked ==
    ASSUME PagerInv, CacheInv, PagerInv', StoreInv, NEW p \in Handles, NEW i \in Pages, NEW v,
           Kept(p), pc[p] \in Owning, Store(i, v), UNCHANGED <<jrnl, dead>>, StoredKept,
           Armed, AtWork(p)',
           i <= jrnl.orig => \E r \in Played(jrnl) : /\ jrnl.recs[r].page = i
                                                     /\ jrnl.magics[jrnl.recs[r].part] = {TRUE}
    PROVE  StoreInv'
<1>1. Stored' = Stored
    BY SameStored
<1>2. /\ \A x \in Pages : x # i => dbMaybe'[x] = dbMaybe[x]
      /\ (Armed' <=> Armed) /\ (Hot(jrnl') <=> Hot(jrnl)) /\ Hot(jrnl)
    BY DEF PagerInv, Values, Store, Armed
<1>3. JournalsKnown'
    BY <1>1, <1>2, JournalsKept
<1>4. ASSUME NEW x \in Pages, x <= jrnl.orig PROVE Backed(x)'
    <2> HIDE DEF Stored
    <2>1. Backed(x)
        BY <1>4 DEF StoreInv, FilesBacked
    <2>2. CASE x = i
        BY <1>4, <2>2 DEF Backed
    <2>3. CASE x # i
        BY <1>1, <1>2, <2>1, <2>3 DEF Backed
    <2> QED
        BY <2>2, <2>3
<1>5. FilesBacked'
    BY <1>2, <1>4 DEF FilesBacked
<1> QED
    BY <1>3, <1>5, OthersAtWork DEF StoreInv

LEMMA StorePlaysBack ==
    ASSUME PagerInv, CacheInv, PagerInv', StoreInv, NEW p \in Handles, PlayBack(p)
    PROVE  StoreInv'
<1> DEFINE r == Head(mem[p].todo)
<1>1. /\ pc[p] \in {"replay", "undo"} /\ mem[p].todo # <<>> /\ Store(r.page, r.image)
      /\ UNCHANGED <<lockVars, jrnl, dead, pc, tx>> /\ Kept(p)
    BY DEF PlayBack, Fields, PagerInv, Values, Kept, lockVars
<1>2. /\ Armed /\ jrnl \in JournalsOf(tx) /\ JournalOK(jrnl)
      /\ \E q \in Played(jrnl) : r = jrnl.recs[q]
    BY <1>1, PlayedNext
<1> HIDE DEF r
<1>3. PICK q \in Played(jrnl) : r = jrnl.recs[q]
    BY <1>2
<1>4. /\ jrnl.magic[jrnl.recs[q].part] = TRUE /\ q \in 1 .. Len(jrnl.recs)
      /\ jrnl.recs[q].part \in 1 .. Len(jrnl.magic)
    BY <1>2, PlayedHeader
<1>5. r.page \in Pages
    BY <1>2, <1>3, <1>4, PlayedFirst DEF Entries
<1>6. AtWork(p) /\ AtWork(p)' /\ Certain(jrnl)
    BY <1>1 DEF StoreInv, AtWork, Certain, Undoing
<1>7. jrnl.magics[jrnl.recs[q].part] = {TRUE}
    BY <1>4, <1>6 DEF Certain
<1>8. StoredKept /\ pc[p] \in Owning
    BY <1>1, CachePlaysBack DEF Owning, InRollback, InRecovery
<1> QED
    BY <1>1, <1>2, <1>3, <1>5, <1>6, <1>7, <1>8, StoreBacked

LEMMA StoreStores ==
    ASSUME PagerInv, CacheInv, PagerInv', StoreInv, NEW p \in Handles, NEW i \in Pages,
           StorePage(p, i)
    PROVE  StoreInv'
<1> DEFINE v == mem[p].cache[i]
<1>1. /\ pc[p] \in {"store", "dbmod"} /\ i \in mem[p].dirty /\ Store(i, v)
      /\ pc[p] = "dbmod" => i \notin PagesOf(jrnl, Part(jrnl))
      /\ UNCHANGED <<lockVars, jrnl, dead, pc, tx>> /\ Kept(p)
    BY DEF StorePage, Fields, PagerInv, Values, Kept, lockVars
<1> HIDE DEF v
<1>2. /\ Armed /\ jrnl \in JournalsOf(tx) /\ JournalOK(jrnl)
      /\ JournalOf(pc[p], mem[p], db, jrnl, dead) /\ CacheOfWriter(mem[p], db, Stored)
      /\ \A r \in 1 .. Len(jrnl.recs) :
             ~(pc[p] = "dbmod" /\ jrnl.recs[r].part = Len(jrnl.magic))
             => r \in Played(jrnl) /\ jrnl.magic[jrnl.recs[r].part] = TRUE
    BY <1>1, OriginalsSafe
<1>3. ASSUME i <= jrnl.orig
      PROVE  \E r \in Played(jrnl) : /\ jrnl.recs[r].page = i
                                     /\ jrnl.magics[jrnl.recs[r].part] = {TRUE}
    <2>1. i \in mem[p].logged
        BY <1>1, <1>2, <1>3 DEF CacheOfWriter, JournalOf
    <2>2. PICK r \in DOMAIN jrnl.recs : jrnl.recs[r].page = i
        BY <1>1, <2>1 DEF PagerInv, Working, InWrite, InFlush
    <2>3. DOMAIN jrnl.recs = 1 .. Len(jrnl.recs)
        BY <1>2, PlayedFirst
    <2>4. ~(pc[p] = "dbmod" /\ jrnl.recs[r].part = Len(jrnl.magic))
        BY <1>1, <2>2 DEF PagesOf, Part
    <2>5. r \in Played(jrnl)
        BY <1>2, <2>3, <2>4
    <2> DEFINE len == Len(jrnl.magic)
    <2>6. jrnl.recs[r].part \in 1 .. len /\ \A s \in 1 .. len - 1 : jrnl.magics[s] = {TRUE}
        BY <1>2, <2>2, <2>3 DEF JournalOK
    <2>7. pc[p] = "store" => jrnl.magics[len] = {TRUE}
        BY <1>2 DEF JournalOf
    <2>8. len \in Nat
        BY <1>2, LastPart DEF Part
    <2>9. jrnl.recs[r].part # len => jrnl.recs[r].part \in 1 .. len - 1
        <3> HIDE DEF len
        <3> QED
            BY <2>6, <2>8
    <2>10. jrnl.magics[jrnl.recs[r].part] = {TRUE}
        <3>1. CASE jrnl.recs[r].part = len
            BY <1>1, <2>4, <2>7, <3>1
        <3>2. CASE jrnl.recs[r].part # len
            BY <2>6, <2>9, <3>2
        <3> QED
            BY <3>1, <3>2
    <2> QED
        BY <2>2, <2>5, <2>10
<1>4. AtWork(p)' /\ pc[p] \in Owning /\ StoredKept
    BY <1>1, CacheStores DEF AtWork, Undoing, Owning, InWrite, InFlush
<1> QED
    BY <1>1, <1>2, <1>3, <1>4, StoreBacked

LEMMA StoreRollsBack ==
    ASSUME PagerInv, CacheInv, PagerInv', StoreInv, NEW p \in Handles, Rollback(p)
    PROVE  StoreInv'
<1> DEFINE s == IF Hot(jrnl) THEN "undo" ELSE "undone"
<1>1. /\ pc[p] \in {"cachemod", "lock", "dbmod", "finished"}
      /\ pc' = [pc EXCEPT ![p] = s] /\ s \in Undoing
      /\ IF Hot(jrnl) THEN Truncate(mem[p].orig) ELSE UNCHANGED <<db, dbMaybe>>
      /\ UNCHANGED <<lockVars, jrnl, dead, tx>> /\ Kept(p)
    BY DEF Rollback, Goto, Fields, Undoing, PagerInv, Values, Kept, lockVars
<1> HIDE DEF s
<1>2. /\ jrnl \in JournalsOf(tx) /\ jrnl # None /\ JournalOK(jrnl) /\ mem[p].orig \in Pages
    BY <1>1, PagerAssumption
       DEF PagerInv, Values, Working, InTransaction, InWrite, InFlush, Pages, CacheInv, Disk
<1>3. JournalOf(pc[p], mem[p], db, jrnl, dead) /\ HeadersKnown(jrnl)
    BY <1>1, <1>2
       DEF CacheInv, Writing, Active, InWrite, InFlush, StoreInv, JournalsKnown
<1>4. /\ \A i \in Pages : i <= jrnl.orig => db'[i] = db[i] /\ dbMaybe'[i] = dbMaybe[i]
      /\ jrnl.orig = mem[p].orig
    <2>1. jrnl.orig = mem[p].orig
        BY <1>3 DEF JournalOf
    <2>2. CASE Hot(jrnl)
        <3>1. Truncate(mem[p].orig)
            BY <1>1, <2>2
        <3> QED
            BY <1>2, <2>1, <3>1, TruncatedTo DEF PagerInv
    <2>3. CASE ~Hot(jrnl)
        BY <1>1, <2>1, <2>3
    <2> QED
        BY <2>2, <2>3
<1>5. Certain(jrnl)
    <2>1. ~jrnl.magic[Len(jrnl.magic)] \/ jrnl.magics[Len(jrnl.magic)] = {TRUE}
        BY <1>1, <1>3 DEF JournalOf
    <2> QED
        BY <1>2, <1>3, <2>1, LastCertain
<1>6. Hot(jrnl) => Armed
    <2> SUFFICES ASSUME Hot(jrnl) PROVE Armed
        OBVIOUS
    <2>1. dead = {}
        BY DEF StoreInv, JournalsKnown
    <2>2. CASE ~jrnl.magic[Len(jrnl.magic)]
        BY <1>2, <2>1, <2>2, FirstPartSynced DEF Armed
    <2>3. CASE jrnl.magic[Len(jrnl.magic)]
        <3>1. Durable(pc[p]) /\ pc[p] = "finished" /\ jrnl.magics[Len(jrnl.magic)] = {TRUE}
            BY <1>1, <1>3, <2>3 DEF CacheInv, JournalOf
        <3> DEFINE len == Len(jrnl.magic)
        <3>2. len \in Nat \ {0} /\ \A t \in 1 .. len - 1 : jrnl.magics[t] = {TRUE}
            BY <1>2, LastPart DEF Part, JournalOK
        <3>3. 1 = len \/ 1 \in 1 .. len - 1
            <4> HIDE DEF len
            <4> QED
                BY <3>2
        <3>4. jrnl.magics[1] = {TRUE}
            BY <3>1, <3>2, <3>3
        <3> QED
            BY <2>1, <3>4 DEF Armed
    <2> QED
        BY <2>2, <2>3
<1>7. StoredKept
    BY CacheRollsBack
<1>8. Stored' = Stored
    BY <1>7, SameStored
<1>9. JournalsKnown'
    BY <1>1, <1>8, JournalsKept
<1>10. FilesBacked'
    <2>1. (Armed' <=> Armed) /\ (Hot(jrnl') <=> Hot(jrnl))
        BY <1>1 DEF Armed
    <2>2. ASSUME NEW i \in Pages, i <= jrnl.orig, Backed(i) PROVE Backed(i)'
        <3> HIDE DEF Stored
        <3> QED
            BY <1>1, <1>4, <1>8, <2>2 DEF Backed
    <2> QED
        BY <1>1, <1>6, <2>1, <2>2 DEF StoreInv, FilesBacked
<1>11. AtWork(p)' /\ pc[p] \in Owning
    <2>1. pc'[p] \in Undoing /\ "header" \notin Undoing
        BY <1>1 DEF PagerInv, Undoing
    <2>2. Certain(jrnl)' /\ jrnl' # None
        BY <1>1, <1>2, <1>5 DEF Certain
    <2> QED
        BY <1>1, <2>1, <2>2 DEF AtWork, Owning, InWrite, InFlush
<1> QED
    BY <1>1, <1>9, <1>10, <1>11, OthersAtWork DEF StoreInv

LEMMA StoreEnds ==
    ASSUME PagerInv, CacheInv, StoreInv, NEW p \in Handles, EndTransaction(p)
    PROVE  StoreInv'
<1>1. /\ pc[p] \in {"finished", "undone", "replayed"}
      /\ pc'[p] \in {"rest", "leave"} /\ Kept(p)
      /\ UNCHANGED <<lockVars, db, dbMaybe, mem, tx>>
      /\ dead' = dead \cup {jrnl} /\ jrnl' = None
    BY DEF EndTransaction, DeleteJournal, Goto, PagerInv, Values, Kept, lockVars
<1>2. /\ jrnl \in JournalsOf(tx) /\ JournalOK(jrnl) /\ HeadersKnown(jrnl)
    BY <1>1 DEF PagerInv, Values, Working, InWrite, InFlush, InRollback, CacheInv, Disk,
                StoreInv, JournalsKnown
<1>3. Certain(jrnl)
    <2>1. CASE pc[p] = "finished"
        <3>1. jrnl.magics[Len(jrnl.magic)] = {TRUE}
            BY <2>1 DEF CacheInv, Writing, Active, InWrite, InFlush, JournalOf
        <3> QED
            BY <1>2, <3>1, LastCertain
    <2>2. CASE pc[p] # "finished"
        BY <1>1, <2>2 DEF StoreInv, AtWork, Undoing
    <2> QED
        BY <2>1, <2>2
<1>4. ~Hot(jrnl') /\ Stored' = db
    BY <1>1 DEF Hot, Stored, Recovered
<1>5. ASSUME NEW j \in dead', NEW k \in dead', Recovered(db, j) # db, Recovered(db, k) # db
      PROVE  Recovered(db, j) = Recovered(db, k)
    <2>1. CASE Hot(jrnl)
        <3>1. dead' = {jrnl}
            BY <1>1, <2>1 DEF StoreInv, JournalsKnown
        <3> QED
            BY <3>1
    <2>2. CASE ~Hot(jrnl)
        <3>1. Stored = db /\ Recovered(db, jrnl) = db
            BY <2>2 DEF Stored, Recovered
        <3>2. j \in dead /\ k \in dead
            BY <1>1, <1>5, <3>1
        <3> QED
            BY <1>5, <3>1, <3>2 DEF StoreInv, JournalsKnown
    <2> QED
        BY <2>1, <2>2
<1>6. JournalsKnown'
    <2>1. \A j \in dead' : HeadersKnown(j) /\ Certain(j)
        <3>1. \A j \in dead : j # None
            BY PagerAssumption DEF PagerInv, Values, JournalsOf
        <3> QED
            BY <1>1, <1>2, <1>3, <3>1 DEF StoreInv, JournalsKnown
    <2> HIDE DEF Stored
    <2> QED
        BY <1>1, <1>4, <1>5, <2>1 DEF JournalsKnown
<1>7. FilesBacked'
    BY <1>4 DEF FilesBacked, Armed
<1>8. AtWork(p)' /\ pc[p] \in Owning
    BY <1>1 DEF AtWork, Undoing, Owning, InWrite, InFlush, InRollback, InRecovery
<1> QED
    BY <1>1, <1>6, <1>7, <1>8, OthersAtWork DEF StoreInv

\* What a record more changes in the journal j.
LEMMA OneRecordMore ==
    ASSUME NEW n, NEW j \in JournalsOf(n), NEW r, NEW k,
           k = [j EXCEPT !.recs = Append(j.recs, r)] \/ k = j
    PROVE  /\ k.magic = j.magic /\ k.magics = j.magics /\ k.orig = j.orig /\ k.safe = j.safe
           /\ Len(j.recs) \in Nat /\ Len(k.recs) \in {Len(j.recs), Len(j.recs) + 1}
           /\ \A q \in 1 .. Len(j.recs) : k.recs[q] = j.recs[q]
           /\ Len(k.recs) = Len(j.recs) + 1 => k.recs[Len(j.recs) + 1] = r
<1>1. /\ j \in Journals /\ j.recs \in Seq(Entries(n)) /\ Len(j.recs) \in Nat
    BY PlayedFirst DEF JournalsOf
<1>2. CASE k = j
    BY <1>1, <1>2
<1>3. CASE k = [j EXCEPT !.recs = Append(j.recs, r)]
    <2> DEFINE recs == Append(j.recs, r)
    <2>1. /\ Len(recs) = Len(j.recs) + 1 /\ recs[Len(j.recs) + 1] = r
          /\ \A q \in 1 .. Len(j.recs) : recs[q] = j.recs[q]
        <3> DEFINE S == Entries(n) \cup {r}
        <3>1. j.recs \in Seq(S) /\ r \in S
            BY <1>1, SeqMonotonic
        <3> HIDE DEF S
        <3> QED
            BY <3>1, AppendProperties
    <2> HIDE DEF recs
    <2>2. k.recs = recs /\ k.magic = j.magic /\ k.magics = j.magics /\ k.orig = j.orig
          /\ k.safe = j.safe
        BY <1>1, <1>3 DEF Journals, recs
    <2> QED
        BY <1>1, <2>1, <2>2
<1> QED
    BY <1>2, <1>3

LEMMA StoreLogs ==
    ASSUME PagerInv, CacheInv, StoreInv, NEW p \in Handles, Kept(p), NEW i \in Pages,
           pc[p] \in {"locked", "cachemod", "dbmod"}, LogPage(p, i),
           pc'[p] \in {"cachemod", "lock", "dbmod"},
           UNCHANGED <<db, dbMaybe, dead>>, Stored' = Stored, jrnl' # None
    PROVE  StoreInv'
<1> DEFINE j == IF pc[p] = "locked" THEN NewJournal(mem[p].orig) ELSE jrnl
           s == IF pc[p] = "locked" THEN "cachemod" ELSE pc[p]
<1>1. /\ j \in JournalsOf(tx) /\ JournalOK(j) /\ (Hot(j) <=> Hot(jrnl))
      /\ JournalOf(s, mem[p], db, j, dead)
    <2>1. /\ pc[p] = "locked" => s = "cachemod"
          /\ pc[p] # "locked" => s = pc[p]
        OBVIOUS
    <2> HIDE DEF s
    <2>2. pc[p] = "locked" => s = "cachemod"
        BY <2>1
    <2>3. pc[p] # "locked" => s = pc[p]
        BY <2>1
    <2> DEFINE k == j
    <2>4. k = IF pc[p] = "locked" THEN NewJournal(mem[p].orig) ELSE jrnl
        OBVIOUS
    <2> HIDE DEF k
    <2>5. /\ k \in JournalsOf(tx) /\ JournalOK(k) /\ (Hot(k) <=> Hot(jrnl))
          /\ JournalOf(s, mem[p], db, k, dead)
        BY <2>2, <2>3, <2>4, JournalAtHand
    <2> QED
        BY <2>5 DEF k
<1>2. ~j.magic[Len(j.magic)]
    BY <1>1 DEF JournalOf
<1>3. HeadersKnown(j)
    <2>1. CASE pc[p] = "locked"
        <3>1. /\ j.magic = <<FALSE>> /\ j.magics = <<{FALSE}>> /\ j.recs = <<>>
            BY <2>1 DEF NewJournal
        <3> HIDE DEF j
        <3> DEFINE one == j.magic
                   marks == j.magics
                   recs == j.recs
        <3>2. one = <<FALSE>> /\ marks = <<{FALSE}>> /\ recs = <<>>
            BY <3>1
        <3> HIDE DEF one, marks, recs
        <3>3. Len(one) = 1 /\ Len(recs) = 0 /\ marks[1] = {FALSE}
            BY <3>2
        <3>4. ASSUME NEW x \in 1 .. Len(one) PROVE TRUE \notin marks[x]
            <4>1. x = 1
                BY <3>3
            <4> QED
                BY <3>3, <4>1
        <3>5. 1 .. Len(recs) = {}
            BY <3>3
        <3> QED
            BY <3>4, <3>5 DEF HeadersKnown, one, marks, recs
    <2>2. CASE pc[p] # "locked"
        BY <1>1, <2>2, PagerAssumption DEF StoreInv, JournalsKnown, JournalsOf
    <2> QED
        BY <2>1, <2>2
<1>4. pc[p] # "locked" => j = jrnl
    OBVIOUS
<1> DEFINE r == Record(i, Original(p, i), Part(j))
<1>5. jrnl' = [j EXCEPT !.recs = Append(j.recs, r)] \/ jrnl' = j
    BY DEF LogPage
<1>6. r.part = Len(j.magic)
    BY DEF Record, Part
<1> HIDE DEF j, r, s
<1>7. /\ jrnl'.magic = j.magic /\ jrnl'.magics = j.magics /\ jrnl'.orig = j.orig
      /\ jrnl'.safe = j.safe
      /\ Len(j.recs) \in Nat /\ Len(jrnl'.recs) \in {Len(j.recs), Len(j.recs) + 1}
      /\ \A q \in 1 .. Len(j.recs) : jrnl'.recs[q] = j.recs[q]
      /\ Len(jrnl'.recs) = Len(j.recs) + 1 => jrnl'.recs[Len(j.recs) + 1] = r
    <2> DEFINE k == jrnl'
    <2>1. j \in JournalsOf(tx)
        BY <1>1
    <2>2. k = [j EXCEPT !.recs = Append(j.recs, r)] \/ k = j
        BY <1>5
    <2> HIDE DEF k
    <2>3. /\ k.magic = j.magic /\ k.magics = j.magics /\ k.orig = j.orig /\ k.safe = j.safe
          /\ Len(j.recs) \in Nat /\ Len(k.recs) \in {Len(j.recs), Len(j.recs) + 1}
          /\ \A q \in 1 .. Len(j.recs) : k.recs[q] = j.recs[q]
          /\ Len(k.recs) = Len(j.recs) + 1 => k.recs[Len(j.recs) + 1] = r
        BY <2>1, <2>2, OneRecordMore
    <2> QED
        BY <2>3 DEF k
<1>8. HeadersKnown(jrnl')
    <2>1. ASSUME NEW q \in 1 .. Len(jrnl'.recs), jrnl'.magic[jrnl'.recs[q].part] = TRUE
          PROVE  q <= jrnl'.safe
        <3>1. CASE q \in 1 .. Len(j.recs)
            BY <1>3, <1>7, <2>1, <3>1 DEF HeadersKnown
        <3>2. CASE q \notin 1 .. Len(j.recs)
            <4>1. q = Len(j.recs) + 1 /\ Len(jrnl'.recs) = Len(j.recs) + 1
                BY <1>7, <3>2
            <4>2. ~jrnl'.magic[jrnl'.recs[q].part]
                BY <1>2, <1>6, <1>7, <4>1
            <4> QED
                BY <2>1, <4>2
        <3> QED
            BY <3>1, <3>2
    <2> QED
        BY <1>3, <1>7, <2>1 DEF HeadersKnown
<1>9. (Hot(jrnl') <=> Hot(jrnl)) /\ (Hot(jrnl) => j = jrnl)
    <2>1. Hot(jrnl) => pc[p] # "locked"
        BY DEF CacheInv, Guarded, NeverHot
    <2>2. Hot(jrnl') <=> Hot(j)
        BY <1>1, <1>7, PagerAssumption DEF Hot, JournalsOf
    <2> QED
        BY <1>1, <1>4, <2>1, <2>2
<1>10. JournalsKnown'
    <2> HIDE DEF Stored
    <2> QED
        BY <1>8, <1>9 DEF StoreInv, JournalsKnown
<1>11. FilesBacked'
    <2>1. Hot(jrnl) => (Armed' <=> Armed)
        BY <1>7, <1>9 DEF Armed
    <2>2. ASSUME Hot(jrnl), NEW x \in Pages, Backed(x) PROVE Backed(x)'
        <3>1. j = jrnl
            BY <1>9, <2>2
        <3>2. ASSUME NEW q \in Played(jrnl)
              PROVE  q \in Played(jrnl') /\ jrnl'.recs[q] = jrnl.recs[q]
            <4>1. q \in 1 .. Len(jrnl.recs) /\ \A t \in 1 .. q : t \in 1 .. Len(jrnl.recs)
                BY <1>7, <3>1 DEF Played
            <4>2. q \in 1 .. Len(jrnl'.recs)
                BY <1>7, <3>1, <4>1
            <4> QED
                BY <1>7, <3>1, <4>1, <4>2 DEF Played
        <3> HIDE DEF Stored
        <3> QED
            BY <1>7, <2>2, <3>1, <3>2 DEF Backed
    <2> HIDE DEF Stored
    <2>3. Hot(jrnl) => jrnl'.orig = jrnl.orig
        BY <1>7, <1>9
    <2> QED
        BY <1>9, <2>1, <2>2, <2>3 DEF StoreInv, FilesBacked, Armed
<1>12. AtWork(p)' /\ pc[p] \in Owning
    BY DEF AtWork, Undoing, Owning, InWrite, InFlush
<1> QED
    BY <1>10, <1>11, <1>12, OthersAtWork DEF StoreInv

LEMMA StoreWrites ==
    ASSUME PagerInv, CacheInv, PagerInv', StoreInv, NEW p \in Handles, NEW i \in Pages,
           WritePage(p, i)
    PROVE  StoreInv'
<1> DEFINE s == IF pc[p] = "locked" THEN "cachemod" ELSE pc[p]
<1>1. /\ pc[p] \in {"locked", "cachemod", "dbmod"} /\ LogPage(p, i)
      /\ pc' = [pc EXCEPT ![p] = s]
      /\ UNCHANGED <<lockVars, db, dbMaybe, dead, tx>> /\ Kept(p)
    BY DEF WritePage, Fields, Goto, PagerInv, Values, Kept, lockVars
<1>2. s \in {"cachemod", "lock", "dbmod"}
    BY <1>1
<1> HIDE DEF s
<1>3. pc'[p] \in {"cachemod", "lock", "dbmod"}
    BY <1>1, <1>2 DEF PagerInv
<1>4. jrnl' # None
    BY <1>3 DEF PagerInv, Working, InWrite, InFlush
<1>5. Stored' = Stored
    BY CacheWrites, SameStored
<1> HIDE DEF Stored
<1> QED
    BY <1>1, <1>3, <1>4, <1>5, StoreLogs

LEMMA StoreCommits ==
    ASSUME PagerInv, CacheInv, PagerInv', StoreInv, NEW p \in Handles, CommitPhaseOne(p)
    PROVE  StoreInv'
<1>1. /\ pc[p] \in {"cachemod", "dbmod"} /\ LogPage(p, 1)
      /\ pc' = [pc EXCEPT ![p] = "lock"] /\ 1 \in Pages
      /\ UNCHANGED <<lockVars, db, dbMaybe, dead, tx>> /\ Kept(p)
    BY PagerAssumption DEF CommitPhaseOne, Fields, Goto, PagerInv, Values, Kept, lockVars, Pages
<1>2. pc'[p] = "lock"
    BY <1>1 DEF PagerInv
<1>3. jrnl' # None
    BY <1>2 DEF PagerInv, Working, InWrite, InFlush
<1>4. Stored' = Stored
    BY CacheCommits, SameStored
<1> HIDE DEF Stored
<1> QED
    BY <1>1, <1>2, <1>3, <1>4, StoreLogs

\* What the header steps leave of a journal.
LEMMA HeaderKept ==
    ASSUME NEW n, jrnl \in JournalsOf(n), NEW p \in Handles
    PROVE  /\ WriteHeader(p) => /\ jrnl'.safe = jrnl.safe
                                /\ jrnl.magics[Len(jrnl.magic)] \subseteq jrnl'.magics[Len(jrnl.magic)]
           /\ SyncHeader(p) => jrnl'.safe = jrnl.safe
<1> DEFINE part == Part(jrnl)
           magic == [jrnl.magic EXCEPT ![part] = TRUE]
           last == jrnl.magics[part] \cup {TRUE}
           magics == [jrnl.magics EXCEPT ![part] = last]
           known == [jrnl.magics EXCEPT ![part] = {TRUE}]
           more == Append(jrnl.magic, FALSE)
           moreMagics == Append(known, {FALSE})
<1>1. /\ part \in DOMAIN jrnl.magics /\ part = Len(jrnl.magic) /\ jrnl \in Journals
    BY LastPart DEF Part, JournalsOf
<1>2. ASSUME WriteHeader(p)
      PROVE  /\ jrnl'.safe = jrnl.safe
             /\ jrnl.magics[Len(jrnl.magic)] \subseteq jrnl'.magics[Len(jrnl.magic)]
    <2>1. jrnl' = [jrnl EXCEPT !.magic = magic, !.magics = magics]
        BY <1>1, <1>2 DEF WriteHeader, Journals
    <2>2. magics[part] = last
        BY <1>1
    <2> HIDE DEF magic, magics
    <2>3. jrnl'.safe = jrnl.safe /\ jrnl'.magics = magics
        BY <1>1, <2>1 DEF Journals
    <2> QED
        BY <1>1, <2>2, <2>3
<1>3. ASSUME SyncHeader(p) PROVE jrnl'.safe = jrnl.safe
    <2> DEFINE safe == [jrnl EXCEPT !.magics = known]
    <2>1. jrnl' = IF mem[p].commit THEN safe
                  ELSE [safe EXCEPT !.magic = more, !.magics = moreMagics]
        BY <1>1, <1>3 DEF SyncHeader, Journals
    <2> HIDE DEF known, more, moreMagics
    <2>2. safe.safe = jrnl.safe /\ [safe EXCEPT !.magic = more, !.magics = moreMagics].safe = safe.safe
        BY <1>1 DEF Journals
    <2> HIDE DEF safe
    <2> QED
        BY <2>1, <2>2
<1> QED
    BY <1>2, <1>3

LEMMA StoreHeader ==
    ASSUME PagerInv, CacheInv, PagerInv', StoreInv, NEW p \in Handles, WriteHeader(p)
    PROVE  StoreInv'
<1> DEFINE len == Len(jrnl.magic)
<1>1. /\ pc[p] = "header" /\ pc' = [pc EXCEPT ![p] = "resync"]
      /\ UNCHANGED <<lockVars, db, dbMaybe, dead, mem, tx>>
      /\ jrnl' = [jrnl EXCEPT !.magic[Part(jrnl)] = TRUE, !.magics[Part(jrnl)] = @ \cup {TRUE}]
    BY DEF WriteHeader, Goto
<1>2. /\ Kept(p) /\ pc'[p] = "resync" /\ jrnl # None /\ jrnl' # None
    BY <1>1 DEF PagerInv, Values, Kept, lockVars, Working, InWrite, InFlush
<1>3. /\ jrnl \in JournalsOf(tx) /\ JournalOK(jrnl) /\ HeadersKnown(jrnl)
    BY <1>2 DEF PagerInv, Values, CacheInv, Disk, StoreInv, JournalsKnown
<1>4. /\ jrnl'.recs = jrnl.recs /\ jrnl'.orig = jrnl.orig
      /\ Len(jrnl'.magic) = len /\ jrnl'.magic[len] = TRUE
      /\ \A s \in 1 .. len : s # len =>
             jrnl'.magic[s] = jrnl.magic[s] /\ jrnl'.magics[s] = jrnl.magics[s]
    BY <1>1, <1>3, HeaderWritten
<1>5. jrnl'.safe = jrnl.safe /\ jrnl.magics[len] \subseteq jrnl'.magics[len]
    BY <1>3, HeaderKept
<1>6. dead = {} /\ ~jrnl.magic[len]
    BY <1>1 DEF CacheInv, Writing, Active, InWrite, InFlush, JournalOf
<1>7. /\ len \in 1 .. len /\ len \in Nat /\ 1 \in 1 .. len
      /\ \A s \in 1 .. len - 1 : s \in 1 .. len /\ s # len
    <2>1. len \in Nat \ {0}
        BY <1>3, LastPart DEF Part
    <2> HIDE DEF len
    <2> QED
        BY <2>1
<1>8. Stored' = Stored
    BY CacheHeader, SameStored
<1>9. HeadersKnown(jrnl')
    <2>1. \A r \in 1 .. Len(jrnl'.recs) : r <= jrnl'.safe
        BY <1>1, <1>4, <1>5 DEF StoreInv, AtWork
    <2>2. ASSUME NEW s \in 1 .. Len(jrnl'.magic), TRUE \in jrnl'.magics[s]
          PROVE  jrnl'.magic[s] = TRUE
        <3>1. s \in 1 .. len /\ (TRUE \in jrnl.magics[s] => jrnl.magic[s] = TRUE)
            BY <1>3, <1>4 DEF HeadersKnown
        <3> HIDE DEF len
        <3> QED
            BY <1>4, <2>2, <3>1
    <2> QED
        BY <2>1, <2>2 DEF HeadersKnown
<1>10. JournalsKnown'
    BY <1>1, <1>6, <1>9 DEF JournalsKnown
<1>11. AtWork(p)' /\ pc[p] \in Owning
    BY <1>1, <1>2 DEF AtWork, Undoing, Owning, InWrite, InFlush
<1>12. CASE Hot(jrnl)
    <2>1. jrnl.magics[1] = {TRUE} /\ len # 1
        <3>1. jrnl.magics[1] = {TRUE}
            BY <1>3, <1>6, <1>12, FirstPartSynced
        <3>2. jrnl.magic[1]
            BY <1>12 DEF Hot
        <3> QED
            BY <1>6, <3>1, <3>2
    <2>2. Armed /\ Armed'
        <3>1. jrnl'.magics[1] = {TRUE} /\ jrnl'.magic[1] = jrnl.magic[1]
            BY <1>4, <1>7, <2>1
        <3> QED
            BY <1>1, <1>2, <1>6, <1>12, <2>1, <3>1 DEF Armed, Hot
    <2>3. ASSUME NEW r \in Played(jrnl)
          PROVE  /\ r \in Played(jrnl') /\ jrnl'.recs[r] = jrnl.recs[r]
                 /\ jrnl'.magics[jrnl.recs[r].part] = jrnl.magics[jrnl.recs[r].part]
        <3>1. /\ jrnl.magic[jrnl.recs[r].part] = TRUE /\ r \in 1 .. Len(jrnl.recs)
              /\ jrnl.recs[r].part \in 1 .. len
            BY <1>3, PlayedHeader
        <3>2. ASSUME NEW q \in 1 .. r
              PROVE  jrnl'.recs[q].valid /\ jrnl'.magic[jrnl'.recs[q].part]
            <4>1. /\ jrnl.recs[q].valid /\ jrnl.magic[jrnl.recs[q].part]
                  /\ q \in 1 .. Len(jrnl.recs)
                BY <1>3, <3>1, PlayedFirst DEF Played
            <4>2. jrnl.recs[q].part \in 1 .. len
                BY <1>3, <4>1 DEF JournalOK
            <4> QED
                BY <1>4, <4>1, <4>2
        <3>3. jrnl.recs[r].part # len
            BY <1>6, <3>1
        <3> QED
            BY <1>4, <3>1, <3>2, <3>3 DEF Played
    <2>4. ASSUME NEW i \in Pages, Backed(i) PROVE Backed(i)'
        <3> HIDE DEF Stored
        <3> QED
            BY <1>1, <1>8, <2>3, <2>4 DEF Backed
    <2>5. FilesBacked'
        <3>1. \A i \in Pages : i <= jrnl'.orig => Backed(i)'
            BY <1>4, <2>2, <2>4 DEF FilesBacked, StoreInv
        <3> QED
            BY <2>2, <3>1 DEF FilesBacked
    <2> QED
        BY <1>2, <1>10, <1>11, <2>5, OthersAtWork DEF StoreInv
<1>13. CASE ~Hot(jrnl)
    <2>1. Stored' = db /\ db' = db
        BY <1>1, <1>8, <1>13, ColdStored
    <2>2. len = 1 /\ FALSE \in jrnl.magics[1]
        <3>1. len = 1 /\ ~jrnl.magic[1] /\ jrnl.magic[1] \in jrnl.magics[1]
            BY <1>3, <1>7, <1>13, NothingPlayed DEF JournalOK
        <3>2. jrnl.magic[1] \in BOOLEAN
            <4>1. jrnl.magic \in Seq(BOOLEAN)
                BY <1>3 DEF JournalsOf, Journals
            <4>2. 1 \in DOMAIN jrnl.magic
                BY <1>7, <4>1, LenProperties
            <4> QED
                BY <4>1, <4>2, ElementOfSeq
        <3>3. jrnl.magic[1] = FALSE
            BY <3>1, <3>2, Zenon
        <3> QED
            BY <3>1, <3>3
    <2>3. ~Armed'
        <3>1. FALSE \in jrnl'.magics[1]
            BY <1>5, <2>2
        <3>2. jrnl'.magics[1] # {TRUE}
            BY <3>1, Zenon
        <3> QED
            BY <3>2 DEF Armed
    <2>4. FilesBacked'
        BY <2>1, <2>3 DEF FilesBacked
    <2> QED
        BY <1>2, <1>10, <1>11, <2>4, OthersAtWork DEF StoreInv
<1> QED
    BY <1>12, <1>13

LEMMA StoreCounts ==
    ASSUME PagerInv, CacheInv, PagerInv', StoreInv, NEW p \in Handles, SyncHeader(p)
    PROVE  StoreInv'
<1> DEFINE len == Len(jrnl.magic)
           s == IF mem[p].commit THEN "store" ELSE "dbmod"
<1>1. /\ pc[p] = "resync" /\ pc' = [pc EXCEPT ![p] = s] /\ s \in {"store", "dbmod"}
      /\ UNCHANGED <<lockVars, db, dbMaybe, dead, mem, tx>>
    BY DEF SyncHeader, Goto, AfterSync
<1> HIDE DEF s
<1>2. /\ Kept(p) /\ pc'[p] \in {"store", "dbmod"} /\ jrnl # None /\ jrnl' # None
    BY <1>1 DEF PagerInv, Values, Kept, lockVars, Working, InWrite, InFlush
<1>3. /\ jrnl \in JournalsOf(tx) /\ JournalOK(jrnl) /\ HeadersKnown(jrnl)
      /\ JournalOf("resync", mem[p], db, jrnl, dead)
    BY <1>1, <1>2 DEF PagerInv, Values, CacheInv, Disk, StoreInv, JournalsKnown,
                      Writing, Active, InWrite, InFlush
<1>4. /\ jrnl'.recs = jrnl.recs /\ jrnl'.orig = jrnl.orig
      /\ jrnl'.magics[len] = {TRUE}
      /\ \A t \in 1 .. len : jrnl'.magic[t] = jrnl.magic[t]
      /\ \A t \in 1 .. len : t # len => jrnl'.magics[t] = jrnl.magics[t]
      /\ mem[p].commit => Len(jrnl'.magic) = len
      /\ ~mem[p].commit => /\ Len(jrnl'.magic) = len + 1 /\ jrnl'.magic[len + 1] = FALSE
                           /\ jrnl'.magics[len + 1] = {FALSE}
    BY <1>3, HeaderSynced
<1>5. jrnl'.safe = jrnl.safe
    BY <1>3, HeaderKept
<1>6. /\ len \in Nat \ {0} /\ \A t \in 1 .. len : jrnl.magic[t] = TRUE
    <2>1. len \in Nat \ {0} /\ \A t \in 1 .. len : t # len => jrnl.magic[t] = TRUE
        BY <1>3, LastPart, EarlierParts DEF Part
    <2>2. jrnl.magic[len] /\ jrnl.magic[len] \in BOOLEAN
        BY <1>3, LastPart, ElementOfSeq DEF Part, JournalOf
    <2>3. jrnl.magic[len] = TRUE
        BY <2>2, Zenon
    <2> QED
        BY <2>1, <2>3
<1>7. /\ \A t \in 1 .. len - 1 : jrnl.magics[t] = {TRUE}
      /\ \A r \in 1 .. Len(jrnl.recs) : /\ jrnl.recs[r].part \in 1 .. len
                                        /\ jrnl.recs[r].valid
    BY <1>3 DEF JournalOK, JournalOf
<1>8. \A r \in 1 .. Len(jrnl.recs) : r <= jrnl.safe
    BY <1>3, <1>6, <1>7 DEF HeadersKnown
<1> HIDE DEF len
<1>9. \A t \in 1 .. len : jrnl'.magics[t] = {TRUE}
    <2>1. \A t \in 1 .. len : t = len \/ t \in 1 .. len - 1
        BY <1>6
    <2> QED
        BY <1>4, <1>7, <2>1
<1>10. Stored' = Stored
    BY CacheSynced, SameStored
<1>11. Hot(jrnl) /\ dead = {}
    <2>1. 1 \in 1 .. len
        BY <1>6
    <2> QED
        BY <1>2, <1>6, <2>1 DEF Hot, StoreInv, JournalsKnown
<1>12. HeadersKnown(jrnl')
    <2>1. ASSUME NEW t \in 1 .. Len(jrnl'.magic), TRUE \in jrnl'.magics[t]
          PROVE  jrnl'.magic[t] = TRUE
        <3> DEFINE all == Len(jrnl'.magic)
        <3>3. t \in 1 .. all /\ (mem[p].commit => all = len) /\ (~mem[p].commit => all = len + 1)
            BY <1>4
        <3> HIDE DEF all
        <3>1. t \in 1 .. len \/ (~mem[p].commit /\ t = len + 1)
            BY <1>6, <3>3
        <3>2. t \notin 1 .. len => FALSE
            BY <1>4, <2>1, <3>1
        <3> QED
            BY <1>4, <1>6, <3>2
    <2> QED
        BY <1>4, <1>5, <1>8, <2>1 DEF HeadersKnown
<1>13. JournalsKnown'
    BY <1>1, <1>11, <1>12 DEF JournalsKnown
<1>14. Armed'
    <2>1. 1 \in 1 .. len
        BY <1>6
    <2>2. jrnl'.magic[1] = TRUE /\ jrnl'.magics[1] = {TRUE}
        BY <1>4, <1>6, <1>9, <2>1
    <2> QED
        BY <1>1, <1>2, <1>11, <2>2 DEF Armed, Hot
<1>15. ASSUME NEW i \in Pages, i <= jrnl.orig PROVE Backed(i)'
    <2>1. CASE \E r \in 1 .. Len(jrnl.recs) : jrnl.recs[r].page = i
        <3>1. PICK r \in 1 .. Len(jrnl.recs) : jrnl.recs[r].page = i
            BY <2>1
        <3>2. ASSUME NEW q \in 1 .. r
              PROVE  jrnl'.recs[q].valid /\ jrnl'.magic[jrnl'.recs[q].part]
            <4>1. q \in 1 .. Len(jrnl.recs)
                BY <1>3, PlayedFirst
            <4>2. jrnl.recs[q].valid /\ jrnl.recs[q].part \in 1 .. len
                BY <1>7, <4>1
            <4>3. jrnl'.magic[jrnl.recs[q].part] = TRUE
                BY <1>4, <1>6, <4>2
            <4> QED
                BY <1>4, <4>2, <4>3
        <3>3. r \in Played(jrnl')
            BY <1>4, <3>2 DEF Played
        <3>4. jrnl'.recs[r].page = i /\ jrnl'.magics[jrnl'.recs[r].part] = {TRUE}
            BY <1>4, <1>7, <1>9, <3>1
        <3> QED
            BY <3>3, <3>4 DEF Backed
    <2>2. CASE ~\E r \in 1 .. Len(jrnl.recs) : jrnl.recs[r].page = i
        <3>1. dbMaybe[i] = {Stored[i]}
            <4>1. CASE Armed
                <5>1. Backed(i)
                    BY <1>15, <4>1 DEF StoreInv, FilesBacked
                <5> QED
                    BY <2>2, <5>1 DEF Backed, Played
            <4>2. CASE ~Armed
                BY <1>11, <4>2 DEF CacheInv, Disk, Settled, StoreInv, FilesBacked
            <4> QED
                BY <4>1, <4>2
        <3> HIDE DEF Stored
        <3> QED
            BY <1>1, <1>10, <3>1 DEF Backed
    <2> QED
        BY <2>1, <2>2
<1>16. FilesBacked'
    BY <1>4, <1>14, <1>15 DEF FilesBacked
<1>17. AtWork(p)' /\ pc[p] \in Owning
    BY <1>1, <1>2 DEF AtWork, Undoing, Owning, InWrite, InFlush
<1> QED
    BY <1>2, <1>13, <1>16, <1>17, OthersAtWork DEF StoreInv

\* What a power loss leaves of a journal, field by field.
LEMMA RemainderFields ==
    ASSUME NEW n, NEW j \in JournalsOf(n), NEW k \in Remains(j)
    PROVE  /\ k.orig = j.orig /\ Len(k.magic) = Len(j.magic) /\ Len(k.recs) = Len(j.recs)
           /\ k.safe = Len(k.recs)
           /\ \A s \in 1 .. Len(j.magic) : k.magic[s] \in j.magics[s] /\ k.magics[s] = {k.magic[s]}
           /\ \A r \in 1 .. Len(j.recs) :
                  /\ k.recs[r].page = j.recs[r].page /\ k.recs[r].image = j.recs[r].image
                  /\ k.recs[r].part = j.recs[r].part
                  /\ k.recs[r].valid => j.recs[r].valid
                  /\ j.recs[r].valid /\ r <= j.safe => k.recs[r].valid
<1>1. j # None
    BY PagerAssumption DEF JournalsOf
<1>2. PICK magic \in {m \in [DOMAIN j.magic -> BOOLEAN] :
                         \A s \in DOMAIN m : m[s] \in j.magics[s]},
           lost \in SUBSET DOMAIN j.recs :
           k = Remainder(j, magic, lost)
    BY <1>1 DEF Remains
<1> DEFINE len == Len(j.magic)
           magics == [s \in DOMAIN j.magics |-> {magic[s]}]
           recs == [r \in DOMAIN j.recs |-> Survivor(j, r, lost)]
           size == Len(j.recs)
<1>3. k = [j EXCEPT !.magic = magic, !.magics = magics, !.safe = size, !.recs = recs]
    BY <1>2 DEF Remainder
<1>4. /\ j \in Journals /\ size \in Nat /\ DOMAIN j.recs = 1 .. size
      /\ Len(j.magics) = len
      /\ \A r \in 1 .. size : j.recs[r] \in Entries(n)
    BY LenProperties, ElementOfSeq DEF JournalsOf
<1>5. /\ len \in Nat /\ DOMAIN j.magic = 1 .. len /\ DOMAIN j.magics = 1 .. len /\ len # 0
    BY LastPart, LenProperties, EmptySeq DEF JournalsOf, Journals
<1>6. /\ k.recs = recs /\ k.magic = magic /\ k.magics = magics /\ k.orig = j.orig /\ k.safe = size
    <2> HIDE DEF magics, recs, size
    <2> QED
        BY <1>3, <1>4 DEF Journals
<1>7. k \in JournalsOf(n)
    BY RemainingJournal
<1>8. Len(k.magic) = len /\ Len(k.recs) = size
    <2>1. magic \in [1 .. len -> BOOLEAN] /\ DOMAIN recs = 1 .. size
        BY <1>4, <1>5
    <2>2. k.magic \in Seq(BOOLEAN) /\ k.recs \in Seq(Entries(n))
        BY <1>7 DEF JournalsOf, Journals
    <2>3. DOMAIN k.magic = 1 .. len /\ DOMAIN k.recs = 1 .. size
        BY <1>6, <2>1
    <2> HIDE DEF len, size
    <2>4. Len(k.magic) = len
        BY <1>5, <2>2, <2>3, LenProperties
    <2>5. Len(k.recs) = size
        BY <1>4, <2>2, <2>3, LenProperties
    <2> QED
        BY <2>4, <2>5
<1>9. \A s \in 1 .. len : k.magic[s] \in j.magics[s] /\ k.magics[s] = {k.magic[s]}
    BY <1>2, <1>5, <1>6
<1>10. ASSUME NEW r \in 1 .. size
       PROVE  /\ k.recs[r].page = j.recs[r].page /\ k.recs[r].image = j.recs[r].image
              /\ k.recs[r].part = j.recs[r].part
              /\ k.recs[r].valid => j.recs[r].valid
              /\ j.recs[r].valid /\ r <= j.safe => k.recs[r].valid
    <2> DEFINE e == j.recs[r]
               sound == e.valid /\ (r <= j.safe \/ r \notin lost)
    <2>1. k.recs[r] = [e EXCEPT !.valid = sound] /\ e \in Entries(n)
        BY <1>4, <1>6 DEF Survivor, Entries
    <2> HIDE DEF e, sound
    <2>2. /\ k.recs[r].page = e.page /\ k.recs[r].image = e.image /\ k.recs[r].part = e.part
          /\ k.recs[r].valid = sound
        BY <2>1 DEF Entries
    <2> QED
        BY <2>2 DEF e, sound
<1> QED
    BY <1>6, <1>8, <1>9, <1>10

\* What is left is certain; it is played back no further than the journal itself, and
\* as far as a record whose part has its header on the disk.
LEMMA RemainderPlayed ==
    ASSUME NEW n, NEW j \in JournalsOf(n), NEW k \in Remains(j), JournalOK(j), HeadersKnown(j)
    PROVE  /\ k \in JournalsOf(n) /\ k # None /\ JournalOK(k) /\ HeadersKnown(k)
           /\ k.orig = j.orig /\ k.magics[1] = {k.magic[1]}
           /\ Hot(k) => Hot(j)
           /\ Played(k) \subseteq Played(j)
           /\ \A r \in Played(j) :
                  /\ k.recs[r].page = j.recs[r].page /\ k.recs[r].image = j.recs[r].image
                  /\ k.recs[r].part = j.recs[r].part
                  /\ j.magics[j.recs[r].part] = {TRUE} => r \in Played(k)
           /\ \A r \in Played(k) : k.magics[k.recs[r].part] = {TRUE}
           /\ Certain(j) => Played(k) = Played(j) /\ (Hot(j) => Hot(k))
<1> DEFINE len == Len(j.magic)
           size == Len(j.recs)
<1>1. /\ k.orig = j.orig /\ Len(k.magic) = len /\ Len(k.recs) = size /\ k.safe = size
      /\ \A s \in 1 .. len : k.magic[s] \in j.magics[s] /\ k.magics[s] = {k.magic[s]}
      /\ \A r \in 1 .. size :
             /\ k.recs[r].page = j.recs[r].page /\ k.recs[r].image = j.recs[r].image
             /\ k.recs[r].part = j.recs[r].part
             /\ k.recs[r].valid => j.recs[r].valid
             /\ j.recs[r].valid /\ r <= j.safe => k.recs[r].valid
    BY RemainderFields
<1>2. /\ k \in JournalsOf(n) /\ k # None /\ JournalOK(k) /\ k.magics[1] = {k.magic[1]}
      /\ 1 \in 1 .. len
    BY RemainingJournal, RemainderOK
<1>3. /\ size \in Nat /\ j # None
      /\ \A r \in 1 .. size : j.recs[r].part \in 1 .. len
      /\ \A q, r \in 1 .. size : q <= r => j.recs[q].part <= j.recs[r].part
      /\ \A s \in 1 .. len - 1 : j.magics[s] = {TRUE}
      /\ \A s \in 1 .. len : TRUE \in j.magics[s] => j.magic[s] = TRUE
      /\ \A r \in 1 .. size : j.magic[j.recs[r].part] = TRUE => r <= j.safe
      /\ len \in Nat \ {0}
    BY PlayedFirst, LastPart, PagerAssumption DEF JournalOK, HeadersKnown, JournalsOf, Part
<1>4. \A s \in 1 .. len : j.magic[s] \in BOOLEAN /\ k.magic[s] \in BOOLEAN
    <2>1. \A m \in JournalsOf(n) : \A s \in 1 .. Len(m.magic) : m.magic[s] \in BOOLEAN
        <3> TAKE m \in JournalsOf(n)
        <3>1. m.magic \in Seq(BOOLEAN) /\ DOMAIN m.magic = 1 .. Len(m.magic)
            BY LenProperties DEF JournalsOf, Journals
        <3> QED
            BY <3>1, ElementOfSeq
    <2> QED
        BY <1>1, <1>2, <2>1
<1> HIDE DEF len, size
<1>5. \A s \in 1 .. len : k.magic[s] => k.magic[s] = TRUE /\ j.magic[s] = TRUE
    <2> SUFFICES ASSUME NEW s \in 1 .. len, k.magic[s]
                 PROVE  k.magic[s] = TRUE /\ j.magic[s] = TRUE
        OBVIOUS
    <2>1. k.magic[s] = TRUE
        BY <1>4, Zenon
    <2>2. TRUE \in j.magics[s]
        BY <1>1, <2>1, Zenon
    <2> QED
        BY <1>3, <2>1, <2>2
<1>6. Hot(k) => Hot(j)
    BY <1>2, <1>3, <1>5 DEF Hot
<1>7. HeadersKnown(k)
    <2>1. \A s \in 1 .. len : TRUE \in k.magics[s] => k.magic[s] = TRUE
        BY <1>1
    <2>2. \A r \in 1 .. size : r <= k.safe
        BY <1>1, <1>3
    <2> QED
        BY <1>1, <2>1, <2>2 DEF HeadersKnown
<1>8. ASSUME NEW r \in Played(k) PROVE r \in Played(j) /\ k.magics[k.recs[r].part] = {TRUE}
    <2>1. r \in 1 .. size /\ \A q \in 1 .. r : k.recs[q].valid /\ k.magic[k.recs[q].part]
        BY <1>1 DEF Played
    <2>2. ASSUME NEW q \in 1 .. r
          PROVE  /\ j.recs[q].valid /\ j.magic[j.recs[q].part]
                 /\ k.magic[k.recs[q].part] = TRUE /\ k.recs[q].part \in 1 .. len
        <3>1. q \in 1 .. size
            BY <1>3, <2>1
        <3> QED
            BY <1>1, <1>3, <1>5, <2>1, <3>1
    <2>3. r \in Played(j)
        BY <2>1, <2>2 DEF Played, size
    <2>4. r \in 1 .. r
        BY <1>3, <2>1
    <2>5. k.magics[k.recs[r].part] = {k.magic[k.recs[r].part]}
        BY <1>1, <2>2, <2>4
    <2> QED
        BY <2>2, <2>3, <2>4, <2>5
<1>9. ASSUME NEW r \in Played(j),
             \A q \in 1 .. r : j.magics[j.recs[q].part] = {TRUE}
      PROVE  r \in Played(k)
    <2>1. r \in 1 .. size /\ \A q \in 1 .. r : j.recs[q].valid
        BY DEF Played, size
    <2>2. ASSUME NEW q \in 1 .. r PROVE k.recs[q].valid /\ k.magic[k.recs[q].part]
        <3>1. q \in 1 .. size /\ j.recs[q].part \in 1 .. len
            BY <1>3, <2>1
        <3>2. j.magics[j.recs[q].part] = {TRUE}
            BY <1>9
        <3>3. j.magic[j.recs[q].part] = TRUE
            BY <1>3, <3>1, <3>2
        <3>4. k.magic[j.recs[q].part] = TRUE
            BY <1>1, <3>1, <3>2
        <3>5. k.recs[q].valid
            BY <1>1, <1>3, <2>1, <3>1, <3>3
        <3> QED
            BY <1>1, <3>1, <3>4, <3>5
    <2> QED
        BY <1>1, <2>1, <2>2 DEF Played
<1>10. ASSUME NEW r \in Played(j), j.magics[j.recs[r].part] = {TRUE}
       PROVE  r \in Played(k)
    <2>1. r \in 1 .. size
        BY DEF Played, size
    <2>2. ASSUME NEW q \in 1 .. r PROVE j.magics[j.recs[q].part] = {TRUE}
        <3>1. q \in 1 .. size /\ q <= r
            BY <1>3, <2>1
        <3>2. /\ j.recs[q].part <= j.recs[r].part /\ j.recs[q].part \in 1 .. len
              /\ j.recs[r].part \in 1 .. len
            BY <1>3, <2>1, <3>1
        <3>3. j.recs[q].part = j.recs[r].part \/ j.recs[q].part \in 1 .. len - 1
            BY <1>3, <3>2
        <3> QED
            BY <1>3, <1>10, <3>3
    <2> QED
        BY <1>9, <2>2
<1>11. ASSUME Certain(j) PROVE Played(j) \subseteq Played(k) /\ (Hot(j) => Hot(k))
    <2>1. \A s \in 1 .. len : j.magics[s] = {j.magic[s]} /\ k.magic[s] = j.magic[s]
        BY <1>1, <1>11 DEF Certain, len
    <2>2. Hot(j) => Hot(k)
        BY <1>2, <2>1 DEF Hot
    <2>3. ASSUME NEW r \in Played(j) PROVE j.magics[j.recs[r].part] = {TRUE}
        BY <2>1, PlayedHeader DEF len
    <2> QED
        BY <1>10, <2>2, <2>3
<1>12. ASSUME NEW r \in Played(j)
       PROVE  /\ k.recs[r].page = j.recs[r].page /\ k.recs[r].image = j.recs[r].image
              /\ k.recs[r].part = j.recs[r].part
    <2>1. r \in 1 .. size
        BY DEF Played, size
    <2> QED
        BY <1>1, <2>1
<1> QED
    BY <1>1, <1>2, <1>6, <1>7, <1>8, <1>10, <1>11, <1>12

\* After a power loss the database is what it was, or what a journal brings back whose
\* deletion is not on the disk.
LEMMA PowerBrings ==
    ASSUME PagerInv, CacheInv, PagerInv', CacheInv', StoreInv, PowerLoss
    PROVE  /\ StoreInv'
           /\ Stored' = Stored \/ \E j \in dead : Stored' = Recovered(db, j)
<1>1. \A i \in Pages : db'[i] \in dbMaybe[i] /\ dbMaybe'[i] = {db'[i]}
    <2>1. PICK image \in [Pages -> UNION {dbMaybe[i] : i \in Pages}] :
              /\ \A i \in Pages : image[i] \in dbMaybe[i]
              /\ db' = image
              /\ dbMaybe' = [i \in Pages |-> {image[i]}]
        BY DEF PowerLoss
    <2> QED
        BY <2>1
<1>2. /\ dead' = {} /\ tx' = tx /\ \A q \in Handles : pc'[q] = "open"
    BY DEF PowerLoss
<1>3. PICK j \in dead \cup {jrnl} : jrnl' \in Remains(j)
    BY DEF PowerLoss
<1>4. ASSUME j # None
      PROVE  /\ jrnl \in JournalsOf(tx) \cup {None}
             /\ j \in JournalsOf(tx) /\ JournalOK(j) /\ HeadersKnown(j)
             /\ jrnl' \in JournalsOf(tx) /\ jrnl' # None /\ JournalOK(jrnl') /\ HeadersKnown(jrnl')
             /\ jrnl'.orig = j.orig /\ jrnl'.magics[1] = {jrnl'.magic[1]}
             /\ Hot(jrnl') => Hot(j)
             /\ Played(jrnl') \subseteq Played(j)
             /\ \A r \in Played(j) :
                    /\ jrnl'.recs[r].page = j.recs[r].page
                    /\ jrnl'.recs[r].image = j.recs[r].image
                    /\ jrnl'.recs[r].part = j.recs[r].part
                    /\ j.magics[j.recs[r].part] = {TRUE} => r \in Played(jrnl')
             /\ \A r \in Played(jrnl') : jrnl'.magics[jrnl'.recs[r].part] = {TRUE}
             /\ Certain(j) => Played(jrnl') = Played(j) /\ (Hot(j) => Hot(jrnl'))
    <2>1. /\ jrnl \in JournalsOf(tx) \cup {None}
          /\ j \in JournalsOf(tx) /\ JournalOK(j) /\ HeadersKnown(j)
        BY <1>3, <1>4 DEF PagerInv, Values, CacheInv, Disk, StoreInv, JournalsKnown
    <2> DEFINE k == jrnl'
    <2>2. k \in Remains(j)
        BY <1>3
    <2> HIDE DEF k
    <2>3. /\ k \in JournalsOf(tx) /\ k # None /\ JournalOK(k) /\ HeadersKnown(k)
          /\ k.orig = j.orig /\ k.magics[1] = {k.magic[1]}
          /\ Hot(k) => Hot(j)
          /\ Played(k) \subseteq Played(j)
          /\ \A r \in Played(j) :
                 /\ k.recs[r].page = j.recs[r].page /\ k.recs[r].image = j.recs[r].image
                 /\ k.recs[r].part = j.recs[r].part
                 /\ j.magics[j.recs[r].part] = {TRUE} => r \in Played(k)
          /\ \A r \in Played(k) : k.magics[k.recs[r].part] = {TRUE}
          /\ Certain(j) => Played(k) = Played(j) /\ (Hot(j) => Hot(k))
        BY <2>1, <2>2, RemainderPlayed
    <2> QED
        BY <2>1, <2>3 DEF k
<1>5. Stored \in Image /\ Stored' \in Image /\ db \in Image /\ db' \in Image
    <2>1. Stored' \in Image
        BY RecoveredImage DEF PagerInv, Values, Stored
    <2> QED
        BY <2>1, StoredImage DEF PagerInv, Values
<1>6. j = None => jrnl' = None /\ ~Hot(jrnl')
    BY <1>3 DEF Remains, Hot
<1>7. JournalsKnown'
    BY <1>2, <1>4, <1>6 DEF JournalsKnown
<1>8. Hot(jrnl') => Armed'
    <2> SUFFICES ASSUME Hot(jrnl') PROVE Armed'
        OBVIOUS
    <2>1. j # None
        BY <1>6
    <2>2. jrnl'.magics[1] = {jrnl'.magic[1]} /\ jrnl'.magic[1] /\ jrnl' \in JournalsOf(tx)
        BY <1>4, <2>1 DEF Hot
    <2>3. jrnl'.magic[1] \in BOOLEAN
        <3>1. jrnl'.magic \in Seq(BOOLEAN) /\ 1 \in 1 .. Len(jrnl'.magic)
            BY <2>2, LastPart DEF JournalsOf, Journals, Part
        <3>2. 1 \in DOMAIN jrnl'.magic
            BY <3>1, LenProperties
        <3> QED
            BY <3>1, <3>2, ElementOfSeq
    <2>4. jrnl'.magic[1] = TRUE
        BY <2>2, <2>3, Zenon
    <2> QED
        BY <1>2, <2>2, <2>4 DEF Armed
<1>9. ASSUME Hot(jrnl')
      PROVE  /\ j # None
             /\ \A i \in Pages : i > j.orig => Stored'[i] = None
             /\ \A r \in Played(jrnl') :
                    /\ r \in Played(j) /\ j.recs[r].page \in Pages /\ j.recs[r].page <= j.orig
                    /\ Stored'[j.recs[r].page] = j.recs[r].image
             /\ \A i \in Pages :
                    i <= j.orig /\ (\A r \in Played(jrnl') : j.recs[r].page # i)
                    => Stored'[i] = db'[i]
    <2>1. j # None
        BY <1>6, <1>9
    <2> DEFINE k == jrnl'
    <2>2. k \in JournalsOf(tx) /\ JournalOK(k) /\ Hot(k)
        BY <1>4, <1>9, <2>1
    <2>3. /\ \A i \in Pages : i > k.orig => Recovered(db', k)[i] = None
          /\ \A r \in Played(k) :
                 /\ k.recs[r].page \in Pages /\ k.recs[r].page <= k.orig
                 /\ Recovered(db', k)[k.recs[r].page] = k.recs[r].image
          /\ \A i \in Pages :
                 i <= k.orig /\ (\A r \in Played(k) : k.recs[r].page # i)
                 => Recovered(db', k)[i] = db'[i]
        <3> DEFINE f == db'
        <3> HIDE DEF k, f
        <3>1. /\ \A i \in Pages : i > k.orig => Recovered(f, k)[i] = None
              /\ \A r \in Played(k) :
                     /\ k.recs[r].page \in Pages /\ k.recs[r].page <= k.orig
                     /\ Recovered(f, k)[k.recs[r].page] = k.recs[r].image
              /\ \A i \in Pages :
                     i <= k.orig /\ (\A r \in Played(k) : k.recs[r].page # i)
                     => Recovered(f, k)[i] = f[i]
            BY <2>2, RecoveredPages
        <3> QED
            BY <3>1 DEF f
    <2>4. Stored' = Recovered(db', k)
        BY DEF Stored
    <2> HIDE DEF Stored
    <2> QED
        BY <1>4, <2>1, <2>3, <2>4
<1>10. FilesBacked'
    <2>1. ASSUME Hot(jrnl'), NEW i \in Pages, i <= jrnl'.orig PROVE Backed(i)'
        <3>1. CASE \E r \in Played(jrnl') : j.recs[r].page = i
            <4>1. PICK r \in Played(jrnl') : j.recs[r].page = i
                BY <3>1
            <4>2. jrnl'.recs[r].page = i /\ jrnl'.magics[jrnl'.recs[r].part] = {TRUE}
                BY <1>4, <1>9, <2>1, <4>1
            <4> QED
                BY <4>2 DEF Backed
        <3>2. CASE \A r \in Played(jrnl') : j.recs[r].page # i
            <4>1. Stored'[i] = db'[i]
                BY <1>4, <1>9, <2>1, <3>2
            <4>2. dbMaybe'[i] = {Stored'[i]}
                BY <1>1, <4>1
            <4> QED
                BY <4>2 DEF Backed
        <3> QED
            BY <3>1, <3>2
    <2>2. Armed' => Hot(jrnl')
        BY DEF Armed
    <2> QED
        BY <1>8, <2>1, <2>2 DEF FilesBacked
<1>11. StoreInv'
    BY <1>2, <1>7, <1>10 DEF StoreInv, AtWork, Undoing
<1>12. ASSUME Settled PROVE db' = db
    BY <1>1, <1>5, <1>12, SameImage DEF Settled
<1>13. ~Hot(jrnl') => Stored' = db'
    BY DEF Stored, Recovered
<1>14. CASE j \in dead
    <2>1. ~Hot(jrnl) /\ ~Armed /\ j # None /\ Certain(j)
        BY <1>14, PagerAssumption
           DEF StoreInv, JournalsKnown, Armed, PagerInv, Values, JournalsOf
    <2>2. db' = db
        BY <1>12, <2>1 DEF CacheInv, Disk
    <2>3. Played(jrnl') = Played(j) /\ (Hot(j) <=> Hot(jrnl'))
        BY <1>4, <2>1
    <2>4. Recovered(db, j) \in Image
        BY <1>4, <1>5, <2>1, RecoveredImage
    <2>5. CASE ~Hot(j)
        <3>1. Recovered(db, j) = db
            BY <2>5 DEF Recovered
        <3> QED
            BY <1>11, <1>13, <1>14, <2>2, <2>3, <2>5, <3>1
    <2>6. CASE Hot(j)
        <3>1. \A i \in Pages : Stored'[i] = Recovered(db, j)[i]
            <4>1. ASSUME NEW i \in Pages PROVE Stored'[i] = Recovered(db, j)[i]
                <5>1. /\ i > j.orig => Recovered(db, j)[i] = None
                      /\ \A r \in Played(j) :
                             Recovered(db, j)[j.recs[r].page] = j.recs[r].image
                      /\ i <= j.orig /\ (\A r \in Played(j) : j.recs[r].page # i)
                         => Recovered(db, j)[i] = db[i]
                    BY <1>4, <2>1, <2>6, RecoveredPages
                <5>2. i > j.orig \/ i <= j.orig
                    BY <1>4, <2>1, PagerAssumption DEF JournalsOf, Journals, Pages
                <5> HIDE DEF Stored
                <5> QED
                    BY <1>9, <2>2, <2>3, <2>6, <5>1, <5>2
            <4> QED
                BY <4>1
        <3>2. Stored' = Recovered(db, j)
            <4> HIDE DEF Stored
            <4> QED
                BY <1>5, <2>4, <3>1, SameImage
        <3> QED
            BY <1>11, <1>14, <3>2
    <2> QED
        BY <2>5, <2>6
<1>15. CASE j = jrnl
    <2>1. CASE ~Hot(jrnl')
        <3>1. ~Armed
            <4>1. ASSUME Armed PROVE FALSE
                <5>1. j # None /\ j.magics[1] = {TRUE}
                    BY <1>15, <4>1 DEF Armed, Hot
                <5>2. jrnl'.magic[1] \in j.magics[1] /\ jrnl' # None
                    BY <1>3, <1>4, <5>1, RemainderOK
                <5>3. jrnl'.magic[1] = TRUE
                    BY <5>1, <5>2
                <5> QED
                    BY <2>1, <5>2, <5>3 DEF Hot
            <4> QED
                BY <4>1
        <3>2. db' = db
            BY <1>12, <3>1 DEF CacheInv, Disk
        <3>3. Stored = db
            <4>1. CASE Hot(jrnl)
                <5>1. \A i \in Pages : db[i] = Stored[i]
                    BY <3>1, <4>1 DEF StoreInv, FilesBacked
                <5> HIDE DEF Stored
                <5> QED
                    BY <1>5, <5>1, SameImage
            <4>2. CASE ~Hot(jrnl)
                BY <4>2, ColdStored
            <4> QED
                BY <4>1, <4>2
        <3> QED
            BY <1>11, <1>13, <2>1, <3>2, <3>3
    <2>2. CASE Hot(jrnl')
        <3>1. Hot(jrnl) /\ j # None /\ jrnl \in JournalsOf(tx) /\ JournalOK(jrnl)
            BY <1>4, <1>9, <1>15, <2>2
        <3>2. /\ \A i \in Pages : i > jrnl.orig => Stored[i] = None
              /\ \A r \in Played(jrnl) : Stored[jrnl.recs[r].page] = jrnl.recs[r].image
            BY <3>1, RecoveredPages DEF Stored
        <3>3. ASSUME NEW i \in Pages, i <= jrnl.orig,
                     \A r \in Played(jrnl') : jrnl.recs[r].page # i
              PROVE  db'[i] = Stored[i]
            <4>1. CASE Armed
                <5>1. Backed(i)
                    BY <3>3, <4>1 DEF StoreInv, FilesBacked
                <5>2. \A r \in Played(jrnl) : jrnl.recs[r].page = i =>
                          jrnl.magics[jrnl.recs[r].part] # {TRUE}
                    BY <1>4, <1>15, <3>1, <3>3
                <5> HIDE DEF Stored
                <5>3. dbMaybe[i] = {Stored[i]}
                    BY <5>1, <5>2 DEF Backed
                <5> QED
                    BY <1>1, <5>3
            <4>2. CASE ~Armed
                <5>1. db[i] = Stored[i] /\ dbMaybe[i] = {db[i]}
                    BY <3>1, <4>2 DEF StoreInv, FilesBacked, CacheInv, Disk, Settled
                <5> HIDE DEF Stored
                <5> QED
                    BY <1>1, <5>1
            <4> QED
                BY <4>1, <4>2
        <3>4. \A i \in Pages : Stored'[i] = Stored[i]
            <4>1. ASSUME NEW i \in Pages PROVE Stored'[i] = Stored[i]
                <5>1. i > jrnl.orig \/ i <= jrnl.orig
                    BY <3>1, PagerAssumption DEF JournalsOf, Journals, Pages
                <5> HIDE DEF Stored
                <5> QED
                    BY <1>9, <1>15, <2>2, <3>2, <3>3, <5>1
            <4> QED
                BY <4>1
        <3>5. Stored' = Stored
            <4> HIDE DEF Stored
            <4> QED
                BY <1>5, <3>4, SameImage
        <3> QED
            BY <1>11, <3>5
    <2> QED
        BY <2>1, <2>2
<1> QED
    BY <1>3, <1>14, <1>15

\* Most steps of a pager leave the files as they are.
LEMMA StoreRests ==
    ASSUME PagerInv, StoreInv, NEW p \in Handles,
           \/ LockShared(p) \/ CheckExists(p) \/ CheckReserved(p) \/ CheckFirstByte(p)
           \/ LockHot(p) \/ BusyHot(p) \/ Validate(p) \/ EndRead(p) \/ BeginWrite(p)
           \/ BeginSync(p) \/ BusySync(p) \/ UnlockDb(p) \/ Die(p)
           \/ \E i \in Pages : ReadPage(p, i) \/ Evict(p, i)
    PROVE  StoreInv'
<1>1. CASE \/ LockShared(p) \/ CheckExists(p) \/ CheckReserved(p) \/ CheckFirstByte(p)
           \/ LockHot(p) \/ BusyHot(p) \/ Validate(p) \/ EndRead(p)
    <2>1. Kept(p)
        <3>1. CASE \/ LockShared(p) \/ CheckExists(p) \/ CheckReserved(p) \/ CheckFirstByte(p)
                   \/ LockHot(p) \/ BusyHot(p) \/ EndRead(p)
            BY <3>1, Locking
               DEF PagerInv, LockInv, Kept, LockShared, CheckExists, CheckReserved,
                   CheckFirstByte, LockHot, BusyHot, EndRead, Goto, lockVars
        <3>2. CASE Validate(p)
            BY <3>2 DEF PagerInv, Values, Kept, Validate, Goto, Fields, lockVars
        <3> QED
            BY <1>1, <3>1, <3>2
    <2>2. UNCHANGED files
        BY <1>1 DEF LockShared, CheckExists, CheckReserved, CheckFirstByte, LockHot, BusyHot,
                    Validate, EndRead
    <2>3. pc'[p] \notin Undoing \cup {"header"}
        BY <1>1 DEF PagerInv, LockShared, CheckExists, CheckReserved, CheckFirstByte, LockHot,
                    BusyHot, Validate, EndRead, Goto, Undoing
    <2> QED
        BY <2>1, <2>2, <2>3, StoreQuiet
<1>2. CASE BeginWrite(p) \/ BeginSync(p) \/ BusySync(p) \/ UnlockDb(p)
    <2>1. Kept(p)
        <3>1. CASE BeginWrite(p)
            BY <3>1, Locking DEF PagerInv, LockInv, Values, Kept, BeginWrite, Goto, Fields
        <3>2. CASE BeginSync(p) \/ BusySync(p)
            BY <3>2, Locking DEF PagerInv, LockInv, Kept, BeginSync, BusySync, Goto, lockVars
        <3>3. CASE UnlockDb(p)
            BY <3>3, Locking DEF PagerInv, LockInv, Values, Kept, UnlockDb, Goto
        <3> QED
            BY <1>2, <3>1, <3>2, <3>3
    <2>2. UNCHANGED files
        BY <1>2 DEF BeginWrite, BeginSync, BusySync, UnlockDb
    <2>3. pc'[p] = pc[p] \/ pc'[p] \notin Undoing \cup {"header"}
        BY <1>2 DEF PagerInv, BeginWrite, BeginSync, BusySync, UnlockDb, Goto, Undoing
    <2> QED
        BY <2>1, <2>2, <2>3, StoreQuiet
<1>3. ASSUME NEW i \in Pages, ReadPage(p, i) \/ Evict(p, i) PROVE StoreInv'
    <2>1. Kept(p) /\ UNCHANGED files /\ pc'[p] = pc[p]
        BY <1>3 DEF PagerInv, Values, Kept, ReadPage, Evict, Fields, lockVars
    <2> QED
        BY <2>1, StoreQuiet
<1>4. CASE Die(p)
    BY <1>4, Deaths, FilesRest DEF Undoing
<1> QED
    BY <1>1, <1>2, <1>3, <1>4

LEMMA StoreStutters == ASSUME StoreInv, UNCHANGED vars PROVE StoreInv'
BY DEF StoreInv, vars, files, JournalsKnown, FilesBacked, AtWork, Armed, Backed, Stored, Certain

LEMMA StoreAtFirst == Init => StoreInv
BY DEF Init, StoreInv, JournalsKnown, FilesBacked, AtWork, Undoing, Armed, Hot

LEMMA StoreSteps ==
    ASSUME PagerInv, PagerInv', CacheInv, CacheInv', StoreInv, [Next]_vars
    PROVE  StoreInv'
<1>1. ASSUME NEW p \in Handles,
             \/ LockShared(p) \/ CheckExists(p) \/ CheckReserved(p) \/ CheckFirstByte(p)
             \/ LockHot(p) \/ BusyHot(p) \/ Validate(p) \/ EndRead(p) \/ BeginWrite(p)
             \/ BeginSync(p) \/ BusySync(p) \/ UnlockDb(p) \/ Die(p)
             \/ \E i \in Pages : ReadPage(p, i) \/ Evict(p, i)
      PROVE  StoreInv'
    BY <1>1, StoreRests
<1>2. ASSUME NEW p \in Handles, \/ Recover(p) \/ PlayBack(p) \/ EndPlayBack(p)
                               \/ CommitPhaseOne(p) \/ SyncRecords(p) \/ WriteHeader(p)
      PROVE  StoreInv'
    BY <1>2, StoreRecovers, StorePlaysBack, StoreSynced, StoreCommits, StoreRecords, StoreHeader
<1>3. ASSUME NEW p \in Handles, \/ SyncHeader(p) \/ SyncStored(p) \/ EndTransaction(p)
                               \/ Rollback(p)
      PROVE  StoreInv'
    BY <1>3, StoreCounts, StoreSynced, StoreEnds, StoreRollsBack
<1>4. ASSUME NEW p \in Handles, NEW i \in Pages, WritePage(p, i) \/ StorePage(p, i)
      PROVE  StoreInv'
    BY <1>4, StoreWrites, StoreStores
<1>5. CASE PowerLoss
    BY <1>5, PowerBrings
<1>6. CASE UNCHANGED vars
    BY <1>6, StoreStutters
<1> QED
    BY <1>1, <1>2, <1>3, <1>4, <1>5, <1>6 DEF Next

LEMMA StoreInvariant ==
    ASSUME NoRace
    PROVE  Spec => []StoreInv
<1>1. PagerInv /\ PagerInv' /\ CacheInv /\ CacheInv' /\ StoreInv /\ [Next]_vars => StoreInv'
    BY StoreSteps
<1>2. Spec => []CacheInv
    BY CacheInvariant
<1> QED
    BY <1>1, <1>2, StoreAtFirst, PagerInvariant, PTL DEF Spec

----------------------------------------------------------------------------
(* Atomic transactions: what each step does to the store *)

\* Between transactions, and after a rollback, a pager sees what is stored.
SeesStored(s) == s \in {"reader", "locked", "leave"} \cup InRollback

ReadersSee == \A p \in Handles : SeesStored(pc[p]) => View(p) = Stored

LEMMA StoredIsSeen == PagerInv /\ CacheInv => ReadersSee
<1> SUFFICES ASSUME PagerInv, CacheInv, NEW p \in Handles, SeesStored(pc[p])
             PROVE  View(p) = Stored
    BY DEF ReadersSee
<1>1. CASE pc[p] \in InRollback
    BY <1>1 DEF View, InRollback, InWrite, InFlush
<1>2. CASE pc[p] \in {"reader", "locked", "leave"}
    <2>1. View(p) = Reads(p)
        BY <1>2 DEF View, InWrite
    <2>2. Stored = db
        BY <1>2, ColdStored DEF CacheInv, Guarded, NeverHot
    <2>3. ASSUME NEW i \in Pages PROVE Reads(p)[i] = db[i]
        <3>1. Fresh(pc[p], mem[p], Stored) /\ pc[p] \notin Active
            BY <1>2 DEF CacheInv, Active, InWrite, InFlush
        <3>2. mem[p].cache[i] \in {None, db[i]}
            BY <1>2, <2>2, <3>1 DEF Fresh
        <3> QED
            BY <3>2 DEF Reads, Original
    <2>4. Reads(p) \in [Pages -> {Reads(p)[i] : i \in Pages}] /\ DOMAIN db = Pages
        BY DEF Reads, PagerInv, Values, Image
    <2>5. Reads(p) = [i \in Pages |-> Reads(p)[i]] /\ db = [i \in Pages |-> db[i]]
        BY DEF Reads, PagerInv, Values, Image
    <2>6. Reads(p) = db
        <3> HIDE DEF Reads
        <3> QED
            BY <2>3, <2>5
    <2> QED
        BY <2>1, <2>2, <2>6
<1> QED
    BY <1>1, <1>2 DEF SeesStored

\* The same in the next state.
LEMMA StoredStaysSeen == PagerInv' /\ CacheInv' => ReadersSee'
BY StoredIsSeen, PTL

LEMMA NoneIsNoImage == None \notin Image
BY PagerAssumption

ReadsAreImages == \A p \in Handles : Reads(p) \in Image

LEMMA ReadsImage == PagerInv => ReadsAreImages
<1> SUFFICES ASSUME PagerInv, NEW p \in Handles PROVE Reads(p) \in Image
    BY DEF ReadsAreImages
<1>1. /\ db \in [Pages -> 0 .. MaxTx \cup {None}]
      /\ mem[p].cache \in [Pages -> 0 .. MaxTx \cup {None}]
    BY DEF PagerInv, Values, PagerFields, Fields0, Image
<1> QED
    BY <1>1 DEF Reads, Original, Image

LEMMA ReadsStayImages == PagerInv' => ReadsAreImages'
BY ReadsImage, PTL

LEMMA ViewImage ==
    ASSUME PagerInv, NEW p \in Handles
    PROVE  /\ View(p) = None \/ View(p) \in Image
           /\ View(p) # None <=> pc[p] \in InTransaction \cup {"reader"}
<1>1. Stored \in Image /\ Reads(p) \in Image
    BY StoredImage, ReadsImage DEF ReadsAreImages
<1>2. View(p) = IF pc[p] \in InWrite \cup {"reader", "leave"} THEN Reads(p)
                ELSE IF pc[p] \in InRollback THEN Stored ELSE None
    BY DEF View
<1> HIDE DEF Stored, Reads, View
<1> QED
    BY <1>1, <1>2, NoneIsNoImage DEF InTransaction

\* What the others see does not depend on a step of p: only who has EXCLUSIVE writes.
LEMMA SameViews ==
    ASSUME PagerInv, NEW p \in Handles, Kept(p), db' = db \/ level[p] = Exclusive,
           Stored' = Stored
    PROVE  Views' = [Views EXCEPT ![p] = View(p)']
<1>1. ASSUME NEW q \in Handles, q # p PROVE View(q)' = View(q)
    <2>1. pc'[q] = pc[q] /\ mem'[q] = mem[q]
        BY <1>1 DEF Kept
    <2>2. CASE db' = db
        <3>1. Reads(q)' = Reads(q)
            BY <2>1, <2>2 DEF Reads, Original
        <3> HIDE DEF Stored, Reads
        <3> QED
            BY <2>1, <3>1 DEF View
    <2>3. CASE level[p] = Exclusive
        <3>1. pc[q] = "open"
            BY <1>1, <2>3, OthersOpen
        <3> QED
            BY <2>1, <3>1 DEF View, InWrite, InFlush, InRollback
    <2> QED
        BY <2>2, <2>3
<1>2. Views' = [q \in Handles |-> View(q)'] /\ Views = [q \in Handles |-> View(q)]
    BY DEF Views
<1> HIDE DEF View, Views
<1>3. \A q \in Handles : Views'[q] = [Views EXCEPT ![p] = View(p)'][q]
    BY <1>1, <1>2
<1> QED
    BY <1>2, <1>3

LEMMA Undisturbed ==
    ASSUME StoreInv, dead' = dead, db' = db \/ Hot(jrnl), Stored' = Stored
    PROVE  Previous' = Previous
<1>1. db' = db \/ dead = {}
    BY DEF StoreInv, JournalsKnown
<1> HIDE DEF Stored
<1>2. Undone' = Undone
    BY <1>1 DEF Undone
<1> QED
    BY <1>2 DEF Previous

\* Once the deletion of a journal is on the disk nothing brings it back.
LEMMA Secured == ASSUME dead' = {} PROVE Previous' = Stored'
BY DEF Previous, Undone

\* A step that changes nothing but what p sees.
LEMMA NewView ==
    ASSUME PagerInv, StoreInv, NEW p \in Handles, Kept(p), dead' = dead, Stored' = Stored,
           db' = db \/ (Hot(jrnl) /\ level[p] = Exclusive)
    PROVE  /\ Previous' = Previous
           /\ Views' = [Views EXCEPT ![p] = View(p)']
<1>1. Previous' = Previous
    <2> HIDE DEF Stored, Previous
    <2> QED
        BY Undisturbed
<1>2. Views' = [Views EXCEPT ![p] = View(p)']
    <2> HIDE DEF Stored, Views
    <2> QED
        BY SameViews
<1> QED
    BY <1>1, <1>2

\* A step after which p sees what it saw.
LEMMA NothingSeen ==
    ASSUME PagerInv, StoreInv, NEW p \in Handles, Kept(p), dead' = dead, Stored' = Stored,
           db' = db \/ (Hot(jrnl) /\ level[p] = Exclusive), View(p)' = View(p)
    PROVE  UNCHANGED Promise!storeVars
<1> DEFINE v == View(p)'
<1>1. Previous' = Previous /\ Views' = [Views EXCEPT ![p] = v]
    BY NewView
<1>2. Views = [q \in Handles |-> View(q)] /\ v = View(p)
    BY DEF Views
<1> HIDE DEF v, View, Views
<1>3. Views' = Views
    BY <1>1, <1>2
<1> HIDE DEF Stored, Previous
<1> QED
    BY <1>1, <1>3 DEF Promise!storeVars

\* A step of the store, or none.
StoreStep == [Promise!StoreNext]_(Promise!storeVars)

Reading(s) == s \in InWrite \cup {"reader", "leave"}

LEMMA ReadsOn ==
    ASSUME PagerInv, StoreInv, NEW p \in Handles, Kept(p), dead' = dead, db' = db,
           Stored' = Stored,
           \/ pc[p] \notin InTransaction \cup {"reader"}
              /\ pc'[p] \notin InTransaction \cup {"reader"}
           \/ Reading(pc[p]) /\ Reading(pc'[p]) /\ Reads(p)' = Reads(p)
    PROVE  StoreStep
<1>1. View(p)' = View(p)
    <2>1. View(p) = IF Reading(pc[p]) THEN Reads(p)
                    ELSE IF pc[p] \in InRollback THEN Stored ELSE None
        BY DEF View, Reading
    <2>2. View(p)' = IF Reading(pc'[p]) THEN Reads(p)'
                     ELSE IF pc'[p] \in InRollback THEN Stored' ELSE None
        BY DEF View, Reading
    <2> HIDE DEF Stored, View, Reads
    <2> QED
        BY <2>1, <2>2 DEF Reading, InTransaction
<1> HIDE DEF Stored, View
<1>2. UNCHANGED Promise!storeVars
    BY <1>1, NothingSeen
<1> QED
    BY <1>2 DEF StoreStep

LEMMA StoreChecks ==
    ASSUME PagerInv, StoreInv, NEW p \in Handles,
           \/ LockShared(p) \/ CheckExists(p) \/ CheckReserved(p) \/ CheckFirstByte(p)
           \/ LockHot(p) \/ BusyHot(p)
    PROVE  StoreStep
<1>1. Kept(p)
    BY Locking DEF PagerInv, LockInv, Values, Kept, LockShared, CheckExists, CheckReserved,
                   CheckFirstByte, LockHot, BusyHot, Goto, Fields, lockVars
<1>2. dead' = dead /\ db' = db /\ Stored' = Stored
    BY DEF LockShared, CheckExists, CheckReserved, CheckFirstByte, LockHot, BusyHot, files, Stored
<1>3. {pc[p], pc'[p]} \subseteq {"open", "recover", "busy"} \cup InCheck
    BY DEF PagerInv, LockShared, CheckExists, CheckReserved, CheckFirstByte, LockHot, BusyHot,
           Goto, InCheck
<1>4. pc[p] \notin InTransaction \cup {"reader"} /\ pc'[p] \notin InTransaction \cup {"reader"}
    BY <1>3 DEF InCheck, InTransaction, InWrite, InFlush, InRollback
<1> HIDE DEF Stored
<1> QED
    BY <1>1, <1>2, <1>4, ReadsOn

\* Some pagers go, the others see what they saw.
LEMMA StoreLeft ==
    ASSUME NEW S \in SUBSET Handles, UNCHANGED files,
           \A q \in Handles : IF q \in S THEN pc'[q] = "open"
                              ELSE pc'[q] = pc[q] /\ mem'[q] = mem[q]
    PROVE  StoreStep
<1>1. UNCHANGED <<db, dead>> /\ Stored' = Stored
    BY DEF files, Stored
<1>2. Previous' = Previous
    <2> HIDE DEF Stored
    <2>1. Undone' = Undone
        BY <1>1 DEF Undone
    <2> QED
        BY <1>1, <2>1 DEF Previous
<1>3. ASSUME NEW q \in Handles PROVE View(q)' = IF q \in S THEN None ELSE View(q)
    <2> HIDE DEF Stored
    <2>1. CASE q \in S
        BY <2>1 DEF View, InWrite, InFlush, InRollback
    <2>2. CASE q \notin S
        <3>1. pc'[q] = pc[q] /\ Reads(q)' = Reads(q)
            BY <1>1, <2>2 DEF Reads, Original
        <3> HIDE DEF Reads
        <3> QED
            BY <1>1, <2>2, <3>1 DEF View
    <2> QED
        BY <2>1, <2>2
<1>4. Views' = [q \in Handles |-> IF q \in S THEN None ELSE Views[q]]
    <2> HIDE DEF View
    <2> QED
        BY <1>3 DEF Views
<1> HIDE DEF Stored, Previous, Views
<1>5. Promise!Leave(S)
    BY <1>1, <1>2, <1>4 DEF Promise!Leave
<1> QED
    BY <1>5 DEF StoreStep, Promise!StoreNext

LEMMA StoreLeaves ==
    ASSUME PagerInv, NEW p \in Handles, EndRead(p) \/ Die(p)
    PROVE  StoreStep
<1>1. CASE EndRead(p)
    <2>1. /\ UNCHANGED files
          /\ \A q \in Handles : IF q \in {p} THEN pc'[q] = "open"
                                ELSE pc'[q] = pc[q] /\ mem'[q] = mem[q]
        BY <1>1 DEF PagerInv, EndRead, Goto
    <2> QED
        BY <2>1, StoreLeft
<1>2. CASE Die(p)
    <2>1. Dying(p) \in SUBSET Handles
        BY DEF Dying, Peers, Others
    <2> QED
        BY <1>2, <2>1, Deaths, StoreLeft
<1> QED
    BY <1>1, <1>2

LEMMA StoreReads ==
    ASSUME PagerInv, CacheInv, StoreInv, NEW p \in Handles,
           \/ BeginWrite(p) \/ BeginSync(p) \/ BusySync(p) \/ UnlockDb(p)
           \/ \E i \in Pages : ReadPage(p, i) \/ Evict(p, i)
    PROVE  StoreStep
<1>1. CASE BeginWrite(p) \/ BeginSync(p) \/ BusySync(p) \/ UnlockDb(p)
    <2>1. Kept(p)
        <3>1. CASE BeginWrite(p)
            BY <3>1, Locking DEF PagerInv, LockInv, Values, Kept, BeginWrite, Goto, Fields
        <3>2. CASE BeginSync(p) \/ BusySync(p)
            BY <3>2, Locking DEF PagerInv, LockInv, Kept, BeginSync, BusySync, Goto, lockVars
        <3>3. CASE UnlockDb(p)
            BY <3>3, Locking DEF PagerInv, LockInv, Values, Kept, UnlockDb, Goto
        <3> QED
            BY <1>1, <3>1, <3>2, <3>3
    <2>2. dead' = dead /\ db' = db /\ Stored' = Stored
        BY <1>1 DEF BeginWrite, BeginSync, BusySync, UnlockDb, files, Stored
    <2>3. \/ pc[p] = "rest" /\ pc'[p] = "validate"
          \/ Reading(pc[p]) /\ Reading(pc'[p])
        BY <1>1 DEF PagerInv, BeginWrite, BeginSync, BusySync, UnlockDb, Goto, Reading, InWrite,
                    InFlush
    <2>4. \A i \in Pages : mem'[p].cache[i] = mem[p].cache[i]
        BY <1>1 DEF PagerInv, Values, PagerFields, Fields0, BeginWrite, BeginSync, BusySync,
                    UnlockDb, Fields
    <2>5. Reads(p)' = Reads(p)
        BY <2>2, <2>4 DEF Reads, Original
    <2>6. \/ pc[p] \notin InTransaction \cup {"reader"}
             /\ pc'[p] \notin InTransaction \cup {"reader"}
          \/ Reading(pc[p]) /\ Reading(pc'[p])
        BY <2>3 DEF InTransaction, InWrite, InFlush, InRollback
    <2> HIDE DEF Stored, Reads
    <2> QED
        BY <2>1, <2>2, <2>5, <2>6, ReadsOn
<1>2. ASSUME NEW i \in Pages, ReadPage(p, i) \/ Evict(p, i) PROVE StoreStep
    <2>1. Kept(p) /\ dead' = dead /\ db' = db /\ Stored' = Stored /\ pc'[p] = pc[p]
        BY <1>2 DEF PagerInv, Values, Kept, ReadPage, Evict, Fields, lockVars, files, Stored
    <2>2. pc[p] \in {"reader", "dbmod"} /\ Reading(pc[p])
        BY <1>2 DEF ReadPage, Evict, Reading, InWrite
    <2>3. \E v \in {None, db[i]} : mem' = [mem EXCEPT ![p] = [mem[p] EXCEPT !.cache[i] = v]]
        BY <1>2 DEF ReadPage, Evict, Fields
    <2>4. mem[p].cache[i] \in {None, db[i]}
        <3>1. CASE pc[p] = "reader"
            <4>1. Stored = db /\ Fresh(pc[p], mem[p], Stored)
                BY <3>1, ColdStored DEF CacheInv, Guarded, NeverHot
            <4> HIDE DEF Stored
            <4> QED
                BY <3>1, <4>1 DEF Fresh, Active, InWrite, InFlush
        <3>2. CASE pc[p] = "dbmod"
            <4>1. CacheOfWriter(mem[p], db, Recovered(db, jrnl)) /\ i \notin mem[p].dirty
                BY <1>2, <3>2 DEF ReadPage, Evict, CacheInv, Writing, Active, InWrite
            <4> QED
                BY <4>1 DEF CacheOfWriter
        <3> QED
            BY <2>2, <3>1, <3>2
    <2>5. PICK v \in {None, db[i]} : mem' = [mem EXCEPT ![p] = [mem[p] EXCEPT !.cache[i] = v]]
        BY <2>3
    <2>6. \A k \in Pages : mem'[p].cache[k] = IF k = i THEN v ELSE mem[p].cache[k]
        BY <2>5 DEF PagerInv, Values, PagerFields, Fields0
    <2>7. Reads(p)' = Reads(p)
        BY <2>1, <2>4, <2>6 DEF Reads, Original
    <2> HIDE DEF Stored, Reads
    <2> QED
        BY <2>1, <2>2, <2>7, ReadsOn
<1> QED
    BY <1>1, <1>2

LEMMA StoreHeaders ==
    ASSUME PagerInv, CacheInv, PagerInv', StoreInv, NEW p \in Handles,
           WriteHeader(p) \/ SyncHeader(p)
    PROVE  StoreStep
<1>1. Kept(p) /\ dead' = dead /\ db' = db
    BY DEF PagerInv, Values, Kept, WriteHeader, SyncHeader, AfterSync, Goto, lockVars
<1>2. Reading(pc[p]) /\ Reading(pc'[p]) /\ mem' = mem
    BY DEF PagerInv, WriteHeader, SyncHeader, AfterSync, Goto, Reading, InWrite, InFlush
<1>3. Reads(p)' = Reads(p)
    BY <1>1, <1>2 DEF Reads, Original
<1>4. Stored' = Stored
    BY CacheHeader, CacheSynced, SameStored
<1> HIDE DEF Stored, Reads
<1> QED
    BY <1>1, <1>2, <1>3, <1>4, ReadsOn

\* A sync of the journal makes the last commit last.
LEMMA StoreSecures ==
    ASSUME PagerInv, CacheInv, PagerInv', StoreInv, NEW p \in Handles,
           SyncRecords(p) \/ Recover(p)
    PROVE  StoreStep
<1>1. Kept(p)
    BY Locking DEF PagerInv, LockInv, Values, Kept, SyncRecords, Recover, Goto, Fields, lockVars
<1>2. Stored' = Stored
    BY CacheSyncs, CacheRecovers, SameStored
<1>3. CASE SyncRecords(p) \/ jrnl # None
    <2>1. dead' = {} /\ (db' = db \/ level[p] = Exclusive)
        BY <1>3 DEF SyncRecords, Recover, SyncJournal, PagerInv, Locked, InRecovery
    <2>2. View(p)' = View(p)
        <3>1. CASE SyncRecords(p)
            <4>1. Reads(p)' = Reads(p) /\ pc[p] = "sync" /\ pc'[p] = "header"
                BY <3>1 DEF SyncRecords, Reads, Original, PagerInv, Goto
            <4> QED
                BY <4>1 DEF View, InWrite, InFlush
        <3>2. CASE Recover(p)
            <4>1. pc[p] = "recover" /\ pc'[p] \in {"validate", "replay"}
                BY <3>2 DEF Recover, PagerInv, Goto
            <4> QED
                BY <4>1 DEF View, InWrite, InFlush, InRollback
        <3> QED
            BY <3>1, <3>2
    <2>3. Views' = Views
        <3> DEFINE v == View(p)'
        <3>1. Views' = [Views EXCEPT ![p] = v]
            <4> HIDE DEF Stored
            <4> QED
                BY <1>1, <1>2, <2>1, SameViews
        <3>2. Views = [q \in Handles |-> View(q)] /\ v = View(p)
            BY <2>2 DEF Views
        <3> HIDE DEF v, View, Views
        <3> QED
            BY <3>1, <3>2
    <2>4. Previous' = Stored'
        BY <2>1, Secured
    <2> HIDE DEF Stored, Previous, Views
    <2>5. Promise!Secure
        BY <1>2, <2>3, <2>4 DEF Promise!Secure
    <2> QED
        BY <2>5 DEF StoreStep, Promise!StoreNext
<1>4. CASE Recover(p) /\ jrnl = None
    <2>1. dead' = dead /\ db' = db /\ pc[p] = "recover" /\ pc'[p] = "validate"
        BY <1>4 DEF PagerInv, Recover, Goto, files
    <2>2. pc[p] \notin InTransaction \cup {"reader"} /\ pc'[p] \notin InTransaction \cup {"reader"}
        BY <2>1 DEF InTransaction, InWrite, InFlush, InRollback
    <2> HIDE DEF Stored
    <2> QED
        BY <1>1, <1>2, <2>1, <2>2, ReadsOn
<1> QED
    BY <1>3, <1>4

LEMMA StoreBegins ==
    ASSUME PagerInv, CacheInv, PagerInv', CacheInv', StoreInv, NEW p \in Handles, Validate(p)
    PROVE  StoreStep
<1>1. Kept(p) /\ dead' = dead /\ db' = db /\ Stored' = Stored
    BY DEF PagerInv, Values, Kept, Validate, Fields, Goto, lockVars, files, Stored
<1>2. pc[p] = "validate" /\ pc'[p] = "reader"
    BY DEF PagerInv, Validate, Goto
<1>3. View(p)' = Stored
    BY <1>1, <1>2, StoredStaysSeen DEF ReadersSee, SeesStored
<1>4. Previous' = Previous /\ Views' = [Views EXCEPT ![p] = Stored]
    <2> DEFINE v == View(p)'
    <2>1. Previous' = Previous /\ Views' = [Views EXCEPT ![p] = v]
        <3> HIDE DEF Stored
        <3> QED
            BY <1>1, NewView
    <2>2. v = Stored
        BY <1>3
    <2> HIDE DEF v, Stored
    <2> QED
        BY <2>1, <2>2
<1>5. Views[p] = None
    BY <1>2 DEF Views, View, InWrite, InFlush, InRollback
<1> HIDE DEF Stored, Previous, Views
<1>6. Promise!Begin(p)
    BY <1>1, <1>4, <1>5 DEF Promise!Begin
<1> QED
    BY <1>6 DEF StoreStep, Promise!StoreNext

\* While a pager prepares a transaction the others read what is stored.
LEMMA OthersReadStored ==
    ASSUME PagerInv, CacheInv, NEW p \in Handles, pc[p] \in Owning,
           NEW q \in Handles, q # p
    PROVE  View(q) \in {None, Stored}
<1>1. pc[q] \notin Owning
    BY OneOwner
<1>2. CASE pc[q] = "reader"
    BY <1>2, StoredIsSeen DEF ReadersSee, SeesStored
<1>3. CASE pc[q] # "reader"
    BY <1>1, <1>3 DEF View, Owning
<1> QED
    BY <1>2, <1>3

LEMMA StoreChanges ==
    ASSUME PagerInv, CacheInv, PagerInv', StoreInv, NEW p \in Handles,
           CommitPhaseOne(p) \/ \E i \in Pages : WritePage(p, i)
    PROVE  StoreStep
<1>1. Kept(p) /\ dead' = dead /\ db' = db
    BY DEF PagerInv, Values, Kept, CommitPhaseOne, WritePage, Fields, Goto, lockVars
<1>2. Stored' = Stored
    BY CacheCommits, CacheWrites, SameStored
<1>3. pc[p] \in InWrite /\ pc'[p] \in InWrite
    BY DEF PagerInv, CommitPhaseOne, WritePage, Goto, InWrite
<1>4. View(p) \in Image /\ View(p)' \in Image
    <2>1. View(p) = Reads(p) /\ View(p)' = Reads(p)'
        BY <1>3 DEF View
    <2> QED
        BY <2>1, ReadsImage, ReadsStayImages DEF ReadsAreImages
<1>5. Previous' = Previous /\ Views' = [Views EXCEPT ![p] = View(p)']
    <2> HIDE DEF Stored
    <2> QED
        BY <1>1, <1>2, NewView
<1>6. \A q \in Handles \ {p} : Views[q] \in {None, Stored}
    BY <1>3, OthersReadStored DEF Views, Owning
<1>7. Views[p] # None /\ Views'[p] = View(p)'
    BY <1>4, NoneIsNoImage DEF Views
<1> HIDE DEF Stored, Previous, Views, View
<1>8. Promise!Change(p)
    <2>1. Views'[p] \in Image /\ Views' = [Views EXCEPT ![p] = Views'[p]]
        BY <1>4, <1>5, <1>7
    <2> QED
        BY <1>2, <1>5, <1>6, <1>7, <2>1 DEF Promise!Change, Promise!Others
<1> QED
    BY <1>8 DEF StoreStep, Promise!StoreNext

\* A journal is played back, or a page of the cache written, by who has EXCLUSIVE.
LEMMA StoreFlushes ==
    ASSUME PagerInv, CacheInv, PagerInv', CacheInv', StoreInv, NEW p \in Handles,
           \/ PlayBack(p) \/ EndPlayBack(p) \/ SyncStored(p)
           \/ \E i \in Pages : StorePage(p, i)
    PROVE  StoreStep
<1>1. Kept(p) /\ dead' = dead /\ pc[p] \in Owning
    BY DEF PagerInv, Values, Kept, PlayBack, EndPlayBack, SyncStored, StorePage, Fields, Goto,
           lockVars, Owning, InWrite, InFlush, InRollback, InRecovery
<1>2. Stored' = Stored
    BY CachePlaysBack, CachePlayedBack, CacheFinishes, CacheStores, SameStored
<1>3. db' = db \/ (Hot(jrnl) /\ level[p] = Exclusive)
    <2>1. CASE EndPlayBack(p) \/ SyncStored(p)
        BY <2>1 DEF EndPlayBack, SyncStored, SyncDb
    <2>2. CASE PlayBack(p)
        <3>1. Hot(jrnl) /\ pc[p] \in {"replay", "undo"}
            BY <2>2, PlayedNext DEF PlayBack, Armed
        <3> QED
            BY <3>1 DEF PagerInv, Locked, Placed, InRecovery, InTransaction, InRollback, CacheInv,
                        Guarded
    <2>3. ASSUME NEW i \in Pages, StorePage(p, i) PROVE Hot(jrnl) /\ level[p] = Exclusive
        <3>1. Hot(jrnl) /\ pc[p] \in {"store", "dbmod"}
            BY <2>3, OriginalsSafe DEF StorePage, Armed
        <3> QED
            BY <3>1 DEF PagerInv, Placed, InTransaction, InWrite, InFlush, CacheInv, Guarded
    <2> QED
        BY <2>1, <2>2, <2>3
<1>4. View(p)' = View(p)
    <2>1. CASE PlayBack(p) \/ EndPlayBack(p)
        <3>1. CASE pc[p] = "replay"
            <4>1. pc'[p] \in {"replay", "replayed"}
                BY <2>1, <3>1 DEF PagerInv, PlayBack, EndPlayBack, Goto
            <4> QED
                BY <3>1, <4>1 DEF View, InWrite, InFlush, InRollback
        <3>2. CASE pc[p] = "undo"
            <4>1. pc'[p] \in {"undo", "undone"}
                BY <2>1, <3>2 DEF PagerInv, PlayBack, EndPlayBack, Goto
            <4> HIDE DEF Stored
            <4> QED
                BY <1>2, <3>2, <4>1 DEF View, InWrite, InFlush, InRollback
        <3> QED
            BY <2>1, <3>1, <3>2 DEF PlayBack, EndPlayBack
    <2>2. CASE SyncStored(p)
        <3>1. pc[p] = "store" /\ pc'[p] = "finished" /\ Reads(p)' = Reads(p)
            BY <2>2 DEF SyncStored, SyncDb, PagerInv, Goto, Reads, Original
        <3> QED
            BY <3>1 DEF View, InWrite, InFlush
    <2>3. ASSUME NEW i \in Pages, StorePage(p, i) PROVE View(p)' = View(p)
        <3>1. pc[p] \in {"store", "dbmod"} /\ pc' = pc /\ mem[p].cache[i] # None
            BY <2>3 DEF StorePage, PagerInv, Working
        <3>2. mem'[p].cache = mem[p].cache
            <4> DEFINE d == mem[p].dirty \ {i}
                       w == IF i = 1 THEN mem[p].cache[1] ELSE mem[p].vers
            <4>1. mem' = [mem EXCEPT ![p] = [mem[p] EXCEPT !.dirty = d, !.vers = w]]
                BY <2>3 DEF StorePage, Fields
            <4> HIDE DEF d, w
            <4> QED
                BY <4>1 DEF PagerInv, Values, PagerFields, Fields0
        <3>3. \A k \in Pages : k # i => db'[k] = db[k]
            BY <2>3 DEF StorePage, Store, PagerInv, Values, Image
        <3>4. Reads(p)' = Reads(p)
            BY <3>1, <3>2, <3>3 DEF Reads, Original
        <3> QED
            BY <3>1, <3>4 DEF View, InWrite, InFlush
    <2> QED
        BY <2>1, <2>2, <2>3
<1> HIDE DEF Stored, View
<1>5. UNCHANGED Promise!storeVars
    BY <1>1, <1>2, <1>3, <1>4, NothingSeen
<1> QED
    BY <1>5 DEF StoreStep

LEMMA StoreAborts ==
    ASSUME PagerInv, CacheInv, PagerInv', StoreInv, NEW p \in Handles, Rollback(p)
    PROVE  StoreStep
<1>1. Kept(p) /\ dead' = dead
    BY DEF PagerInv, Values, Kept, Rollback, Fields, Goto, lockVars
<1>2. Stored' = Stored
    BY CacheRollsBack, SameStored
<1>3. pc[p] \in Active /\ pc'[p] \in InRollback
    BY DEF PagerInv, Rollback, Goto, InWrite, InFlush, InRollback, Active
<1>4. db' = db \/ (Hot(jrnl) /\ level[p] = Exclusive)
    <2>1. db' = db \/ Hot(jrnl)
        BY DEF Rollback
    <2> QED
        BY <1>3, <2>1 DEF PagerInv, Placed, InTransaction, Active, CacheInv, Guarded
<1>5. View(p)' = Stored /\ Views[p] # None
    <2>1. View(p)' = Stored'
        BY <1>3 DEF View, InWrite, InFlush, InRollback
    <2>2. View(p) # None
        BY <1>3, ViewImage DEF InTransaction, Active
    <2> QED
        BY <1>2, <2>1, <2>2 DEF Views
<1>6. Previous' = Previous /\ Views' = [Views EXCEPT ![p] = Stored]
    <2> DEFINE v == View(p)'
    <2>1. Previous' = Previous /\ Views' = [Views EXCEPT ![p] = v]
        <3> HIDE DEF Stored
        <3> QED
            BY <1>1, <1>2, <1>4, NewView
    <2>2. v = Stored
        BY <1>5
    <2> HIDE DEF v, Stored
    <2> QED
        BY <2>1, <2>2
<1> HIDE DEF Stored, Previous, Views, View
<1>7. Promise!Abort(p)
    BY <1>2, <1>5, <1>6 DEF Promise!Abort
<1> QED
    BY <1>7 DEF StoreStep, Promise!StoreNext

\* The transaction is committed, or undone, by the deletion of its journal.
LEMMA StoreDeletes ==
    ASSUME PagerInv, CacheInv, PagerInv', CacheInv', StoreInv, NEW p \in Handles,
           EndTransaction(p)
    PROVE  StoreStep
<1>1. /\ pc[p] \in {"finished", "undone", "replayed"} /\ Kept(p)
      /\ pc'[p] = IF pc[p] = "replayed" THEN "rest" ELSE "leave"
      /\ UNCHANGED <<lockVars, db, dbMaybe, mem, tx>>
      /\ dead' = dead \cup {jrnl} /\ jrnl' = None
    BY DEF EndTransaction, DeleteJournal, Goto, PagerInv, Values, Kept, lockVars
<1>2. Stored' = db /\ \A j : Recovered(db', j) = Recovered(db, j)
    BY <1>1 DEF Hot, Stored, Recovered
<1>3. CASE pc[p] = "finished"
    <2>1. level[p] = Exclusive /\ View(p) = Reads(p) /\ Views[p] = View(p) /\ Views[p] # None
        BY <1>3, ViewImage DEF PagerInv, Locked, View, Views, InTransaction, InWrite, InFlush
    <2>2. Reads(p) = db
        <3>1. mem[p].dirty = {} /\ CacheOfWriter(mem[p], db, Recovered(db, jrnl))
            BY <1>3 DEF PagerInv, Working, CacheInv, Writing, Active, InWrite, InFlush
        <3>2. \A i \in Pages : Reads(p)[i] = db[i]
            BY <3>1 DEF CacheOfWriter, Reads, Original
        <3>3. Reads(p) \in Image /\ db \in Image
            BY ReadsImage DEF ReadsAreImages, PagerInv, Values
        <3> HIDE DEF Reads
        <3> QED
            BY <3>2, <3>3, SameImage
    <2>3. View(p)' = View(p)
        <3>1. Reads(p)' = Reads(p) /\ pc'[p] = "leave"
            BY <1>1, <1>3 DEF Reads, Original
        <3> QED
            BY <2>1, <3>1 DEF View, InWrite
    <2>4. Views' = Views
        <3>1. ASSUME NEW q \in Handles, q # p PROVE View(q)' = None /\ View(q) = None
            <4>1. pc[q] = "open" /\ pc'[q] = "open"
                BY <1>1, <2>1, <3>1, OthersOpen DEF Kept
            <4> QED
                BY <4>1 DEF View, InWrite, InFlush, InRollback
        <3>2. \A q \in Handles : View(q)' = View(q)
            BY <2>3, <3>1
        <3> HIDE DEF View
        <3> QED
            BY <3>2 DEF Views
    <2>5. \A q \in Handles \ {p} : Views[q] = None
        <3> SUFFICES ASSUME NEW q \in Handles, q # p PROVE View(q) = None
            BY DEF Views
        <3>1. pc[q] = "open"
            BY <2>1, OthersOpen
        <3> QED
            BY <3>1 DEF View, InWrite, InFlush, InRollback
    <2>6. Previous' = Stored
        <3>1. dead = {}
            <4>1. JournalOf(pc[p], mem[p], db, jrnl, dead) /\ jrnl \in JournalsOf(tx)
                  /\ jrnl # None /\ JournalOK(jrnl)
                BY <1>3 DEF PagerInv, Values, Working, CacheInv, Disk, Writing, Active, InWrite,
                            InFlush
            <4> DEFINE len == Len(jrnl.magic)
            <4>2. /\ jrnl.magics[len] = {TRUE} /\ len \in Nat \ {0}
                  /\ \A s \in 1 .. len - 1 : jrnl.magics[s] = {TRUE}
                  /\ \A s \in 1 .. len : jrnl.magic[s] \in jrnl.magics[s]
                BY <1>3, <4>1, LastPart DEF JournalOf, JournalOK, Part
            <4> HIDE DEF len
            <4>3. 1 \in 1 .. len /\ (1 = len \/ 1 \in 1 .. len - 1)
                BY <4>2
            <4>4. jrnl.magic[1] = TRUE
                BY <4>2, <4>3
            <4> QED
                BY <4>1, <4>4 DEF Hot, JournalOf
        <3>2. dead' = {jrnl}
            BY <1>1, <3>1
        <3>3. Undone' = {Stored} \ {Stored'}
            BY <1>2, <3>2 DEF Undone, Stored
        <3> HIDE DEF Stored, Undone
        <3>4. CASE Stored' = Stored
            <4>1. Undone' = {}
                BY <3>3, <3>4
            <4> QED
                BY <3>4, <4>1 DEF Previous
        <3>5. CASE Stored' # Stored
            <4>1. Undone' = {Stored}
                BY <3>3, <3>5
            <4> QED
                BY <4>1 DEF Previous
        <3> QED
            BY <3>4, <3>5
    <2>7. Stored' = Views[p]
        BY <1>2, <2>1, <2>2
    <2> HIDE DEF Stored, Previous, Views, View
    <2>8. Promise!Commit(p)
        BY <2>1, <2>4, <2>5, <2>6, <2>7 DEF Promise!Commit, Promise!Others
    <2> QED
        BY <2>8 DEF StoreStep, Promise!StoreNext
<1>4. CASE pc[p] # "finished"
    <2>1. Stored' = Stored
        BY <1>4, CacheEnds, SameStored
    <2>2. View(p)' = View(p)
        <3>1. CASE pc[p] = "replayed"
            BY <1>1, <3>1 DEF View, InWrite, InFlush, InRollback
        <3>2. CASE pc[p] = "undone"
            <4>1. View(p)' = Stored' /\ View(p) = Stored
                BY <1>1, <3>2, StoredIsSeen, StoredStaysSeen DEF ReadersSee, SeesStored, InRollback
            <4> QED
                BY <2>1, <4>1
        <3> QED
            BY <1>1, <1>4, <3>1, <3>2
    <2>3. Views' = Views
        <3> DEFINE v == View(p)'
        <3>1. Views' = [Views EXCEPT ![p] = v]
            <4> HIDE DEF Stored
            <4> QED
                BY <1>1, <2>1, SameViews
        <3>2. Views = [q \in Handles |-> View(q)] /\ v = View(p)
            BY <2>2 DEF Views
        <3> HIDE DEF v, View, Views
        <3> QED
            BY <3>1, <3>2
    <2>4. Previous' = Previous
        <3>1. Undone' = Undone
            <4>1. Recovered(db, jrnl) = Stored
                BY DEF Stored
            <4>2. Undone' = {Recovered(db, j) : j \in dead \cup {jrnl}} \ {Stored}
                BY <1>1, <1>2, <2>1 DEF Undone
            <4> HIDE DEF Stored
            <4> QED
                BY <4>1, <4>2 DEF Undone
        <3> HIDE DEF Stored, Undone
        <3> QED
            BY <2>1, <3>1 DEF Previous
    <2> HIDE DEF Stored, Previous, Views
    <2> QED
        BY <2>1, <2>3, <2>4 DEF StoreStep, Promise!storeVars
<1> QED
    BY <1>3, <1>4

LEMMA StoreLosesPower ==
    ASSUME PagerInv, CacheInv, PagerInv', CacheInv', StoreInv, PowerLoss
    PROVE  StoreStep
<1>1. dead' = {} /\ \A q \in Handles : pc'[q] = "open"
    BY DEF PowerLoss
<1>2. Stored' = Stored \/ \E j \in dead : Stored' = Recovered(db, j)
    BY PowerBrings
<1>3. \A j, k \in dead : Recovered(db, j) # Stored /\ Recovered(db, k) # Stored
                         => Recovered(db, j) = Recovered(db, k)
    BY DEF StoreInv, JournalsKnown
<1>4. Stored' \in {Stored, Previous}
    <2> HIDE DEF Stored
    <2>1. ASSUME Stored' # Stored PROVE Stored' = Previous
        <3>1. Stored' \in Undone
            BY <1>2, <2>1 DEF Undone
        <3>2. \A x, y \in Undone : x = y
            BY <1>3 DEF Undone
        <3> HIDE DEF Undone
        <3> QED
            BY <3>1, <3>2 DEF Previous
    <2> QED
        BY <2>1
<1>5. Previous' = Stored'
    BY <1>1, Secured
<1>6. Views' = [q \in Handles |-> None]
    <2>1. \A q \in Handles : View(q)' = None
        BY <1>1 DEF View, InWrite, InFlush, InRollback
    <2> HIDE DEF View
    <2> QED
        BY <2>1 DEF Views
<1> HIDE DEF Stored, Previous, Views
<1>7. Promise!PowerFails
    BY <1>4, <1>5, <1>6 DEF Promise!PowerFails
<1> QED
    BY <1>7 DEF StoreStep, Promise!StoreNext

LEMMA StoreIdles == ASSUME UNCHANGED vars PROVE StoreStep
BY DEF StoreStep, Promise!storeVars, vars, files, Stored, Previous, Undone, Views, View, Reads,
       Original

LEMMA StoreFirst == Init => Promise!StoreInit
<1> SUFFICES ASSUME Init PROVE Promise!StoreInit
    OBVIOUS
<1>1. db = FirstImage /\ jrnl = None /\ dead = {} /\ \A p \in Handles : pc[p] = "open"
    BY DEF Init
<1>2. Stored = FirstImage /\ Previous = Stored
    BY <1>1 DEF Stored, Recovered, Hot, Previous, Undone
<1>3. FirstImage \in Image
    BY PagerAssumption DEF FirstImage, Image
<1>4. Views = [p \in Handles |-> None]
    <2>1. \A p \in Handles : View(p) = None
        BY <1>1 DEF View, InWrite, InFlush, InRollback
    <2> HIDE DEF View
    <2> QED
        BY <2>1 DEF Views
<1> HIDE DEF Stored, Previous, Views
<1> QED
    BY <1>2, <1>3, <1>4 DEF Promise!StoreInit

LEMMA EveryStoreStep ==
    ASSUME PagerInv, PagerInv', CacheInv, CacheInv', StoreInv, [Next]_vars
    PROVE  StoreStep
<1>1. ASSUME NEW p \in Handles,
             \/ LockShared(p) \/ CheckExists(p) \/ CheckReserved(p) \/ CheckFirstByte(p)
             \/ LockHot(p) \/ BusyHot(p) \/ EndRead(p) \/ Die(p)
      PROVE  StoreStep
    BY <1>1, StoreChecks, StoreLeaves
<1>2. ASSUME NEW p \in Handles,
             \/ BeginWrite(p) \/ BeginSync(p) \/ BusySync(p) \/ UnlockDb(p)
             \/ \E i \in Pages : ReadPage(p, i) \/ Evict(p, i)
      PROVE  StoreStep
    BY <1>2, StoreReads
<1>3. ASSUME NEW p \in Handles,
             \/ WriteHeader(p) \/ SyncHeader(p) \/ SyncRecords(p) \/ Recover(p) \/ Validate(p)
      PROVE  StoreStep
    BY <1>3, StoreHeaders, StoreSecures, StoreBegins
<1>4. ASSUME NEW p \in Handles, CommitPhaseOne(p) \/ \E i \in Pages : WritePage(p, i)
      PROVE  StoreStep
    BY <1>4, StoreChanges
<1>5. ASSUME NEW p \in Handles,
             \/ PlayBack(p) \/ EndPlayBack(p) \/ SyncStored(p)
             \/ \E i \in Pages : StorePage(p, i)
      PROVE  StoreStep
    BY <1>5, StoreFlushes
<1>6. ASSUME NEW p \in Handles, Rollback(p) \/ EndTransaction(p) PROVE StoreStep
    BY <1>6, StoreAborts, StoreDeletes
<1>7. CASE PowerLoss
    BY <1>7, StoreLosesPower
<1>8. CASE UNCHANGED vars
    BY <1>8, StoreIdles
<1> HIDE DEF StoreStep
<1> QED
    BY <1>1, <1>2, <1>3, <1>4, <1>5, <1>6, <1>7, <1>8 DEF Next

\* Pagers implement the atomic store: each transaction reads one image, the database is
\* replaced by a whole image when the journal of a commit is deleted, and neither a
\* rollback, nor the death of a process between two system calls, nor a power loss that
\* leaves any mixture of unsynced writes, shows anyone part of a transaction, where no thread
\* asks for RESERVED while another one of its process gives up a recovery.
THEOREM PagersAreAtomic ==
    ASSUME NoRace
    PROVE  Spec => TransactionsAreAtomic
<1>1. PagerInv /\ PagerInv' /\ CacheInv /\ CacheInv' /\ StoreInv /\ [Next]_vars
      => [Promise!StoreNext]_(Promise!storeVars)
    BY EveryStoreStep DEF StoreStep
<1>2. Spec => []CacheInv
    BY CacheInvariant
<1>3. Spec => []StoreInv
    BY StoreInvariant
<1> QED
    BY <1>1, <1>2, <1>3, StoreFirst, PagerInvariant, PTL
       DEF Spec, TransactionsAreAtomic, Promise!StoreSpec

=============================================================================
