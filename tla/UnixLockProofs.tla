--------------------------- MODULE UnixLockProofs ---------------------------
(***************************************************************************)
(* For any number of processes and handles: a process's account of its     *)
(* locks agrees with the operating system's, and the protocol of fcntl     *)
(* calls implements FileLock.                                              *)
(***************************************************************************)
EXTENDS UnixLock, TLAPS, FiniteSetTheorems

----------------------------------------------------------------------------
(* The account of one process *)

Of(p) == {h \in Handles : Process[h] = p}
Sharing(p) == {h \in Of(p) : file[h].level >= Shared}
Opened(p) == {h \in Of(p) : file[h].open}

\* The counters of unixInodeInfo.
Counted(p) ==
    /\ inode[p].nShared = Cardinality(Sharing(p))
    /\ inode[p].nLock = inode[p].nShared
    /\ inode[p].nRef = Cardinality(Opened(p))
    /\ inode[p].nRef + inode[p].unused <= N

\* The mutex, and the calls it protects.
CallsTidy(p) ==
    /\ \A g, h \in Of(p) : step[g] # "idle" /\ step[h] # "idle" => g = h
    /\ \A h \in Of(p) :
        /\ ~file[h].open => file[h].level = Unlocked /\ step[h] = "idle"
        /\ step[h] \in {"read", "got", "refused"} => inode[p].lock = Unlocked
        /\ step[h] = "write" =>
               file[h].level \in Shared .. Pending /\ inode[p].lock = file[h].level
        /\ step[h] = "bytes" => file[h].level > Shared
        /\ step[h] = "release" => file[h].level >= Shared /\ goal[h] = Unlocked

\* inode.eFileLock is the highest level in the process, once a handle that goes down
\* has given back what others can see.
Accounted(p) ==
    LET l == inode[p].lock IN
    /\ \A h \in Of(p) :
        /\ file[h].level > Unlocked => l > Unlocked
        /\ file[h].level > Shared =>
               IF step[h] = "release" THEN l = Shared ELSE l = file[h].level
    /\ l > Unlocked => \E h \in Of(p) : file[h].level >= l
    /\ \A g, h \in Of(p) : file[g].level > Shared /\ file[h].level > Shared => g = h

\* What the system holds for the process.
Held(p) ==
    LET l == inode[p].lock
        has == os[p] IN
    /\ l = Unlocked =>
        /\ has["reserved"] = "none"
        /\ has["shared"] # "none" => \E h \in Of(p) : step[h] = "got"
        /\ has["pending"] # "none" => \E h \in Of(p) : step[h] \in {"read", "got", "refused"}
    /\ l >= Shared => has["shared"] # "none"
    /\ l = Shared => has["reserved"] = "none"
    /\ l = Reserved => has["reserved"] = "write"
    /\ l \in Shared .. Reserved /\ has["pending"] # "none" =>
        \E h \in Of(p) : step[h] = "write"
    /\ l >= Pending => has["pending"] = "write"
    /\ l = Exclusive /\ has["shared"] # "write" => \E h \in Of(p) : step[h] = "bytes"
    /\ \A h \in Of(p) :
        /\ step[h] \in {"read", "got", "refused"} => has["pending"] = "read"
        /\ step[h] = "got" => has["shared"] = "read"
        /\ step[h] = "write" => has["pending"] = "write"

Account(p) == Counted(p) /\ CallsTidy(p) /\ Accounted(p) /\ Held(p)

\* The system grants no conflicting locks, and who is seen as EXCLUSIVE is alone also
\* while it gives back the first of its locks.
NoConflicts ==
    \A p, q \in Procs : p # q => \A r \in Ranges : ~Conflict(os[p][r], os[q][r])

SeenAlone ==
    \A p, q \in Procs :
        p # q /\ inode[p].lock = Exclusive => os[q]["shared"] = "none"

UnixInv == TypeOK /\ (\A p \in Procs : Account(p)) /\ NoConflicts /\ SeenAlone

----------------------------------------------------------------------------
(* Counting handles, and steps of one process *)

LEMMA Countable ==
    ASSUME NEW S \in SUBSET Handles
    PROVE  /\ IsFiniteSet(S) /\ Cardinality(S) \in Nat /\ Cardinality(S) <= N /\ N \in Nat
           /\ Cardinality(S) = 0 <=> S = {}
           /\ Cardinality(S) = 1 <=> \E h : S = {h}
           /\ S # Handles => Cardinality(S) < N
<1>1. IsFiniteSet(S) /\ Cardinality(S) \in Nat /\ N \in Nat
    BY UnixAssumption, FS_Subset, FS_CardinalityType DEF N
<1>2. Cardinality(S) <= N /\ (Cardinality(S) = N => S = Handles)
    BY UnixAssumption, FS_Subset DEF N
<1>3. Cardinality(S) = 0 <=> S = {}
    BY <1>1, FS_EmptySet
<1>4. Cardinality(S) = 1 <=> \E h : S = {h}
    BY <1>1, FS_Singleton
<1>5. S # Handles => Cardinality(S) < N
    BY <1>1, <1>2
<1> QED
    BY <1>1, <1>2, <1>3, <1>4, <1>5

LEMMA OneMore ==
    ASSUME NEW S \in SUBSET Handles, NEW h \in Handles \ S
    PROVE  Cardinality(S \cup {h}) = Cardinality(S) + 1
    BY Countable, FS_AddElement

LEMMA OneLess ==
    ASSUME NEW S \in SUBSET Handles, NEW h \in S
    PROVE  Cardinality(S \ {h}) = Cardinality(S) - 1
    BY Countable, FS_RemoveElement

\* What the calls do to the variables they set.
FileType == [Handles -> [open : BOOLEAN, level : Levels]]
InodeType == [lock : Levels, nShared : 0 .. N, nLock : 0 .. N, nRef : 0 .. N, unused : 0 .. N]
Counters == [lock : Levels, nShared : Int, nLock : Int, nRef : Int, unused : Nat]

LEMMA TypedParts ==
    /\ TypeOK <=>
        /\ os \in [Procs -> [Ranges -> {"none", "read", "write"}]]
        /\ inode \in [Procs -> InodeType] /\ file \in FileType
        /\ step \in [Handles -> Steps] /\ goal \in [Handles -> {Unlocked, Shared}]
    /\ TypeOK' <=>
        /\ os' \in [Procs -> [Ranges -> {"none", "read", "write"}]]
        /\ inode' \in [Procs -> InodeType] /\ file' \in FileType
        /\ step' \in [Handles -> Steps] /\ goal' \in [Handles -> {Unlocked, Shared}]
    BY DEF TypeOK, FileType, InodeType

LEMMA SetLkEffect ==
    ASSUME TypeOK, NEW p \in Procs, NEW r \in Ranges, NEW type \in {"none", "read", "write"},
           SetLk(p, r, type)
    PROVE  /\ os' \in [Procs -> [Ranges -> {"none", "read", "write"}]]
           /\ os'[p][r] = type /\ \A s \in Ranges : s # r => os'[p][s] = os[p][s]
           /\ \A q \in Procs : q # p => os'[q] = os[q]
    BY DEF TypeOK, SetLk

LEMMA GotoEffect ==
    ASSUME TypeOK, NEW h \in Handles, NEW s \in Steps, Goto(h, s)
    PROVE  /\ step' \in [Handles -> Steps]
           /\ \A g \in Handles : step'[g] = IF g = h THEN s ELSE step[g]
    BY DEF TypeOK, Goto

LEMMA LevelEffect ==
    ASSUME TypeOK, NEW h \in Handles, NEW l \in Levels, Level(h, l)
    PROVE  /\ file' \in FileType
           /\ \A g \in Handles : file'[g].open = file[g].open
           /\ \A g \in Handles : file'[g].level = IF g = h THEN l ELSE file[g].level
           /\ \A g \in Handles : g # h => file'[g] = file[g]
    BY DEF TypeOK, Level, FileType

LEMMA LockEffect ==
    ASSUME TypeOK, NEW p \in Procs, NEW l \in Levels, inode' = [inode EXCEPT ![p].lock = l]
    PROVE  /\ inode' = [inode EXCEPT ![p] = inode'[p]] /\ inode'[p] \in Counters
           /\ inode'[p] = [inode[p] EXCEPT !.lock = l] /\ inode'[p].lock = l
<1>1. inode[p] \in Counters
    BY UnixAssumption, FS_CardinalityType DEF TypeOK, Counters, N
<1>2. inode' = [inode EXCEPT ![p] = inode'[p]] /\ inode'[p] = [inode[p] EXCEPT !.lock = l]
    BY DEF TypeOK
<1> QED
    BY <1>1, <1>2 DEF Counters

\* Counters that agree with the handles are within their type.
LEMMA InodeTyped ==
    ASSUME TypeOK, NEW p \in Procs, Counted(p)', inode'[p] \in Counters,
           inode' = [inode EXCEPT ![p] = inode'[p]]
    PROVE  inode' \in [Procs -> InodeType]
<1>1. Sharing(p)' \in SUBSET Handles /\ Opened(p)' \in SUBSET Handles
    BY DEF Sharing, Opened, Of
<1>2. /\ Cardinality(Sharing(p)') \in 0 .. N /\ Cardinality(Opened(p)') \in 0 .. N
      /\ N \in Nat
    BY <1>1, Countable
<1>3. /\ inode'[p].nShared \in 0 .. N /\ inode'[p].nLock \in 0 .. N
      /\ inode'[p].nRef \in 0 .. N /\ inode'[p].unused \in 0 .. N
    BY <1>2 DEF Counted, N, Counters
<1>4. inode'[p] \in InodeType
    BY <1>3 DEF InodeType, Counters
<1> QED
    BY <1>4 DEF TypeOK, InodeType

\* A process is not concerned by what happens in another one.
LEMMA OtherProcess ==
    ASSUME NEW q \in Procs, Account(q), os'[q] = os[q], inode'[q] = inode[q],
           \A h \in Of(q) : file'[h] = file[h] /\ step'[h] = step[h] /\ goal'[h] = goal[h]
    PROVE  Account(q)'
<1>1. Sharing(q)' = Sharing(q) /\ Opened(q)' = Opened(q) /\ Of(q)' = Of(q)
    BY DEF Sharing, Opened, Of
<1>2. Counted(q)'
    BY <1>1 DEF Account, Counted
<1>3. CallsTidy(q)'
    BY <1>1 DEF Account, CallsTidy
<1>4. Accounted(q)'
    BY <1>1 DEF Account, Accounted
<1>5. Held(q)'
    BY <1>1 DEF Account, Held
<1> QED
    BY <1>2, <1>3, <1>4, <1>5 DEF Account

Weaker(a, b) == a = b \/ a = "none" \/ (a = "read" /\ b = "write")

LEMMA StepOf ==
    ASSUME UnixInv, NEW p \in Procs, TypeOK', Account(p)',
           \A q \in Procs \ {p} : os'[q] = os[q] /\ inode'[q] = inode[q],
           \A g \in Handles : Process[g] # p =>
               file'[g] = file[g] /\ step'[g] = step[g] /\ goal'[g] = goal[g],
           \A r \in Ranges : Weaker(os'[p][r], os[p][r]) \/ Grants(p, r, os'[p][r]),
           inode'[p].lock = Exclusive =>
               inode[p].lock = Exclusive \/ Grants(p, "shared", "write"),
           os'[p]["shared"] # "none" =>
               os[p]["shared"] # "none" \/ os[p]["pending"] = "read"
    PROVE  UnixInv'
<1>1. ASSUME NEW q \in Procs \ {p} PROVE Account(q)'
    BY OtherProcess DEF UnixInv, Of
<1>2. NoConflicts'
    <2>1. ASSUME NEW q \in Procs \ {p}, NEW r \in Ranges PROVE ~Conflict(os'[p][r], os[q][r])
        BY DEF UnixInv, NoConflicts, Weaker, Grants, Conflict
    <2>2. \A a, b : Conflict(a, b) => Conflict(b, a)
        BY DEF Conflict
    <2>3. ASSUME NEW a \in Procs, NEW b \in Procs, a # b, NEW r \in Ranges
          PROVE  ~Conflict(os'[a][r], os'[b][r])
        <3>1. CASE a = p
            BY <2>1, <2>3, <3>1
        <3>2. CASE b = p
            BY <2>1, <2>2, <2>3, <3>2
        <3>3. CASE a # p /\ b # p
            BY <2>3, <3>3 DEF UnixInv, NoConflicts
        <3> QED
            BY <3>1, <3>2, <3>3
    <2> QED
        BY <2>3 DEF NoConflicts
<1>3. SeenAlone'
    <2>1. ASSUME NEW q \in Procs \ {p}, inode'[p].lock = Exclusive PROVE os[q]["shared"] = "none"
        <3>1. CASE inode[p].lock = Exclusive
            BY <3>1 DEF UnixInv, SeenAlone
        <3>2. CASE Grants(p, "shared", "write")
            BY <3>2 DEF Grants, Conflict, Ranges
        <3> QED
            BY <2>1, <3>1, <3>2
    <2>2. ASSUME NEW q \in Procs \ {p}, inode[q].lock = Exclusive PROVE os'[p]["shared"] = "none"
        <3>1. os[p]["shared"] = "none"
            BY <2>2 DEF UnixInv, SeenAlone
        <3>2. os[q]["pending"] = "write"
            BY <2>2 DEF UnixInv, Account, Held, Exclusive, Pending
        <3>3. os[p]["pending"] # "read"
            BY <3>2 DEF UnixInv, NoConflicts, Conflict, Ranges
        <3> QED
            BY <3>1, <3>3
    <2> QED
        BY <2>1, <2>2 DEF UnixInv, SeenAlone
<1> QED
    BY <1>1, <1>2, <1>3 DEF UnixInv


\* A step of one handle's call.
LEMMA CallStep ==
    ASSUME UnixInv, NEW p \in Procs, NEW h \in Of(p),
           inode'[p] \in Counters, inode' = [inode EXCEPT ![p] = inode'[p]],
           os' \in [Procs -> [Ranges -> {"none", "read", "write"}]], file' \in FileType,
           step' \in [Handles -> Steps], goal' \in [Handles -> {Unlocked, Shared}],
           \A q \in Procs : q # p => os'[q] = os[q],
           \A g \in Handles : g # h =>
               file'[g] = file[g] /\ step'[g] = step[g] /\ goal'[g] = goal[g],
           Counted(p)', CallsTidy(p)', Accounted(p)', Held(p)',
           \A r \in Ranges : Weaker(os'[p][r], os[p][r]) \/ Grants(p, r, os'[p][r]),
           inode'[p].lock = Exclusive =>
               inode[p].lock = Exclusive \/ Grants(p, "shared", "write"),
           os'[p]["shared"] # "none" =>
               os[p]["shared"] # "none" \/ os[p]["pending"] = "read"
    PROVE  UnixInv'
<1>1. TypeOK
    BY DEF UnixInv
<1>2. inode' \in [Procs -> InodeType]
    BY <1>1, InodeTyped
<1>3. TypeOK'
    BY <1>2, TypedParts
<1>4. \A q \in Procs \ {p} : inode'[q] = inode[q]
    BY <1>1 DEF TypeOK
<1>5. \A g \in Handles : Process[g] # p =>
          file'[g] = file[g] /\ step'[g] = step[g] /\ goal'[g] = goal[g]
    BY DEF Of
<1>6. Account(p)'
    BY DEF Account
<1> QED
    BY <1>3, <1>4, <1>5, <1>6, StepOf

\* Where a call begins: no other one is on in the process.
LEMMA Entering ==
    ASSUME UnixInv, NEW h \in Handles
    PROVE  /\ Process[h] \in Procs /\ h \in Of(Process[h]) /\ Account(Process[h]) /\ TypeOK
           /\ N \in Nat /\ inode[Process[h]] \in InodeType
           /\ Enter(h) => file[h].open /\ \A g \in Of(Process[h]) : step[g] = "idle"
           /\ step[h] # "idle" => \A g \in Of(Process[h]) : g # h => step[g] = "idle"
<1>1. Process[h] \in Procs /\ h \in Of(Process[h]) /\ Account(Process[h]) /\ TypeOK
    BY UnixAssumption DEF UnixInv, Of
<1>2. N \in Nat
    BY UnixAssumption, FS_CardinalityType DEF N
<1> QED
    BY <1>1, <1>2 DEF Enter, Of, Account, CallsTidy, TypeOK, InodeType


----------------------------------------------------------------------------
(* Opening, locking and closing keep the account *)

LEMMA KeepsOpen ==
    ASSUME UnixInv, NEW h \in Handles, Open(h)
    PROVE  UnixInv'
<1> DEFINE p == Process[h]
<1> USE DEF Unlocked, Shared, Reserved, Pending, Exclusive
<1>1. /\ p \in Procs /\ h \in Of(p) /\ Account(p) /\ TypeOK
      /\ N \in Nat /\ inode[p] \in InodeType
    BY Entering
<1>2. /\ ~file[h].open /\ \A g \in Of(p) : step[g] = "idle"
      /\ os' = os /\ step' = step /\ goal' = goal
    BY DEF Open, Of
<1>3. /\ file' \in FileType
      /\ \A g \in Handles : file'[g].level = file[g].level
      /\ \A g \in Handles : file'[g].open = IF g = h THEN TRUE ELSE file[g].open
      /\ \A g \in Handles : g # h => file'[g] = file[g]
    BY <1>1 DEF TypeOK, Open, FileType
<1>4. /\ inode' = [inode EXCEPT ![p] = inode'[p]]
      /\ inode'[p] = [lock |-> inode[p].lock, nShared |-> inode[p].nShared,
                      nLock |-> inode[p].nLock, nRef |-> inode[p].nRef + 1,
                      unused |-> IF inode[p].unused > 0 THEN inode[p].unused - 1
                                 ELSE inode[p].unused]
    BY <1>1 DEF TypeOK, InodeType, Open
<1> HIDE DEF p
<1>5. inode'[p] \in Counters /\ inode'[p].lock = inode[p].lock
    BY <1>1, <1>4 DEF InodeType, Counters
<1>6. Counted(p)'
    <2>1. Opened(p)' = Opened(p) \cup {h} /\ h \notin Opened(p) /\ Sharing(p)' = Sharing(p)
        BY <1>1, <1>2, <1>3 DEF Opened, Sharing, Of
    <2>2. Cardinality(Opened(p)') = Cardinality(Opened(p)) + 1 /\ Opened(p) \in SUBSET Handles
        BY <2>1, OneMore DEF Opened, Of
    <2>3. Cardinality(Opened(p)) < N /\ Cardinality(Opened(p)) \in Nat
        BY <2>1, <2>2, Countable
    <2> QED
        BY <1>1, <1>4, <2>1, <2>2, <2>3 DEF Account, Counted, InodeType
<1>7. CallsTidy(p)'
    BY <1>1, <1>2, <1>3, <1>5 DEF Account, CallsTidy, Of
<1>8. Accounted(p)'
    BY <1>1, <1>2, <1>3, <1>5 DEF Account, Accounted, Of
<1>9. Held(p)'
    BY <1>1, <1>2, <1>3, <1>5 DEF Account, Held, Of
<1>10. /\ os' \in [Procs -> [Ranges -> {"none", "read", "write"}]]
       /\ step' \in [Handles -> Steps] /\ goal' \in [Handles -> {Unlocked, Shared}]
    BY <1>1, <1>2 DEF TypeOK
<1>11. \A r \in Ranges : Weaker(os'[p][r], os[p][r]) 
    BY <1>2 DEF Weaker
<1> QED
    BY <1>1, <1>2, <1>3, <1>4, <1>5, <1>6, <1>7, <1>8, <1>9, <1>10, <1>11, CallStep

LEMMA KeepsJoinShared ==
    ASSUME UnixInv, NEW h \in Handles, JoinShared(h)
    PROVE  UnixInv'
<1> DEFINE p == Process[h]
<1> USE DEF Unlocked, Shared, Reserved, Pending, Exclusive
<1>1. /\ p \in Procs /\ h \in Of(p) /\ Account(p) /\ TypeOK
      /\ N \in Nat /\ inode[p] \in InodeType /\ inode[p].lock \in 0 .. 4
      /\ \A g \in Handles : file[g].level \in 0 .. 4
      /\ \A r \in Ranges : os[p][r] \in {"none", "read", "write"}
    BY Entering DEF TypeOK, InodeType, Levels
<1>2. /\ file[h].open /\ file[h].level = Unlocked /\ \A g \in Of(p) : step[g] = "idle"
      /\ inode[p].lock \in {Shared, Reserved}
      /\ os' = os /\ step' = step /\ goal' = goal
    BY Entering DEF JoinShared
<1>3. /\ file' \in FileType /\ \A g \in Handles : file'[g].open = file[g].open
      /\ \A g \in Handles : file'[g].level = IF g = h THEN Shared ELSE file[g].level
      /\ \A g \in Handles : g # h => file'[g] = file[g]
    BY <1>1, LevelEffect DEF JoinShared, Levels
<1> HIDE DEF p
<1>4. /\ inode' = [inode EXCEPT ![p] = inode'[p]] /\ inode'[p] \in Counters
      /\ inode'[p] = [inode[p] EXCEPT !.nShared = @ + 1, !.nLock = @ + 1]
      /\ inode'[p].lock = inode[p].lock
    <2>1. inode' = [inode EXCEPT ![p].nShared = @ + 1, ![p].nLock = @ + 1]
        BY DEF JoinShared, p
    <2> QED
        BY <1>1, <2>1 DEF TypeOK, InodeType, Counters
<1>5. Counted(p)'
    <2>1. Sharing(p)' = Sharing(p) \cup {h} /\ h \notin Sharing(p) /\ Opened(p)' = Opened(p)
        BY <1>1, <1>2, <1>3 DEF Opened, Sharing, Of
    <2>2. Cardinality(Sharing(p)') = Cardinality(Sharing(p)) + 1
        BY <2>1, OneMore DEF Sharing, Of
    <2> QED
        BY <1>1, <1>4, <2>1, <2>2 DEF Account, Counted, InodeType
<1>6. CallsTidy(p)'
    BY <1>1, <1>2, <1>3, <1>4 DEF Account, CallsTidy, Of
<1>7. Accounted(p)'
    BY <1>1, <1>2, <1>3, <1>4 DEF Account, CallsTidy, Accounted, Of
<1>8. Held(p)'
    BY <1>1, <1>2, <1>3, <1>4 DEF Account, CallsTidy, Accounted, Held, Of
<1>9. /\ os' \in [Procs -> [Ranges -> {"none", "read", "write"}]] /\ file' \in FileType
      /\ step' \in [Handles -> Steps] /\ goal' \in [Handles -> {Unlocked, Shared}]
    BY <1>1, <1>2, <1>3 DEF TypeOK, FileType
<1>10. /\ \A r \in Ranges : Weaker(os'[p][r], os[p][r]) \/ Grants(p, r, os'[p][r])
       /\ inode'[p].lock = Exclusive =>
              inode[p].lock = Exclusive \/ Grants(p, "shared", "write")
       /\ os'[p]["shared"] # "none" =>
              os[p]["shared"] # "none" \/ os[p]["pending"] = "read"
    BY <1>1, <1>2, <1>3, <1>4 DEF Weaker, Ranges, Account, Held
<1>11. \A g \in Handles : g # h =>
           file'[g] = file[g] /\ step'[g] = step[g] /\ goal'[g] = goal[g]
    BY <1>2, <1>3
<1> QED
    BY <1>1, <1>2, <1>3, <1>4, <1>5, <1>6, <1>7, <1>8, <1>9, <1>10, <1>11, CallStep

LEMMA KeepsAskShared ==
    ASSUME UnixInv, NEW h \in Handles, AskShared(h)
    PROVE  UnixInv'
<1> DEFINE p == Process[h]
<1> USE DEF Unlocked, Shared, Reserved, Pending, Exclusive
<1>1. /\ p \in Procs /\ h \in Of(p) /\ Account(p) /\ TypeOK
      /\ N \in Nat /\ inode[p] \in InodeType /\ inode[p].lock \in 0 .. 4
      /\ \A g \in Handles : file[g].level \in 0 .. 4
      /\ \A r \in Ranges : os[p][r] \in {"none", "read", "write"}
    BY Entering DEF TypeOK, InodeType, Levels
<1>2. /\ file[h].open /\ file[h].level = Unlocked /\ \A g \in Of(p) : step[g] = "idle"
      /\ inode[p].lock = Unlocked /\ Grants(p, "pending", "read")
      /\ inode' = inode /\ file' = file /\ goal' = goal
    BY Entering DEF AskShared
<1>3. /\ os'[p]["pending"] = "read" /\ os'[p]["reserved"] = os[p]["reserved"]
      /\ os'[p]["shared"] = os[p]["shared"]
      /\ os' \in [Procs -> [Ranges -> {"none", "read", "write"}]]
      /\ \A q \in Procs : q # p => os'[q] = os[q]
      /\ step' \in [Handles -> Steps]
      /\ \A g \in Handles : step'[g] = IF g = h THEN "read" ELSE step[g]
    BY <1>1, SetLkEffect, GotoEffect DEF AskShared, Ranges, Steps
<1> HIDE DEF p
<1>4. inode' = [inode EXCEPT ![p] = inode'[p]] /\ inode'[p] = inode[p] /\ inode'[p] \in Counters
    BY <1>1, <1>2 DEF TypeOK, InodeType, Counters
<1>5. Counted(p)'
    BY <1>1, <1>2, <1>3, <1>4 DEF Account, Counted, Sharing, Opened, Of
<1>6. CallsTidy(p)'
    BY <1>1, <1>2, <1>3, <1>4 DEF Account, CallsTidy, Of
<1>7. Accounted(p)'
    BY <1>1, <1>2, <1>3, <1>4 DEF Account, CallsTidy, Accounted, Of
<1>8. Held(p)'
    BY <1>1, <1>2, <1>3, <1>4 DEF Account, CallsTidy, Accounted, Held, Of
<1>9. /\ os' \in [Procs -> [Ranges -> {"none", "read", "write"}]] /\ file' \in FileType
      /\ step' \in [Handles -> Steps] /\ goal' \in [Handles -> {Unlocked, Shared}]
    BY <1>1, <1>2, <1>3 DEF TypeOK, FileType
<1>10. /\ \A r \in Ranges : Weaker(os'[p][r], os[p][r]) \/ Grants(p, r, os'[p][r])
       /\ inode'[p].lock = Exclusive =>
              inode[p].lock = Exclusive \/ Grants(p, "shared", "write")
       /\ os'[p]["shared"] # "none" =>
              os[p]["shared"] # "none" \/ os[p]["pending"] = "read"
    BY <1>1, <1>2, <1>3, <1>4 DEF Weaker, Ranges, Account, Held
<1>11. \A g \in Handles : g # h =>
           file'[g] = file[g] /\ step'[g] = step[g] /\ goal'[g] = goal[g]
    BY <1>2, <1>3
<1> QED
    BY <1>1, <1>2, <1>3, <1>4, <1>5, <1>6, <1>7, <1>8, <1>9, <1>10, <1>11, CallStep

LEMMA KeepsReadLock ==
    ASSUME UnixInv, NEW h \in Handles, ReadLock(h)
    PROVE  UnixInv'
<1> DEFINE p == Process[h]
<1> USE DEF Unlocked, Shared, Reserved, Pending, Exclusive
<1>1. /\ p \in Procs /\ h \in Of(p) /\ Account(p) /\ TypeOK
      /\ N \in Nat /\ inode[p] \in InodeType /\ inode[p].lock \in 0 .. 4
      /\ \A g \in Handles : file[g].level \in 0 .. 4
      /\ \A r \in Ranges : os[p][r] \in {"none", "read", "write"}
    BY Entering DEF TypeOK, InodeType, Levels
<1>2. /\ step[h] = "read" /\ \A g \in Of(p) : g # h => step[g] = "idle"
      /\ inode' = inode /\ file' = file /\ goal' = goal
    BY Entering DEF ReadLock
<1>3. /\ os'[p]["pending"] = os[p]["pending"] /\ os'[p]["reserved"] = os[p]["reserved"]
      /\ os'[p]["shared"] = IF Grants(p, "shared", "read") THEN "read" ELSE os[p]["shared"]
      /\ os' \in [Procs -> [Ranges -> {"none", "read", "write"}]]
      /\ \A q \in Procs : q # p => os'[q] = os[q]
      /\ step' \in [Handles -> Steps]
      /\ \A g \in Handles : step'[g] = IF g = h THEN (IF Grants(p, "shared", "read") THEN "got" ELSE "refused") ELSE step[g]
    BY <1>1, SetLkEffect, GotoEffect DEF ReadLock, Ranges, Steps, TypeOK
<1> HIDE DEF p
<1>4. inode' = [inode EXCEPT ![p] = inode'[p]] /\ inode'[p] = inode[p] /\ inode'[p] \in Counters
    BY <1>1, <1>2 DEF TypeOK, InodeType, Counters
<1>5. Counted(p)'
    BY <1>1, <1>2, <1>3, <1>4 DEF Account, Counted, Sharing, Opened, Of
<1>6. CallsTidy(p)'
    BY <1>1, <1>2, <1>3, <1>4 DEF Account, CallsTidy, Of
<1>7. Accounted(p)'
    BY <1>1, <1>2, <1>3, <1>4 DEF Account, CallsTidy, Accounted, Of
<1>8. Held(p)'
    BY <1>1, <1>2, <1>3, <1>4 DEF Account, CallsTidy, Accounted, Held, Of
<1>9. /\ os' \in [Procs -> [Ranges -> {"none", "read", "write"}]] /\ file' \in FileType
      /\ step' \in [Handles -> Steps] /\ goal' \in [Handles -> {Unlocked, Shared}]
    BY <1>1, <1>2, <1>3 DEF TypeOK, FileType
<1>10. /\ \A r \in Ranges : Weaker(os'[p][r], os[p][r]) \/ Grants(p, r, os'[p][r])
       /\ inode'[p].lock = Exclusive =>
              inode[p].lock = Exclusive \/ Grants(p, "shared", "write")
       /\ os'[p]["shared"] # "none" =>
              os[p]["shared"] # "none" \/ os[p]["pending"] = "read"
    BY <1>1, <1>2, <1>3, <1>4 DEF Weaker, Ranges, Account, Held
<1>11. \A g \in Handles : g # h =>
           file'[g] = file[g] /\ step'[g] = step[g] /\ goal'[g] = goal[g]
    BY <1>2, <1>3
<1> QED
    BY <1>1, <1>2, <1>3, <1>4, <1>5, <1>6, <1>7, <1>8, <1>9, <1>10, <1>11, CallStep

LEMMA KeepsDropPending ==
    ASSUME UnixInv, NEW h \in Handles, DropPending(h)
    PROVE  UnixInv'
<1> DEFINE p == Process[h]
<1> USE DEF Unlocked, Shared, Reserved, Pending, Exclusive
<1>1. /\ p \in Procs /\ h \in Of(p) /\ Account(p) /\ TypeOK
      /\ N \in Nat /\ inode[p] \in InodeType /\ inode[p].lock \in 0 .. 4
      /\ \A g \in Handles : file[g].level \in 0 .. 4
      /\ \A r \in Ranges : os[p][r] \in {"none", "read", "write"}
    BY Entering DEF TypeOK, InodeType, Levels
<1>2. /\ step[h] \in {"got", "refused"} /\ \A g \in Of(p) : g # h => step[g] = "idle"
      /\ inode[p].lock = Unlocked /\ \A g \in Of(p) : file[g].level = Unlocked
      /\ goal' = goal
    BY <1>1, Entering DEF DropPending, Account, CallsTidy, Accounted, Of
<1>3. /\ os'[p]["pending"] = "none" /\ os'[p]["reserved"] = os[p]["reserved"]
      /\ os'[p]["shared"] = os[p]["shared"]
      /\ os' \in [Procs -> [Ranges -> {"none", "read", "write"}]]
      /\ \A q \in Procs : q # p => os'[q] = os[q]
      /\ step' \in [Handles -> Steps]
      /\ \A g \in Handles : step'[g] = IF g = h THEN "idle" ELSE step[g]
      /\ file' \in FileType /\ \A g \in Handles : file'[g].open = file[g].open
      /\ \A g \in Handles : file'[g].level = IF g = h THEN (IF step[h] = "got" THEN Shared ELSE file[h].level) ELSE file[g].level
      /\ \A g \in Handles : g # h => file'[g] = file[g]
    BY <1>1, SetLkEffect, GotoEffect, LevelEffect
        DEF DropPending, Ranges, Steps, Levels, TypeOK, FileType
<1> HIDE DEF p
<1>4. /\ inode' = [inode EXCEPT ![p] = inode'[p]] /\ inode'[p] \in Counters
      /\ step[h] = "refused" => inode'[p] = inode[p]
      /\ step[h] = "got" =>
             inode'[p] = [lock |-> Shared, nShared |-> 1, nLock |-> inode[p].nLock + 1,
                          nRef |-> inode[p].nRef, unused |-> inode[p].unused]
    <2>1. CASE step[h] = "got"
        <3>1. inode' = [inode EXCEPT ![p].lock = Shared, ![p].nShared = 1, ![p].nLock = @ + 1]
            BY <2>1 DEF DropPending, p
        <3> QED
            BY <1>1, <2>1, <3>1 DEF TypeOK, InodeType, Counters, Levels
    <2>2. CASE step[h] = "refused"
        <3>1. inode' = inode
            BY <2>2 DEF DropPending, p
        <3> QED
            BY <1>1, <2>2, <3>1 DEF TypeOK, InodeType, Counters
    <2> QED
        BY <1>2, <2>1, <2>2
<1>5. Counted(p)'
    <2>1. Opened(p)' = Opened(p) /\ Sharing(p) = {}
        BY <1>1, <1>2, <1>3 DEF Opened, Sharing, Of
    <2>2. CASE step[h] = "got"
        <3>1. Sharing(p)' = {h}
            BY <1>1, <1>2, <1>3, <2>2 DEF Sharing, Of
        <3>2. Cardinality(Sharing(p)) = 0 /\ Cardinality(Sharing(p)') = 1
            BY <2>1, <3>1, FS_EmptySet, FS_Singleton
        <3> QED
            BY <1>1, <1>4, <2>1, <2>2, <3>2 DEF Account, Counted, InodeType
    <2>3. CASE step[h] = "refused"
        <3>1. Sharing(p)' = Sharing(p)
            BY <1>1, <1>2, <1>3, <2>3 DEF Sharing, Of
        <3> QED
            BY <1>1, <1>4, <2>1, <2>3, <3>1 DEF Account, Counted
    <2> QED
        BY <1>2, <2>2, <2>3
<1>6. CallsTidy(p)'
    BY <1>1, <1>2, <1>3, <1>4 DEF Account, CallsTidy, Of
<1>7. Accounted(p)'
    BY <1>1, <1>2, <1>3, <1>4 DEF Account, CallsTidy, Accounted, Of
<1>8. Held(p)'
    BY <1>1, <1>2, <1>3, <1>4 DEF Account, CallsTidy, Accounted, Held, Of
<1>9. /\ os' \in [Procs -> [Ranges -> {"none", "read", "write"}]] /\ file' \in FileType
      /\ step' \in [Handles -> Steps] /\ goal' \in [Handles -> {Unlocked, Shared}]
    BY <1>1, <1>2, <1>3 DEF TypeOK, FileType
<1>10. /\ \A r \in Ranges : Weaker(os'[p][r], os[p][r]) \/ Grants(p, r, os'[p][r])
       /\ inode'[p].lock = Exclusive =>
              inode[p].lock = Exclusive \/ Grants(p, "shared", "write")
       /\ os'[p]["shared"] # "none" =>
              os[p]["shared"] # "none" \/ os[p]["pending"] = "read"
    BY <1>1, <1>2, <1>3, <1>4 DEF Weaker, Ranges, Account, Held
<1>11. \A g \in Handles : g # h =>
           file'[g] = file[g] /\ step'[g] = step[g] /\ goal'[g] = goal[g]
    BY <1>2, <1>3
<1> QED
    BY <1>1, <1>2, <1>3, <1>4, <1>5, <1>6, <1>7, <1>8, <1>9, <1>10, <1>11, CallStep

LEMMA KeepsLockReserved ==
    ASSUME UnixInv, NEW h \in Handles, LockReserved(h)
    PROVE  UnixInv'
<1> DEFINE p == Process[h]
<1> USE DEF Unlocked, Shared, Reserved, Pending, Exclusive
<1>1. /\ p \in Procs /\ h \in Of(p) /\ Account(p) /\ TypeOK
      /\ N \in Nat /\ inode[p] \in InodeType /\ inode[p].lock \in 0 .. 4
      /\ \A g \in Handles : file[g].level \in 0 .. 4
      /\ \A r \in Ranges : os[p][r] \in {"none", "read", "write"}
    BY Entering DEF TypeOK, InodeType, Levels
<1>2. /\ file[h].open /\ file[h].level = Shared /\ \A g \in Of(p) : step[g] = "idle"
      /\ inode[p].lock = Shared /\ Grants(p, "reserved", "write")
      /\ step' = step /\ goal' = goal
    BY Entering DEF LockReserved
<1>3. /\ os'[p]["reserved"] = "write" /\ os'[p]["pending"] = os[p]["pending"]
      /\ os'[p]["shared"] = os[p]["shared"]
      /\ os' \in [Procs -> [Ranges -> {"none", "read", "write"}]]
      /\ \A q \in Procs : q # p => os'[q] = os[q]
      /\ file' \in FileType /\ \A g \in Handles : file'[g].open = file[g].open
      /\ \A g \in Handles : file'[g].level = IF g = h THEN Reserved ELSE file[g].level
      /\ \A g \in Handles : g # h => file'[g] = file[g]
    BY <1>1, SetLkEffect, LevelEffect DEF LockReserved, Ranges, Levels
<1> HIDE DEF p
<1>4. /\ inode' = [inode EXCEPT ![p] = inode'[p]] /\ inode'[p] \in Counters
      /\ inode'[p] = [inode[p] EXCEPT !.lock = Reserved]
      /\ inode'[p].lock = Reserved
    <2>1. inode' = [inode EXCEPT ![p].lock = Reserved]
        BY DEF LockReserved, p
    <2>2. TypeOK /\ p \in Procs /\ (Reserved) \in Levels
        BY <1>1 DEF Levels
    <2> QED
        BY <2>1, <2>2, LockEffect
<1>5. Counted(p)'
    <2>1. Sharing(p)' = Sharing(p) /\ Opened(p)' = Opened(p)
        BY <1>1, <1>2, <1>3 DEF Opened, Sharing, Of, Account, CallsTidy
    <2> QED
        BY <1>1, <1>4, <2>1 DEF Account, Counted, InodeType
<1>6. CallsTidy(p)'
    BY <1>1, <1>2, <1>3, <1>4 DEF Account, CallsTidy, Of
<1>7. Accounted(p)'
    BY <1>1, <1>2, <1>3, <1>4 DEF Account, CallsTidy, Accounted, Of
<1>8. Held(p)'
    BY <1>1, <1>2, <1>3, <1>4 DEF Account, CallsTidy, Accounted, Held, Of
<1>9. /\ os' \in [Procs -> [Ranges -> {"none", "read", "write"}]] /\ file' \in FileType
      /\ step' \in [Handles -> Steps] /\ goal' \in [Handles -> {Unlocked, Shared}]
    BY <1>1, <1>2, <1>3 DEF TypeOK, FileType
<1>10. /\ \A r \in Ranges : Weaker(os'[p][r], os[p][r]) \/ Grants(p, r, os'[p][r])
       /\ inode'[p].lock = Exclusive =>
              inode[p].lock = Exclusive \/ Grants(p, "shared", "write")
       /\ os'[p]["shared"] # "none" =>
              os[p]["shared"] # "none" \/ os[p]["pending"] = "read"
    BY <1>1, <1>2, <1>3, <1>4 DEF Weaker, Ranges, Account, Held
<1>11. \A g \in Handles : g # h =>
           file'[g] = file[g] /\ step'[g] = step[g] /\ goal'[g] = goal[g]
    BY <1>2, <1>3
<1> QED
    BY <1>1, <1>2, <1>3, <1>4, <1>5, <1>6, <1>7, <1>8, <1>9, <1>10, <1>11, CallStep

LEMMA KeepsAskExclusive ==
    ASSUME UnixInv, NEW h \in Handles, AskExclusive(h)
    PROVE  UnixInv'
<1> DEFINE p == Process[h]
<1> USE DEF Unlocked, Shared, Reserved, Pending, Exclusive
<1>1. /\ p \in Procs /\ h \in Of(p) /\ Account(p) /\ TypeOK
      /\ N \in Nat /\ inode[p] \in InodeType /\ inode[p].lock \in 0 .. 4
      /\ \A g \in Handles : file[g].level \in 0 .. 4
      /\ \A r \in Ranges : os[p][r] \in {"none", "read", "write"}
    BY Entering DEF TypeOK, InodeType, Levels
<1>2. /\ file[h].open /\ file[h].level \in Shared .. Pending /\ inode[p].lock = file[h].level
      /\ \A g \in Of(p) : step[g] = "idle"
      /\ inode' = inode /\ file' = file /\ goal' = goal
    BY Entering DEF AskExclusive
<1>3. /\ os'[p]["reserved"] = os[p]["reserved"] /\ os'[p]["shared"] = os[p]["shared"]
      /\ IF file[h].level = Pending THEN os'[p]["pending"] = os[p]["pending"]
         ELSE os'[p]["pending"] = "write" /\ Grants(p, "pending", "write")
      /\ os' \in [Procs -> [Ranges -> {"none", "read", "write"}]]
      /\ \A q \in Procs : q # p => os'[q] = os[q]
      /\ step' \in [Handles -> Steps]
      /\ \A g \in Handles : step'[g] = IF g = h THEN "write" ELSE step[g]
    BY <1>1, SetLkEffect, GotoEffect DEF AskExclusive, Ranges, Steps, TypeOK
<1> HIDE DEF p
<1>4. inode' = [inode EXCEPT ![p] = inode'[p]] /\ inode'[p] = inode[p] /\ inode'[p] \in Counters
    BY <1>1, <1>2 DEF TypeOK, InodeType, Counters
<1>5. Counted(p)'
    BY <1>1, <1>2, <1>3, <1>4 DEF Account, Counted, Sharing, Opened, Of
<1>6. CallsTidy(p)'
    BY <1>1, <1>2, <1>3, <1>4 DEF Account, CallsTidy, Of
<1>7. Accounted(p)'
    BY <1>1, <1>2, <1>3, <1>4 DEF Account, CallsTidy, Accounted, Of
<1>8. Held(p)'
    BY <1>1, <1>2, <1>3, <1>4 DEF Account, CallsTidy, Accounted, Held, Of
<1>9. /\ os' \in [Procs -> [Ranges -> {"none", "read", "write"}]] /\ file' \in FileType
      /\ step' \in [Handles -> Steps] /\ goal' \in [Handles -> {Unlocked, Shared}]
    BY <1>1, <1>2, <1>3 DEF TypeOK, FileType
<1>10. /\ \A r \in Ranges : Weaker(os'[p][r], os[p][r]) \/ Grants(p, r, os'[p][r])
       /\ inode'[p].lock = Exclusive =>
              inode[p].lock = Exclusive \/ Grants(p, "shared", "write")
       /\ os'[p]["shared"] # "none" =>
              os[p]["shared"] # "none" \/ os[p]["pending"] = "read"
    BY <1>1, <1>2, <1>3, <1>4 DEF Weaker, Ranges, Account, Held
<1>11. \A g \in Handles : g # h =>
           file'[g] = file[g] /\ step'[g] = step[g] /\ goal'[g] = goal[g]
    BY <1>2, <1>3
<1> QED
    BY <1>1, <1>2, <1>3, <1>4, <1>5, <1>6, <1>7, <1>8, <1>9, <1>10, <1>11, CallStep

LEMMA KeepsWriteLock ==
    ASSUME UnixInv, NEW h \in Handles, WriteLock(h)
    PROVE  UnixInv'
<1> DEFINE p == Process[h]
<1> USE DEF Unlocked, Shared, Reserved, Pending, Exclusive
<1>1. /\ p \in Procs /\ h \in Of(p) /\ Account(p) /\ TypeOK
      /\ N \in Nat /\ inode[p] \in InodeType /\ inode[p].lock \in 0 .. 4
      /\ \A g \in Handles : file[g].level \in 0 .. 4
      /\ \A r \in Ranges : os[p][r] \in {"none", "read", "write"}
    BY Entering DEF TypeOK, InodeType, Levels
<1>2. /\ step[h] = "write" /\ \A g \in Of(p) : g # h => step[g] = "idle"
      /\ file[h].level \in Shared .. Pending /\ inode[p].lock = file[h].level
      /\ goal' = goal
    BY <1>1, Entering DEF WriteLock, Account, CallsTidy, Of
<1> DEFINE alone == inode[p].nShared = 1 /\ Grants(p, "shared", "write")
<1>3. /\ os'[p]["reserved"] = os[p]["reserved"] /\ os'[p]["pending"] = os[p]["pending"]
      /\ os'[p]["shared"] = IF alone THEN "write" ELSE os[p]["shared"]
      /\ os' \in [Procs -> [Ranges -> {"none", "read", "write"}]]
      /\ \A q \in Procs : q # p => os'[q] = os[q]
      /\ step' \in [Handles -> Steps]
      /\ \A g \in Handles : step'[g] = IF g = h THEN "idle" ELSE step[g]
      /\ file' \in FileType /\ \A g \in Handles : file'[g].open = file[g].open
      /\ \A g \in Handles : file'[g].level = IF g = h THEN (IF alone THEN Exclusive ELSE Pending) ELSE file[g].level
      /\ \A g \in Handles : g # h => file'[g] = file[g]
    BY <1>1, SetLkEffect, GotoEffect, LevelEffect
        DEF WriteLock, Ranges, Steps, Levels, TypeOK
<1> HIDE DEF p
<1>4. /\ inode' = [inode EXCEPT ![p] = inode'[p]] /\ inode'[p] \in Counters
      /\ inode'[p] = [inode[p] EXCEPT !.lock = IF alone THEN Exclusive ELSE Pending]
      /\ inode'[p].lock = IF alone THEN Exclusive ELSE Pending
    <2>1. inode' = [inode EXCEPT ![p].lock = IF alone THEN Exclusive ELSE Pending]
        BY DEF WriteLock, p
    <2>2. TypeOK /\ p \in Procs /\ (IF alone THEN Exclusive ELSE Pending) \in Levels
        BY <1>1 DEF Levels
    <2> QED
        BY <2>1, <2>2, LockEffect
<1>5. Counted(p)'
    <2>1. Sharing(p)' = Sharing(p) /\ Opened(p)' = Opened(p)
        BY <1>1, <1>2, <1>3 DEF Opened, Sharing, Of, Account, CallsTidy
    <2> QED
        BY <1>1, <1>4, <2>1 DEF Account, Counted, InodeType
<1>6. CallsTidy(p)'
    BY <1>1, <1>2, <1>3, <1>4 DEF Account, CallsTidy, Of
<1>7. Accounted(p)'
    BY <1>1, <1>2, <1>3, <1>4 DEF Account, CallsTidy, Accounted, Of
<1>8. Held(p)'
    BY <1>1, <1>2, <1>3, <1>4 DEF Account, CallsTidy, Accounted, Held, Of
<1>9. /\ os' \in [Procs -> [Ranges -> {"none", "read", "write"}]] /\ file' \in FileType
      /\ step' \in [Handles -> Steps] /\ goal' \in [Handles -> {Unlocked, Shared}]
    BY <1>1, <1>2, <1>3 DEF TypeOK, FileType
<1>10. /\ \A r \in Ranges : Weaker(os'[p][r], os[p][r]) \/ Grants(p, r, os'[p][r])
       /\ inode'[p].lock = Exclusive =>
              inode[p].lock = Exclusive \/ Grants(p, "shared", "write")
       /\ os'[p]["shared"] # "none" =>
              os[p]["shared"] # "none" \/ os[p]["pending"] = "read"
    BY <1>1, <1>2, <1>3, <1>4 DEF Weaker, Ranges, Account, Held
<1>11. \A g \in Handles : g # h =>
           file'[g] = file[g] /\ step'[g] = step[g] /\ goal'[g] = goal[g]
    BY <1>2, <1>3
<1> QED
    BY <1>1, <1>2, <1>3, <1>4, <1>5, <1>6, <1>7, <1>8, <1>9, <1>10, <1>11, CallStep

LEMMA KeepsUnlock ==
    ASSUME UnixInv, NEW h \in Handles, NEW l \in {Unlocked, Shared}, Unlock(h, l)
    PROVE  UnixInv'
<1> DEFINE p == Process[h]
<1> USE DEF Unlocked, Shared, Reserved, Pending, Exclusive
<1>1. /\ p \in Procs /\ h \in Of(p) /\ Account(p) /\ TypeOK
      /\ N \in Nat /\ inode[p] \in InodeType /\ inode[p].lock \in 0 .. 4
      /\ \A g \in Handles : file[g].level \in 0 .. 4
      /\ \A r \in Ranges : os[p][r] \in {"none", "read", "write"}
    BY Entering DEF TypeOK, InodeType, Levels
<1>2. /\ file[h].open /\ file[h].level > l /\ \A g \in Of(p) : step[g] = "idle"
      /\ inode' = inode /\ file' = file
    BY Entering DEF Unlock
<1>3. /\ os'[p]["reserved"] = os[p]["reserved"] /\ os'[p]["pending"] = os[p]["pending"]
      /\ os'[p]["shared"] = IF file[h].level > Shared /\ l = Shared THEN "read"
                            ELSE os[p]["shared"]
      /\ os' \in [Procs -> [Ranges -> {"none", "read", "write"}]]
      /\ \A q \in Procs : q # p => os'[q] = os[q]
      /\ step' \in [Handles -> Steps]
      /\ \A g \in Handles : step'[g] = IF g = h THEN (IF file[h].level > Shared THEN "bytes" ELSE "release") ELSE step[g]
      /\ goal' \in [Handles -> {Unlocked, Shared}]
      /\ \A g \in Handles : goal'[g] = IF g = h THEN l ELSE goal[g]
    BY <1>1, SetLkEffect, GotoEffect DEF Unlock, Ranges, Steps, TypeOK
<1> HIDE DEF p
<1>4. inode' = [inode EXCEPT ![p] = inode'[p]] /\ inode'[p] = inode[p] /\ inode'[p] \in Counters
    BY <1>1, <1>2 DEF TypeOK, InodeType, Counters
<1>5. Counted(p)'
    BY <1>1, <1>2, <1>3, <1>4 DEF Account, Counted, Sharing, Opened, Of
<1>6. CallsTidy(p)'
    BY <1>1, <1>2, <1>3, <1>4 DEF Account, CallsTidy, Of
<1>7. Accounted(p)'
    BY <1>1, <1>2, <1>3, <1>4 DEF Account, CallsTidy, Accounted, Of
<1>8. Held(p)'
    BY <1>1, <1>2, <1>3, <1>4 DEF Account, CallsTidy, Accounted, Held, Of
<1>9. /\ os' \in [Procs -> [Ranges -> {"none", "read", "write"}]] /\ file' \in FileType
      /\ step' \in [Handles -> Steps] /\ goal' \in [Handles -> {Unlocked, Shared}]
    BY <1>1, <1>2, <1>3 DEF TypeOK, FileType
<1>10. /\ \A r \in Ranges : Weaker(os'[p][r], os[p][r]) \/ Grants(p, r, os'[p][r])
       /\ inode'[p].lock = Exclusive =>
              inode[p].lock = Exclusive \/ Grants(p, "shared", "write")
       /\ os'[p]["shared"] # "none" =>
              os[p]["shared"] # "none" \/ os[p]["pending"] = "read"
    BY <1>1, <1>2, <1>3, <1>4 DEF Weaker, Ranges, Account, Accounted, Held, Of
<1>11. \A g \in Handles : g # h =>
           file'[g] = file[g] /\ step'[g] = step[g] /\ goal'[g] = goal[g]
    BY <1>2, <1>3
<1> QED
    BY <1>1, <1>2, <1>3, <1>4, <1>5, <1>6, <1>7, <1>8, <1>9, <1>10, <1>11, CallStep

LEMMA KeepsUnlockBytes ==
    ASSUME UnixInv, NEW h \in Handles, UnlockBytes(h)
    PROVE  UnixInv'
<1> DEFINE p == Process[h]
<1> USE DEF Unlocked, Shared, Reserved, Pending, Exclusive
<1>1. /\ p \in Procs /\ h \in Of(p) /\ Account(p) /\ TypeOK
      /\ N \in Nat /\ inode[p] \in InodeType /\ inode[p].lock \in 0 .. 4
      /\ \A g \in Handles : file[g].level \in 0 .. 4
      /\ \A r \in Ranges : os[p][r] \in {"none", "read", "write"}
    BY Entering DEF TypeOK, InodeType, Levels
<1>2. /\ step[h] = "bytes" /\ \A g \in Of(p) : g # h => step[g] = "idle"
      /\ file[h].level > Shared /\ goal[h] \in {Unlocked, Shared} /\ goal' = goal
    BY <1>1, Entering DEF UnlockBytes, Account, CallsTidy, Of, TypeOK
<1>3. /\ os'[p]["reserved"] = "none" /\ os'[p]["pending"] = "none"
      /\ os'[p]["shared"] = os[p]["shared"]
      /\ os' \in [Procs -> [Ranges -> {"none", "read", "write"}]]
      /\ \A q \in Procs : q # p => os'[q] = os[q]
      /\ step' \in [Handles -> Steps]
      /\ \A g \in Handles : step'[g] = IF g = h THEN (IF goal[h] = Shared THEN "idle" ELSE "release") ELSE step[g]
      /\ file' \in FileType /\ \A g \in Handles : file'[g].open = file[g].open
      /\ \A g \in Handles : file'[g].level = IF g = h THEN (IF goal[h] = Shared THEN Shared ELSE file[h].level) ELSE file[g].level
      /\ \A g \in Handles : g # h => file'[g] = file[g]
    <2>1. os' = [os EXCEPT ![p]["pending"] = "none", ![p]["reserved"] = "none"]
        BY DEF UnlockBytes
    <2>2. /\ os'[p]["reserved"] = "none" /\ os'[p]["pending"] = "none"
          /\ os'[p]["shared"] = os[p]["shared"]
          /\ os' \in [Procs -> [Ranges -> {"none", "read", "write"}]]
          /\ \A q \in Procs : q # p => os'[q] = os[q]
        BY <1>1, <2>1 DEF TypeOK, Ranges
    <2>3. CASE goal[h] = Shared
        BY <1>1, <1>2, <2>2, <2>3, GotoEffect, LevelEffect DEF UnlockBytes, Steps, Levels
    <2>4. CASE goal[h] # Shared
        <3>1. file' = file /\ Goto(h, "release")
            BY <2>4 DEF UnlockBytes
        <3>2. file \in FileType
            BY <1>1 DEF TypeOK, FileType
        <3> QED
            BY <1>1, <2>2, <2>4, <3>1, <3>2, GotoEffect DEF Steps
    <2> QED
        BY <2>3, <2>4
<1> HIDE DEF p
<1>4. /\ inode' = [inode EXCEPT ![p] = inode'[p]] /\ inode'[p] \in Counters
      /\ inode'[p] = [inode[p] EXCEPT !.lock = Shared]
      /\ inode'[p].lock = Shared
    <2>1. inode' = [inode EXCEPT ![p].lock = Shared]
        BY DEF UnlockBytes, p
    <2>2. TypeOK /\ p \in Procs /\ (Shared) \in Levels
        BY <1>1 DEF Levels
    <2> QED
        BY <2>1, <2>2, LockEffect
<1>5. Counted(p)'
    <2>1. Sharing(p)' = Sharing(p) /\ Opened(p)' = Opened(p)
        BY <1>1, <1>2, <1>3 DEF Opened, Sharing, Of, Account, CallsTidy
    <2> QED
        BY <1>1, <1>4, <2>1 DEF Account, Counted, InodeType
<1>6. CallsTidy(p)'
    BY <1>1, <1>2, <1>3, <1>4 DEF Account, CallsTidy, Of
<1>7. Accounted(p)'
    BY <1>1, <1>2, <1>3, <1>4 DEF Account, CallsTidy, Accounted, Of
<1>8. Held(p)'
    BY <1>1, <1>2, <1>3, <1>4 DEF Account, CallsTidy, Accounted, Held, Of
<1>9. /\ os' \in [Procs -> [Ranges -> {"none", "read", "write"}]] /\ file' \in FileType
      /\ step' \in [Handles -> Steps] /\ goal' \in [Handles -> {Unlocked, Shared}]
    BY <1>1, <1>2, <1>3 DEF TypeOK, FileType
<1>10. /\ \A r \in Ranges : Weaker(os'[p][r], os[p][r]) \/ Grants(p, r, os'[p][r])
       /\ inode'[p].lock = Exclusive =>
              inode[p].lock = Exclusive \/ Grants(p, "shared", "write")
       /\ os'[p]["shared"] # "none" =>
              os[p]["shared"] # "none" \/ os[p]["pending"] = "read"
    BY <1>1, <1>2, <1>3, <1>4 DEF Weaker, Ranges, Account, Held
<1>11. \A g \in Handles : g # h =>
           file'[g] = file[g] /\ step'[g] = step[g] /\ goal'[g] = goal[g]
    BY <1>2, <1>3
<1> QED
    BY <1>1, <1>2, <1>3, <1>4, <1>5, <1>6, <1>7, <1>8, <1>9, <1>10, <1>11, CallStep

LEMMA KeepsUnlockAll ==
    ASSUME UnixInv, NEW h \in Handles, UnlockAll(h)
    PROVE  UnixInv'
<1> DEFINE p == Process[h]
<1> USE DEF Unlocked, Shared, Reserved, Pending, Exclusive
<1>1. /\ p \in Procs /\ h \in Of(p) /\ Account(p) /\ TypeOK
      /\ N \in Nat /\ inode[p] \in InodeType /\ inode[p].lock \in 0 .. 4
      /\ \A g \in Handles : file[g].level \in 0 .. 4
      /\ \A r \in Ranges : os[p][r] \in {"none", "read", "write"}
    BY Entering DEF TypeOK, InodeType, Levels
<1>2. /\ step[h] = "release" /\ \A g \in Of(p) : g # h => step[g] = "idle"
      /\ file[h].open /\ file[h].level >= Shared /\ goal' = goal
      /\ inode[p].nShared = Cardinality(Sharing(p)) /\ inode[p].nLock = inode[p].nShared
    BY <1>1, Entering DEF UnlockAll, Account, CallsTidy, Counted, Of, TypeOK
<1> DEFINE last == inode[p].nShared = 1
<1>3. /\ os' = IF last THEN [os EXCEPT ![p] = NoLocks] ELSE os
      /\ last =>
             os'[p]["pending"] = "none" /\ os'[p]["reserved"] = "none" /\ os'[p]["shared"] = "none"
      /\ os' \in [Procs -> [Ranges -> {"none", "read", "write"}]]
      /\ \A q \in Procs : q # p => os'[q] = os[q]
      /\ step' \in [Handles -> Steps]
      /\ \A g \in Handles : step'[g] = IF g = h THEN "idle" ELSE step[g]
      /\ file' \in FileType /\ \A g \in Handles : file'[g].open = file[g].open
      /\ \A g \in Handles : file'[g].level = IF g = h THEN Unlocked ELSE file[g].level
      /\ \A g \in Handles : g # h => file'[g] = file[g]
    <2>1. os' = IF last THEN [os EXCEPT ![p] = NoLocks] ELSE os
        BY <1>1, <1>2 DEF UnlockAll
    <2>2. /\ last =>
             os'[p]["pending"] = "none" /\ os'[p]["reserved"] = "none" /\ os'[p]["shared"] = "none"
          /\ os' \in [Procs -> [Ranges -> {"none", "read", "write"}]]
          /\ \A q \in Procs : q # p => os'[q] = os[q]
        BY <1>1, <2>1 DEF TypeOK, NoLocks, Ranges
    <2>3. Goto(h, "idle") /\ Level(h, Unlocked)
        BY DEF UnlockAll
    <2> QED
        BY <1>1, <2>1, <2>2, <2>3, GotoEffect, LevelEffect DEF Steps, Levels
<1> HIDE DEF p
<1>4. /\ inode' = [inode EXCEPT ![p] = inode'[p]] /\ inode'[p] \in Counters
      /\ inode'[p].nShared = inode[p].nShared - 1 /\ inode'[p].nLock = inode[p].nLock - 1
      /\ inode'[p].nRef = inode[p].nRef
      /\ inode'[p].unused \in {0, inode[p].unused}
      /\ inode'[p].lock = IF last THEN Unlocked ELSE inode[p].lock
    <2>1. /\ inode' = [inode EXCEPT ![p] = inode'[p]]
          /\ inode'[p] = [lock |-> IF last THEN Unlocked ELSE inode[p].lock,
                          nShared |-> inode[p].nShared - 1, nLock |-> inode[p].nLock - 1,
                          nRef |-> inode[p].nRef,
                          unused |-> IF inode[p].nLock = 1 THEN 0 ELSE inode[p].unused]
        BY <1>1 DEF UnlockAll, TypeOK, InodeType, p
    <2> QED
        BY <1>1, <2>1 DEF InodeType, Counters, Levels
<1>5. Counted(p)'
    <2>1. /\ Sharing(p)' = Sharing(p) \ {h} /\ h \in Sharing(p) /\ Opened(p)' = Opened(p)
          /\ Sharing(p) \in SUBSET Handles
        BY <1>1, <1>2, <1>3 DEF Opened, Sharing, Of
    <2>2. Cardinality(Sharing(p)') = Cardinality(Sharing(p)) - 1
        BY <2>1, OneLess
    <2>3. inode'[p].nRef + inode'[p].unused <= N
        BY <1>1, <1>4 DEF Account, Counted, InodeType
    <2> QED
        BY <1>1, <1>2, <1>4, <2>1, <2>2, <2>3 DEF Account, Counted, InodeType
<1>a. last <=> \A g \in Of(p) : g # h => file[g].level = Unlocked
    <2>1. Sharing(p) \in SUBSET Handles /\ h \in Sharing(p)
        BY <1>1, <1>2 DEF Sharing, Of
    <2>2. last <=> \E g : Sharing(p) = {g}
        BY <1>2, <2>1, Countable
    <2> QED
        BY <1>1, <2>1, <2>2 DEF Sharing, Of
<1>6. CallsTidy(p)'
    BY <1>1, <1>2, <1>3, <1>4 DEF Account, CallsTidy, Of
<1>7. Accounted(p)'
    BY <1>1, <1>2, <1>3, <1>4, <1>a DEF Account, CallsTidy, Accounted, Of
<1>8. Held(p)'
    BY <1>1, <1>2, <1>3, <1>4, <1>a DEF Account, CallsTidy, Accounted, Held, Of
<1>9. /\ os' \in [Procs -> [Ranges -> {"none", "read", "write"}]] /\ file' \in FileType
      /\ step' \in [Handles -> Steps] /\ goal' \in [Handles -> {Unlocked, Shared}]
    BY <1>1, <1>2, <1>3 DEF TypeOK, FileType
<1>10. /\ \A r \in Ranges : Weaker(os'[p][r], os[p][r]) \/ Grants(p, r, os'[p][r])
       /\ inode'[p].lock = Exclusive =>
              inode[p].lock = Exclusive \/ Grants(p, "shared", "write")
       /\ os'[p]["shared"] # "none" =>
              os[p]["shared"] # "none" \/ os[p]["pending"] = "read"
    BY <1>1, <1>2, <1>3, <1>4 DEF Weaker, Ranges, Account, Held
<1>11. \A g \in Handles : g # h =>
           file'[g] = file[g] /\ step'[g] = step[g] /\ goal'[g] = goal[g]
    BY <1>2, <1>3
<1> QED
    BY <1>1, <1>2, <1>3, <1>4, <1>5, <1>6, <1>7, <1>8, <1>9, <1>10, <1>11, CallStep

LEMMA KeepsClose ==
    ASSUME UnixInv, NEW h \in Handles, Close(h)
    PROVE  UnixInv'
<1> DEFINE p == Process[h]
<1> USE DEF Unlocked, Shared, Reserved, Pending, Exclusive
<1>1. /\ p \in Procs /\ h \in Of(p) /\ Account(p) /\ TypeOK
      /\ N \in Nat /\ inode[p] \in InodeType /\ inode[p].lock \in 0 .. 4
      /\ \A g \in Handles : file[g].level \in 0 .. 4
      /\ \A r \in Ranges : os[p][r] \in {"none", "read", "write"}
    BY Entering DEF TypeOK, InodeType, Levels
<1>2. /\ file[h].open /\ file[h].level = Unlocked /\ \A g \in Of(p) : step[g] = "idle"
      /\ step' = step /\ goal' = goal
    BY Entering DEF Close
<1> DEFINE lastRef == inode[p].nRef = 1
           defer == inode[p].nLock > 0
<1>3. /\ file' \in FileType
      /\ \A g \in Handles : file'[g].level = file[g].level
      /\ \A g \in Handles : file'[g].open = IF g = h THEN FALSE ELSE file[g].open
      /\ \A g \in Handles : g # h => file'[g] = file[g]
      /\ os' = IF defer /\ ~lastRef THEN os ELSE [os EXCEPT ![p] = NoLocks]
      /\ ~defer \/ lastRef =>
             os'[p]["pending"] = "none" /\ os'[p]["reserved"] = "none" /\ os'[p]["shared"] = "none"
      /\ os' \in [Procs -> [Ranges -> {"none", "read", "write"}]]
      /\ \A q \in Procs : q # p => os'[q] = os[q]
    <2>1. os' = IF defer /\ ~lastRef THEN os ELSE [os EXCEPT ![p] = NoLocks]
        BY DEF Close
    <2>2. /\ ~defer \/ lastRef =>
             os'[p]["pending"] = "none" /\ os'[p]["reserved"] = "none" /\ os'[p]["shared"] = "none"
          /\ os' \in [Procs -> [Ranges -> {"none", "read", "write"}]]
          /\ \A q \in Procs : q # p => os'[q] = os[q]
        BY <1>1, <2>1 DEF TypeOK, NoLocks, Ranges
    <2>3. file' = [file EXCEPT ![h].open = FALSE] /\ file \in FileType
        BY <1>1 DEF Close, TypeOK, FileType
    <2>4. /\ file' \in FileType
          /\ \A g \in Handles : file'[g].level = file[g].level
          /\ \A g \in Handles : file'[g].open = IF g = h THEN FALSE ELSE file[g].open
          /\ \A g \in Handles : g # h => file'[g] = file[g]
        BY <2>3 DEF FileType
    <2> QED
        BY <2>1, <2>2, <2>4
<1> HIDE DEF p
<1>a. lastRef <=> \A g \in Of(p) : g # h => ~file[g].open
    <2>1. Opened(p) \in SUBSET Handles /\ h \in Opened(p)
        BY <1>1, <1>2 DEF Opened, Of
    <2>2. lastRef <=> \E g : Opened(p) = {g}
        BY <1>1, <2>1, Countable DEF Account, Counted
    <2>3. lastRef <=> \A g \in Opened(p) : g = h
        BY <2>1, <2>2
    <2> QED
        BY <2>3 DEF Opened
<1>b. ~defer \/ lastRef => \A g \in Of(p) : file[g].level = Unlocked
    <2>1. CASE lastRef
        BY <1>1, <1>2, <1>a, <2>1 DEF Account, CallsTidy
    <2>2. CASE ~defer
        <3>1. Sharing(p) \in SUBSET Handles
            BY DEF Sharing, Of
        <3>2. Cardinality(Sharing(p)) = 0
            BY <1>1, <2>2, <3>1, Countable DEF Account, Counted
        <3> QED
            BY <1>1, <3>1, <3>2, Countable DEF Sharing, Of
    <2> QED
        BY <2>1, <2>2
<1>c. ~defer \/ lastRef => inode[p].lock = Unlocked
    BY <1>1, <1>b DEF Account, Accounted
<1>4. /\ inode' = [inode EXCEPT ![p] = inode'[p]] /\ inode'[p] \in Counters
      /\ inode'[p].nShared = IF lastRef THEN 0 ELSE inode[p].nShared
      /\ inode'[p].nLock = IF lastRef THEN 0 ELSE inode[p].nLock
      /\ inode'[p].nRef = inode[p].nRef - 1
      /\ inode'[p].nRef + inode'[p].unused <= N
      /\ inode'[p].lock = inode[p].lock
    <2>1. inode' = [inode EXCEPT ![p] = inode'[p]]
        BY <1>1 DEF Close, TypeOK, p
    <2>2. CASE lastRef
        <3>1. inode'[p] = NoInode
            BY <1>1, <2>2 DEF Close, TypeOK, p
        <3> QED
            BY <1>1, <1>c, <2>1, <2>2, <3>1 DEF NoInode, Counters, Levels
    <2>3. CASE ~lastRef
        <3>1. inode'[p] = [lock |-> inode[p].lock, nShared |-> inode[p].nShared,
                           nLock |-> inode[p].nLock, nRef |-> inode[p].nRef - 1,
                           unused |-> IF defer THEN inode[p].unused + 1 ELSE inode[p].unused]
            <4>1. inode' = [inode EXCEPT ![p].nRef = @ - 1,
                                         ![p].unused = IF inode[p].nLock > 0 THEN @ + 1 ELSE @]
                BY <2>3 DEF Close, p
            <4> QED
                BY <1>1, <4>1 DEF TypeOK, InodeType
        <3> QED
            BY <1>1, <2>1, <2>3, <3>1 DEF InodeType, Counters, Account, Counted
    <2> QED
        BY <2>2, <2>3
<1>5. Counted(p)'
    <2>a. Opened(p)' = Opened(p) \ {h}
        BY <1>1, <1>2, <1>3 DEF Opened, Of
    <2>b. /\ h \in Opened(p) /\ Sharing(p)' = Sharing(p)
          /\ Opened(p) \in SUBSET Handles /\ Sharing(p) \in SUBSET Handles
        BY <1>1, <1>2, <1>3 DEF Opened, Sharing, Of
    <2>1. /\ Opened(p)' = Opened(p) \ {h} /\ h \in Opened(p) /\ Sharing(p)' = Sharing(p)
          /\ Opened(p) \in SUBSET Handles /\ Sharing(p) \in SUBSET Handles
        BY <2>a, <2>b
    <2>2. Cardinality(Opened(p)') = Cardinality(Opened(p)) - 1
        BY <2>1, OneLess
    <2>3. lastRef => Cardinality(Sharing(p)) = 0
        BY <1>1, <1>b, <2>1, Countable DEF Sharing, Of
    <2> QED
        BY <1>1, <1>4, <2>1, <2>2, <2>3 DEF Account, Counted
<1>6. CallsTidy(p)'
    BY <1>1, <1>2, <1>3, <1>4, <1>b, <1>c DEF Account, CallsTidy, Of
<1>7. Accounted(p)'
    BY <1>1, <1>2, <1>3, <1>4, <1>b, <1>c DEF Account, CallsTidy, Accounted, Of
<1>8. Held(p)'
    BY <1>1, <1>2, <1>3, <1>4, <1>b, <1>c DEF Account, CallsTidy, Accounted, Held, Of
<1>9. /\ os' \in [Procs -> [Ranges -> {"none", "read", "write"}]] /\ file' \in FileType
      /\ step' \in [Handles -> Steps] /\ goal' \in [Handles -> {Unlocked, Shared}]
    BY <1>1, <1>2, <1>3 DEF TypeOK, FileType
<1>10. /\ \A r \in Ranges : Weaker(os'[p][r], os[p][r]) \/ Grants(p, r, os'[p][r])
       /\ inode'[p].lock = Exclusive =>
              inode[p].lock = Exclusive \/ Grants(p, "shared", "write")
       /\ os'[p]["shared"] # "none" =>
              os[p]["shared"] # "none" \/ os[p]["pending"] = "read"
    BY <1>1, <1>2, <1>3, <1>4, <1>b, <1>c DEF Weaker, Ranges, Account, Held
<1>11. \A g \in Handles : g # h =>
           file'[g] = file[g] /\ step'[g] = step[g] /\ goal'[g] = goal[g]
    BY <1>2, <1>3
<1> QED
    BY <1>1, <1>2, <1>3, <1>4, <1>5, <1>6, <1>7, <1>8, <1>9, <1>10, <1>11, CallStep

LEMMA KeepsDie ==
    ASSUME UnixInv, NEW p \in Procs, Die(p)
    PROVE  UnixInv'
<1> USE DEF Unlocked, Shared, Reserved, Pending, Exclusive
<1>1. TypeOK /\ N \in Nat
    BY UnixAssumption, FS_CardinalityType DEF UnixInv, N
<1>2. /\ \A r \in Ranges : os'[p][r] = "none"
      /\ os' \in [Procs -> [Ranges -> {"none", "read", "write"}]]
      /\ \A q \in Procs : q # p => os'[q] = os[q]
    <2>1. os' = [os EXCEPT ![p] = NoLocks]
        BY DEF Die
    <2> QED
        BY <1>1, <2>1 DEF TypeOK, NoLocks
<1>3. /\ \A g \in Of(p) : ~file'[g].open /\ file'[g].level = Unlocked /\ step'[g] = "idle"
      /\ \A g \in Handles : Process[g] # p =>
             file'[g] = file[g] /\ step'[g] = step[g] /\ goal'[g] = goal[g]
      /\ file' \in FileType /\ step' \in [Handles -> Steps]
      /\ goal' \in [Handles -> {Unlocked, Shared}]
    BY <1>1 DEF Die, TypeOK, FileType, Steps, Levels, Of
<1>4. /\ inode'[p] = NoInode /\ inode' = [inode EXCEPT ![p] = inode'[p]]
      /\ \A q \in Procs : q # p => inode'[q] = inode[q]
    BY <1>1 DEF Die, TypeOK
<1>5. Counted(p)'
    <2>1. Sharing(p)' = {} /\ Opened(p)' = {}
        BY <1>3 DEF Sharing, Opened, Of
    <2> QED
        BY <1>1, <1>4, <2>1, FS_EmptySet DEF Counted, NoInode
<1>6. CallsTidy(p)' /\ Accounted(p)'
    BY <1>3, <1>4 DEF CallsTidy, Accounted, Of, NoInode
<1>7. Held(p)'
    <2>1. /\ os'[p]["pending"] = "none" /\ os'[p]["reserved"] = "none"
          /\ os'[p]["shared"] = "none"
        BY <1>2 DEF Ranges
    <2> QED
        BY <1>3, <1>4, <2>1 DEF Held, Of, NoInode
<1>8. TypeOK'
    <2>1. inode'[p] \in Counters
        BY <1>4 DEF NoInode, Counters, Levels
    <2>2. inode' \in [Procs -> InodeType]
        BY <1>1, <1>4, <1>5, <2>1, InodeTyped
    <2> QED
        BY <1>2, <1>3, <2>2, TypedParts
<1>9. /\ \A r \in Ranges : Weaker(os'[p][r], os[p][r])
      /\ inode'[p].lock # Exclusive /\ os'[p]["shared"] = "none"
    BY <1>2, <1>4 DEF Weaker, NoInode, Ranges
<1>10. Account(p)'
    BY <1>5, <1>6, <1>7 DEF Account
<1> QED
    BY <1>2, <1>3, <1>4, <1>8, <1>9, <1>10, StepOf

----------------------------------------------------------------------------
(* The invariant *)

LEMMA InitUnix == Init => UnixInv
<1> SUFFICES ASSUME Init PROVE UnixInv
    OBVIOUS
<1> USE DEF Unlocked, Shared, Reserved, Pending, Exclusive
<1>1. N \in Nat
    BY UnixAssumption, FS_CardinalityType DEF N
<1>2. TypeOK
    BY <1>1 DEF Init, TypeOK, NoLocks, NoInode, Ranges, Levels, Steps
<1>3. ASSUME NEW p \in Procs PROVE Account(p)
    <2>1. \A g \in Of(p) : ~file[g].open /\ file[g].level = Unlocked /\ step[g] = "idle"
        BY DEF Init, Of
    <2>2. inode[p] = NoInode /\ os[p]["pending"] = "none" /\ os[p]["reserved"] = "none"
          /\ os[p]["shared"] = "none"
        BY DEF Init, NoLocks, Ranges
    <2>3. Sharing(p) = {} /\ Opened(p) = {}
        BY <2>1 DEF Sharing, Opened
    <2>4. Counted(p)
        BY <1>1, <2>2, <2>3, FS_EmptySet DEF Counted, NoInode
    <2>5. CallsTidy(p) /\ Accounted(p)
        BY <2>1, <2>2 DEF CallsTidy, Accounted, NoInode
    <2>6. Held(p)
        BY <2>1, <2>2 DEF Held, NoInode
    <2> QED
        BY <2>4, <2>5, <2>6 DEF Account
<1>4. NoConflicts /\ SeenAlone
    BY DEF Init, NoConflicts, SeenAlone, NoLocks, NoInode, Conflict, Ranges
<1> QED
    BY <1>2, <1>3, <1>4 DEF UnixInv

LEMMA NextUnix == UnixInv /\ [Next]_vars => UnixInv'
<1> SUFFICES ASSUME UnixInv, [Next]_vars PROVE UnixInv'
    OBVIOUS
<1>1. ASSUME NEW h \in Handles, Open(h) PROVE UnixInv'
    BY <1>1, KeepsOpen
<1>2. ASSUME NEW h \in Handles, JoinShared(h) PROVE UnixInv'
    BY <1>2, KeepsJoinShared
<1>3. ASSUME NEW h \in Handles, AskShared(h) PROVE UnixInv'
    BY <1>3, KeepsAskShared
<1>4. ASSUME NEW h \in Handles, LockReserved(h) PROVE UnixInv'
    BY <1>4, KeepsLockReserved
<1>5. ASSUME NEW h \in Handles, AskExclusive(h) PROVE UnixInv'
    BY <1>5, KeepsAskExclusive
<1>6. ASSUME NEW h \in Handles, NEW l \in {Unlocked, Shared}, Unlock(h, l) PROVE UnixInv'
    BY <1>6, KeepsUnlock
<1>7. ASSUME NEW h \in Handles, Close(h) PROVE UnixInv'
    BY <1>7, KeepsClose
<1>8. ASSUME NEW h \in Handles, Call(h) PROVE UnixInv'
    BY <1>8, KeepsReadLock, KeepsDropPending, KeepsWriteLock, KeepsUnlockBytes,
       KeepsUnlockAll DEF Call
<1>9. ASSUME NEW p \in Procs, Die(p) PROVE UnixInv'
    BY <1>9, KeepsDie
<1>10. CASE UNCHANGED vars
    <2>1. \A p \in Procs : Account(p)'
        BY <1>10, OtherProcess DEF UnixInv, vars
    <2>2. TypeOK' /\ NoConflicts' /\ SeenAlone'
        BY <1>10 DEF UnixInv, vars, TypeOK, NoConflicts, SeenAlone, N
    <2> QED
        BY <2>1, <2>2 DEF UnixInv
<1> QED
    BY <1>1, <1>2, <1>3, <1>4, <1>5, <1>6, <1>7, <1>8, <1>9, <1>10 DEF Next

LEMMA UnixInvariant == Spec => []UnixInv
    BY InitUnix, NextUnix, PTL DEF Spec

\* The account of every process stays within its type, its counters within the number of
\* handles.
THEOREM UnixTypeCorrect == Spec => []TypeOK
<1>1. UnixInv => TypeOK
    BY DEF UnixInv
<1> QED
    BY <1>1, UnixInvariant, PTL

\* For any number of handles and processes, no close and no unlock of a handle takes the
\* locks from under another one.
THEOREM LocksStayBacked == Spec => []LocksBacked
<1>1. UnixInv => LocksBacked
    <2> SUFFICES ASSUME UnixInv, NEW h \in Handles
                 PROVE  LET held == os[Process[h]] IN
                        /\ file[h].level >= Shared => held["shared"] # "none"
                        /\ file[h].level = Reserved /\ step[h] # "release" =>
                               held["reserved"] = "write"
                        /\ file[h].level >= Pending /\ step[h] # "release" =>
                               held["pending"] = "write"
                        /\ file[h].level = Exclusive /\ step[h] = "idle" =>
                               held["shared"] = "write"
        BY DEF LocksBacked
    <2> DEFINE p == Process[h]
    <2> USE DEF Unlocked, Shared, Reserved, Pending, Exclusive
    <2>1. p \in Procs /\ h \in Of(p) /\ Account(p) /\ file[h].level \in 0 .. 4
          /\ inode[p].lock \in 0 .. 4
        BY Entering DEF TypeOK, InodeType, Levels
    <2> HIDE DEF p
    <2>2. file[h].level >= Shared => os[p]["shared"] # "none"
        BY <2>1 DEF Account, Accounted, Held
    <2>3. file[h].level = Reserved /\ step[h] # "release" => os[p]["reserved"] = "write"
        BY <2>1 DEF Account, Accounted, Held
    <2>4. file[h].level >= Pending /\ step[h] # "release" => os[p]["pending"] = "write"
        BY <2>1 DEF Account, Accounted, Held
    <2>5. file[h].level = Exclusive /\ step[h] = "idle" => os[p]["shared"] = "write"
        BY <2>1 DEF Account, Accounted, CallsTidy, Held, Of
    <2> QED
        BY <2>2, <2>3, <2>4, <2>5 DEF p
<1> QED
    BY <1>1, UnixInvariant, PTL

----------------------------------------------------------------------------
(* The refinement *)

LEMMA SeenIs ==
    \A h \in Handles :
        /\ Seen(h) = IF step[h] = "got" \/ step[h] = "release" THEN Shared
                     ELSE IF step[h] = "write" THEN Pending ELSE file[h].level
        /\ Seen(h)' = IF step'[h] = "got" \/ step'[h] = "release" THEN Shared
                      ELSE IF step'[h] = "write" THEN Pending ELSE file'[h].level
    BY DEF Seen

\* What a seen level says about the locks of the process.
LEMMA SeenMeans ==
    ASSUME UnixInv, NEW g \in Handles
    PROVE  /\ Seen(g) \in 0 .. 4
           /\ Seen(g) >= Shared => os[Process[g]]["shared"] # "none"
           /\ Seen(g) >= Pending => os[Process[g]]["pending"] = "write"
           /\ Seen(g) = Exclusive => inode[Process[g]].lock = Exclusive
<1> DEFINE p == Process[g]
<1> USE DEF Unlocked, Shared, Reserved, Pending, Exclusive
<1>1. /\ p \in Procs /\ g \in Of(p) /\ Account(p) /\ TypeOK
      /\ inode[p].lock \in 0 .. 4 /\ file[g].level \in 0 .. 4
    BY Entering DEF TypeOK, InodeType, Levels
<1> HIDE DEF p
<1>2. Seen(g) \in 0 .. 4
    BY <1>1, SeenIs
<1>3. Seen(g) >= Shared => os[p]["shared"] # "none"
    BY <1>1, SeenIs DEF Account, CallsTidy, Accounted, Held
<1>4. Seen(g) >= Pending => os[p]["pending"] = "write"
    BY <1>1, SeenIs DEF Account, CallsTidy, Accounted, Held
<1>5. Seen(g) = Exclusive => inode[p].lock = Exclusive
    BY <1>1, SeenIs DEF Account, Accounted
<1> QED
    BY <1>2, <1>3, <1>4, <1>5 DEF p

SeenLevels == [h \in Handles |-> Seen(h)]

LEMMA Stutters ==
    ASSUME \A g \in Handles : Seen(g)' = Seen(g),
           \A g \in Handles : g \in HasReserved' <=> g \in HasReserved
    PROVE  UNCHANGED Promise!lockVars
<1>1. HasReserved' = HasReserved
    BY DEF HasReserved
<1> QED
    BY <1>1 DEF Promise!lockVars

LEMMA Sets ==
    ASSUME NEW h \in Handles, NEW l, \A g \in Handles : Seen(g)' = IF g = h THEN l ELSE Seen(g)
    PROVE  Promise!Set(h, l)
    BY DEF Promise!Set

LEMMA SameReserved ==
    ASSUME \A g \in Handles : g \in HasReserved' <=> g \in HasReserved
    PROVE  HasReserved' = HasReserved
    BY DEF HasReserved

\* Opening, closing, asking the first time for the pending byte and giving it back,
\* and starting to unlock are seen by nobody.
LEMMA QuietOpen ==
    ASSUME UnixInv, NEW h \in Handles, Open(h)
    PROVE  UNCHANGED Promise!lockVars
<1>1. TypeOK
    BY DEF UnixInv
<1>2. \A g \in Handles : file'[g].level = file[g].level
    BY <1>1 DEF TypeOK, Open
<1>3. step' = step /\ os' = os
    BY DEF Open
<1>4. \A g \in Handles : Seen(g)' = Seen(g)
    BY <1>2, <1>3, SeenIs
<1>5. \A g \in Handles : g \in HasReserved' <=> g \in HasReserved
    BY <1>2, <1>3 DEF HasReserved
<1> QED
    BY <1>4, <1>5, Stutters

LEMMA QuietAskShared ==
    ASSUME UnixInv, NEW h \in Handles, AskShared(h)
    PROVE  UNCHANGED Promise!lockVars
<1> DEFINE p == Process[h]
<1>1. TypeOK /\ p \in Procs /\ step[h] = "idle"
    BY Entering DEF AskShared, Of
<1>2. /\ file' = file /\ \A g \in Handles : step'[g] = IF g = h THEN "read" ELSE step[g]
      /\ \A q \in Procs : os'[q]["reserved"] = os[q]["reserved"]
    BY <1>1, SetLkEffect, GotoEffect DEF AskShared, Ranges, Steps
<1>3. \A g \in Handles : Seen(g)' = Seen(g)
    BY <1>1, <1>2, SeenIs
<1>4. \A g \in Handles : g \in HasReserved' <=> g \in HasReserved
    BY <1>2, UnixAssumption DEF HasReserved
<1> QED
    BY <1>3, <1>4, Stutters

LEMMA QuietDropPending ==
    ASSUME UnixInv, NEW h \in Handles, DropPending(h)
    PROVE  UNCHANGED Promise!lockVars
<1> DEFINE p == Process[h]
<1> USE DEF Unlocked, Shared, Reserved, Pending, Exclusive
<1>1. /\ TypeOK /\ p \in Procs /\ h \in Of(p) /\ Account(p) /\ step[h] \in {"got", "refused"}
      /\ file[h].level = Unlocked
    BY Entering DEF DropPending, Account, CallsTidy, Accounted, TypeOK, Levels
<1>2. /\ \A g \in Handles : file'[g].level =
             IF g = h /\ step[h] = "got" THEN Shared ELSE file[g].level
      /\ \A g \in Handles : step'[g] = IF g = h THEN "idle" ELSE step[g]
      /\ \A q \in Procs : os'[q]["reserved"] = os[q]["reserved"]
    BY <1>1, SetLkEffect, GotoEffect, LevelEffect DEF DropPending, Ranges, Steps, Levels
<1>3. \A g \in Handles : Seen(g)' = Seen(g)
    BY <1>1, <1>2, SeenIs
<1>4. \A g \in Handles : g \in HasReserved' <=> g \in HasReserved
    BY <1>1, <1>2, UnixAssumption DEF HasReserved
<1> QED
    BY <1>3, <1>4, Stutters

LEMMA QuietUnlock ==
    ASSUME UnixInv, NEW h \in Handles, NEW l \in {Unlocked, Shared}, Unlock(h, l)
    PROVE  UNCHANGED Promise!lockVars
<1> DEFINE p == Process[h]
<1> USE DEF Unlocked, Shared, Reserved, Pending, Exclusive
<1>1. TypeOK /\ p \in Procs /\ h \in Of(p) /\ step[h] = "idle" /\ file[h].level \in 1 .. 4
    BY Entering DEF Unlock, TypeOK, Levels
<1>2. /\ file' = file
      /\ \A g \in Handles : step'[g] =
             IF g = h THEN (IF file[h].level > Shared THEN "bytes" ELSE "release") ELSE step[g]
      /\ \A q \in Procs : os'[q]["reserved"] = os[q]["reserved"]
    BY <1>1, SetLkEffect, GotoEffect DEF Unlock, Ranges, Steps
<1>3. \A g \in Handles : Seen(g)' = Seen(g)
    BY <1>1, <1>2, SeenIs
<1>4. \A g \in Handles : g \in HasReserved' <=> g \in HasReserved
    BY <1>2, UnixAssumption DEF HasReserved
<1> QED
    BY <1>3, <1>4, Stutters

LEMMA QuietClose ==
    ASSUME UnixInv, NEW h \in Handles, Close(h)
    PROVE  UNCHANGED Promise!lockVars
<1> DEFINE p == Process[h]
<1> USE DEF Unlocked, Shared, Reserved, Pending, Exclusive
<1>1. /\ p \in Procs /\ h \in Of(p) /\ Account(p) /\ TypeOK /\ inode[p] \in InodeType
      /\ N \in Nat
    BY Entering
<1>2. /\ file[h].open /\ file[h].level = Unlocked /\ step' = step
      /\ \A g \in Handles : file'[g].level = file[g].level
    <2>1. file' = [file EXCEPT ![h].open = FALSE] /\ step' = step
        BY DEF Close
    <2> QED
        BY <1>1, <2>1 DEF Close, Enter, TypeOK
<1>3. \A q \in Procs : q # p => os'[q] = os[q]
    BY <1>1 DEF Close, TypeOK
<1>4. os' = os \/ \A g \in Of(p) : file[g].level = Unlocked
    <2>1. Opened(p) \in SUBSET Handles /\ Sharing(p) \in SUBSET Handles
        BY DEF Opened, Sharing, Of
    <2>2. CASE inode[p].nLock > 0 /\ inode[p].nRef # 1
        BY <2>2 DEF Close
    <2>3. CASE inode[p].nRef = 1
        <3>1. PICK g : Opened(p) = {g}
            BY <1>1, <2>1, <2>3, Countable DEF Account, Counted
        <3>2. h \in Opened(p)
            BY <1>1, <1>2 DEF Opened
        <3>3. \A f \in Of(p) : f # h => ~file[f].open
            BY <3>1, <3>2 DEF Opened
        <3> QED
            BY <1>1, <1>2, <3>3 DEF Account, CallsTidy
    <2>4. CASE ~(inode[p].nLock > 0)
        <3>1. Cardinality(Sharing(p)) = 0
            BY <1>1, <2>1, <2>4, Countable DEF Account, Counted
        <3>2. Sharing(p) = {}
            BY <2>1, <3>1, Countable
        <3>3. \A g \in Of(p) : file[g].level \in 0 .. 4
            BY <1>1 DEF Of, TypeOK, Levels
        <3> QED
            BY <3>2, <3>3 DEF Sharing
    <2> QED
        BY <2>2, <2>3, <2>4
<1>5. \A g \in Handles : Seen(g)' = Seen(g)
    BY <1>2, SeenIs
<1>6. \A g \in Handles : g \in HasReserved' <=> g \in HasReserved
    BY <1>2, <1>3, <1>4, UnixAssumption DEF HasReserved, Of
<1> QED
    BY <1>5, <1>6, Stutters

LEMMA PeersOf ==
    ASSUME NEW p, NEW h \in Of(p)
    PROVE  Promise!Peers(h) = Of(p) \ {h}
    BY DEF Promise!Peers, Promise!Others, Of

\* The levels as others see them.
LEMMA StepJoinShared ==
    ASSUME UnixInv, NEW h \in Handles, JoinShared(h)
    PROVE  Promise!GetShared(h)
<1> DEFINE p == Process[h]
<1> USE DEF Unlocked, Shared, Reserved, Pending, Exclusive
<1>1. /\ p \in Procs /\ h \in Of(p) /\ Account(p) /\ TypeOK
      /\ file[h].level = Unlocked /\ \A g \in Of(p) : step[g] = "idle"
      /\ inode[p].lock \in {Shared, Reserved} /\ step' = step /\ os' = os
      /\ \A g \in Handles : file[g].level \in 0 .. 4
    BY Entering DEF JoinShared, TypeOK, Levels
<1>2. \A g \in Handles : file'[g].level = IF g = h THEN Shared ELSE file[g].level
    BY <1>1, LevelEffect DEF JoinShared, Levels
<1> HIDE DEF p
<1>3. Seen(h) = Unlocked /\ \A g \in Handles : Seen(g)' = IF g = h THEN Shared ELSE Seen(g)
    BY <1>1, <1>2, SeenIs DEF Of
<1>4. ASSUME NEW g \in Handles, g # h PROVE Seen(g) # Exclusive
    <2>1. CASE Process[g] = p
        <3>1. g \in Of(p) /\ Seen(g) = file[g].level
            BY <1>1, <2>1, SeenIs DEF Of
        <3> QED
            BY <1>1, <3>1 DEF Account, Accounted
    <2>2. CASE Process[g] # p
        <3>1. os[p]["shared"] # "none"
            BY <1>1 DEF Account, Held
        <3> QED
            BY <1>1, <2>2, <3>1, SeenMeans, Entering DEF UnixInv, SeenAlone
    <2> QED
        BY <2>1, <2>2
<1>5. \E g \in Promise!Peers(h) : g \in Handles /\ Seen(g) \in {Shared, Reserved}
    <2>1. PICK g \in Of(p) : file[g].level >= inode[p].lock
        BY <1>1 DEF Account, Accounted
    <2>2. file[g].level \in {Shared, Reserved} /\ g # h /\ Seen(g) = file[g].level
        BY <1>1, <2>1, SeenIs DEF Account, Accounted, Of
    <2> QED
        BY <1>1, <2>1, <2>2, PeersOf DEF Of
<1>6. ASSUME NEW g \in Promise!Peers(h) PROVE g \in Handles /\ Seen(g) < Pending
    <2>1. g \in Of(p) /\ g \in Handles /\ Seen(g) = file[g].level
        BY <1>1, <1>6, PeersOf, SeenIs DEF Of
    <2> QED
        BY <1>1, <2>1 DEF Account, Accounted, Of
<1>7. HasReserved' = HasReserved
    BY <1>1, <1>2 DEF HasReserved
<1>8. Promise!Set(h, Shared)
    BY <1>3, Sets
<1>9. \E g \in Promise!Peers(h) : SeenLevels[g] \in {Shared, Reserved}
    BY <1>5 DEF SeenLevels
<1>10. \A g \in Promise!Peers(h) : SeenLevels[g] < Pending
    BY <1>6 DEF SeenLevels
<1>11. SeenLevels[h] = Unlocked /\ \A g \in Promise!Others(h) : SeenLevels[g] # Exclusive
    BY <1>3, <1>4 DEF SeenLevels, Promise!Others
<1> QED
    BY <1>7, <1>8, <1>9, <1>10, <1>11 DEF SeenLevels, Promise!GetShared, Promise!Unlocked,
       Promise!Shared, Promise!Reserved, Promise!Pending, Promise!Exclusive

LEMMA StepReadLock ==
    ASSUME UnixInv, NEW h \in Handles, ReadLock(h)
    PROVE  Promise!GetShared(h) \/ UNCHANGED Promise!lockVars
<1> DEFINE p == Process[h]
<1> USE DEF Unlocked, Shared, Reserved, Pending, Exclusive
<1>1. /\ p \in Procs /\ h \in Of(p) /\ Account(p) /\ TypeOK
      /\ step[h] = "read" /\ \A g \in Of(p) : g # h => step[g] = "idle"
      /\ file' = file /\ inode[p].lock = Unlocked /\ os[p]["pending"] = "read"
      /\ \A g \in Handles : file[g].level \in 0 .. 4
    BY Entering DEF ReadLock, TypeOK, Levels, Account, CallsTidy, Held
<1>2. /\ \A q \in Procs : os'[q]["reserved"] = os[q]["reserved"]
      /\ \A g \in Handles : step'[g] =
             IF g = h THEN (IF Grants(p, "shared", "read") THEN "got" ELSE "refused") ELSE step[g]
    BY <1>1, SetLkEffect, GotoEffect DEF ReadLock, Ranges, Steps, TypeOK
<1> HIDE DEF p
<1>3. \A g \in Of(p) : file[g].level = Unlocked /\ Seen(g) = Unlocked
    BY <1>1, SeenIs DEF Account, Accounted, Of
<1>4. \A g \in Handles : g \in HasReserved' <=> g \in HasReserved
    BY <1>1, <1>2, UnixAssumption DEF HasReserved
<1>5. CASE ~Grants(p, "shared", "read")
    <2>1. \A g \in Handles : Seen(g)' = Seen(g)
        BY <1>1, <1>2, <1>5, SeenIs
    <2> QED
        BY <1>4, <2>1, Stutters
<1>6. CASE Grants(p, "shared", "read")
    <2>1. Promise!Set(h, Shared)
        <3>1. \A g \in Handles : Seen(g)' = IF g = h THEN Shared ELSE Seen(g)
            BY <1>1, <1>2, <1>6, SeenIs
        <3> QED
            BY <3>1, Sets
    <2>2. ASSUME NEW g \in Handles PROVE Seen(g) < Pending
        <3>1. CASE Process[g] = p
            BY <1>3, <3>1 DEF Of
        <3>2. CASE Process[g] # p
            <4>1. os[Process[g]]["pending"] # "write"
                BY <1>1, <3>2, Entering DEF UnixInv, NoConflicts, Conflict, Ranges
            <4> QED
                BY <4>1, SeenMeans
        <3> QED
            BY <3>1, <3>2
    <2>3. Seen(h) = Unlocked /\ HasReserved' = HasReserved
        BY <1>1, <1>3, <1>4, SameReserved
    <2>4. \A g \in Handles : Seen(g) \in 0 .. 4
        BY SeenMeans
    <2> QED
        BY <2>1, <2>2, <2>3, <2>4 DEF Promise!GetShared, Promise!Others, Promise!Peers,
           Promise!Unlocked, Promise!Shared, Promise!Pending, Promise!Exclusive
<1> QED
    BY <1>5, <1>6

LEMMA StepLockReserved ==
    ASSUME UnixInv, NEW h \in Handles, LockReserved(h)
    PROVE  Promise!GetReserved(h)
<1> DEFINE p == Process[h]
<1> USE DEF Unlocked, Shared, Reserved, Pending, Exclusive
<1>1. /\ p \in Procs /\ h \in Of(p) /\ Account(p) /\ TypeOK
      /\ file[h].level = Shared /\ \A g \in Of(p) : step[g] = "idle"
      /\ inode[p].lock = Shared /\ Grants(p, "reserved", "write") /\ step' = step
      /\ \A g \in Handles : file[g].level \in 0 .. 4
    BY Entering DEF LockReserved, TypeOK, Levels
<1>2. /\ \A g \in Handles : file'[g].level = IF g = h THEN Reserved ELSE file[g].level
      /\ os'[p]["reserved"] = "write" /\ \A q \in Procs : q # p => os'[q] = os[q]
    BY <1>1, SetLkEffect, LevelEffect DEF LockReserved, Levels, Ranges
<1> HIDE DEF p
<1>3. Seen(h) = Shared /\ \A g \in Handles : Seen(g)' = IF g = h THEN Reserved ELSE Seen(g)
    BY <1>1, <1>2, SeenIs DEF Of
<1>4. \A g \in Handles : Process[g] = p => ~(file[g].level >= Reserved)
    BY <1>1 DEF Account, Accounted, Of
<1>5. \A q \in Procs : q # p => os[q]["reserved"] # "write"
    BY <1>1 DEF Grants, Conflict
<1>6. HasReserved = {} /\ HasReserved' = {h}
    BY <1>1, <1>2, <1>4, <1>5, UnixAssumption DEF HasReserved, Of
<1>7. Promise!Set(h, Reserved)
    BY <1>3, Sets
<1>8. ASSUME NEW g \in Promise!Peers(h) PROVE g \in Handles /\ Seen(g) <= Shared
    <2>1. g \in Of(p) /\ g \in Handles /\ Seen(g) = file[g].level
        BY <1>1, <1>8, PeersOf, SeenIs DEF Of
    <2> QED
        BY <1>1, <1>4, <2>1 DEF Of
<1>9. Promise!PeersBelow(h)
    BY <1>8 DEF Promise!PeersBelow, Promise!Shared
<1> QED
    BY <1>3, <1>6, <1>7, <1>9 DEF Promise!GetReserved, Promise!Shared, Promise!Reserved

LEMMA StepAskExclusive ==
    ASSUME UnixInv, NEW h \in Handles, AskExclusive(h)
    PROVE  Promise!GetPending(h) \/ UNCHANGED Promise!lockVars
<1> DEFINE p == Process[h]
<1> USE DEF Unlocked, Shared, Reserved, Pending, Exclusive
<1>1. /\ p \in Procs /\ h \in Of(p) /\ Account(p) /\ TypeOK /\ file' = file
      /\ file[h].level \in Shared .. Pending /\ inode[p].lock = file[h].level
      /\ \A g \in Of(p) : step[g] = "idle"
      /\ file[h].level # Pending => Grants(p, "pending", "write")
      /\ \A g \in Handles : file[g].level \in 0 .. 4
    BY Entering DEF AskExclusive, TypeOK, Levels
<1>2. /\ \A q \in Procs : os'[q]["reserved"] = os[q]["reserved"]
      /\ \A g \in Handles : step'[g] = IF g = h THEN "write" ELSE step[g]
    BY <1>1, SetLkEffect, GotoEffect DEF AskExclusive, Ranges, Steps, TypeOK
<1> HIDE DEF p
<1>3. Seen(h) = file[h].level /\ \A g \in Handles : Seen(g)' = IF g = h THEN Pending ELSE Seen(g)
    BY <1>1, <1>2, SeenIs DEF Of
<1>4. \A g \in Handles : g \in HasReserved' <=> g \in HasReserved
    BY <1>1, <1>2, UnixAssumption DEF HasReserved
<1>5. CASE file[h].level = Pending
    BY <1>3, <1>4, <1>5, Stutters
<1>6. CASE file[h].level # Pending
    <2>1. ASSUME NEW g \in Handles, g # h PROVE Seen(g) < Pending
        <3>1. CASE Process[g] = p
            BY <1>1, <1>6, <3>1, SeenIs DEF Account, Accounted, Of
        <3>2. CASE Process[g] # p
            <4>1. Process[g] \in Procs
                BY UnixAssumption
            <4>2. os[Process[g]]["pending"] # "write"
                BY <1>1, <1>6, <3>2, <4>1 DEF Grants, Conflict
            <4> QED
                BY <4>2, SeenMeans
        <3> QED
            BY <3>1, <3>2
    <2>2. HasReserved' = HasReserved
        BY <1>4, SameReserved
    <2>3. Promise!Set(h, Pending)
        BY <1>3, Sets
    <2>4. Seen(h) \in {Shared, Reserved}
        BY <1>1, <1>3, <1>6
    <2>5. ASSUME NEW g \in Promise!Peers(h) PROVE g \in Handles /\ Seen(g) <= Shared
        <3>1. g \in Of(p) /\ g # h /\ g \in Handles /\ Seen(g) = file[g].level
            BY <1>1, <2>5, PeersOf, SeenIs DEF Of
        <3> QED
            BY <1>1, <3>1 DEF Account, Accounted
    <2>6. Promise!PeersBelow(h)
        BY <2>5 DEF Promise!PeersBelow, Promise!Shared
    <2> QED
        BY <2>1, <2>2, <2>3, <2>4, <2>6 DEF Promise!GetPending, Promise!Others,
           Promise!Shared, Promise!Reserved, Promise!Pending
<1> QED
    BY <1>5, <1>6

LEMMA StepWriteLock ==
    ASSUME UnixInv, NEW h \in Handles, WriteLock(h)
    PROVE  Promise!GetExclusive(h) \/ UNCHANGED Promise!lockVars
<1> DEFINE p == Process[h]
           alone == inode[p].nShared = 1 /\ Grants(p, "shared", "write")
<1> USE DEF Unlocked, Shared, Reserved, Pending, Exclusive
<1>1. /\ p \in Procs /\ h \in Of(p) /\ Account(p) /\ TypeOK /\ step[h] = "write"
      /\ \A g \in Of(p) : g # h => step[g] = "idle"
      /\ \A g \in Handles : file[g].level \in 0 .. 4
    BY Entering DEF WriteLock, TypeOK, Levels
<1>2. file[h].level \in Shared .. Pending /\ inode[p].lock = file[h].level
    BY <1>1 DEF Account, CallsTidy
<1>3. /\ \A q \in Procs : os'[q]["reserved"] = os[q]["reserved"]
      /\ \A g \in Handles : step'[g] = IF g = h THEN "idle" ELSE step[g]
      /\ \A g \in Handles : file'[g].level =
             IF g = h THEN (IF alone THEN Exclusive ELSE Pending) ELSE file[g].level
    BY <1>1, SetLkEffect, GotoEffect, LevelEffect DEF WriteLock, Ranges, Steps, Levels
<1> HIDE DEF p
<1>4. /\ Seen(h) = Pending
      /\ \A g \in Handles : Seen(g)' =
             IF g = h THEN (IF alone THEN Exclusive ELSE Pending) ELSE Seen(g)
    BY <1>1, <1>3, SeenIs
<1>5. HasReserved' = HasReserved
    <2>1. file[h].level = Shared => os[p]["reserved"] = "none"
        BY <1>1, <1>2 DEF Account, Held
    <2>2. \A g \in Handles : g \in HasReserved' <=> g \in HasReserved
        BY <1>1, <1>2, <1>3, <2>1, UnixAssumption DEF HasReserved, Of
    <2> QED
        BY <2>2, SameReserved
<1>6. CASE ~alone
    BY <1>4, <1>5, <1>6, Stutters
<1>7. CASE alone
    <2>1. ASSUME NEW g \in Handles, g # h PROVE Seen(g) = Unlocked
        <3>1. CASE Process[g] = p
            <4>1. Sharing(p) \in SUBSET Handles /\ h \in Sharing(p)
                BY <1>1, <1>2 DEF Sharing, Of
            <4>2. PICK x : Sharing(p) = {x}
                BY <1>1, <1>7, <4>1, Countable DEF Account, Counted
            <4>3. g \notin Sharing(p)
                BY <2>1, <4>1, <4>2
            <4>4. step[g] = "idle" /\ file[g].level = Unlocked
                BY <1>1, <2>1, <3>1, <4>3 DEF Sharing, Of
            <4> QED
                BY <4>4, SeenIs
        <3>2. CASE Process[g] # p
            <4>1. Process[g] \in Procs
                BY UnixAssumption
            <4>2. os[Process[g]]["shared"] = "none"
                BY <1>1, <1>7, <3>2, <4>1 DEF Grants, Conflict
            <4> QED
                BY <4>2, SeenMeans
        <3> QED
            BY <3>1, <3>2
    <2>2. Promise!Set(h, Exclusive)
        BY <1>4, <1>7, Sets
    <2> QED
        BY <1>4, <1>5, <2>1, <2>2 DEF Promise!GetExclusive, Promise!Others, Promise!Shared,
           Promise!Unlocked, Promise!Pending, Promise!Exclusive
<1> QED
    BY <1>6, <1>7

LEMMA StepUnlockBytes ==
    ASSUME UnixInv, NEW h \in Handles, UnlockBytes(h)
    PROVE  Promise!Downgrade(h)
<1> DEFINE p == Process[h]
<1> USE DEF Unlocked, Shared, Reserved, Pending, Exclusive
<1>1. /\ p \in Procs /\ h \in Of(p) /\ Account(p) /\ TypeOK /\ step[h] = "bytes"
      /\ \A g \in Of(p) : g # h => step[g] = "idle"
      /\ \A g \in Handles : file[g].level \in 0 .. 4
    BY Entering DEF UnlockBytes, TypeOK, Levels
<1>2. file[h].level > Shared
    BY <1>1 DEF Account, CallsTidy
<1>3. /\ os'[p]["reserved"] = "none" /\ \A q \in Procs : q # p => os'[q] = os[q]
      /\ \A g \in Handles : g # h => step'[g] = step[g] /\ file'[g].level = file[g].level
      /\ \/ step'[h] = "idle" /\ file'[h].level = Shared
         \/ step'[h] = "release" /\ file'[h].level = file[h].level
    <2>1. os' = [os EXCEPT ![p]["pending"] = "none", ![p]["reserved"] = "none"]
        BY DEF UnlockBytes
    <2>2. os'[p]["reserved"] = "none" /\ \A q \in Procs : q # p => os'[q] = os[q]
        BY <1>1, <2>1 DEF TypeOK, Ranges
    <2>3. CASE goal[h] = Shared
        <3>1. Level(h, Shared) /\ Goto(h, "idle") /\ Shared \in Levels /\ "idle" \in Steps
            BY <2>3 DEF UnlockBytes, Levels, Steps
        <3> QED
            BY <1>1, <2>2, <3>1, GotoEffect, LevelEffect
    <2>4. CASE goal[h] # Shared
        <3>1. file' = file /\ Goto(h, "release")
            BY <2>4 DEF UnlockBytes
        <3> QED
            BY <1>1, <2>2, <3>1, GotoEffect DEF Steps
    <2> QED
        BY <2>3, <2>4
<1> HIDE DEF p
<1>4. Seen(h) = file[h].level /\ \A g \in Handles : Seen(g)' = IF g = h THEN Shared ELSE Seen(g)
    BY <1>1, <1>3, SeenIs
<1>5. HasReserved' = HasReserved \ {h}
    <2>1. \A g \in Of(p) : g # h => ~(file[g].level >= Reserved)
        BY <1>1, <1>2 DEF Account, Accounted, Of
    <2> QED
        BY <1>1, <1>3, <2>1, UnixAssumption DEF HasReserved, Of
<1>6. Promise!Set(h, Shared)
    BY <1>4, Sets
<1> QED
    BY <1>2, <1>4, <1>5, <1>6 DEF Promise!Downgrade, Promise!Shared

LEMMA StepUnlockAll ==
    ASSUME UnixInv, NEW h \in Handles, UnlockAll(h)
    PROVE  Promise!Release({h})
<1> DEFINE p == Process[h]
<1> USE DEF Unlocked, Shared, Reserved, Pending, Exclusive
<1>1. /\ p \in Procs /\ h \in Of(p) /\ Account(p) /\ TypeOK /\ step[h] = "release"
      /\ inode[p].nLock = inode[p].nShared /\ inode[p].nShared = Cardinality(Sharing(p))
      /\ \A g \in Handles : file[g].level \in 0 .. 4
    BY Entering DEF UnlockAll, TypeOK, Levels, Account, Counted
<1>2. /\ \A q \in Procs : q # p => os'[q] = os[q]
      /\ \A g \in Handles : step'[g] = IF g = h THEN "idle" ELSE step[g]
      /\ \A g \in Handles : file'[g].level = IF g = h THEN Unlocked ELSE file[g].level
      /\ inode[p].nShared # 1 => os' = os
    <2>1. /\ os' = IF inode[p].nShared = 1 THEN [os EXCEPT ![p] = NoLocks] ELSE os
          /\ Goto(h, "idle") /\ Level(h, Unlocked)
        BY <1>1 DEF UnlockAll
    <2>2. /\ \A q \in Procs : q # p => os'[q] = os[q]
          /\ inode[p].nShared # 1 => os' = os
        BY <1>1, <2>1 DEF TypeOK
    <2> QED
        BY <1>1, <2>1, <2>2, GotoEffect, LevelEffect DEF Steps, Levels
<1> HIDE DEF p
<1>3. \A g \in Handles : Seen(g)' = IF g = h THEN Unlocked ELSE Seen(g)
    BY <1>1, <1>2, SeenIs
<1>4. os' = os \/ \A g \in Of(p) : g # h => file[g].level = Unlocked
    <2>1. Sharing(p) \in SUBSET Handles /\ h \in Sharing(p)
        BY <1>1 DEF Sharing, Of, Account, CallsTidy
    <2>2. inode[p].nShared = 1 => \A g \in Of(p) : g # h => g \notin Sharing(p)
        <3>1. inode[p].nShared = 1 => \E x : Sharing(p) = {x}
            BY <1>1, <2>1, Countable
        <3> QED
            BY <2>1, <3>1
    <2> QED
        BY <1>1, <1>2, <2>2 DEF Sharing, Of
<1>5. HasReserved' = HasReserved \ {h}
    BY <1>1, <1>2, <1>4, UnixAssumption DEF HasReserved, Of
<1> QED
    BY <1>3, <1>5 DEF Promise!Release, Promise!Unlocked

LEMMA StepDie ==
    ASSUME UnixInv, NEW p \in Procs, Die(p)
    PROVE  Promise!Release(Of(p))
<1> USE DEF Unlocked, Shared, Reserved, Pending, Exclusive
<1>1. /\ \A g \in Handles : file'[g].level = IF g \in Of(p) THEN Unlocked ELSE file[g].level
      /\ \A g \in Handles : step'[g] = IF g \in Of(p) THEN "idle" ELSE step[g]
      /\ \A q \in Procs : q # p => os'[q] = os[q]
    BY DEF UnixInv, Die, Of, TypeOK
<1>2. \A g \in Handles : Seen(g)' = IF g \in Of(p) THEN Unlocked ELSE Seen(g)
    BY <1>1, SeenIs
<1>3. HasReserved' = HasReserved \ Of(p)
    BY <1>1, UnixAssumption DEF HasReserved, Of
<1> QED
    BY <1>2, <1>3 DEF Promise!Release, Promise!Unlocked

LEMMA InitRefines == Init => Promise!LockInit
<1> SUFFICES ASSUME Init PROVE Promise!LockInit
    OBVIOUS
<1>1. \A h \in Handles : Seen(h) = Unlocked
    BY SeenIs DEF Init
<1>2. HasReserved = {}
    BY DEF Init, HasReserved, Unlocked, Reserved
<1> QED
    BY <1>1, <1>2 DEF Promise!LockInit, Promise!Unlocked, Unlocked

LEMMA NextRefines == UnixInv /\ [Next]_vars => [Promise!LockNext]_(Promise!lockVars)
<1> SUFFICES ASSUME UnixInv, [Next]_vars
             PROVE  Promise!LockNext \/ UNCHANGED Promise!lockVars
    OBVIOUS
<1>1. ASSUME NEW h \in Handles,
             \/ Open(h) \/ AskShared(h) \/ Close(h) \/ DropPending(h)
             \/ \E l \in {Unlocked, Shared} : Unlock(h, l)
      PROVE  UNCHANGED Promise!lockVars
    BY <1>1, QuietOpen, QuietAskShared, QuietClose, QuietDropPending, QuietUnlock
<1>2. ASSUME NEW h \in Handles,
             \/ JoinShared(h) \/ ReadLock(h) \/ LockReserved(h) \/ AskExclusive(h)
             \/ WriteLock(h) \/ UnlockBytes(h)
      PROVE  Promise!LockNext \/ UNCHANGED Promise!lockVars
    BY <1>2, StepJoinShared, StepReadLock, StepLockReserved, StepAskExclusive,
       StepWriteLock, StepUnlockBytes DEF Promise!LockNext
<1>3. ASSUME NEW h \in Handles, UnlockAll(h) PROVE Promise!LockNext
    BY <1>3, StepUnlockAll DEF Promise!LockNext
<1>4. ASSUME NEW p \in Procs, Die(p) PROVE Promise!LockNext
    <2>1. Of(p) \in SUBSET Handles
        BY DEF Of
    <2> QED
        BY <1>4, <2>1, StepDie DEF Promise!LockNext
<1>5. CASE UNCHANGED vars
    <2>1. \A g \in Handles : Seen(g)' = Seen(g)
        BY <1>5, SeenIs DEF vars
    <2>2. \A g \in Handles : g \in HasReserved' <=> g \in HasReserved
        BY <1>5 DEF HasReserved, vars
    <2> QED
        BY <2>1, <2>2, Stutters
<1> QED
    BY <1>1, <1>2, <1>3, <1>4, <1>5 DEF Next, Call

\* With any number of processes and handles, what the handles of a file see of each other
\* through fcntl calls is what the locking methods promise: a writer is alone.
THEOREM UnixImplementsFileLock == Spec => ImplementsFileLock
<1>1. Spec => [][Promise!LockNext]_(Promise!lockVars)
    BY UnixInvariant, NextRefines, PTL DEF Spec
<1> QED
    BY <1>1, InitRefines, PTL DEF Spec, ImplementsFileLock, Promise!LockSpec

\* Nobody read-locks the reserved byte.
LEMMA NeverRead == Spec => [](\A p \in Procs : os[p]["reserved"] # "read")
<1> DEFINE Inv == \A p \in Procs : os[p]["reserved"] # "read"
<1>1. Init => Inv
    BY DEF Init, NoLocks, Ranges
<1>2. TypeOK /\ Inv /\ [Next]_vars => Inv'
    <2> SUFFICES ASSUME TypeOK, Inv, [Next]_vars PROVE Inv'
        OBVIOUS
    <2>1. ASSUME NEW p \in Procs, NEW r \in Ranges, NEW type \in {"none", "read", "write"},
                 SetLk(p, r, type), r = "reserved" => type # "read"
          PROVE  Inv'
        BY <2>1, SetLkEffect DEF Ranges
    <2>2. ASSUME NEW p \in Procs, os' = [os EXCEPT ![p] = NoLocks] PROVE Inv'
        BY <2>2 DEF TypeOK, NoLocks, Ranges
    <2>3. ASSUME NEW h \in Handles,
                 \/ AskShared(h) \/ ReadLock(h) \/ DropPending(h) \/ LockReserved(h)
                 \/ AskExclusive(h) \/ WriteLock(h) \/ \E l \in {Unlocked, Shared} : Unlock(h, l)
          PROVE  Inv'
        <3>1. Process[h] \in Procs
            BY UnixAssumption
        <3>2. \/ os' = os
              \/ \E r \in Ranges, type \in {"none", "read", "write"} :
                     SetLk(Process[h], r, type) /\ (r = "reserved" => type # "read")
            BY <2>3 DEF AskShared, ReadLock, DropPending, LockReserved, AskExclusive,
               WriteLock, Unlock, Ranges
        <3> QED
            BY <2>1, <3>1, <3>2
    <2>4. ASSUME NEW h \in Handles, UnlockBytes(h) PROVE Inv'
        <3>1. Process[h] \in Procs
            BY UnixAssumption
        <3>2. os' = [os EXCEPT ![Process[h]]["pending"] = "none",
                               ![Process[h]]["reserved"] = "none"]
            BY <2>4 DEF UnlockBytes
        <3> QED
            BY <3>1, <3>2 DEF TypeOK, Ranges
    <2>5. ASSUME NEW h \in Handles, UnlockAll(h) \/ Close(h) PROVE Inv'
        BY <2>2, <2>5, UnixAssumption DEF UnlockAll, Close
    <2>6. ASSUME NEW p \in Procs, Die(p) PROVE Inv'
        BY <2>2, <2>6 DEF Die
    <2>7. CASE \/ UNCHANGED vars
               \/ \E h \in Handles : Open(h) \/ JoinShared(h)
        BY <2>7 DEF vars, Open, JoinShared
    <2> QED
        BY <2>3, <2>4, <2>5, <2>6, <2>7 DEF Next, Call
<1> QED
    BY <1>1, <1>2, UnixTypeCorrect, PTL DEF Spec

\* With any number of processes and handles, a thread that asks for a RESERVED lock is told
\* what the levels of all handles say: a lock of its own process, which the system does not
\* report, is in the account, and one of another process is never given back early.
THEOREM ChecksStayTrue == Spec => []ChecksAgree
<1> DEFINE Written == \A p \in Procs : os[p]["reserved"] # "read"
<1> USE DEF Unlocked, Shared, Reserved, Pending, Exclusive
<1>1. ASSUME UnixInv, Written, NEW h \in Handles, Enter(h), file[h].level = Shared
      PROVE  CheckReservedLock(h) <=> Promise!SaysReserved(h)
    <2> DEFINE p == Process[h]
    <2>1. /\ TypeOK /\ p \in Procs /\ h \in Of(p) /\ Account(p)
          /\ \A g \in Of(p) : step[g] = "idle"
          /\ inode[p].lock \in 0 .. 4 /\ \A g \in Handles : file[g].level \in 0 .. 4
        BY <1>1, Entering DEF UnixInv, Enter, Of, TypeOK, Levels, InodeType
    <2> HIDE DEF p
    <2>2. Promise!Peers(h) \cup {h} = Of(p)
        BY <2>1, PeersOf
    <2>3. \A g \in Of(p) : g \in Handles /\ Seen(g) = file[g].level
        BY <2>1, SeenIs DEF Of
    <2>4. inode[p].lock > Shared <=> \E g \in Of(p) : file[g].level > Shared
        BY <2>1 DEF Account, Accounted, Of
    <2>5. ASSUME NEW q \in Procs
          PROVE  os[q]["reserved"] # "none" <=> \E g \in HasReserved : Process[g] = q
        <3>1. /\ Account(q) /\ inode[q].lock \in 0 .. 4
              /\ os[q]["reserved"] \in {"none", "write"}
            BY <1>1, <2>1 DEF UnixInv, TypeOK, Levels, Ranges
        <3>2. os[q]["reserved"] = "write" => \E g \in Of(q) : file[g].level >= Reserved
            BY <2>1, <3>1 DEF Account, Accounted, Held, Of
        <3> QED
            BY <3>1, <3>2 DEF HasReserved, Of
    <2>6. ASSUME NEW g \in HasReserved
          PROVE  Process[g] \in Procs /\ (Process[g] = p => g \in Of(p) /\ file[g].level > Shared)
        BY <2>1, UnixAssumption DEF HasReserved, Of
    <2>7. CheckReservedLock(h) <=>
              \/ \E g \in Of(p) : file[g].level > Shared
              \/ \E q \in Procs \ {p} : os[q]["reserved"] # "none"
        BY <2>4 DEF CheckReservedLock, Conflict, p
    <2>8. Promise!SaysReserved(h) <=>
              HasReserved # {} \/ \E g \in Of(p) : file[g].level > Shared
        BY <2>2, <2>3 DEF Promise!SaysReserved, Promise!Shared
    <2> QED
        BY <2>5, <2>6, <2>7, <2>8
<1>2. UnixInv /\ Written => ChecksAgree
    BY <1>1 DEF ChecksAgree
<1>3. Spec => []Written
    BY NeverRead
<1> QED
    BY <1>2, <1>3, UnixInvariant, PTL

=============================================================================
