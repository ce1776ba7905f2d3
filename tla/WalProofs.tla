------------------------------ MODULE WalProofs ------------------------------
(***************************************************************************)
(* The write-ahead log for any number of connections, pages, read marks,   *)
(* transactions, checkpoints and deaths: which locks go with which step,   *)
(* that recovery finds the last commit whoever dies, and that snapshots    *)
(* hold but for the two faults that the bounds exclude.                    *)
(***************************************************************************)
EXTENDS Wal, TLAPS, SequenceTheorems, WellFoundedInduction, NaturalsInduction

----------------------------------------------------------------------------
(* Greatest members *)

LEMMA LeastExists ==
    ASSUME NEW S \in SUBSET Nat, S # {}
    PROVE  Min(S) \in S /\ \A k \in S : Min(S) <= k
<1>1. \E x \in S : \A y \in S : ~(<<y, x>> \in OpToRel(<, Nat))
    BY WFMin, NatLessThanWellFounded, Zenon
<1>2. \A x, y \in Nat : y < x => <<y, x>> \in OpToRel(<, Nat)
    BY Zenon DEF OpToRel
<1>3. \E x \in S : \A y \in S : x <= y
    <2>1. PICK x \in S : \A y \in S : ~(<<y, x>> \in OpToRel(<, Nat))
        BY <1>1
    <2>2. \A y \in S : ~(y < x)
        BY <1>2, <2>1
    <2> QED
        BY <2>2
<1> QED
    BY <1>3 DEF Min

\* The reflection of the least one.
LEMMA GreatestExists ==
    ASSUME NEW n \in Nat, NEW S \in SUBSET (0 .. n), S # {}
    PROVE  Max(S) \in S /\ \A k \in S : k <= Max(S)
<1> DEFINE R == {k \in 0 .. n : n - k \in S}
<1>1. R \in SUBSET Nat /\ \A k \in S : n - k \in R
    OBVIOUS
<1>2. \A k \in R : n - k \in S
    OBVIOUS
<1> HIDE DEF R
<1>3. Min(R) \in R /\ \A k \in R : Min(R) <= k
    <2>1. R # {}
        BY <1>1
    <2> QED
        BY <1>1, <2>1, LeastExists
<1>4. n - Min(R) \in S /\ \A k \in S : k <= n - Min(R)
    <2>1. \A k \in S : Min(R) <= n - k
        BY <1>1, <1>3
    <2>2. Min(R) \in Nat
        BY <1>1, <1>3
    <2> QED
        BY <1>2, <1>3, <2>1, <2>2
<1> QED
    BY <1>4 DEF Max

\* Frame and Image of any log l and database file d.
LastFrame(l, p, m) == Max({0} \cup {f \in 1 .. m : l[f].page = p})

Snapshot(l, d, m) ==
    [p \in Pages |-> IF LastFrame(l, p, m) = 0 THEN d[p] ELSE l[LastFrame(l, p, m)].tx]

LEMMA LastFrameIsLast ==
    ASSUME NEW l, NEW p, NEW m \in Nat
    PROVE  /\ LastFrame(l, p, m) \in 0 .. m
           /\ LastFrame(l, p, m) > 0 => l[LastFrame(l, p, m)].page = p
           /\ \A f \in 1 .. m : l[f].page = p => f <= LastFrame(l, p, m)
<1> DEFINE S == {0} \cup {f \in 1 .. m : l[f].page = p}
<1>1. S \in SUBSET (0 .. m) /\ S # {}
    OBVIOUS
<1>2. Max(S) \in S /\ \A k \in S : k <= Max(S)
    BY <1>1, GreatestExists
<1>3. LastFrame(l, p, m) = Max(S)
    BY DEF LastFrame
<1> QED
    BY <1>2, <1>3

LEMMA FrameIsLast ==
    ASSUME NEW p, NEW mx \in Nat
    PROVE  /\ Frame(p, mx) \in 0 .. mx
           /\ Frame(p, mx) > 0 => log[Frame(p, mx)].page = p
           /\ \A f \in 1 .. mx : log[f].page = p => f <= Frame(p, mx)
<1>1. Frame(p, mx) = LastFrame(log, p, mx)
    BY DEF Frame, LastFrame
<1> QED
    BY <1>1, LastFrameIsLast

----------------------------------------------------------------------------
(* Types and locks *)

Headers == [mxFrame : Nat, salt : Nat, commit : Nat]
LogFrames == [page : Pages, tx : 1 .. MaxTx, salt : Nat, after : Nat, commit : Nat]
Images == [Pages -> 0 .. MaxTx]

Indexes == [init : BOOLEAN, h1 : Headers, h2 : Headers, nBackfill : 0 .. MaxFrames,
            marks : [MarkIds -> 0 .. NotUsed]]
Locks == [write : Clients \cup {None}, ckpt : Clients \cup {None},
          shared : [ReadLocks -> SUBSET Clients],
          backfill : Clients \cup {None}, restart : Clients \cup {None}]
Wals == [hdr : Headers, read : ReadLocks \cup {None}, mark : Nat, at : Nat,
         iter : [Pages -> Nat] \cup {<<>>}, safe : 0 .. MaxFrames,
         todo : SUBSET Pages, tx : 0 .. MaxTx]
Counts == [tx : 0 .. MaxTx, salt : Nat, checkpoints : Nat, crashes : Nat]

\* No header goes beyond the frames in the file, and the checkpointer's frames are
\* in it, too.
Within(w, s, n) ==
    /\ w.hdr.mxFrame <= n
    /\ s \in {"marks", "copy"} =>
           w.iter \in [Pages -> 0 .. n] /\ w.safe <= w.hdr.mxFrame
    /\ s = "copy" => \A p \in w.todo : w.iter[p] > 0

Data ==
    /\ log \in Seq(LogFrames) /\ Len(log) <= MaxFrames
    /\ logSalt \in Nat
    /\ db \in Images
    /\ history \in Seq(Images) /\ Len(history) > 0
    /\ count \in Counts

Index ==
    /\ shm \in Indexes
    /\ shm.h1.mxFrame <= Len(log) /\ shm.h2.mxFrame <= Len(log)

Values ==
    /\ Data /\ Index
    /\ lock \in Locks
    /\ pc \in [Clients -> Steps]
    /\ wal \in [Clients -> Wals]
    /\ \A c \in Clients : Within(wal[c], pc[c], Len(log))

Appending == {"frames", "publish", "published"}
InTransaction == {"restart", "reset", "resetinfo", "write"} \cup Appending
InCheckpoint == {"ckpt", "ckfix", "scan", "marks", "copy"}

\* The step s of a connection and its Wal object w.
Stands(s, w) ==
    /\ w.read # None <=> s \in {"read"} \cup InTransaction
    /\ s \in {"restart", "reset", "resetinfo"} => w.read = 0
    /\ s \in {"write"} \cup Appending => w.read \in MarkIds
    /\ w.tx > 0 => s \in {"pick", "lock"} \cup InTransaction
    /\ s \in InTransaction => w.tx > 0
    /\ s = "lock" => w.at \in MarkIds /\ w.mark <= w.hdr.mxFrame

\* ... and the locks it has.
Holds(c, s, w, l) ==
    /\ l.write = c <=> w.tx > 0 \/ s \in {"fix", "ckfix"}
    /\ l.ckpt = c <=> s \in InCheckpoint
    /\ l.backfill = c <=> s = "copy"
    /\ l.restart = c <=> s \in {"reset", "resetinfo"}
    /\ \A i \in ReadLocks : c \in l.shared[i] <=> w.read = i

Apart(l) ==
    /\ l.backfill # None => l.shared[0] = {}
    /\ l.restart # None => \A i \in MarkIds : l.shared[i] = {}

LocksInv ==
    /\ Values
    /\ Apart(lock)
    /\ \A c \in Clients : Stands(pc[c], wal[c]) /\ Holds(c, pc[c], wal[c], lock)

\* What the others hold when connection c leaves the locks l.
Elsewhere(c, l) ==
    \A d \in Clients \ {c} :
        /\ l.write = d <=> lock.write = d
        /\ l.ckpt = d <=> lock.ckpt = d
        /\ l.backfill = d <=> lock.backfill = d
        /\ l.restart = d <=> lock.restart = d
        /\ \A i \in ReadLocks : d \in l.shared[i] <=> d \in lock.shared[i]

\* A step of connection c to s, with its Wal object w and the locks l.
LEMMA StepOfOne ==
    ASSUME LocksInv, NEW c \in Clients, NEW s \in Steps, NEW w \in Wals, NEW l \in Locks,
           pc' = [pc EXCEPT ![c] = s], wal' = [wal EXCEPT ![c] = w], lock' = l,
           Elsewhere(c, l), Apart(l), Stands(s, w), Holds(c, s, w, l),
           Data', Index', Len(log) <= Len(log'), Within(w, s, Len(log'))
    PROVE  LocksInv'
<1>1. pc' \in [Clients -> Steps] /\ wal' \in [Clients -> Wals]
    BY DEF LocksInv, Values
<1>2. pc'[c] = s /\ wal'[c] = w
    BY DEF LocksInv, Values
<1>3. ASSUME NEW d \in Clients, d # c
      PROVE  /\ Stands(pc'[d], wal'[d]) /\ Holds(d, pc'[d], wal'[d], l)
             /\ Within(wal'[d], pc'[d], Len(log'))
    <2>1. Stands(pc[d], wal[d]) /\ Holds(d, pc[d], wal[d], lock)
        BY DEF LocksInv
    <2>2. pc'[d] = pc[d] /\ wal'[d] = wal[d]
        BY <1>3 DEF LocksInv, Values
    <2>3. Holds(d, pc[d], wal[d], l)
        BY <1>3, <2>1 DEF Elsewhere, Holds
    <2>4. Within(wal[d], pc[d], Len(log')) 
        <3>1. Within(wal[d], pc[d], Len(log)) /\ wal[d] \in Wals
            BY DEF LocksInv, Values
        <3>2. Len(log) \in Nat /\ Len(log') \in Nat
            BY DEF LocksInv, Values, Data
        <3>3. wal[d].hdr.mxFrame \in Nat
            BY <3>1 DEF Wals, Headers
        <3> QED
            BY <3>1, <3>2, <3>3 DEF Within
    <2> QED
        BY <2>1, <2>2, <2>3, <2>4
<1>4. Values'
    BY <1>1, <1>2, <1>3 DEF Values
<1> QED
    BY <1>2, <1>3, <1>4 DEF LocksInv

LEMMA SameData ==
    ASSUME Data, UNCHANGED <<log, logSalt, db, history, count>>
    PROVE  Data' /\ Len(log) <= Len(log')
BY DEF Data

LEMMA SameIndex ==
    ASSUME Index, UNCHANGED <<log, shm>>
    PROVE  Index'
BY DEF Index

LEMMA SameLocks ==
    ASSUME LocksInv, NEW c \in Clients
    PROVE  lock \in Locks /\ Elsewhere(c, lock) /\ Apart(lock)
BY DEF LocksInv, Values, Elsewhere

\* What is known of a connection before its step.
LEMMA Before ==
    ASSUME LocksInv, NEW c \in Clients
    PROVE  /\ wal[c] \in Wals /\ pc[c] \in Steps /\ lock \in Locks
           /\ shm \in Indexes /\ count \in Counts /\ Len(log) \in 0 .. MaxFrames
           /\ Stands(pc[c], wal[c]) /\ Holds(c, pc[c], wal[c], lock) /\ Apart(lock)
           /\ Within(wal[c], pc[c], Len(log)) /\ Data /\ Index
           /\ shm.h1 \in Headers /\ shm.h2 \in Headers
           /\ wal[c].hdr \in Headers /\ None \notin Clients /\ None # 0
<1>1. LocksInv => Data /\ Index
    BY DEF LocksInv, Values
<1>2. Len(log) \in 0 .. MaxFrames
    BY <1>1, WalAssumption DEF Data
<1>3. wal[c] \in Wals /\ pc[c] \in Steps
    BY DEF LocksInv, Values
<1>4. lock \in Locks /\ shm \in Indexes /\ count \in Counts
    BY DEF LocksInv, Values, Data, Index
<1>5. Within(wal[c], pc[c], Len(log))
    BY DEF LocksInv, Values
<1> QED
    BY <1>1, <1>2, <1>3, <1>4, <1>5, WalAssumption DEF LocksInv, Wals, Indexes

LEMMA ReadHdrLocks ==
    ASSUME LocksInv, NEW c \in Clients, ReadHdr(c)
    PROVE  LocksInv'
<1> DEFINE w == wal[c]
<1>1. Data' /\ Index' /\ Len(log) <= Len(log')
    BY Before, SameData, SameIndex DEF ReadHdr
<1>2. CASE HdrIsGood
    <2> DEFINE v == [w EXCEPT !.hdr = shm.h1]
               s == IF pc[c] = "idle" THEN "begin" ELSE "scan"
    <2>1. v \in Wals /\ v.hdr = shm.h1 /\ v.read = w.read /\ v.tx = w.tx
        BY Before DEF Wals
    <2>2. pc' = [pc EXCEPT ![c] = s] /\ wal' = [wal EXCEPT ![c] = v] /\ lock' = lock
        BY <1>2 DEF ReadHdr, Goto, Fields
    <2>3. pc[c] \in {"idle", "ckpt"} /\ log' = log
        BY DEF ReadHdr
    <2> HIDE DEF v
    <2>4. Stands(s, v) /\ Within(v, s, Len(log')) /\ s \in Steps
        BY <2>1, <2>3, Before DEF Stands, Within, InTransaction, Appending, Steps, Index
    <2>5. Holds(c, s, v, lock)
        BY <2>1, <2>3, Before DEF Holds, InCheckpoint
    <2> QED
        BY <1>1, <2>1, <2>2, <2>4, <2>5, SameLocks, StepOfOne
<1>3. CASE ~HdrIsGood
    <2> DEFINE l == [lock EXCEPT !.write = c]
               s == IF pc[c] = "idle" THEN "fix" ELSE "ckfix"
    <2>1. /\ l \in Locks /\ l.write = c /\ l.ckpt = lock.ckpt /\ l.shared = lock.shared
          /\ l.backfill = lock.backfill /\ l.restart = lock.restart
        BY Before DEF Locks
    <2>2. /\ pc' = [pc EXCEPT ![c] = s] /\ wal' = [wal EXCEPT ![c] = w] /\ lock' = l
          /\ lock.write = None
        BY <1>3, Before DEF ReadHdr, Goto, LocksInv, Values
    <2>3. pc[c] \in {"idle", "ckpt"} /\ log' = log
        BY DEF ReadHdr
    <2> HIDE DEF l
    <2>4. Stands(s, w) /\ Within(w, s, Len(log')) /\ s \in Steps
        BY <2>3, Before DEF Stands, Within, InTransaction, Appending, Steps
    <2>5. Holds(c, s, w, l) /\ Elsewhere(c, l) /\ Apart(l)
        BY <2>1, <2>2, <2>3, Before DEF Holds, InCheckpoint, Elsewhere, Apart
    <2> QED
        BY <1>1, <2>1, <2>2, <2>4, <2>5, Before, StepOfOne
<1> QED
    BY <1>2, <1>3

LEMMA TryBeginLocks ==
    ASSUME LocksInv, NEW c \in Clients, TryBegin(c)
    PROVE  LocksInv'
<1> DEFINE w == wal[c]
<1>1. Data' /\ Index' /\ Len(log) <= Len(log')
    BY Before, SameData, SameIndex DEF TryBegin
<1>2. pc[c] = "begin" /\ log' = log
    BY DEF TryBegin
<1>3. CASE shm.nBackfill = w.hdr.mxFrame /\ lock.backfill = None /\ shm.h1 = w.hdr
    <2> DEFINE v == [w EXCEPT !.read = 0]
               l == [lock EXCEPT !.shared[0] = lock.shared[0] \cup {c}]
    <2>1. v \in Wals /\ v.hdr = w.hdr /\ v.read = 0 /\ v.tx = w.tx
        BY Before, WalAssumption DEF Wals, ReadLocks
    <2>2. /\ l \in Locks /\ l.write = lock.write /\ l.ckpt = lock.ckpt
          /\ l.shared = [lock.shared EXCEPT ![0] = lock.shared[0] \cup {c}]
          /\ l.backfill = lock.backfill /\ l.restart = lock.restart
        BY Before, WalAssumption DEF Locks, ReadLocks
    <2>3. /\ pc' = [pc EXCEPT ![c] = "read"] /\ wal' = [wal EXCEPT ![c] = v] /\ lock' = l
          /\ lock.backfill = None
        BY <1>3 DEF TryBegin, Goto, Fields
    <2> HIDE DEF v, l
    <2>4. Stands("read", v) /\ Within(v, "read", Len(log')) /\ "read" \in Steps
        BY <1>2, <2>1, Before DEF Stands, Within, InTransaction, Appending, Steps
    <2>5. Holds(c, "read", v, l) /\ Elsewhere(c, l) /\ Apart(l)
        BY <1>2, <2>1, <2>2, <2>3, Before, WalAssumption
        DEF Holds, Stands, InTransaction, Appending, InCheckpoint, Elsewhere, Apart,
            ReadLocks, MarkIds, Locks
    <2> QED
        BY <1>1, <2>1, <2>2, <2>3, <2>4, <2>5, StepOfOne
<1>4. CASE ~(shm.nBackfill = w.hdr.mxFrame /\ lock.backfill = None /\ shm.h1 = w.hdr)
    <2> DEFINE s == IF shm.nBackfill = w.hdr.mxFrame /\ lock.backfill = None
                    THEN "idle" ELSE "pick"
    <2>1. pc' = [pc EXCEPT ![c] = s] /\ wal' = [wal EXCEPT ![c] = w] /\ lock' = lock
        BY <1>4 DEF TryBegin, Goto, LocksInv, Values
    <2>2. Stands(s, w) /\ Within(w, s, Len(log')) /\ s \in Steps
        BY <1>2, Before DEF Stands, Within, InTransaction, Appending, Steps
    <2>3. Holds(c, s, w, lock)
        BY <1>2, Before DEF Holds, InCheckpoint
    <2> QED
        BY <1>1, <2>1, <2>2, <2>3, Before, SameLocks, StepOfOne
<1> QED
    BY <1>3, <1>4

\* The mark that is looked at for a snapshot is one of those that may be used.
LEMMA BestMark ==
    ASSUME LocksInv, NEW usable \in SUBSET MarkIds, usable # {}
    PROVE  Max({i \in usable : \A j \in usable : shm.marks[j] <= shm.marks[i]}) \in usable
<1> DEFINE best == {i \in usable : \A j \in usable : shm.marks[j] <= shm.marks[i]}
           values == {shm.marks[i] : i \in usable}
<1>1. \A i \in MarkIds : shm.marks[i] \in 0 .. NotUsed
    BY DEF LocksInv, Values, Index, Indexes
<1>2. NotUsed \in Nat /\ values \in SUBSET (0 .. NotUsed) /\ values # {}
    BY <1>1, WalAssumption DEF NotUsed
<1>3. Max(values) \in values /\ \A k \in values : k <= Max(values)
    BY <1>2, GreatestExists
<1>4. PICK i \in usable : shm.marks[i] = Max(values)
    BY <1>3
<1>5. best # {}
    BY <1>3, <1>4
<1>6. best \in SUBSET (0 .. Marks)
    BY DEF MarkIds
<1>7. Max(best) \in best
    BY <1>5, <1>6, GreatestExists, WalAssumption
<1> QED
    BY <1>7

LEMMA PickMarkLocks ==
    ASSUME LocksInv, NEW c \in Clients, PickMark(c)
    PROVE  LocksInv'
<1> DEFINE w == wal[c]
           mx == w.hdr.mxFrame
           usable == {i \in MarkIds : shm.marks[i] <= mx}
           best == Max({i \in usable : \A j \in usable : shm.marks[j] <= shm.marks[i]})
           exact == usable # {} /\ shm.marks[best] = mx
           free == {i \in MarkIds : Free(i)}
<1>1. /\ pc[c] = "pick" /\ log' = log /\ lock' = lock /\ mx \in 0 .. MaxFrames
      /\ \A i \in MarkIds : shm.marks[i] \in 0 .. NotUsed
    <2>1. w.hdr \in Headers /\ mx <= Len(log) /\ Len(log) \in 0 .. MaxFrames
        BY Before DEF Within
    <2>2. mx \in 0 .. MaxFrames
        BY <2>1, WalAssumption DEF Headers
    <2>3. \A i \in MarkIds : shm.marks[i] \in 0 .. NotUsed
        BY Before DEF Indexes
    <2> QED
        BY <2>2, <2>3 DEF PickMark
<1>2. Data' /\ Len(log) <= Len(log')
    BY Before, SameData DEF PickMark
<1>3. ASSUME NEW i \in MarkIds, NEW m \in 0 .. MaxFrames, m <= mx, Index',
             pc' = [pc EXCEPT ![c] = "lock"],
             wal' = [wal EXCEPT ![c] = [wal[c] EXCEPT !.at = i, !.mark = m]]
      PROVE  LocksInv'
    <2> DEFINE v == [w EXCEPT !.at = i, !.mark = m]
    <2>1. /\ v \in Wals /\ v.hdr = w.hdr /\ v.read = w.read /\ v.tx = w.tx
          /\ v.at = i /\ v.mark = m
        <3>1. w \in Wals /\ i \in Nat /\ m \in Nat
            BY Before, WalAssumption DEF MarkIds
        <3> HIDE DEF w
        <3> QED
            BY <3>1 DEF Wals
    <2> HIDE DEF v
    <2>2. Stands("lock", v) /\ Within(v, "lock", Len(log')) /\ "lock" \in Steps
        BY <1>1, <1>3, <2>1, Before DEF Stands, Within, InTransaction, Appending, Steps
    <2>3. Holds(c, "lock", v, lock)
        BY <1>1, <2>1, Before DEF Holds, InCheckpoint
    <2>4. wal' = [wal EXCEPT ![c] = v]
        BY <1>3 DEF v
    <2> QED
        BY <1>1, <1>2, <1>3, <2>1, <2>2, <2>3, <2>4, SameLocks, StepOfOne
<1>4. CASE /\ ~exact /\ free # {}
           /\ shm' = [shm EXCEPT !.marks[Min(free)] = mx]
           /\ Fields(c, [wal[c] EXCEPT !.at = Min(free), !.mark = mx])
           /\ Goto(c, "lock")
    <2>1. Min(free) \in MarkIds
        <3>1. free \in SUBSET Nat
            BY DEF MarkIds
        <3>2. Min(free) \in free
            BY <1>4, <3>1, LeastExists
        <3> QED
            BY <3>2
    <2> HIDE DEF free
    <2> DEFINE k == Min(free)
    <2> HIDE DEF k
    <2>2. shm' = [shm EXCEPT !.marks[k] = mx] /\ k \in MarkIds
        BY <1>4, <2>1 DEF k
    <2>3. Index'
        <3> DEFINE t == [shm EXCEPT !.marks[k] = mx]
        <3>1. mx \in 0 .. NotUsed
            BY <1>1, WalAssumption DEF NotUsed
        <3>2. t \in Indexes /\ t.h1 = shm.h1 /\ t.h2 = shm.h2
            <4> HIDE DEF mx
            <4> QED
                BY <2>2, <3>1, Before DEF Indexes
        <3> HIDE DEF t
        <3> QED
            BY <1>1, <2>2, <3>2, Before DEF Index, t
    <2>4. mx <= mx
        BY <1>1
    <2> HIDE DEF mx, w
    <2>5. /\ pc' = [pc EXCEPT ![c] = "lock"]
          /\ wal' = [wal EXCEPT ![c] = [wal[c] EXCEPT !.at = Min(free), !.mark = mx]]
        BY <1>4 DEF Fields, Goto
    <2> QED
        BY <1>1, <1>3, <2>1, <2>3, <2>4, <2>5
<1>5. CASE /\ exact \/ (free = {} /\ usable # {})
           /\ Fields(c, [wal[c] EXCEPT !.at = best, !.mark = shm.marks[best]])
           /\ Goto(c, "lock")
           /\ UNCHANGED shm
    <2>1. best \in usable
        BY <1>5, BestMark
    <2>2. best \in MarkIds /\ shm.marks[best] \in 0 .. MaxFrames /\ shm.marks[best] <= mx
        <3>1. best \in MarkIds /\ shm.marks[best] <= mx
            BY <2>1
        <3> HIDE DEF best
        <3>2. shm.marks[best] \in Nat
            BY <1>1, <3>1
        <3> QED
            BY <1>1, <3>1, <3>2, WalAssumption
    <2>3. Index'
        BY <1>1, <1>5, Before, SameIndex
    <2> QED
        BY <1>3, <1>5, <2>2, <2>3 DEF Fields, Goto
<1>6. CASE free = {} /\ usable = {} /\ Retry(c) /\ UNCHANGED <<shm, wal>>
    <2> DEFINE s == IF wal[c].tx > 0 THEN "pick" ELSE "idle"
    <2>1. pc' = [pc EXCEPT ![c] = s] /\ wal' = [wal EXCEPT ![c] = w] /\ Index'
        BY <1>1, <1>6, Before, SameIndex DEF Retry, Goto, LocksInv, Values
    <2>2. Stands(s, w) /\ Within(w, s, Len(log')) /\ s \in Steps
        BY <1>1, Before DEF Stands, Within, InTransaction, Appending, Steps
    <2>3. Holds(c, s, w, lock)
        BY <1>1, Before DEF Holds, InCheckpoint
    <2> QED
        BY <1>1, <1>2, <2>1, <2>2, <2>3, Before, SameLocks, StepOfOne
<1> QED
    BY <1>4, <1>5, <1>6 DEF PickMark

LEMMA LockMarkLocks ==
    ASSUME LocksInv, NEW c \in Clients, LockMark(c)
    PROVE  LocksInv'
<1> DEFINE w == wal[c]
           i == w.at
           ok == lock.restart = None /\ shm.marks[i] = w.mark /\ shm.h1 = w.hdr
<1>1. Data' /\ Index' /\ Len(log) <= Len(log')
    BY Before, SameData, SameIndex DEF LockMark
<1>2. pc[c] = "lock" /\ log' = log /\ i \in MarkIds
    BY Before DEF LockMark, Stands
<1>3. CASE ok
    <2> DEFINE v == [w EXCEPT !.read = i]
               l == [lock EXCEPT !.shared[i] = lock.shared[i] \cup {c}]
               s == IF wal[c].tx > 0 THEN "write" ELSE "read"
    <2>1. v \in Wals /\ v.hdr = w.hdr /\ v.read = i /\ v.tx = w.tx
        BY <1>2, Before DEF Wals, ReadLocks, MarkIds
    <2>2. pc' = [pc EXCEPT ![c] = s] /\ wal' = [wal EXCEPT ![c] = v] /\ lock' = l
        BY <1>3 DEF LockMark, Goto, Fields
    <2> HIDE DEF v
    <2> DEFINE k == w.at
    <2> HIDE DEF k
    <2>3. /\ l \in Locks /\ l.write = lock.write /\ l.ckpt = lock.ckpt
          /\ l.shared = [lock.shared EXCEPT ![k] = lock.shared[k] \cup {c}]
          /\ l.backfill = lock.backfill /\ l.restart = lock.restart
          /\ k \in MarkIds /\ lock.restart = None
        <3>1. l = [lock EXCEPT !.shared[k] = lock.shared[k] \cup {c}] /\ k \in MarkIds
            BY <1>2 DEF k
        <3> HIDE DEF l
        <3> QED
            BY <1>3, <3>1, Before DEF Locks, ReadLocks, MarkIds
    <2> HIDE DEF l
    <2>4. Stands(s, v) /\ Within(v, s, Len(log')) /\ s \in Steps
        BY <1>2, <2>1, Before, WalAssumption
        DEF Stands, Within, InTransaction, Appending, Steps, MarkIds, Wals
    <2>5. v.read = k
        BY <2>1 DEF k
    <2>6. w.read = None /\ k # 0
        BY <1>2, <2>3, Before DEF Stands, InTransaction, Appending, MarkIds
    <2>7. Holds(c, s, v, l) /\ Elsewhere(c, l) /\ Apart(l)
        <3> HIDE DEF i
        <3>1. \A j \in ReadLocks : c \in l.shared[j] <=> v.read = j
            <4>1. lock.shared \in [ReadLocks -> SUBSET Clients] /\ k \in ReadLocks
                BY <2>3, Before DEF Locks, ReadLocks, MarkIds
            <4>2. \A j \in ReadLocks : c \in lock.shared[j] <=> w.read = j
                BY Before DEF Holds
            <4>3. \A j \in ReadLocks : c \notin lock.shared[j]
                BY <2>6, <4>2, WalAssumption DEF ReadLocks
            <4> QED
                BY <2>3, <2>5, <4>1, <4>3
        <3> QED
            BY <1>2, <2>1, <2>3, <2>5, <2>6, <3>1, Before, WalAssumption
            DEF Holds, InCheckpoint, Elsewhere, Apart, ReadLocks, MarkIds, Locks
    <2> QED
        BY <1>1, <2>1, <2>2, <2>3, <2>4, <2>7, StepOfOne
<1>4. CASE ~ok
    <2> DEFINE s == IF wal[c].tx > 0 THEN "pick" ELSE "idle"
    <2>1. pc' = [pc EXCEPT ![c] = s] /\ wal' = [wal EXCEPT ![c] = w] /\ lock' = lock
        BY <1>4 DEF LockMark, Retry, Goto, LocksInv, Values
    <2>2. Stands(s, w) /\ Within(w, s, Len(log')) /\ s \in Steps
        BY <1>2, Before DEF Stands, Within, InTransaction, Appending, Steps
    <2>3. Holds(c, s, w, lock)
        BY <1>2, Before DEF Holds, InCheckpoint
    <2> QED
        BY <1>1, <2>1, <2>2, <2>3, Before, SameLocks, StepOfOne
<1> QED
    BY <1>3, <1>4

LEMMA NoWalValues == NoWal \in Wals /\ NoWal.hdr = NoHdr /\ NoHdr.mxFrame = 0
                     /\ NoWal.read = None /\ NoWal.tx = 0 /\ NoHdr \in Headers
BY WalAssumption DEF NoWal, NoHdr, Hdr, Wals, Headers, ReadLocks

LEMMA EndReadLocks ==
    ASSUME LocksInv, NEW c \in Clients, EndRead(c)
    PROVE  LocksInv'
<1> DEFINE w == wal[c]
           k == w.read
           l == [lock EXCEPT !.shared[k] = lock.shared[k] \ {c}]
<1>1. Data' /\ Index' /\ Len(log) <= Len(log')
    BY Before, SameData, SameIndex DEF EndRead
<1>2. pc[c] = "read" /\ log' = log /\ Len(log) \in Nat
    BY Before DEF EndRead
<1>3. pc' = [pc EXCEPT ![c] = "idle"] /\ wal' = [wal EXCEPT ![c] = NoWal] /\ lock' = l
    BY DEF EndRead, Goto, Fields
<1>4. k \in ReadLocks
    BY <1>2, Before DEF Stands, Wals
<1> HIDE DEF k
<1>5. /\ l \in Locks /\ l.write = lock.write /\ l.ckpt = lock.ckpt
      /\ l.shared = [lock.shared EXCEPT ![k] = lock.shared[k] \ {c}]
      /\ l.backfill = lock.backfill /\ l.restart = lock.restart
    BY <1>4, Before DEF Locks
<1> HIDE DEF l
<1>6. Stands("idle", NoWal) /\ Within(NoWal, "idle", Len(log')) /\ "idle" \in Steps
    BY <1>2, NoWalValues DEF Stands, Within, InTransaction, Appending, Steps
<1>7. \A i \in ReadLocks : c \notin l.shared[i]
    <2>1. lock.shared \in [ReadLocks -> SUBSET Clients]
        BY Before DEF Locks
    <2>2. \A i \in ReadLocks : c \in lock.shared[i] <=> k = i
        BY Before DEF Holds, k
    <2> QED
        BY <1>4, <1>5, <2>1, <2>2
<1>8. Elsewhere(c, l) /\ Apart(l)
    BY <1>4, <1>5, Before DEF Elsewhere, Apart, Locks, ReadLocks, MarkIds
<1>9. Holds(c, "idle", NoWal, l)
    BY <1>2, <1>5, <1>7, NoWalValues, Before, WalAssumption
    DEF Holds, Stands, InCheckpoint, InTransaction, Appending, ReadLocks
<1> QED
    BY <1>1, <1>3, <1>5, <1>6, <1>8, <1>9, NoWalValues, StepOfOne

----------------------------------------------------------------------------
(* Write transactions *)

LEMMA BeginWriteLocks ==
    ASSUME LocksInv, NEW c \in Clients, BeginWrite(c)
    PROVE  LocksInv'
<1> DEFINE w == wal[c]
           v == [w EXCEPT !.tx = count.tx + 1]
           l == [lock EXCEPT !.write = c]
           s == IF wal[c].read = 0 THEN "restart" ELSE "write"
<1>1. count.tx + 1 \in 1 .. MaxTx /\ count \in Counts
    BY Before, WalAssumption DEF BeginWrite, Counts
<1>2. count' \in Counts
    BY <1>1 DEF BeginWrite, Counts
<1>3. Data' /\ Index' /\ Len(log) <= Len(log')
    BY <1>2, Before, SameIndex DEF BeginWrite, Data
<1>4. pc[c] = "read" /\ log' = log /\ lock.write = None
    BY DEF BeginWrite
<1>5. pc' = [pc EXCEPT ![c] = s] /\ wal' = [wal EXCEPT ![c] = v] /\ lock' = l
    BY DEF BeginWrite, Goto, Fields
<1>6. v \in Wals /\ v.hdr = w.hdr /\ v.read = w.read /\ v.tx = count.tx + 1
    BY <1>1, Before DEF Wals
<1>7. /\ l \in Locks /\ l.write = c /\ l.ckpt = lock.ckpt /\ l.shared = lock.shared
      /\ l.backfill = lock.backfill /\ l.restart = lock.restart
    BY Before DEF Locks
<1> HIDE DEF v, l
<1>8. Stands(s, v) /\ Within(v, s, Len(log')) /\ s \in Steps
    BY <1>1, <1>4, <1>6, Before
    DEF Stands, Within, InTransaction, Appending, Steps, Wals, ReadLocks, MarkIds
<1>9. Elsewhere(c, l) /\ Apart(l)
    BY <1>4, <1>7, Before DEF Elsewhere, Apart
<1>10. Holds(c, s, v, l)
    BY <1>1, <1>4, <1>6, <1>7, Before DEF Holds, InCheckpoint
<1> QED
    BY <1>3, <1>5, <1>6, <1>7, <1>8, <1>9, <1>10, StepOfOne

\* The locks of a restart are the writer's.
LEMMA WriterRestarts ==
    ASSUME LocksInv
    PROVE  lock.restart # None => lock.restart \in Clients /\ lock.write = lock.restart
<1> SUFFICES ASSUME lock.restart # None
             PROVE  lock.restart \in Clients /\ lock.write = lock.restart
    OBVIOUS
<1> DEFINE d == lock.restart
<1>1. d \in Clients
    BY DEF LocksInv, Values, Locks
<1>2. Stands(pc[d], wal[d]) /\ Holds(d, pc[d], wal[d], lock)
    BY <1>1 DEF LocksInv
<1>3. pc[d] \in {"reset", "resetinfo"}
    BY <1>2 DEF Holds
<1> QED
    BY <1>1, <1>2, <1>3 DEF Holds, Stands, InTransaction

\* A writer gives up READ(0) and any restart, and goes on to pick a mark.
LEMMA LeavingMarkZero ==
    ASSUME LocksInv, NEW c \in Clients, LeaveMarkZero(c, wal[c]), log' = log,
           pc[c] \in {"restart", "resetinfo"}, Data', Index'
    PROVE  LocksInv'
<1> DEFINE w == wal[c]
           v == [w EXCEPT !.read = None]
           l == [lock EXCEPT !.shared[0] = lock.shared[0] \ {c}, !.restart = None]
<1>1. pc' = [pc EXCEPT ![c] = "pick"] /\ wal' = [wal EXCEPT ![c] = v] /\ lock' = l
    BY DEF LeaveMarkZero, Goto, Fields
<1>2. v \in Wals /\ v.hdr = w.hdr /\ v.read = None /\ v.tx = w.tx
    BY Before DEF Wals
<1>3. /\ l \in Locks /\ l.write = lock.write /\ l.ckpt = lock.ckpt
      /\ l.shared = [lock.shared EXCEPT ![0] = lock.shared[0] \ {c}]
      /\ l.backfill = lock.backfill /\ l.restart = None
    BY Before, WalAssumption DEF Locks, ReadLocks
<1> HIDE DEF v, l
<1>4. w.read = 0 /\ lock.write = c /\ w.tx > 0
    BY Before DEF Stands, Holds, InTransaction
<1>5. Stands("pick", v) /\ Within(v, "pick", Len(log')) /\ "pick" \in Steps
    BY <1>2, Before DEF Stands, Within, InTransaction, Appending, Steps
<1>6. \A i \in ReadLocks : c \notin l.shared[i]
    <2>1. lock.shared \in [ReadLocks -> SUBSET Clients] /\ 0 \in ReadLocks
        BY Before, WalAssumption DEF Locks, ReadLocks
    <2>2. \A i \in ReadLocks : c \in lock.shared[i] <=> i = 0
        BY <1>4, Before DEF Holds
    <2> QED
        BY <1>3, <2>1, <2>2
<1>7. Elsewhere(c, l)
    <2>1. lock.shared \in [ReadLocks -> SUBSET Clients] /\ 0 \in ReadLocks
        BY Before, WalAssumption DEF Locks, ReadLocks
    <2>2. \A d \in Clients \ {c} : lock.restart # d
        BY <1>4, WriterRestarts, WalAssumption
    <2> QED
        BY <1>3, <2>1, <2>2, WalAssumption DEF Elsewhere
<1>8. Apart(l)
    <2>1. lock.shared \in [ReadLocks -> SUBSET Clients] /\ 0 \in ReadLocks
        BY Before, WalAssumption DEF Locks, ReadLocks
    <2> QED
        BY <1>3, <2>1, Before DEF Apart
<1>9. Holds(c, "pick", v, l)
    BY <1>2, <1>3, <1>4, <1>6, Before, WalAssumption DEF Holds, InCheckpoint, ReadLocks
<1>10. Len(log) <= Len(log')
    BY Before
<1> QED
    BY <1>1, <1>2, <1>3, <1>5, <1>7, <1>8, <1>9, <1>10, StepOfOne

LEMMA RestartLogLocks ==
    ASSUME LocksInv, NEW c \in Clients, RestartLog(c)
    PROVE  LocksInv'
<1> DEFINE w == wal[c]
           ok == shm.nBackfill > 0 /\ \A i \in MarkIds : Free(i)
<1>1. pc[c] = "restart" /\ log' = log
    BY DEF RestartLog
<1>2. CASE ok
    <2> DEFINE hdr == Hdr(0, count.salt + 1, wal[c].hdr.commit)
               v == [w EXCEPT !.hdr = hdr]
               l == [lock EXCEPT !.restart = c]
               t == [shm EXCEPT !.h2 = hdr]
    <2>1. /\ pc' = [pc EXCEPT ![c] = "reset"] /\ wal' = [wal EXCEPT ![c] = v] /\ lock' = l
          /\ shm' = t /\ count' = [count EXCEPT !.salt = count.salt + 1]
        BY <1>2 DEF RestartLog, Goto, Fields
    <2>2. hdr \in Headers /\ hdr.mxFrame = 0
        BY Before DEF Hdr, Headers, Counts
    <2> HIDE DEF hdr
    <2>3. v \in Wals /\ v.hdr = hdr /\ v.read = w.read /\ v.tx = w.tx
        BY <2>2, Before DEF Wals
    <2>4. /\ l \in Locks /\ l.write = lock.write /\ l.ckpt = lock.ckpt
          /\ l.shared = lock.shared /\ l.backfill = lock.backfill /\ l.restart = c
        BY Before DEF Locks
    <2>5. t \in Indexes /\ t.h1 = shm.h1 /\ t.h2 = hdr
        BY <2>2, Before DEF Indexes
    <2>6. count' \in Counts
        BY <2>1, Before DEF Counts
    <2> HIDE DEF v, l, t
    <2>7. Index' /\ Data' /\ Len(log) <= Len(log') /\ Len(log) \in Nat
        BY <2>1, <2>2, <2>5, <2>6, Before DEF RestartLog, Index, Data
    <2>8. Stands("reset", v) /\ Within(v, "reset", Len(log')) /\ "reset" \in Steps
        BY <1>1, <2>2, <2>3, <2>7, Before DEF Stands, Within, InTransaction, Appending, Steps
    <2>9. \A i \in MarkIds : lock.shared[i] = {}
        BY <1>2 DEF Free
    <2>10. lock.restart = None
        BY <1>2, WalAssumption DEF Free, MarkIds
    <2>11. Elsewhere(c, l) /\ Apart(l)
        BY <2>4, <2>9, <2>10, Before DEF Elsewhere, Apart
    <2>12. Holds(c, "reset", v, l)
        BY <1>1, <2>3, <2>4, Before DEF Holds, InCheckpoint
    <2> QED
        BY <2>1, <2>3, <2>4, <2>7, <2>8, <2>11, <2>12, StepOfOne
<1>3. CASE ~ok
    <2>1. LeaveMarkZero(c, w) /\ UNCHANGED <<log, logSalt, db, history, count, shm>>
        BY <1>3 DEF RestartLog
    <2>2. Data' /\ Index'
        BY <2>1, Before, SameData, SameIndex
    <2> QED
        BY <1>1, <2>1, <2>2, LeavingMarkZero
<1> QED
    BY <1>2, <1>3

LEMMA ResetHeaderLocks ==
    ASSUME LocksInv, NEW c \in Clients, ResetHeader(c)
    PROVE  LocksInv'
<1> DEFINE w == wal[c]
           t == [shm EXCEPT !.h1 = wal[c].hdr]
<1>1. pc[c] = "reset" /\ log' = log /\ lock' = lock /\ shm' = t
    BY DEF ResetHeader
<1>2. pc' = [pc EXCEPT ![c] = "resetinfo"] /\ wal' = [wal EXCEPT ![c] = w]
    BY DEF ResetHeader, Goto, LocksInv, Values
<1>3. t \in Indexes /\ t.h1 = w.hdr /\ t.h2 = shm.h2
    BY Before DEF Indexes
<1> HIDE DEF t
<1>4. Data' /\ Index' /\ Len(log) <= Len(log')
    BY <1>1, <1>3, Before, SameData DEF Index, Within, ResetHeader
<1>5. Stands("resetinfo", w) /\ Within(w, "resetinfo", Len(log')) /\ "resetinfo" \in Steps
    BY <1>1, Before DEF Stands, Within, InTransaction, Appending, Steps
<1>6. Holds(c, "resetinfo", w, lock)
    BY <1>1, Before DEF Holds, InCheckpoint
<1> QED
    BY <1>1, <1>2, <1>4, <1>5, <1>6, Before, SameLocks, StepOfOne

LEMMA ResetInfoLocks ==
    ASSUME LocksInv, NEW c \in Clients, ResetInfo(c)
    PROVE  LocksInv'
<1> DEFINE marks == [i \in MarkIds |-> IF i = 1 THEN 0 ELSE NotUsed]
           t == [shm EXCEPT !.nBackfill = 0, !.marks = marks]
<1>1. pc[c] = "resetinfo" /\ log' = log /\ LeaveMarkZero(c, wal[c]) /\ shm' = t
    BY DEF ResetInfo
<1>2. marks \in [MarkIds -> 0 .. NotUsed]
    BY WalAssumption DEF NotUsed
<1> HIDE DEF marks
<1>3. t \in Indexes /\ t.h1 = shm.h1 /\ t.h2 = shm.h2
    <2>1. shm \in Indexes /\ 0 \in 0 .. MaxFrames
        BY Before, WalAssumption
    <2> QED
        BY <1>2, <2>1 DEF Indexes
<1> HIDE DEF t
<1>4. Data' /\ Index'
    BY <1>1, <1>3, Before, SameData DEF ResetInfo, Index
<1> QED
    BY <1>1, <1>4, LeavingMarkZero

LEMMA WriteLogHeaderLocks ==
    ASSUME LocksInv, NEW c \in Clients, WriteLogHeader(c)
    PROVE  LocksInv'
<1> DEFINE w == wal[c]
<1>1. pc[c] = "write" /\ log' = log /\ lock' = lock /\ pc' = [pc EXCEPT ![c] = "frames"]
    BY DEF WriteLogHeader, Goto
<1>2. w.hdr.mxFrame = 0
    BY DEF WriteLogHeader
<1>3. logSalt' \in Nat /\ count' \in Counts
    <2>1. count \in Counts /\ w.hdr \in Headers
        BY Before
    <2>2. PICK fresh \in BOOLEAN :
              /\ logSalt' = IF fresh THEN count.salt + 1 ELSE w.hdr.salt
              /\ count' = [count EXCEPT !.salt = IF fresh THEN @ + 1 ELSE @]
        BY DEF WriteLogHeader
    <2> QED
        BY <2>1, <2>2 DEF Counts, Headers
<1>4. PICK pages \in SUBSET Pages :
          wal' = [wal EXCEPT ![c] = [wal[c] EXCEPT !.todo = pages, !.hdr.salt = logSalt']]
    BY DEF WriteLogHeader, Fields
<1> DEFINE v == [wal[c] EXCEPT !.todo = pages, !.hdr.salt = logSalt']
<1>5. v \in Wals /\ v.hdr.mxFrame = 0 /\ v.read = w.read /\ v.tx = w.tx
    <2>1. w \in Wals
        BY Before
    <2> HIDE DEF w
    <2> QED
        BY <1>2, <1>3, <2>1 DEF Wals, Headers, w
<1>6. Data' /\ Index' /\ Len(log) <= Len(log') /\ Len(log) \in Nat
    BY <1>3, Before, SameIndex DEF WriteLogHeader, Data
<1>7. wal' = [wal EXCEPT ![c] = v]
    BY <1>4
<1> HIDE DEF v
<1>8. Stands("frames", v) /\ Within(v, "frames", Len(log')) /\ "frames" \in Steps
    BY <1>1, <1>5, <1>6, Before DEF Stands, Within, InTransaction, Appending, Steps
<1>9. Holds(c, "frames", v, lock)
    BY <1>1, <1>5, Before DEF Holds, InCheckpoint
<1> QED
    BY <1>1, <1>5, <1>6, <1>7, <1>8, <1>9, SameLocks, StepOfOne

LEMMA StartFramesLocks ==
    ASSUME LocksInv, NEW c \in Clients, StartFrames(c)
    PROVE  LocksInv'
<1> DEFINE w == wal[c]
<1>1. pc[c] = "write" /\ log' = log /\ lock' = lock /\ pc' = [pc EXCEPT ![c] = "frames"]
    BY DEF StartFrames, Goto
<1>2. PICK pages \in SUBSET Pages : wal' = [wal EXCEPT ![c] = [wal[c] EXCEPT !.todo = pages]]
    BY DEF StartFrames, Fields
<1> DEFINE v == [wal[c] EXCEPT !.todo = pages]
<1>3. v \in Wals /\ v.hdr = w.hdr /\ v.read = w.read /\ v.tx = w.tx
    BY Before DEF Wals
<1>4. Data' /\ Index' /\ Len(log) <= Len(log')
    BY Before, SameData, SameIndex DEF StartFrames
<1>5. wal' = [wal EXCEPT ![c] = v]
    BY <1>2
<1> HIDE DEF v
<1>6. Stands("frames", v) /\ Within(v, "frames", Len(log')) /\ "frames" \in Steps
    BY <1>1, <1>3, Before DEF Stands, Within, InTransaction, Appending, Steps
<1>7. Holds(c, "frames", v, lock)
    BY <1>1, <1>3, Before DEF Holds, InCheckpoint
<1> QED
    BY <1>1, <1>3, <1>4, <1>5, <1>6, <1>7, SameLocks, StepOfOne

\* The frame that a connection appends, and what it leaves of its Wal object.
NewFrame(c, p) ==
    LET w == wal[c] f == w.hdr.mxFrame + 1 IN
    [page |-> p, tx |-> w.tx, salt |-> w.hdr.salt,
     after |-> IF f = 1 THEN 0 ELSE log[f - 1].tx,
     commit |-> IF w.todo = {p} THEN w.hdr.commit + 1 ELSE 0]

LEMMA FrameWritten ==
    ASSUME LocksInv, NEW c \in Clients, NEW p \in Pages, WriteFrame(c, p)
    PROVE  LET w == wal[c]
               f == w.hdr.mxFrame + 1
               last == w.todo = {p}
               s == IF last THEN "publish" ELSE "frames"
               v == wal'[c]
           IN /\ pc[c] = "frames" /\ f \in 1 .. Len(log) + 1 /\ f <= MaxFrames
              /\ pc' = [pc EXCEPT ![c] = s] /\ wal' = [wal EXCEPT ![c] = v]
              /\ v \in Wals /\ v.read = w.read /\ v.tx = w.tx
              /\ v.hdr.mxFrame = f /\ v.hdr.salt = w.hdr.salt
              /\ v.hdr.commit = IF last THEN w.hdr.commit + 1 ELSE w.hdr.commit
              /\ log' \in Seq(LogFrames)
              /\ Len(log') = IF f = Len(log) + 1 THEN f ELSE Len(log)
              /\ log'[f] = NewFrame(c, p) /\ NewFrame(c, p) \in LogFrames
              /\ \A g \in 1 .. Len(log) : g # f => log'[g] = log[g]
              /\ UNCHANGED <<logSalt, db, shm, lock, history, count>>
<1> DEFINE w == wal[c]
           f == w.hdr.mxFrame + 1
           last == w.todo = {p}
           s == IF last THEN "publish" ELSE "frames"
           hdr == Hdr(f, w.hdr.salt, w.hdr.commit + IF last THEN 1 ELSE 0)
           v == [w EXCEPT !.todo = w.todo \ {p}, !.hdr = hdr]
           fr == NewFrame(c, p)
<1>1. w \in Wals /\ w.hdr \in Headers /\ w.tx \in 1 .. MaxTx /\ w.hdr.mxFrame \in 0 .. Len(log)
      /\ pc[c] = "frames"
    <2>1. w.tx > 0 /\ pc[c] = "frames"
        BY Before DEF WriteFrame, Stands, InTransaction, Appending
    <2>2. w.hdr.mxFrame \in Nat /\ w.hdr.mxFrame <= Len(log) /\ Len(log) \in Nat
        BY Before DEF Headers, Within
    <2>3. w.tx \in 0 .. MaxTx
        BY Before DEF Wals
    <2> QED
        BY <2>1, <2>2, <2>3, Before, WalAssumption
<1>2. v \in Wals /\ v.read = w.read /\ v.tx = w.tx /\ v.hdr.mxFrame = f
      /\ v.hdr.salt = w.hdr.salt
      /\ v.hdr.commit = IF last THEN w.hdr.commit + 1 ELSE w.hdr.commit
    <2>1. w \in Wals /\ w.hdr.commit \in Nat /\ w.hdr.salt \in Nat /\ f \in Nat
        BY <1>1 DEF Headers
    <2> HIDE DEF w, f
    <2>2. /\ hdr \in Headers /\ hdr.mxFrame = f /\ hdr.salt = w.hdr.salt
          /\ hdr.commit = IF last THEN w.hdr.commit + 1 ELSE w.hdr.commit
        BY <2>1 DEF Hdr, Headers
    <2> HIDE DEF hdr
    <2> QED
        BY <2>1, <2>2 DEF Wals
<1>3. /\ pc' = [pc EXCEPT ![c] = s] /\ wal' = [wal EXCEPT ![c] = v] /\ f <= MaxFrames
      /\ log' = [g \in 1 .. Max({f, Len(log)}) |-> IF g = f THEN fr ELSE log[g]]
      /\ UNCHANGED <<logSalt, db, shm, lock, history, count>>
    BY DEF WriteFrame, Goto, Fields, NewFrame
<1> HIDE DEF v
<1>4. wal'[c] = v
    BY <1>3 DEF LocksInv, Values
<1>5. log \in Seq(LogFrames) /\ Len(log) \in Nat /\ f \in 1 .. Len(log) + 1
    BY <1>1, Before DEF Data
<1>6. fr \in LogFrames
    <2>1. f # 1 => log[f - 1] \in LogFrames
        BY <1>1, <1>5
    <2>2. w.hdr.commit \in Nat /\ w.hdr.salt \in Nat
        BY <1>1 DEF Headers
    <2>3. f # 1 => log[f - 1].tx \in Nat
        BY <2>1, WalAssumption DEF LogFrames
    <2> HIDE DEF f
    <2>4. (IF f = 1 THEN 0 ELSE log[f - 1].tx) \in Nat
        BY <2>3
    <2> QED
        BY <1>1, <2>2, <2>4 DEF LogFrames, NewFrame, f
<1>7. Max({f, Len(log)}) = IF f = Len(log) + 1 THEN f ELSE Len(log)
    <2>1. {f, Len(log)} \in SUBSET (0 .. Len(log) + 1) /\ Len(log) + 1 \in Nat
        BY <1>5
    <2>2. Max({f, Len(log)}) \in {f, Len(log)} /\ \A k \in {f, Len(log)} : k <= Max({f, Len(log)})
        BY <2>1, GreatestExists
    <2> QED
        BY <1>5, <2>2
<1> HIDE DEF fr, w
<1>8. /\ log' \in Seq(LogFrames) /\ Len(log') = IF f = Len(log) + 1 THEN f ELSE Len(log)
      /\ log'[f] = fr /\ \A g \in 1 .. Len(log) : g # f => log'[g] = log[g]
    <2> DEFINE n == Max({f, Len(log)})
    <2>1. n \in Nat /\ f \in 1 .. n /\ Len(log) <= n
        BY <1>5, <1>7
    <2>2. log' = [g \in 1 .. n |-> IF g = f THEN fr ELSE log[g]]
        BY <1>3
    <2>3. \A g \in 1 .. n : g # f => g \in 1 .. Len(log)
        BY <1>5, <1>7
    <2>4. \A g \in 1 .. Len(log) : log[g] \in LogFrames
        BY <1>5
    <2> HIDE DEF n, f
    <2>5. log' \in [1 .. n -> LogFrames]
        BY <1>6, <2>2, <2>3, <2>4
    <2>6. log' \in Seq(LogFrames) /\ Len(log') = n
        BY <2>1, <2>5, SeqDef, LenProperties
    <2>7. log'[f] = fr /\ \A g \in 1 .. n : g # f => log'[g] = log[g]
        BY <2>1, <2>2
    <2> QED
        <3>1. n = IF f = Len(log) + 1 THEN f ELSE Len(log)
            BY <1>7 DEF n
        <3>2. \A g \in 1 .. Len(log) : g \in 1 .. n
            BY <1>5, <2>1
        <3> QED
            BY <2>6, <2>7, <3>1, <3>2
<1> QED
    BY <1>1, <1>2, <1>3, <1>4, <1>5, <1>6, <1>8 DEF w, fr

LEMMA WriteFrameLocks ==
    ASSUME LocksInv, NEW c \in Clients, NEW p \in Pages, WriteFrame(c, p)
    PROVE  LocksInv'
<1> DEFINE w == wal[c]
           v == wal'[c]
           s == IF w.todo = {p} THEN "publish" ELSE "frames"
<1>1. /\ pc[c] = "frames" /\ pc' = [pc EXCEPT ![c] = s] /\ wal' = [wal EXCEPT ![c] = v]
      /\ v \in Wals /\ v.read = w.read /\ v.tx = w.tx /\ v.hdr.mxFrame = w.hdr.mxFrame + 1
      /\ log' \in Seq(LogFrames) /\ Len(log') \in Nat /\ Len(log') <= MaxFrames
      /\ Len(log) <= Len(log') /\ w.hdr.mxFrame + 1 <= Len(log')
      /\ UNCHANGED <<logSalt, db, shm, lock, history, count>>
    <2>1. Len(log) \in 0 .. MaxFrames
        BY Before
    <2> QED
        BY <2>1, FrameWritten
<1> HIDE DEF v
<1>2. Data' /\ Index'
    <2>1. shm.h1.mxFrame \in Nat /\ shm.h2.mxFrame \in Nat /\ Len(log) \in Nat
        BY Before DEF Headers
    <2> QED
        BY <1>1, <2>1, Before DEF Data, Index
<1>3. Stands(s, v) /\ Within(v, s, Len(log')) /\ s \in Steps
    BY <1>1, Before DEF Stands, Within, InTransaction, Appending, Steps
<1>4. Holds(c, s, v, lock)
    BY <1>1, Before DEF Holds, InCheckpoint
<1> QED
    BY <1>1, <1>2, <1>3, <1>4, SameLocks, StepOfOne

LEMMA PublishSecondLocks ==
    ASSUME LocksInv, NEW c \in Clients, PublishSecond(c)
    PROVE  LocksInv'
<1> DEFINE w == wal[c]
           t == [shm EXCEPT !.h2 = wal[c].hdr]
<1>1. pc[c] = "publish" /\ log' = log /\ lock' = lock /\ shm' = t
    BY DEF PublishSecond
<1>2. pc' = [pc EXCEPT ![c] = "published"] /\ wal' = [wal EXCEPT ![c] = w]
    BY DEF PublishSecond, Goto, LocksInv, Values
<1>3. t \in Indexes /\ t.h1 = shm.h1 /\ t.h2 = w.hdr
    BY Before DEF Indexes
<1> HIDE DEF t
<1>4. Data' /\ Index' /\ Len(log) <= Len(log')
    BY <1>1, <1>3, Before, SameData DEF Index, Within, PublishSecond
<1>5. Stands("published", w) /\ Within(w, "published", Len(log')) /\ "published" \in Steps
    BY <1>1, Before DEF Stands, Within, InTransaction, Appending, Steps
<1>6. Holds(c, "published", w, lock)
    BY <1>1, Before DEF Holds, InCheckpoint
<1> QED
    BY <1>1, <1>2, <1>4, <1>5, <1>6, Before, SameLocks, StepOfOne

\* What the frames up to mx make of the database is an image.
LEMMA ImageValues ==
    ASSUME LocksInv, NEW mx \in 0 .. Len(log)
    PROVE  Image(mx) \in Images
<1>1. ASSUME NEW p \in Pages
      PROVE  (IF Frame(p, mx) = 0 THEN db[p] ELSE log[Frame(p, mx)].tx) \in 0 .. MaxTx
    <2>1. Frame(p, mx) \in 0 .. mx /\ Len(log) \in Nat
        BY FrameIsLast, Before DEF LocksInv, Values, Data
    <2>2. log \in Seq(LogFrames) /\ db \in Images
        BY DEF LocksInv, Values, Data
    <2>3. Frame(p, mx) # 0 => log[Frame(p, mx)] \in LogFrames
        BY <2>1, <2>2
    <2>4. db[p] \in 0 .. MaxTx
        BY <2>2 DEF Images
    <2> QED
        BY <2>3, <2>4, WalAssumption DEF LogFrames
<1> QED
    BY <1>1 DEF Image, Images

LEMMA PublishFirstLocks ==
    ASSUME LocksInv, NEW c \in Clients, PublishFirst(c)
    PROVE  LocksInv'
<1> DEFINE w == wal[c]
           v == [w EXCEPT !.tx = 0]
           l == [lock EXCEPT !.write = None]
           t == [shm EXCEPT !.h1 = wal[c].hdr]
<1>1. pc[c] = "published" /\ log' = log /\ lock' = l /\ shm' = t /\ lock.write = c
    BY Before DEF PublishFirst, Holds, Stands, InTransaction, Appending
<1>2. pc' = [pc EXCEPT ![c] = "read"] /\ wal' = [wal EXCEPT ![c] = v]
    BY DEF PublishFirst, Goto, Fields
<1>3. t \in Indexes /\ t.h1 = w.hdr /\ t.h2 = shm.h2
    BY Before DEF Indexes
<1>4. v \in Wals /\ v.hdr = w.hdr /\ v.read = w.read /\ v.tx = 0
    BY Before, WalAssumption DEF Wals
<1>5. /\ l \in Locks /\ l.write = None /\ l.ckpt = lock.ckpt /\ l.shared = lock.shared
      /\ l.backfill = lock.backfill /\ l.restart = lock.restart
    BY Before DEF Locks
<1> HIDE DEF t, v, l
<1>6. Reads(c) \in Images
    <2>1. 0 \in 0 .. Len(log) /\ w.hdr.mxFrame \in 0 .. Len(log)
        BY Before DEF Headers, Within
    <2> QED
        BY <2>1, ImageValues DEF Reads
<1>7. Data' /\ Index' /\ Len(log) <= Len(log')
    <2>1. history' = Append(history, Reads(c)) /\ UNCHANGED <<log, logSalt, db, count>>
        BY DEF PublishFirst
    <2>2. history' \in Seq(Images) /\ Len(history') > 0
        BY <1>6, <2>1, Before DEF Data
    <2> QED
        BY <1>1, <1>3, <2>1, <2>2, Before DEF Index, Data, Within
<1>8. Stands("read", v) /\ Within(v, "read", Len(log')) /\ "read" \in Steps
    BY <1>1, <1>4, Before DEF Stands, Within, InTransaction, Appending, Steps
<1>9. Elsewhere(c, l) /\ Apart(l)
    BY <1>1, <1>5, Before DEF Elsewhere, Apart
<1>10. Holds(c, "read", v, l)
    BY <1>1, <1>4, <1>5, Before DEF Holds, InCheckpoint
<1> QED
    BY <1>1, <1>2, <1>4, <1>5, <1>7, <1>8, <1>9, <1>10, StepOfOne

LEMMA UndoLocks ==
    ASSUME LocksInv, NEW c \in Clients, Undo(c)
    PROVE  LocksInv'
<1> DEFINE w == wal[c]
           v == [w EXCEPT !.hdr = shm.h1, !.todo = {}, !.tx = 0]
           l == [lock EXCEPT !.write = None]
<1>1. /\ pc[c] \in {"write", "frames"} /\ log' = log /\ lock' = l /\ lock.write = c
      /\ pc' = [pc EXCEPT ![c] = "read"] /\ wal' = [wal EXCEPT ![c] = v]
    BY Before DEF Undo, Holds, Stands, InTransaction, Appending, Goto, Fields
<1>2. v \in Wals /\ v.hdr = shm.h1 /\ v.read = w.read /\ v.tx = 0
    <2>1. w \in Wals /\ shm.h1 \in Headers /\ 0 \in 0 .. MaxTx
        BY Before, WalAssumption
    <2> HIDE DEF w
    <2> QED
        BY <2>1 DEF Wals
<1>3. /\ l \in Locks /\ l.write = None /\ l.ckpt = lock.ckpt /\ l.shared = lock.shared
      /\ l.backfill = lock.backfill /\ l.restart = lock.restart
    BY Before DEF Locks
<1> HIDE DEF v, l
<1>4. Data' /\ Index' /\ Len(log) <= Len(log')
    BY Before, SameData, SameIndex DEF Undo
<1>5. Stands("read", v) /\ Within(v, "read", Len(log')) /\ "read" \in Steps
    BY <1>1, <1>2, Before DEF Stands, Within, InTransaction, Appending, Steps, Index
<1>6. Elsewhere(c, l) /\ Apart(l)
    BY <1>1, <1>3, Before DEF Elsewhere, Apart
<1>7. Holds(c, "read", v, l)
    BY <1>1, <1>2, <1>3, Before DEF Holds, InCheckpoint
<1> QED
    BY <1>1, <1>2, <1>3, <1>4, <1>5, <1>6, <1>7, StepOfOne

----------------------------------------------------------------------------
(* Checkpoints *)

LEMMA BeginCheckpointLocks ==
    ASSUME LocksInv, NEW c \in Clients, BeginCheckpoint(c)
    PROVE  LocksInv'
<1> DEFINE w == wal[c]
           l == [lock EXCEPT !.ckpt = c]
<1>1. /\ pc[c] = "idle" /\ log' = log /\ lock' = l /\ lock.ckpt = None
      /\ pc' = [pc EXCEPT ![c] = "ckpt"] /\ wal' = [wal EXCEPT ![c] = w]
    BY DEF BeginCheckpoint, Goto, LocksInv, Values
<1>2. /\ l \in Locks /\ l.write = lock.write /\ l.ckpt = c /\ l.shared = lock.shared
      /\ l.backfill = lock.backfill /\ l.restart = lock.restart
    BY Before DEF Locks
<1> HIDE DEF l
<1>3. count' \in Counts
    BY Before DEF BeginCheckpoint, Counts
<1>4. Data' /\ Index' /\ Len(log) <= Len(log')
    BY <1>3, Before, SameIndex DEF BeginCheckpoint, Data
<1>5. Stands("ckpt", w) /\ Within(w, "ckpt", Len(log')) /\ "ckpt" \in Steps
    BY <1>1, Before DEF Stands, Within, InTransaction, Appending, Steps
<1>6. Elsewhere(c, l) /\ Apart(l)
    BY <1>1, <1>2, Before DEF Elsewhere, Apart
<1>7. Holds(c, "ckpt", w, l)
    BY <1>1, <1>2, Before DEF Holds, InCheckpoint
<1> QED
    BY <1>1, <1>2, <1>4, <1>5, <1>6, <1>7, Before, StepOfOne

\* A checkpoint ends, with or without READ(0).
LEMMA EndingCheckpoint ==
    ASSUME LocksInv, NEW c \in Clients, log' = log, Data', Index',
           pc[c] \in {"scan", "marks", "copy"},
           NEW x \in {lock.backfill, None}, pc[c] = "copy" => x = None,
           EndCheckpoint(c, [lock EXCEPT !.backfill = x])
    PROVE  LocksInv'
<1> DEFINE w == wal[c]
           l == [lock EXCEPT !.backfill = x, !.ckpt = None]
<1>1. lock' = l /\ pc' = [pc EXCEPT ![c] = "idle"] /\ wal' = [wal EXCEPT ![c] = NoWal]
    BY DEF EndCheckpoint, Goto, Fields
<1>2. /\ l \in Locks /\ l.write = lock.write /\ l.ckpt = None /\ l.shared = lock.shared
      /\ l.backfill = x /\ l.restart = lock.restart
    BY Before DEF Locks
<1> HIDE DEF l
<1>3. Len(log) <= Len(log') /\ Len(log) \in Nat
    BY Before
<1>4. Stands("idle", NoWal) /\ Within(NoWal, "idle", Len(log')) /\ "idle" \in Steps
    BY <1>3, NoWalValues DEF Stands, Within, InTransaction, Appending, Steps
<1>5. lock.ckpt = c
    BY Before DEF Holds, InCheckpoint
<1>6. \A d \in Clients \ {c} : lock.backfill # d
    <2> SUFFICES ASSUME NEW d \in Clients \ {c}, lock.backfill = d PROVE FALSE
        OBVIOUS
    <2>1. Holds(d, pc[d], wal[d], lock)
        BY DEF LocksInv
    <2> QED
        BY <1>5, <2>1 DEF Holds, InCheckpoint
<1>7. Elsewhere(c, l) /\ Apart(l)
    BY <1>2, <1>5, <1>6, Before, WalAssumption DEF Elsewhere, Apart
<1>8. w.read = None /\ w.tx \in 0 .. MaxTx /\ ~(w.tx > 0)
    BY Before DEF Stands, InTransaction, Appending, Wals
<1>9. Holds(c, "idle", NoWal, l)
    BY <1>2, <1>8, NoWalValues, Before, WalAssumption DEF Holds, InCheckpoint
<1> QED
    BY <1>1, <1>2, <1>3, <1>4, <1>7, <1>9, NoWalValues, StepOfOne

LEMMA SameLock ==
    ASSUME LocksInv
    PROVE  lock = [lock EXCEPT !.backfill = lock.backfill]
BY DEF LocksInv, Values, Locks

LEMMA ScanLocks ==
    ASSUME LocksInv, NEW c \in Clients, Scan(c)
    PROVE  LocksInv'
<1> DEFINE w == wal[c]
           mx == w.hdr.mxFrame
<1>1. pc[c] = "scan" /\ log' = log
    BY DEF Scan
<1>2. Data' /\ Index' /\ Len(log) <= Len(log')
    BY Before, SameData, SameIndex DEF Scan
<1>3. CASE shm.nBackfill >= mx
    <2>1. EndCheckpoint(c, lock)
        BY <1>3 DEF Scan
    <2> QED
        BY <1>1, <1>2, <2>1, SameLock, EndingCheckpoint
<1>4. CASE ~(shm.nBackfill >= mx)
    <2> DEFINE frames == [p \in Pages |-> Frame(p, mx)]
               v == [wal[c] EXCEPT !.safe = mx, !.at = 1, !.iter = frames]
    <2>1. /\ pc' = [pc EXCEPT ![c] = "marks"] /\ wal' = [wal EXCEPT ![c] = v] /\ lock' = lock
        BY <1>4 DEF Scan, Goto, Fields
    <2>2. mx \in 0 .. MaxFrames /\ mx <= Len(log) /\ Len(log) \in 0 .. MaxFrames
        BY Before, WalAssumption DEF Headers, Within
    <2>3. frames \in [Pages -> 0 .. Len(log)]
        BY <2>2, FrameIsLast
    <2> HIDE DEF frames
    <2>4. frames \in [Pages -> Nat]
        BY <2>2, <2>3
    <2>5. /\ v \in Wals /\ v.hdr = w.hdr /\ v.read = w.read /\ v.tx = w.tx
          /\ v.iter = frames /\ v.safe = mx /\ v.at = 1
        <3>1. w \in Wals
            BY Before
        <3> HIDE DEF w, mx
        <3> QED
            BY <2>2, <2>4, <3>1 DEF Wals, w
    <2> HIDE DEF v
    <2>6. Stands("marks", v) /\ Within(v, "marks", Len(log')) /\ "marks" \in Steps
        BY <1>1, <2>2, <2>3, <2>5, Before
        DEF Stands, Within, InTransaction, Appending, Steps
    <2>7. Holds(c, "marks", v, lock)
        BY <1>1, <2>5, Before DEF Holds, InCheckpoint
    <2> QED
        BY <1>2, <2>1, <2>5, <2>6, <2>7, SameLocks, StepOfOne
<1> QED
    BY <1>3, <1>4

\* What a checkpoint does to the mark it looks at.
LEMMA MarkChecked ==
    ASSUME LocksInv, NEW c \in Clients, CheckMark(c)
    PROVE  LET w == wal[c] v == wal'[c] i == w.at m == shm.marks[i] IN
           /\ pc[c] = "marks" /\ i \in MarkIds /\ w.safe \in 0 .. MaxFrames /\ m \in 0 .. NotUsed
           /\ wal' = [wal EXCEPT ![c] = v] /\ v \in Wals
           /\ v.hdr = w.hdr /\ v.read = w.read /\ v.tx = w.tx /\ v.iter = w.iter
           /\ v.todo = w.todo /\ v.at = i + 1
           /\ v.safe = IF w.safe > m /\ ~Free(i) THEN m ELSE w.safe
           /\ shm' \in Indexes /\ shm'.init = shm.init /\ shm'.h1 = shm.h1 /\ shm'.h2 = shm.h2
           /\ shm'.nBackfill = shm.nBackfill
           /\ \A j \in MarkIds : j # i => shm'.marks[j] = shm.marks[j]
           /\ ~Free(i) => shm'.marks[i] = m
           /\ UNCHANGED <<log, logSalt, db, lock, pc, history, count>>
<1> DEFINE w == wal[c]
           i == w.at
           m == shm.marks[i]
           below == w.safe > m
           v == [w EXCEPT !.at = i + 1, !.safe = IF below /\ ~Free(i) THEN m ELSE w.safe]
           k == IF i = 1 THEN w.safe ELSE NotUsed
<1>1. pc[c] = "marks" /\ i \in MarkIds /\ w.safe \in 0 .. MaxFrames /\ m \in 0 .. NotUsed
      /\ i \in Nat /\ w \in Wals
    BY Before DEF CheckMark, Wals, Indexes
<1>2. /\ UNCHANGED <<log, logSalt, db, lock, pc, history, count>>
      /\ wal' = [wal EXCEPT ![c] = v]
      /\ shm' = IF below /\ Free(i) THEN [shm EXCEPT !.marks[i] = k] ELSE shm
    BY DEF CheckMark, Fields
<1> HIDE DEF v
<1>3. wal'[c] = v
    BY <1>2 DEF LocksInv, Values
<1>4. /\ v \in Wals /\ v.hdr = w.hdr /\ v.read = w.read /\ v.tx = w.tx /\ v.iter = w.iter
      /\ v.todo = w.todo /\ v.at = i + 1
      /\ v.safe = IF below /\ ~Free(i) THEN m ELSE w.safe
    <2> DEFINE n == IF below /\ ~Free(i) THEN m ELSE w.safe
    <2>1. n \in 0 .. MaxFrames
        BY <1>1, WalAssumption
    <2>2. v = [w EXCEPT !.at = i + 1, !.safe = n]
        BY DEF v
    <2> HIDE DEF n, w, i
    <2> DEFINE k1 == i + 1
    <2>3. w \in Wals /\ k1 \in Nat /\ v = [w EXCEPT !.at = k1, !.safe = n]
        BY <1>1, <2>2
    <2> HIDE DEF k1
    <2>4. v \in Wals /\ v.hdr = w.hdr /\ v.read = w.read /\ v.tx = w.tx /\ v.iter = w.iter
          /\ v.todo = w.todo /\ v.at = k1 /\ v.safe = n
        BY <2>1, <2>3 DEF Wals
    <2> QED
        BY <2>4 DEF n, k1
<1>5. /\ shm' \in Indexes /\ shm'.init = shm.init /\ shm'.h1 = shm.h1 /\ shm'.h2 = shm.h2
      /\ shm'.nBackfill = shm.nBackfill
      /\ \A j \in MarkIds : j # i => shm'.marks[j] = shm.marks[j]
      /\ ~Free(i) => shm'.marks[i] = m
    <2>1. CASE below /\ Free(i)
        <3>1. k \in 0 .. NotUsed
            BY <1>1, WalAssumption DEF NotUsed
        <3>2. shm' = [shm EXCEPT !.marks[i] = k] /\ shm \in Indexes /\ i \in MarkIds
            BY <1>1, <1>2, <2>1, Before
        <3> HIDE DEF i, k
        <3> QED
            BY <2>1, <3>1, <3>2 DEF Indexes
    <2>2. CASE ~(below /\ Free(i))
        BY <1>2, <2>2, Before
    <2> QED
        BY <2>1, <2>2
<1> QED
    BY <1>1, <1>2, <1>3, <1>4, <1>5

LEMMA CheckMarkLocks ==
    ASSUME LocksInv, NEW c \in Clients, CheckMark(c)
    PROVE  LocksInv'
<1> DEFINE w == wal[c]
           v == wal'[c]
<1>1. /\ pc[c] = "marks" /\ wal' = [wal EXCEPT ![c] = v] /\ v \in Wals
      /\ v.hdr = w.hdr /\ v.read = w.read /\ v.tx = w.tx /\ v.iter = w.iter
      /\ v.safe <= w.safe /\ v.safe \in Nat /\ w.safe \in Nat
      /\ shm' \in Indexes /\ shm'.h1 = shm.h1 /\ shm'.h2 = shm.h2
      /\ UNCHANGED <<log, logSalt, db, lock, pc, history, count>>
    BY MarkChecked, WalAssumption DEF NotUsed
<1>2. pc' = [pc EXCEPT ![c] = "marks"]
    BY <1>1 DEF LocksInv, Values
<1> HIDE DEF v
<1>3. Data' /\ Index' /\ Len(log) <= Len(log')
    BY <1>1, Before, SameData DEF Index
<1>4. w.hdr.mxFrame \in Nat
    BY Before DEF Headers
<1>5. Stands("marks", v) /\ Within(v, "marks", Len(log')) /\ "marks" \in Steps
    BY <1>1, <1>4, Before DEF Stands, Within, InTransaction, Appending, Steps
<1>6. Holds(c, "marks", v, lock)
    BY <1>1, Before DEF Holds, InCheckpoint
<1> QED
    BY <1>1, <1>2, <1>3, <1>5, <1>6, SameLocks, StepOfOne

LEMMA LockBackfillLocks ==
    ASSUME LocksInv, NEW c \in Clients, LockBackfill(c)
    PROVE  LocksInv'
<1> DEFINE w == wal[c]
           ok == shm.nBackfill < w.safe /\ Free(0)
<1>1. pc[c] = "marks" /\ log' = log
    BY DEF LockBackfill
<1>2. Data' /\ Index' /\ Len(log) <= Len(log')
    BY Before, SameData, SameIndex DEF LockBackfill
<1>3. CASE ~ok
    <2>1. EndCheckpoint(c, lock)
        BY <1>3 DEF LockBackfill
    <2> QED
        BY <1>1, <1>2, <2>1, SameLock, EndingCheckpoint
<1>4. CASE ok
    <2> DEFINE pages == {p \in Pages : w.iter[p] > shm.nBackfill /\ w.iter[p] <= w.safe}
               v == [w EXCEPT !.todo = pages]
               l == [lock EXCEPT !.backfill = c]
    <2>1. /\ pc' = [pc EXCEPT ![c] = "copy"] /\ wal' = [wal EXCEPT ![c] = v] /\ lock' = l
        BY <1>4 DEF LockBackfill, Goto, Fields
    <2>2. /\ v \in Wals /\ v.hdr = w.hdr /\ v.read = w.read /\ v.tx = w.tx
          /\ v.iter = w.iter /\ v.safe = w.safe /\ \A p \in v.todo : v.iter[p] > 0
        <3>1. pages \subseteq Pages /\ \A p \in pages : w.iter[p] > 0
            <4>1. w.iter \in [Pages -> 0 .. Len(log)] /\ shm.nBackfill \in Nat /\ Len(log) \in Nat
                BY <1>1, Before, WalAssumption DEF Within, Indexes
            <4> QED
                BY <4>1
        <3> HIDE DEF pages
        <3> QED
            BY <3>1, Before DEF Wals
    <2>3. /\ l \in Locks /\ l.write = lock.write /\ l.ckpt = lock.ckpt
          /\ l.shared = lock.shared /\ l.backfill = c /\ l.restart = lock.restart
        BY Before DEF Locks
    <2> HIDE DEF v, l
    <2>4. lock.shared[0] = {} /\ lock.ckpt = c
        BY <1>1, <1>4, Before DEF Free, Holds, InCheckpoint
    <2>5. \A d \in Clients \ {c} : lock.backfill # d
        <3> SUFFICES ASSUME NEW d \in Clients \ {c}, lock.backfill = d PROVE FALSE
            OBVIOUS
        <3>1. Holds(d, pc[d], wal[d], lock)
            BY DEF LocksInv
        <3> QED
            BY <2>4, <3>1 DEF Holds, InCheckpoint
    <2>6. Stands("copy", v) /\ Within(v, "copy", Len(log')) /\ "copy" \in Steps
        BY <1>1, <2>2, Before DEF Stands, Within, InTransaction, Appending, Steps
    <2>7. Elsewhere(c, l) /\ Apart(l)
        BY <2>3, <2>4, <2>5, Before DEF Elsewhere, Apart
    <2>8. Holds(c, "copy", v, l)
        BY <1>1, <2>2, <2>3, Before DEF Holds, InCheckpoint
    <2> QED
        BY <1>2, <2>1, <2>2, <2>3, <2>6, <2>7, <2>8, StepOfOne
<1> QED
    BY <1>3, <1>4

LEMMA CopyPageLocks ==
    ASSUME LocksInv, NEW c \in Clients, NEW p \in Pages, CopyPage(c, p)
    PROVE  LocksInv'
<1> DEFINE w == wal[c]
           v == [wal[c] EXCEPT !.todo = wal[c].todo \ {p}]
<1>1. /\ pc[c] = "copy" /\ log' = log /\ lock' = lock /\ pc' = [pc EXCEPT ![c] = "copy"]
      /\ wal' = [wal EXCEPT ![c] = v] /\ db' = [db EXCEPT ![p] = log[w.iter[p]].tx]
      /\ UNCHANGED <<logSalt, shm, history, count>>
    BY DEF CopyPage, Fields, LocksInv, Values
<1>2. v \in Wals /\ v.hdr = w.hdr /\ v.read = w.read /\ v.tx = w.tx
      /\ v.iter = w.iter /\ v.safe = w.safe /\ v.todo \subseteq w.todo
    BY Before DEF Wals
<1> HIDE DEF v
<1>3. db' \in Images
    <2>3. p \in w.todo /\ w \in Wals
        BY Before DEF CopyPage
    <2>1. w.iter[p] \in 1 .. Len(log) /\ log \in Seq(LogFrames)
        BY <1>1, <2>3, Before DEF Within, Data
    <2>2. log[w.iter[p]] \in LogFrames
        BY <2>1
    <2>4. log[w.iter[p]].tx \in 0 .. MaxTx
        BY <2>2, WalAssumption DEF LogFrames
    <2> QED
        BY <1>1, <2>4, Before DEF Data, Images
<1>4. Data' /\ Index' /\ Len(log) <= Len(log')
    BY <1>1, <1>3, Before, SameIndex DEF Data
<1>5. Stands("copy", v) /\ Within(v, "copy", Len(log')) /\ "copy" \in Steps
    BY <1>1, <1>2, Before DEF Stands, Within, InTransaction, Appending, Steps
<1>6. Holds(c, "copy", v, lock)
    BY <1>1, <1>2, Before DEF Holds, InCheckpoint
<1> QED
    BY <1>1, <1>2, <1>4, <1>5, <1>6, SameLocks, StepOfOne

LEMMA EndBackfillLocks ==
    ASSUME LocksInv, NEW c \in Clients, EndBackfill(c)
    PROVE  LocksInv'
<1> DEFINE t == [shm EXCEPT !.nBackfill = wal[c].safe]
<1>1. /\ pc[c] = "copy" /\ log' = log /\ shm' = t
      /\ EndCheckpoint(c, [lock EXCEPT !.backfill = None])
    BY DEF EndBackfill
<1>2. t \in Indexes /\ t.h1 = shm.h1 /\ t.h2 = shm.h2
    BY Before DEF Indexes, Wals
<1> HIDE DEF t
<1>3. Data' /\ Index'
    BY <1>1, <1>2, Before, SameData DEF EndBackfill, Index
<1> QED
    BY <1>1, <1>3, EndingCheckpoint

----------------------------------------------------------------------------
(* Recovery and deaths *)

LEMMA IntactIsLast ==
    ASSUME LocksInv
    PROVE  /\ Intact \in 0 .. Len(log)
           /\ \A f \in 1 .. Intact : Valid(f)
           /\ \A n \in 0 .. Len(log) : (\A f \in 1 .. n : Valid(f)) => n <= Intact
<1> DEFINE S == {n \in 0 .. Len(log) : \A f \in 1 .. n : Valid(f)}
<1>1. Len(log) \in Nat
    BY DEF LocksInv, Values, Data
<1>2. S \in SUBSET (0 .. Len(log)) /\ 0 \in S
    BY <1>1
<1>3. Max(S) \in S /\ \A k \in S : k <= Max(S)
    <2> HIDE DEF S
    <2> QED
        BY <1>1, <1>2, GreatestExists
<1>4. Intact = Max(S)
    BY DEF Intact
<1> QED
    BY <1>3, <1>4

LEMMA CommittedIsLast ==
    ASSUME NEW n \in Nat
    PROVE  /\ Committed(n) \in 0 .. n
           /\ Committed(n) > 0 => log[Committed(n)].commit > 0
           /\ \A f \in 1 .. n : log[f].commit > 0 => f <= Committed(n)
<1> DEFINE S == {0} \cup {f \in 1 .. n : log[f].commit > 0}
<1>1. S \in SUBSET (0 .. n) /\ S # {}
    OBVIOUS
<1>2. Max(S) \in S /\ \A k \in S : k <= Max(S)
    <2> HIDE DEF S
    <2> QED
        BY <1>1, GreatestExists
<1>3. Committed(n) = Max(S)
    BY DEF Committed
<1> QED
    BY <1>2, <1>3

\* The frame that a recovery finds to be the last committed one, and the header for it.
Found == Committed(Intact)
FoundHdr == Hdr(Found, logSalt, IF Found = 0 THEN Len(history) ELSE log[Found].commit)

\* A recovery has all locks, and so nobody reads or checkpoints.
Recovering(c) ==
    ~HdrIsGood /\ (\A i \in ReadLocks : Free(i)) /\ lock.ckpt \in {None, c}

LEMMA FoundValues ==
    ASSUME LocksInv
    PROVE  /\ Found \in 0 .. Len(log) /\ Found \in 0 .. MaxFrames
           /\ FoundHdr \in Headers /\ FoundHdr.mxFrame = Found /\ FoundHdr.salt = logSalt
           /\ FoundHdr.commit = IF Found = 0 THEN Len(history) ELSE log[Found].commit
           /\ Image(Found) \in Images
<1>1. Len(log) \in 0 .. MaxFrames /\ log \in Seq(LogFrames) /\ logSalt \in Nat
      /\ Len(history) \in Nat
    BY WalAssumption DEF LocksInv, Values, Data
<1>2. Found \in 0 .. Len(log)
    BY <1>1, IntactIsLast, CommittedIsLast DEF Found
<1>3. Found # 0 => log[Found] \in LogFrames
    BY <1>1, <1>2
<1>4. (IF Found = 0 THEN Len(history) ELSE log[Found].commit) \in Nat
    BY <1>1, <1>3 DEF LogFrames
<1>5. Image(Found) \in Images
    BY <1>2, ImageValues
<1>6. FoundHdr \in Headers /\ FoundHdr.mxFrame = Found /\ FoundHdr.salt = logSalt
      /\ FoundHdr.commit = IF Found = 0 THEN Len(history) ELSE log[Found].commit
    <2>1. Found \in Nat
        BY <1>1, <1>2
    <2> QED
        BY <1>1, <1>4, <2>1 DEF FoundHdr, Hdr, Headers
<1> QED
    BY <1>1, <1>2, <1>5, <1>6, WalAssumption

LEMMA RecoverEffect ==
    ASSUME LocksInv, NEW c \in Clients, Recover(c)
    PROVE  /\ pc[c] \in {"fix", "ckfix"} /\ lock.write = c
           /\ pc' = [pc EXCEPT ![c] = IF pc[c] = "fix" THEN "idle" ELSE "ckpt"]
           /\ lock' = [lock EXCEPT !.write = None]
           /\ UNCHANGED <<log, logSalt, db, wal, count>>
           /\ ~Recovering(c) => UNCHANGED <<shm, history>>
           /\ Recovering(c) =>
                  /\ shm' \in Indexes /\ shm'.init = TRUE /\ shm'.h1 = FoundHdr
                  /\ shm'.h2 = FoundHdr /\ shm'.nBackfill = 0
                  /\ history' = IF FoundHdr.commit > Len(history)
                                THEN Append(history, Image(Found)) ELSE history
<1>1. pc[c] \in {"fix", "ckfix"} /\ lock.write = c
    BY Before DEF Recover, Holds
<1>2. /\ pc' = [pc EXCEPT ![c] = IF pc[c] = "fix" THEN "idle" ELSE "ckpt"]
      /\ lock' = [lock EXCEPT !.write = None]
      /\ UNCHANGED <<log, logSalt, db, wal, count>>
    BY DEF Recover, Goto
<1>3. ~Recovering(c) => UNCHANGED <<shm, history>>
    BY DEF Recover, Recovering
<1>4. ASSUME Recovering(c)
      PROVE  /\ shm' \in Indexes /\ shm'.init = TRUE /\ shm'.h1 = FoundHdr
             /\ shm'.h2 = FoundHdr /\ shm'.nBackfill = 0
             /\ history' = IF FoundHdr.commit > Len(history)
                           THEN Append(history, Image(Found)) ELSE history
    <2> DEFINE marks == [i \in MarkIds |-> IF i = 1 /\ Found > 0 THEN Found ELSE NotUsed]
    <2>1. /\ shm' = [init |-> TRUE, h1 |-> FoundHdr, h2 |-> FoundHdr, nBackfill |-> 0,
                     marks |-> marks]
          /\ history' = IF FoundHdr.commit > Len(history)
                        THEN Append(history, Image(Found)) ELSE history
        BY <1>4 DEF Recover, Recovering, Found, FoundHdr
    <2>2. marks \in [MarkIds -> 0 .. NotUsed]
        BY FoundValues, WalAssumption DEF NotUsed
    <2> HIDE DEF marks
    <2>3. 0 \in 0 .. MaxFrames
        BY WalAssumption
    <2> QED
        BY <2>1, <2>2, <2>3, FoundValues DEF Indexes
<1> QED
    BY <1>1, <1>2, <1>3, <1>4

LEMMA RecoverLocks ==
    ASSUME LocksInv, NEW c \in Clients, Recover(c)
    PROVE  LocksInv'
<1> DEFINE w == wal[c]
           s == IF pc[c] = "fix" THEN "idle" ELSE "ckpt"
           l == [lock EXCEPT !.write = None]
<1>1. /\ pc[c] \in {"fix", "ckfix"} /\ lock.write = c /\ lock' = l
      /\ pc' = [pc EXCEPT ![c] = s] /\ wal' = [wal EXCEPT ![c] = w]
      /\ UNCHANGED <<log, logSalt, db, count>>
    BY RecoverEffect DEF LocksInv, Values
<1>2. /\ l \in Locks /\ l.write = None /\ l.ckpt = lock.ckpt /\ l.shared = lock.shared
      /\ l.backfill = lock.backfill /\ l.restart = lock.restart
    BY Before DEF Locks
<1> HIDE DEF l
<1>3. Data' /\ Index'
    <2>1. CASE Recovering(c)
        <3>1. /\ Found \in 0 .. Len(log) /\ FoundHdr \in Headers /\ FoundHdr.mxFrame = Found
              /\ Image(Found) \in Images
            BY FoundValues
        <3>2. /\ shm' \in Indexes /\ shm'.init = TRUE /\ shm'.h1 = FoundHdr /\ shm'.h2 = FoundHdr
              /\ history' = IF FoundHdr.commit > Len(history)
                            THEN Append(history, Image(Found)) ELSE history
            BY <2>1, RecoverEffect
        <3> HIDE DEF Found, FoundHdr
        <3>3. history \in Seq(Images) /\ Len(history) > 0
            BY DEF LocksInv, Values, Data
        <3>4. history' \in Seq(Images) /\ Len(history') > 0
            <4>1. history' = history \/ history' = Append(history, Image(Found))
                BY <3>2
            <4> QED
                BY <3>1, <3>3, <4>1
        <3>5. Index'
            BY <1>1, <3>1, <3>2, Before DEF Index
        <3> QED
            BY <1>1, <3>4, <3>5, Before DEF Data
    <2>2. CASE ~Recovering(c)
        BY <1>1, <2>2, RecoverEffect, Before, SameData, SameIndex
    <2> QED
        BY <2>1, <2>2
<1>4. Stands(s, w) /\ Within(w, s, Len(log')) /\ s \in Steps
    BY <1>1, Before DEF Stands, Within, InTransaction, Appending, Steps
<1>5. Elsewhere(c, l) /\ Apart(l)
    BY <1>1, <1>2, Before DEF Elsewhere, Apart
<1>6. ~(w.tx > 0)
    BY <1>1, Before DEF Stands, InTransaction, Appending
<1>7. Holds(c, s, w, l)
    BY <1>1, <1>2, <1>6, Before, WalAssumption DEF Holds, InCheckpoint
<1>8. Len(log) <= Len(log')
    BY <1>1, Before
<1> QED
    BY <1>1, <1>2, <1>3, <1>4, <1>5, <1>7, <1>8, Before, StepOfOne

LEMMA DieLocks ==
    ASSUME LocksInv, NEW dead \in SUBSET Clients, Die(dead)
    PROVE  LocksInv'
<1>1. /\ lock' = Unlocked(dead)
      /\ pc' = [c \in Clients |-> IF c \in dead THEN "idle" ELSE pc[c]]
      /\ wal' = [c \in Clients |-> IF c \in dead THEN NoWal ELSE wal[c]]
      /\ shm' = IF dead = Clients
                THEN [init |-> FALSE, h1 |-> NoHdr, h2 |-> NoHdr, nBackfill |-> 0,
                      marks |-> [i \in MarkIds |-> 0]]
                ELSE shm
      /\ count' = [count EXCEPT !.crashes = count.crashes + 1]
      /\ UNCHANGED <<log, logSalt, db, history>>
    BY DEF Die
<1>2. Data /\ Index /\ Len(log) \in Nat /\ lock \in Locks /\ Apart(lock)
    BY DEF LocksInv, Values, Data
<1>3. Data'
    <2>1. count' \in Counts
        BY <1>1, <1>2 DEF Data, Counts
    <2> QED
        BY <1>1, <1>2, <2>1 DEF Data
<1>4. Index'
    <2>1. 0 \in 0 .. MaxFrames /\ 0 \in 0 .. NotUsed
        BY WalAssumption DEF NotUsed
    <2>2. [i \in MarkIds |-> 0] \in [MarkIds -> 0 .. NotUsed]
        BY <2>1
    <2> QED
        BY <1>1, <1>2, <2>1, <2>2, NoWalValues DEF Index, Indexes
<1>5. /\ lock' \in Locks
      /\ \A x \in {"write", "ckpt", "backfill", "restart"} :
             lock'[x] = IF lock[x] \in dead THEN None ELSE lock[x]
      /\ \A i \in ReadLocks : lock'.shared[i] = lock.shared[i] \ dead
    BY <1>1, <1>2 DEF Unlocked, Locks
<1>6. Apart(lock')
    BY <1>2, <1>5, WalAssumption DEF Apart, ReadLocks, MarkIds
<1>7. pc' \in [Clients -> Steps] /\ wal' \in [Clients -> Wals]
    BY <1>1, NoWalValues DEF LocksInv, Values, Steps
<1>8. ASSUME NEW c \in Clients
      PROVE  /\ Stands(pc'[c], wal'[c]) /\ Holds(c, pc'[c], wal'[c], lock')
             /\ Within(wal'[c], pc'[c], Len(log'))
    <2>1. CASE c \in dead
        <3>1. pc'[c] = "idle" /\ wal'[c] = NoWal
            BY <1>1, <2>1
        <3>2. Stands("idle", NoWal) /\ Within(NoWal, "idle", Len(log'))
            BY <1>1, <1>2, NoWalValues DEF Stands, Within, InTransaction, Appending
        <3>3. Holds(c, "idle", NoWal, lock')
            BY <1>5, <2>1, NoWalValues, WalAssumption DEF Holds, InCheckpoint, ReadLocks
        <3> QED
            BY <3>1, <3>2, <3>3
    <2>2. CASE c \notin dead
        <3>1. pc'[c] = pc[c] /\ wal'[c] = wal[c]
            BY <1>1, <2>2
        <3>2. Holds(c, pc[c], wal[c], lock')
            <4>1. lock'.write = c <=> lock.write = c
                BY <1>5, <2>2, WalAssumption
            <4>2. lock'.ckpt = c <=> lock.ckpt = c
                BY <1>5, <2>2, WalAssumption
            <4>3. lock'.backfill = c <=> lock.backfill = c
                BY <1>5, <2>2, WalAssumption
            <4>4. lock'.restart = c <=> lock.restart = c
                BY <1>5, <2>2, WalAssumption
            <4> QED
                BY <1>5, <2>2, <4>1, <4>2, <4>3, <4>4, Before DEF Holds
        <3> QED
            BY <1>1, <3>1, <3>2, Before
    <2> QED
        BY <2>1, <2>2
<1> QED
    BY <1>3, <1>4, <1>5, <1>6, <1>7, <1>8 DEF LocksInv, Values

LEMMA WalInit == Init => LocksInv
<1> SUFFICES ASSUME Init PROVE LocksInv
    OBVIOUS
<1> USE DEF Init
<1>1. Data
    <2>1. 0 \in 0 .. MaxTx /\ MaxFrames >= 0
        BY WalAssumption
    <2>2. [p \in Pages |-> 0] \in Images
        BY <2>1 DEF Images
    <2>3. history \in Seq(Images) /\ Len(history) > 0
        BY <2>2
    <2>4. log \in Seq(LogFrames) /\ Len(log) = 0
        OBVIOUS
    <2>5. count \in Counts
        BY <2>1 DEF Counts
    <2> QED
        BY <2>1, <2>2, <2>3, <2>4, <2>5 DEF Data
<1>2. Index
    <2>1. 0 \in 0 .. MaxFrames /\ [i \in MarkIds |-> 0] \in [MarkIds -> 0 .. NotUsed]
        BY WalAssumption DEF NotUsed
    <2>2. Len(log) = 0
        OBVIOUS
    <2> QED
        BY <2>1, <2>2, NoWalValues DEF Index, Indexes
<1>3. lock \in Locks /\ Apart(lock)
    BY DEF Locks, Apart
<1>4. pc \in [Clients -> Steps] /\ wal \in [Clients -> Wals]
    BY NoWalValues DEF Steps
<1>5. ASSUME NEW c \in Clients
      PROVE  /\ Stands(pc[c], wal[c]) /\ Holds(c, pc[c], wal[c], lock)
             /\ Within(wal[c], pc[c], Len(log))
    <2>1. pc[c] = "idle" /\ wal[c] = NoWal /\ Len(log) = 0
        OBVIOUS
    <2> QED
        BY <2>1, NoWalValues, WalAssumption
        DEF Stands, Holds, Within, InTransaction, Appending, InCheckpoint, ReadLocks
<1> QED
    BY <1>1, <1>2, <1>3, <1>4, <1>5 DEF LocksInv, Values

LEMMA WalStep == LocksInv /\ [Next]_vars => LocksInv'
<1> SUFFICES ASSUME LocksInv, [Next]_vars PROVE LocksInv'
    OBVIOUS
<1>1. CASE UNCHANGED vars
    <2>1. Data' /\ Index'
        BY <1>1, SameData, SameIndex DEF vars, LocksInv, Values
    <2> QED
        BY <1>1, <2>1 DEF vars, LocksInv, Values
<1>2. ASSUME NEW c \in Clients,
             \/ ReadHdr(c) \/ Recover(c) \/ TryBegin(c) \/ PickMark(c) \/ LockMark(c)
             \/ EndRead(c) \/ BeginWrite(c) \/ RestartLog(c) \/ ResetHeader(c) \/ ResetInfo(c)
      PROVE  LocksInv'
    BY <1>2, ReadHdrLocks, RecoverLocks, TryBeginLocks, PickMarkLocks, LockMarkLocks,
       EndReadLocks, BeginWriteLocks, RestartLogLocks, ResetHeaderLocks, ResetInfoLocks
<1>3. ASSUME NEW c \in Clients,
             \/ WriteLogHeader(c) \/ StartFrames(c) \/ PublishSecond(c) \/ PublishFirst(c)
             \/ Undo(c) \/ BeginCheckpoint(c) \/ Scan(c) \/ CheckMark(c) \/ LockBackfill(c)
             \/ EndBackfill(c)
      PROVE  LocksInv'
    BY <1>3, WriteLogHeaderLocks, StartFramesLocks, PublishSecondLocks, PublishFirstLocks,
       UndoLocks, BeginCheckpointLocks, ScanLocks, CheckMarkLocks, LockBackfillLocks,
       EndBackfillLocks
<1>4. ASSUME NEW c \in Clients, NEW p \in Pages, WriteFrame(c, p) \/ CopyPage(c, p)
      PROVE  LocksInv'
    BY <1>4, WriteFrameLocks, CopyPageLocks
<1>5. ASSUME NEW dead \in SUBSET Clients, Die(dead) PROVE LocksInv'
    BY <1>5, DieLocks
<1> QED
    BY <1>1, <1>2, <1>3, <1>4, <1>5 DEF Next

LEMMA LocksInvariant == Spec => []LocksInv
BY WalInit, WalStep, PTL DEF Spec

LEMMA LocksTypes == LocksInv => TypeOK
<1> SUFFICES ASSUME LocksInv PROVE TypeOK
    OBVIOUS
<1>1. /\ db \in [Pages -> 0 .. MaxTx]
      /\ shm.marks \in [MarkIds -> 0 .. NotUsed] /\ shm.nBackfill \in 0 .. MaxFrames
      /\ pc \in [Clients -> Steps]
    BY DEF LocksInv, Values, Data, Index, Images, Indexes
<1>2. ASSUME NEW c \in Clients
      PROVE  /\ pc[c] = "read" <=> wal[c].read # None /\ wal[c].tx = 0
             /\ wal[c].read # None => c \in lock.shared[wal[c].read]
             /\ wal[c].tx > 0 => lock.write = c
             /\ pc[c] \in {"ckpt", "ckfix", "scan", "marks", "copy"} <=> lock.ckpt = c
             /\ pc[c] = "copy" <=> lock.backfill = c
             /\ pc[c] \in {"reset", "resetinfo"} <=> lock.restart = c
    <2>1. wal[c].tx \in Nat /\ wal[c].read \in ReadLocks \cup {None}
        BY Before, WalAssumption DEF Wals
    <2>2. pc[c] = "read" <=> wal[c].read # None /\ wal[c].tx = 0
        BY <2>1, Before DEF Stands, InTransaction, Appending
    <2> QED
        BY <2>1, <2>2, Before DEF Holds, InCheckpoint
<1> QED
    BY <1>1, <1>2 DEF TypeOK

\* The values of the log, the wal-index and every Wal object are in their types, and a
\* step of a connection goes with its locks, whoever dies whenever: nobody reads without
\* a read lock, writes without WRITE, copies without READ(0) or restarts the log
\* without the marks.
THEOREM WalTypeCorrect == Spec => []TypeOK
BY LocksInvariant, LocksTypes, PTL

----------------------------------------------------------------------------
(* The newest commit *)

\* Frame f goes on a log with the salt s.
ValidIn(s, f) ==
    /\ log[f].salt = s
    /\ log[f].after = IF f = 1 THEN 0 ELSE log[f - 1].tx

\* What goes on after frame m is at most one transaction that nobody knows of.
Tentative(s, m) ==
    \A f \in m + 1 .. Len(log) :
        (\A g \in m + 1 .. f : ValidIn(s, g)) => log[f].commit \in {0, Len(history) + 1}

\* The log in the file holds the committed frames up to m, and then tentative ones.
Live(m) ==
    /\ \A f \in 1 .. m : ValidIn(logSalt, f)
    /\ m > 0 => log[m].commit = Len(history)
    /\ Tentative(logSalt, m)

\* Between a restart of the log and the first frame of the next round the file still
\* holds the last one, and the header has no frames.
Ends(m) ==
    /\ m \in 0 .. Len(log) /\ Live(m)
    /\ shm.h1.mxFrame > 0 => m = shm.h1.mxFrame /\ logSalt = shm.h1.salt
    /\ \A c \in Clients : pc[c] \in Appending => m = shm.h1.mxFrame

\* Salts and transactions are numbered.
Numbered ==
    /\ logSalt <= count.salt /\ shm.h1.salt <= count.salt
    /\ \A f \in 1 .. Len(log) :
           log[f].salt <= count.salt /\ log[f].tx <= count.tx /\ log[f].after <= count.tx
    /\ \A c \in Clients : wal[c].hdr.salt <= count.salt /\ wal[c].tx <= count.tx

\* The steps that look at nothing in the wal-index but whether there is a header.
Early == {"idle", "fix", "ckpt", "ckfix"}

Counted ==
    /\ shm.init => shm.h1.commit = Len(history)
    /\ ~shm.init => shm.h1 = NoHdr /\ \A c \in Clients : pc[c] \in Early
    /\ shm.init /\ shm.h1.mxFrame = 0 => Tentative(shm.h1.salt, 0)

Current == {"restart", "resetinfo", "pick", "lock", "write"}

\* What a writer knows; the frames after its own are of other transactions.
Writes(c) ==
    LET w == wal[c] IN
    /\ pc[c] \in Current => w.hdr = shm.h1
    /\ pc[c] = "reset" =>
           /\ w.hdr.mxFrame = 0 /\ w.hdr.commit = shm.h1.commit
           /\ \A f \in 1 .. Len(log) : log[f].salt # w.hdr.salt
    /\ pc[c] \in Appending =>
           /\ shm.h1.mxFrame <= w.hdr.mxFrame /\ w.hdr.salt = logSalt
           /\ \A f \in 1 .. w.hdr.mxFrame : ValidIn(logSalt, f)
    /\ pc[c] = "frames" => w.hdr.commit = shm.h1.commit
    /\ pc[c] \in {"publish", "published"} =>
           /\ w.hdr.commit = shm.h1.commit + 1 /\ w.hdr.mxFrame > shm.h1.mxFrame
           /\ log[w.hdr.mxFrame].commit = w.hdr.commit /\ log[w.hdr.mxFrame].tx = w.tx
    /\ \A g \in 1 .. Len(log) :
           (pc[c] \in Appending => g > w.hdr.mxFrame) =>
               log[g].tx # w.tx /\ log[g].after # w.tx

LogInv ==
    /\ Numbered /\ Counted
    /\ \E m \in 0 .. Len(log) : Ends(m)
    /\ \A c \in Clients : wal[c].tx > 0 => Writes(c)

\* A step is one of connection c.
Alone(c) == \A d \in Clients \ {c} : pc'[d] = pc[d] /\ wal'[d] = wal[d]

LEMMA OneMoves ==
    ASSUME LocksInv, NEW c \in Clients
    PROVE  /\ \A s : Goto(c, s) => pc'[c] = s /\ \A d \in Clients \ {c} : pc'[d] = pc[d]
           /\ \A w : Fields(c, w) => wal'[c] = w /\ \A d \in Clients \ {c} : wal'[d] = wal[d]
BY DEF LocksInv, Values, Goto, Fields

LEMMA OthersStay ==
    ASSUME LocksInv, NEW c \in Clients, NEW p,
           \/ ReadHdr(c) \/ Recover(c) \/ TryBegin(c) \/ PickMark(c) \/ LockMark(c)
           \/ EndRead(c) \/ BeginWrite(c) \/ RestartLog(c) \/ ResetHeader(c)
           \/ ResetInfo(c) \/ WriteLogHeader(c)
           \/ StartFrames(c) \/ PublishSecond(c) \/ PublishFirst(c) \/ Undo(c)
           \/ BeginCheckpoint(c) \/ Scan(c) \/ CheckMark(c) \/ LockBackfill(c)
           \/ EndBackfill(c) \/ WriteFrame(c, p) \/ CopyPage(c, p)
    PROVE  Alone(c)
<1>1. (\E s : Goto(c, s)) \/ pc' = pc
    BY DEF ReadHdr, Recover, TryBegin, PickMark, LockMark, EndRead, BeginWrite, RestartLog,
        ResetHeader, ResetInfo, WriteLogHeader, StartFrames, PublishSecond, PublishFirst,
        Undo, BeginCheckpoint, Scan, CheckMark, LockBackfill, EndBackfill, WriteFrame,
        CopyPage, Retry, LeaveMarkZero, EndCheckpoint, Goto
<1>2. (\E w : Fields(c, w)) \/ wal' = wal
    BY DEF ReadHdr, Recover, TryBegin, PickMark, LockMark, EndRead, BeginWrite, RestartLog,
        ResetHeader, ResetInfo, WriteLogHeader, StartFrames, PublishSecond, PublishFirst,
        Undo, BeginCheckpoint, Scan, CheckMark, LockBackfill, EndBackfill, WriteFrame,
        CopyPage, Retry, LeaveMarkZero, EndCheckpoint, Fields
<1> QED
    BY <1>1, <1>2, OneMoves DEF Alone

LEMMA OneWriter ==
    ASSUME LocksInv, NEW c \in Clients, lock.write = c, NEW d \in Clients \ {c}
    PROVE  wal[d].tx = 0 /\ pc[d] \notin InTransaction \cup {"fix", "ckfix"}
<1>1. lock.write # d /\ wal[d] \in Wals
    BY Before
<1>2. ~(wal[d].tx > 0) /\ pc[d] \notin {"fix", "ckfix"}
    BY <1>1, Before DEF Holds
<1>3. wal[d].tx \in Nat
    BY <1>1, WalAssumption DEF Wals
<1> QED
    BY <1>2, <1>3, Before DEF Stands

LEMMA WriterLocks ==
    ASSUME LocksInv, NEW c \in Clients, pc[c] \in InTransaction \/ wal[c].tx > 0
    PROVE  lock.write = c /\ wal[c].tx > 0
BY Before DEF Stands, Holds

\* A step of c that leaves alone the log and what its header says, and makes c no writer.
Quiet(c) ==
    /\ Alone(c)
    /\ log' = log /\ logSalt' = logSalt /\ history' = history
    /\ shm'.init = shm.init /\ shm'.h1 = shm.h1
    /\ count'.salt = count.salt /\ count'.tx = count.tx
    /\ wal'[c].hdr \in {wal[c].hdr, shm.h1, NoHdr}
    /\ shm.init = TRUE \/ pc'[c] \in Early
    /\ pc'[c] = "scan" => wal'[c].hdr = shm.h1
    /\ \/ /\ wal'[c].tx = wal[c].tx /\ wal'[c].hdr = wal[c].hdr
          /\ \/ pc'[c] = pc[c]
             \/ pc[c] \in Current /\ pc'[c] \in Current
             \/ pc[c] = "publish" /\ pc'[c] = "published"
       \/ wal'[c].tx = 0 /\ pc'[c] \notin Appending

LEMMA QuietStep ==
    ASSUME LocksInv, LogInv, NEW c \in Clients, Quiet(c)
    PROVE  LogInv'
<1> DEFINE s == pc'[c]
           w == wal'[c]
<1>1. \A d \in Clients \ {c} : pc'[d] = pc[d] /\ wal'[d] = wal[d]
    BY DEF Quiet, Alone
<1>2. count.salt \in Nat /\ count.tx \in Nat /\ wal[c].tx \in Nat
    BY Before, WalAssumption DEF Counts, Wals
<1>3. /\ log' = log /\ logSalt' = logSalt /\ history' = history
      /\ shm'.init = shm.init /\ shm'.h1 = shm.h1
      /\ count'.salt = count.salt /\ count'.tx = count.tx
      /\ w.hdr \in {wal[c].hdr, shm.h1, NoHdr}
    BY DEF Quiet
<1>4. Numbered'
    <2>1. w.tx = 0 \/ w.tx = wal[c].tx
        BY DEF Quiet
    <2>2. w.hdr.salt <= count.salt /\ w.tx <= count.tx
        BY <1>2, <1>3, <2>1 DEF LogInv, Numbered, NoHdr, Hdr
    <2>3. \A d \in Clients : wal'[d].hdr.salt <= count.salt /\ wal'[d].tx <= count.tx
        BY <1>1, <2>2 DEF LogInv, Numbered
    <2> QED
        BY <1>3, <2>3 DEF LogInv, Numbered
<1>5. Counted'
    <2>1. \A d \in Clients : ~shm.init => pc'[d] \in Early
        BY <1>1 DEF LogInv, Counted, Quiet
    <2> QED
        BY <1>3, <2>1 DEF LogInv, Counted, Tentative, ValidIn
<1>6. \E m \in 0 .. Len(log') : Ends(m)'
    <2>1. PICK m \in 0 .. Len(log) : Ends(m)
        BY DEF LogInv
    <2>2. \A d \in Clients : pc'[d] \in Appending => pc[d] \in Appending
        BY <1>1 DEF Quiet, Current, Appending
    <2>3. Ends(m)'
        BY <1>3, <2>1, <2>2 DEF Ends, Live, Tentative, ValidIn
    <2> QED
        BY <1>3, <2>3
<1>7. ASSUME NEW d \in Clients, wal'[d].tx > 0
      PROVE  Writes(d)'
    <2>1. CASE d # c
        <3>1. Writes(d) /\ pc'[d] = pc[d] /\ wal'[d] = wal[d]
            BY <1>1, <1>7, <2>1 DEF LogInv
        <3> QED
            BY <1>3, <3>1 DEF Writes, ValidIn
    <2>2. CASE d = c
        <3>1. w.tx = wal[c].tx /\ w.hdr = wal[c].hdr
              /\ \/ pc[c] \in Current /\ s \in Current
                 \/ s = pc[c]
                 \/ pc[c] = "publish" /\ s = "published"
            BY <1>7, <2>2 DEF Quiet
        <3>2. Writes(c)
            BY <1>7, <2>2, <3>1 DEF LogInv
        <3>3. CASE pc[c] \in Current /\ s \in Current
            BY <1>3, <2>2, <3>1, <3>2, <3>3 DEF Writes, ValidIn, Current, Appending
        <3>4. CASE s = pc[c]
            BY <1>3, <2>2, <3>1, <3>2, <3>4 DEF Writes, ValidIn
        <3>5. CASE pc[c] = "publish" /\ s = "published"
            BY <1>3, <2>2, <3>1, <3>2, <3>5 DEF Writes, ValidIn, Current, Appending
        <3> QED
            BY <3>1, <3>3, <3>4, <3>5
    <2> QED
        BY <2>1, <2>2
<1> QED
    BY <1>4, <1>5, <1>6, <1>7 DEF LogInv

\* Once a connection has seen a header, there is one.
LEMMA HeaderSeen ==
    ASSUME LocksInv, LogInv, NEW c \in Clients
    PROVE  /\ pc[c] \notin Early => shm.init = TRUE
           /\ HdrIsGood => shm.init = TRUE
           /\ pc[c] \notin InTransaction \cup {"pick", "lock"} => wal[c].tx = 0
<1>1. shm.init \in BOOLEAN /\ wal[c].tx \in Nat
    BY Before, WalAssumption DEF Indexes, Wals
<1> QED
    BY <1>1, Before DEF LogInv, Counted, HdrIsGood, Stands

LEMMA ReadingIsQuiet ==
    ASSUME LocksInv, LogInv, NEW c \in Clients,
           ReadHdr(c) \/ TryBegin(c) \/ EndRead(c) \/ LockMark(c)
    PROVE  Quiet(c)
<1> USE DEF Early, InTransaction, Appending, Current
<1>1. CASE ReadHdr(c)
    <2>1. Alone(c) /\ UNCHANGED <<log, logSalt, shm, history, count>>
          /\ pc[c] \in {"idle", "ckpt"} /\ wal[c].tx = 0
        BY <1>1, OthersStay, HeaderSeen DEF ReadHdr
    <2>2. CASE HdrIsGood
        <3>1. pc'[c] \in {"begin", "scan"} /\ wal'[c] = [wal[c] EXCEPT !.hdr = shm.h1]
            BY <1>1, <2>1, <2>2, OneMoves DEF ReadHdr
        <3>2. wal'[c].hdr = shm.h1 /\ wal'[c].tx = 0
            BY <2>1, <3>1, Before DEF Wals
        <3>9. Quiet(c)
            BY <2>1, <2>2, <3>1, <3>2, HeaderSeen DEF Quiet
        <3> QED
            BY <3>9
    <2>3. CASE ~HdrIsGood
        <3>1. pc'[c] \in {"fix", "ckfix"} /\ wal'[c] = wal[c]
            BY <1>1, <2>1, <2>3, OneMoves DEF ReadHdr
        <3>9. Quiet(c)
            BY <2>1, <3>1 DEF Quiet
        <3> QED
            BY <3>9
    <2> QED
        BY <2>2, <2>3
<1>2. CASE TryBegin(c)
    <2>1. Alone(c) /\ UNCHANGED <<log, logSalt, shm, history, count>>
          /\ pc[c] = "begin" /\ wal[c].tx = 0 /\ shm.init = TRUE
        BY <1>2, OthersStay, HeaderSeen DEF TryBegin
    <2>2. /\ pc'[c] \in {"read", "idle", "pick"}
          /\ wal'[c] = wal[c] \/ wal'[c] = [wal[c] EXCEPT !.read = 0]
        BY <1>2, OneMoves DEF TryBegin
    <2>3. wal'[c].hdr = wal[c].hdr /\ wal'[c].tx = 0
        BY <2>1, <2>2, Before DEF Wals
    <2>9. Quiet(c)
        BY <2>1, <2>2, <2>3 DEF Quiet
    <2> QED
        BY <2>9
<1>3. CASE EndRead(c)
    <2>1. Alone(c) /\ UNCHANGED <<log, logSalt, shm, history, count>>
        BY <1>3, OthersStay DEF EndRead
    <2>2. pc'[c] = "idle" /\ wal'[c] = NoWal
        BY <1>3, OneMoves DEF EndRead
    <2>9. Quiet(c)
        BY <2>1, <2>2, NoWalValues DEF Quiet
    <2> QED
        BY <2>9
<1>4. CASE LockMark(c)
    <2>1. Alone(c) /\ UNCHANGED <<log, logSalt, shm, history, count>>
          /\ pc[c] = "lock" /\ shm.init = TRUE
        BY <1>4, OthersStay, HeaderSeen DEF LockMark
    <2>2. pc'[c] \in {"write", "pick"} \/ (pc'[c] \in {"read", "idle"} /\ wal[c].tx = 0)
        <3>1. wal[c].tx \in Nat
            BY Before, WalAssumption DEF Wals
        <3>2. \/ wal[c].tx > 0 /\ (Goto(c, "write") \/ Goto(c, "pick"))
              \/ ~(wal[c].tx > 0) /\ (Goto(c, "read") \/ Goto(c, "idle"))
            BY <1>4 DEF LockMark, Retry
        <3>3. wal[c].tx > 0 \/ wal[c].tx = 0
            BY <3>1
        <3>4. pc \in [Clients -> Steps]
            BY DEF LocksInv, Values
        <3>5. \/ wal[c].tx > 0 /\ (pc'[c] = "write" \/ pc'[c] = "pick")
              \/ ~(wal[c].tx > 0) /\ (pc'[c] = "read" \/ pc'[c] = "idle")
            BY <3>2, <3>4 DEF Goto
        <3> QED
            BY <3>3, <3>5
    <2>3. wal'[c].hdr = wal[c].hdr /\ wal'[c].tx = wal[c].tx
        <3>1. wal' = wal \/ Fields(c, [wal[c] EXCEPT !.read = wal[c].at])
            BY <1>4 DEF LockMark
        <3> QED
            BY <3>1, OneMoves, Before DEF Wals
    <2>9. Quiet(c)
        BY <2>1, <2>2, <2>3 DEF Quiet
    <2> QED
        BY <2>9
<1> QED
    BY <1>1, <1>2, <1>3, <1>4

LEMMA MovingMarksIsQuiet ==
    ASSUME LocksInv, LogInv, NEW c \in Clients, PickMark(c) \/ CheckMark(c)
    PROVE  Quiet(c)
<1> USE DEF Early, InTransaction, Appending, Current
<1>1. CASE PickMark(c)
    <2>1. Alone(c) /\ UNCHANGED <<log, logSalt, history, count>>
          /\ pc[c] = "pick" /\ shm.init = TRUE
        BY <1>1, OthersStay, HeaderSeen DEF PickMark
    <2>2. pc'[c] \in {"lock", "pick"} \/ (pc'[c] = "idle" /\ wal[c].tx = 0)
        <3>1. wal[c].tx \in Nat
            BY Before, WalAssumption DEF Wals
        <3>2. Goto(c, "lock") \/ Retry(c)
            BY <1>1 DEF PickMark
        <3>3. wal[c].tx > 0 \/ wal[c].tx = 0
            BY <3>1
        <3>4. pc \in [Clients -> Steps]
            BY DEF LocksInv, Values
        <3>5. pc'[c] = "lock" \/ pc'[c] = IF wal[c].tx > 0 THEN "pick" ELSE "idle"
            BY <3>2, <3>4 DEF Retry, Goto
        <3> QED
            BY <3>3, <3>5
    <2>3. wal'[c].hdr = wal[c].hdr /\ wal'[c].tx = wal[c].tx
        <3>1. wal' = wal \/ \E i, m : Fields(c, [wal[c] EXCEPT !.at = i, !.mark = m])
            BY <1>1, Zenon DEF PickMark
        <3>2. wal'[c] = wal[c] \/ \E i, m : wal'[c] = [wal[c] EXCEPT !.at = i, !.mark = m]
            BY <3>1, Zenon DEF Fields, LocksInv, Values
        <3> QED
            BY <3>2, Before DEF Wals
    <2>4. shm'.init = shm.init /\ shm'.h1 = shm.h1
        <3>1. shm' = shm \/ \E i, m : shm' = [shm EXCEPT !.marks[i] = m]
            BY <1>1 DEF PickMark
        <3> QED
            BY <3>1, Before DEF Indexes
    <2>9. Quiet(c)
        BY <2>1, <2>2, <2>3, <2>4 DEF Quiet
    <2> QED
        BY <2>9
<1>2. CASE CheckMark(c)
    <2>1. /\ pc[c] = "marks" /\ wal'[c].hdr = wal[c].hdr /\ wal'[c].tx = wal[c].tx
          /\ shm'.init = shm.init /\ shm'.h1 = shm.h1
          /\ UNCHANGED <<log, logSalt, pc, history, count>>
        BY <1>2, MarkChecked
    <2>9. Quiet(c)
        BY <1>2, <2>1, OthersStay, HeaderSeen DEF Quiet
    <2> QED
        BY <2>9
<1> QED
    BY <1>1, <1>2

LEMMA CheckpointIsQuiet ==
    ASSUME LocksInv, LogInv, NEW c \in Clients, NEW q,
           \/ BeginCheckpoint(c) \/ Scan(c) \/ LockBackfill(c) \/ EndBackfill(c)
           \/ CopyPage(c, q)
    PROVE  Quiet(c)
<1> USE DEF Early, InTransaction, Appending, Current
<1>1. Alone(c) /\ UNCHANGED <<log, logSalt, history>>
    BY OthersStay DEF BeginCheckpoint, Scan, LockBackfill, EndBackfill, CopyPage
<1>2. count'.salt = count.salt /\ count'.tx = count.tx
    BY Before DEF BeginCheckpoint, Scan, LockBackfill, EndBackfill, CopyPage, Counts
<1>3. shm'.init = shm.init /\ shm'.h1 = shm.h1
    BY Before DEF BeginCheckpoint, Scan, LockBackfill, EndBackfill, CopyPage, Indexes
<1>4. CASE BeginCheckpoint(c)
    <2>1. pc'[c] = "ckpt" /\ wal'[c] = wal[c] /\ pc[c] = "idle"
        BY <1>4, OneMoves DEF BeginCheckpoint
    <2>2. wal[c].tx = 0
        BY <2>1, HeaderSeen
    <2>9. Quiet(c)
        BY <1>1, <1>2, <1>3, <2>1, <2>2 DEF Quiet
    <2> QED
        BY <2>9
<1>5. ASSUME NEW l, EndCheckpoint(c, l)
      PROVE  Quiet(c)
    <2>1. pc'[c] = "idle" /\ wal'[c] = NoWal
        BY <1>5, OneMoves DEF EndCheckpoint
    <2>9. Quiet(c)
        BY <1>1, <1>2, <1>3, <2>1, NoWalValues DEF Quiet
    <2> QED
        BY <2>9
<1>6. CASE pc[c] \in {"scan", "marks", "copy"} /\ \A l : ~EndCheckpoint(c, l)
    <2>1. shm.init = TRUE /\ wal[c].tx = 0
        BY <1>6, HeaderSeen
    <2>2. /\ pc'[c] \in {"marks", "copy"}
          /\ wal'[c].hdr = wal[c].hdr /\ wal'[c].tx = wal[c].tx
        <3>1. CASE Scan(c)
            <4> DEFINE iter == [p \in Pages |-> Frame(p, wal[c].hdr.mxFrame)]
            <4>1. Goto(c, "marks") /\ Fields(c, [wal[c] EXCEPT !.safe = wal[c].hdr.mxFrame,
                      !.at = 1, !.iter = iter])
                BY <1>6, <3>1 DEF Scan
            <4> HIDE DEF iter
            <4>2. pc'[c] = "marks" /\ wal'[c] = [wal[c] EXCEPT !.safe = wal[c].hdr.mxFrame,
                      !.at = 1, !.iter = iter]
                BY <4>1, OneMoves, Zenon
            <4> QED
                BY <4>2, Before DEF Wals
        <3>2. CASE LockBackfill(c)
            <4>1. pc'[c] = "copy" /\ \E t : wal'[c] = [wal[c] EXCEPT !.todo = t]
                BY <1>6, <3>2, OneMoves DEF LockBackfill
            <4> QED
                BY <4>1, Before DEF Wals
        <3>3. CASE CopyPage(c, q)
            <4>1. pc' = pc /\ pc[c] = "copy"
                  /\ Fields(c, [wal[c] EXCEPT !.todo = wal[c].todo \ {q}])
                BY <3>3 DEF CopyPage
            <4>2. wal'[c] = [wal[c] EXCEPT !.todo = wal[c].todo \ {q}]
                BY <4>1, OneMoves, Zenon
            <4> QED
                BY <4>1, <4>2, Before DEF Wals
        <3>4. ~BeginCheckpoint(c) /\ ~EndBackfill(c)
            BY <1>6 DEF BeginCheckpoint, EndBackfill
        <3> QED
            BY <3>1, <3>2, <3>3, <3>4
    <2>9. Quiet(c)
        BY <1>1, <1>2, <1>3, <2>1, <2>2 DEF Quiet
    <2> QED
        BY <2>9
<1>7. BeginCheckpoint(c) \/ pc[c] \in {"scan", "marks", "copy"}
    BY DEF Scan, LockBackfill, EndBackfill, CopyPage
<1> QED
    BY <1>4, <1>5, <1>6, <1>7

LEMMA WriterIsQuiet ==
    ASSUME LocksInv, LogInv, NEW c \in Clients,
           ResetInfo(c) \/ PublishSecond(c) \/ Undo(c)
    PROVE  Quiet(c)
<1> USE DEF Early, InTransaction, Appending, Current
<1>1. Alone(c) /\ UNCHANGED <<log, logSalt, history, count>>
    BY OthersStay DEF ResetInfo, PublishSecond, Undo
<1>2. shm'.init = shm.init /\ shm'.h1 = shm.h1
    BY Before DEF ResetInfo, PublishSecond, Undo, Indexes
<1>3. shm.init = TRUE
    BY HeaderSeen DEF ResetInfo, PublishSecond, Undo
<1>4. CASE ResetInfo(c)
    <2>1. pc[c] = "resetinfo" /\ pc'[c] = "pick" /\ wal'[c] = [wal[c] EXCEPT !.read = None]
        BY <1>4, OneMoves DEF ResetInfo, LeaveMarkZero
    <2>2. wal'[c].hdr = wal[c].hdr /\ wal'[c].tx = wal[c].tx
        BY <2>1, Before DEF Wals
    <2>3. Quiet(c)
        BY <1>1, <1>2, <1>3, <2>1, <2>2 DEF Quiet
    <2> QED
        BY <2>3
<1>5. CASE PublishSecond(c)
    <2>1. pc[c] = "publish" /\ pc'[c] = "published" /\ wal'[c] = wal[c]
        BY <1>5, OneMoves DEF PublishSecond
    <2>2. Quiet(c)
        BY <1>1, <1>2, <1>3, <2>1 DEF Quiet
    <2> QED
        BY <2>2
<1>6. CASE Undo(c)
    <2>1. pc'[c] = "read" /\ wal'[c] = [wal[c] EXCEPT !.hdr = shm.h1, !.todo = {}, !.tx = 0]
        BY <1>6, OneMoves DEF Undo
    <2>2. wal'[c].hdr = shm.h1 /\ wal'[c].tx = 0
        BY <2>1, Before DEF Wals
    <2>3. Quiet(c)
        BY <1>1, <1>2, <1>3, <2>1, <2>2 DEF Quiet
    <2> QED
        BY <2>3
<1> QED
    BY <1>4, <1>5, <1>6

\* The transaction has a number that no frame has.
LEMMA BeginWriteLog ==
    ASSUME LocksInv, LogInv, NEW c \in Clients, BeginWrite(c)
    PROVE  LogInv'
<1>1. /\ \A d \in Clients \ {c} : pc'[d] = pc[d] /\ wal'[d] = wal[d]
      /\ log' = log /\ logSalt' = logSalt /\ history' = history /\ shm' = shm
      /\ pc[c] = "read" /\ wal[c].hdr = shm.h1
    BY OthersStay DEF BeginWrite, Alone
<1>2. /\ count'.salt = count.salt /\ count'.tx = count.tx + 1
      /\ count.salt \in Nat /\ count.tx \in Nat
    BY Before, WalAssumption DEF BeginWrite, Counts
<1>3. pc'[c] \in {"restart", "write"} /\ wal'[c] = [wal[c] EXCEPT !.tx = count.tx + 1]
    BY OneMoves DEF BeginWrite
<1>4. wal'[c].hdr = wal[c].hdr /\ wal'[c].tx = count.tx + 1
    BY <1>3, Before DEF Wals
<1>5. Numbered'
    <2>1. \A d \in Clients : wal[d].hdr.salt <= count.salt /\ wal[d].tx <= count.tx
                             /\ wal[d].tx \in Nat
        BY Before, WalAssumption DEF LogInv, Numbered, Wals
    <2>2. \A d \in Clients : wal'[d].hdr.salt <= count'.salt /\ wal'[d].tx <= count'.tx
        BY <1>1, <1>2, <1>4, <2>1
    <2>3. \A f \in 1 .. Len(log) : log[f].salt <= count.salt /\ log[f].tx <= count.tx + 1
                                   /\ log[f].after <= count.tx + 1
        <3> SUFFICES ASSUME NEW f \in 1 .. Len(log)
                     PROVE  /\ log[f].salt <= count.salt /\ log[f].tx <= count.tx + 1
                            /\ log[f].after <= count.tx + 1
            OBVIOUS
        <3>1. log[f] \in LogFrames
            BY Before DEF Data
        <3>2. log[f].tx \in Nat /\ log[f].after \in Nat
            BY <3>1, WalAssumption DEF LogFrames
        <3> QED
            BY <1>2, <3>2 DEF LogInv, Numbered
    <2> QED
        BY <1>1, <1>2, <2>2, <2>3 DEF LogInv, Numbered
<1>6. Counted'
    <2>1. shm.init = TRUE
        BY <1>1, HeaderSeen DEF Early
    <2> QED
        BY <1>1, <2>1 DEF LogInv, Counted, Tentative, ValidIn
<1>7. \E m \in 0 .. Len(log') : Ends(m)'
    <2>1. PICK m \in 0 .. Len(log) : Ends(m)
        BY DEF LogInv
    <2>2. \A d \in Clients : pc'[d] \in Appending => pc[d] \in Appending
        BY <1>1, <1>3 DEF Appending
    <2>3. Ends(m)'
        BY <1>1, <2>1, <2>2 DEF Ends, Live, Tentative, ValidIn
    <2> QED
        BY <1>1, <2>3
<1>8. ASSUME NEW d \in Clients, wal'[d].tx > 0
      PROVE  Writes(d)'
    <2>1. CASE d # c
        <3>1. Writes(d) /\ pc'[d] = pc[d] /\ wal'[d] = wal[d]
            BY <1>1, <1>8, <2>1 DEF LogInv
        <3> QED
            BY <1>1, <3>1 DEF Writes, ValidIn
    <2>2. CASE d = c
        <3>1. \A g \in 1 .. Len(log) :
                  log[g].tx # count.tx + 1 /\ log[g].after # count.tx + 1
            <4> SUFFICES ASSUME NEW g \in 1 .. Len(log)
                         PROVE  log[g].tx # count.tx + 1 /\ log[g].after # count.tx + 1
                OBVIOUS
            <4>1. log[g] \in LogFrames
                BY Before DEF Data
            <4>2. log[g].tx \in Nat /\ log[g].after \in Nat
                BY <4>1, WalAssumption DEF LogFrames
            <4> QED
                BY <1>2, <4>2 DEF LogInv, Numbered
        <3> QED
            BY <1>1, <1>3, <1>4, <2>2, <3>1 DEF Writes, Current, Appending
    <2> QED
        BY <2>1, <2>2
<1> QED
    BY <1>5, <1>6, <1>7, <1>8 DEF LogInv

\* When c has WRITE, the others write nothing before and after its step.
LEMMA WriterStep ==
    ASSUME LocksInv, NEW c \in Clients, lock.write = c, Alone(c),
           wal'[c].tx > 0 => Writes(c)'
    PROVE  /\ \A d \in Clients : wal'[d].tx > 0 => Writes(d)'
           /\ \A d \in Clients \ {c} : pc[d] \notin Appending /\ pc'[d] \notin Appending
           /\ \A d \in Clients : pc'[d] \in Appending => d = c
<1>1. \A d \in Clients \ {c} : wal'[d].tx = 0
    BY OneWriter DEF Alone
<1>2. \A d \in Clients \ {c} : pc[d] \notin Appending /\ pc'[d] \notin Appending
    BY OneWriter DEF Alone, InTransaction
<1>3. \A d \in Clients \ {c} : ~(wal'[d].tx > 0)
    BY <1>1
<1> QED
    BY <1>2, <1>3

\* The next round of the log has a salt that no frame has.
LEMMA RestartLogLog ==
    ASSUME LocksInv, LogInv, NEW c \in Clients, RestartLog(c)
    PROVE  LogInv'
<1> USE DEF Early, InTransaction, Appending, Current
<1>1. /\ \A d \in Clients \ {c} : pc'[d] = pc[d] /\ wal'[d] = wal[d]
      /\ log' = log /\ logSalt' = logSalt /\ history' = history
      /\ pc[c] = "restart" /\ shm.init = TRUE /\ Alone(c)
    BY OthersStay, HeaderSeen DEF RestartLog, Alone
<1>2. CASE shm.nBackfill > 0 /\ \A i \in MarkIds : Free(i)
    <2> DEFINE hdr == Hdr(0, count.salt + 1, wal[c].hdr.commit)
    <2>1. /\ pc'[c] = "reset" /\ wal'[c] = [wal[c] EXCEPT !.hdr = hdr]
          /\ shm' = [shm EXCEPT !.h2 = hdr] /\ count' = [count EXCEPT !.salt = count.salt + 1]
        BY <1>2, OneMoves DEF RestartLog
    <2>2. hdr.mxFrame = 0 /\ hdr.salt = count.salt + 1 /\ hdr.commit = wal[c].hdr.commit
        BY DEF Hdr
    <2> HIDE DEF hdr
    <2>3. /\ wal'[c].hdr = hdr /\ wal'[c].tx = wal[c].tx
          /\ shm'.init = shm.init /\ shm'.h1 = shm.h1
          /\ count'.salt = count.salt + 1 /\ count'.tx = count.tx
          /\ count.salt \in Nat /\ count.tx \in Nat
        BY <2>1, Before, WalAssumption DEF Wals, Indexes, Counts
    <2>4. Writes(c)
        BY <1>1, WriterLocks DEF LogInv
    <2>5. \A f \in 1 .. Len(log) : log[f].salt \in Nat /\ log[f].salt # count.salt + 1
        <3> SUFFICES ASSUME NEW f \in 1 .. Len(log)
                     PROVE  log[f].salt \in Nat /\ log[f].salt # count.salt + 1
            OBVIOUS
        <3>1. log[f] \in LogFrames
            BY Before DEF Data
        <3>2. log[f].salt \in Nat
            BY <3>1 DEF LogFrames
        <3> QED
            BY <2>3, <3>2 DEF LogInv, Numbered
    <2>6. Numbered'
        <3>1. \A d \in Clients : wal[d].hdr.salt \in Nat /\ wal[d].hdr.salt <= count.salt
                                 /\ wal[d].tx <= count.tx
            BY Before DEF LogInv, Numbered, Headers
        <3>2. \A d \in Clients : wal'[d].hdr.salt <= count'.salt /\ wal'[d].tx <= count'.tx
            BY <1>1, <2>2, <2>3, <3>1
        <3>3. \A f \in 1 .. Len(log) : log[f].salt <= count.salt + 1 /\ log[f].tx <= count.tx
                                       /\ log[f].after <= count.tx
            BY <2>3, <2>5 DEF LogInv, Numbered
        <3>4. logSalt <= count.salt + 1 /\ shm.h1.salt <= count.salt + 1
            BY <2>3, Before DEF LogInv, Numbered, Headers, Data
        <3> QED
            BY <1>1, <2>3, <3>2, <3>3, <3>4 DEF Numbered
    <2>7. Counted'
        <3>1. shm'.init = TRUE
            BY <1>1, <2>3
        <3>2. shm.h1.commit = Len(history) /\ (shm.h1.mxFrame = 0 => Tentative(shm.h1.salt, 0))
            BY <1>1 DEF LogInv, Counted
        <3> QED
            BY <1>1, <2>3, <3>1, <3>2 DEF Counted, Tentative, ValidIn
    <2>8. \E m \in 0 .. Len(log') : Ends(m)'
        <3>1. PICK m \in 0 .. Len(log) : Ends(m)
            BY DEF LogInv
        <3>2. \A d \in Clients : pc'[d] \in Appending => pc[d] \in Appending
            BY <1>1, <2>1
        <3>3. Ends(m)'
            BY <1>1, <2>3, <3>1, <3>2 DEF Ends, Live, Tentative, ValidIn
        <3> QED
            BY <1>1, <3>3
    <2>9. Writes(c)'
        <3>1. wal[c].hdr.commit = shm.h1.commit
            BY <1>1, <2>4 DEF Writes
        <3>2. \A g \in 1 .. Len(log) : log[g].tx # wal[c].tx /\ log[g].after # wal[c].tx
            BY <1>1, <2>4 DEF Writes
        <3> QED
            BY <1>1, <2>1, <2>2, <2>3, <2>5, <3>1, <3>2 DEF Writes
    <2> QED
        BY <1>1, <2>6, <2>7, <2>8, <2>9, WriterLocks, WriterStep DEF LogInv
<1>3. CASE ~(shm.nBackfill > 0 /\ \A i \in MarkIds : Free(i))
    <2>1. LeaveMarkZero(c, wal[c]) /\ UNCHANGED <<shm, count>>
        BY <1>3 DEF RestartLog
    <2>2. pc'[c] = "pick" /\ wal'[c] = [wal[c] EXCEPT !.read = None]
        BY <2>1, OneMoves DEF LeaveMarkZero
    <2>3. wal'[c].hdr = wal[c].hdr /\ wal'[c].tx = wal[c].tx
        BY <2>2, Before DEF Wals
    <2>4. Quiet(c)
        BY <1>1, <2>1, <2>2, <2>3 DEF Quiet
    <2> QED
        BY <2>4, QuietStep
<1> QED
    BY <1>2, <1>3

LEMMA ResetHeaderLog ==
    ASSUME LocksInv, LogInv, NEW c \in Clients, ResetHeader(c)
    PROVE  LogInv'
<1> USE DEF Early, InTransaction, Appending, Current
<1>1. /\ \A d \in Clients \ {c} : pc'[d] = pc[d] /\ wal'[d] = wal[d]
      /\ log' = log /\ logSalt' = logSalt /\ history' = history /\ count' = count
      /\ pc[c] = "reset" /\ shm.init = TRUE /\ Alone(c) /\ pc'[c] = "resetinfo"
      /\ wal'[c] = wal[c]
    BY OthersStay, HeaderSeen, OneMoves DEF ResetHeader, Alone
<1>2. shm'.init = TRUE /\ shm'.h1 = wal[c].hdr
    BY <1>1, Before DEF ResetHeader, Indexes
<1>3. Writes(c)
    BY <1>1, WriterLocks DEF LogInv
<1>4. /\ wal[c].hdr.mxFrame = 0 /\ wal[c].hdr.commit = shm.h1.commit
      /\ \A f \in 1 .. Len(log) : log[f].salt # wal[c].hdr.salt
    BY <1>1, <1>3 DEF Writes
<1>5. Numbered'
    BY <1>1, <1>2 DEF LogInv, Numbered
<1>6. Counted'
    <2>1. Tentative(shm.h1.salt, 0)'
        <3> SUFFICES ASSUME NEW f \in 1 .. Len(log),
                            \A g \in 0 + 1 .. f : ValidIn(shm.h1.salt, g)'
                     PROVE  FALSE
            BY <1>1 DEF Tentative
        <3>1. Len(log) \in Nat /\ 1 \in 1 .. f /\ 1 \in 1 .. Len(log)
            BY Before
        <3>2. ValidIn(shm.h1.salt, 1)'
            BY <3>1
        <3> QED
            BY <1>1, <1>2, <1>4, <3>1, <3>2 DEF ValidIn
    <2>2. wal[c].hdr.commit = Len(history)
        BY <1>1, <1>4 DEF LogInv, Counted
    <2> QED
        BY <1>1, <1>2, <2>1, <2>2 DEF Counted
<1>7. \E m \in 0 .. Len(log') : Ends(m)'
    <2>1. PICK m \in 0 .. Len(log) : Ends(m)
        BY DEF LogInv
    <2>2. \A d \in Clients : pc'[d] \notin Appending
        BY <1>1, WriterLocks, WriterStep, OneWriter
    <2>3. Ends(m)'
        BY <1>1, <1>2, <1>4, <2>1, <2>2 DEF Ends, Live, Tentative, ValidIn
    <2> QED
        BY <1>1, <2>3
<1>8. Writes(c)'
    BY <1>1, <1>2, <1>3 DEF Writes
<1> QED
    BY <1>1, <1>5, <1>6, <1>7, <1>8, WriterLocks, WriterStep DEF LogInv

LEMMA FrameNumbers ==
    ASSUME LocksInv, LogInv, NEW f \in 1 .. Len(log)
    PROVE  /\ log[f] \in LogFrames /\ log[f].salt \in Nat /\ log[f].tx \in Nat
           /\ log[f].after \in Nat /\ log[f].commit \in Nat
           /\ log[f].salt <= count.salt /\ log[f].tx <= count.tx /\ log[f].after <= count.tx
           /\ count.salt \in Nat /\ count.tx \in Nat
<1>1. log[f] \in LogFrames /\ count \in Counts
    BY DEF LocksInv, Values, Data
<1> QED
    BY <1>1, WalAssumption DEF LogInv, Numbered, LogFrames, Counts

\* With a new header the log is empty, but for the tentative frames under the same salt.
LEMMA WriteLogHeaderLog ==
    ASSUME LocksInv, LogInv, NEW c \in Clients, WriteLogHeader(c)
    PROVE  LogInv'
<1> USE DEF Early, InTransaction, Appending, Current
<1>1. /\ \A d \in Clients \ {c} : pc'[d] = pc[d] /\ wal'[d] = wal[d]
      /\ log' = log /\ history' = history /\ shm' = shm /\ wal[c].hdr.mxFrame = 0
      /\ pc[c] = "write" /\ shm.init = TRUE /\ Alone(c) /\ pc'[c] = "frames"
    BY OthersStay, HeaderSeen, OneMoves DEF WriteLogHeader, Alone
<1>2. count.salt \in Nat /\ count.tx \in Nat
    BY Before, WalAssumption DEF Counts
<1>3. /\ \/ logSalt' = wal[c].hdr.salt /\ count'.salt = count.salt
         \/ logSalt' = count.salt + 1 /\ count'.salt = count.salt + 1
      /\ count'.tx = count.tx
    BY Before DEF WriteLogHeader, Counts
<1>4. wal'[c].hdr = [wal[c].hdr EXCEPT !.salt = logSalt'] /\ wal'[c].tx = wal[c].tx
    <2>1. PICK pages : Fields(c, [wal[c] EXCEPT !.todo = pages, !.hdr.salt = logSalt'])
        BY DEF WriteLogHeader
    <2> DEFINE ls == logSalt'
    <2> HIDE DEF ls
    <2>2. wal'[c] = [wal[c] EXCEPT !.todo = pages, !.hdr.salt = ls]
        BY <2>1, OneMoves DEF ls
    <2>3. wal'[c].hdr = [wal[c].hdr EXCEPT !.salt = ls] /\ wal'[c].tx = wal[c].tx
        BY <2>2, Before DEF Wals
    <2> QED
        BY <2>3 DEF ls
<1>5. wal'[c].hdr.mxFrame = 0 /\ wal'[c].hdr.salt = logSalt'
      /\ wal'[c].hdr.commit = wal[c].hdr.commit
    <2> DEFINE ls == logSalt'
    <2> HIDE DEF ls
    <2>1. wal'[c].hdr = [wal[c].hdr EXCEPT !.salt = ls]
        BY <1>4 DEF ls
    <2>2. wal'[c].hdr.mxFrame = 0 /\ wal'[c].hdr.salt = ls
          /\ wal'[c].hdr.commit = wal[c].hdr.commit
        BY <1>1, <2>1, Before DEF Headers
    <2> QED
        BY <2>2 DEF ls
<1>6. Writes(c) /\ wal[c].hdr = shm.h1
    BY <1>1, WriterLocks DEF LogInv, Writes
<1>7. Numbered'
    <2>1. logSalt' <= count'.salt
        BY <1>2, <1>3 DEF LogInv, Numbered
    <2>2. \A d \in Clients : wal[d].hdr.salt \in Nat /\ wal[d].hdr.salt <= count.salt
                             /\ wal[d].tx <= count.tx
        BY Before DEF LogInv, Numbered, Headers
    <2>3. \A d \in Clients : wal'[d].hdr.salt <= count'.salt /\ wal'[d].tx <= count'.tx
        <3> SUFFICES ASSUME NEW d \in Clients
                     PROVE  wal'[d].hdr.salt <= count'.salt /\ wal'[d].tx <= count'.tx
            OBVIOUS
        <3>1. CASE d = c
            BY <1>3, <1>4, <1>5, <2>1, <2>2, <3>1
        <3>2. CASE d # c
            BY <1>1, <1>2, <1>3, <2>2, <3>2
        <3> QED
            BY <3>1, <3>2
    <2>4. \A f \in 1 .. Len(log) : log[f].salt <= count'.salt /\ log[f].tx <= count.tx
                                   /\ log[f].after <= count.tx
        BY <1>2, <1>3, FrameNumbers
    <2>5. shm.h1.salt <= count'.salt
        BY <1>2, <1>3, Before DEF LogInv, Numbered, Headers
    <2> QED
        BY <1>1, <1>3, <2>1, <2>3, <2>4, <2>5 DEF Numbered
<1>8. shm.h1.commit = Len(history) /\ Tentative(shm.h1.salt, 0)
    BY <1>1, <1>6 DEF LogInv, Counted
<1>9. Counted'
    BY <1>1, <1>8 DEF Counted, Tentative, ValidIn
<1>10. \E m \in 0 .. Len(log') : Ends(m)'
    <2>1. Len(log) \in Nat
        BY Before
    <2>2. Tentative(logSalt, 0)'
        <3>1. CASE logSalt' = wal[c].hdr.salt
            BY <1>1, <1>6, <1>8, <3>1 DEF Tentative, ValidIn
        <3>2. CASE logSalt' = count.salt + 1
            <4> SUFFICES ASSUME NEW f \in 1 .. Len(log),
                                \A g \in 0 + 1 .. f : ValidIn(logSalt, g)'
                         PROVE  FALSE
                BY <1>1 DEF Tentative
            <4>1. 1 \in 1 .. f /\ 1 \in 1 .. Len(log)
                BY <2>1
            <4>2. ValidIn(logSalt, 1)'
                BY <4>1
            <4>3. log[1].salt = count.salt + 1
                BY <1>1, <3>2, <4>2 DEF ValidIn
            <4> QED
                BY <4>1, <4>3, FrameNumbers
        <3> QED
            BY <1>3, <3>1, <3>2
    <2>3. Ends(0)'
        BY <1>1, <1>6, <2>1, <2>2 DEF Ends, Live
    <2> QED
        BY <1>1, <2>1, <2>3
<1>11. Writes(c)'
    <2>1. \A g \in 1 .. Len(log) : log[g].tx # wal[c].tx /\ log[g].after # wal[c].tx
        BY <1>1, <1>6 DEF Writes
    <2> QED
        BY <1>1, <1>4, <1>5, <1>6, <2>1 DEF Writes
<1> QED
    BY <1>1, <1>7, <1>9, <1>10, <1>11, WriterLocks, WriterStep DEF LogInv

LEMMA StartFramesLog ==
    ASSUME LocksInv, LogInv, NEW c \in Clients, StartFrames(c)
    PROVE  LogInv'
<1> USE DEF Early, InTransaction, Appending, Current
<1>1. /\ \A d \in Clients \ {c} : pc'[d] = pc[d] /\ wal'[d] = wal[d]
      /\ log' = log /\ logSalt' = logSalt /\ history' = history /\ shm' = shm /\ count' = count
      /\ wal[c].hdr.mxFrame > 0
      /\ pc[c] = "write" /\ shm.init = TRUE /\ Alone(c) /\ pc'[c] = "frames"
    BY OthersStay, HeaderSeen, OneMoves DEF StartFrames, Alone
<1>2. wal'[c].hdr = wal[c].hdr /\ wal'[c].tx = wal[c].tx
    <2>1. PICK pages : Fields(c, [wal[c] EXCEPT !.todo = pages])
        BY DEF StartFrames
    <2>2. wal'[c] = [wal[c] EXCEPT !.todo = pages]
        BY <2>1, OneMoves
    <2> QED
        BY <2>2, Before DEF Wals
<1>3. Writes(c) /\ wal[c].hdr = shm.h1
    BY <1>1, WriterLocks DEF LogInv, Writes
<1>4. PICK m \in 0 .. Len(log) : Ends(m)
    BY DEF LogInv
<1>5. m = shm.h1.mxFrame /\ logSalt = shm.h1.salt /\ Live(m)
    BY <1>1, <1>3, <1>4 DEF Ends
<1>6. Numbered'
    <2>1. \A d \in Clients : wal'[d].hdr = wal[d].hdr /\ wal'[d].tx = wal[d].tx
        BY <1>1, <1>2
    <2> QED
        BY <1>1, <2>1 DEF LogInv, Numbered
<1>7. Counted'
    BY <1>1 DEF LogInv, Counted, Tentative, ValidIn
<1>8. Ends(m)'
    BY <1>1, <1>4, <1>5 DEF Ends, Live, Tentative, ValidIn
<1>9. Writes(c)'
    <2>1. \A g \in 1 .. Len(log) : log[g].tx # wal[c].tx /\ log[g].after # wal[c].tx
        BY <1>1, <1>3 DEF Writes
    <2>2. shm.h1.mxFrame \in Nat
        BY Before DEF Headers
    <2> QED
        BY <1>1, <1>2, <1>3, <1>5, <2>1, <2>2 DEF Writes, Live, ValidIn
<1> QED
    BY <1>1, <1>6, <1>7, <1>8, <1>9, WriterLocks, WriterStep DEF LogInv

\* A frame ends what the frames after it went on with: they follow another transaction.
LEMMA FrameEnds ==
    ASSUME LocksInv, LogInv, NEW c \in Clients, NEW p \in Pages, WriteFrame(c, p),
           shm.h1.commit = Len(history), NEW k \in 0 .. wal[c].hdr.mxFrame,
           NEW s, Tentative(s, k)
    PROVE  Tentative(s, k)'
<1> DEFINE f == wal[c].hdr.mxFrame + 1
<1>1. /\ f \in 1 .. Len(log) + 1 /\ Len(log) \in Nat
      /\ Len(log') = IF f = Len(log) + 1 THEN f ELSE Len(log)
      /\ log'[f] = NewFrame(c, p)
      /\ \A g \in 1 .. Len(log) : g # f => log'[g] = log[g]
      /\ history' = history /\ pc[c] = "frames"
    <2>1. Len(log) \in Nat
        BY Before
    <2> QED
        BY <2>1, FrameWritten
<1>2. Writes(c)
    BY <1>1, WriterLocks DEF LogInv, InTransaction, Appending
<1>3. NewFrame(c, p).tx = wal[c].tx /\ NewFrame(c, p).commit \in {0, Len(history) + 1}
    BY <1>1, <1>2 DEF NewFrame, Writes
<1> HIDE DEF f
<1>4. k < f /\ k \in Nat /\ f \in Nat
    BY <1>1, Before DEF f, Headers
<1> SUFFICES ASSUME NEW g \in k + 1 .. Len(log'),
                    \A h \in k + 1 .. g : ValidIn(s, h)'
             PROVE  log'[g].commit \in {0, Len(history) + 1}
    BY <1>1 DEF Tentative
<1>5. CASE g < f
    <2>1. g \in k + 1 .. Len(log) /\ g \in Nat
        BY <1>1, <1>4, <1>5
    <2>2. \A h \in k + 1 .. g : log'[h] = log[h] /\ (h # 1 => log'[h - 1] = log[h - 1])
        BY <1>1, <1>4, <1>5, <2>1
    <2>3. \A h \in k + 1 .. g : ValidIn(s, h)
        BY <2>2 DEF ValidIn
    <2>4. log[g].commit \in {0, Len(history) + 1}
        BY <2>1, <2>3 DEF Tentative
    <2>5. g \in k + 1 .. g
        BY <1>4, <2>1
    <2> QED
        BY <2>2, <2>4, <2>5
<1>6. CASE g = f
    BY <1>1, <1>3, <1>6
<1>7. CASE g > f
    <2>1. f + 1 \in k + 1 .. g /\ f + 1 \in 1 .. Len(log) /\ f + 1 # f /\ f + 1 # 1 /\ f + 1 - 1 = f
        BY <1>1, <1>4, <1>7
    <2>2. log'[f + 1].after = wal[c].tx
        BY <1>1, <1>3, <2>1 DEF ValidIn
    <2>3. log[f + 1].after # wal[c].tx
        <3>1. f + 1 > wal[c].hdr.mxFrame
            BY <1>4, Before DEF f, Headers
        <3> QED
            BY <1>2, <2>1, <3>1 DEF Writes
    <2> QED
        BY <1>1, <2>1, <2>2, <2>3
<1> QED
    BY <1>4, <1>5, <1>6, <1>7

LEMMA WriteFrameLog ==
    ASSUME LocksInv, LogInv, NEW c \in Clients, NEW p \in Pages, WriteFrame(c, p)
    PROVE  LogInv'
<1> USE DEF Early, InTransaction, Appending, Current
<1> DEFINE w == wal[c]
           f == w.hdr.mxFrame + 1
           last == w.todo = {p}
           v == wal'[c]
<1>1. /\ pc[c] = "frames" /\ f \in 1 .. Len(log) + 1 /\ Len(log) \in Nat
      /\ v.tx = w.tx /\ v.hdr.mxFrame = f /\ v.hdr.salt = w.hdr.salt
      /\ v.hdr.commit = IF last THEN w.hdr.commit + 1 ELSE w.hdr.commit
      /\ Len(log') = IF f = Len(log) + 1 THEN f ELSE Len(log)
      /\ log'[f] = NewFrame(c, p)
      /\ \A g \in 1 .. Len(log) : g # f => log'[g] = log[g]
      /\ UNCHANGED <<logSalt, db, shm, lock, history, count>>
    <2>1. Len(log) \in Nat
        BY Before
    <2> QED
        BY <2>1, FrameWritten
<1>2. /\ \A d \in Clients \ {c} : pc'[d] = pc[d] /\ wal'[d] = wal[d]
      /\ Alone(c) /\ pc'[c] = IF last THEN "publish" ELSE "frames"
    BY OthersStay, OneMoves DEF WriteFrame, Alone
<1>3. Writes(c) /\ shm.h1.commit = Len(history) /\ shm.h1.mxFrame \in 0 .. w.hdr.mxFrame
      /\ w.hdr.mxFrame \in Nat /\ w.hdr.salt = logSalt /\ w.hdr.commit = shm.h1.commit
      /\ shm.init = TRUE
    <2>1. Writes(c) /\ shm.init = TRUE
        BY <1>1, WriterLocks, HeaderSeen DEF LogInv
    <2> QED
        BY <1>1, <2>1, Before DEF LogInv, Counted, Writes, Headers
<1>4. PICK m \in 0 .. Len(log) : Ends(m)
    BY DEF LogInv
<1>5. m = shm.h1.mxFrame /\ Live(m)
    BY <1>1, <1>4 DEF Ends
<1>6. Tentative(logSalt, m)'
    <2>1. Tentative(logSalt, m)
        BY <1>5 DEF Live
    <2>2. m \in 0 .. w.hdr.mxFrame
        BY <1>3, <1>5
    <2>3. ASSUME NEW s, s = logSalt PROVE Tentative(s, m)'
        <3>1. Tentative(s, m)
            BY <2>1, <2>3
        <3> QED
            BY <1>3, <2>2, <3>1, FrameEnds
    <2> QED
        BY <1>1, <2>3 DEF Tentative, ValidIn
<1>7. shm.h1.mxFrame = 0 => Tentative(shm.h1.salt, 0)'
    <2> SUFFICES ASSUME shm.h1.mxFrame = 0 PROVE Tentative(shm.h1.salt, 0)'
        OBVIOUS
    <2>1. Tentative(shm.h1.salt, 0)
        BY <1>3 DEF LogInv, Counted
    <2>2. ASSUME NEW s, s = shm.h1.salt PROVE Tentative(s, 0)'
        <3>1. Tentative(s, 0) /\ 0 \in 0 .. w.hdr.mxFrame
            BY <1>3, <2>1, <2>2
        <3> QED
            BY <1>3, <3>1, FrameEnds
    <2>3. UNCHANGED shm
        BY <1>1
    <2>4. PICK s : s = shm.h1.salt
        OBVIOUS
    <2>5. s = shm'.h1.salt
        BY <2>3, <2>4
    <2> QED
        BY <2>2, <2>4, <2>5 DEF Tentative, ValidIn
<1>8. /\ NewFrame(c, p).tx = w.tx /\ NewFrame(c, p).salt = w.hdr.salt
      /\ NewFrame(c, p).after = IF f = 1 THEN 0 ELSE log[f - 1].tx
      /\ NewFrame(c, p).commit = IF last THEN w.hdr.commit + 1 ELSE 0
    BY DEF NewFrame
<1> HIDE DEF f
<1>9. \A g \in 1 .. f : ValidIn(logSalt, g)'
    <2> SUFFICES ASSUME NEW g \in 1 .. f PROVE ValidIn(logSalt, g)'
        OBVIOUS
    <2>1. g # 1 => g - 1 \in 1 .. Len(log) /\ g - 1 # f
        BY <1>1
    <2>2. CASE g = f
        BY <1>1, <1>3, <1>8, <2>1, <2>2 DEF ValidIn
    <2>3. CASE g # f
        <3>1. g \in 1 .. Len(log) /\ g \in 1 .. w.hdr.mxFrame
            BY <1>1, <1>3, <2>3 DEF f
        <3>2. ValidIn(logSalt, g)
            BY <1>1, <1>3, <3>1 DEF Writes
        <3> QED
            BY <1>1, <2>1, <2>3, <3>1, <3>2 DEF ValidIn
    <2> QED
        BY <2>2, <2>3
<1>10. Numbered'
    <2>1. w.tx <= count.tx /\ w.hdr.salt <= count.salt
        BY DEF LogInv, Numbered
    <2>2. NewFrame(c, p).after <= count.tx
        <3>1. f # 1 => log[f - 1].tx <= count.tx
            <4>1. f # 1 => f - 1 \in 1 .. Len(log)
                BY <1>1
            <4> QED
                BY <4>1, FrameNumbers
        <3>2. 0 <= count.tx
            BY Before, WalAssumption DEF Counts
        <3> QED
            BY <1>8, <3>1, <3>2
    <2>3. \A g \in 1 .. Len(log') : log'[g].salt <= count.salt /\ log'[g].tx <= count.tx
                                    /\ log'[g].after <= count.tx
        <3> SUFFICES ASSUME NEW g \in 1 .. Len(log')
                     PROVE  log'[g].salt <= count.salt /\ log'[g].tx <= count.tx
                            /\ log'[g].after <= count.tx
            OBVIOUS
        <3>1. CASE g = f
            BY <1>1, <1>8, <2>1, <2>2, <3>1
        <3>2. CASE g # f
            <4>1. g \in 1 .. Len(log)
                BY <1>1, <3>2
            <4> QED
                BY <1>1, <3>2, <4>1, FrameNumbers
        <3> QED
            BY <3>1, <3>2
    <2>4. \A d \in Clients : wal'[d].hdr.salt = wal[d].hdr.salt /\ wal'[d].tx = wal[d].tx
        BY <1>1, <1>2
    <2> QED
        BY <1>1, <2>3, <2>4 DEF LogInv, Numbered
<1>11. Counted'
    BY <1>1, <1>3, <1>7 DEF Counted
<1>12. Ends(m)' /\ m \in 0 .. Len(log')
    <2>1. m \in 0 .. Len(log') /\ m < f
        BY <1>1, <1>3, <1>4, <1>5 DEF f
    <2>2. \A g \in 1 .. m : ValidIn(logSalt, g)'
        BY <1>1, <1>9, <2>1
    <2>3. m > 0 => log'[m] = log[m]
        BY <1>1, <1>4, <2>1
    <2>4. Live(m)'
        BY <1>1, <1>5, <1>6, <2>2, <2>3 DEF Live
    <2>5. shm'.h1.mxFrame > 0 => logSalt' = shm'.h1.salt
        BY <1>1, <1>4 DEF Ends
    <2> QED
        BY <1>1, <1>5, <2>1, <2>4, <2>5 DEF Ends
<1>13. Writes(c)'
    <2>1. shm.h1.mxFrame <= f /\ f > shm.h1.mxFrame /\ f > w.hdr.mxFrame
        BY <1>3 DEF f
    <2>2. \A g \in 1 .. Len(log') : g > f => log'[g].tx # w.tx /\ log'[g].after # w.tx
        <3> SUFFICES ASSUME NEW g \in 1 .. Len(log'), g > f
                     PROVE  log'[g].tx # w.tx /\ log'[g].after # w.tx
            OBVIOUS
        <3>1. g \in 1 .. Len(log) /\ g # f /\ g > w.hdr.mxFrame
            BY <1>1, <1>3 DEF f
        <3> QED
            BY <1>1, <1>3, <3>1 DEF Writes
    <2> QED
        BY <1>1, <1>2, <1>3, <1>8, <1>9, <2>1, <2>2 DEF Writes
<1> QED
    BY <1>1, <1>2, <1>10, <1>11, <1>12, <1>13, WriterLocks, WriterStep DEF LogInv

\* The commit: the transaction's last frame is that of the header, and nothing goes on
\* after it.
LEMMA PublishFirstLog ==
    ASSUME LocksInv, LogInv, NEW c \in Clients, PublishFirst(c)
    PROVE  LogInv'
<1> USE DEF Early, InTransaction, Appending, Current
<1> DEFINE w == wal[c]
<1>0. PICK m \in Nat : m = w.hdr.mxFrame
    BY Before DEF Headers
<1>1. /\ \A d \in Clients \ {c} : pc'[d] = pc[d] /\ wal'[d] = wal[d]
      /\ log' = log /\ logSalt' = logSalt /\ count' = count
      /\ pc[c] = "published" /\ shm.init = TRUE /\ Alone(c) /\ pc'[c] = "read"
    BY OthersStay, HeaderSeen, OneMoves DEF PublishFirst, Alone
<1>2. shm'.init = TRUE /\ shm'.h1 = w.hdr
    BY <1>1, Before DEF PublishFirst, Indexes
<1>3. wal'[c].hdr = w.hdr /\ wal'[c].tx = 0
    <2>1. wal'[c] = [wal[c] EXCEPT !.tx = 0]
        BY OneMoves DEF PublishFirst
    <2> QED
        BY <2>1, Before DEF Wals
<1>4. Len(history) \in Nat /\ Len(history') = Len(history) + 1
    BY Before DEF PublishFirst, Data
<1>5. Writes(c) /\ shm.h1.commit = Len(history)
    BY <1>1, WriterLocks DEF LogInv, Counted
<1>6. /\ m > shm.h1.mxFrame /\ m \in 1 .. Len(log) /\ w.hdr.salt = logSalt
      /\ w.hdr.commit = Len(history) + 1 /\ log[m].commit = Len(history) + 1 /\ log[m].tx = w.tx
      /\ \A f \in 1 .. m : ValidIn(logSalt, f)
      /\ \A g \in 1 .. Len(log) : g > m => log[g].after # w.tx
    <2>1. w.hdr.mxFrame \in Nat /\ shm.h1.mxFrame \in Nat /\ m <= Len(log) /\ Len(log) \in Nat
        BY <1>0, Before DEF Headers, Within
    <2> QED
        BY <1>0, <1>1, <1>5, <2>1 DEF Writes
<1>7. Tentative(logSalt, m)'
    <2> SUFFICES ASSUME NEW g \in m + 1 .. Len(log),
                        \A h \in m + 1 .. g : ValidIn(logSalt, h)'
                 PROVE  FALSE
        BY <1>1 DEF Tentative
    <2>1. m + 1 \in m + 1 .. g /\ m + 1 \in 1 .. Len(log) /\ m + 1 > m /\ m + 1 # 1
          /\ m + 1 - 1 = m
        BY <1>6
    <2>2. ValidIn(logSalt, m + 1)'
        BY <2>1
    <2>3. log[m + 1].after = log[m].tx
        BY <1>1, <2>1, <2>2 DEF ValidIn
    <2> QED
        BY <1>6, <2>1, <2>3
<1>8. Ends(m)' /\ m \in 0 .. Len(log')
    <2>1. \A d \in Clients : pc'[d] \notin Appending
        BY <1>1, WriterLocks, OneWriter
    <2>2. Live(m)'
        BY <1>1, <1>4, <1>6, <1>7 DEF Live, ValidIn
    <2> QED
        BY <1>0, <1>1, <1>2, <1>6, <2>1, <2>2 DEF Ends
<1>9. Numbered'
    <2>1. 0 <= count.tx
        BY Before, WalAssumption DEF Counts
    <2>2. \A d \in Clients : wal'[d].hdr = wal[d].hdr /\ wal'[d].tx <= count.tx
        BY <1>1, <1>3, <2>1 DEF LogInv, Numbered
    <2>3. \A d \in Clients : wal[d].hdr.salt <= count.salt
        BY DEF LogInv, Numbered
    <2> QED
        BY <1>1, <1>2, <2>2, <2>3 DEF LogInv, Numbered
<1>10. Counted'
    BY <1>0, <1>2, <1>4, <1>6 DEF Counted
<1>11. wal'[c].tx > 0 => Writes(c)'
    BY <1>3
<1> QED
    BY <1>1, <1>8, <1>9, <1>10, <1>11, WriterLocks, WriterStep DEF LogInv

\* What a recovery finds is the last commit, or one that a writer had not made known.
LEMMA FoundIsNewest ==
    ASSUME LocksInv, LogInv
    PROVE  /\ FoundHdr.commit \in {Len(history), Len(history) + 1}
           /\ Found > 0 => log[Found].commit = FoundHdr.commit
           /\ \A f \in 1 .. Found : ValidIn(logSalt, f)
           /\ \A g \in Found + 1 .. Len(log) :
                  (\A h \in Found + 1 .. g : ValidIn(logSalt, h)) => log[g].commit = 0
<1>1. PICK m \in 0 .. Len(log) : Ends(m)
    BY DEF LogInv
<1>2. \A f : Valid(f) <=> ValidIn(logSalt, f)
    BY DEF Valid, ValidIn
<1>3. /\ Intact \in 0 .. Len(log)
      /\ \A f \in 1 .. Intact : ValidIn(logSalt, f)
      /\ \A n \in 0 .. Len(log) : (\A f \in 1 .. n : ValidIn(logSalt, f)) => n <= Intact
    BY <1>2, IntactIsLast
<1>4. /\ Found \in 0 .. Intact
      /\ Found > 0 => log[Found].commit > 0
      /\ \A f \in 1 .. Intact : log[f].commit > 0 => f <= Found
    <2>1. Intact \in Nat
        BY <1>3
    <2> QED
        BY <2>1, CommittedIsLast DEF Found
<1>5. /\ Len(log) \in Nat /\ Len(history) \in Nat /\ Len(history) > 0
      /\ FoundHdr.commit = IF Found = 0 THEN Len(history) ELSE log[Found].commit
    BY FoundValues, Before DEF LocksInv, Values, Data
<1>6. /\ \A f \in 1 .. m : ValidIn(logSalt, f)
      /\ m > 0 => log[m].commit = Len(history)
      /\ Tentative(logSalt, m)
    BY <1>1 DEF Ends, Live
<1>7. m <= Found
    <2>1. m <= Intact
        BY <1>3, <1>6
    <2> QED
        BY <1>3, <1>4, <1>5, <1>6, <2>1
<1>8. FoundHdr.commit \in {Len(history), Len(history) + 1}
    <2>1. CASE Found = m
        BY <1>5, <1>6, <2>1
    <2>2. CASE Found > m
        <3>1. Found \in m + 1 .. Len(log) /\ Found > 0 /\ Found # 0
            BY <1>3, <1>4, <2>2
        <3>2. \A g \in m + 1 .. Found : ValidIn(logSalt, g)
            BY <1>3, <1>4
        <3>3. log[Found].commit \in {0, Len(history) + 1}
            BY <1>6, <3>1, <3>2 DEF Tentative
        <3> QED
            BY <1>4, <1>5, <3>1, <3>3
    <2> QED
        BY <1>4, <1>7, <2>1, <2>2
<1>9. ASSUME NEW g \in Found + 1 .. Len(log),
             \A h \in Found + 1 .. g : ValidIn(logSalt, h)
      PROVE  log[g].commit = 0
    <2>1. \A f \in 1 .. g : ValidIn(logSalt, f)
        BY <1>3, <1>4, <1>9
    <2>2. g \in 0 .. Len(log) /\ g \in 1 .. Intact /\ ~(g <= Found)
        BY <1>3, <1>4, <1>5, <2>1
    <2>3. ~(log[g].commit > 0)
        BY <1>4, <2>2
    <2>4. log[g].commit \in Nat
        BY <1>3, <2>2, FrameNumbers
    <2> QED
        BY <2>3, <2>4
<1> QED
    BY <1>3, <1>4, <1>5, <1>8, <1>9

LEMMA RecoverLog ==
    ASSUME LocksInv, LogInv, NEW c \in Clients, Recover(c)
    PROVE  LogInv'
<1> USE DEF Early, InTransaction, Appending, Current
<1>1. /\ \A d \in Clients \ {c} : pc'[d] = pc[d] /\ wal'[d] = wal[d]
      /\ log' = log /\ logSalt' = logSalt /\ count' = count /\ wal' = wal
      /\ pc[c] \in {"fix", "ckfix"} /\ pc'[c] \in {"idle", "ckpt"} /\ Alone(c)
      /\ wal[c].tx = 0 /\ lock.write = c
    <2>1. /\ pc[c] \in {"fix", "ckfix"} /\ lock.write = c
          /\ pc' = [pc EXCEPT ![c] = IF pc[c] = "fix" THEN "idle" ELSE "ckpt"]
          /\ log' = log /\ logSalt' = logSalt /\ count' = count /\ wal' = wal
        BY RecoverEffect
    <2>2. wal[c].tx = 0
        BY <2>1, HeaderSeen
    <2>3. pc \in [Clients -> Steps]
        BY DEF LocksInv, Values
    <2>4. pc'[c] \in {"idle", "ckpt"} /\ Alone(c)
        BY <2>1, <2>3 DEF Alone
    <2> QED
        BY <2>1, <2>2, <2>4 DEF Alone
<1>2. CASE ~Recovering(c)
    <2>1. shm' = shm /\ history' = history
        BY <1>2, RecoverEffect
    <2>2. Quiet(c)
        BY <1>1, <2>1 DEF Quiet
    <2> QED
        BY <2>2, QuietStep
<1>3. CASE Recovering(c)
    <2>1. /\ shm'.init = TRUE /\ shm'.h1 = FoundHdr
          /\ history' = IF FoundHdr.commit > Len(history)
                        THEN Append(history, Image(Found)) ELSE history
        BY <1>3, RecoverEffect
    <2>2. FoundHdr.mxFrame = Found /\ FoundHdr.salt = logSalt /\ Found \in 0 .. Len(log)
        BY FoundValues
    <2>3. PICK m : m = Found
        OBVIOUS
    <2>4. PICK hdr : hdr = FoundHdr
        OBVIOUS
    <2>5. Len(history) \in Nat /\ history \in Seq(Images)
        BY Before DEF Data
    <2>6. Len(history') = hdr.commit
        <3> HIDE DEF Found, FoundHdr
        <3>1. hdr.commit \in {Len(history), Len(history) + 1}
            BY <2>4, FoundIsNewest
        <3> QED
            BY <2>1, <2>4, <2>5, <3>1
    <2>7. /\ m > 0 => log[m].commit = hdr.commit
          /\ \A f \in 1 .. m : ValidIn(logSalt, f)
          /\ \A g \in m + 1 .. Len(log) :
                 (\A h \in m + 1 .. g : ValidIn(logSalt, h)) => log[g].commit = 0
          /\ m \in 0 .. Len(log) /\ hdr.mxFrame = m /\ hdr.salt = logSalt
        <3> HIDE DEF Found, FoundHdr
        <3> QED
            BY <2>2, <2>3, <2>4, FoundIsNewest
    <2>8. shm'.h1 = hdr
        BY <2>1, <2>4
    <2>9. Tentative(logSalt, m)'
        BY <1>1, <2>7 DEF Tentative, ValidIn
    <2>10. Ends(m)' /\ m \in 0 .. Len(log')
        <3>1. \A d \in Clients : pc'[d] \notin Appending
            BY <1>1, OneWriter
        <3>2. Live(m)'
            BY <1>1, <2>6, <2>7, <2>9 DEF Live, ValidIn
        <3> QED
            BY <1>1, <2>7, <2>8, <3>1, <3>2 DEF Ends
    <2>11. Numbered'
        BY <1>1, <2>7, <2>8 DEF LogInv, Numbered
    <2>12. Counted'
        <3>1. shm'.h1.mxFrame = 0 => Tentative(shm.h1.salt, 0)'
            BY <1>1, <2>7, <2>8, <2>9 DEF Tentative, ValidIn
        <3> QED
            BY <2>1, <2>6, <2>8, <3>1 DEF Counted
    <2>13. wal'[c].tx > 0 => Writes(c)'
        BY <1>1
    <2> QED
        BY <1>1, <2>10, <2>11, <2>12, <2>13, WriterStep DEF LogInv
<1> QED
    BY <1>2, <1>3

LEMMA DieLog ==
    ASSUME LocksInv, LogInv, NEW dead \in SUBSET Clients, Die(dead)
    PROVE  LogInv'
<1> USE DEF Early, InTransaction, Appending, Current
<1>1. /\ log' = log /\ logSalt' = logSalt /\ history' = history
      /\ count'.salt = count.salt /\ count'.tx = count.tx
    BY DEF Die, LocksInv, Values, Data, Counts
<1>2. /\ \A d \in Clients : d \in dead => pc'[d] = "idle" /\ wal'[d] = NoWal
      /\ \A d \in Clients : d \notin dead => pc'[d] = pc[d] /\ wal'[d] = wal[d]
    BY DEF Die
<1>3. \/ shm' = shm
      \/ dead = Clients /\ shm'.init = FALSE /\ shm'.h1 = NoHdr
    BY DEF Die
<1>4. NoWal.hdr = NoHdr /\ NoWal.tx = 0 /\ NoHdr.salt = 0 /\ NoHdr.mxFrame = 0
    BY NoWalValues DEF NoHdr, Hdr
<1>5. count.salt \in Nat /\ count.tx \in Nat
    BY WalAssumption DEF LocksInv, Values, Data, Counts
<1>6. Numbered'
    <2>1. \A d \in Clients : wal'[d].hdr.salt <= count.salt /\ wal'[d].tx <= count.tx
        BY <1>2, <1>4, <1>5 DEF LogInv, Numbered
    <2> QED
        BY <1>1, <1>3, <1>4, <1>5, <2>1 DEF LogInv, Numbered
<1>7. Counted'
    <2>1. CASE shm' = shm
        <3>1. \A d \in Clients : ~shm.init => pc'[d] \in Early
            BY <1>2 DEF LogInv, Counted
        <3> QED
            BY <1>1, <2>1, <3>1 DEF LogInv, Counted, Tentative, ValidIn
    <2>2. CASE dead = Clients /\ shm'.init = FALSE /\ shm'.h1 = NoHdr
        BY <1>2, <2>2 DEF Counted
    <2> QED
        BY <1>3, <2>1, <2>2
<1>8. \E m \in 0 .. Len(log') : Ends(m)'
    <2>1. PICK m \in 0 .. Len(log) : Ends(m)
        BY DEF LogInv
    <2>2. \A d \in Clients : pc'[d] \in Appending => pc[d] \in Appending /\ d \notin dead
        BY <1>2
    <2>3. Ends(m)'
        BY <1>1, <1>3, <1>4, <2>1, <2>2 DEF Ends, Live, Tentative, ValidIn
    <2> QED
        BY <1>1, <2>3
<1>9. ASSUME NEW d \in Clients, wal'[d].tx > 0
      PROVE  Writes(d)'
    <2>1. d \notin dead
        BY <1>2, <1>4, <1>9
    <2>2. Writes(d) /\ pc'[d] = pc[d] /\ wal'[d] = wal[d] /\ shm' = shm
        BY <1>2, <1>3, <1>9, <2>1 DEF LogInv
    <2> QED
        BY <1>1, <2>2 DEF Writes, ValidIn
<1> QED
    BY <1>6, <1>7, <1>8, <1>9 DEF LogInv

LEMMA LogInit == Init => LogInv
<1> SUFFICES ASSUME Init PROVE LogInv
    OBVIOUS
<1> USE DEF Init
<1>1. /\ Len(log) = 0 /\ logSalt = 0 /\ shm.init = FALSE /\ shm.h1 = NoHdr
      /\ count.salt = 0 /\ count.tx = 0
      /\ \A c \in Clients : pc[c] = "idle" /\ wal[c] = NoWal
    OBVIOUS
<1>2. NoWal.hdr = NoHdr /\ NoWal.tx = 0 /\ NoHdr.salt = 0 /\ NoHdr.mxFrame = 0
    BY NoWalValues DEF NoHdr, Hdr
<1> HIDE DEF Init
<1>3. Numbered
    BY <1>1, <1>2 DEF Numbered
<1>4. Counted
    BY <1>1 DEF Counted, Early
<1>5. Ends(0) /\ 0 \in 0 .. Len(log)
    BY <1>1, <1>2 DEF Ends, Live, Tentative, Appending
<1> QED
    BY <1>1, <1>2, <1>3, <1>4, <1>5 DEF LogInv

LEMMA LogStep == LocksInv /\ LogInv /\ [Next]_vars => LogInv'
<1> SUFFICES ASSUME LocksInv, LogInv, [Next]_vars PROVE LogInv'
    OBVIOUS
<1>1. CASE UNCHANGED vars
    <2>1. Numbered' /\ Counted'
        BY <1>1 DEF vars, LogInv, Numbered, Counted, Tentative, ValidIn
    <2>2. \E m \in 0 .. Len(log') : Ends(m)'
        BY <1>1 DEF vars, LogInv, Ends, Live, Tentative, ValidIn
    <2>3. \A c \in Clients : wal'[c].tx > 0 => Writes(c)'
        BY <1>1 DEF vars, LogInv, Writes, ValidIn
    <2> QED
        BY <2>1, <2>2, <2>3 DEF LogInv
<1>2. ASSUME NEW c \in Clients,
             \/ ReadHdr(c) \/ Recover(c) \/ TryBegin(c) \/ PickMark(c) \/ LockMark(c)
             \/ EndRead(c) \/ BeginWrite(c) \/ RestartLog(c) \/ ResetHeader(c) \/ ResetInfo(c)
      PROVE  LogInv'
    BY <1>2, ReadingIsQuiet, RecoverLog, MovingMarksIsQuiet, BeginWriteLog, RestartLogLog,
       ResetHeaderLog, WriterIsQuiet, QuietStep
<1>3. ASSUME NEW c \in Clients,
             \/ WriteLogHeader(c) \/ StartFrames(c) \/ PublishSecond(c) \/ PublishFirst(c)
             \/ Undo(c) \/ BeginCheckpoint(c) \/ Scan(c) \/ CheckMark(c) \/ LockBackfill(c)
             \/ EndBackfill(c)
      PROVE  LogInv'
    BY <1>3, WriteLogHeaderLog, StartFramesLog, WriterIsQuiet, PublishFirstLog,
       CheckpointIsQuiet, MovingMarksIsQuiet, QuietStep
<1>4. ASSUME NEW c \in Clients, NEW p \in Pages, WriteFrame(c, p) \/ CopyPage(c, p)
      PROVE  LogInv'
    BY <1>4, WriteFrameLog, CheckpointIsQuiet, QuietStep
<1>5. ASSUME NEW dead \in SUBSET Clients, Die(dead) PROVE LogInv'
    BY <1>5, DieLog
<1> QED
    BY <1>1, <1>2, <1>3, <1>4, <1>5 DEF Next

LEMMA LogInvariant == Spec => [](LocksInv /\ LogInv)
<1>1. Init => LocksInv /\ LogInv
    BY WalInit, LogInit
<1>2. (LocksInv /\ LogInv) /\ [Next]_vars => (LocksInv /\ LogInv)'
    BY WalStep, LogStep
<1> QED
    BY <1>1, <1>2, PTL DEF Spec

\* No commit is lost and no undone transaction comes back, whoever dies between any two
\* steps of any number of writers, checkpointers and recoveries: the header of the
\* wal-index, whenever it may be used, is that of the last commit.
THEOREM WalFindsNewest == Spec => []NewestIsFound
<1>1. LocksInv /\ LogInv => NewestIsFound
    BY DEF LogInv, Counted, NewestIsFound, HdrIsGood
<1> QED
    BY <1>1, LogInvariant, PTL

----------------------------------------------------------------------------
(* Salts: the rounds of the log *)

\* Nobody else has the salt of c's header.
OwnSalt(c) ==
    /\ wal[c].hdr.salt > 0 /\ wal[c].hdr.salt # shm.h1.salt
    /\ \A d \in Clients \ {c} : wal[d].hdr.salt # wal[c].hdr.salt

\* A writer appends to the round of the log that the others know or to one of its own;
\* what a checkpoint read in a round is no more than that round has.
Salted(c) ==
    /\ pc[c] = "reset" => OwnSalt(c)
    /\ pc[c] \in Appending => wal[c].hdr.salt = shm.h1.salt \/ OwnSalt(c)
    /\ pc[c] = "scan" /\ wal[c].hdr.salt = shm.h1.salt =>
           wal[c].hdr.mxFrame <= shm.h1.mxFrame

SaltInv == \A c \in Clients : Salted(c)

LEMMA OwnKept ==
    ASSUME NEW c \in Clients, NEW d \in Clients \ {c}, OwnSalt(d), Alone(c),
           shm'.h1 = shm.h1, wal'[c].hdr.salt \in {wal[c].hdr.salt, shm.h1.salt, 0}
    PROVE  OwnSalt(d)'
<1>1. \A e \in Clients \ {c} : wal'[e] = wal[e]
    BY DEF Alone
<1>2. wal[d].hdr.salt # wal[c].hdr.salt /\ wal[d].hdr.salt # 0
    BY DEF OwnSalt
<1>3. wal'[c].hdr.salt # wal[d].hdr.salt
    BY <1>2 DEF OwnSalt
<1> QED
    BY <1>1, <1>3 DEF OwnSalt

LEMMA QuietSalts ==
    ASSUME LocksInv, LogInv, SaltInv, LocksInv', NEW c \in Clients, Quiet(c)
    PROVE  SaltInv'
<1> USE DEF InTransaction, Appending, Current
<1>1. /\ \A d \in Clients \ {c} : pc'[d] = pc[d] /\ wal'[d] = wal[d]
      /\ shm'.h1 = shm.h1 /\ Alone(c)
    BY DEF Quiet, Alone
<1>2. wal'[c].hdr.salt \in {wal[c].hdr.salt, shm.h1.salt, 0}
    BY DEF Quiet, NoHdr, Hdr
<1>3. ASSUME NEW d \in Clients \ {c} PROVE Salted(d)'
    <2>1. Salted(d)
        BY DEF SaltInv
    <2>2. OwnSalt(d) => OwnSalt(d)'
        BY <1>1, <1>2, OwnKept
    <2> QED
        BY <1>1, <2>1, <2>2 DEF Salted
<1>4. Salted(c)'
    <2>1. CASE pc'[c] = "reset" \/ pc'[c] \in Appending
        <3>1. ~(wal'[c].tx = 0 /\ pc'[c] \notin Appending)
            <4>1. Stands(pc[c], wal[c])'
                BY DEF LocksInv
            <4>2. wal'[c].tx > 0
                BY <2>1, <4>1 DEF Stands
            <4> QED
                BY <4>2
        <3>2. wal'[c].hdr = wal[c].hdr /\ (pc'[c] = pc[c] \/ (pc[c] \in Appending /\ pc'[c] \in Appending))
            BY <2>1, <3>1 DEF Quiet
        <3>3. Salted(c)
            BY DEF SaltInv
        <3>4. OwnSalt(c) => OwnSalt(c)'
            BY <1>1, <3>2 DEF OwnSalt
        <3> QED
            BY <1>1, <2>1, <3>2, <3>3, <3>4 DEF Salted
    <2>2. CASE pc'[c] = "scan"
        <3>1. wal'[c].hdr = shm.h1 /\ shm.h1.mxFrame \in Nat
            BY <2>2, Before DEF Quiet, Headers
        <3> QED
            BY <1>1, <2>2, <3>1 DEF Salted
    <2> QED
        BY <2>1, <2>2 DEF Salted
<1> QED
    BY <1>3, <1>4 DEF SaltInv

\* The checkpoints that have just read a header when c writes one.
ScansKept(c) ==
    \A d \in Clients \ {c} :
        pc[d] = "scan" /\ wal[d].hdr.salt = shm'.h1.salt =>
            wal[d].hdr.mxFrame <= shm'.h1.mxFrame

LEMMA WriterSalts ==
    ASSUME LocksInv, SaltInv, NEW c \in Clients, lock.write = c, Alone(c),
           ScansKept(c), Salted(c)'
    PROVE  SaltInv'
<1>1. ASSUME NEW d \in Clients \ {c} PROVE Salted(d)'
    <2>1. pc'[d] = pc[d] /\ wal'[d] = wal[d] /\ pc[d] \notin InTransaction
        BY OneWriter DEF Alone
    <2> QED
        BY <2>1 DEF Salted, ScansKept, InTransaction, Appending
<1> QED
    BY <1>1 DEF SaltInv

\* The step of a writer that leaves the header in the wal-index alone.
LEMMA WriterKeepsSalts ==
    ASSUME LocksInv, SaltInv, NEW c \in Clients, lock.write = c, Alone(c),
           shm'.h1 = shm.h1, Salted(c)'
    PROVE  SaltInv'
<1>1. ScansKept(c)
    BY DEF SaltInv, Salted, ScansKept
<1> QED
    BY <1>1, WriterSalts

LEMMA FreshSalt ==
    ASSUME LocksInv, LogInv, NEW c \in Clients, Alone(c), shm'.h1 = shm.h1,
           wal'[c].hdr.salt = count.salt + 1
    PROVE  OwnSalt(c)'
<1>1. count.salt \in Nat /\ shm.h1.salt \in Nat /\ shm.h1.salt <= count.salt
    BY Before DEF LogInv, Numbered, Counts, Headers
<1>2. ASSUME NEW d \in Clients \ {c} PROVE wal'[d].hdr.salt # count.salt + 1
    <2>1. wal[d].hdr.salt \in Nat /\ wal[d].hdr.salt <= count.salt
        BY Before DEF LogInv, Numbered, Headers
    <2> QED
        BY <1>1, <2>1 DEF Alone
<1>3. count.salt + 1 > 0 /\ count.salt + 1 # shm.h1.salt
    BY <1>1
<1> QED
    BY <1>2, <1>3 DEF OwnSalt

LEMMA BeginWriteSalts ==
    ASSUME LocksInv, SaltInv, NEW c \in Clients, BeginWrite(c)
    PROVE  SaltInv'
<1>1. /\ \A d \in Clients \ {c} : pc'[d] = pc[d] /\ wal'[d] = wal[d]
      /\ shm' = shm /\ Alone(c) /\ pc'[c] \in {"restart", "write"}
    BY OthersStay, OneMoves DEF BeginWrite, Alone
<1>2. wal'[c].hdr = wal[c].hdr
    <2>1. wal'[c] = [wal[c] EXCEPT !.tx = count.tx + 1]
        BY OneMoves DEF BeginWrite
    <2> QED
        BY <2>1, Before DEF Wals
<1>3. ASSUME NEW d \in Clients \ {c} PROVE Salted(d)'
    <2>1. Salted(d)
        BY DEF SaltInv
    <2>2. OwnSalt(d) => OwnSalt(d)'
        BY <1>1, <1>2, OwnKept
    <2> QED
        BY <1>1, <2>1, <2>2 DEF Salted
<1>4. Salted(c)'
    BY <1>1 DEF Salted, Appending
<1> QED
    BY <1>3, <1>4 DEF SaltInv

LEMMA RestartLogSalts ==
    ASSUME LocksInv, LogInv, SaltInv, LocksInv', NEW c \in Clients, RestartLog(c)
    PROVE  SaltInv'
<1>1. /\ Alone(c) /\ pc[c] = "restart" /\ lock.write = c
    BY OthersStay, WriterLocks DEF RestartLog, InTransaction
<1>2. CASE shm.nBackfill > 0 /\ \A i \in MarkIds : Free(i)
    <2> DEFINE hdr == Hdr(0, count.salt + 1, wal[c].hdr.commit)
    <2>1. /\ pc'[c] = "reset" /\ wal'[c] = [wal[c] EXCEPT !.hdr = hdr]
          /\ shm' = [shm EXCEPT !.h2 = hdr]
        BY <1>2, OneMoves DEF RestartLog
    <2>2. hdr.salt = count.salt + 1
        BY DEF Hdr
    <2> HIDE DEF hdr
    <2>3. wal'[c].hdr.salt = count.salt + 1 /\ shm'.h1 = shm.h1
        BY <2>1, <2>2, Before DEF Wals, Indexes
    <2>4. Salted(c)'
        BY <1>1, <2>1, <2>3, FreshSalt DEF Salted, Appending
    <2> QED
        BY <1>1, <2>3, <2>4, WriterKeepsSalts
<1>3. CASE ~(shm.nBackfill > 0 /\ \A i \in MarkIds : Free(i))
    <2>1. LeaveMarkZero(c, wal[c]) /\ UNCHANGED shm
        BY <1>3 DEF RestartLog
    <2>2. pc'[c] = "pick"
        BY <2>1, OneMoves DEF LeaveMarkZero
    <2>3. Salted(c)'
        BY <2>2 DEF Salted, Appending
    <2> QED
        BY <1>1, <2>1, <2>3, WriterKeepsSalts
<1> QED
    BY <1>2, <1>3

LEMMA ResetHeaderSalts ==
    ASSUME LocksInv, SaltInv, NEW c \in Clients, ResetHeader(c)
    PROVE  SaltInv'
<1>1. /\ Alone(c) /\ pc[c] = "reset" /\ lock.write = c /\ pc'[c] = "resetinfo"
    BY OthersStay, WriterLocks, OneMoves DEF ResetHeader, InTransaction
<1>2. shm'.h1 = wal[c].hdr
    BY Before DEF ResetHeader, Indexes
<1>3. OwnSalt(c)
    BY <1>1 DEF SaltInv, Salted
<1>4. ScansKept(c)
    BY <1>2, <1>3 DEF ScansKept, OwnSalt
<1>5. Salted(c)'
    BY <1>1 DEF Salted, Appending
<1> QED
    BY <1>1, <1>4, <1>5, WriterSalts

LEMMA WriteLogHeaderSalts ==
    ASSUME LocksInv, LogInv, SaltInv, NEW c \in Clients, WriteLogHeader(c)
    PROVE  SaltInv'
<1>1. /\ Alone(c) /\ pc[c] = "write" /\ lock.write = c /\ pc'[c] = "frames" /\ shm' = shm
      /\ wal[c].tx > 0
    BY OthersStay, WriterLocks, OneMoves DEF WriteLogHeader, InTransaction
<1>2. wal[c].hdr = shm.h1
    BY <1>1 DEF LogInv, Writes, Current
<1>3. logSalt' = wal[c].hdr.salt \/ logSalt' = count.salt + 1
    BY DEF WriteLogHeader
<1>4. wal'[c].hdr.salt = logSalt'
    <2>1. PICK pages : Fields(c, [wal[c] EXCEPT !.todo = pages, !.hdr.salt = logSalt'])
        BY DEF WriteLogHeader
    <2> DEFINE ls == logSalt'
    <2> HIDE DEF ls
    <2>2. wal'[c] = [wal[c] EXCEPT !.todo = pages, !.hdr.salt = ls]
        BY <2>1, OneMoves DEF ls
    <2>3. wal'[c].hdr = [wal[c].hdr EXCEPT !.salt = ls]
        BY <2>2, Before DEF Wals
    <2>4. wal'[c].hdr.salt = ls
        BY <2>3, Before DEF Headers
    <2> QED
        BY <2>4 DEF ls
<1>5. wal'[c].hdr.salt = shm'.h1.salt \/ OwnSalt(c)'
    BY <1>1, <1>2, <1>3, <1>4, FreshSalt
<1>6. Salted(c)'
    BY <1>1, <1>5 DEF Salted
<1> QED
    BY <1>1, <1>6, WriterKeepsSalts

LEMMA FramesSalts ==
    ASSUME LocksInv, LogInv, SaltInv, NEW c \in Clients, NEW p \in Pages,
           StartFrames(c) \/ WriteFrame(c, p)
    PROVE  SaltInv'
<1>1. CASE StartFrames(c)
    <2>1. /\ Alone(c) /\ pc[c] = "write" /\ lock.write = c /\ pc'[c] = "frames" /\ shm' = shm
          /\ wal[c].tx > 0
        BY <1>1, OthersStay, WriterLocks, OneMoves DEF StartFrames, InTransaction
    <2>2. wal[c].hdr = shm.h1
        BY <2>1 DEF LogInv, Writes, Current
    <2>3. wal'[c].hdr = wal[c].hdr
        <3>1. \E t : wal'[c] = [wal[c] EXCEPT !.todo = t]
            BY <1>1, OneMoves DEF StartFrames
        <3> QED
            BY <3>1, Before DEF Wals
    <2>4. Salted(c)'
        BY <2>1, <2>2, <2>3 DEF Salted
    <2> QED
        BY <2>1, <2>4, WriterKeepsSalts
<1>2. CASE WriteFrame(c, p)
    <2>1. /\ Alone(c) /\ pc[c] = "frames" /\ lock.write = c /\ shm' = shm
          /\ pc'[c] \in {"publish", "frames"}
        BY <1>2, OthersStay, WriterLocks, OneMoves DEF WriteFrame, InTransaction, Appending
    <2>2. wal'[c].hdr.salt = wal[c].hdr.salt
        BY <1>2, FrameWritten
    <2>3. Salted(c)
        BY DEF SaltInv
    <2>4. OwnSalt(c) => OwnSalt(c)'
        BY <2>1, <2>2 DEF OwnSalt, Alone
    <2>5. Salted(c)'
        BY <2>1, <2>2, <2>3, <2>4 DEF Salted, Appending
    <2> QED
        BY <2>1, <2>5, WriterKeepsSalts
<1> QED
    BY <1>1, <1>2

LEMMA PublishFirstSalts ==
    ASSUME LocksInv, LogInv, SaltInv, NEW c \in Clients, PublishFirst(c)
    PROVE  SaltInv'
<1>1. /\ Alone(c) /\ pc[c] = "published" /\ lock.write = c /\ pc'[c] = "read" /\ wal[c].tx > 0
    BY OthersStay, WriterLocks, OneMoves DEF PublishFirst, InTransaction, Appending
<1>2. shm'.h1 = wal[c].hdr
    BY Before DEF PublishFirst, Indexes
<1>3. wal[c].hdr.mxFrame > shm.h1.mxFrame
    BY <1>1 DEF LogInv, Writes, Appending
<1>4. wal[c].hdr.salt = shm.h1.salt \/ OwnSalt(c)
    BY <1>1 DEF SaltInv, Salted, Appending
<1>5. ScansKept(c)
    <2> SUFFICES ASSUME NEW d \in Clients \ {c}, pc[d] = "scan",
                        wal[d].hdr.salt = wal[c].hdr.salt
                 PROVE  wal[d].hdr.mxFrame <= wal[c].hdr.mxFrame
        BY <1>2 DEF ScansKept
    <2>1. wal[c].hdr.salt = shm.h1.salt
        BY <1>4 DEF OwnSalt
    <2>2. wal[d].hdr.mxFrame <= shm.h1.mxFrame
        BY <2>1 DEF SaltInv, Salted
    <2>3. wal[d].hdr.mxFrame \in Nat /\ shm.h1.mxFrame \in Nat /\ wal[c].hdr.mxFrame \in Nat
        BY Before DEF Headers
    <2> QED
        BY <1>3, <2>2, <2>3
<1>6. Salted(c)'
    BY <1>1 DEF Salted, Appending
<1> QED
    BY <1>1, <1>5, <1>6, WriterSalts

LEMMA RecoverSalts ==
    ASSUME LocksInv, SaltInv, NEW c \in Clients, Recover(c)
    PROVE  SaltInv'
<1>1. /\ Alone(c) /\ lock.write = c /\ pc'[c] \in {"idle", "ckpt"} /\ wal' = wal
      /\ ~Recovering(c) => shm' = shm
    <2>1. /\ lock.write = c /\ wal' = wal /\ ~Recovering(c) => shm' = shm
          /\ pc' = [pc EXCEPT ![c] = IF pc[c] = "fix" THEN "idle" ELSE "ckpt"]
        BY RecoverEffect
    <2>2. pc \in [Clients -> Steps]
        BY DEF LocksInv, Values
    <2>3. pc'[c] \in {"idle", "ckpt"}
        BY <2>1, <2>2
    <2>4. lock.write = c /\ wal' = wal
        BY RecoverEffect
    <2>5. ~Recovering(c) => shm' = shm
        BY RecoverEffect
    <2> QED
        BY <2>3, <2>4, <2>5, OthersStay
<1>2. Salted(c)'
    BY <1>1 DEF Salted, Appending
<1>3. CASE ~Recovering(c)
    BY <1>1, <1>2, <1>3, WriterKeepsSalts
<1>4. CASE Recovering(c)
    <2>1. \A d \in Clients \ {c} : lock.ckpt # d
        BY <1>4, WalAssumption DEF Recovering
    <2>2. \A d \in Clients \ {c} : pc[d] # "scan"
        BY <2>1, Before DEF Holds, InCheckpoint
    <2>3. ScansKept(c)
        BY <2>2 DEF ScansKept
    <2> QED
        BY <1>1, <1>2, <2>3, WriterSalts
<1> QED
    BY <1>3, <1>4

LEMMA DieSalts ==
    ASSUME LocksInv, SaltInv, NEW dead \in SUBSET Clients, Die(dead)
    PROVE  SaltInv'
<1>1. /\ \A d \in Clients : d \in dead => pc'[d] = "idle" /\ wal'[d] = NoWal
      /\ \A d \in Clients : d \notin dead => pc'[d] = pc[d] /\ wal'[d] = wal[d]
      /\ shm' = shm \/ dead = Clients
    BY DEF Die
<1>2. NoWal.hdr.salt = 0
    BY NoWalValues DEF NoHdr, Hdr
<1>3. ASSUME NEW d \in Clients PROVE Salted(d)'
    <2>1. CASE d \in dead
        BY <1>1, <2>1 DEF Salted, Appending
    <2>2. CASE d \notin dead
        <3>1. Salted(d) /\ pc'[d] = pc[d] /\ wal'[d] = wal[d] /\ shm' = shm
            BY <1>1, <2>2 DEF SaltInv
        <3>2. ASSUME OwnSalt(d), NEW e \in Clients \ {d}
              PROVE  wal'[e].hdr.salt # wal[d].hdr.salt
            <4>1. wal[e].hdr.salt # wal[d].hdr.salt /\ wal[d].hdr.salt # 0
                BY <3>2 DEF OwnSalt
            <4>2. wal'[e] = wal[e] \/ wal'[e] = NoWal
                BY <1>1
            <4> QED
                BY <1>2, <4>1, <4>2
        <3>3. OwnSalt(d) => OwnSalt(d)'
            BY <3>1, <3>2 DEF OwnSalt
        <3> QED
            BY <3>1, <3>3 DEF Salted
    <2> QED
        BY <2>1, <2>2
<1> QED
    BY <1>3 DEF SaltInv

LEMMA SaltStep == LocksInv /\ LogInv /\ SaltInv /\ LocksInv' /\ [Next]_vars => SaltInv'
<1> SUFFICES ASSUME LocksInv, LogInv, SaltInv, LocksInv', [Next]_vars PROVE SaltInv'
    OBVIOUS
<1>1. CASE UNCHANGED vars
    BY <1>1 DEF vars, SaltInv, Salted, OwnSalt
<1>2. ASSUME NEW c \in Clients,
             \/ ReadHdr(c) \/ Recover(c) \/ TryBegin(c) \/ PickMark(c) \/ LockMark(c)
             \/ EndRead(c) \/ BeginWrite(c) \/ RestartLog(c) \/ ResetHeader(c) \/ ResetInfo(c)
      PROVE  SaltInv'
    BY <1>2, ReadingIsQuiet, RecoverSalts, MovingMarksIsQuiet, BeginWriteSalts,
       RestartLogSalts, ResetHeaderSalts, WriterIsQuiet, QuietSalts
<1>3. ASSUME NEW c \in Clients,
             \/ WriteLogHeader(c) \/ PublishSecond(c) \/ PublishFirst(c)
             \/ Undo(c) \/ BeginCheckpoint(c) \/ Scan(c) \/ CheckMark(c) \/ LockBackfill(c)
             \/ EndBackfill(c)
      PROVE  SaltInv'
    BY <1>3, WriteLogHeaderSalts, WriterIsQuiet, PublishFirstSalts, CheckpointIsQuiet,
       MovingMarksIsQuiet, QuietSalts
<1>4. ASSUME NEW c \in Clients, NEW p \in Pages,
             StartFrames(c) \/ WriteFrame(c, p) \/ CopyPage(c, p)
      PROVE  SaltInv'
    BY <1>4, FramesSalts, CheckpointIsQuiet, QuietSalts
<1>5. ASSUME NEW c \in Clients, StartFrames(c) PROVE SaltInv'
    <2>1. \E pages : pages \in (SUBSET Pages) \ {{}}
        BY <1>5 DEF StartFrames
    <2>2. PICK p : p \in Pages
        BY <2>1
    <2> QED
        BY <1>4, <1>5, <2>2
<1>6. ASSUME NEW dead \in SUBSET Clients, Die(dead) PROVE SaltInv'
    BY <1>6, DieSalts
<1> QED
    BY <1>1, <1>2, <1>3, <1>4, <1>5, <1>6 DEF Next

LEMMA SaltInit == Init => SaltInv
BY DEF Init, SaltInv, Salted, Appending

----------------------------------------------------------------------------
(* Snapshots: what a log and a database file show *)

LEMMA ImageIsSnapshot ==
    /\ \A p, m : Frame(p, m) = LastFrame(log, p, m)
    /\ \A m : Image(m) = Snapshot(log, db, m)
BY DEF Frame, LastFrame, Image, Snapshot

\* Frames after the mth one do not show.
LEMMA SameSnapshot ==
    ASSUME NEW l, NEW k, NEW d, NEW m \in Nat, \A f \in 1 .. m : l[f] = k[f]
    PROVE  /\ \A p : LastFrame(l, p, m) = LastFrame(k, p, m)
           /\ Snapshot(l, d, m) = Snapshot(k, d, m)
<1>1. ASSUME NEW p PROVE LastFrame(l, p, m) = LastFrame(k, p, m)
    <2>1. {f \in 1 .. m : l[f].page = p} = {f \in 1 .. m : k[f].page = p}
        OBVIOUS
    <2> QED
        BY <2>1 DEF LastFrame
<1>2. ASSUME NEW p
      PROVE  (IF LastFrame(l, p, m) = 0 THEN d[p] ELSE l[LastFrame(l, p, m)].tx) =
             (IF LastFrame(k, p, m) = 0 THEN d[p] ELSE k[LastFrame(k, p, m)].tx)
    BY <1>1, LastFrameIsLast
<1> QED
    BY <1>1, <1>2 DEF Snapshot

\* A longer log has later frames; a frame that is not later is the same.
LEMMA LaterFrame ==
    ASSUME NEW l, NEW p, NEW m \in Nat, NEW n \in Nat, m <= n
    PROVE  /\ LastFrame(l, p, m) <= LastFrame(l, p, n)
           /\ LastFrame(l, p, n) <= m => LastFrame(l, p, m) = LastFrame(l, p, n)
<1> DEFINE a == LastFrame(l, p, m)
           b == LastFrame(l, p, n)
<1>1. /\ a \in 0 .. m /\ (a > 0 => l[a].page = p)
      /\ \A f \in 1 .. m : l[f].page = p => f <= a
    BY LastFrameIsLast
<1>2. /\ b \in 0 .. n /\ (b > 0 => l[b].page = p)
      /\ \A f \in 1 .. n : l[f].page = p => f <= b
    BY LastFrameIsLast
<1> HIDE DEF a, b
<1>3. a <= b
    BY <1>1, <1>2
<1>4. b <= m => b <= a
    BY <1>1, <1>2
<1> QED
    BY <1>1, <1>2, <1>3, <1>4 DEF a, b

\* A log whose frames are all copied shows the file.
LEMMA CopiedSnapshot ==
    ASSUME NEW l, NEW d \in Images, NEW m \in Nat,
           \A p \in Pages : LastFrame(l, p, m) # 0 => d[p] = l[LastFrame(l, p, m)].tx
    PROVE  Snapshot(l, d, m) = d
BY DEF Snapshot, Images

LEMMA EmptySnapshot ==
    ASSUME NEW l, NEW d \in Images
    PROVE  Snapshot(l, d, 0) = d
<1>1. \A p \in Pages : LastFrame(l, p, 0) = 0
    BY LastFrameIsLast
<1> QED
    BY <1>1, CopiedSnapshot

\* A page that is in the log may be copied.
LEMMA CopySnapshot ==
    ASSUME NEW l, NEW d \in Images, NEW m \in Nat, NEW p \in Pages, NEW v,
           LastFrame(l, p, m) # 0
    PROVE  Snapshot(l, [d EXCEPT ![p] = v], m) = Snapshot(l, d, m)
<1>1. \A q \in Pages : q # p => [d EXCEPT ![p] = v][q] = d[q]
    BY DEF Images
<1> QED
    BY <1>1 DEF Snapshot

Newest == history[Len(history)]

\* The header shows the last commit; so does the log for a recovery.
HeaderShows == shm.init => Snapshot(log, db, shm.h1.mxFrame) = Newest
LogShows == \A m \in 0 .. Len(log) : Live(m) => Snapshot(log, db, m) = Newest

\* The frames that nBackfill counts are in the file.
Backfilled ==
    /\ \A p \in Pages : LastFrame(log, p, shm.h1.mxFrame) \in 1 .. shm.nBackfill =>
                            db[p] = log[LastFrame(log, p, shm.h1.mxFrame)].tx
    /\ (\A c \in Clients : pc[c] # "resetinfo") => shm.nBackfill <= shm.h1.mxFrame

\* Who ignores the log has all of it in the file; who reads from it has its snapshot
\* before the end, and a mark that keeps it from being overwritten.
Sees(c) ==
    LET w == wal[c] IN
    /\ pc[c] = "read" \/ w.read = 0 => w.hdr.commit \in 1 .. Len(history)
    /\ w.read = 0 => db = history[w.hdr.commit]
    /\ w.read = 0 /\ pc[c] \in {"read", "restart"} /\ w.hdr = shm.h1 =>
           shm.nBackfill = w.hdr.mxFrame
    /\ pc[c] = "reset" => shm.nBackfill = shm.h1.mxFrame /\ shm.nBackfill > 0
    /\ pc[c] = "resetinfo" => shm.h1.mxFrame = 0 /\ shm.nBackfill > 0
    /\ w.read \in MarkIds =>
           shm.marks[w.read] <= w.hdr.mxFrame /\ shm.marks[w.read] <= shm.h1.mxFrame
    /\ pc[c] = "read" /\ w.read \in MarkIds =>
           /\ w.hdr.mxFrame <= shm.h1.mxFrame
           /\ Snapshot(log, db, w.hdr.mxFrame) = history[w.hdr.commit]

\* A checkpoint works on the log as it is, no further than its readers are, and the
\* log does not start over before it is done.
Copies(c) ==
    LET w == wal[c] IN
    /\ pc[c] \in {"marks", "copy"} =>
           /\ w.hdr.mxFrame <= shm.h1.mxFrame /\ shm.nBackfill < w.hdr.mxFrame
           /\ lock.restart = None /\ w.at > 0
           /\ \A p \in Pages : w.iter[p] = LastFrame(log, p, w.hdr.mxFrame)
           /\ \A d \in Clients :
                  wal[d].read \in MarkIds /\ (pc[c] = "copy" \/ wal[d].read < w.at) =>
                      w.safe <= wal[d].hdr.mxFrame
    /\ pc[c] = "copy" => \A p \in Pages :
           /\ p \in w.todo => w.iter[p] > shm.nBackfill /\ w.iter[p] <= w.safe
           /\ p \notin w.todo /\ w.iter[p] > shm.nBackfill /\ w.iter[p] <= w.safe =>
                  db[p] = log[w.iter[p]].tx

SnapInv ==
    /\ HeaderShows /\ LogShows /\ Backfilled
    /\ \A c \in Clients : Sees(c) /\ Copies(c)

\* There is one end of the log.
LEMMA OneLive ==
    ASSUME LocksInv, NEW m \in 0 .. Len(log), NEW k \in 0 .. Len(log), Live(m), Live(k)
    PROVE  m = k
<1>1. Len(history) \in Nat /\ Len(history) > 0
    BY Before DEF LocksInv, Values, Data
<1>2. ASSUME NEW i \in 0 .. Len(log), NEW j \in 0 .. Len(log), Live(i), Live(j), i < j
      PROVE  FALSE
    <2>1. j \in i + 1 .. Len(log) /\ j \in 1 .. j /\ j > 0
        BY <1>2
    <2>2. \A g \in i + 1 .. j : ValidIn(logSalt, g)
        BY <1>2 DEF Live
    <2>3. log[j].commit = Len(history) /\ log[j].commit \in {0, Len(history) + 1}
        BY <1>2, <2>1, <2>2 DEF Live, Tentative
    <2> QED
        BY <1>1, <2>3
<1>3. m < k \/ k < m \/ m = k
    OBVIOUS
<1> QED
    BY <1>2, <1>3

LEMMA OneLiveAfter ==
    ASSUME LocksInv', NEW m \in 0 .. Len(log'), NEW k \in 0 .. Len(log'), Live(m)', Live(k)'
    PROVE  m = k
<1>1. Len(history') \in Nat /\ Len(history') > 0
    BY DEF LocksInv, Values, Data
<1>2. ASSUME NEW i \in 0 .. Len(log'), NEW j \in 0 .. Len(log'), Live(i)', Live(j)', i < j
      PROVE  FALSE
    <2>1. j \in i + 1 .. Len(log') /\ j \in 1 .. j /\ j > 0
        BY <1>2
    <2>2. \A g \in i + 1 .. j : ValidIn(logSalt, g)'
        BY <1>2 DEF Live
    <2>3. log'[j].commit = Len(history') /\ log'[j].commit \in {0, Len(history') + 1}
        BY <1>2, <2>1, <2>2 DEF Live, Tentative
    <2> QED
        BY <1>1, <2>3
<1>3. m < k \/ k < m \/ m = k
    OBVIOUS
<1> QED
    BY <1>2, <1>3

\* When the header has frames, or somebody appends to it, the log ends where it says.
LEMMA HeaderIsEnd ==
    ASSUME LocksInv', LogInv', shm'.h1.mxFrame > 0 \/ \E c \in Clients : pc'[c] \in Appending,
           HeaderShows', shm'.init = TRUE
    PROVE  LogShows'
<1> SUFFICES ASSUME NEW m \in 0 .. Len(log'), Live(m)'
             PROVE  Snapshot(log', db', m) = Newest'
    BY DEF LogShows
<1>1. PICK k \in 0 .. Len(log') : Ends(k)'
    BY DEF LogInv
<1>2. k = shm'.h1.mxFrame
    BY <1>1 DEF Ends
<1>3. m = k
    BY <1>1, OneLiveAfter DEF Ends
<1> QED
    BY <1>2, <1>3 DEF HeaderShows

LEMMA HeaderIsEndBefore ==
    ASSUME LocksInv, LogInv, NEW m \in 0 .. Len(log), Live(m),
           shm.h1.mxFrame > 0 \/ \E c \in Clients : pc[c] \in Appending
    PROVE  m = shm.h1.mxFrame
<1>1. PICK k \in 0 .. Len(log) : Ends(k)
    BY DEF LogInv
<1>2. k = shm.h1.mxFrame
    BY <1>1 DEF Ends
<1>3. m = k
    BY <1>1, OneLive DEF Ends
<1> QED
    BY <1>2, <1>3

\* A connection that neither reads nor writes nor copies has nothing to see.
LEMMA SeesNothing ==
    ASSUME LocksInv', NEW c \in Clients, pc'[c] \notin {"read"} \cup InTransaction
    PROVE  Sees(c)'
<1>1. Stands(pc[c], wal[c])'
    BY DEF LocksInv
<1>2. wal'[c].read = None /\ None # 0 /\ None \notin MarkIds
    BY <1>1, WalAssumption DEF Stands, MarkIds
<1> QED
    BY <1>2 DEF Sees, InTransaction

LEMMA CopiesNothing ==
    ASSUME NEW c \in Clients, pc'[c] \notin {"marks", "copy"}
    PROVE  Copies(c)'
BY DEF Copies

\* A step that changes nothing of what snapshots depend on.
Calm(c) ==
    /\ Alone(c) /\ log' = log /\ db' = db /\ history' = history
    /\ shm'.init = shm.init /\ shm'.h1 = shm.h1 /\ shm'.nBackfill = shm.nBackfill
    /\ \A i \in MarkIds : lock.shared[i] # {} => shm'.marks[i] = shm.marks[i]
    /\ pc'[c] = "resetinfo" <=> pc[c] = "resetinfo"
    /\ \/ lock'.restart \in {lock.restart, None}
       \/ \A d \in Clients \ {c} : pc[d] \notin {"marks", "copy"}
    /\ wal'[c].read \in MarkIds =>
           \/ wal'[c].read = wal[c].read /\ wal'[c].hdr.mxFrame = wal[c].hdr.mxFrame
           \/ shm.h1.mxFrame <= wal'[c].hdr.mxFrame

LEMMA CalmOthers ==
    ASSUME LocksInv, LocksInv', SnapInv, NEW c \in Clients, Calm(c), NEW d \in Clients \ {c}
    PROVE  Sees(d)' /\ Copies(d)'
<1>1. /\ pc'[d] = pc[d] /\ wal'[d] = wal[d]
      /\ log' = log /\ db' = db /\ history' = history
      /\ shm'.init = shm.init /\ shm'.h1 = shm.h1 /\ shm'.nBackfill = shm.nBackfill
    BY DEF Calm, Alone
<1>2. Sees(d) /\ Copies(d)
    BY DEF SnapInv
<1>3. wal[d].read \in MarkIds => shm'.marks[wal[d].read] = shm.marks[wal[d].read]
    <2>1. wal[d].read \in MarkIds => d \in lock.shared[wal[d].read]
        BY Before DEF Holds, MarkIds, ReadLocks
    <2> QED
        BY <2>1 DEF Calm
<1>4. Sees(d)'
    BY <1>1, <1>2, <1>3 DEF Sees
<1>5. Copies(d)'
    <2> SUFFICES ASSUME pc[d] \in {"marks", "copy"} PROVE Copies(d)'
        BY <1>1, CopiesNothing
    <2>1. lock'.restart = None
        BY <1>2 DEF Calm, Copies
    <2>2. ASSUME NEW e \in Clients, wal'[e].read \in MarkIds,
                 pc[d] = "copy" \/ wal'[e].read < wal[d].at
          PROVE  wal[d].safe <= wal'[e].hdr.mxFrame
        <3>1. wal[e].read \in MarkIds /\ (pc[d] = "copy" \/ wal[e].read < wal[d].at) =>
                  wal[d].safe <= wal[e].hdr.mxFrame
            BY <1>2 DEF Copies
        <3>2. CASE wal'[e].read = wal[e].read /\ wal'[e].hdr.mxFrame = wal[e].hdr.mxFrame
            BY <2>2, <3>1, <3>2
        <3>3. CASE e = c /\ shm.h1.mxFrame <= wal'[e].hdr.mxFrame
            <4>1. wal[d].safe <= wal[d].hdr.mxFrame /\ wal[d].hdr.mxFrame <= shm.h1.mxFrame
                BY <1>2, Before DEF Within, Copies
            <4>2. wal[d].safe \in Nat /\ wal[d].hdr.mxFrame \in Nat /\ shm.h1.mxFrame \in Nat
                BY Before, WalAssumption DEF Wals, Headers
            <4>3. wal'[e].hdr.mxFrame \in Nat
                BY DEF LocksInv, Values, Wals, Headers
            <4> QED
                BY <3>3, <4>1, <4>2, <4>3
        <3> QED
            BY <2>2, <3>2, <3>3 DEF Calm, Alone
    <2> QED
        BY <1>1, <1>2, <2>1, <2>2 DEF Copies
<1> QED
    BY <1>4, <1>5

LEMMA CalmStep ==
    ASSUME LocksInv, LocksInv', SnapInv, NEW c \in Clients, Calm(c), logSalt' = logSalt,
           Sees(c)', Copies(c)'
    PROVE  SnapInv'
<1>1. /\ \A d \in Clients \ {c} : pc'[d] = pc[d]
      /\ log' = log /\ db' = db /\ history' = history
      /\ shm'.init = shm.init /\ shm'.h1 = shm.h1 /\ shm'.nBackfill = shm.nBackfill
      /\ pc'[c] = "resetinfo" <=> pc[c] = "resetinfo"
    BY DEF Calm, Alone
<1>2. HeaderShows'
    BY <1>1 DEF SnapInv, HeaderShows, Newest
<1>3. LogShows'
    BY <1>1 DEF SnapInv, LogShows, Live, Tentative, ValidIn, Newest
<1>4. Backfilled'
    BY <1>1 DEF SnapInv, Backfilled
<1>5. \A d \in Clients : Sees(d)' /\ Copies(d)'
    BY CalmOthers
<1> QED
    BY <1>2, <1>3, <1>4, <1>5 DEF SnapInv

LEMMA ReadHdrSnap ==
    ASSUME LocksInv, LocksInv', SnapInv, NEW c \in Clients, ReadHdr(c)
    PROVE  SnapInv'
<1> USE DEF InTransaction, Appending
<1>1. /\ pc[c] \in {"idle", "ckpt"} /\ Alone(c)
      /\ pc'[c] \in {"begin", "scan", "fix", "ckfix"}
      /\ UNCHANGED <<log, logSalt, db, shm, history>>
    BY OthersStay, OneMoves DEF ReadHdr
<1>2. lock'.restart = lock.restart
    <2>1. lock' = lock \/ lock' = [lock EXCEPT !.write = c]
        BY DEF ReadHdr
    <2> QED
        BY <2>1, Before DEF Locks
<1>3. Sees(c)' /\ Copies(c)'
    BY <1>1, SeesNothing, CopiesNothing
<1>4. wal'[c].read \notin MarkIds
    <2>1. Stands(pc[c], wal[c])'
        BY DEF LocksInv
    <2> QED
        BY <1>1, <2>1, WalAssumption DEF Stands, MarkIds
<1>5. Calm(c)
    BY <1>1, <1>2, <1>4 DEF Calm
<1> QED
    BY <1>1, <1>3, <1>5, CalmStep

\* Whoever ends is calm: it reads no more, and its locks are gone.
LEMMA EndingSnap ==
    ASSUME LocksInv, LocksInv', SnapInv, NEW c \in Clients, Alone(c),
           pc[c] # "resetinfo", pc'[c] \in {"idle", "pick", "begin", "ckpt", "lock"},
           UNCHANGED <<log, logSalt, db, history>>,
           shm'.init = shm.init, shm'.h1 = shm.h1, shm'.nBackfill = shm.nBackfill,
           \A i \in MarkIds : lock.shared[i] # {} => shm'.marks[i] = shm.marks[i],
           lock'.restart \in {lock.restart, None}
    PROVE  SnapInv'
<1>1. Sees(c)' /\ Copies(c)'
    BY SeesNothing, CopiesNothing DEF InTransaction, Appending
<1>2. wal'[c].read \notin MarkIds
    <2>1. Stands(pc[c], wal[c])'
        BY DEF LocksInv
    <2> QED
        BY <2>1, WalAssumption DEF Stands, MarkIds, InTransaction, Appending
<1>3. Calm(c)
    BY <1>2 DEF Calm
<1> QED
    BY <1>1, <1>3, CalmStep

\* Who finds the log in the database, or begins with the header as it is, sees the last
\* commit.
LEMMA TryBeginSnap ==
    ASSUME LocksInv, LocksInv', LogInv, SnapInv, NEW c \in Clients, TryBegin(c)
    PROVE  SnapInv'
<1>1. /\ pc[c] = "begin" /\ Alone(c) /\ shm.init = TRUE
      /\ log' = log /\ logSalt' = logSalt /\ db' = db /\ shm' = shm /\ history' = history
    BY OthersStay, HeaderSeen DEF TryBegin, Early
<1>2. CASE shm.nBackfill = wal[c].hdr.mxFrame /\ lock.backfill = None /\ shm.h1 = wal[c].hdr
    <2>1. /\ pc'[c] = "read" /\ wal'[c] = [wal[c] EXCEPT !.read = 0]
          /\ lock' = [lock EXCEPT !.shared[0] = lock.shared[0] \cup {c}]
        BY <1>2, OneMoves DEF TryBegin
    <2>2. lock'.restart = lock.restart /\ wal'[c].read = 0 /\ wal'[c].hdr = wal[c].hdr
        BY <2>1, Before DEF Wals, Locks
    <2>3. 0 \notin MarkIds
        BY DEF MarkIds
    <2>4. Calm(c)
        BY <1>1, <2>1, <2>2, <2>3 DEF Calm
    <2>5. db = history[Len(history)]
        <3>1. ASSUME NEW p \in Pages, LastFrame(log, p, shm.h1.mxFrame) # 0
              PROVE  db[p] = log[LastFrame(log, p, shm.h1.mxFrame)].tx
            <4>1. shm.h1.mxFrame \in Nat
                BY Before DEF Headers
            <4>2. LastFrame(log, p, shm.h1.mxFrame) \in 1 .. shm.nBackfill
                BY <1>2, <3>1, <4>1, LastFrameIsLast
            <4> QED
                BY <4>2 DEF SnapInv, Backfilled
        <3>2. shm.h1.mxFrame \in Nat /\ db \in Images
            BY Before DEF Headers, Data
        <3>3. Snapshot(log, db, shm.h1.mxFrame) = db
            BY <3>1, <3>2, CopiedSnapshot
        <3> QED
            BY <1>1, <3>3 DEF SnapInv, HeaderShows, Newest
    <2>6. wal[c].hdr.commit = Len(history) /\ Len(history) \in 1 .. Len(history)
        <3>1. Len(history) \in Nat /\ Len(history) > 0
            BY Before DEF Data
        <3> QED
            BY <1>1, <1>2, <3>1 DEF LogInv, Counted
    <2>7. Sees(c)'
        BY <1>1, <1>2, <2>1, <2>2, <2>3, <2>5, <2>6 DEF Sees
    <2>8. Copies(c)'
        BY <2>1, CopiesNothing
    <2> QED
        BY <1>1, <2>4, <2>7, <2>8, CalmStep
<1>3. CASE ~(shm.nBackfill = wal[c].hdr.mxFrame /\ lock.backfill = None /\ shm.h1 = wal[c].hdr)
    <2>1. pc'[c] \in {"idle", "pick"} /\ lock' = lock
        BY <1>3, OneMoves DEF TryBegin
    <2> QED
        BY <1>1, <2>1, EndingSnap
<1> QED
    BY <1>2, <1>3

LEMMA PickMarkSnap ==
    ASSUME LocksInv, LocksInv', SnapInv, NEW c \in Clients, PickMark(c)
    PROVE  SnapInv'
<1>1. /\ pc[c] = "pick" /\ Alone(c) /\ lock' = lock
      /\ UNCHANGED <<log, logSalt, db, history>>
    BY OthersStay DEF PickMark
<1>2. pc'[c] \in {"lock", "pick", "idle"}
    <2>1. Goto(c, "lock") \/ Goto(c, "pick") \/ Goto(c, "idle")
        BY DEF PickMark, Retry
    <2> QED
        BY <2>1, OneMoves
<1>3. /\ shm'.init = shm.init /\ shm'.h1 = shm.h1 /\ shm'.nBackfill = shm.nBackfill
      /\ \A i \in MarkIds : lock.shared[i] # {} => shm'.marks[i] = shm.marks[i]
    <2> DEFINE free == {i \in MarkIds : Free(i)}
    <2>1. \/ shm' = shm
          \/ free # {} /\ shm' = [shm EXCEPT !.marks[Min(free)] = wal[c].hdr.mxFrame]
        BY DEF PickMark
    <2>2. free # {} => Min(free) \in MarkIds /\ lock.shared[Min(free)] = {}
        <3>1. free \in SUBSET Nat
            BY DEF MarkIds
        <3>2. free # {} => Min(free) \in free
            BY <3>1, LeastExists
        <3> QED
            BY <3>2 DEF Free
    <2>3. shm \in Indexes
        BY Before
    <2>4. PICK k : k = Min(free)
        OBVIOUS
    <2> HIDE DEF free
    <2> QED
        BY <2>1, <2>2, <2>3, <2>4 DEF Indexes
<1> QED
    BY <1>1, <1>2, <1>3, EndingSnap

\* The newest snapshot, for whoever begins or goes back to reading.
LEMMA HeaderIsSeen ==
    ASSUME LocksInv, LogInv, SnapInv, shm.init = TRUE
    PROVE  /\ shm.h1.commit = Len(history) /\ Len(history) \in 1 .. Len(history)
           /\ Snapshot(log, db, shm.h1.mxFrame) = history[shm.h1.commit]
           /\ shm.h1.mxFrame \in Nat
<1>1. Len(history) \in Nat /\ Len(history) > 0 /\ shm.h1 \in Headers
    BY DEF LocksInv, Values, Data, Index, Indexes
<1> QED
    BY <1>1 DEF LogInv, Counted, SnapInv, HeaderShows, Newest, Headers

LEMMA LockMarkSnap ==
    ASSUME LocksInv, LocksInv', LogInv, SnapInv, NEW c \in Clients, LockMark(c)
    PROVE  SnapInv'
<1> DEFINE i == wal[c].at
           ok == lock.restart = None /\ shm.marks[i] = wal[c].mark /\ shm.h1 = wal[c].hdr
<1>1. /\ pc[c] = "lock" /\ Alone(c) /\ shm.init = TRUE
      /\ log' = log /\ logSalt' = logSalt /\ db' = db /\ shm' = shm /\ history' = history
    BY OthersStay, HeaderSeen DEF LockMark, Early
<1>2. CASE ok
    <2>1. /\ pc'[c] \in {"write", "read"} /\ wal'[c] = [wal[c] EXCEPT !.read = i]
          /\ lock' = [lock EXCEPT !.shared[i] = lock.shared[i] \cup {c}]
        <3>1. /\ Goto(c, "write") \/ Goto(c, "read")
              /\ Fields(c, [wal[c] EXCEPT !.read = i])
              /\ lock' = [lock EXCEPT !.shared[i] = lock.shared[i] \cup {c}]
            BY <1>2 DEF LockMark
        <3> QED
            BY <3>1, OneMoves
    <2>2. lock'.restart = lock.restart /\ wal'[c].read = i /\ wal'[c].hdr = wal[c].hdr
        BY <2>1, Before DEF Wals, Locks
    <2>3. i \in MarkIds /\ i # 0 /\ wal[c].mark <= wal[c].hdr.mxFrame
        BY <1>1, Before DEF Stands, MarkIds
    <2>4. /\ wal[c].hdr.commit = Len(history) /\ Len(history) \in 1 .. Len(history)
          /\ Snapshot(log, db, wal[c].hdr.mxFrame) = history[wal[c].hdr.commit]
          /\ shm.h1.mxFrame \in Nat
        BY <1>1, <1>2, HeaderIsSeen
    <2>5. Calm(c)
        BY <1>1, <1>2, <2>1, <2>2, <2>4 DEF Calm
    <2>6. Sees(c)'
        BY <1>1, <1>2, <2>1, <2>2, <2>3, <2>4 DEF Sees
    <2>7. Copies(c)'
        BY <2>1, CopiesNothing
    <2> QED
        BY <1>1, <2>5, <2>6, <2>7, CalmStep
<1>3. CASE ~ok
    <2>1. Retry(c) /\ lock' = lock
        BY <1>3 DEF LockMark
    <2>2. pc'[c] \in {"pick", "idle"}
        BY <2>1, OneMoves DEF Retry
    <2> QED
        BY <1>1, <2>1, <2>2, EndingSnap
<1> QED
    BY <1>2, <1>3

LEMMA EndReadSnap ==
    ASSUME LocksInv, LocksInv', SnapInv, NEW c \in Clients, EndRead(c)
    PROVE  SnapInv'
<1>1. /\ pc[c] = "read" /\ pc'[c] = "idle" /\ Alone(c)
      /\ log' = log /\ logSalt' = logSalt /\ db' = db /\ shm' = shm /\ history' = history
    BY OthersStay, OneMoves DEF EndRead
<1>2. lock'.restart = lock.restart
    BY Before DEF EndRead, Locks
<1> QED
    BY <1>1, <1>2, EndingSnap

LEMMA BeginWriteSnap ==
    ASSUME LocksInv, LocksInv', SnapInv, NEW c \in Clients, BeginWrite(c)
    PROVE  SnapInv'
<1>1. /\ pc[c] = "read" /\ wal[c].hdr = shm.h1 /\ Alone(c)
      /\ log' = log /\ logSalt' = logSalt /\ db' = db /\ shm' = shm /\ history' = history
    BY OthersStay DEF BeginWrite
<1>2. /\ pc'[c] = IF wal[c].read = 0 THEN "restart" ELSE "write"
      /\ wal'[c] = [wal[c] EXCEPT !.tx = count.tx + 1]
      /\ lock' = [lock EXCEPT !.write = c]
    BY OneMoves DEF BeginWrite
<1>3. lock'.restart = lock.restart /\ wal'[c].read = wal[c].read /\ wal'[c].hdr = wal[c].hdr
    BY <1>2, Before DEF Wals, Locks
<1>4. Calm(c)
    BY <1>1, <1>2, <1>3 DEF Calm
<1>5. Sees(c)
    BY DEF SnapInv
<1>6. Sees(c)'
    BY <1>1, <1>2, <1>3, <1>5 DEF Sees
<1>7. Copies(c)'
    BY <1>2, CopiesNothing
<1> QED
    BY <1>1, <1>4, <1>6, <1>7, CalmStep

\* The log starts over only when all of it is in the database: then no checkpoint is at
\* work, for it would have something to copy.
LEMMA RestartLogSnap ==
    ASSUME LocksInv, LocksInv', LogInv, SnapInv, NEW c \in Clients, RestartLog(c)
    PROVE  SnapInv'
<1>1. /\ pc[c] = "restart" /\ Alone(c) /\ wal[c].tx > 0
      /\ log' = log /\ logSalt' = logSalt /\ db' = db /\ history' = history
    BY OthersStay, WriterLocks DEF RestartLog, InTransaction
<1>2. CASE shm.nBackfill > 0 /\ \A i \in MarkIds : Free(i)
    <2> DEFINE hdr == Hdr(0, count.salt + 1, wal[c].hdr.commit)
    <2>1. /\ pc'[c] = "reset" /\ wal'[c] = [wal[c] EXCEPT !.hdr = hdr]
          /\ shm' = [shm EXCEPT !.h2 = hdr]
        BY <1>2, OneMoves DEF RestartLog
    <2>2. hdr.commit = wal[c].hdr.commit
        BY DEF Hdr
    <2> HIDE DEF hdr
    <2>3. /\ wal'[c].hdr.commit = wal[c].hdr.commit /\ wal'[c].read = wal[c].read
          /\ shm'.init = shm.init /\ shm'.h1 = shm.h1 /\ shm'.nBackfill = shm.nBackfill
          /\ shm'.marks = shm.marks
        BY <2>1, <2>2, Before DEF Wals, Indexes
    <2>4. wal[c].hdr = shm.h1
        BY <1>1 DEF LogInv, Writes, Current
    <2>5. wal[c].read = 0 /\ 0 \notin MarkIds
        BY <1>1, Before DEF Stands, MarkIds
    <2>6. Sees(c)
        BY DEF SnapInv
    <2>7. shm.nBackfill = shm.h1.mxFrame /\ shm.h1.mxFrame \in Nat
        BY <1>1, <2>4, <2>5, <2>6, Before DEF Sees, Headers
    <2>8. \A d \in Clients \ {c} : pc[d] \notin {"marks", "copy"}
        <3> SUFFICES ASSUME NEW d \in Clients \ {c}, pc[d] \in {"marks", "copy"} PROVE FALSE
            OBVIOUS
        <3>1. wal[d].hdr.mxFrame <= shm.h1.mxFrame /\ shm.nBackfill < wal[d].hdr.mxFrame
            BY DEF SnapInv, Copies
        <3>2. wal[d].hdr.mxFrame \in Nat
            BY Before DEF Headers
        <3> QED
            BY <2>7, <3>1, <3>2
    <2>9. Calm(c)
        BY <1>1, <2>1, <2>3, <2>5, <2>8 DEF Calm
    <2>10. Sees(c)'
        BY <1>1, <1>2, <2>1, <2>3, <2>5, <2>6, <2>7 DEF Sees
    <2>11. Copies(c)'
        BY <2>1, CopiesNothing
    <2> QED
        BY <1>1, <2>9, <2>10, <2>11, CalmStep
<1>3. CASE ~(shm.nBackfill > 0 /\ \A i \in MarkIds : Free(i))
    <2>1. LeaveMarkZero(c, wal[c]) /\ shm' = shm
        BY <1>3 DEF RestartLog
    <2>2. /\ pc'[c] = "pick"
          /\ lock' = [lock EXCEPT !.shared[0] = lock.shared[0] \ {c}, !.restart = None]
        BY <2>1, OneMoves DEF LeaveMarkZero
    <2>3. lock'.restart = None
        BY <2>2, Before DEF Locks
    <2> QED
        BY <1>1, <2>1, <2>2, <2>3, EndingSnap
<1> QED
    BY <1>2, <1>3

LEMMA WriteLogHeaderSnap ==
    ASSUME LocksInv, LocksInv', LogInv, LogInv', SnapInv, NEW c \in Clients, WriteLogHeader(c)
    PROVE  SnapInv'
<1> USE DEF Appending, InTransaction
<1>1. /\ pc[c] = "write" /\ wal[c].hdr.mxFrame = 0 /\ Alone(c) /\ pc'[c] = "frames"
      /\ log' = log /\ db' = db /\ shm' = shm /\ history' = history /\ lock' = lock
      /\ shm.init = TRUE
    BY OthersStay, OneMoves, HeaderSeen DEF WriteLogHeader, Early
<1>2. wal'[c].read = wal[c].read /\ wal'[c].hdr.mxFrame = 0
    <2>1. PICK pages : Fields(c, [wal[c] EXCEPT !.todo = pages, !.hdr.salt = logSalt'])
        BY DEF WriteLogHeader
    <2> DEFINE ls == logSalt'
    <2> HIDE DEF ls
    <2>2. wal'[c] = [wal[c] EXCEPT !.todo = pages, !.hdr.salt = ls]
        BY <2>1, OneMoves DEF ls
    <2>3. wal'[c].hdr = [wal[c].hdr EXCEPT !.salt = ls] /\ wal'[c].read = wal[c].read
        BY <2>2, Before DEF Wals
    <2>4. wal'[c].hdr.mxFrame = 0
        BY <1>1, <2>3, Before DEF Headers
    <2> QED
        BY <2>3, <2>4
<1>3. Calm(c)
    BY <1>1, <1>2 DEF Calm
<1>4. wal[c].read \in MarkIds /\ wal[c].read # 0
    BY <1>1, Before DEF Stands, MarkIds
<1>5. Sees(c)
    BY DEF SnapInv
<1>6. Sees(c)'
    BY <1>1, <1>2, <1>4, <1>5 DEF Sees
<1>7. Copies(c)'
    BY <1>1, CopiesNothing
<1>8. HeaderShows'
    BY <1>1 DEF SnapInv, HeaderShows, Newest
<1>9. LogShows'
    BY <1>1, <1>8, HeaderIsEnd
<1>10. Backfilled'
    BY <1>1 DEF SnapInv, Backfilled, Alone
<1> QED
    BY <1>3, <1>6, <1>7, <1>8, <1>9, <1>10, CalmOthers DEF SnapInv

LEMMA StartFramesSnap ==
    ASSUME LocksInv, LocksInv', SnapInv, NEW c \in Clients, StartFrames(c)
    PROVE  SnapInv'
<1>1. /\ pc[c] = "write" /\ Alone(c) /\ pc'[c] = "frames" /\ lock' = lock
      /\ log' = log /\ logSalt' = logSalt /\ db' = db /\ shm' = shm /\ history' = history
    BY OthersStay, OneMoves DEF StartFrames
<1>2. wal'[c].read = wal[c].read /\ wal'[c].hdr = wal[c].hdr
    <2>1. PICK pages : Fields(c, [wal[c] EXCEPT !.todo = pages])
        BY DEF StartFrames
    <2>2. wal'[c] = [wal[c] EXCEPT !.todo = pages]
        BY <2>1, OneMoves
    <2> QED
        BY <2>2, Before DEF Wals
<1>3. Calm(c)
    BY <1>1, <1>2 DEF Calm
<1>4. Sees(c)
    BY DEF SnapInv
<1>5. wal[c].read \in MarkIds /\ wal[c].read # 0
    BY <1>1, Before DEF Stands, MarkIds
<1>6. Sees(c)'
    BY <1>1, <1>2, <1>4, <1>5 DEF Sees
<1>7. Copies(c)'
    BY <1>1, CopiesNothing
<1> QED
    BY <1>1, <1>3, <1>6, <1>7, CalmStep

LEMMA PublishSecondSnap ==
    ASSUME LocksInv, LocksInv', SnapInv, NEW c \in Clients, PublishSecond(c)
    PROVE  SnapInv'
<1>1. /\ pc[c] = "publish" /\ Alone(c) /\ pc'[c] = "published" /\ lock' = lock /\ wal' = wal
      /\ log' = log /\ logSalt' = logSalt /\ db' = db /\ history' = history
    BY OthersStay, OneMoves DEF PublishSecond
<1>2. /\ shm'.init = shm.init /\ shm'.h1 = shm.h1 /\ shm'.nBackfill = shm.nBackfill
      /\ shm'.marks = shm.marks
    BY Before DEF PublishSecond, Indexes
<1>3. Calm(c)
    BY <1>1, <1>2 DEF Calm
<1>4. Sees(c)
    BY DEF SnapInv
<1>5. Sees(c)'
    BY <1>1, <1>2, <1>4 DEF Sees
<1>6. Copies(c)'
    BY <1>1, CopiesNothing
<1> QED
    BY <1>1, <1>3, <1>5, <1>6, CalmStep

\* Who undoes its transaction reads on in the newest snapshot.
LEMMA UndoSnap ==
    ASSUME LocksInv, LocksInv', LogInv, SnapInv, NEW c \in Clients, Undo(c)
    PROVE  SnapInv'
<1>1. /\ pc[c] \in {"write", "frames"} /\ Alone(c) /\ pc'[c] = "read" /\ shm.init = TRUE
      /\ log' = log /\ logSalt' = logSalt /\ db' = db /\ shm' = shm /\ history' = history
    BY OthersStay, OneMoves, HeaderSeen DEF Undo, Early
<1>2. /\ wal'[c] = [wal[c] EXCEPT !.hdr = shm.h1, !.todo = {}, !.tx = 0]
      /\ lock' = [lock EXCEPT !.write = None]
    BY OneMoves DEF Undo
<1>3. wal'[c].read = wal[c].read /\ wal'[c].hdr = shm.h1 /\ lock'.restart = lock.restart
    BY <1>2, Before DEF Wals, Locks
<1>4. /\ shm.h1.commit = Len(history) /\ Len(history) \in 1 .. Len(history)
      /\ Snapshot(log, db, shm.h1.mxFrame) = history[shm.h1.commit]
      /\ shm.h1.mxFrame \in Nat
    BY <1>1, HeaderIsSeen
<1>5. Calm(c)
    BY <1>1, <1>3, <1>4 DEF Calm
<1>6. Sees(c)
    BY DEF SnapInv
<1>7. wal[c].read \in MarkIds /\ wal[c].read # 0
    BY <1>1, Before DEF Stands, MarkIds, Appending
<1>8. Sees(c)'
    BY <1>1, <1>3, <1>4, <1>6, <1>7 DEF Sees
<1>9. Copies(c)'
    BY <1>1, CopiesNothing
<1> QED
    BY <1>1, <1>5, <1>8, <1>9, CalmStep

LEMMA BeginCheckpointSnap ==
    ASSUME LocksInv, LocksInv', SnapInv, NEW c \in Clients, BeginCheckpoint(c)
    PROVE  SnapInv'
<1>1. /\ pc[c] = "idle" /\ pc'[c] = "ckpt" /\ Alone(c)
      /\ log' = log /\ logSalt' = logSalt /\ db' = db /\ shm' = shm /\ history' = history
    BY OthersStay, OneMoves DEF BeginCheckpoint
<1>2. lock'.restart = lock.restart
    BY Before DEF BeginCheckpoint, Locks
<1> QED
    BY <1>1, <1>2, EndingSnap

LEMMA EndedCheckpoint ==
    ASSUME LocksInv, NEW c \in Clients, EndCheckpoint(c, lock)
    PROVE  pc'[c] = "idle" /\ lock'.restart = lock.restart
<1>1. lock' = [lock EXCEPT !.ckpt = None] /\ Goto(c, "idle")
    BY DEF EndCheckpoint
<1> QED
    BY <1>1, OneMoves, Before DEF Locks

\* A checkpoint that finds something to copy, in the header as it is, finds it in a log
\* that does not start over.
LEMMA ScanSnap ==
    ASSUME ~StaleCheckpoints, LocksInv, LocksInv', SaltInv, SnapInv, NEW c \in Clients, Scan(c)
    PROVE  SnapInv'
<1>1. /\ pc[c] = "scan" /\ Alone(c)
      /\ log' = log /\ logSalt' = logSalt /\ db' = db /\ shm' = shm /\ history' = history
    BY OthersStay DEF Scan
<1>2. CASE shm.nBackfill >= wal[c].hdr.mxFrame
    <2>1. EndCheckpoint(c, lock)
        BY <1>2 DEF Scan
    <2>2. pc'[c] = "idle" /\ lock'.restart = lock.restart
        BY <2>1, EndedCheckpoint
    <2> QED
        BY <1>1, <2>2, EndingSnap
<1>3. CASE ~(shm.nBackfill >= wal[c].hdr.mxFrame)
    <2> DEFINE mx == wal[c].hdr.mxFrame
               iter == [p \in Pages |-> Frame(p, mx)]
    <2>1. /\ wal[c].hdr.salt = shm.h1.salt /\ pc'[c] = "marks" /\ lock' = lock
          /\ wal'[c] = [wal[c] EXCEPT !.safe = mx, !.at = 1, !.iter = iter]
        BY <1>3, OneMoves DEF Scan
    <2>2. \A p \in Pages : iter[p] = LastFrame(log, p, mx)
        BY ImageIsSnapshot
    <2> HIDE DEF iter, mx
    <2>3. wal'[c].read = wal[c].read /\ wal'[c].hdr = wal[c].hdr /\ wal'[c].at = 1
          /\ wal'[c].iter = iter
        BY <2>1, Before DEF Wals
    <2>4. mx \in Nat /\ shm.nBackfill \in Nat /\ shm.h1.mxFrame \in Nat
        BY Before, WalAssumption DEF mx, Headers, Indexes
    <2>5. mx <= shm.h1.mxFrame /\ shm.nBackfill < mx
        BY <1>1, <1>3, <2>1, <2>4 DEF SaltInv, Salted, mx
    <2>6. lock.restart = None
        <3> SUFFICES ASSUME NEW d \in Clients, lock.restart = d PROVE FALSE
            BY Before DEF Locks
        <3>1. pc[d] \in {"reset", "resetinfo"}
            BY Before DEF Holds
        <3>2. Sees(d)
            BY DEF SnapInv
        <3> QED
            BY <2>4, <2>5, <3>1, <3>2 DEF Sees
    <2>7. \A d \in Clients : wal'[d].read \in MarkIds => ~(wal'[d].read < 1)
        BY DEF MarkIds
    <2>8. Calm(c)
        BY <1>1, <2>1, <2>3 DEF Calm
    <2>9. Copies(c)'
        BY <1>1, <2>1, <2>2, <2>3, <2>5, <2>6, <2>7 DEF Copies, mx
    <2>10. Sees(c)'
        BY <2>1, SeesNothing DEF InTransaction, Appending
    <2> QED
        BY <1>1, <2>8, <2>9, <2>10, CalmStep
<1> QED
    BY <1>2, <1>3

\* A mark in use stops the checkpoint at its snapshot.
LEMMA CheckMarkSnap ==
    ASSUME LocksInv, LocksInv', SnapInv, NEW c \in Clients, CheckMark(c)
    PROVE  SnapInv'
<1>1. PICK i : i = wal[c].at
    OBVIOUS
<1>2. PICK m : m = shm.marks[i]
    OBVIOUS
<1>3. /\ pc[c] = "marks" /\ i \in MarkIds /\ wal[c].safe \in Nat /\ m \in Nat
      /\ wal'[c].hdr = wal[c].hdr /\ wal'[c].read = wal[c].read /\ wal'[c].iter = wal[c].iter
      /\ wal'[c].at = i + 1
      /\ wal'[c].safe = IF wal[c].safe > m /\ ~Free(i) THEN m ELSE wal[c].safe
      /\ shm'.init = shm.init /\ shm'.h1 = shm.h1 /\ shm'.nBackfill = shm.nBackfill
      /\ \A j \in MarkIds : j # i => shm'.marks[j] = shm.marks[j]
      /\ ~Free(i) => shm'.marks[i] = m
      /\ log' = log /\ logSalt' = logSalt /\ db' = db /\ lock' = lock /\ pc' = pc
      /\ history' = history
    BY <1>1, <1>2, MarkChecked
<1>4. Alone(c)
    BY OthersStay
<1>5. \A j \in MarkIds : lock.shared[j] # {} => shm'.marks[j] = shm.marks[j]
    BY <1>2, <1>3 DEF Free
<1>6. Calm(c)
    BY <1>3, <1>4, <1>5 DEF Calm
<1>7. Sees(c)'
    BY <1>3, SeesNothing DEF InTransaction, Appending
<1>8. i \in Nat /\ i > 0
    BY <1>3 DEF MarkIds
<1>9. Copies(c)
    BY DEF SnapInv
<1>10. ASSUME NEW d \in Clients, wal'[d].read \in MarkIds, wal'[d].read < i + 1
       PROVE  wal'[c].safe <= wal'[d].hdr.mxFrame
    <2>1. wal'[d].read = wal[d].read /\ wal'[d].hdr = wal[d].hdr
        BY <1>3, <1>4 DEF Alone
    <2>2. wal[d].hdr.mxFrame \in Nat /\ wal[d].read \in Nat
        BY <1>10, <2>1, Before DEF Headers, MarkIds
    <2>3. CASE wal[d].read < i
        <3>1. wal[c].safe <= wal[d].hdr.mxFrame
            BY <1>1, <1>3, <1>9, <1>10, <2>1, <2>3 DEF Copies
        <3> QED
            BY <1>3, <2>1, <2>2, <3>1
    <2>4. CASE wal[d].read = i
        <3>1. d \in lock.shared[i]
            BY <1>10, <2>1, <2>4, Before DEF Holds, MarkIds, ReadLocks
        <3>2. ~Free(i)
            BY <3>1 DEF Free
        <3>3. Sees(d)
            BY DEF SnapInv
        <3>4. m <= wal[d].hdr.mxFrame
            BY <1>2, <1>3, <2>4, <3>3 DEF Sees
        <3> QED
            BY <1>3, <2>1, <2>2, <3>2, <3>4
    <2> QED
        BY <1>8, <1>10, <2>1, <2>2, <2>3, <2>4
<1>11. Copies(c)'
    <2>1. i + 1 > 0
        BY <1>8
    <2> QED
        BY <1>3, <1>9, <1>10, <2>1 DEF Copies
<1> QED
    BY <1>3, <1>6, <1>7, <1>11, CalmStep

\* The marks are all looked at before a page is copied.
LEMMA LockBackfillSnap ==
    ASSUME LocksInv, LocksInv', SnapInv, NEW c \in Clients, LockBackfill(c)
    PROVE  SnapInv'
<1>1. /\ pc[c] = "marks" /\ wal[c].at \notin MarkIds /\ Alone(c)
      /\ log' = log /\ logSalt' = logSalt /\ db' = db /\ shm' = shm /\ history' = history
    BY OthersStay DEF LockBackfill
<1>2. CASE ~(shm.nBackfill < wal[c].safe /\ Free(0))
    <2>1. EndCheckpoint(c, lock)
        BY <1>2 DEF LockBackfill
    <2>2. pc'[c] = "idle" /\ lock'.restart = lock.restart
        BY <2>1, EndedCheckpoint
    <2> QED
        BY <1>1, <2>2, EndingSnap
<1>3. CASE shm.nBackfill < wal[c].safe /\ Free(0)
    <2> DEFINE todo == {p \in Pages : wal[c].iter[p] > shm.nBackfill
                                      /\ wal[c].iter[p] <= wal[c].safe}
    <2>1. /\ pc'[c] = "copy" /\ lock' = [lock EXCEPT !.backfill = c]
          /\ wal'[c] = [wal[c] EXCEPT !.todo = todo]
        BY <1>3, OneMoves DEF LockBackfill
    <2>2. \A p \in Pages : p \in todo <=> wal[c].iter[p] > shm.nBackfill
                                          /\ wal[c].iter[p] <= wal[c].safe
        OBVIOUS
    <2> HIDE DEF todo
    <2>3. /\ wal'[c].read = wal[c].read /\ wal'[c].hdr = wal[c].hdr /\ wal'[c].at = wal[c].at
          /\ wal'[c].iter = wal[c].iter /\ wal'[c].safe = wal[c].safe /\ wal'[c].todo = todo
          /\ lock'.restart = lock.restart
        BY <2>1, Before DEF Wals, Locks
    <2>4. Calm(c)
        BY <1>1, <2>1, <2>3 DEF Calm
    <2>5. Sees(c)'
        BY <2>1, SeesNothing DEF InTransaction, Appending
    <2>6. Copies(c)
        BY DEF SnapInv
    <2>7. \A i \in MarkIds : i < wal[c].at
        <3>1. wal[c].at \in Nat /\ wal[c].at > 0
            BY <1>1, <2>6, Before DEF Wals, Copies
        <3> QED
            BY <1>1, <3>1, WalAssumption DEF MarkIds
    <2>8. ASSUME NEW d \in Clients, wal'[d].read \in MarkIds
          PROVE  wal'[c].safe <= wal'[d].hdr.mxFrame
        <3>1. wal'[d].read = wal[d].read /\ wal'[d].hdr = wal[d].hdr
            BY <1>1, <2>3 DEF Alone
        <3> QED
            BY <1>1, <2>3, <2>6, <2>7, <2>8, <3>1 DEF Copies
    <2>9. Copies(c)'
        BY <1>1, <2>1, <2>2, <2>3, <2>6, <2>8 DEF Copies
    <2> QED
        BY <1>1, <2>4, <2>5, <2>9, CalmStep
<1> QED
    BY <1>2, <1>3

\* While pages are copied nobody ignores the log, and there is one checkpoint.
LEMMA Copying ==
    ASSUME LocksInv, SnapInv, NEW c \in Clients, pc[c] = "copy"
    PROVE  /\ \A d \in Clients : wal[d].read # 0
                                 /\ pc[d] \notin {"restart", "reset", "resetinfo"}
           /\ \A d \in Clients \ {c} : pc[d] \notin {"marks", "copy"}
           /\ wal[c].hdr.mxFrame \in Nat /\ wal[c].safe \in Nat /\ shm.nBackfill \in Nat
           /\ shm.h1.mxFrame \in Nat /\ wal[c].safe <= wal[c].hdr.mxFrame
           /\ wal[c].hdr.mxFrame <= shm.h1.mxFrame /\ shm.nBackfill < wal[c].hdr.mxFrame
           /\ \A p \in Pages : wal[c].iter[p] = LastFrame(log, p, wal[c].hdr.mxFrame)
<1>1. lock.backfill = c /\ lock.ckpt = c /\ None \notin Clients
    BY Before DEF Holds, InCheckpoint
<1>2. lock.shared[0] = {}
    BY <1>1, Before DEF Apart
<1>3. 0 \in ReadLocks
    BY WalAssumption DEF ReadLocks
<1>4. \A d \in Clients : wal[d].read # 0
    BY <1>2, <1>3, Before DEF Holds
<1>5. \A d \in Clients : pc[d] \notin {"restart", "reset", "resetinfo"}
    BY <1>4, Before DEF Stands
<1>6. \A d \in Clients \ {c} : pc[d] \notin {"marks", "copy"}
    BY <1>1, Before DEF Holds, InCheckpoint
<1>7. /\ wal[c].hdr.mxFrame \in Nat /\ wal[c].safe \in Nat /\ shm.nBackfill \in Nat
      /\ shm.h1.mxFrame \in Nat
    BY Before, WalAssumption DEF Headers, Wals, Indexes
<1>8. wal[c].safe <= wal[c].hdr.mxFrame
    BY Before DEF Within
<1>9. Copies(c)
    BY DEF SnapInv
<1> QED
    BY <1>4, <1>5, <1>6, <1>7, <1>8, <1>9 DEF Copies

\* A page is copied from a frame that everybody who reads sees, or has overwritten.
LEMMA CopyPageSnap ==
    ASSUME LocksInv, LocksInv', LogInv, SnapInv, NEW c \in Clients, NEW q \in Pages, CopyPage(c, q)
    PROVE  SnapInv'
<1>1. /\ pc[c] = "copy" /\ Alone(c) /\ pc' = pc /\ q \in wal[c].todo
      /\ db' = [db EXCEPT ![q] = log[wal[c].iter[q]].tx]
      /\ log' = log /\ logSalt' = logSalt /\ shm' = shm /\ history' = history /\ lock' = lock
    BY OthersStay DEF CopyPage
<1>2. wal'[c] = [wal[c] EXCEPT !.todo = wal[c].todo \ {q}]
    <2>1. Fields(c, [wal[c] EXCEPT !.todo = wal[c].todo \ {q}])
        BY DEF CopyPage
    <2> QED
        BY <2>1, OneMoves, Zenon
<1>3. /\ wal'[c].read = wal[c].read /\ wal'[c].hdr = wal[c].hdr /\ wal'[c].at = wal[c].at
      /\ wal'[c].iter = wal[c].iter /\ wal'[c].safe = wal[c].safe
      /\ wal'[c].todo = wal[c].todo \ {q}
    BY <1>2, Before DEF Wals
<1>4. PICK f : f = wal[c].iter[q]
    OBVIOUS
<1>5. PICK v : v = log[f].tx
    OBVIOUS
<1>6. db' = [db EXCEPT ![q] = v] /\ db'[q] = v /\ (\A p \in Pages : p # q => db'[p] = db[p])
      /\ db \in Images
    <2>1. db \in Images
        BY Before DEF Data
    <2> QED
        BY <1>1, <1>4, <1>5, <2>1 DEF Images
<1>7. /\ \A d \in Clients : wal[d].read # 0
      /\ wal[c].hdr.mxFrame \in Nat /\ wal[c].safe \in Nat /\ shm.nBackfill \in Nat
      /\ shm.h1.mxFrame \in Nat /\ wal[c].safe <= wal[c].hdr.mxFrame
      /\ wal[c].hdr.mxFrame <= shm.h1.mxFrame
      /\ f = LastFrame(log, q, wal[c].hdr.mxFrame)
    BY <1>1, <1>4, Copying
<1>8. Copies(c)
    BY DEF SnapInv
<1>9. f \in Nat /\ f > shm.nBackfill /\ f > 0 /\ f <= wal[c].safe /\ log[f].page = q
    <2>1. f > shm.nBackfill /\ f <= wal[c].safe
        BY <1>1, <1>4, <1>8 DEF Copies
    <2>2. f \in 0 .. wal[c].hdr.mxFrame /\ (f > 0 => log[f].page = q)
        BY <1>7, LastFrameIsLast
    <2> QED
        BY <1>7, <2>1, <2>2
<1>10. ASSUME NEW m \in Nat, wal[c].safe <= m
       PROVE  /\ LastFrame(log, q, m) >= f /\ LastFrame(log, q, m) \in Nat
              /\ Snapshot(log, db', m) = Snapshot(log, db, m)
    <2>1. f \in 1 .. m
        BY <1>7, <1>9, <1>10
    <2>2. LastFrame(log, q, m) >= f /\ LastFrame(log, q, m) \in 0 .. m
        BY <1>9, <2>1, LastFrameIsLast
    <2>3. LastFrame(log, q, m) # 0
        BY <1>9, <2>2
    <2>4. Snapshot(log, [db EXCEPT ![q] = v], m) = Snapshot(log, db, m)
        BY <1>6, <2>3, CopySnapshot
    <2>5. Snapshot(log, db', m) = Snapshot(log, db, m)
        BY <1>6, <2>4
    <2> QED
        BY <2>2, <2>5
<1>11. wal[c].safe <= shm.h1.mxFrame /\ shm.h1.mxFrame > 0
    BY <1>7, <1>9
<1>12. HeaderShows'
    BY <1>1, <1>7, <1>10, <1>11 DEF SnapInv, HeaderShows, Newest
<1>13. LogShows'
    <2> SUFFICES ASSUME NEW m \in 0 .. Len(log), Live(m)
                 PROVE  Snapshot(log, db', m) = Newest
        BY <1>1 DEF LogShows, Live, Tentative, ValidIn, Newest
    <2>1. m = shm.h1.mxFrame
        BY <1>11, HeaderIsEndBefore
    <2> QED
        BY <1>7, <1>10, <1>11, <2>1 DEF SnapInv, LogShows
<1>14. Backfilled'
    <2>1. ~(LastFrame(log, q, shm.h1.mxFrame) \in 1 .. shm.nBackfill)
        BY <1>7, <1>9, <1>10, <1>11
    <2> QED
        BY <1>1, <1>6, <2>1 DEF SnapInv, Backfilled
<1>15. ASSUME NEW d \in Clients PROVE Sees(d)'
    <2>1. wal'[d].read = wal[d].read /\ wal'[d].hdr = wal[d].hdr
        BY <1>1, <1>3 DEF Alone
    <2>2. Sees(d) /\ wal[d].read # 0
        BY <1>7 DEF SnapInv
    <2>3. pc[d] = "read" /\ wal[d].read \in MarkIds =>
              Snapshot(log, db', wal[d].hdr.mxFrame) = Snapshot(log, db, wal[d].hdr.mxFrame)
        BY <1>1, <1>8, <1>10, Before DEF Copies, Headers
    <2> QED
        BY <1>1, <2>1, <2>2, <2>3 DEF Sees
<1>16. Copies(c)'
    <2>1. ASSUME NEW d \in Clients, wal'[d].read \in MarkIds
          PROVE  wal'[c].safe <= wal'[d].hdr.mxFrame
        <3>1. wal'[d].read = wal[d].read /\ wal'[d].hdr = wal[d].hdr
            BY <1>1, <1>3 DEF Alone
        <3> QED
            BY <1>1, <1>3, <1>8, <2>1, <3>1 DEF Copies
    <2>2. ASSUME NEW p \in Pages
          PROVE  /\ p \in wal'[c].todo => wal[c].iter[p] > shm.nBackfill /\ wal[c].iter[p] <= wal[c].safe
                 /\ p \notin wal'[c].todo /\ wal[c].iter[p] > shm.nBackfill
                    /\ wal[c].iter[p] <= wal[c].safe => db'[p] = log[wal[c].iter[p]].tx
        <3>1. CASE p = q
            BY <1>3, <1>4, <1>5, <1>6, <3>1
        <3>2. CASE p # q
            BY <1>1, <1>3, <1>6, <1>8, <3>2 DEF Copies
        <3> QED
            BY <3>1, <3>2
    <2> QED
        BY <1>1, <1>3, <1>8, <2>1, <2>2 DEF Copies
<1>17. \A d \in Clients \ {c} : Copies(d)'
    BY <1>1, Copying, CopiesNothing
<1> QED
    BY <1>12, <1>13, <1>14, <1>15, <1>16, <1>17 DEF SnapInv

\* What a checkpoint has copied is what it counts.
LEMMA EndBackfillSnap ==
    ASSUME LocksInv, LocksInv', SnapInv, NEW c \in Clients, EndBackfill(c)
    PROVE  SnapInv'
<1>1. /\ pc[c] = "copy" /\ wal[c].todo = {} /\ Alone(c) /\ pc'[c] = "idle"
      /\ log' = log /\ logSalt' = logSalt /\ db' = db /\ history' = history
      /\ shm' = [shm EXCEPT !.nBackfill = wal[c].safe]
    BY OthersStay, OneMoves DEF EndBackfill, EndCheckpoint
<1>2. shm'.init = shm.init /\ shm'.h1 = shm.h1 /\ shm'.nBackfill = wal[c].safe
      /\ shm'.marks = shm.marks
    BY <1>1, Before DEF Indexes
<1>3. /\ \A d \in Clients : wal[d].read # 0 /\ pc[d] \notin {"restart", "reset", "resetinfo"}
      /\ \A d \in Clients \ {c} : pc[d] \notin {"marks", "copy"}
      /\ wal[c].hdr.mxFrame \in Nat /\ wal[c].safe \in Nat /\ shm.nBackfill \in Nat
      /\ shm.h1.mxFrame \in Nat /\ wal[c].safe <= wal[c].hdr.mxFrame
      /\ wal[c].hdr.mxFrame <= shm.h1.mxFrame
      /\ \A p \in Pages : wal[c].iter[p] = LastFrame(log, p, wal[c].hdr.mxFrame)
    BY <1>1, Copying
<1>4. Copies(c)
    BY DEF SnapInv
<1>5. HeaderShows' /\ LogShows'
    BY <1>1, <1>2 DEF SnapInv, HeaderShows, LogShows, Live, Tentative, ValidIn, Newest
<1>6. ASSUME NEW p \in Pages, LastFrame(log, p, shm.h1.mxFrame) \in 1 .. wal[c].safe
      PROVE  db[p] = log[LastFrame(log, p, shm.h1.mxFrame)].tx
    <2>1. PICK f : f = LastFrame(log, p, shm.h1.mxFrame)
        OBVIOUS
    <2>2. f \in Nat /\ f > 0 /\ f <= wal[c].safe
        BY <1>3, <1>6, <2>1
    <2>3. f = wal[c].iter[p]
        <3>1. f <= wal[c].hdr.mxFrame
            BY <1>3, <2>2
        <3> QED
            BY <1>3, <2>1, <3>1, LaterFrame
    <2>4. CASE f > shm.nBackfill
        BY <1>1, <1>4, <2>1, <2>2, <2>3, <2>4 DEF Copies
    <2>5. CASE ~(f > shm.nBackfill)
        <3>1. f \in 1 .. shm.nBackfill
            BY <1>3, <2>2, <2>5
        <3> QED
            BY <2>1, <3>1 DEF SnapInv, Backfilled
    <2> QED
        BY <2>4, <2>5
<1>7. Backfilled'
    <2>1. wal[c].safe <= shm.h1.mxFrame
        BY <1>3
    <2> QED
        BY <1>1, <1>2, <1>6, <2>1 DEF Backfilled
<1>8. Sees(c)' /\ Copies(c)'
    BY <1>1, SeesNothing, CopiesNothing DEF InTransaction, Appending
<1>9. ASSUME NEW d \in Clients \ {c} PROVE Sees(d)' /\ Copies(d)'
    <2>1. pc'[d] = pc[d] /\ wal'[d] = wal[d]
        BY <1>1 DEF Alone
    <2>2. Copies(d)'
        BY <1>3, <2>1, CopiesNothing
    <2>3. Sees(d)
        BY DEF SnapInv
    <2>4. Sees(d)'
        BY <1>1, <1>2, <1>3, <2>1, <2>3 DEF Sees
    <2> QED
        BY <2>2, <2>4
<1> QED
    BY <1>5, <1>7, <1>8, <1>9 DEF SnapInv

\* While the log starts over nobody reads from it, and nobody copies it.
LEMMA Restarting ==
    ASSUME LocksInv, SnapInv, NEW c \in Clients, pc[c] \in {"reset", "resetinfo"}
    PROVE  /\ lock.write = c /\ wal[c].tx > 0 /\ wal[c].read = 0 /\ 0 \notin MarkIds
           /\ \A d \in Clients : pc[d] \notin {"marks", "copy"} /\ wal[d].read \notin MarkIds
           /\ \A d \in Clients \ {c} : pc[d] \notin InTransaction
<1>1. lock.write = c /\ wal[c].tx > 0 /\ lock.restart = c /\ wal[c].read = 0 /\ None \notin Clients
    BY WriterLocks, Before DEF InTransaction, Holds, Stands
<1>2. \A i \in MarkIds : lock.shared[i] = {}
    BY <1>1, Before DEF Apart
<1>3. ASSUME NEW d \in Clients
      PROVE  pc[d] \notin {"marks", "copy"} /\ wal[d].read \notin MarkIds
    <2>1. wal[d].read \in MarkIds => d \in lock.shared[wal[d].read]
        BY Before DEF Holds, MarkIds, ReadLocks
    <2>2. Copies(d)
        BY DEF SnapInv
    <2> QED
        BY <1>1, <1>2, <2>1, <2>2 DEF Copies
<1>4. \A d \in Clients \ {c} : pc[d] \notin InTransaction
    BY <1>1, OneWriter
<1> QED
    BY <1>1, <1>3, <1>4 DEF MarkIds

\* The log starts over from what is in the database.
LEMMA ResetHeaderSnap ==
    ASSUME LocksInv, LocksInv', LogInv, SaltInv, SnapInv, NEW c \in Clients, ResetHeader(c)
    PROVE  SnapInv'
<1>1. /\ pc[c] = "reset" /\ pc'[c] = "resetinfo" /\ Alone(c) /\ wal' = wal /\ lock' = lock
      /\ log' = log /\ logSalt' = logSalt /\ db' = db /\ history' = history
      /\ shm.init = TRUE
    BY OthersStay, OneMoves, HeaderSeen DEF ResetHeader, Early
<1>2. shm'.init = shm.init /\ shm'.h1 = wal[c].hdr /\ shm'.nBackfill = shm.nBackfill
      /\ shm'.marks = shm.marks
    BY Before DEF ResetHeader, Indexes
<1>3. /\ wal[c].tx > 0 /\ wal[c].read = 0 /\ 0 \notin MarkIds
      /\ \A d \in Clients : pc[d] \notin {"marks", "copy"} /\ wal[d].read \notin MarkIds
      /\ \A d \in Clients \ {c} : pc[d] \notin InTransaction
    BY <1>1, Restarting
<1>4. wal[c].hdr.mxFrame = 0 /\ wal[c].hdr.commit = shm.h1.commit
    BY <1>1, <1>3 DEF LogInv, Writes
<1>5. Sees(c)
    BY DEF SnapInv
<1>6. db = Newest
    BY <1>1, <1>3, <1>4, <1>5, HeaderIsSeen DEF Sees, Newest
<1>7. HeaderShows'
    <2>1. Snapshot(log, db, 0) = db
        BY EmptySnapshot, Before DEF Data
    <2> QED
        BY <1>1, <1>2, <1>4, <1>6, <2>1 DEF HeaderShows, Newest
<1>8. LogShows'
    BY <1>1 DEF SnapInv, LogShows, Live, Tentative, ValidIn, Newest
<1>9. Backfilled'
    <2>1. \A p \in Pages : LastFrame(log, p, 0) = 0
        BY LastFrameIsLast
    <2>2. ~(0 \in 1 .. shm.nBackfill)
        OBVIOUS
    <2> QED
        BY <1>1, <1>2, <1>4, <2>1, <2>2 DEF Backfilled
<1>10. Sees(c)'
    BY <1>1, <1>2, <1>3, <1>4, <1>5 DEF Sees
<1>11. ASSUME NEW d \in Clients \ {c} PROVE Sees(d)'
    <2>1. pc'[d] = pc[d] /\ wal'[d] = wal[d] /\ Sees(d)
        BY <1>1 DEF Alone, SnapInv
    <2>2. pc[d] \notin InTransaction /\ wal[d].read \notin MarkIds
        BY <1>3
    <2>3. wal[d].hdr # wal[c].hdr
        BY <1>1 DEF SaltInv, Salted, OwnSalt
    <2> QED
        BY <1>1, <1>2, <2>1, <2>2, <2>3 DEF Sees, InTransaction
<1>12. \A d \in Clients : Copies(d)'
    BY <1>1, <1>3, CopiesNothing DEF Alone
<1> QED
    BY <1>7, <1>8, <1>9, <1>10, <1>11, <1>12 DEF SnapInv

LEMMA ResetInfoSnap ==
    ASSUME LocksInv, LocksInv', SnapInv, NEW c \in Clients, ResetInfo(c)
    PROVE  SnapInv'
<1>1. /\ pc[c] = "resetinfo" /\ pc'[c] = "pick" /\ Alone(c)
      /\ log' = log /\ logSalt' = logSalt /\ db' = db /\ history' = history
    BY OthersStay, OneMoves DEF ResetInfo, LeaveMarkZero
<1>2. shm'.init = shm.init /\ shm'.h1 = shm.h1 /\ shm'.nBackfill = 0
    BY Before DEF ResetInfo, Indexes
<1>3. /\ \A d \in Clients : pc[d] \notin {"marks", "copy"} /\ wal[d].read \notin MarkIds
      /\ \A d \in Clients \ {c} : pc[d] \notin InTransaction
    BY <1>1, Restarting
<1>4. shm.h1.mxFrame = 0 /\ shm.nBackfill > 0
    BY <1>1 DEF SnapInv, Sees
<1>5. HeaderShows' /\ LogShows'
    <2>1. HeaderShows'
        BY <1>1, <1>2 DEF SnapInv, HeaderShows, Newest
    <2>2. LogShows'
        BY <1>1 DEF SnapInv, LogShows, Live, Tentative, ValidIn, Newest
    <2> QED
        BY <2>1, <2>2
<1>6. Backfilled'
    <2>1. \A f : ~(f \in 1 .. 0)
        OBVIOUS
    <2> QED
        BY <1>1, <1>2, <1>4, <2>1 DEF Backfilled
<1>7. Sees(c)'
    BY <1>1, SeesNothing DEF InTransaction, Appending
<1>8. ASSUME NEW d \in Clients \ {c} PROVE Sees(d)'
    <2>1. pc'[d] = pc[d] /\ wal'[d] = wal[d] /\ Sees(d)
        BY <1>1 DEF Alone, SnapInv
    <2>2. pc[d] \notin InTransaction /\ wal[d].read \notin MarkIds
        BY <1>3
    <2> QED
        BY <1>1, <1>2, <1>4, <2>1, <2>2 DEF Sees, InTransaction
<1>9. \A d \in Clients : Copies(d)'
    BY <1>1, <1>3, CopiesNothing DEF Alone
<1> QED
    BY <1>5, <1>6, <1>7, <1>8, <1>9 DEF SnapInv

\* A frame is written after all that anybody sees.
LEMMA WriteFrameSnap ==
    ASSUME LocksInv, LocksInv', LogInv, LogInv', SnapInv,
           NEW c \in Clients, NEW p \in Pages, WriteFrame(c, p)
    PROVE  SnapInv'
<1> USE DEF Appending, InTransaction
<1>1. PICK f : f = wal[c].hdr.mxFrame + 1
    OBVIOUS
<1>2. /\ pc[c] = "frames" /\ wal'[c].read = wal[c].read /\ wal'[c].hdr.mxFrame = f
      /\ \A g \in 1 .. Len(log) : g # f => log'[g] = log[g]
      /\ logSalt' = logSalt /\ db' = db /\ shm' = shm /\ lock' = lock /\ history' = history
    BY <1>1, FrameWritten
<1>3. Alone(c) /\ pc'[c] \in {"frames", "publish"} /\ shm.init = TRUE
    BY <1>2, OthersStay, OneMoves, HeaderSeen DEF WriteFrame, Early
<1>4. /\ shm.h1.mxFrame \in Nat /\ wal[c].hdr.mxFrame \in Nat /\ shm.h1.mxFrame <= Len(log)
      /\ Len(log) \in Nat
    BY Before DEF Headers, Index
<1>5. shm.h1.mxFrame <= wal[c].hdr.mxFrame
    BY <1>2, WriterLocks DEF LogInv, Writes
<1>6. shm.h1.mxFrame < f /\ \A g \in 1 .. shm.h1.mxFrame : log'[g] = log[g]
    BY <1>1, <1>2, <1>4, <1>5
<1>7. ASSUME NEW m \in Nat, m <= shm.h1.mxFrame
      PROVE  /\ \A q : LastFrame(log', q, m) = LastFrame(log, q, m)
             /\ Snapshot(log', db, m) = Snapshot(log, db, m)
    <2>1. \A g \in 1 .. m : log'[g] = log[g]
        BY <1>4, <1>6, <1>7
    <2> QED
        BY <2>1, SameSnapshot
<1>8. HeaderShows'
    BY <1>2, <1>4, <1>7 DEF SnapInv, HeaderShows, Newest
<1>9. LogShows'
    BY <1>2, <1>3, <1>8, HeaderIsEnd
<1>10. Backfilled'
    <2>1. ASSUME NEW q \in Pages, LastFrame(log', q, shm.h1.mxFrame) \in 1 .. shm.nBackfill
          PROVE  db[q] = log'[LastFrame(log', q, shm.h1.mxFrame)].tx
        <3>1. PICK k : k = LastFrame(log, q, shm.h1.mxFrame)
            OBVIOUS
        <3>2. k = LastFrame(log', q, shm.h1.mxFrame)
            BY <1>4, <1>7, <3>1
        <3>3. k \in 0 .. shm.h1.mxFrame
            BY <1>4, <3>1, LastFrameIsLast
        <3>4. k \in 1 .. shm.h1.mxFrame
            BY <2>1, <3>2, <3>3
        <3>5. db[q] = log[k].tx
            BY <2>1, <3>1, <3>2 DEF SnapInv, Backfilled
        <3> QED
            BY <1>6, <3>2, <3>4, <3>5
    <2>2. (\A d \in Clients : pc'[d] # "resetinfo") => \A d \in Clients : pc[d] # "resetinfo"
        BY <1>2, <1>3 DEF Alone
    <2> QED
        BY <1>2, <2>1, <2>2 DEF SnapInv, Backfilled
<1>11. wal[c].read \in MarkIds /\ wal[c].read # 0
    BY <1>2, Before DEF Stands, MarkIds
<1>12. Sees(c)'
    <2>1. Sees(c) /\ shm.marks[wal[c].read] \in Nat
        BY <1>11, Before, WalAssumption DEF SnapInv, Indexes, NotUsed
    <2>2. shm.marks[wal[c].read] <= wal'[c].hdr.mxFrame
        BY <1>1, <1>2, <1>4, <1>11, <2>1 DEF Sees
    <2> QED
        BY <1>2, <1>3, <1>11, <2>1, <2>2 DEF Sees
<1>13. ASSUME NEW d \in Clients \ {c} PROVE Sees(d)'
    <2>1. pc'[d] = pc[d] /\ wal'[d] = wal[d] /\ Sees(d) /\ wal[d].hdr.mxFrame \in Nat
        BY <1>3, Before DEF Alone, SnapInv, Headers
    <2>2. pc[d] = "read" /\ wal[d].read \in MarkIds =>
              Snapshot(log', db, wal[d].hdr.mxFrame) = Snapshot(log, db, wal[d].hdr.mxFrame)
        BY <1>7, <2>1 DEF Sees
    <2> QED
        BY <1>2, <2>1, <2>2 DEF Sees
<1>14. ASSUME NEW d \in Clients, pc'[d] \in {"marks", "copy"} PROVE Copies(d)'
    <2>1. d # c /\ pc'[d] = pc[d] /\ wal'[d] = wal[d] /\ Copies(d)
        BY <1>3, <1>14 DEF Alone, SnapInv
    <2>2. wal[d].hdr.mxFrame \in Nat /\ wal[d].hdr.mxFrame <= shm.h1.mxFrame
          /\ wal[d].safe \in Nat /\ shm.nBackfill \in Nat
        <3>1. wal[d].hdr.mxFrame \in Nat /\ wal[d].safe \in Nat /\ shm.nBackfill \in Nat
            <4>1. wal[d] \in Wals /\ wal[d].hdr \in Headers /\ shm \in Indexes
                BY <2>1, Before
            <4>2. wal[d].hdr.mxFrame \in Nat
                BY <4>1 DEF Headers
            <4>3. wal[d].safe \in 0 .. MaxFrames
                BY <4>1 DEF Wals
            <4>4. shm.nBackfill \in 0 .. MaxFrames
                BY <4>1 DEF Indexes
            <4> QED
                BY <4>2, <4>3, <4>4, WalAssumption
        <3>2. wal[d].hdr.mxFrame <= shm.h1.mxFrame
            BY <1>14, <2>1 DEF Copies
        <3> QED
            BY <3>1, <3>2
    <2>3. ASSUME NEW q \in Pages
          PROVE  /\ wal[d].iter[q] = LastFrame(log', q, wal[d].hdr.mxFrame)
                 /\ wal[d].iter[q] > shm.nBackfill => log'[wal[d].iter[q]] = log[wal[d].iter[q]]
        <3>1. PICK k : k = wal[d].iter[q]
            OBVIOUS
        <3>2. k = LastFrame(log, q, wal[d].hdr.mxFrame)
            BY <1>14, <2>1, <3>1 DEF Copies
        <3>3. k = LastFrame(log', q, wal[d].hdr.mxFrame)
            BY <1>7, <2>2, <3>2
        <3>4. k \in 0 .. wal[d].hdr.mxFrame
            BY <2>2, <3>2, LastFrameIsLast
        <3>5. k > shm.nBackfill => k \in 1 .. shm.h1.mxFrame
            BY <1>4, <2>2, <3>4
        <3> QED
            BY <1>6, <3>1, <3>3, <3>5
    <2>4. ASSUME NEW e \in Clients, wal'[e].read \in MarkIds,
                 pc[d] = "copy" \/ wal'[e].read < wal[d].at
          PROVE  wal[d].safe <= wal'[e].hdr.mxFrame
        <3>1. wal'[e].read = wal[e].read
            BY <1>2, <1>3 DEF Alone
        <3>2. wal[d].safe <= wal[e].hdr.mxFrame
            BY <1>14, <2>1, <2>4, <3>1 DEF Copies
        <3>3. e # c => wal'[e] = wal[e]
            BY <1>3 DEF Alone
        <3> QED
            BY <1>1, <1>2, <1>4, <2>2, <3>2, <3>3
    <2> QED
        BY <1>2, <1>14, <2>1, <2>3, <2>4 DEF Copies
<1>15. \A d \in Clients : Copies(d)'
    BY <1>14, CopiesNothing
<1> QED
    BY <1>8, <1>9, <1>10, <1>12, <1>13, <1>15 DEF SnapInv

\* A commit adds one image, that of its frames; all others stay.
LEMMA PublishFirstSnap ==
    ASSUME LocksInv, LocksInv', LogInv, LogInv', SnapInv, NEW c \in Clients, PublishFirst(c)
    PROVE  SnapInv'
<1> USE DEF Appending, InTransaction
<1>1. PICK hdr : hdr = wal[c].hdr
    OBVIOUS
<1>2. PICK image : image = Snapshot(log, db, hdr.mxFrame)
    OBVIOUS
<1>3. /\ pc[c] = "published" /\ pc'[c] = "read" /\ Alone(c) /\ shm.init = TRUE
      /\ log' = log /\ logSalt' = logSalt /\ db' = db /\ history' = Append(history, Reads(c))
      /\ lock.write = c /\ wal[c].tx > 0
    BY OthersStay, OneMoves, HeaderSeen, WriterLocks DEF PublishFirst, Early
<1>4. /\ shm'.init = TRUE /\ shm'.h1 = hdr /\ shm'.nBackfill = shm.nBackfill
      /\ shm'.marks = shm.marks /\ lock'.restart = lock.restart
    BY <1>1, <1>3, Before DEF PublishFirst, Indexes, Locks
<1>5. wal'[c].hdr = hdr /\ wal'[c].read = wal[c].read
    <2>1. wal'[c] = [wal[c] EXCEPT !.tx = 0]
        BY OneMoves DEF PublishFirst
    <2> QED
        BY <1>1, <2>1, Before DEF Wals
<1>6. wal[c].read \in MarkIds /\ wal[c].read # 0
    BY <1>3, Before DEF Stands, MarkIds
<1>7. Reads(c) = image
    BY <1>1, <1>2, <1>6, ImageIsSnapshot DEF Reads
<1>8. Len(history) \in Nat /\ history \in Seq(Images)
    BY Before DEF Data
<1>9. /\ Len(history') = Len(history) + 1 /\ history'[Len(history) + 1] = image
      /\ \A k \in 1 .. Len(history) : history'[k] = history[k]
    BY <1>3, <1>7, <1>8
<1>10. /\ hdr.commit = Len(history) + 1 /\ hdr.mxFrame > shm.h1.mxFrame
       /\ hdr.mxFrame \in Nat /\ shm.h1.mxFrame \in Nat /\ shm.nBackfill \in Nat
    <2>1. hdr.commit = shm.h1.commit + 1 /\ hdr.mxFrame > shm.h1.mxFrame
        BY <1>1, <1>3 DEF LogInv, Writes
    <2>2. shm.h1.commit = Len(history)
        BY <1>3 DEF LogInv, Counted
    <2>3. hdr.mxFrame \in Nat /\ shm.h1.mxFrame \in Nat /\ shm.nBackfill \in Nat
        BY <1>1, Before, WalAssumption DEF Headers, Indexes
    <2> QED
        BY <2>1, <2>2, <2>3
<1>11. \A d \in Clients \ {c} : pc[d] \notin InTransaction
    BY <1>3, OneWriter
<1>12. shm.nBackfill <= shm.h1.mxFrame
    BY <1>3, <1>11 DEF SnapInv, Backfilled
<1>13. HeaderShows'
    BY <1>2, <1>3, <1>4, <1>9 DEF HeaderShows, Newest
<1>14. LogShows'
    <2>1. shm'.h1.mxFrame > 0
        BY <1>4, <1>10
    <2> QED
        BY <1>4, <1>13, <2>1, HeaderIsEnd
<1>15. Backfilled'
    <2>1. ASSUME NEW p \in Pages, LastFrame(log, p, hdr.mxFrame) \in 1 .. shm.nBackfill
          PROVE  db[p] = log[LastFrame(log, p, hdr.mxFrame)].tx
        <3>1. PICK k : k = LastFrame(log, p, hdr.mxFrame)
            OBVIOUS
        <3>2. k <= shm.h1.mxFrame
            BY <1>10, <1>12, <2>1, <3>1
        <3>3. k = LastFrame(log, p, shm.h1.mxFrame)
            BY <1>10, <3>1, <3>2, LaterFrame
        <3> QED
            BY <2>1, <3>1, <3>3 DEF SnapInv, Backfilled
    <2>2. shm.nBackfill <= hdr.mxFrame
        BY <1>10, <1>12
    <2> QED
        BY <1>3, <1>4, <2>1, <2>2 DEF Backfilled
<1>16. Sees(c)'
    <2>1. Sees(c) /\ hdr.mxFrame <= hdr.mxFrame
        BY <1>10 DEF SnapInv
    <2>2. hdr.commit \in 1 .. Len(history')
        BY <1>8, <1>9, <1>10
    <2>3. Snapshot(log, db, hdr.mxFrame) = history'[hdr.commit]
        BY <1>2, <1>9, <1>10
    <2> QED
        BY <1>1, <1>3, <1>4, <1>5, <1>6, <2>1, <2>2, <2>3 DEF Sees
<1>17. ASSUME NEW d \in Clients \ {c} PROVE Sees(d)'
    <2>1. pc'[d] = pc[d] /\ wal'[d] = wal[d] /\ Sees(d) /\ wal[d].hdr.mxFrame \in Nat
        BY <1>3, Before DEF Alone, SnapInv, Headers
    <2>2. wal[d].hdr.commit \in 1 .. Len(history) =>
              /\ wal[d].hdr.commit \in 1 .. Len(history') /\ wal[d].hdr # hdr
              /\ history'[wal[d].hdr.commit] = history[wal[d].hdr.commit]
        BY <1>8, <1>9, <1>10
    <2>3. wal[d].read \in MarkIds =>
              /\ shm.marks[wal[d].read] <= hdr.mxFrame
              /\ pc[d] = "read" => wal[d].hdr.mxFrame <= hdr.mxFrame
        <3>1. wal[d].read \in MarkIds => shm.marks[wal[d].read] \in Nat
            BY Before, WalAssumption DEF Indexes, NotUsed
        <3> QED
            BY <1>10, <2>1, <3>1 DEF Sees
    <2>4. pc[d] \notin InTransaction
        BY <1>11
    <2> QED
        BY <1>3, <1>4, <2>1, <2>2, <2>3, <2>4 DEF Sees
<1>18. ASSUME NEW d \in Clients, pc'[d] \in {"marks", "copy"} PROVE Copies(d)'
    <2>1. d # c /\ pc'[d] = pc[d] /\ wal'[d] = wal[d] /\ Copies(d)
        BY <1>3, <1>18 DEF Alone, SnapInv
    <2>2. wal[d].hdr.mxFrame <= hdr.mxFrame
        BY <1>10, <1>18, <2>1, Before DEF Copies, Headers
    <2>3. \A e \in Clients : wal'[e].read = wal[e].read /\ wal'[e].hdr = wal[e].hdr
        BY <1>1, <1>3, <1>5 DEF Alone
    <2> QED
        BY <1>3, <1>4, <1>18, <2>1, <2>2, <2>3 DEF Copies
<1>19. \A d \in Clients : Copies(d)'
    BY <1>18, CopiesNothing
<1> QED
    BY <1>13, <1>14, <1>15, <1>16, <1>17, <1>19 DEF SnapInv

\* A recovery, which nobody reads through, finds the last commit or makes one of what a
\* writer had not made known.
LEMMA RecoverSnap ==
    ASSUME LocksInv, LocksInv', LogInv, SnapInv, NEW c \in Clients, Recover(c)
    PROVE  SnapInv'
<1>1. /\ pc[c] \in {"fix", "ckfix"} /\ pc'[c] \in {"idle", "ckpt"} /\ Alone(c)
      /\ log' = log /\ logSalt' = logSalt /\ db' = db /\ wal' = wal
      /\ lock' = [lock EXCEPT !.write = None]
    <2>1. /\ pc[c] \in {"fix", "ckfix"}
          /\ pc' = [pc EXCEPT ![c] = IF pc[c] = "fix" THEN "idle" ELSE "ckpt"]
          /\ lock' = [lock EXCEPT !.write = None]
          /\ log' = log /\ logSalt' = logSalt /\ db' = db /\ wal' = wal
        BY RecoverEffect
    <2>2. pc \in [Clients -> Steps]
        BY DEF LocksInv, Values
    <2>3. pc'[c] \in {"idle", "ckpt"}
        BY <2>1, <2>2
    <2> QED
        BY <2>1, <2>3, OthersStay
<1>2. CASE ~Recovering(c)
    <2>1. shm' = shm /\ history' = history
        BY <1>2, RecoverEffect
    <2>2. lock'.restart = lock.restart
        BY <1>1, Before DEF Locks
    <2> QED
        BY <1>1, <2>1, <2>2, EndingSnap
<1>3. CASE Recovering(c)
    <2>1. PICK m : m = Found
        OBVIOUS
    <2>2. PICK hdr : hdr = FoundHdr
        OBVIOUS
    <2>3. /\ shm'.init = TRUE /\ shm'.h1 = hdr /\ shm'.nBackfill = 0
          /\ history' = IF hdr.commit > Len(history) THEN Append(history, Image(m)) ELSE history
        BY <1>3, <2>1, <2>2, RecoverEffect
    <2>4. hdr.mxFrame = m /\ m \in 0 .. Len(log) /\ m \in Nat
        <3>1. FoundHdr.mxFrame = Found /\ Found \in 0 .. Len(log)
            BY FoundValues
        <3> HIDE DEF Found, FoundHdr
        <3> QED
            BY <2>1, <2>2, <3>1
    <2>5. /\ hdr.commit \in {Len(history), Len(history) + 1}
          /\ m > 0 => log[m].commit = hdr.commit
          /\ \A f \in 1 .. m : ValidIn(logSalt, f)
          /\ \A g \in m + 1 .. Len(log) :
                 (\A h \in m + 1 .. g : ValidIn(logSalt, h)) => log[g].commit = 0
        <3> HIDE DEF Found, FoundHdr
        <3> QED
            BY <2>1, <2>2, FoundIsNewest
    <2>6. Len(history) \in Nat /\ Len(history) > 0 /\ history \in Seq(Images)
        BY Before DEF Data
    <2>7. Len(history') = hdr.commit
        BY <2>3, <2>5, <2>6
    <2>8. Live(m)'
        <3>1. Tentative(logSalt, m)'
            BY <1>1, <2>5 DEF Tentative, ValidIn
        <3> QED
            BY <1>1, <2>5, <2>7, <3>1 DEF Live, ValidIn
    <2>9. Snapshot(log, db, m) = history'[Len(history')]
        <3>1. CASE hdr.commit > Len(history)
            <4>1. history' = Append(history, Image(m)) /\ Image(m) = Snapshot(log, db, m)
                BY <2>3, <3>1, ImageIsSnapshot
            <4> QED
                BY <2>6, <4>1
        <3>2. CASE ~(hdr.commit > Len(history))
            <4>1. history' = history
                BY <2>3, <3>2
            <4>2. Live(m)
                BY <1>1, <2>8, <4>1 DEF Live, Tentative, ValidIn
            <4> QED
                BY <2>4, <4>1, <4>2 DEF SnapInv, LogShows, Newest
        <3> QED
            BY <3>1, <3>2
    <2>10. HeaderShows'
        BY <1>1, <2>3, <2>4, <2>9 DEF HeaderShows, Newest
    <2>11. LogShows'
        <3> SUFFICES ASSUME NEW k \in 0 .. Len(log'), Live(k)'
                     PROVE  Snapshot(log', db', k) = Newest'
            BY DEF LogShows
        <3>1. m \in 0 .. Len(log')
            BY <1>1, <2>4
        <3>2. k = m
            BY <2>8, <3>1, OneLiveAfter
        <3> QED
            BY <1>1, <2>9, <3>2 DEF Newest
    <2>12. Backfilled'
        <3>1. \A f : ~(f \in 1 .. 0)
            OBVIOUS
        <3>2. 0 <= hdr.mxFrame
            BY <2>4
        <3> QED
            BY <2>3, <3>1, <3>2 DEF Backfilled
    <2>13. ASSUME NEW d \in Clients
           PROVE  pc'[d] \notin {"read", "marks", "copy"} \cup InTransaction
        <3>1. wal[d].read \in ReadLocks \cup {None}
            BY Before DEF Wals
        <3>2. \A i \in ReadLocks : d \notin lock.shared[i]
            BY <1>3 DEF Recovering, Free
        <3>3. wal[d].read = None
            BY <3>1, <3>2, Before DEF Holds
        <3>4. pc[d] \notin {"read"} \cup InTransaction
            BY <3>3, Before DEF Stands
        <3>5. d # c => lock.ckpt # d
            BY <1>3, Before DEF Recovering
        <3>6. d # c => pc[d] \notin {"marks", "copy"}
            BY <3>5, Before DEF Holds, InCheckpoint
        <3> QED
            BY <1>1, <3>4, <3>6 DEF Alone, InTransaction, Appending
    <2>14. \A d \in Clients : Sees(d)' /\ Copies(d)'
        BY <2>13, SeesNothing, CopiesNothing
    <2> QED
        BY <2>10, <2>11, <2>12, <2>14 DEF SnapInv
<1> QED
    BY <1>2, <1>3

LEMMA DieSnap ==
    ASSUME ~DiesInReset, LocksInv, LocksInv', SnapInv,
           NEW dead \in {Clients} \cup {{c} : c \in Clients}, Die(dead)
    PROVE  SnapInv'
<1>1. /\ log' = log /\ logSalt' = logSalt /\ db' = db /\ history' = history
      /\ \A d \in Clients : d \in dead => pc'[d] = "idle"
      /\ \A d \in Clients : d \notin dead => pc'[d] = pc[d] /\ wal'[d] = wal[d]
    BY DEF Die
<1>2. CASE dead = Clients
    <2>1. /\ shm'.init = FALSE /\ shm'.h1 = NoHdr /\ shm'.nBackfill = 0
          /\ \A d \in Clients : pc'[d] = "idle"
        BY <1>1, <1>2 DEF Die
    <2>2. HeaderShows'
        BY <2>1 DEF HeaderShows
    <2>3. LogShows'
        BY <1>1 DEF SnapInv, LogShows, Live, Tentative, ValidIn, Newest
    <2>4. Backfilled'
        <3>1. \A f : ~(f \in 1 .. 0)
            OBVIOUS
        <3>2. 0 <= NoHdr.mxFrame
            BY DEF NoHdr, Hdr
        <3> QED
            BY <2>1, <3>1, <3>2 DEF Backfilled
    <2>5. \A d \in Clients : Sees(d)' /\ Copies(d)'
        BY <2>1, SeesNothing, CopiesNothing DEF InTransaction, Appending
    <2> QED
        BY <2>2, <2>3, <2>4, <2>5 DEF SnapInv
<1>3. CASE dead # Clients
    <2>1. PICK c \in Clients : dead = {c}
        BY <1>3
    <2>2. /\ shm' = shm /\ lock' = Unlocked(dead) /\ pc[c] # "resetinfo"
        BY <1>3, <2>1 DEF Die
    <2>3. Alone(c) /\ pc'[c] = "idle"
        BY <1>1, <2>1 DEF Alone
    <2>4. lock'.restart \in {lock.restart, None}
        BY <2>2 DEF Unlocked
    <2> QED
        BY <1>1, <2>2, <2>3, <2>4, EndingSnap
<1> QED
    BY <1>2, <1>3

LEMMA SnapInit == Init => SnapInv
<1> SUFFICES ASSUME Init PROVE SnapInv
    OBVIOUS
<1>1. /\ Len(log) = 0 /\ shm.init = FALSE /\ shm.h1.mxFrame = 0 /\ shm.nBackfill = 0
      /\ db = history[1] /\ Len(history) = 1
      /\ \A c \in Clients : pc[c] = "idle" /\ wal[c].read = None
    BY DEF Init, NoHdr, Hdr, NoWal
<1>2. db \in Images
    BY WalInit DEF LocksInv, Values, Data
<1>3. HeaderShows
    BY <1>1 DEF HeaderShows
<1>4. LogShows
    <2>1. Snapshot(log, db, 0) = db
        BY <1>2, EmptySnapshot
    <2> QED
        BY <1>1, <2>1 DEF LogShows, Newest
<1>5. Backfilled
    <2>1. \A f : ~(f \in 1 .. 0)
        OBVIOUS
    <2> QED
        BY <1>1, <2>1 DEF Backfilled
<1>6. ASSUME NEW c \in Clients PROVE Sees(c) /\ Copies(c)
    <2>1. wal[c].read # 0 /\ wal[c].read \notin MarkIds
        BY <1>1, WalAssumption DEF MarkIds
    <2> QED
        BY <1>1, <2>1 DEF Sees, Copies
<1> QED
    BY <1>3, <1>4, <1>5, <1>6 DEF SnapInv

\* All that the two bounds leave out are a death in the middle of a reset and a
\* checkpoint that copies with a header from before one.
LEMMA SnapStep ==
    ASSUME ~DiesInReset, ~StaleCheckpoints, LocksInv, LogInv, SaltInv, SnapInv,
           LocksInv', LogInv', [Next]_vars
    PROVE  SnapInv'
<1>1. CASE UNCHANGED vars
    <2>1. HeaderShows' /\ Backfilled'
        BY <1>1 DEF vars, SnapInv, HeaderShows, Backfilled, Newest
    <2>2. LogShows'
        BY <1>1 DEF vars, SnapInv, LogShows, Live, Tentative, ValidIn, Newest
    <2>3. \A c \in Clients : Sees(c)' /\ Copies(c)'
        BY <1>1 DEF vars, SnapInv, Sees, Copies
    <2> QED
        BY <2>1, <2>2, <2>3 DEF SnapInv
<1>2. ASSUME NEW c \in Clients,
             \/ ReadHdr(c) \/ Recover(c) \/ TryBegin(c) \/ PickMark(c) \/ LockMark(c)
             \/ EndRead(c) \/ BeginWrite(c) \/ RestartLog(c) \/ ResetHeader(c) \/ ResetInfo(c)
      PROVE  SnapInv'
    BY <1>2, ReadHdrSnap, RecoverSnap, TryBeginSnap, PickMarkSnap, LockMarkSnap, EndReadSnap,
       BeginWriteSnap, RestartLogSnap, ResetHeaderSnap, ResetInfoSnap
<1>3. ASSUME NEW c \in Clients,
             \/ WriteLogHeader(c) \/ StartFrames(c) \/ PublishSecond(c) \/ PublishFirst(c)
             \/ Undo(c) \/ BeginCheckpoint(c) \/ Scan(c) \/ CheckMark(c) \/ LockBackfill(c)
             \/ EndBackfill(c)
      PROVE  SnapInv'
    BY <1>3, WriteLogHeaderSnap, StartFramesSnap, PublishSecondSnap, PublishFirstSnap,
       UndoSnap, BeginCheckpointSnap, ScanSnap, CheckMarkSnap, LockBackfillSnap,
       EndBackfillSnap
<1>4. ASSUME NEW c \in Clients, NEW p \in Pages, WriteFrame(c, p) \/ CopyPage(c, p)
      PROVE  SnapInv'
    BY <1>4, WriteFrameSnap, CopyPageSnap
<1>5. ASSUME NEW dead \in {Clients} \cup {{c} : c \in Clients}, Die(dead) PROVE SnapInv'
    BY <1>5, DieSnap
<1> QED
    BY <1>1, <1>2, <1>3, <1>4, <1>5 DEF Next

LEMMA SnapshotsAreSeen == LocksInv /\ SnapInv => SnapshotsHold
<1> SUFFICES ASSUME LocksInv, SnapInv, NEW c \in Clients, pc[c] = "read"
             PROVE  Reads(c) = history[wal[c].hdr.commit]
    BY DEF SnapshotsHold
<1>1. Sees(c)
    BY DEF SnapInv
<1>2. wal[c].read = 0 \/ wal[c].read \in MarkIds
    <2>1. wal[c].read \in ReadLocks
        BY Before DEF Stands, Wals
    <2> QED
        BY <2>1, WalAssumption DEF ReadLocks, MarkIds
<1>3. CASE wal[c].read = 0
    <2>1. Reads(c) = Snapshot(log, db, 0)
        BY <1>3, ImageIsSnapshot DEF Reads
    <2>2. Snapshot(log, db, 0) = db
        BY EmptySnapshot, Before DEF Data
    <2> QED
        BY <1>1, <1>3, <2>1, <2>2 DEF Sees
<1>4. CASE wal[c].read \in MarkIds
    <2>1. wal[c].read # 0
        BY <1>4 DEF MarkIds
    <2>2. Reads(c) = Snapshot(log, db, wal[c].hdr.mxFrame)
        BY <2>1, ImageIsSnapshot DEF Reads
    <2> QED
        BY <1>1, <1>4, <2>2 DEF Sees
<1> QED
    BY <1>2, <1>3, <1>4

\* Every transaction reads one committed image from its beginning to its end, whatever
\* any number of writers, checkpoints, restarts of the log, deaths and recoveries do in
\* between, unless a process dies half way through a reset of the header or a checkpoint
\* goes on with a header from before one.
THEOREM WalSnapshotsHold ==
    ASSUME ~DiesInReset, ~StaleCheckpoints
    PROVE  Spec => []SnapshotsHold
<1> DEFINE I == (LocksInv /\ LogInv) /\ (SaltInv /\ SnapInv)
<1>1. Init => I
    BY WalInit, LogInit, SaltInit, SnapInit
<1>2. I /\ [Next]_vars => I'
    <2> SUFFICES ASSUME LocksInv, LogInv, SaltInv, SnapInv, [Next]_vars
                 PROVE  (LocksInv' /\ LogInv') /\ (SaltInv' /\ SnapInv')
        OBVIOUS
    <2>1. LocksInv' /\ LogInv'
        BY WalStep, LogStep
    <2>2. SaltInv'
        BY <2>1, SaltStep
    <2>3. SnapInv'
        BY <2>1, SnapStep
    <2> QED
        BY <2>1, <2>2, <2>3
<1>3. I => SnapshotsHold
    BY SnapshotsAreSeen
<1> QED
    BY <1>1, <1>2, <1>3, PTL DEF Spec

=============================================================================
