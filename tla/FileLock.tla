------------------------------ MODULE FileLock ------------------------------
(***************************************************************************)
(* What the locking methods of a VFS (sqlite3_io_methods) promise to the   *)
(* pager: each open handle of a database file has a level, any number of   *)
(* handles read, one prepares to write, and the one that writes is alone.  *)
(***************************************************************************)
EXTENDS Naturals

CONSTANTS
    Handles,
    Process     \* the process of a handle

VARIABLES
    level,      \* eFileLock of each handle
    reserved    \* who has the RESERVED lock, also below PENDING or EXCLUSIVE

lockVars == <<level, reserved>>

Unlocked == 0
Shared == 1
Reserved == 2
Pending == 3
Exclusive == 4
Levels == Unlocked .. Exclusive

LockTypeOK == level \in [Handles -> Levels] /\ reserved \in SUBSET Handles

LockInit == level = [h \in Handles |-> Unlocked] /\ reserved = {}

Others(h) == Handles \ {h}

\* The handles that other threads of the same process have open.
Peers(h) == {g \in Others(h) : Process[g] = Process[h]}

\* Above SHARED a process has one handle at most.
PeersBelow(h) == \A g \in Peers(h) : level[g] <= Shared

Set(h, l) == level' = [level EXCEPT ![h] = l]

\* xLock(SHARED_LOCK): not while a writer waits for the readers to leave, unless
\* that is in another process and a reader of this one can be joined.
GetShared(h) ==
    /\ level[h] = Unlocked
    /\ \A g \in Others(h) : level[g] # Exclusive
    /\ \A g \in Peers(h) : level[g] < Pending
    /\ \/ \A g \in Others(h) : level[g] < Pending
       \/ \E g \in Peers(h) : level[g] \in {Shared, Reserved}
    /\ Set(h, Shared)
    /\ UNCHANGED reserved

\* xLock(RESERVED_LOCK): a single handle prepares to write.
GetReserved(h) ==
    /\ level[h] = Shared /\ PeersBelow(h)
    /\ reserved = {}
    /\ Set(h, Reserved)
    /\ reserved' = {h}

\* What xCheckReservedLock answers: somebody prepares to write, or another thread of
\* the process has more than SHARED, also the PENDING of one that cannot recover.
SaysReserved(h) == reserved # {} \/ \E g \in Peers(h) \cup {h} : level[g] > Shared

\* xLock(EXCLUSIVE_LOCK) that finds readers: no new ones come in.  A handle that
\* recovers a journal comes here without RESERVED.
GetPending(h) ==
    /\ level[h] \in {Shared, Reserved} /\ PeersBelow(h)
    /\ \A g \in Others(h) : level[g] < Pending
    /\ Set(h, Pending)
    /\ UNCHANGED reserved

\* Mutant: readers are not waited for.
GetExclusiveEarly(h) ==
    /\ level[h] \in Shared .. Pending
    /\ \A g \in Others(h) : level[g] < Reserved
    /\ Set(h, Exclusive)
    /\ UNCHANGED reserved

GetExclusive(h) ==
    /\ level[h] \in Shared .. Pending
    /\ \A g \in Others(h) : level[g] = Unlocked
    /\ Set(h, Exclusive)
    /\ UNCHANGED reserved

\* Mutant: RESERVED is forgotten on the way down.
DowngradeKeeps(h) ==
    /\ level[h] > Shared
    /\ Set(h, Shared)
    /\ UNCHANGED reserved

\* xUnlock(SHARED_LOCK)
Downgrade(h) ==
    /\ level[h] > Shared
    /\ Set(h, Shared)
    /\ reserved' = reserved \ {h}

\* xUnlock(NO_LOCK), or the operating system for all handles of a dead process.
Release(S) ==
    /\ level' = [h \in Handles |-> IF h \in S THEN Unlocked ELSE level[h]]
    /\ reserved' = reserved \ S

LockNext ==
    \/ \E h \in Handles :
           \/ GetShared(h) \/ GetReserved(h) \/ GetPending(h) \/ GetExclusive(h)
           \/ Downgrade(h)
    \/ \E S \in SUBSET Handles : Release(S)

LockSpec == LockInit /\ [][LockNext]_lockVars

----------------------------------------------------------------------------

\* Whoever may write the file is alone with it: nobody reads pages that change.
WriterAlone ==
    \A g, h \in Handles : level[h] = Exclusive /\ g # h => level[g] = Unlocked

\* RESERVED goes with the right to read, and stays with its holder up to EXCLUSIVE.
ReservedReads ==
    /\ \A h \in Handles : level[h] = Reserved => h \in reserved
    /\ \A h \in reserved : level[h] >= Reserved
    /\ \A g, h \in reserved : g = h

=============================================================================
