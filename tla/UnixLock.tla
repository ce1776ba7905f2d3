------------------------------ MODULE UnixLock ------------------------------
(***************************************************************************)
(* os_unix.c: how handles of one database file, in several threads of      *)
(* several processes, get their levels from POSIX advisory locks.  Those   *)
(* belong to a process, so that a second descriptor of the same process    *)
(* overrides the locks of the first and closing any of them drops all:     *)
(* a process keeps its own account (unixInodeInfo) under a mutex, while    *)
(* the fcntl calls of different processes interleave.                      *)
(***************************************************************************)
EXTENDS Naturals, FiniteSets

CONSTANTS
    Procs,      \* processes
    Handles,    \* unixFile objects
    Process     \* the process of a handle

ASSUME UnixAssumption == IsFiniteSet(Handles) /\ Process \in [Handles -> Procs]

VARIABLES
    os,       \* the lock each process has on each range of the file
    inode,    \* unixInodeInfo: eFileLock, nShared, nLock, nRef and the unused fds
    file,     \* unixFile: open or not, eFileLock
    step,     \* where the call on a handle is; the mutex is held unless "idle"
    goal      \* the level an xUnlock goes down to

vars == <<os, inode, file, step, goal>>

Unlocked == 0
Shared == 1
Reserved == 2
Pending == 3
Exclusive == 4
Levels == Unlocked .. Exclusive

Ranges == {"pending", "reserved", "shared"}
Steps == {"idle", "read", "got", "refused", "write", "bytes", "release"}

NoLocks == [r \in Ranges |-> "none"]
NoInode == [lock |-> Unlocked, nShared |-> 0, nLock |-> 0, nRef |-> 0, unused |-> 0]

N == Cardinality(Handles)

TypeOK ==
    /\ os \in [Procs -> [Ranges -> {"none", "read", "write"}]]
    /\ inode \in [Procs -> [lock : Levels, nShared : 0 .. N, nLock : 0 .. N,
                            nRef : 0 .. N, unused : 0 .. N]]
    /\ file \in [Handles -> [open : BOOLEAN, level : Levels]]
    /\ step \in [Handles -> Steps]
    /\ goal \in [Handles -> {Unlocked, Shared}]

Init ==
    /\ os = [p \in Procs |-> NoLocks]
    /\ inode = [p \in Procs |-> NoInode]
    /\ file = [h \in Handles |-> [open |-> FALSE, level |-> Unlocked]]
    /\ step = [h \in Handles |-> "idle"]
    /\ goal = [h \in Handles |-> Unlocked]

----------------------------------------------------------------------------
(* fcntl *)

Conflict(a, b) == "write" \in {a, b} /\ "none" \notin {a, b}

\* F_SETLK by a process: refused if another one has a conflicting lock.
Grants(p, r, type) == \A q \in Procs \ {p} : ~Conflict(type, os[q][r])

SetLk(p, r, type) == os' = [os EXCEPT ![p][r] = type]

----------------------------------------------------------------------------

\* unixEnterMutex: one call at a time in each process.
Enter(h) ==
    /\ file[h].open
    /\ \A g \in Handles : Process[g] = Process[h] => step[g] = "idle"

Goto(h, s) == step' = [step EXCEPT ![h] = s]
Level(h, l) == file' = [file EXCEPT ![h].level = l]

\* Mutant: a descriptor whose close was deferred is never used again.
OpenFresh(h) ==
    LET p == Process[h] IN
    /\ ~file[h].open
    /\ \A g \in Handles : Process[g] = p => step[g] = "idle"
    /\ file' = [file EXCEPT ![h].open = TRUE]
    /\ inode' = [inode EXCEPT ![p].nRef = @ + 1]
    /\ UNCHANGED <<os, step, goal>>

\* findReusableFd and findInodeInfo: a descriptor whose close was deferred is used
\* again (all handles are opened with the same flags).
Open(h) ==
    LET p == Process[h] IN
    /\ ~file[h].open
    /\ \A g \in Handles : Process[g] = p => step[g] = "idle"
    /\ file' = [file EXCEPT ![h].open = TRUE]
    /\ inode' = [inode EXCEPT ![p].nRef = @ + 1,
                              ![p].unused = IF @ > 0 THEN @ - 1 ELSE @]
    /\ UNCHANGED <<os, step, goal>>

\* unixLock(SHARED): another thread of the process has a lock already.
JoinShared(h) ==
    LET p == Process[h] IN
    /\ Enter(h) /\ file[h].level = Unlocked
    /\ inode[p].lock \in {Shared, Reserved}
    /\ Level(h, Shared)
    /\ inode' = [inode EXCEPT ![p].nShared = @ + 1, ![p].nLock = @ + 1]
    /\ UNCHANGED <<os, step, goal>>

\* Mutant: the reader does not ask for the pending byte first.
AskSharedAtOnce(h) ==
    /\ Enter(h) /\ file[h].level = Unlocked
    /\ inode[Process[h]].lock = Unlocked
    /\ Goto(h, "read")
    /\ UNCHANGED <<os, inode, file, goal>>

\* The first lock of the process: a read-lock on the pending byte, which a
\* waiting writer refuses, then one on the shared range.
AskShared(h) ==
    LET p == Process[h] IN
    /\ Enter(h) /\ file[h].level = Unlocked
    /\ inode[p].lock = Unlocked
    /\ Grants(p, "pending", "read")
    /\ SetLk(p, "pending", "read")
    /\ Goto(h, "read")
    /\ UNCHANGED <<inode, file, goal>>

ReadLock(h) ==
    LET p == Process[h] IN
    /\ step[h] = "read"
    /\ IF Grants(p, "shared", "read")
       THEN SetLk(p, "shared", "read") /\ Goto(h, "got")
       ELSE UNCHANGED os /\ Goto(h, "refused")
    /\ UNCHANGED <<inode, file, goal>>

\* The read-lock on the pending byte is given back either way.
DropPending(h) ==
    LET p == Process[h] IN
    /\ step[h] \in {"got", "refused"}
    /\ SetLk(p, "pending", "none")
    /\ IF step[h] = "got"
       THEN /\ Level(h, Shared)
            /\ inode' = [inode EXCEPT ![p].lock = Shared, ![p].nShared = 1,
                                      ![p].nLock = @ + 1]
       ELSE UNCHANGED <<file, inode>>
    /\ Goto(h, "idle")
    /\ UNCHANGED goal

\* unixLock(RESERVED): refused if a thread of the process has more than SHARED.
LockReserved(h) ==
    LET p == Process[h] IN
    /\ Enter(h) /\ file[h].level = Shared
    /\ inode[p].lock = Shared
    /\ Grants(p, "reserved", "write")
    /\ SetLk(p, "reserved", "write")
    /\ Level(h, Reserved)
    /\ inode' = [inode EXCEPT ![p].lock = Reserved]
    /\ UNCHANGED <<step, goal>>

\* Mutant: fcntl is asked only, which is silent on the locks of the own process.
CheckSystemOnly(h) ==
    \E q \in Procs \ {Process[h]} : Conflict("write", os[q]["reserved"])

\* unixCheckReservedLock: a thread of the process has more than SHARED, or F_GETLK finds
\* a lock of another process on the reserved byte.
CheckReservedLock(h) ==
    \/ inode[Process[h]].lock > Shared
    \/ \E q \in Procs \ {Process[h]} : Conflict("write", os[q]["reserved"])

\* unixLock(EXCLUSIVE): a write-lock on the pending byte keeps new readers out.
AskExclusive(h) ==
    LET p == Process[h] IN
    /\ Enter(h) /\ file[h].level \in Shared .. Pending
    /\ inode[p].lock = file[h].level
    /\ IF file[h].level = Pending THEN UNCHANGED os
       ELSE Grants(p, "pending", "write") /\ SetLk(p, "pending", "write")
    /\ Goto(h, "write")
    /\ UNCHANGED <<inode, file, goal>>

\* Mutant: the readers of the same process are forgotten.
WriteLockAlone(h) ==
    LET p == Process[h] IN
    /\ step[h] = "write"
    /\ IF Grants(p, "shared", "write")
       THEN /\ SetLk(p, "shared", "write") /\ Level(h, Exclusive)
            /\ inode' = [inode EXCEPT ![p].lock = Exclusive]
       ELSE /\ UNCHANGED os /\ Level(h, Pending)
            /\ inode' = [inode EXCEPT ![p].lock = Pending]
    /\ Goto(h, "idle")
    /\ UNCHANGED goal

\* Then a write-lock on the shared range; while readers are left, in this process
\* or in others, the handle stays PENDING.
WriteLock(h) ==
    LET p == Process[h] IN
    /\ step[h] = "write"
    /\ IF inode[p].nShared = 1 /\ Grants(p, "shared", "write")
       THEN /\ SetLk(p, "shared", "write") /\ Level(h, Exclusive)
            /\ inode' = [inode EXCEPT ![p].lock = Exclusive]
       ELSE /\ UNCHANGED os /\ Level(h, Pending)
            /\ inode' = [inode EXCEPT ![p].lock = Pending]
    /\ Goto(h, "idle")
    /\ UNCHANGED goal

\* posixUnlock.  Down to SHARED: a read-lock replaces the write-lock first.
Unlock(h, l) ==
    /\ Enter(h) /\ file[h].level > l
    /\ goal' = [goal EXCEPT ![h] = l]
    /\ IF file[h].level > Shared
       THEN /\ IF l = Shared THEN SetLk(Process[h], "shared", "read") ELSE UNCHANGED os
            /\ Goto(h, "bytes")
       ELSE UNCHANGED os /\ Goto(h, "release")
    /\ UNCHANGED <<inode, file>>

UnlockBytes(h) ==
    LET p == Process[h] IN
    /\ step[h] = "bytes"
    /\ os' = [os EXCEPT ![p]["pending"] = "none", ![p]["reserved"] = "none"]
    /\ inode' = [inode EXCEPT ![p].lock = Shared]
    /\ IF goal[h] = Shared
       THEN Level(h, Shared) /\ Goto(h, "idle")
       ELSE UNCHANGED file /\ Goto(h, "release")
    /\ UNCHANGED goal

\* The last handle of the process gives everything back, and with the last lock
\* the deferred descriptors are closed.
UnlockAll(h) ==
    LET p == Process[h]
        last == inode[p].nShared = 1 IN
    /\ step[h] = "release"
    /\ os' = IF last \/ (inode[p].nLock = 1 /\ inode[p].unused > 0)
             THEN [os EXCEPT ![p] = NoLocks] ELSE os
    /\ inode' = [inode EXCEPT ![p].nShared = @ - 1, ![p].nLock = @ - 1,
                              ![p].lock = IF last THEN Unlocked ELSE @,
                              ![p].unused = IF inode[p].nLock = 1 THEN 0 ELSE @]
    /\ Level(h, Unlocked)
    /\ Goto(h, "idle")
    /\ UNCHANGED goal

\* Mutant: the descriptor is closed at once.
CloseNow(h) ==
    LET p == Process[h] IN
    /\ Enter(h) /\ file[h].level = Unlocked
    /\ file' = [file EXCEPT ![h].open = FALSE]
    /\ inode' = [inode EXCEPT ![p].nRef = @ - 1]
    /\ os' = [os EXCEPT ![p] = NoLocks]
    /\ UNCHANGED <<step, goal>>

\* unixClose, after its unixUnlock(NO_LOCK).  Closing a descriptor drops all locks
\* of the process: while some are held the close is deferred.
Close(h) ==
    LET p == Process[h]
        defer == inode[p].nLock > 0
        lastRef == inode[p].nRef = 1 IN
    /\ Enter(h) /\ file[h].level = Unlocked
    /\ file' = [file EXCEPT ![h].open = FALSE]
    /\ inode' = IF lastRef THEN [inode EXCEPT ![p] = NoInode]
                ELSE [inode EXCEPT ![p].nRef = @ - 1,
                                   ![p].unused = IF defer THEN @ + 1 ELSE @]
    /\ os' = IF defer /\ ~lastRef THEN os ELSE [os EXCEPT ![p] = NoLocks]
    /\ UNCHANGED <<step, goal>>

\* A process dies; the operating system drops its locks.
Die(p) ==
    /\ \E h \in Handles : Process[h] = p /\ file[h].open
    /\ os' = [os EXCEPT ![p] = NoLocks]
    /\ inode' = [inode EXCEPT ![p] = NoInode]
    /\ file' = [h \in Handles |-> IF Process[h] = p
                                  THEN [open |-> FALSE, level |-> Unlocked] ELSE file[h]]
    /\ step' = [h \in Handles |-> IF Process[h] = p THEN "idle" ELSE step[h]]
    /\ UNCHANGED goal

Call(h) ==
    \/ ReadLock(h) \/ DropPending(h) \/ WriteLock(h) \/ UnlockBytes(h) \/ UnlockAll(h)

Next ==
    \/ \E h \in Handles :
           \/ Open(h) \/ JoinShared(h) \/ AskShared(h) \/ LockReserved(h)
           \/ AskExclusive(h) \/ (\E l \in {Unlocked, Shared} : Unlock(h, l))
           \/ Close(h) \/ Call(h)
    \/ \E p \in Procs : Die(p)

\* Calls return, whoever reads or prepares gives up some time, and a writer that
\* waits for readers tries again (the busy handler).
Fairness ==
    \A h \in Handles :
        /\ WF_vars(Call(h))
        /\ SF_vars(Unlock(h, Unlocked) /\ file[h].level < Pending)
        /\ SF_vars(AskExclusive(h) /\ file[h].level = Pending)

Spec == Init /\ [][Next]_vars /\ Fairness

----------------------------------------------------------------------------

\* What other processes may conclude from the level of a handle is what the
\* operating system holds for its process: it is never lost to a close or to an
\* unlock of another handle of the process.
LocksBacked ==
    \A h \in Handles :
        LET held == os[Process[h]] IN
        /\ file[h].level >= Shared => held["shared"] # "none"
        /\ file[h].level = Reserved /\ step[h] # "release" => held["reserved"] = "write"
        /\ file[h].level >= Pending /\ step[h] # "release" => held["pending"] = "write"
        /\ file[h].level = Exclusive /\ step[h] = "idle" => held["shared"] = "write"

\* The level other handles see during a call: a lock counts as soon as fcntl gave
\* it, and no longer once its bytes are given back.
Seen(h) ==
    CASE step[h] = "got" -> Shared
      [] step[h] = "write" -> Pending
      [] step[h] = "release" -> Shared
      [] OTHER -> file[h].level

HasReserved == {h \in Handles : file[h].level >= Reserved
                                 /\ os[Process[h]]["reserved"] = "write"}

Promise == INSTANCE FileLock WITH
    level <- [h \in Handles |-> Seen(h)], reserved <- HasReserved

\* The protocol of fcntl calls implements the promise, call by call.
ImplementsFileLock == Promise!LockSpec

\* The answer of unixCheckReservedLock, which a pager bases its recovery on, is what the
\* levels of all handles say, whatever calls other processes have under way.
ChecksAgree ==
    \A h \in Handles :
        Enter(h) /\ file[h].level = Shared =>
            (CheckReservedLock(h) <=> Promise!SaysReserved(h))

\* A writer that waits for readers is let through: those of other processes cannot
\* overtake it for ever.  Only a thread that joins a reader of its own process is
\* not kept out by PENDING, so that the promise excepts threads that go on joining.
PendingIsServed ==
    \A h \in Handles :
        \/ []<><<\E g \in Handles : JoinShared(g)>>_vars
        \/ file[h].level = Pending ~> file[h].level # Pending

=============================================================================
