----------------------------- MODULE SqlSession -----------------------------
(***************************************************************************)
(* How a statement of a handler gets to the server and back: gorm's Exec,  *)
(* First and Save/Delete on top of the connection pool of database/sql,    *)
(* on top of lib/pq.  Goroutines share the pool (at most ten connections,  *)
(* db.go:53); a connection can be lost at any moment, with or without the  *)
(* statement it carried, and the driver's ErrBadConn makes database/sql    *)
(* repeat what is not part of a transaction.                               *)
(*                                                                         *)
(* database/sql is not in the repository: Checkout, PutConn and the number *)
(* of tries are modelled from what gorm and lib/pq rely on.                *)
(***************************************************************************)
EXTENDS Naturals, Sequences, FiniteSets

CONSTANTS
    Workers,     \* goroutines, each with one operation of gorm at a time
    Conns,       \* the slots of the pool: SetMaxOpenConns
    MaxTries,    \* database/sql gives up after so many ErrBadConn
    MaxOps,      \* bound: operations of a behaviour
    MaxCuts,     \* bound: connections lost in a behaviour
    None

ASSUME SessionAssumption ==
    /\ MaxTries \in Nat \ {0}
    /\ MaxOps \in Nat /\ MaxCuts \in Nat
    /\ None \notin Conns

VARIABLES
    conn,      \* the slots
    free,      \* db.freeConn: open connections nobody holds
    waiting,   \* db.connRequests, in order
    pc, op,    \* where each goroutine is, and in which operation
    held,      \* the connection it has checked out
    inTx,      \* gorm:started_transaction
    tries,     \* ErrBadConns database/sql has swallowed
    failed,    \* scope.HasError()
    begun,     \* operations so far
    cuts       \* lost connections so far

poolVars == <<conn, free, waiting>>
vars == <<conn, free, waiting, pc, op, held, inTx, tries, failed, begun,
          cuts>>

GormOps == {"exec", "first", "save"}
Labels == {"idle", "begin", "statement", "rows", "finish", "done"}

\* up: the server still has its end; bad: conn.bad of lib/pq; txn: conn.txnStatus
\* (idle, in transaction, in a failed one).
Closed == [open |-> FALSE, up |-> FALSE, bad |-> FALSE, txn |-> "I"]
Fresh  == [Closed EXCEPT !.open = TRUE, !.up = TRUE]

TypeOK ==
    /\ conn \in [Conns -> [open : BOOLEAN, up : BOOLEAN, bad : BOOLEAN,
                           txn : {"I", "T", "E"}]]
    /\ free \subseteq {c \in Conns : conn[c].open}
    /\ waiting \in Seq(Workers)
    /\ pc \in [Workers -> Labels]
    /\ op \in [Workers -> GormOps]
    /\ held \in [Workers -> Conns \cup {None}]
    /\ inTx \in [Workers -> BOOLEAN]
    /\ \A w \in Workers : inTx[w] => held[w] # None
    /\ tries \in [Workers -> 0 .. MaxTries]
    /\ failed \in [Workers -> BOOLEAN]
    /\ begun \in 0 .. MaxOps
    /\ cuts \in 0 .. MaxCuts

Init ==
    /\ conn = [c \in Conns |-> Closed]
    /\ free = {} /\ waiting = <<>>
    /\ pc = [w \in Workers |-> "idle"] /\ op = [w \in Workers |-> "exec"]
    /\ held = [w \in Workers |-> None] /\ inTx = [w \in Workers |-> FALSE]
    /\ tries = [w \in Workers |-> 0] /\ failed = [w \in Workers |-> FALSE]
    /\ begun = 0 /\ cuts = 0

----------------------------------------------------------------------------

Goto(w, label) == pc' = [pc EXCEPT ![w] = label]
Fail(w) == failed' = [failed EXCEPT ![w] = TRUE]

\* The operation a handler calls.  Save and Delete run the callback
\* begin_transaction first.
Call(w, o) ==
    /\ pc[w] = "idle"
    /\ begun < MaxOps
    /\ begun' = begun + 1
    /\ op' = [op EXCEPT ![w] = o]
    /\ Goto(w, IF o = "save" THEN "begin" ELSE "statement")
    /\ UNCHANGED <<poolVars, held, inTx, tries, failed, cuts>>

\* A goroutine without a connection that needs one for its next try.
Needs(w) == pc[w] \in {"begin", "statement"} /\ held[w] = None

Slots == {c \in Conns : ~conn[c].open}

\* db.conn(): a free connection or a new one, else a place in the queue.
Turn(w) == waiting # <<>> => Head(waiting) = w
Leave == waiting' = IF waiting = <<>> THEN <<>> ELSE Tail(waiting)

Checkout(w) ==
    /\ Needs(w) /\ Turn(w)
    /\ \/ \E c \in free :
              /\ free' = free \ {c}
              /\ held' = [held EXCEPT ![w] = c]
              /\ UNCHANGED conn
       \/ \E c \in Slots :
              /\ free = {}
              /\ conn' = [conn EXCEPT ![c] = Fresh]
              /\ held' = [held EXCEPT ![w] = c]
              /\ UNCHANGED free
    /\ Leave
    /\ UNCHANGED <<pc, op, inTx, tries, failed, begun, cuts>>

Queue(w) ==
    /\ Needs(w) /\ free = {} /\ Slots = {}
    /\ \A i \in DOMAIN waiting : waiting[i] # w
    /\ waiting' = Append(waiting, w)
    /\ UNCHANGED <<conn, free, pc, op, held, inTx, tries, failed, begun,
                   cuts>>

\* pq.Open fails: DialOpen returns the error itself, never ErrBadConn, so
\* nothing is tried again.  A failing Begin is not an error to gorm.
OpenFails(w) ==
    /\ Needs(w) /\ Turn(w) /\ free = {} /\ Slots # {}
    /\ cuts < MaxCuts /\ cuts' = cuts + 1
    /\ Leave
    /\ tries' = [tries EXCEPT ![w] = 0]
    /\ IF pc[w] = "begin"
       THEN Goto(w, "statement") /\ UNCHANGED failed
       ELSE Goto(w, IF op[w] = "save" THEN "finish" ELSE "done") /\ Fail(w)
    /\ UNCHANGED <<conn, free, op, held, inTx, begun>>

----------------------------------------------------------------------------
(* One exchange with the server: what the caller is told, and what becomes *)
(* of the connection.                                                      *)

Told == {"ok", "error", "ErrBadConn"}

\* errRecover: EOF and net.OpError become ErrBadConn and set bad, an answer
\* cut in the middle (io.ErrUnexpectedEOF) is an error like any other.
Lost(k, told) == [k EXCEPT !.up = FALSE, !.bad = told = "ErrBadConn"]

\* <<told, connection afterwards>>; done is the connection after the statement,
\* refusal what the server makes of a refused one.  A connection that is lost may
\* have carried the statement, or not.
Exchanges(k, done, refusal) ==
    IF k.bad THEN {<<"ErrBadConn", k>>}
    ELSE IF ~k.up THEN {<<"ErrBadConn", Lost(k, "ErrBadConn")>>}
    ELSE {<<"ok", done>>, <<"error", refusal>>}
         \cup IF cuts = MaxCuts THEN {}
              ELSE {<<told, Lost(k, told)>> : told \in {"error", "ErrBadConn"}}

CountCut(k, after) == cuts' = IF k.up /\ ~after.up THEN cuts + 1 ELSE cuts

\* putConn(dc, err): a connection that reported ErrBadConn is closed.
PutConn(w, after, told) ==
    /\ held' = [held EXCEPT ![w] = None]
    /\ conn' = [conn EXCEPT ![held[w]] =
                   IF told = "ErrBadConn" THEN Closed ELSE after]
    /\ free' = IF told = "ErrBadConn" THEN free ELSE free \cup {held[w]}
    /\ UNCHANGED waiting

\* The loop over ErrBadConn: another connection, at most MaxTries times.
Again(w, told) == told = "ErrBadConn" /\ tries[w] + 1 < MaxTries

----------------------------------------------------------------------------
(* gorm: Begin, Exec/Query, CommitOrRollback *)

\* checkIsInTransaction(intxn) fails before anything is sent.
Unexpected(k, intxn) == (k.txn # "I") # intxn

BeginTx(k) ==
    IF ~k.bad /\ Unexpected(k, FALSE)
    THEN {<<"error", [k EXCEPT !.bad = TRUE]>>}
    ELSE Exchanges(k, [k EXCEPT !.txn = "T"], k)

\* Mutant: the error of db.Begin is not looked at.
StartedAnyway(told) == told # "ErrBadConn"

Started(told) == told = "ok"

\* An error other than ErrBadConn, or the last ErrBadConn, is ignored: the
\* INSERT follows outside of any transaction.
Begin(w) ==
    /\ pc[w] = "begin" /\ held[w] # None
    /\ \E x \in BeginTx(conn[held[w]]) :
           /\ CountCut(conn[held[w]], x[2])
           /\ IF x[1] = "ok"
              THEN /\ conn' = [conn EXCEPT ![held[w]] = x[2]]
                   /\ UNCHANGED <<held, free, waiting>>
              ELSE PutConn(w, x[2], x[1])
           /\ inTx' = [inTx EXCEPT ![w] = Started(x[1])]
           /\ IF Again(w, x[1])
              THEN tries' = [tries EXCEPT ![w] = @ + 1] /\ UNCHANGED pc
              ELSE tries' = [tries EXCEPT ![w] = 0] /\ Goto(w, "statement")
    /\ UNCHANGED <<op, failed, begun>>

\* A statement by itself is committed by the server when it is executed.
\* Rows hold the connection until they are closed.
Statement(w) ==
    /\ pc[w] = "statement" /\ held[w] # None /\ ~inTx[w]
    /\ \E x \in Exchanges(conn[held[w]], conn[held[w]], conn[held[w]]) :
           /\ CountCut(conn[held[w]], x[2])
           /\ IF op[w] = "first" /\ x[1] = "ok"
              THEN Goto(w, "rows") /\ UNCHANGED <<poolVars, held, tries, failed>>
              ELSE /\ PutConn(w, x[2], x[1])
                   /\ IF Again(w, x[1])
                      THEN /\ tries' = [tries EXCEPT ![w] = @ + 1]
                           /\ UNCHANGED <<pc, failed>>
                      ELSE /\ Goto(w, IF op[w] = "save" THEN "finish" ELSE "done")
                           /\ failed' = [failed EXCEPT ![w] = x[1] # "ok"]
                           /\ UNCHANGED tries
    /\ UNCHANGED <<op, inTx, begun>>

\* Inside a transaction nothing is repeated; an error fails the transaction.
StatementInTx(w) ==
    /\ pc[w] = "statement" /\ inTx[w]
    /\ LET k == conn[held[w]] IN
       \E x \in Exchanges(k, k, [k EXCEPT !.txn = "E"]) :
           /\ CountCut(k, x[2])
           /\ conn' = [conn EXCEPT ![held[w]] = x[2]]
           /\ failed' = [failed EXCEPT ![w] = x[1] # "ok"]
    /\ Goto(w, "finish")
    /\ UNCHANGED <<free, waiting, op, held, inTx, tries, begun>>

\* Mutant: gorm's query callback without its deferred rows.Close().
KeepRows(w) ==
    /\ pc[w] = "rows"
    /\ held' = [held EXCEPT ![w] = None]
    /\ Goto(w, "done")
    /\ UNCHANGED <<poolVars, op, inTx, tries, failed, begun, cuts>>

\* rows.Close reads what is left of the answer.
CloseRows(w) ==
    /\ pc[w] = "rows"
    /\ LET k == conn[held[w]] IN
       \E x \in Exchanges(k, k, k) :
           CountCut(k, x[2]) /\ PutConn(w, x[2], x[1])
    /\ Goto(w, "done")
    /\ UNCHANGED <<op, inTx, tries, failed, begun>>

\* COMMIT or ROLLBACK, whose errors nobody sees.  Tx gives the connection
\* back as if it were good.
EndTx(w) ==
    LET k == conn[held[w]]
        ended == [k EXCEPT !.txn = "I"] IN
    \E x \in IF ~k.bad /\ Unexpected(k, TRUE)
             THEN {<<"error", [k EXCEPT !.bad = TRUE]>>}
             ELSE Exchanges(k, ended, ended) :
        CountCut(k, x[2]) /\ PutConn(w, x[2], "ok")

\* Mutant: only a successful Save ends its transaction.
CommitOnly(w) ==
    /\ pc[w] = "finish" /\ inTx[w]
    /\ IF failed[w]
       THEN PutConn(w, conn[held[w]], "ok") /\ UNCHANGED cuts
       ELSE EndTx(w)
    /\ inTx' = [inTx EXCEPT ![w] = FALSE]
    /\ Goto(w, "done")
    /\ UNCHANGED <<op, tries, failed, begun>>

\* Either way: to the pool they differ in nothing.
CommitOrRollback(w) ==
    /\ pc[w] = "finish" /\ inTx[w]
    /\ EndTx(w)
    /\ inTx' = [inTx EXCEPT ![w] = FALSE]
    /\ Goto(w, "done")
    /\ UNCHANGED <<op, tries, failed, begun>>

NothingToEnd(w) ==
    /\ pc[w] = "finish" /\ ~inTx[w]
    /\ Goto(w, "done")
    /\ UNCHANGED <<poolVars, op, held, inTx, tries, failed, begun, cuts>>

\* The handler goes on to its next operation.
Return(w) ==
    /\ pc[w] = "done"
    /\ Goto(w, "idle")
    /\ op' = [op EXCEPT ![w] = "exec"]
    /\ tries' = [tries EXCEPT ![w] = 0]
    /\ failed' = [failed EXCEPT ![w] = FALSE]
    /\ UNCHANGED <<poolVars, held, inTx, begun, cuts>>

----------------------------------------------------------------------------

Step(w) ==
    \/ Checkout(w) \/ Queue(w) \/ OpenFails(w)
    \/ Begin(w) \/ Statement(w) \/ StatementInTx(w) \/ CloseRows(w)
    \/ CommitOrRollback(w) \/ NothingToEnd(w) \/ Return(w)

Next == \E w \in Workers : Step(w) \/ \E o \in GormOps : Call(w, o)

\* Every exchange with the server comes to an end, and a goroutine that can
\* run does.
Fairness == \A w \in Workers : WF_vars(Step(w))

Spec == Init /\ [][Next]_vars /\ Fairness

----------------------------------------------------------------------------
(* What the session layer owes the handlers *)

\* Every open connection is idle in the pool or held by exactly one goroutine:
\* none is shared and none leaks, however the statements on it ended.
ConnectionsAccounted ==
    /\ \A w \in Workers : held[w] # None => held[w] \notin free
    /\ \A v, w \in Workers : held[v] = held[w] /\ held[w] # None => v = w
    /\ \A c \in Conns : conn[c].open <=> c \in free \/ \E w \in Workers : held[w] = c

\* A live connection that goes back to the pool has no transaction of an earlier
\* operation open on the server: nobody's INSERT is committed by somebody else.
PoolClean ==
    \A c \in free : conn[c].up => conn[c].txn = "I"

\* With more goroutines than connections each operation comes back: nobody keeps
\* a connection and the queue of the pool moves.
StatementsReturn == \A w \in Workers : pc[w] # "idle" ~> pc[w] = "idle"

=============================================================================
