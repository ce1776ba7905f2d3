-------------------------- MODULE SqlSessionProofs --------------------------
(***************************************************************************)
(* The pool with any number of goroutines, connections, tries and losses:  *)
(* none is shared or leaks, and none goes back with a transaction open.    *)
(***************************************************************************)
EXTENDS SqlSession, TLAPS

\* What a goroutine has at each point of an operation.
HandlersTidy ==
    \A w \in Workers :
        /\ pc[w] \in {"idle", "done"} => held[w] = None
        /\ pc[w] \in {"idle", "begin", "rows", "done"} => ~inTx[w]
        /\ pc[w] = "rows" => held[w] # None
        /\ pc[w] = "finish" /\ held[w] # None => inTx[w]

HeldByOne ==
    \A v, w \in Workers : held[v] = held[w] /\ held[w] # None => v = w

HeldIsOpen ==
    \A w \in Workers : held[w] # None => held[w] \notin free /\ conn[held[w]].open

OpenIsHeld ==
    \A c \in Conns : conn[c].open => c \in free \/ \E w \in Workers : held[w] = c

Accounted == HeldByOne /\ HeldIsOpen /\ OpenIsHeld

\* A transaction the server has open belongs to the goroutine that began it.
TransactionsOwned ==
    \A c \in Conns : conn[c].up /\ conn[c].txn # "I" =>
        /\ ~conn[c].bad
        /\ \E w \in Workers : held[w] = c /\ inTx[w]

SessionInv == TypeOK /\ HandlersTidy /\ Accounted /\ TransactionsOwned

----------------------------------------------------------------------------
(* One exchange, and giving a connection back *)

Link == [open : BOOLEAN, up : BOOLEAN, bad : BOOLEAN, txn : {"I", "T", "E"}]

LEMMA LostLink ==
    ASSUME NEW k \in Link, NEW told
    PROVE  /\ Lost(k, told) \in Link /\ ~Lost(k, told).up
           /\ Lost(k, told).open = k.open
    BY DEF Link, Lost

\* What can come out of an exchange, and what it may cost.
LEMMA ExchangeOutcomes ==
    ASSUME TypeOK, NEW k \in Link, NEW done \in Link, NEW refusal \in Link,
           k.up => done.up, k.up => refusal.up,
           k.open, done.open, refusal.open,
           NEW x \in Exchanges(k, done, refusal)
    PROVE  /\ x[1] \in Told /\ x[2] \in Link /\ x[2].open
           /\ \/ k.bad /\ x[1] = "ErrBadConn" /\ x[2] = k
              \/ ~k.bad /\ x[1] = "ok" /\ x[2] = done
              \/ ~k.bad /\ x[1] = "error" /\ x[2] = refusal
              \/ x[1] # "ok" /\ ~x[2].up
           /\ CountCut(k, x[2]) => cuts' \in 0 .. MaxCuts
<1>1. CASE k.bad
    <2>1. x = <<"ErrBadConn", k>>
        BY <1>1 DEF Exchanges
    <2>2. CountCut(k, x[2]) => cuts' \in 0 .. MaxCuts
        BY <2>1 DEF CountCut, TypeOK
    <2> QED
        BY <1>1, <2>1, <2>2 DEF Told
<1>2. CASE ~k.bad /\ ~k.up
    <2>1. x = <<"ErrBadConn", Lost(k, "ErrBadConn")>>
        BY <1>2 DEF Exchanges
    <2>2. CountCut(k, x[2]) => cuts' \in 0 .. MaxCuts
        BY <1>2 DEF CountCut, TypeOK
    <2> QED
        BY <2>1, <2>2, LostLink DEF Told
<1>3. CASE ~k.bad /\ k.up
    <2>1. \/ x = <<"ok", done>> \/ x = <<"error", refusal>>
          \/ cuts # MaxCuts /\ \E told \in {"error", "ErrBadConn"} : x = <<told, Lost(k, told)>>
        BY <1>3 DEF Exchanges
    <2>2. CASE x = <<"ok", done>> \/ x = <<"error", refusal>>
        <3>0. x[2].up
            BY <1>3, <2>2
        <3>1. CountCut(k, x[2]) => cuts' \in 0 .. MaxCuts
            BY <3>0 DEF CountCut, TypeOK
        <3> QED
            BY <1>3, <2>2, <3>1 DEF Told
    <2>3. CASE cuts # MaxCuts /\ \E told \in {"error", "ErrBadConn"} : x = <<told, Lost(k, told)>>
        <3>1. CountCut(k, x[2]) => cuts' \in 0 .. MaxCuts
            BY <2>3, SessionAssumption DEF CountCut, TypeOK
        <3> QED
            BY <2>3, <3>1, LostLink DEF Told
    <2> QED
        BY <2>1, <2>2, <2>3
<1> QED
    BY <1>1, <1>2, <1>3

\* A connection that goes back without an open transaction leaves the pool in order.
LEMMA PutConnKeeps ==
    ASSUME TypeOK, Accounted, TransactionsOwned,
           NEW w \in Workers, held[w] # None,
           NEW after \in Link, after.open, NEW told, PutConn(w, after, told),
           told = "ErrBadConn" \/ (after.up => after.txn = "I"),
           \A v \in Workers \ {w} : inTx'[v] = inTx[v]
    PROVE  /\ conn' \in [Conns -> Link]
           /\ free' \subseteq {c \in Conns : conn'[c].open}
           /\ held' = [held EXCEPT ![w] = None] /\ waiting' = waiting
           /\ Accounted' /\ TransactionsOwned'
<1> DEFINE c == held[w]
           new == IF told = "ErrBadConn" THEN Closed ELSE after
<1>1. /\ held' = [held EXCEPT ![w] = None] /\ waiting' = waiting
      /\ conn' = [conn EXCEPT ![c] = new]
      /\ free' = IF told = "ErrBadConn" THEN free ELSE free \cup {c}
      /\ c \in Conns /\ c \notin free /\ held \in [Workers -> Conns \cup {None}]
      /\ conn \in [Conns -> Link] /\ free \subseteq {d \in Conns : conn[d].open}
    BY DEF PutConn, TypeOK, Link, Accounted, HeldIsOpen
<1>2. /\ new \in Link /\ new.open = (told # "ErrBadConn")
      /\ new.up => new.txn = "I"
    BY DEF Link, Closed
<1>3. \A d \in Conns : conn'[d] = IF d = c THEN new ELSE conn[d]
    BY <1>1
<1>4. \A v \in Workers : held'[v] = IF v = w THEN None ELSE held[v]
    BY <1>1
<1>5. \A v \in Workers \ {w} : held[v] # c
    BY <1>1 DEF Accounted, HeldByOne
<1>6. conn' \in [Conns -> Link] /\ free' \subseteq {d \in Conns : conn'[d].open}
    BY <1>1, <1>2, <1>3
<1>7. HeldByOne'
    BY <1>4 DEF Accounted, HeldByOne
<1>8. HeldIsOpen'
    BY <1>1, <1>3, <1>4, <1>5 DEF Accounted, HeldIsOpen
<1>9. OpenIsHeld'
    BY <1>1, <1>2, <1>3, <1>4 DEF Accounted, OpenIsHeld
<1>10. TransactionsOwned'
    BY <1>1, <1>2, <1>3, <1>4 DEF TransactionsOwned
<1> QED
    BY <1>1, <1>6, <1>7, <1>8, <1>9, <1>10 DEF Accounted


----------------------------------------------------------------------------
(* The steps of an operation *)

\* A step that touches no connection.
LEMMA PoolFrame ==
    ASSUME Accounted, TransactionsOwned,
           conn' = conn, free' = free, held' = held, inTx' = inTx
    PROVE  Accounted' /\ TransactionsOwned'
    BY DEF Accounted, HeldByOne, HeldIsOpen, OpenIsHeld, TransactionsOwned

LEMMA KeepsAlone ==
    ASSUME SessionInv, NEW w \in Workers,
           \/ \E o \in GormOps : Call(w, o)
           \/ Queue(w) \/ OpenFails(w) \/ NothingToEnd(w) \/ Return(w)
    PROVE  SessionInv'
<1> USE PoolFrame, SessionAssumption
        DEF SessionInv, TypeOK, HandlersTidy, Goto, Labels, GormOps, poolVars
<1>1. ASSUME NEW o \in GormOps, Call(w, o) PROVE SessionInv'
    BY <1>1 DEF Call
<1>2. CASE Queue(w)
    BY <1>2 DEF Queue, Needs
<1>3. CASE OpenFails(w)
    <2> USE <1>3 DEF OpenFails, Needs
    <2>1. waiting' \in Seq(Workers) /\ cuts' \in 0 .. MaxCuts
        BY DEF Leave
    <2>2. \E l \in {"statement", "finish", "done"} : pc' = [pc EXCEPT ![w] = l]
        OBVIOUS
    <2>3. held[w] = None /\ ~inTx[w]
        OBVIOUS
    <2>4. failed' = failed \/ failed' = [failed EXCEPT ![w] = TRUE]
        BY DEF Fail
    <2>5. failed' \in [Workers -> BOOLEAN]
        BY <2>4
    <2>6. 0 \in 0 .. MaxTries
        OBVIOUS
    <2>7. tries' \in [Workers -> 0 .. MaxTries]
        BY <2>6
    <2>8. HandlersTidy'
        BY <2>2, <2>3
    <2> QED
        BY <2>1, <2>2, <2>5, <2>7, <2>8
<1>4. CASE NothingToEnd(w)
    BY <1>4 DEF NothingToEnd
<1>5. CASE Return(w)
    BY <1>5 DEF Return
<1> QED
    BY <1>1, <1>2, <1>3, <1>4, <1>5

LEMMA KeepsCheckout ==
    ASSUME SessionInv, NEW w \in Workers, Checkout(w)
    PROVE  SessionInv'
<1> USE DEF SessionInv
<1>1. PICK c \in Conns :
        /\ held' = [held EXCEPT ![w] = c]
        /\ \/ c \in free /\ free' = free \ {c} /\ conn' = conn
           \/ ~conn[c].open /\ free = {} /\ free' = free
              /\ conn' = [conn EXCEPT ![c] = Fresh]
    BY DEF Checkout, Slots, TypeOK
<1>2. /\ \A v \in Workers : held'[v] = IF v = w THEN c ELSE held[v]
      /\ held[w] = None /\ pc[w] \in {"begin", "statement"}
      /\ pc' = pc /\ inTx' = inTx
      /\ UNCHANGED <<op, tries, failed, begun, cuts>>
    BY <1>1 DEF Checkout, Needs, TypeOK
<1>3. /\ conn \in [Conns -> Link] /\ conn' \in [Conns -> Link] /\ conn'[c].open
      /\ \A d \in Conns \ {c} : conn'[d] = conn[d]
      /\ conn'[c] = conn[c] \/ conn'[c].txn = "I"
    <2>1. Fresh \in Link /\ Fresh.open /\ Fresh.txn = "I"
        BY DEF Link, Fresh, Closed
    <2>2. conn \in [Conns -> Link] /\ free \subseteq {d \in Conns : conn[d].open}
        BY DEF TypeOK, Link
    <2> QED
        BY <1>1, <2>1, <2>2
<1>4. waiting' \in Seq(Workers)
    BY DEF Checkout, Leave, TypeOK
<1>5. \A v \in Workers : held[v] # c
    BY <1>1, SessionAssumption DEF Accounted, HeldIsOpen
<1>6. TypeOK'
    BY <1>1, <1>2, <1>3, <1>4 DEF TypeOK, Link
<1>7. HandlersTidy'
    BY <1>2 DEF HandlersTidy
<1>8. HeldByOne'
    BY <1>2, <1>5 DEF Accounted, HeldByOne
<1>9. HeldIsOpen'
    BY <1>1, <1>2, <1>3, <1>5 DEF Accounted, HeldIsOpen, TypeOK
<1>10. OpenIsHeld'
    <2> SUFFICES ASSUME NEW d \in Conns, conn'[d].open
                 PROVE  d \in free' \/ \E v \in Workers : held'[v] = d
        BY DEF OpenIsHeld
    <2>1. CASE d = c
        BY <1>2, <2>1
    <2>2. CASE d # c
        BY <1>1, <1>2, <1>3, <2>2, SessionAssumption DEF Accounted, OpenIsHeld
    <2> QED
        BY <2>1, <2>2
<1>11. TransactionsOwned'
    <2> SUFFICES ASSUME NEW d \in Conns, conn'[d].up, conn'[d].txn # "I"
                 PROVE  ~conn'[d].bad /\ \E v \in Workers : held'[v] = d /\ inTx'[v]
        BY DEF TransactionsOwned
    <2>1. conn'[d] = conn[d]
        BY <1>3
    <2>2. PICK v \in Workers : held[v] = d /\ inTx[v] /\ ~conn[d].bad
        BY <2>1 DEF TransactionsOwned
    <2>3. v # w
        BY <1>2, <2>2, SessionAssumption
    <2> QED
        BY <1>2, <2>1, <2>2, <2>3
<1> QED
    BY <1>6, <1>7, <1>8, <1>9, <1>10, <1>11 DEF Accounted


\* A goroutine holds an open connection whose transaction, if any, is its own.
LEMMA HeldLink ==
    ASSUME SessionInv, NEW w \in Workers, held[w] # None
    PROVE  /\ held[w] \in Conns /\ conn[held[w]] \in Link /\ conn[held[w]].open
           /\ conn[held[w]].up /\ conn[held[w]].txn # "I" => inTx[w] /\ ~conn[held[w]].bad
<1>1. held[w] \in Conns /\ conn[held[w]] \in Link /\ conn[held[w]].open
    BY DEF SessionInv, TypeOK, Link, Accounted, HeldIsOpen
<1>2. ASSUME conn[held[w]].up, conn[held[w]].txn # "I"
      PROVE  inTx[w] /\ ~conn[held[w]].bad
    <2>1. PICK v \in Workers : held[v] = held[w] /\ inTx[v]
        BY <1>1, <1>2 DEF SessionInv, TransactionsOwned
    <2>2. v = w
        BY <2>1 DEF SessionInv, Accounted, HeldByOne
    <2> QED
        BY <1>1, <1>2, <2>1, <2>2 DEF SessionInv, TransactionsOwned
<1> QED
    BY <1>1, <1>2

\* An exchange after which the goroutine keeps its connection, in a transaction.
LEMMA KeepsLink ==
    ASSUME SessionInv, NEW w \in Workers, held[w] # None,
           NEW after \in Link, after.open,
           after.up /\ after.txn # "I" => ~after.bad,
           conn' = [conn EXCEPT ![held[w]] = after],
           free' = free, held' = held,
           inTx' = [inTx EXCEPT ![w] = TRUE]
    PROVE  /\ conn' \in [Conns -> Link]
           /\ free' \subseteq {d \in Conns : conn'[d].open}
           /\ Accounted' /\ TransactionsOwned'
<1> DEFINE c == held[w]
<1>1. /\ c \in Conns /\ conn \in [Conns -> Link] /\ inTx \in [Workers -> BOOLEAN]
      /\ free \subseteq {d \in Conns : conn[d].open}
    BY HeldLink DEF SessionInv, TypeOK, Link
<1>2. /\ conn' \in [Conns -> Link]
      /\ \A d \in Conns : conn'[d] = IF d = c THEN after ELSE conn[d]
      /\ inTx'[w] /\ \A v \in Workers : inTx[v] => inTx'[v]
    BY <1>1
<1>3. free' \subseteq {d \in Conns : conn'[d].open}
    BY <1>1, <1>2
<1>4. Accounted'
    BY <1>2 DEF SessionInv, TypeOK, Accounted, HeldByOne, HeldIsOpen, OpenIsHeld
<1>5. TransactionsOwned'
    <2> SUFFICES ASSUME NEW d \in Conns, conn'[d].up, conn'[d].txn # "I"
                 PROVE  ~conn'[d].bad /\ \E v \in Workers : held'[v] = d /\ inTx'[v]
        BY DEF TransactionsOwned
    <2>1. CASE d = c
        BY <1>2, <2>1
    <2>2. CASE d # c
        BY <1>2, <2>2 DEF SessionInv, TransactionsOwned
    <2> QED
        BY <2>1, <2>2
<1> QED
    BY <1>2, <1>3, <1>4, <1>5

LEMMA KeepsInTx ==
    ASSUME SessionInv, NEW w \in Workers, StatementInTx(w)
    PROVE  SessionInv'
<1> DEFINE k == conn[held[w]]
           refused == [k EXCEPT !.txn = "E"]
<1>1. /\ pc[w] = "statement" /\ inTx[w] /\ held[w] # None
      /\ inTx' = inTx /\ held' = held /\ free' = free /\ waiting' = waiting
      /\ pc' = [pc EXCEPT ![w] = "finish"]
      /\ UNCHANGED <<op, tries, begun>>
    BY DEF StatementInTx, Goto, SessionInv, TypeOK
<1>2. PICK x \in Exchanges(k, k, refused) :
        /\ CountCut(k, x[2]) /\ conn' = [conn EXCEPT ![held[w]] = x[2]]
        /\ failed' = [failed EXCEPT ![w] = x[1] # "ok"]
    BY DEF StatementInTx
<1>3. /\ k \in Link /\ k.open /\ refused \in Link /\ refused.open /\ (k.up => refused.up)
      /\ ~k.bad => ~refused.bad
      /\ k.up /\ k.txn # "I" => ~k.bad
    BY <1>1, HeldLink DEF Link
<1>4. /\ x[2] \in Link /\ x[2].open /\ cuts' \in 0 .. MaxCuts
      /\ x[2].up /\ x[2].txn # "I" => ~x[2].bad
    <2> HIDE DEF k, refused
    <2> QED
        BY <1>2, <1>3, ExchangeOutcomes DEF SessionInv
<1>5. inTx' = [inTx EXCEPT ![w] = TRUE]
    BY <1>1 DEF SessionInv, TypeOK
<1>6. /\ conn' \in [Conns -> Link] /\ Accounted' /\ TransactionsOwned'
      /\ free' \subseteq {d \in Conns : conn'[d].open}
    BY <1>1, <1>2, <1>4, <1>5, KeepsLink
<1>7. TypeOK'
    BY <1>1, <1>2, <1>4, <1>6 DEF SessionInv, TypeOK, Link, Labels
<1>8. HandlersTidy'
    BY <1>1 DEF SessionInv, TypeOK, HandlersTidy
<1> QED
    BY <1>6, <1>7, <1>8 DEF SessionInv


LEMMA KeepsCloseRows ==
    ASSUME SessionInv, NEW w \in Workers, CloseRows(w)
    PROVE  SessionInv'
<1> DEFINE k == conn[held[w]]
<1>1. /\ held[w] # None /\ ~inTx[w] /\ inTx' = inTx
      /\ pc' = [pc EXCEPT ![w] = "done"]
      /\ UNCHANGED <<op, tries, failed, begun>>
    BY DEF CloseRows, Goto, SessionInv, HandlersTidy
<1>2. PICK x \in Exchanges(k, k, k) : CountCut(k, x[2]) /\ PutConn(w, x[2], x[1])
    BY DEF CloseRows
<1>3. k \in Link /\ k.open /\ (k.up => k.txn = "I")
    BY <1>1, HeldLink
<1>4. /\ x[2] \in Link /\ x[2].open /\ cuts' \in 0 .. MaxCuts
      /\ x[2].up => x[2].txn = "I"
    <2> HIDE DEF k
    <2> QED
        BY <1>2, <1>3, ExchangeOutcomes DEF SessionInv
<1>5. /\ conn' \in [Conns -> Link] /\ Accounted' /\ TransactionsOwned'
      /\ free' \subseteq {d \in Conns : conn'[d].open}
      /\ held' = [held EXCEPT ![w] = None] /\ waiting' = waiting
    BY <1>1, <1>2, <1>4, PutConnKeeps DEF SessionInv
<1>6. TypeOK'
    BY <1>1, <1>4, <1>5 DEF SessionInv, TypeOK, Link, Labels
<1>7. HandlersTidy'
    BY <1>1, <1>5 DEF SessionInv, TypeOK, HandlersTidy
<1> QED
    BY <1>5, <1>6, <1>7 DEF SessionInv

LEMMA KeepsEndTx ==
    ASSUME SessionInv, NEW w \in Workers, CommitOrRollback(w)
    PROVE  SessionInv'
<1> DEFINE k == conn[held[w]]
           ended == [k EXCEPT !.txn = "I"]
           strange == [k EXCEPT !.bad = TRUE]
<1>1. /\ inTx[w] /\ held[w] # None
      /\ inTx' = [inTx EXCEPT ![w] = FALSE]
      /\ pc' = [pc EXCEPT ![w] = "done"]
      /\ UNCHANGED <<op, tries, failed, begun>>
    BY DEF CommitOrRollback, Goto, SessionInv, TypeOK
<1>2. PICK x \in IF ~k.bad /\ Unexpected(k, TRUE)
                  THEN {<<"error", strange>>} ELSE Exchanges(k, ended, ended) :
        CountCut(k, x[2]) /\ PutConn(w, x[2], "ok")
    BY DEF CommitOrRollback, EndTx
<1>3. /\ k \in Link /\ k.open /\ ended \in Link /\ ended.open /\ (k.up => ended.up)
      /\ strange \in Link /\ strange.open /\ (k.up => strange.up)
      /\ ended.txn = "I" /\ strange.txn = k.txn
      /\ k.up /\ k.txn # "I" => ~k.bad
    BY <1>1, HeldLink DEF Link
<1>4. /\ x[2] \in Link /\ x[2].open /\ cuts' \in 0 .. MaxCuts
      /\ x[2].up => x[2].txn = "I"
    <2>1. CASE ~k.bad /\ Unexpected(k, TRUE)
        <3>1. x = <<"error", strange>> /\ k.txn = "I"
            BY <1>2, <2>1 DEF Unexpected
        <3>2. ~(k.up /\ ~x[2].up)
            BY <1>3, <3>1
        <3>3. cuts' \in 0 .. MaxCuts
            BY <1>2, <3>2 DEF CountCut, SessionInv, TypeOK
        <3> QED
            BY <1>3, <3>1, <3>3
    <2>2. CASE ~(~k.bad /\ Unexpected(k, TRUE))
        <3>1. x \in Exchanges(k, ended, ended)
            BY <1>2, <2>2
        <3> HIDE DEF k, ended, strange
        <3> QED
            BY <1>2, <1>3, <3>1, ExchangeOutcomes DEF SessionInv
    <2> QED
        BY <2>1, <2>2
<1>5. /\ conn' \in [Conns -> Link] /\ Accounted' /\ TransactionsOwned'
      /\ free' \subseteq {d \in Conns : conn'[d].open}
      /\ held' = [held EXCEPT ![w] = None] /\ waiting' = waiting
    <2>1. \A v \in Workers \ {w} : inTx'[v] = inTx[v]
        BY <1>1 DEF SessionInv, TypeOK
    <2> QED
        BY <1>1, <1>2, <1>4, <2>1, PutConnKeeps DEF SessionInv
<1>6. TypeOK'
    BY <1>1, <1>4, <1>5 DEF SessionInv, TypeOK, Link, Labels
<1>7. HandlersTidy'
    BY <1>1, <1>5 DEF SessionInv, TypeOK, HandlersTidy
<1> QED
    BY <1>5, <1>6, <1>7 DEF SessionInv

LEMMA KeepsStatement ==
    ASSUME SessionInv, NEW w \in Workers, Statement(w)
    PROVE  SessionInv'
<1> DEFINE k == conn[held[w]]
<1>1. /\ held[w] # None /\ ~inTx[w] /\ inTx' = inTx /\ pc[w] = "statement"
      /\ UNCHANGED <<op, begun>>
    BY DEF Statement
<1>2. PICK x \in Exchanges(k, k, k) :
        /\ CountCut(k, x[2])
        /\ \/ /\ x[1] = "ok" /\ pc' = [pc EXCEPT ![w] = "rows"]
              /\ UNCHANGED <<poolVars, held, tries, failed>>
           \/ /\ PutConn(w, x[2], x[1]) /\ pc' = pc /\ failed' = failed
              /\ Again(w, x[1]) /\ tries' = [tries EXCEPT ![w] = @ + 1]
           \/ /\ PutConn(w, x[2], x[1]) /\ tries' = tries
              /\ \E l \in {"finish", "done"} : pc' = [pc EXCEPT ![w] = l]
              /\ failed' = [failed EXCEPT ![w] = x[1] # "ok"]
    BY DEF Statement, Goto
<1>3. k \in Link /\ k.open /\ (k.up => k.txn = "I")
    BY <1>1, HeldLink
<1>4. /\ x[2] \in Link /\ x[2].open /\ cuts' \in 0 .. MaxCuts
      /\ x[2].up => x[2].txn = "I"
    <2> HIDE DEF k
    <2> QED
        BY <1>2, <1>3, ExchangeOutcomes DEF SessionInv
<1>5. CASE pc' = [pc EXCEPT ![w] = "rows"] /\ UNCHANGED <<poolVars, held, tries, failed>>
    <2>1. Accounted' /\ TransactionsOwned'
        BY <1>1, <1>5, PoolFrame DEF SessionInv, poolVars
    <2>2. TypeOK'
        BY <1>1, <1>4, <1>5 DEF SessionInv, TypeOK, poolVars, Labels
    <2>3. HandlersTidy'
        BY <1>1, <1>5 DEF SessionInv, TypeOK, HandlersTidy
    <2> QED
        BY <2>1, <2>2, <2>3 DEF SessionInv
<1>6. ASSUME PutConn(w, x[2], x[1]),
             \/ /\ pc' = pc /\ failed' = failed
                /\ Again(w, x[1]) /\ tries' = [tries EXCEPT ![w] = @ + 1]
             \/ /\ tries' = tries
                /\ \E l \in {"finish", "done"} : pc' = [pc EXCEPT ![w] = l]
                /\ failed' = [failed EXCEPT ![w] = x[1] # "ok"]
      PROVE  SessionInv'
    <2>1. /\ conn' \in [Conns -> Link] /\ Accounted' /\ TransactionsOwned'
          /\ free' \subseteq {d \in Conns : conn'[d].open}
          /\ held' = [held EXCEPT ![w] = None] /\ waiting' = waiting
        BY <1>1, <1>4, <1>6, PutConnKeeps DEF SessionInv
    <2>2. tries' \in [Workers -> 0 .. MaxTries]
        <3>1. tries[w] \in 0 .. MaxTries /\ tries \in [Workers -> 0 .. MaxTries]
            BY DEF SessionInv, TypeOK
        <3>2. CASE tries' = tries
            BY <3>1, <3>2
        <3>3. CASE Again(w, x[1]) /\ tries' = [tries EXCEPT ![w] = @ + 1]
            BY <3>1, <3>3, SessionAssumption DEF Again
        <3> QED
            BY <1>6, <3>2, <3>3
    <2>3. failed' \in [Workers -> BOOLEAN]
        BY <1>6 DEF SessionInv, TypeOK
    <2>4. PICK l \in {"statement", "finish", "done"} : pc' = [pc EXCEPT ![w] = l]
        BY <1>1, <1>6 DEF SessionInv, TypeOK
    <2>5. TypeOK'
        BY <1>1, <1>4, <2>1, <2>2, <2>3, <2>4 DEF SessionInv, TypeOK, Link, Labels
    <2>6. HandlersTidy'
        BY <1>1, <2>1, <2>4 DEF SessionInv, TypeOK, HandlersTidy
    <2> QED
        BY <2>1, <2>5, <2>6 DEF SessionInv
<1> QED
    BY <1>2, <1>5, <1>6

\* Whatever becomes of BEGIN, a goroutine without a transaction has no connection.
LEMMA KeepsBegin ==
    ASSUME SessionInv, NEW w \in Workers, Begin(w)
    PROVE  SessionInv'
<1> DEFINE k == conn[held[w]]
           opened == [k EXCEPT !.txn = "T"]
           strange == [k EXCEPT !.bad = TRUE]
<1>1. /\ held[w] # None /\ pc[w] = "begin" /\ ~inTx[w]
      /\ UNCHANGED <<op, failed, begun>>
    BY DEF Begin, SessionInv, HandlersTidy
<1>2. PICK x \in BeginTx(k) :
        /\ CountCut(k, x[2])
        /\ IF x[1] = "ok"
           THEN conn' = [conn EXCEPT ![held[w]] = x[2]] /\ UNCHANGED <<held, free, waiting>>
           ELSE PutConn(w, x[2], x[1])
        /\ inTx' = [inTx EXCEPT ![w] = (x[1] = "ok")]
        /\ \/ Again(w, x[1]) /\ tries' = [tries EXCEPT ![w] = @ + 1] /\ pc' = pc
           \/ ~Again(w, x[1]) /\ tries' = [tries EXCEPT ![w] = 0]
              /\ pc' = [pc EXCEPT ![w] = "statement"]
    BY DEF Begin, Goto, Started
<1>3. /\ k \in Link /\ k.open /\ (k.up => k.txn = "I")
      /\ opened \in Link /\ opened.open /\ (k.up => opened.up)
      /\ ~k.bad => ~opened.bad
      /\ strange \in Link /\ strange.open /\ (k.up => strange.up) /\ strange.txn = k.txn
      /\ strange.up = k.up
    BY <1>1, HeldLink DEF Link
<1>4. /\ x[2] \in Link /\ x[2].open /\ cuts' \in 0 .. MaxCuts
      /\ x[1] # "ok" => (x[2].up => x[2].txn = "I")
      /\ x[1] = "ok" => ~x[2].bad
    <2>1. CASE ~k.bad /\ Unexpected(k, FALSE)
        <3>1. x = <<"error", strange>>
            BY <1>2, <2>1 DEF BeginTx
        <3>2. ~(k.up /\ ~x[2].up)
            BY <1>3, <3>1
        <3>3. cuts' \in 0 .. MaxCuts
            BY <1>2, <3>2 DEF CountCut, SessionInv, TypeOK
        <3>4. x[2].up => x[2].txn = "I"
            BY <1>3, <3>1
        <3> QED
            BY <1>3, <3>1, <3>3, <3>4
    <2>2. CASE ~(~k.bad /\ Unexpected(k, FALSE))
        <3>1. x \in Exchanges(k, opened, k)
            BY <1>2, <2>2 DEF BeginTx
        <3> HIDE DEF k, opened, strange
        <3> QED
            BY <1>2, <1>3, <3>1, ExchangeOutcomes DEF SessionInv
    <2> QED
        BY <2>1, <2>2
<1>5. tries' \in [Workers -> 0 .. MaxTries]
    <2>1. tries[w] \in 0 .. MaxTries /\ tries \in [Workers -> 0 .. MaxTries]
        BY DEF SessionInv, TypeOK
    <2>2. CASE Again(w, x[1]) /\ tries' = [tries EXCEPT ![w] = @ + 1]
        BY <2>1, <2>2, SessionAssumption DEF Again
    <2>3. CASE tries' = [tries EXCEPT ![w] = 0]
        BY <2>1, <2>3, SessionAssumption
    <2> QED
        BY <1>2, <2>2, <2>3
<1>6. PICK l \in {"begin", "statement"} : pc' = [pc EXCEPT ![w] = l]
    BY <1>1, <1>2 DEF SessionInv, TypeOK
<1>7. CASE x[1] = "ok"
    <2>1. /\ inTx' = [inTx EXCEPT ![w] = TRUE] /\ UNCHANGED <<held, free, waiting>>
          /\ conn' = [conn EXCEPT ![held[w]] = x[2]]
          /\ pc' = [pc EXCEPT ![w] = "statement"]
        BY <1>2, <1>7 DEF Again
    <2>2. /\ conn' \in [Conns -> Link] /\ Accounted' /\ TransactionsOwned'
          /\ free' \subseteq {d \in Conns : conn'[d].open}
        BY <1>1, <1>4, <1>7, <2>1, KeepsLink
    <2>3. TypeOK'
        BY <1>1, <1>4, <1>5, <2>1, <2>2 DEF SessionInv, TypeOK, Link, Labels
    <2>4. HandlersTidy'
        BY <1>1, <2>1 DEF SessionInv, TypeOK, HandlersTidy
    <2> QED
        BY <2>2, <2>3, <2>4 DEF SessionInv
<1>8. CASE x[1] # "ok"
    <2>1. inTx' \in [Workers -> BOOLEAN] /\ \A v \in Workers : inTx'[v] <=> inTx[v]
        BY <1>1, <1>2, <1>8 DEF SessionInv, TypeOK
    <2>2. /\ conn' \in [Conns -> Link] /\ Accounted' /\ TransactionsOwned'
          /\ free' \subseteq {d \in Conns : conn'[d].open}
          /\ held' = [held EXCEPT ![w] = None] /\ waiting' = waiting
        BY <1>1, <1>2, <1>4, <1>8, <2>1, PutConnKeeps DEF SessionInv
    <2>3. TypeOK'
        BY <1>1, <1>4, <1>5, <1>6, <2>1, <2>2 DEF SessionInv, TypeOK, Link, Labels
    <2>4. HandlersTidy'
        BY <1>1, <1>6, <2>1, <2>2 DEF SessionInv, TypeOK, HandlersTidy
    <2> QED
        BY <2>2, <2>3, <2>4 DEF SessionInv
<1> QED
    BY <1>7, <1>8

----------------------------------------------------------------------------

LEMMA SessionInit == Init => SessionInv
<1> SUFFICES ASSUME Init PROVE SessionInv
    OBVIOUS
<1>1. TypeOK
    BY SessionAssumption DEF Init, TypeOK, Closed, Labels, GormOps
<1> QED
    BY <1>1 DEF Init, SessionInv, HandlersTidy, Accounted, HeldByOne, HeldIsOpen, OpenIsHeld,
              TransactionsOwned, Closed

LEMMA SessionNext == SessionInv /\ [Next]_vars => SessionInv'
<1> SUFFICES ASSUME SessionInv, [Next]_vars PROVE SessionInv'
    OBVIOUS
<1>1. CASE UNCHANGED vars
    BY <1>1, PoolFrame DEF vars, poolVars, SessionInv, TypeOK, HandlersTidy
<1>2. ASSUME NEW w \in Workers, Step(w) PROVE SessionInv'
    BY <1>2, KeepsAlone, KeepsCheckout, KeepsBegin, KeepsStatement, KeepsInTx,
       KeepsCloseRows, KeepsEndTx DEF Step
<1>3. ASSUME NEW w \in Workers, \E o \in GormOps : Call(w, o) PROVE SessionInv'
    BY <1>3, KeepsAlone
<1> QED
    BY <1>1, <1>2, <1>3 DEF Next

LEMMA SessionInvariant == Spec => []SessionInv
    BY SessionInit, SessionNext, PTL DEF Spec

\* The states of gorm, database/sql and lib/pq stay within their types; a goroutine is
\* never in a transaction without the connection it runs on.
THEOREM SessionTypeCorrect == Spec => []TypeOK
<1>1. SessionInv => TypeOK
    BY DEF SessionInv
<1> QED
    BY <1>1, SessionInvariant, PTL

\* No connection is shared by two goroutines and none leaks, with any pool, any number of
\* goroutines, retries and losses (db.go:53).
THEOREM ConnectionsStayAccounted == Spec => []ConnectionsAccounted
<1>1. SessionInv => ConnectionsAccounted
    <2> SUFFICES ASSUME SessionInv PROVE ConnectionsAccounted
        OBVIOUS
    <2>1. \A c \in Conns : (\E w \in Workers : held[w] = c) => conn[c].open
        BY SessionAssumption DEF SessionInv, Accounted, HeldIsOpen
    <2>2. \A c \in free : conn[c].open
        BY DEF SessionInv, TypeOK
    <2> QED
        BY <2>1, <2>2 DEF SessionInv, Accounted, HeldByOne, HeldIsOpen, OpenIsHeld,
                         ConnectionsAccounted
<1> QED
    BY <1>1, SessionInvariant, PTL

\* No live connection goes back to the pool with a transaction open, whatever becomes of
\* BEGIN, COMMIT and ROLLBACK, whose errors gorm drops.
THEOREM PoolStaysClean == Spec => []PoolClean
<1>1. SessionInv => PoolClean
    BY DEF SessionInv, TypeOK, Accounted, HeldIsOpen, TransactionsOwned, PoolClean
<1> QED
    BY <1>1, SessionInvariant, PTL


=============================================================================
