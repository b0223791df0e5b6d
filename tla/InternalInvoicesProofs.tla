------------------------ MODULE InternalInvoicesProofs ------------------------
(***************************************************************************)
(* Theorems about InternalInvoices, for any number of transactions and any *)
(* totals and amounts.                                                     *)
(***************************************************************************)
EXTENDS InternalInvoices, TLAPS

-----------------------------------------------------------------------------
(* The inductive invariant *)

\* No two transactions hold row locks that conflict.
LocksCompatible ==
  \A c, d \in Clients : c # d => {tx[c].lock, tx[d].lock} \notin Conflicting

HasRow(t) == t.lock \in {"nokey", "update"}

Sees(t, inv) == IF HasRow(t) THEN t.own ELSE inv

Repeats(t) == t.op \in External /\ t.amount = 0

\* A transaction's reads and locks at each statement, when the committed row
\* is inv and its committed payments sum to p.
Holding(t) ==
  /\ t.pc \in {"idle", "select", "insert"} => t.lock = "none" /\ t.amount = 0
  /\ t.pc = "select" => t.op \in Edits \cup Closes \cup Applies
  /\ t.pc \in {"insert", "bump"} => t.op \in Payments \cup External
  /\ t.pc = "change" => /\ t.lock = "update" /\ t.amount = 0
                        /\ t.op \in Edits \cup Closes \cup Applies
  /\ t.pc = "bump" => t.lock = "share" /\ t.amount # 0
  /\ t.pc \in {"status", "sum", "set"} => (IF Repeats(t) THEN t.lock = "none" ELSE HasRow(t))
  /\ t.pc = "commit" => IF Repeats(t) THEN t.lock \in {"none", "nokey"} ELSE HasRow(t)
  /\ t.pc \in {"status", "sum", "set", "commit"} => t.op \in Ops
  /\ t.pc \in {"idle", "select", "insert", "change", "bump"} => ~t.raced
  /\ ~Repeats(t) => ~t.raced

\* The version it will write.
Counts(t, inv) ==
  /\ t.pc = "change" => t.own.version = inv.version
  /\ t.pc \in {"status", "sum", "set", "commit"} /\ HasRow(t) =>
       t.own.version = IF Repeats(t) THEN inv.version ELSE inv.version + 1

\* The status it will write, unless what it has read is out of date.
Derives(t, inv, p) ==
  /\ t.pc = "change" => t.own = inv /\ (t.op \in Edits => inv.status \notin Dead)
  /\ t.op \in Closes /\ HasRow(t) /\ t.pc # "change" =>
       t.pc = "commit" /\ t.own.status = t.op.status
  /\ t.op \in Applies /\ t.pc \in {"status", "sum", "set"} => t.own.status = t.op.status
  /\ t.op \in Edits /\ HasRow(t) => inv.status \notin Dead
  /\ t.op \notin Closes \cup Applies /\ t.pc \in {"status", "sum", "set"} /\ HasRow(t) =>
       t.own.status = inv.status
  /\ t.pc \in {"sum", "set"} /\ ~t.raced =>
       Sees(t, inv).status \notin Dead /\ t.total = Sees(t, inv).total
  /\ t.pc = "set" /\ ~t.raced => t.sum = p + t.amount
  /\ t.pc = "commit" /\ t.op \notin Closes /\ HasRow(t) /\ ~t.raced =>
       \/ t.op \in Applies /\ t.op.status \in Dead /\ t.own.status = t.op.status
       \/ t.op \notin Applies /\ t.own.status = inv.status /\ inv.status \in Dead
       \/ /\ t.own.status = Derived(t.own.total, p + t.amount)
          /\ IF t.op \in Applies THEN t.op.status \notin Dead ELSE inv.status \notin Dead

Sound(t, inv, p) == Holding(t) /\ Counts(t, inv) /\ Derives(t, inv, p)

IInv ==
  /\ LocksCompatible
  /\ \A c \in Clients : Sound(tx[c], row, paid)
  /\ StatusFollows /\ EveryWriteCounts

-----------------------------------------------------------------------------
(* Type correctness *)

WellTyped(t) ==
  t \in Transaction /\ (t.pc = "idle" => t = Idle) /\ (HasRow(t) => t.own \in Invoice)

\* What the statements compute of rows, totals and payments.
LEMMA Values ==
  /\ \A total, sum : Derived(total, sum) \in Statuses
  /\ \A inv \in Invoice, op \in Edits \cup Closes \cup Applies : Changed(inv, op) \in Invoice
  /\ \A inv \in Invoice : inv.total \in Nat /\ [inv EXCEPT !.version = @ + 1] \in Invoice
  /\ \A inv \in Invoice, st \in Statuses : [inv EXCEPT !.status = st] \in Invoice
  /\ \A op \in Payments \cup External : op.amount \in Amounts /\ op.amount \in Nat \ {0}
<1>1. \A total, sum : Derived(total, sum) \in Statuses
  BY DEF Derived, Statuses
<1>2. ASSUME NEW inv \in Invoice, NEW op \in Edits \cup Closes \cup Applies
      PROVE  Changed(inv, op) \in Invoice
  <2>1. CASE op \in Edits
    <3>1. op \notin Closes
      BY <2>1 DEF Edits, Closes
    <3> QED BY <2>1, <3>1 DEF Changed, Invoice, Edits
  <2>2. CASE op \in Closes
    <3>1. op \notin Edits
      BY <2>2 DEF Edits, Closes
    <3> QED BY <2>2, <3>1 DEF Changed, Invoice, Closes, Statuses, Dead
  <2>3. CASE op \in Applies
    <3>1. op \notin Edits /\ op \notin Closes
      BY <2>3 DEF Edits, Closes, Applies
    <3> QED BY <2>3, <3>1 DEF Changed, Invoice, Applies, Statuses, Dead
  <2> QED BY <2>1, <2>2, <2>3
<1>3. \A inv \in Invoice : inv.total \in Nat /\ [inv EXCEPT !.version = @ + 1] \in Invoice
  BY ConstantsOK DEF ConstantsOK, Invoice
<1>4. \A inv \in Invoice, st \in Statuses : [inv EXCEPT !.status = st] \in Invoice
  BY DEF Invoice
<1>5. \A op \in Payments \cup External : op.amount \in Amounts /\ op.amount \in Nat \ {0}
  BY ConstantsOK DEF ConstantsOK, Payments, External
<1> QED BY <1>1, <1>2, <1>3, <1>4, <1>5

LEMMA AmountsNat == \A amount \in Amounts \cup {0} : amount \in Nat
<1>1. \A amount \in Amounts : amount \in Nat
  BY ConstantsOK DEF ConstantsOK
<1> QED BY <1>1

\* A statement that gives a well-typed transaction and leaves the committed
\* state alone keeps the types.
LEMMA SetTyped ==
  ASSUME TypeOK, NEW c \in Clients, NEW t, Set(c, t), WellTyped(t)
  PROVE  TypeOK'
  BY DEF TypeOK, Set, Pending, WellTyped, HasRow, Alone

LEMMA IdleTyped == WellTyped(Idle)
  BY DEF WellTyped, Transaction, Idle, HasRow

\* The types, and the transactions' places, are kept by every step.
LEMMA TypeStep == TypeOK /\ (\A c \in Clients : Holding(tx[c])) /\ [Next]_vars => TypeOK'
<1> SUFFICES ASSUME TypeOK, \A c \in Clients : Holding(tx[c]), [Next]_vars PROVE TypeOK'
  OBVIOUS
<1>0. /\ \A c \in Clients : WellTyped(tx[c])
      /\ row \in Invoice /\ paid \in Nat
  BY DEF TypeOK, WellTyped, HasRow, Alone
<1>1. ASSUME NEW c \in Clients, NEW op \in Ops, Begin(c, op) PROVE TypeOK'
  <2> DEFINE t == [Idle EXCEPT !.op = op,
                     !.pc = IF op \in Payments \cup External THEN "insert" ELSE "select"]
  <2>1. t \in Transaction /\ t.pc # "idle" /\ t.lock = "none"
    BY <1>1 DEF Idle, Transaction
  <2>2. tx' = [tx EXCEPT ![c] = t]
    BY <1>1 DEF Begin
  <2> HIDE DEF t
  <2>3. ops' \in 0..MaxOps
    BY <1>1, ConstantsOK DEF ConstantsOK, Begin, TypeOK
  <2> QED BY <1>1, <2>1, <2>2, <2>3 DEF Begin, TypeOK, Alone
<1>2. ASSUME NEW c \in Clients, Select(c) PROVE TypeOK'
  <2>1. WellTyped([tx[c] EXCEPT !.pc = "change", !.own = row, !.lock = "update"])
    BY <1>0 DEF WellTyped, Transaction, HasRow
  <2> QED BY <1>2, <2>1, IdleTyped, SetTyped DEF Select
<1>3. ASSUME NEW c \in Clients, Change(c) PROVE TypeOK'
  <2>1. /\ tx[c].op \in Edits \cup Closes \cup Applies /\ HasRow(tx[c])
        /\ tx[c].own \in Invoice
    BY <1>0, <1>3 DEF Change, Holding, HasRow, WellTyped
  <2>2. Changed(tx[c].own, tx[c].op) \in Invoice
    BY <2>1, Values
  <2>3. WellTyped([tx[c] EXCEPT !.own = Changed(@, tx[c].op),
                     !.lock = IF Alone(c) THEN @ ELSE "nokey",
                     !.pc = IF tx[c].op \in Closes THEN "commit" ELSE "status"])
    BY <1>0, <2>2 DEF WellTyped, Transaction, HasRow
  <2> QED BY <1>3, <2>3, SetTyped DEF Change
<1>4. ASSUME NEW c \in Clients, Insert(c) PROVE TypeOK'
  <2>1. tx[c].op \in Payments \cup External
    BY <1>4 DEF Insert, Holding
  <2>2. tx[c].op.amount \in Amounts
    BY <2>1, Values
  <2>3. WellTyped([tx[c] EXCEPT !.pc = "bump", !.amount = tx[c].op.amount, !.lock = "share"])
    BY <1>0, <2>2 DEF WellTyped, Transaction, HasRow
  <2> QED BY <1>4, <2>3, SetTyped DEF Insert
<1>5. ASSUME NEW c \in Clients, InsertDuplicate(c) PROVE TypeOK'
  <2>1. WellTyped([tx[c] EXCEPT !.pc = "status"])
    BY <1>0 DEF WellTyped, Transaction, HasRow
  <2> QED BY <1>5, <2>1, SetTyped DEF InsertDuplicate
<1>6. ASSUME NEW c \in Clients, Bump(c) PROVE TypeOK'
  <2> DEFINE next == [row EXCEPT !.version = @ + 1]
  <2>1. next \in Invoice
    BY <1>0, Values
  <2>2. Set(c, [tx[c] EXCEPT !.pc = "status", !.lock = "nokey", !.own = next])
    BY <1>6 DEF Bump
  <2> HIDE DEF next
  <2>3. WellTyped([tx[c] EXCEPT !.pc = "status", !.lock = "nokey", !.own = next])
    BY <1>0, <2>1 DEF WellTyped, Transaction, HasRow
  <2> QED BY <2>2, <2>3, SetTyped
<1>7. ASSUME NEW c \in Clients, ReadStatus(c) PROVE TypeOK'
  <2>1. Seen(c).total \in Totals
    BY <1>0 DEF Seen, Alone, WellTyped, HasRow, Invoice
  <2>2. /\ WellTyped([tx[c] EXCEPT !.pc = "commit"])
        /\ WellTyped([tx[c] EXCEPT !.pc = "sum", !.total = Seen(c).total])
    BY <1>0, <2>1 DEF WellTyped, Transaction, HasRow
  <2> QED BY <1>7, <2>2, SetTyped DEF ReadStatus
<1>8. ASSUME NEW c \in Clients, SumPayments(c) PROVE TypeOK'
  <2>0. tx[c].amount \in Nat
    <3>1. tx[c].amount \in Amounts \cup {0}
      BY <1>0 DEF WellTyped, Transaction
    <3> QED BY <3>1, AmountsNat
  <2>1. paid + tx[c].amount \in Nat
    BY <1>0, <2>0
  <2>2. WellTyped([tx[c] EXCEPT !.pc = "set", !.sum = paid + tx[c].amount])
    BY <1>0, <2>1 DEF WellTyped, Transaction, HasRow
  <2> QED BY <1>8, <2>2, SetTyped DEF SumPayments
<1>9. ASSUME NEW c \in Clients, SetStatus(c) PROVE TypeOK'
  <2>1. Seen(c) \in Invoice
    BY <1>0 DEF Seen, Alone, WellTyped, HasRow
  <2>2. [Seen(c) EXCEPT !.status = Derived(tx[c].total, tx[c].sum)] \in Invoice
    BY <2>1, Values
  <2>3. WellTyped([tx[c] EXCEPT !.pc = "commit", !.lock = IF Alone(c) THEN @ ELSE "nokey",
                     !.own = [Seen(c) EXCEPT !.status = Derived(tx[c].total, tx[c].sum)]])
    BY <1>0, <2>2 DEF WellTyped, Transaction, HasRow
  <2> QED BY <1>9, <2>3, SetTyped DEF SetStatus
<1>10. ASSUME NEW c \in Clients, Commit(c) PROVE TypeOK'
  <2>1. row' \in Invoice
    BY <1>0, <1>10 DEF Commit, Seen, Alone, WellTyped, HasRow
  <2>2. paid' \in Nat /\ refs' \subseteq Refs
    BY <1>0, <1>10, ConstantsOK DEF ConstantsOK, Commit, WellTyped, Transaction, TypeOK, External
  <2>3. \A d \in Clients : WellTyped(OutOfDate(tx[d]))
    BY <1>0 DEF WellTyped, Transaction, HasRow, OutOfDate, Idle
  <2>4. tx' \in [Clients -> Transaction] /\ \A d \in Clients : WellTyped(tx'[d])
    BY <1>0, <1>10, <2>3, IdleTyped DEF Commit, WellTyped
  <2>5. writes' \in Nat /\ ops' \in 0..MaxOps
    BY <1>10 DEF Commit, TypeOK
  <2>6. life' \in {"open"} \cup Dead
    BY <1>10 DEF Commit, TypeOK, Closes, Applies
  <2>7. stale' \in BOOLEAN
    BY <1>0, <1>10 DEF Commit, TypeOK, WellTyped, Transaction
  <2> QED BY <2>1, <2>2, <2>4, <2>5, <2>6, <2>7 DEF TypeOK, WellTyped, HasRow, Alone
<1>11. ASSUME NEW c \in Clients, Abort(c) PROVE TypeOK'
  BY <1>11, IdleTyped, SetTyped DEF Abort
<1>12. CASE UNCHANGED vars
  BY <1>12 DEF vars, TypeOK, Alone
<1> QED
  BY <1>1, <1>2, <1>3, <1>4, <1>5, <1>6, <1>7, <1>8, <1>9, <1>10, <1>11, <1>12
  DEF Next, Step

-----------------------------------------------------------------------------
(* Locks and versions *)

\* A statement that leaves the committed state alone keeps the invariant when
\* the transaction it gives is sound and its lock was free.
LEMMA SetKeeps ==
  ASSUME TypeOK, IInv, NEW c \in Clients, NEW t,
         tx' = [tx EXCEPT ![c] = t],
         UNCHANGED <<row, paid, writes, life, stale>>,
         Sound(t, row, paid),
         t.lock \in {"none", tx[c].lock} \/ MayTake(c, t.lock)
  PROVE  IInv'
<1>1. \A d \in Clients : tx'[d] = IF d = c THEN t ELSE tx[d]
  BY DEF TypeOK
<1>2. LocksCompatible'
  <2>1. \A d \in Clients : d # c => {t.lock, tx[d].lock} \notin Conflicting
    <3> SUFFICES ASSUME NEW d \in Clients, d # c
                 PROVE  {t.lock, tx[d].lock} \notin Conflicting
      OBVIOUS
    <3>1. CASE t.lock = "none"
      BY <3>1 DEF Conflicting
    <3>2. CASE t.lock = tx[c].lock
      BY <3>2 DEF IInv, LocksCompatible
    <3>3. CASE MayTake(c, t.lock)
      BY <3>3 DEF MayTake
    <3> QED BY <3>1, <3>2, <3>3
  <2>2. \A d, e \in Clients : d # e => {tx'[d].lock, tx'[e].lock} \notin Conflicting
    <3> SUFFICES ASSUME NEW d \in Clients, NEW e \in Clients, d # e
                 PROVE  {tx'[d].lock, tx'[e].lock} \notin Conflicting
      OBVIOUS
    <3>1. CASE d = c
      BY <1>1, <2>1, <3>1
    <3>2. CASE e = c
      <4>1. {tx'[d].lock, tx'[e].lock} = {t.lock, tx[d].lock}
        BY <1>1, <3>2
      <4> QED BY <2>1, <3>2, <4>1
    <3>3. CASE d # c /\ e # c
      BY <1>1, <3>3 DEF IInv, LocksCompatible
    <3> QED BY <3>1, <3>2, <3>3
  <2> QED BY <2>2 DEF LocksCompatible
<1>3. \A d \in Clients : Sound(tx'[d], row', paid')
  BY <1>1 DEF IInv
<1>4. StatusFollows' /\ EveryWriteCounts'
  BY DEF IInv, StatusFollows, EveryWriteCounts
<1> QED BY <1>2, <1>3, <1>4 DEF IInv

\* A transaction that has the row for itself is the only one that does, and no
\* other has inserted a payment into it unless that one has only a key lock.
LEMMA OneWriter ==
  ASSUME LocksCompatible, NEW c \in Clients, Alone(c), NEW d \in Clients, d # c
  PROVE  ~Alone(d)
  BY DEF LocksCompatible, Alone, Conflicting

LEMMA Kinds ==
  /\ Edits \cap Closes = {} /\ Edits \cap Applies = {} /\ Edits \cap Payments = {}
  /\ Edits \cap External = {} /\ Closes \cap Applies = {} /\ Closes \cap Payments = {}
  /\ Closes \cap External = {} /\ Applies \cap Payments = {} /\ Applies \cap External = {}
  /\ Payments \cap External = {}
  BY DEF Edits, Closes, Applies, Payments, External

LEMMA IdleSound ==
  ASSUME NEW inv, NEW p PROVE Sound(Idle, inv, p)
  BY DEF Sound, Holding, Counts, Derives, Idle, HasRow, Repeats

\* Every statement before the commit leaves a sound transaction.
LEMMA StatementStep ==
  ASSUME TypeOK, IInv, NEW c \in Clients,
         \/ \E op \in Ops : Begin(c, op)
         \/ Select(c) \/ Change(c) \/ Insert(c) \/ InsertDuplicate(c) \/ Bump(c)
         \/ ReadStatus(c) \/ SumPayments(c) \/ SetStatus(c) \/ Abort(c)
  PROVE  IInv'
<1> DEFINE t == tx[c]
<1>0. /\ t \in Transaction /\ row \in Invoice /\ paid \in Nat
      /\ Holding(t) /\ Counts(t, row) /\ Derives(t, row, paid)
      /\ Alone(c) <=> HasRow(t)
      /\ Seen(c) = Sees(t, row)
      /\ HasRow(t) => t.own \in Invoice
  BY DEF TypeOK, IInv, Sound, Alone, HasRow, Seen, Sees
<1>a. ASSUME NEW u, Set(c, u), Sound(u, row, paid),
             u.lock \in {"none", t.lock} \/ MayTake(c, u.lock)
      PROVE  IInv'
  BY <1>a, SetKeeps DEF Set, Pending
<1> HIDE DEF t
<1>1. ASSUME NEW op \in Ops, Begin(c, op) PROVE IInv'
  <2> DEFINE u == [Idle EXCEPT !.op = op,
                     !.pc = IF op \in Payments \cup External THEN "insert" ELSE "select"]
  <2>1. /\ u.lock = "none" /\ u.amount = 0 /\ ~u.raced /\ u.op = op
        /\ u.pc = IF op \in Payments \cup External THEN "insert" ELSE "select"
    BY DEF Idle
  <2>2. tx' = [tx EXCEPT ![c] = u] /\ UNCHANGED <<row, paid, writes, life, stale>>
    BY <1>1 DEF Begin
  <2> HIDE DEF u
  <2>3. Sound(u, row, paid)
    BY <2>1, Kinds DEF Sound, Holding, Counts, Derives, HasRow, Repeats, Ops
  <2> QED BY <2>1, <2>2, <2>3, SetKeeps
<1>2. CASE Select(c)
  <2>1. CASE tx[c].op \in Edits /\ row.status \in Dead
    BY <1>2, <1>a, <2>1, IdleSound DEF Select, Idle
  <2>2. CASE ~(tx[c].op \in Edits /\ row.status \in Dead)
    <3> DEFINE u == [t EXCEPT !.pc = "change", !.own = row, !.lock = "update"]
    <3>1. /\ u.pc = "change" /\ u.own = row /\ u.lock = "update" /\ u.op = t.op
          /\ u.amount = t.amount /\ u.raced = t.raced
      BY <1>0 DEF Transaction
    <3>2. Set(c, u) /\ MayTake(c, "update") /\ t.pc = "select"
      BY <1>2, <2>2 DEF Select, t
    <3> HIDE DEF u
    <3>3. u.op \in Edits => row.status \notin Dead
      BY <2>2, <3>1 DEF t
    <3>4. Sound(u, row, paid)
      BY <1>0, <3>1, <3>2, <3>3, Kinds DEF Sound, Holding, Counts, Derives, HasRow, Repeats
    <3> QED BY <1>a, <3>1, <3>2, <3>4
  <2> QED BY <2>1, <2>2
<1>3. CASE Change(c)
  <2> DEFINE u == [t EXCEPT !.own = Changed(@, t.op),
                            !.lock = IF Alone(c) THEN @ ELSE "nokey",
                            !.pc = IF t.op \in Closes THEN "commit" ELSE "status"]
  <2>1. /\ u.pc = (IF t.op \in Closes THEN "commit" ELSE "status")
        /\ u.own = Changed(t.own, t.op) /\ u.lock = (IF Alone(c) THEN t.lock ELSE "nokey")
        /\ u.op = t.op /\ u.amount = t.amount /\ u.raced = t.raced
    BY <1>0 DEF Transaction
  <2>2. Set(c, u) /\ t.pc = "change"
    BY <1>3 DEF Change, t
  <2> HIDE DEF u
  <2>3. /\ t.lock = "update" /\ t.amount = 0 /\ t.op \in Edits \cup Closes \cup Applies
        /\ t.own = row /\ ~t.raced /\ Alone(c) /\ (t.op \in Edits => row.status \notin Dead)
    BY <1>0, <2>2 DEF Holding, Derives, HasRow
  <2>4. /\ u.own.version = row.version + 1
        /\ u.own.status = IF t.op \in Edits THEN row.status ELSE t.op.status
    BY <2>1, <2>3 DEF Changed
  <2>5. Holding(u)
    BY <2>1, <2>3, Kinds DEF Holding, HasRow, Repeats, Ops
  <2>6. Counts(u, row)
    BY <2>1, <2>3, <2>4, Kinds DEF Counts, HasRow, Repeats
  <2>7. Derives(u, row, paid)
    BY <2>1, <2>3, <2>4, Kinds DEF Derives, HasRow
  <2> QED BY <1>a, <2>1, <2>2, <2>3, <2>5, <2>6, <2>7 DEF Sound
<1>4. CASE Insert(c)
  <2> DEFINE u == [t EXCEPT !.pc = "bump", !.amount = t.op.amount, !.lock = "share"]
  <2>1. /\ u.pc = "bump" /\ u.lock = "share" /\ u.op = t.op /\ u.amount = t.op.amount
        /\ u.raced = t.raced
    BY <1>0 DEF Transaction
  <2>2. Set(c, u) /\ t.pc = "insert" /\ MayTake(c, "share")
    BY <1>4 DEF Insert, t
  <2> HIDE DEF u
  <2>3. t.op \in Payments \cup External /\ ~t.raced
    BY <1>0, <2>2 DEF Holding
  <2>4. t.op.amount # 0
    BY <2>3, Values
  <2>5. Sound(u, row, paid)
    BY <2>1, <2>3, <2>4, Kinds DEF Sound, Holding, Counts, Derives, HasRow, Repeats
  <2> QED BY <1>a, <2>1, <2>2, <2>5
<1>5. CASE InsertDuplicate(c)
  <2> DEFINE u == [t EXCEPT !.pc = "status"]
  <2>1. /\ u.pc = "status" /\ u.lock = t.lock /\ u.op = t.op /\ u.amount = t.amount
        /\ u.raced = t.raced
    BY <1>0 DEF Transaction
  <2>2. Set(c, u) /\ t.pc = "insert" /\ t.op \in External
    BY <1>5 DEF InsertDuplicate, t
  <2> HIDE DEF u
  <2>3. t.lock = "none" /\ t.amount = 0 /\ ~t.raced
    BY <1>0, <2>2 DEF Holding
  <2>4. Sound(u, row, paid)
    BY <2>1, <2>2, <2>3, Kinds DEF Sound, Holding, Counts, Derives, HasRow, Repeats, Ops
  <2> QED BY <1>a, <2>1, <2>2, <2>4
<1>6. CASE Bump(c)
  <2> DEFINE u == [t EXCEPT !.pc = "status", !.lock = "nokey",
                            !.own = [row EXCEPT !.version = @ + 1]]
  <2>1. /\ u.pc = "status" /\ u.lock = "nokey" /\ u.op = t.op /\ u.amount = t.amount
        /\ u.own.version = row.version + 1 /\ u.own.status = row.status
        /\ u.raced = t.raced
    BY <1>0 DEF Transaction, Invoice
  <2>2. Set(c, u) /\ t.pc = "bump" /\ MayTake(c, "nokey")
    BY <1>6 DEF Bump, MayBump, t
  <2> HIDE DEF u
  <2>3. t.op \in Payments \cup External /\ t.amount # 0 /\ ~t.raced
    BY <1>0, <2>2 DEF Holding
  <2>4. Sound(u, row, paid)
    BY <2>1, <2>3, Kinds DEF Sound, Holding, Counts, Derives, HasRow, Repeats, Ops
  <2> QED BY <1>a, <2>1, <2>2, <2>4
<1>7. CASE ReadStatus(c)
  <2>1. t.pc = "status" /\ (Repeats(t) \/ ~t.raced)
    BY <1>0, <1>7 DEF ReadStatus, Holding, t
  <2>2. CASE Seen(c).status \in Dead
    <3> DEFINE u == [t EXCEPT !.pc = "commit"]
    <3>1. /\ u.pc = "commit" /\ u.lock = t.lock /\ u.op = t.op /\ u.amount = t.amount
          /\ u.own = t.own /\ u.raced = t.raced
      BY <1>0 DEF Transaction
    <3>2. Set(c, u)
      BY <1>7, <2>2 DEF ReadStatus, t
    <3> HIDE DEF u
    <3>3. Holding(u) /\ Counts(u, row)
      BY <1>0, <2>1, <3>1 DEF Holding, Counts, HasRow, Repeats
    <3>4. Derives(u, row, paid)
      <4>1. HasRow(t) => t.own.status \in Dead
        BY <1>0, <2>2 DEF Sees
      <4>2. HasRow(t) => ~Repeats(t)
        BY <1>0, <2>1 DEF Holding, HasRow
      <4> QED BY <1>0, <2>1, <3>1, <4>1, <4>2 DEF Derives, HasRow, Repeats, Holding, Ops
    <3> QED BY <1>a, <3>1, <3>2, <3>3, <3>4 DEF Sound
  <2>3. CASE Seen(c).status \notin Dead
    <3> DEFINE u == [t EXCEPT !.pc = "sum", !.total = Seen(c).total]
    <3>1. /\ u.pc = "sum" /\ u.lock = t.lock /\ u.op = t.op /\ u.amount = t.amount
          /\ u.own = t.own /\ u.raced = t.raced /\ u.total = Seen(c).total
      BY <1>0 DEF Transaction
    <3>2. Set(c, u)
      BY <1>7, <2>3 DEF ReadStatus, t
    <3> HIDE DEF u
    <3>3. Holding(u) /\ Counts(u, row)
      BY <1>0, <2>1, <3>1 DEF Holding, Counts, HasRow, Repeats
    <3>4. Sees(u, row) = Seen(c)
      BY <1>0, <3>1 DEF Sees, HasRow
    <3>5. Derives(u, row, paid)
      BY <1>0, <2>1, <2>3, <3>1, <3>4 DEF Derives, HasRow
    <3> QED BY <1>a, <3>1, <3>2, <3>3, <3>5 DEF Sound
  <2> QED BY <2>2, <2>3
<1>8. CASE SumPayments(c)
  <2> DEFINE u == [t EXCEPT !.pc = "set", !.sum = paid + t.amount]
  <2>1. /\ u.pc = "set" /\ u.lock = t.lock /\ u.op = t.op /\ u.amount = t.amount
        /\ u.own = t.own /\ u.raced = t.raced /\ u.total = t.total /\ u.sum = paid + t.amount
    BY <1>0 DEF Transaction
  <2>2. Set(c, u) /\ t.pc = "sum"
    BY <1>8 DEF SumPayments, t
  <2> HIDE DEF u
  <2>3. Holding(u) /\ Counts(u, row)
    BY <1>0, <2>1, <2>2 DEF Holding, Counts, HasRow, Repeats
  <2>4. Sees(u, row) = Sees(t, row)
    BY <2>1 DEF Sees, HasRow
  <2>5. Derives(u, row, paid)
    BY <1>0, <2>1, <2>2, <2>4 DEF Derives, HasRow
  <2> QED BY <1>a, <2>1, <2>2, <2>3, <2>5 DEF Sound
<1>9. CASE SetStatus(c)
  <2> DEFINE own == [Seen(c) EXCEPT !.status = Derived(t.total, t.sum)]
             lock == IF Alone(c) THEN t.lock ELSE "nokey"
             u == [t EXCEPT !.pc = "commit", !.lock = lock, !.own = own]
  <2>1. /\ u.pc = "commit" /\ u.lock = lock /\ u.op = t.op /\ u.amount = t.amount
        /\ u.own = own /\ u.raced = t.raced
    BY <1>0 DEF Transaction
  <2>2. Set(c, u) /\ t.pc = "set" /\ MayTake(c, "nokey")
    BY <1>9 DEF SetStatus, t
  <2>3. Sees(t, row) \in Invoice
    BY <1>0 DEF Sees
  <2>4. /\ own.status = Derived(t.total, t.sum) /\ own.total = Sees(t, row).total
        /\ own.version = Sees(t, row).version
    BY <1>0, <2>3 DEF Invoice
  <2>5. HasRow(u) /\ (~HasRow(t) => Repeats(t) /\ u.lock = "nokey")
        /\ (HasRow(t) => u.lock = t.lock /\ ~Repeats(t)) /\ t.op \in Ops
    BY <1>0, <2>1, <2>2 DEF Holding, HasRow
  <2> HIDE DEF u, own, lock
  <2>6. Holding(u)
    BY <1>0, <2>1, <2>2, <2>5 DEF Holding, HasRow, Repeats
  <2>7. Counts(u, row)
    BY <1>0, <2>1, <2>2, <2>4, <2>5 DEF Counts, HasRow, Repeats, Sees
  <2>8. Derives(u, row, paid)
    <3>1. t.op \notin Closes
      <4>1. t.op \in Closes => ~Repeats(t)
        BY Kinds DEF Repeats
      <4> QED BY <1>0, <2>2, <2>5, <4>1 DEF Derives
    <3>2. t.op \in Applies => HasRow(t)
      BY <2>5, Kinds DEF Repeats
    <3>3. t.op \in Edits => HasRow(t)
      BY <2>5, Kinds DEF Repeats
    <3>4. ASSUME ~t.raced
          PROVE  /\ u.own.status = Derived(u.own.total, paid + u.amount)
                 /\ IF u.op \in Applies THEN u.op.status \notin Dead ELSE row.status \notin Dead
      <4>1. /\ Sees(t, row).status \notin Dead /\ t.total = Sees(t, row).total
            /\ t.sum = paid + t.amount
        BY <1>0, <2>2, <3>4 DEF Derives
      <4>2. CASE u.op \in Applies
        BY <1>0, <2>1, <2>2, <2>4, <3>2, <4>1, <4>2 DEF Derives, Sees
      <4>3. CASE u.op \notin Applies
        BY <1>0, <2>1, <2>2, <2>4, <3>1, <4>1, <4>3 DEF Derives, Sees
      <4> QED BY <4>2, <4>3
    <3>5. u.op \in Edits => row.status \notin Dead
      BY <1>0, <2>1, <3>3 DEF Derives
    <3> QED BY <2>1, <3>1, <3>4, <3>5 DEF Derives
  <2> QED BY <1>a, <2>1, <2>2, <2>5, <2>6, <2>7, <2>8 DEF Sound, lock
<1>10. CASE Abort(c)
  BY <1>10, <1>a, IdleSound DEF Abort, Idle
<1> QED BY <1>1, <1>2, <1>3, <1>4, <1>5, <1>6, <1>7, <1>8, <1>9, <1>10

\* The commit leaves the other transactions sound, and a row whose status and
\* version are the ones this one has computed.
LEMMA CommitStep ==
  ASSUME TypeOK, IInv, NEW c \in Clients, Commit(c)
  PROVE  IInv'
<1> DEFINE t == tx[c]
<1>0. /\ row \in Invoice /\ paid \in Nat /\ t.amount \in Nat /\ writes \in Nat
      /\ t.pc = "commit" /\ Holding(t) /\ Counts(t, row) /\ Derives(t, row, paid)
      /\ (Alone(c) <=> HasRow(t)) /\ (HasRow(t) => t.own \in Invoice)
      /\ (Duplicate(c) <=> Repeats(t))
      /\ \A d \in Clients : tx[d] \in Transaction
  <2>1. t \in Transaction /\ t.amount \in Amounts \cup {0}
    BY DEF TypeOK, Transaction
  <2>2. t.amount \in Nat
    BY <2>1, AmountsNat
  <2> QED BY <2>2 DEF TypeOK, IInv, Sound, Alone, HasRow, Commit, Duplicate, Repeats
<1>1. /\ row' = IF HasRow(t) THEN t.own ELSE row
      /\ paid' = paid + t.amount
      /\ \A d \in Clients : tx'[d] = IF d = c THEN Idle
                                     ELSE IF HasRow(t) THEN OutOfDate(tx[d]) ELSE tx[d]
      /\ writes' = IF Repeats(t) THEN writes ELSE writes + 1
      /\ life' = IF t.op \in Closes \cup Applies THEN t.op.status ELSE life
      /\ ~stale' => t.op \in Closes \cup Applies \/ (~stale /\ ~(HasRow(t) /\ t.raced))
  BY <1>0 DEF Commit, Seen, t
<1>2. ~HasRow(t) => Repeats(t) /\ paid' = paid /\ row' = row
  BY <1>0, <1>1 DEF Holding, Repeats
<1> HIDE DEF t
<1>3. LocksCompatible'
  <2>1. ASSUME NEW d \in Clients PROVE tx'[d].lock \in {"none", tx[d].lock}
    <3>1. OutOfDate(tx[d]).lock = tx[d].lock
      BY <1>0 DEF OutOfDate, Transaction
    <3>2. Idle.lock = "none"
      BY DEF Idle
    <3> QED BY <1>1, <3>1, <3>2
  <2> SUFFICES ASSUME NEW d \in Clients, NEW e \in Clients, d # e
               PROVE  {tx'[d].lock, tx'[e].lock} \notin Conflicting
    BY DEF LocksCompatible
  <2>2. {tx[d].lock, tx[e].lock} \notin Conflicting
    BY DEF IInv, LocksCompatible
  <2> QED BY <2>1, <2>2 DEF Conflicting
<1>4. ASSUME NEW d \in Clients PROVE Sound(tx'[d], row', paid')
  <2>1. CASE d = c
    BY <1>1, <2>1, IdleSound
  <2>2. CASE d # c /\ ~HasRow(t)
    BY <1>1, <1>2, <2>2 DEF IInv
  <2>3. CASE d # c /\ HasRow(t)
    <3> DEFINE v == tx[d]
               u == OutOfDate(v)
    <3>1. ~HasRow(v)
      BY <1>0, <2>3, OneWriter DEF IInv, Alone, HasRow
    <3>2. Holding(v) /\ v \in Transaction
      BY <1>0 DEF IInv, Sound
    <3>3. /\ u.pc = v.pc /\ u.lock = v.lock /\ u.op = v.op /\ u.amount = v.amount
          /\ v.pc \in {"sum", "set"} => u.raced = TRUE
          /\ v.pc \notin {"sum", "set"} => u.raced = v.raced
      BY <3>2 DEF OutOfDate, Transaction
    <3> HIDE DEF u, v
    <3>4. v.pc # "change" /\ (v.pc \in {"status", "sum", "set", "commit"} => Repeats(v))
      BY <3>1, <3>2 DEF Holding, HasRow
    <3>5. Holding(u)
      BY <3>2, <3>3, <3>4 DEF Holding, HasRow, Repeats
    <3>6. Counts(u, row') /\ Derives(u, row', paid')
      BY <3>1, <3>3, <3>4, Kinds DEF Counts, Derives, HasRow, Repeats
    <3> QED BY <1>1, <2>3, <3>5, <3>6 DEF Sound, u, v
  <2> QED BY <2>1, <2>2, <2>3
<1>5. StatusFollows'
  <2> SUFFICES ASSUME ~stale'
               PROVE  IF life' \in Dead THEN row'.status = life'
                      ELSE row'.status = Derived(row'.total, paid')
    BY DEF StatusFollows
  <2>a. \A total, sum : Derived(total, sum) \notin Dead
    BY DEF Derived, Dead
  <2>1. CASE ~HasRow(t)
    <3>1. t.op \notin Closes \cup Applies
      BY <1>2, <2>1, Kinds DEF Repeats
    <3> QED BY <1>1, <1>2, <2>1, <3>1 DEF IInv, StatusFollows
  <2>2. CASE HasRow(t) /\ t.op \in Closes
    BY <1>0, <1>1, <2>2 DEF Derives, Closes
  <2>3. CASE HasRow(t) /\ t.op \in Applies
    <3>1. ~t.raced /\ t.op \notin Closes
      BY <1>0, <2>3, Kinds DEF Holding, Repeats
    <3> QED BY <1>0, <1>1, <2>3, <3>1 DEF Derives
  <2>4. CASE HasRow(t) /\ t.op \notin Closes \cup Applies
    <3>1. ~t.raced /\ ~stale /\ life' = life
      BY <1>1, <2>4
    <3>2. IF life \in Dead THEN row.status = life ELSE row.status \notin Dead
      BY <2>a, <3>1 DEF IInv, StatusFollows
    <3>3. \/ t.own.status = row.status /\ row.status \in Dead
          \/ t.own.status = Derived(t.own.total, paid + t.amount) /\ row.status \notin Dead
      BY <1>0, <2>4, <3>1 DEF Derives
    <3> QED BY <1>1, <2>4, <3>1, <3>2, <3>3
  <2> QED BY <2>1, <2>2, <2>3, <2>4
<1>6. EveryWriteCounts'
  BY <1>0, <1>1, <1>2 DEF IInv, EveryWriteCounts, Counts
<1> QED BY <1>3, <1>4, <1>5, <1>6 DEF IInv

-----------------------------------------------------------------------------
(* The theorems *)

LEMMA Inductive == TypeOK /\ IInv /\ [Next]_vars => IInv'
<1> SUFFICES ASSUME TypeOK, IInv, [Next]_vars PROVE IInv'
  OBVIOUS
<1>1. CASE UNCHANGED vars
  BY <1>1 DEF vars, IInv, LocksCompatible, StatusFollows, EveryWriteCounts
<1> QED BY <1>1, StatementStep, CommitStep DEF Next, Step

LEMMA InitInv == Init => TypeOK /\ IInv
<1> SUFFICES ASSUME Init PROVE TypeOK /\ IInv
  OBVIOUS
<1>1. row \in Invoice /\ row.status = "open" /\ row.version = 1
  BY DEF Init, Invoice, Statuses
<1>2. TypeOK
  <2>1. tx \in [Clients -> Transaction]
    BY IdleTyped DEF Init, WellTyped
  <2>2. \A c \in Clients : tx[c] = Idle /\ ~Alone(c)
    BY DEF Init, Idle, Alone
  <2>3. paid \in Nat /\ refs \subseteq Refs /\ ops \in 0..MaxOps /\ writes \in Nat
    BY ConstantsOK DEF ConstantsOK, Init
  <2>4. life \in {"open"} \cup Dead
    BY DEF Init
  <2>5. stale \in BOOLEAN
    BY DEF Init
  <2> QED BY <1>1, <2>1, <2>2, <2>3, <2>4, <2>5 DEF TypeOK
<1>3. LocksCompatible
  BY DEF Init, LocksCompatible, Idle, Conflicting
<1>4. StatusFollows /\ EveryWriteCounts
  BY <1>1 DEF Init, StatusFollows, EveryWriteCounts, Derived, Dead
<1> QED BY <1>2, <1>3, <1>4, IdleSound DEF Init, IInv

LEMMA Invariant == Spec => [](TypeOK /\ IInv)
<1>1. IInv => \A c \in Clients : Holding(tx[c])
  BY DEF IInv, Sound
<1>2. TypeOK /\ IInv /\ [Next]_vars => (TypeOK /\ IInv)'
  BY <1>1, TypeStep, Inductive
<1> QED BY <1>2, InitInv, PTL DEF Spec

\* Every reachable state is well typed: a transaction that is over has given
\* up its locks.
THEOREM TypeCorrect == Spec => []TypeOK
  BY Invariant, PTL

\* However transactions interleave, the status of an invoice follows its
\* payments and its last lifecycle, unless a repeated external payment has
\* written a status it derived from what had changed since.
THEOREM StatusFollowsPayments == Spec => []StatusFollows
<1>1. IInv => StatusFollows
  BY DEF IInv
<1> QED BY <1>1, Invariant, PTL

\* However transactions interleave, no edit, lifecycle or payment shares its
\* version with another.
THEOREM VersionsCount == Spec => []EveryWriteCounts
<1>1. IInv => EveryWriteCounts
  BY DEF IInv
<1> QED BY <1>1, Invariant, PTL

-----------------------------------------------------------------------------
(* Dead invoices *)

\* Nothing that a transaction has read is out of date.
UpToDate == ~stale /\ \A c \in Clients : ~tx[c].raced

LEMMA SticksUpToDate == IInv /\ UpToDate => DeadIsSticky
  BY DEF IInv, UpToDate, StatusFollows, DeadIsSticky

\* What becomes of stale, and of a transaction that does not commit.
LEMMA StaleStep ==
  ASSUME Next, ~stale, \A c \in Clients : ~tx[c].raced PROVE ~stale'
<1>1. ASSUME NEW c \in Clients, NEW op, Begin(c, op) PROVE ~stale'
  BY <1>1 DEF Begin
<1>2. ASSUME NEW c \in Clients, Step(c) \/ Abort(c) PROVE ~stale'
  <2>1. CASE Commit(c)
    BY <2>1 DEF Commit
  <2>2. CASE ~Commit(c)
    <3>1. UNCHANGED Pending
      BY <1>2, <2>2 DEF Step, Abort, Set, Select, Change, Insert, InsertDuplicate, Bump,
                        ReadStatus, SumPayments, SetStatus
    <3> QED BY <3>1 DEF Pending
  <2> QED BY <2>1, <2>2
<1> QED BY <1>1, <1>2 DEF Next

\* A statement that does not end the transaction.
LEMMA Continues ==
  ASSUME TypeOK, NEW c \in Clients, Step(c), ~Commit(c)
  PROVE  /\ \A d \in Clients : d # c => tx'[d] = tx[d]
         /\ \/ Select(c) /\ tx'[c] = Idle
            \/ /\ tx'[c].op = tx[c].op /\ tx'[c].raced = tx[c].raced
               /\ tx'[c].amount = IF Insert(c) THEN tx[c].op.amount ELSE tx[c].amount
<1>1. tx[c] \in Transaction
  BY DEF TypeOK
<1>2. ASSUME NEW t, Set(c, t)
      PROVE  tx'[c] = t /\ \A d \in Clients : d # c => tx'[d] = tx[d]
  BY <1>2 DEF Set, TypeOK
<1>3. CASE Select(c)
  <2> DEFINE t == [tx[c] EXCEPT !.pc = "change", !.own = row, !.lock = "update"]
  <2>1. Set(c, Idle) \/ Set(c, t)
    BY <1>3 DEF Select
  <2>2. t.op = tx[c].op /\ t.raced = tx[c].raced /\ t.amount = tx[c].amount
    BY <1>1 DEF Transaction
  <2>3. ~Insert(c)
    BY <1>3 DEF Select, Insert
  <2> HIDE DEF t
  <2> QED BY <1>2, <1>3, <2>1, <2>2, <2>3
<1>4. CASE Insert(c)
  <2> DEFINE t == [tx[c] EXCEPT !.pc = "bump", !.amount = tx[c].op.amount, !.lock = "share"]
  <2>1. Set(c, t)
    BY <1>4 DEF Insert
  <2>2. t.op = tx[c].op /\ t.raced = tx[c].raced /\ t.amount = tx[c].op.amount
    BY <1>1 DEF Transaction
  <2> HIDE DEF t
  <2> QED BY <1>2, <1>4, <2>1, <2>2
<1>5. ASSUME NEW t, Set(c, t), ~Insert(c),
             t.op = tx[c].op, t.raced = tx[c].raced, t.amount = tx[c].amount
      PROVE  /\ \A d \in Clients : d # c => tx'[d] = tx[d]
             /\ tx'[c].op = tx[c].op /\ tx'[c].raced = tx[c].raced
             /\ tx'[c].amount = IF Insert(c) THEN tx[c].op.amount ELSE tx[c].amount
  BY <1>2, <1>5
<1>6. CASE Change(c) /\ ~Insert(c)
  <2> DEFINE t == [tx[c] EXCEPT !.own = Changed(@, tx[c].op),
                                !.lock = IF Alone(c) THEN @ ELSE "nokey",
                                !.pc = IF tx[c].op \in Closes THEN "commit" ELSE "status"]
  <2>1. Set(c, t)
    BY <1>6 DEF Change
  <2>2. t.op = tx[c].op /\ t.raced = tx[c].raced /\ t.amount = tx[c].amount
    BY <1>1 DEF Transaction
  <2> HIDE DEF t
  <2> QED BY <1>5, <1>6, <2>1, <2>2
<1>7. CASE InsertDuplicate(c) /\ ~Insert(c)
  <2> DEFINE t == [tx[c] EXCEPT !.pc = "status"]
  <2>1. Set(c, t)
    BY <1>7 DEF InsertDuplicate
  <2>2. t.op = tx[c].op /\ t.raced = tx[c].raced /\ t.amount = tx[c].amount
    BY <1>1 DEF Transaction
  <2> HIDE DEF t
  <2> QED BY <1>5, <1>7, <2>1, <2>2
<1>8. CASE Bump(c) /\ ~Insert(c)
  <2> DEFINE t == [tx[c] EXCEPT !.pc = "status", !.lock = "nokey",
                                !.own = [row EXCEPT !.version = @ + 1]]
  <2>1. Set(c, t)
    BY <1>8 DEF Bump
  <2>2. t.op = tx[c].op /\ t.raced = tx[c].raced /\ t.amount = tx[c].amount
    BY <1>1 DEF Transaction
  <2> HIDE DEF t
  <2> QED BY <1>5, <1>8, <2>1, <2>2
<1>9. CASE ReadStatus(c) /\ ~Insert(c)
  <2> DEFINE t == IF Seen(c).status \in Dead THEN [tx[c] EXCEPT !.pc = "commit"]
                  ELSE [tx[c] EXCEPT !.pc = "sum", !.total = Seen(c).total]
  <2>1. Set(c, t)
    BY <1>9 DEF ReadStatus
  <2>2. t.op = tx[c].op /\ t.raced = tx[c].raced /\ t.amount = tx[c].amount
    BY <1>1 DEF Transaction
  <2> HIDE DEF t
  <2> QED BY <1>5, <1>9, <2>1, <2>2
<1>10. CASE SumPayments(c) /\ ~Insert(c)
  <2> DEFINE t == [tx[c] EXCEPT !.pc = "set", !.sum = paid + tx[c].amount]
  <2>1. Set(c, t)
    BY <1>10 DEF SumPayments
  <2>2. t.op = tx[c].op /\ t.raced = tx[c].raced /\ t.amount = tx[c].amount
    BY <1>1 DEF Transaction
  <2> HIDE DEF t
  <2> QED BY <1>5, <1>10, <2>1, <2>2
<1>11. CASE SetStatus(c) /\ ~Insert(c)
  <2> DEFINE t == [tx[c] EXCEPT !.pc = "commit", !.lock = IF Alone(c) THEN @ ELSE "nokey",
                     !.own = [Seen(c) EXCEPT !.status = Derived(tx[c].total, tx[c].sum)]]
  <2>1. Set(c, t)
    BY <1>11 DEF SetStatus
  <2>2. t.op = tx[c].op /\ t.raced = tx[c].raced /\ t.amount = tx[c].amount
    BY <1>1 DEF Transaction
  <2> HIDE DEF t
  <2> QED BY <1>5, <1>11, <2>1, <2>2
<1> QED BY <1>3, <1>4, <1>6, <1>7, <1>8, <1>9, <1>10, <1>11 DEF Step

\* One client at a time: its transaction is alone.
OneAtATime == \E c : Clients = {c}

LEMMA AloneUpToDate ==
  ASSUME OneAtATime, TypeOK, UpToDate, [Next]_vars PROVE UpToDate'
<1>1. CASE UNCHANGED vars
  BY <1>1 DEF vars, UpToDate
<1>2. CASE Next
  <2>1. ~stale'
    BY <1>2, StaleStep DEF UpToDate
  <2>2. PICK c \in Clients : (\E op \in Ops : Begin(c, op)) \/ Step(c) \/ Abort(c)
    BY <1>2 DEF Next
  <2>3. /\ Clients = {c} /\ tx[c] \in Transaction /\ ~tx[c].raced /\ ~Idle.raced
        /\ DOMAIN tx = Clients
    BY DEF OneAtATime, UpToDate, TypeOK, Idle
  <2>4. ASSUME NEW t, tx' = [tx EXCEPT ![c] = t], ~t.raced PROVE UpToDate'
    BY <2>1, <2>3, <2>4 DEF UpToDate
  <2>5. ASSUME NEW op \in Ops, Begin(c, op) PROVE UpToDate'
    <3> DEFINE t == [Idle EXCEPT !.op = op,
                       !.pc = IF op \in Payments \cup External THEN "insert" ELSE "select"]
    <3>1. ~t.raced /\ tx' = [tx EXCEPT ![c] = t]
      BY <2>5 DEF Begin, Idle
    <3> HIDE DEF t
    <3> QED BY <2>4, <3>1
  <2>6. CASE Step(c) /\ ~Commit(c)
    <3>1. tx'[c] = Idle \/ tx'[c].raced = tx[c].raced
      BY <2>6, Continues
    <3> QED BY <2>1, <2>3, <3>1 DEF UpToDate
  <2>7. CASE Commit(c)
    BY <2>1, <2>3, <2>7 DEF Commit, UpToDate
  <2>8. CASE Abort(c)
    BY <2>3, <2>4, <2>8 DEF Abort, Set
  <2> QED BY <2>2, <2>5, <2>6, <2>7, <2>8
<1> QED BY <1>1, <1>2

\* recomputePaymentStatus, "voided/deleted are sticky": so they are as long as
\* one transaction runs at a time.
THEOREM DeadStaysAlone == ASSUME OneAtATime PROVE Spec => []DeadIsSticky
<1>1. OneAtATime
  OBVIOUS
<1>2. Init => UpToDate
  BY DEF Init, UpToDate, Idle
<1>3. TypeOK /\ UpToDate /\ [Next]_vars => UpToDate'
  BY <1>1, AloneUpToDate
<1> QED BY <1>2, <1>3, SticksUpToDate, Invariant, PTL DEF Spec

\* A transaction that repeats an external payment, past its insert.
NoneRepeats ==
  ~stale /\ \A c \in Clients : Repeats(tx[c]) => tx[c].pc \in {"idle", "insert"}

LEMMA NoneRepeatsStep ==
  ASSUME TypeOK, IInv, NoneRepeats, [Next]_vars, \A c \in Clients : ~InsertDuplicate(c)
  PROVE  NoneRepeats'
<1>0. \A c \in Clients : Holding(tx[c]) /\ tx[c] \in Transaction
  BY DEF IInv, Sound, TypeOK
<1>1. CASE UNCHANGED vars
  BY <1>1 DEF vars, NoneRepeats
<1>2. CASE Next
  <2>1. ~stale'
    <3>1. \A c \in Clients : ~tx[c].raced
      BY <1>0 DEF Holding, NoneRepeats
    <3> QED BY <1>2, <3>1, StaleStep DEF NoneRepeats
  <2>2. PICK c \in Clients : (\E op \in Ops : Begin(c, op)) \/ Step(c) \/ Abort(c)
    BY <1>2 DEF Next
  <2>3. ASSUME NEW t, tx' = [tx EXCEPT ![c] = t], Repeats(t) => t.pc \in {"idle", "insert"}
        PROVE  NoneRepeats'
    BY <2>1, <2>3 DEF NoneRepeats, TypeOK
  <2>4. ASSUME NEW op \in Ops, Begin(c, op) PROVE NoneRepeats'
    <3> DEFINE t == [Idle EXCEPT !.op = op,
                       !.pc = IF op \in Payments \cup External THEN "insert" ELSE "select"]
    <3>1. (Repeats(t) => t.pc \in {"idle", "insert"}) /\ tx' = [tx EXCEPT ![c] = t]
      BY <2>4 DEF Begin, Idle, Repeats
    <3> HIDE DEF t
    <3> QED BY <2>3, <3>1
  <2>5. CASE Abort(c)
    BY <2>3, <2>5 DEF Abort, Set, Idle
  <2>6. CASE Commit(c)
    <3>1. ASSUME NEW d \in Clients, Repeats(tx'[d]) PROVE tx'[d].pc \in {"idle", "insert"}
      <4>1. CASE d = c
        BY <2>6, <4>1 DEF Commit, Idle
      <4>2. CASE d # c
        <5>1. tx'[d] = OutOfDate(tx[d]) \/ tx'[d] = tx[d]
          BY <2>6, <4>2 DEF Commit
        <5>2. tx'[d].pc = tx[d].pc /\ tx'[d].op = tx[d].op /\ tx'[d].amount = tx[d].amount
          BY <1>0, <5>1 DEF OutOfDate, Transaction
        <5> QED BY <3>1, <5>2 DEF NoneRepeats, Repeats
      <4> QED BY <4>1, <4>2
    <3> QED BY <2>1, <3>1 DEF NoneRepeats
  <2>7. CASE Step(c) /\ ~Commit(c)
    <3>1. /\ \A d \in Clients : d # c => tx'[d] = tx[d]
          /\ \/ Select(c) /\ tx'[c] = Idle
             \/ /\ tx'[c].op = tx[c].op
                /\ tx'[c].amount = IF Insert(c) THEN tx[c].op.amount ELSE tx[c].amount
      BY <2>7, Continues
    <3>2. ASSUME Repeats(tx'[c]) PROVE tx'[c].pc = "idle"
      <4>1. CASE tx'[c] = Idle
        BY <4>1 DEF Idle
      <4>2. CASE Insert(c) /\ tx'[c].amount = tx[c].op.amount
        <5>1. tx[c].op \in Payments \cup External
          BY <1>0, <4>2 DEF Insert, Holding
        <5>2. tx[c].op.amount \in Amounts
          BY <5>1 DEF Payments, External
        <5>3. tx[c].op.amount # 0
          BY <5>2, ConstantsOK DEF ConstantsOK
        <5> QED BY <3>2, <4>2, <5>3 DEF Repeats
      <4>3. CASE ~Insert(c) /\ tx'[c].op = tx[c].op /\ tx'[c].amount = tx[c].amount
        <5>1. Repeats(tx[c])
          BY <3>2, <4>3 DEF Repeats
        <5>2. tx[c].pc \in {"idle", "insert"}
          BY <5>1 DEF NoneRepeats
        <5> QED BY <2>7, <4>3, <5>2 DEF Step, Select, Change, InsertDuplicate, Bump, ReadStatus,
                                        SumPayments, SetStatus
      <4> QED BY <3>1, <4>1, <4>2, <4>3
    <3> QED BY <2>1, <3>1, <3>2 DEF NoneRepeats
  <2> QED BY <2>2, <2>4, <2>5, <2>6, <2>7
<1> QED BY <1>1, <1>2

\* The same however transactions interleave, as long as no external payment
\* is repeated: that is the only way to a revived invoice.
THEOREM DeadStaysUnlessRepeated ==
  Spec /\ [][\A c \in Clients : ~InsertDuplicate(c)]_vars => []DeadIsSticky
<1>1. Init => NoneRepeats
  BY DEF Init, NoneRepeats, Idle
<1>2. TypeOK /\ IInv /\ NoneRepeats /\ [Next]_vars /\ [\A c \in Clients : ~InsertDuplicate(c)]_vars
      => NoneRepeats'
  <2>1. CASE UNCHANGED vars
    BY <2>1 DEF vars, NoneRepeats
  <2>2. CASE \A c \in Clients : ~InsertDuplicate(c)
    BY <2>2, NoneRepeatsStep
  <2> QED BY <2>1, <2>2
<1>3. IInv /\ NoneRepeats => DeadIsSticky
  BY DEF IInv, NoneRepeats, StatusFollows, DeadIsSticky
<1> QED BY <1>1, <1>2, <1>3, Invariant, PTL DEF Spec
=============================================================================
