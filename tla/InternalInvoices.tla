--------------------------- MODULE InternalInvoices ---------------------------
(***************************************************************************)
(* The transactions of src/src/models/repositories/                        *)
(* internalInvoiceRepository.ts on one invoice, one statement per action.  *)
(*                                                                         *)
(* PostgreSQL runs them at READ COMMITTED: a statement sees what was       *)
(* committed before it, and its own transaction's changes.  A row lock is  *)
(* "share" (FOR KEY SHARE, which the foreign key of an inserted payment    *)
(* takes on the invoice), "nokey" (FOR NO KEY UPDATE, an UPDATE of other   *)
(* than key columns) or "update" (SELECT ... FOR UPDATE).                  *)
(***************************************************************************)
EXTENDS Integers, FiniteSets

CONSTANTS
  Clients,  \* requests and workers that may have a transaction open
  Totals,   \* the totals an invoice may get
  Amounts,  \* the amounts of payments
  Refs,     \* external references of payments
  MaxOps,   \* bound: transactions in a behaviour
  None      \* no operation

Dead     == {"voided", "deleted"}
Statuses == {"open", "partial", "paid"} \cup Dead

ASSUME ConstantsOK ==
  /\ Totals \subseteq Nat /\ Amounts \subseteq Nat \ {0}
  /\ MaxOps \in Nat

VARIABLES
  row,     \* the invoices row as committed
  paid,    \* the sum of its committed payments
  refs,    \* the external references of the committed payments
  tx,      \* the open transaction of each client
  ops,     \* transactions begun
  \* History, read by properties only:
  writes,  \* committed changes of the invoice: edits, lifecycles, payments
  life,    \* what the last committed lifecycle or sync made of it: live or dead
  stale    \* a status was derived from what another transaction changed since

vars == <<row, paid, refs, tx, ops, writes, life, stale>>

-----------------------------------------------------------------------------
(* Operations and transactions *)

Edits    == [kind : {"update"}, total : Totals]
Closes   == [kind : {"setLifecycle"}, status : Dead]
Applies  == [kind : {"applyCanonical"}, status : {"open"} \cup Dead, total : Totals]
Payments == [kind : {"addPayment"}, amount : Amounts]
External == [kind : {"applyExternalPayment"}, amount : Amounts, ref : Refs]

Ops == Edits \cup Closes \cup Applies \cup Payments \cup External

Invoice == [status : Statuses, total : Totals, version : Nat]

\* A transaction: the row as it sees and changes it (while it has the row
\* locked for itself), what it inserted into payments, and the two numbers
\* recomputePaymentStatus has read, with whether they are out of date.
Transaction ==
  [pc : {"idle", "select", "change", "insert", "bump", "status", "sum", "set", "commit"},
   op : Ops \cup {None}, lock : {"none", "share", "nokey", "update"},
   own : Invoice \cup {None}, amount : Amounts \cup {0},
   total : Totals \cup {0}, sum : Nat, raced : BOOLEAN]

Idle == [pc |-> "idle", op |-> None, lock |-> "none", own |-> None, amount |-> 0,
         total |-> 0, sum |-> 0, raced |-> FALSE]

Alone(c) == tx[c].lock \in {"nokey", "update"}

\* A transaction that is over holds nothing, and one that has the row for
\* itself has a copy of it.
TypeOK ==
  /\ row \in Invoice /\ paid \in Nat /\ refs \subseteq Refs
  /\ tx \in [Clients -> Transaction]
  /\ \A c \in Clients : /\ tx[c].pc = "idle" => tx[c] = Idle
                        /\ Alone(c) => tx[c].own \in Invoice
  /\ ops \in 0..MaxOps /\ writes \in Nat
  /\ life \in {"open"} \cup Dead /\ stale \in BOOLEAN

Init ==
  /\ row \in [status : {"open"}, total : Totals, version : {1}]
  /\ paid = 0 /\ refs = {} /\ ops = 0 /\ writes = 0
  /\ tx = [c \in Clients |-> Idle]
  /\ life = "open" /\ stale = FALSE

-----------------------------------------------------------------------------
(* Row locks *)

Conflicting ==
  {{"share", "update"}, {"nokey"}, {"nokey", "update"}, {"update"}}

\* No other transaction holds a lock that conflicts with this one.
MayTake(c, lock) ==
  \A d \in Clients \ {c} : {lock, tx[d].lock} \notin Conflicting

\* The row as the next statement of c sees it.
Seen(c) == IF Alone(c) THEN tx[c].own ELSE row

Pending == <<row, paid, refs, ops, writes, life, stale>>

\* The statement only changes the transaction itself.
Set(c, t) == tx' = [tx EXCEPT ![c] = t] /\ UNCHANGED Pending

-----------------------------------------------------------------------------
(* Statements *)

Begin(c, op) ==
  /\ tx[c].pc = "idle" /\ ops < MaxOps
  /\ tx' = [tx EXCEPT ![c] = [Idle EXCEPT !.op = op,
       !.pc = IF op \in Payments \cup External THEN "insert" ELSE "select"]]
  /\ ops' = ops + 1
  /\ UNCHANGED <<row, paid, refs, writes, life, stale>>

\* Mutant of Select: without forUpdate the UPDATE below takes the lock, and
\* writes what was read here.
SelectUnlocked(c) ==
  /\ tx[c].pc = "select"
  /\ Set(c, [tx[c] EXCEPT !.pc = "change", !.own = row])

\* select ... forUpdate; an edit of a dead invoice is refused.
Select(c) ==
  /\ tx[c].pc = "select"
  /\ MayTake(c, "update")
  /\ Set(c, IF tx[c].op \in Edits /\ row.status \in Dead THEN Idle
            ELSE [tx[c] EXCEPT !.pc = "change", !.own = row, !.lock = "update"])

\* What the UPDATE of update, setLifecycle and applyCanonical makes of the row.
Changed(inv, op) ==
  [status  |-> IF op \in Edits THEN inv.status ELSE op.status,
   total   |-> IF op \in Closes THEN inv.total ELSE op.total,
   version |-> inv.version + 1]

\* Mutant of Change: update does not recompute the status.
ChangeNoRecompute(c) ==
  /\ tx[c].pc = "change"
  /\ Set(c, [tx[c] EXCEPT !.own = Changed(@, tx[c].op),
                          !.pc = IF tx[c].op \in Applies THEN "status" ELSE "commit"])

\* setLifecycle does not recompute the status.
Change(c) ==
  /\ tx[c].pc = "change"
  /\ MayTake(c, "nokey")
  /\ Set(c, [tx[c] EXCEPT !.own = Changed(@, tx[c].op),
                          !.lock = IF Alone(c) THEN @ ELSE "nokey",
                          !.pc = IF tx[c].op \in Closes THEN "commit" ELSE "status"])

\* Another transaction has inserted the reference and not yet ended.
Inserting(ref) ==
  \E d \in Clients : tx[d].op \in External /\ tx[d].amount > 0 /\ tx[d].op.ref = ref

\* insert into payments; a reference that another transaction is inserting is
\* waited for.
Insert(c) ==
  /\ tx[c].pc = "insert"
  /\ tx[c].op \in External => tx[c].op.ref \notin refs /\ ~Inserting(tx[c].op.ref)
  /\ MayTake(c, "share")
  /\ Set(c, [tx[c] EXCEPT !.pc = "bump", !.amount = tx[c].op.amount, !.lock = "share"])

\* on conflict do nothing: the payment is there, only the status is recomputed.
InsertDuplicate(c) ==
  /\ tx[c].pc = "insert"
  /\ tx[c].op \in External /\ tx[c].op.ref \in refs
  /\ Set(c, [tx[c] EXCEPT !.pc = "status"])

\* Mutant of MayBump: the row is read with forUpdate first.
MayBumpForUpdate(c) == MayTake(c, "update")

MayBump(c) == MayTake(c, "nokey")

\* Mutant of Bump: left out.
BumpNothing(c) ==
  /\ tx[c].pc = "bump"
  /\ Set(c, [tx[c] EXCEPT !.pc = "status"])

\* bumpVersion
Bump(c) ==
  /\ tx[c].pc = "bump"
  /\ MayBump(c)
  /\ Set(c, [tx[c] EXCEPT !.pc = "status", !.lock = "nokey",
                          !.own = [row EXCEPT !.version = @ + 1]])

-----------------------------------------------------------------------------
(* recomputePaymentStatus *)

ReadStatus(c) ==
  /\ tx[c].pc = "status"
  /\ Set(c, IF Seen(c).status \in Dead THEN [tx[c] EXCEPT !.pc = "commit"]
            ELSE [tx[c] EXCEPT !.pc = "sum", !.total = Seen(c).total])

SumPayments(c) ==
  /\ tx[c].pc = "sum"
  /\ Set(c, [tx[c] EXCEPT !.pc = "set", !.sum = paid + tx[c].amount])

Derived(total, sum) ==
  IF sum <= 0 THEN "open" ELSE IF sum >= total THEN "paid" ELSE "partial"

SetStatus(c) ==
  /\ tx[c].pc = "set"
  /\ MayTake(c, "nokey")
  /\ Set(c, [tx[c] EXCEPT !.pc = "commit", !.lock = IF Alone(c) THEN @ ELSE "nokey",
                          !.own = [Seen(c) EXCEPT !.status = Derived(tx[c].total, tx[c].sum)]])

-----------------------------------------------------------------------------
(* The end of a transaction *)

\* The reference was there already: nothing but the status is written.
Duplicate(c) == tx[c].op \in External /\ tx[c].amount = 0

\* What c has read of the status or of the payments is out of date when
\* another transaction commits a change.
OutOfDate(t) == IF t.pc \in {"sum", "set"} THEN [t EXCEPT !.raced = TRUE] ELSE t

Commit(c) ==
  /\ tx[c].pc = "commit"
  /\ row' = Seen(c)
  /\ paid' = paid + tx[c].amount
  /\ refs' = IF tx[c].op \in External THEN refs \cup {tx[c].op.ref} ELSE refs
  /\ tx' = [d \in Clients |-> IF d = c THEN Idle
                              ELSE IF Alone(c) THEN OutOfDate(tx[d]) ELSE tx[d]]
  /\ writes' = IF Duplicate(c) THEN writes ELSE writes + 1
  /\ life' = IF tx[c].op \in Closes \cup Applies THEN tx[c].op.status ELSE life
  /\ stale' = IF tx[c].op \in Closes \cup Applies THEN FALSE
              ELSE stale \/ (Alone(c) /\ tx[c].raced)
  /\ UNCHANGED ops

\* Mutant of Abort: the connection goes back to the pool with its locks.
AbortKeepsLocks(c) ==
  /\ tx[c].pc # "idle"
  /\ Set(c, [tx[c] EXCEPT !.pc = "idle"])

\* A statement fails, or the process dies: the transaction is rolled back.
Abort(c) ==
  /\ tx[c].pc # "idle"
  /\ Set(c, Idle)

-----------------------------------------------------------------------------
Step(c) ==
  \/ Select(c) \/ Change(c)
  \/ Insert(c) \/ InsertDuplicate(c) \/ Bump(c)
  \/ ReadStatus(c) \/ SumPayments(c) \/ SetStatus(c)
  \/ Commit(c)

Next ==
  \E c \in Clients : (\E op \in Ops : Begin(c, op)) \/ Step(c) \/ Abort(c)

Spec == Init /\ [][Next]_vars

\* Every statement that the locks allow is executed in the end.
FairSpec == Spec /\ \A c \in Clients : WF_vars(Step(c))

-----------------------------------------------------------------------------
(* Properties *)

\* Between transactions the status is what the payments say, or what the last
\* lifecycle said, unless a repeated external payment has set it from what it
\* had read before another transaction committed: it locks nothing before.
StatusFollows ==
  ~stale => IF life \in Dead THEN row.status = life
            ELSE row.status = Derived(row.total, paid)

\* Every edit, lifecycle and payment moves the version on by one, whatever
\* runs beside it: the dedupe key of its notification is a new one.
EveryWriteCounts == row.version = 1 + writes

\* No two transactions wait for each other's row locks.
EventuallyDone ==
  \A c \in Clients : tx[c].pc # "idle" ~> tx[c].pc = "idle"

\* What recomputePaymentStatus says of itself (internalInvoiceRepository.ts:333,
\* "voided/deleted are sticky"): what was voided or deleted last is so still.
DeadIsSticky == life \in Dead => row.status \in Dead
=============================================================================
