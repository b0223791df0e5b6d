---------------------------- MODULE PaymentSync ----------------------------
(***************************************************************************)
(* The payment pipeline of src/src/services/syncService.ts: the payments   *)
(* each system has recorded, the links between them, and the workers that  *)
(* process their notifications, one awaited call per action.               *)
(*                                                                         *)
(* An internal row is the payment a user entered, or one allocation of a   *)
(* payment of the accounting system.  A payment entered internally is of   *)
(* two units, a line of the accounting system's payments of one.           *)
(* Payments are never changed, and each is notified once (EventQueue       *)
(* removes redeliveries).  The invoices are those of InvoiceSync, of which *)
(* this pipeline reads whether the row and the link exist.                 *)
(***************************************************************************)
EXTENDS Naturals, FiniteSets, Sequences, SequencesExt

CONSTANTS
  None,         \* null
  Invoices,     \* invoice numbers
  Workers,      \* the SyncWorker processes
  Splits,       \* the allocations users of the accounting system enter
  Stored,       \* those it makes of a payment that it is asked to store
  Faults,       \* the faults of AllFaults that may happen
  MaxInternal,  \* bound: payments entered internally
  MaxEntered,   \* bound: payments entered in the accounting system
  MaxExternal,  \* bound: payments ever recorded in the accounting system
  MaxFaults,    \* bound: faults in a behaviour
  MaxAttempts   \* options.maxAttempts of the workers

AllFaults == {"crash", "timeout", "transient", "permanent"}

\* What the accounting system may do with a payment: apply it to an invoice, in
\* one line or two, or a part of it, split it over two invoices, or keep it all
\* as the customer's credit.
Allocations == {<<>>} \cup {<<i>> : i \in Invoices}
                 \cup {<<i, j>> : i \in Invoices, j \in Invoices}

ASSUME ConstantsOK ==
  /\ IsFiniteSet(Invoices) /\ IsFiniteSet(Workers)
  /\ Splits \subseteq Allocations /\ Stored \subseteq Allocations
  /\ Faults \subseteq AllFaults
  /\ MaxInternal \in Nat /\ MaxEntered \in Nat /\ MaxExternal \in Nat
  /\ MaxFaults \in Nat /\ MaxAttempts \in Nat \ {0}

ExternalIds == 1..MaxExternal

VARIABLES
  stage,     \* of each invoice: "absent" internally, "known", "linked"
  rows,      \* the internal payments rows
  qbo,       \* the payment with each external id, or None
  made,      \* how many external ids have been given out
  links,     \* the entity_links rows of payments
  inbox,     \* the notifications that are not settled
  dead,      \* the notifications that were dead-lettered
  wk,        \* what each worker is doing
  divergent, \* rows audited as `applied_divergent`
  entered, faults

vars == <<stage, rows, qbo, made, links, inbox, dead, wk, divergent, entered, faults>>

-----------------------------------------------------------------------------
(* Types *)

\* num: of a row entered internally; ref: the payment whose allocation it is.
\* external_ref names that payment and the invoice, so that two lines of one
\* payment for one invoice have one row, of the first line's amount.
RowsOf == [num : 0..MaxInternal, ref : 0..MaxExternal, inv : Invoices]
UserRow(n, i)     == [num |-> n, ref |-> 0, inv |-> i]
AppliedRow(id, i) == [num |-> 0, ref |-> id, inv |-> i]

\* row: the internal row that referenceCode names, None for a user's payment.
Payment == [row : RowsOf \cup {None}, allocs : Allocations]

Event == [row : RowsOf \cup {None}, id : 0..MaxExternal, tries : 0..MaxAttempts]
FromInternal(r)  == [row |-> r, id |-> 0, tries |-> 0]
FromExternal(id) == [row |-> None, id |-> id, tries |-> 0]

Link == [row : RowsOf, id : ExternalIds]

Stages == {"idle", "lookup", "invoice", "find", "create", "read", "resolve", "apply",
           "link", "finish"}

\* A worker's local variables: the event, the external payment it acts on and
\* how many of its allocations it has applied.
Worker == [pc : Stages, ev : Event \cup {None}, id : 0..MaxExternal, p : Payment \cup {None},
           applied : 0..2]

Idle == [pc |-> "idle", ev |-> None, id |-> 0, p |-> None, applied |-> 0]

ASSUME NoneOK == None \notin RowsOf \cup Payment \cup Event

TypeOK ==
  /\ stage \in [Invoices -> {"absent", "known", "linked"}]
  /\ rows \subseteq RowsOf /\ divergent \subseteq RowsOf
  /\ qbo \in [ExternalIds -> Payment \cup {None}] /\ made \in 0..MaxExternal
  /\ links \subseteq Link
  /\ inbox \subseteq Event /\ dead \subseteq Event
  /\ wk \in [Workers -> Worker]
  /\ entered \in 0..MaxEntered /\ faults \in 0..MaxFaults

Init ==
  /\ stage \in [Invoices -> {"absent", "known"}]
  /\ rows = {} /\ made = 0 /\ links = {} /\ divergent = {}
  /\ qbo = [id \in ExternalIds |-> None]
  /\ inbox = {} /\ dead = {}
  /\ wk = [w \in Workers |-> Idle]
  /\ entered = 0 /\ faults = 0

-----------------------------------------------------------------------------
(* The users, and the invoice pipeline *)

\* addPayment and its webhook.
Enter(i) ==
  LET n == 1 + Cardinality({r \in rows : r.num > 0}) IN
  /\ stage[i] # "absent" /\ n <= MaxInternal
  /\ rows' = rows \cup {UserRow(n, i)}
  /\ inbox' = inbox \cup {FromInternal(UserRow(n, i))}
  /\ UNCHANGED <<stage, qbo, made, links, dead, wk, divergent, entered, faults>>

Record(p) ==
  /\ made < MaxExternal /\ made' = made + 1
  /\ qbo' = [qbo EXCEPT ![made + 1] = p]

\* A payment in the accounting system's own user interface, and its webhook.
EnterExternal(s) ==
  /\ entered < MaxEntered /\ entered' = entered + 1
  /\ Record([row |-> None, allocs |-> s])
  /\ inbox' = inbox \cup {FromExternal(made + 1)}
  /\ UNCHANGED <<stage, rows, links, dead, wk, divergent, faults>>

\* The invoice pipeline inserts and links an invoice.
InvoiceSynced(i) ==
  /\ stage[i] # "linked"
  /\ stage' = [stage EXCEPT ![i] = IF @ = "absent" THEN "known" ELSE "linked"]
  /\ UNCHANGED <<rows, qbo, made, links, inbox, dead, wk, divergent, entered, faults>>

-----------------------------------------------------------------------------
(* How a worker goes on, and how it ends *)

Goes(w, pc) == wk' = [wk EXCEPT ![w].pc = pc]
Others == <<stage, entered>>

\* ack: processed or skipped.
Done(w) ==
  /\ inbox' = inbox \ {wk[w].ev}
  /\ wk' = [wk EXCEPT ![w] = Idle]
  /\ UNCHANGED dead

DeadLetters(w) ==
  /\ inbox' = inbox \ {wk[w].ev} /\ dead' = dead \cup {wk[w].ev}
  /\ wk' = [wk EXCEPT ![w] = Idle]

\* handleError of an error that is not permanent.
Fails(w) ==
  \/ wk[w].ev.tries >= MaxAttempts /\ DeadLetters(w)
  \/ /\ wk[w].ev.tries < MaxAttempts
     /\ wk' = [wk EXCEPT ![w] = Idle]
     /\ UNCHANGED <<inbox, dead>>

Fault(f) == f \in Faults /\ faults < MaxFaults /\ faults' = faults + 1

Claim(w, e) ==
  /\ wk[w].pc = "idle"
  /\ e \in inbox /\ \A v \in Workers : wk[v].ev # e
  /\ LET claimed == [e EXCEPT !.tries = IF @ < MaxAttempts THEN @ + 1 ELSE @] IN
     /\ inbox' = (inbox \ {e}) \cup {claimed}
     /\ wk' = [wk EXCEPT ![w] = [Idle EXCEPT !.pc = "lookup", !.ev = claimed, !.id = e.id]]
  /\ UNCHANGED <<rows, qbo, made, links, dead, divergent, faults, Others>>

Internal(w) == wk[w].ev.row # None

\* Mutant of Lookup: the link is not looked for by the external id.
LookupInternalOnly(w) ==
  /\ wk[w].pc = "lookup"
  /\ IF Internal(w) /\ \E l \in links : l.row = wk[w].ev.row
     THEN Done(w)
     ELSE Goes(w, IF Internal(w) THEN "invoice" ELSE "read") /\ UNCHANGED <<inbox, dead>>
  /\ UNCHANGED <<rows, qbo, made, links, divergent, faults, Others>>

\* findByInternalId, findByExternalId of the payment's link: skip if there is one.
Lookup(w) ==
  /\ wk[w].pc = "lookup"
  /\ IF \E l \in links : IF Internal(w) THEN l.row = wk[w].ev.row ELSE l.id = wk[w].id
     THEN Done(w)
     ELSE Goes(w, IF Internal(w) THEN "invoice" ELSE "read") /\ UNCHANGED <<inbox, dead>>
  /\ UNCHANGED <<rows, qbo, made, links, divergent, faults, Others>>

-----------------------------------------------------------------------------
(* processInternalPayment *)

\* Mutant of InvoiceLink: a payment that comes too early is skipped.
InvoiceLinkSkips(w) ==
  /\ wk[w].pc = "invoice"
  /\ IF stage[wk[w].ev.row.inv] = "linked"
     THEN Goes(w, "find") /\ UNCHANGED <<inbox, dead>>
     ELSE Done(w)
  /\ UNCHANGED <<rows, qbo, made, links, divergent, faults, Others>>

\* The invoice's own event makes its link: until then the payment is retried.
InvoiceLink(w) ==
  /\ wk[w].pc = "invoice"
  /\ IF stage[wk[w].ev.row.inv] = "linked"
     THEN Goes(w, "find") /\ UNCHANGED <<inbox, dead>>
     ELSE Fails(w)
  /\ UNCHANGED <<rows, qbo, made, links, divergent, faults, Others>>

\* Mutant of Found: by an id that a retry does not have.
FoundById(w, id) == qbo[id] # None /\ wk[w].id = id

Found(w, id) == qbo[id] # None /\ qbo[id].row = wk[w].ev.row

\* findPaymentByReference.
Find(w) ==
  /\ wk[w].pc = "find"
  /\ \/ \E id \in ExternalIds :
          /\ Found(w, id)
          /\ wk' = [wk EXCEPT ![w] = [@ EXCEPT !.pc = "link", !.id = id, !.p = qbo[id]]]
     \/ (\A id \in ExternalIds : ~Found(w, id)) /\ Goes(w, "create")
  /\ UNCHANGED <<rows, qbo, made, links, inbox, dead, divergent, faults, Others>>

\* createPayment; the accounting system need not honour the allocation it is
\* asked for.  Its webhook comes for this payment as for any other.
Create(w) ==
  /\ wk[w].pc = "create"
  /\ \E s \in Stored :
       LET p == [row |-> wk[w].ev.row, allocs |-> s] IN
       /\ Record(p)
       /\ wk' = [wk EXCEPT ![w] = [@ EXCEPT !.pc = "link", !.id = made + 1, !.p = p]]
  /\ inbox' = inbox \cup {FromExternal(made + 1)}
  /\ UNCHANGED <<rows, links, dead, divergent, faults, Others>>

-----------------------------------------------------------------------------
(* processExternalPayment *)

\* getPayment: one without allocations is skipped.
Read(w) ==
  /\ wk[w].pc = "read"
  /\ IF qbo[wk[w].id].allocs = <<>> THEN Done(w)
     ELSE /\ wk' = [wk EXCEPT ![w] = [@ EXCEPT !.pc = "resolve", !.p = qbo[wk[w].id]]]
          /\ UNCHANGED <<inbox, dead>>
  /\ UNCHANGED <<rows, qbo, made, links, divergent, faults, Others>>

\* Mutant of Resolve: the invoices that are there are enough.
ResolveSome(w) ==
  /\ wk[w].pc = "resolve"
  /\ wk' = [wk EXCEPT ![w] = [@ EXCEPT !.pc = "apply",
              !.p.allocs = SelectSeq(@, LAMBDA i : stage[i] # "absent")]]
  /\ wk'[w].p.allocs # <<>>
  /\ UNCHANGED <<rows, qbo, made, links, inbox, dead, divergent, faults, Others>>

\* Every allocation's invoice is looked up before anything is written.
Resolve(w) ==
  /\ wk[w].pc = "resolve"
  /\ IF \A i \in ToSet(wk[w].p.allocs) : stage[i] # "absent"
     THEN Goes(w, "apply") /\ UNCHANGED <<inbox, dead>>
     ELSE Fails(w)
  /\ UNCHANGED <<rows, qbo, made, links, divergent, faults, Others>>

\* applyExternalPayment of the next allocation; the unique external_ref makes
\* the insert do nothing when an earlier attempt has made the row.
Apply(w) ==
  LET n == wk[w].applied + 1 IN
  /\ wk[w].pc = "apply"
  /\ rows' = rows \cup {AppliedRow(wk[w].id, wk[w].p.allocs[n])}
  /\ wk' = [wk EXCEPT ![w] = [@ EXCEPT !.applied = n,
              !.pc = IF n = Len(wk[w].p.allocs) THEN "link" ELSE "apply"]]
  /\ UNCHANGED <<qbo, made, links, inbox, dead, divergent, faults, Others>>

-----------------------------------------------------------------------------
(* Both *)

\* links.create, unique on either id; of an external payment with the row of
\* its first allocation.
MakeLink(w) ==
  LET l == [row |-> IF Internal(w) THEN wk[w].ev.row
                    ELSE AppliedRow(wk[w].id, wk[w].p.allocs[1]),
            id  |-> wk[w].id] IN
  /\ wk[w].pc = "link"
  /\ IF \E o \in links : o.row = l.row \/ o.id = l.id
     THEN Fails(w) /\ UNCHANGED links
     ELSE links' = links \cup {l} /\ Goes(w, "finish") /\ UNCHANGED <<inbox, dead>>
  /\ UNCHANGED <<rows, qbo, made, divergent, faults, Others>>

\* All of the payment's two units are applied to the invoice.
Whole(allocs, i) == allocs = <<i, i>>

\* Mutants of IsDivergent: what was asked for is what was done; the test of
\* the direction is the wrong way round.
NeverDivergent(w) == FALSE
DivergentExternal(w) == ~Internal(w) \/ ~Whole(wk[w].p.allocs, wk[w].ev.row.inv)

\* The amount applied to the invoice is not the amount of the payment.
IsDivergent(w) == Internal(w) /\ ~Whole(wk[w].p.allocs, wk[w].ev.row.inv)

\* The audit row, and the ack.
Finish(w) ==
  /\ wk[w].pc = "finish"
  /\ divergent' = IF IsDivergent(w) THEN divergent \cup {wk[w].ev.row} ELSE divergent
  /\ Done(w)
  /\ UNCHANGED <<rows, qbo, made, links, faults, Others>>

-----------------------------------------------------------------------------
(* Faults *)

\* The worker dies; the event is claimed again when its lease is over.
Crash(w) ==
  /\ wk[w].pc # "idle"
  /\ Fault("crash")
  /\ wk' = [wk EXCEPT ![w] = Idle]
  /\ UNCHANGED <<rows, qbo, made, links, inbox, dead, divergent, Others>>

\* A call to the provider throws without having had an effect; a permanent
\* error is not tried again.
ProviderFails(w) ==
  /\ wk[w].pc \in {"find", "create", "read"}
  /\ \/ Fault("transient") /\ Fails(w)
     \/ Fault("permanent") /\ DeadLetters(w)
  /\ UNCHANGED <<rows, qbo, made, links, divergent, Others>>

\* AmbiguousWriteError, or the lookups of toPaymentState fail after the write,
\* which may be for good.
TimesOut(w) ==
  /\ wk[w].pc = "create"
  /\ Fault("timeout")
  /\ \E s \in Stored : Record([row |-> wk[w].ev.row, allocs |-> s])
  /\ \E last \in BOOLEAN :
     /\ IF last THEN wk[w].ev.tries >= MaxAttempts \/ "permanent" \in Faults
                ELSE wk[w].ev.tries < MaxAttempts
     /\ inbox' = (inbox \ (IF last THEN {wk[w].ev} ELSE {})) \cup {FromExternal(made + 1)}
     /\ dead' = IF last THEN dead \cup {wk[w].ev} ELSE dead
  /\ wk' = [wk EXCEPT ![w] = Idle]
  /\ UNCHANGED <<rows, links, divergent, Others>>

-----------------------------------------------------------------------------
Step(w) ==
  \/ \E e \in inbox : Claim(w, e)
  \/ Lookup(w) \/ InvoiceLink(w) \/ Find(w) \/ Create(w)
  \/ Read(w) \/ Resolve(w) \/ Apply(w) \/ MakeLink(w) \/ Finish(w)

Next ==
  \/ \E i \in Invoices : Enter(i) \/ InvoiceSynced(i)
  \/ \E s \in Splits : EnterExternal(s)
  \/ \E w \in Workers : Step(w) \/ Crash(w) \/ ProviderFails(w) \/ TimesOut(w)

Spec == Init /\ [][Next]_vars

\* A worker that has something to do does it; the invoice pipeline gets to
\* every invoice.
FairSpec ==
  /\ Spec
  /\ \A w \in Workers : WF_vars(Step(w))
  /\ \A i \in Invoices : WF_vars(InvoiceSynced(i))

-----------------------------------------------------------------------------
(* Properties *)

\* Retries, crashes and lost answers never make two payments in the
\* accounting system of one that was entered internally.
ReplicatedOnce ==
  \A id, other \in ExternalIds :
    qbo[id] # None /\ qbo[other] # None /\ qbo[id].row # None /\ qbo[id].row = qbo[other].row
    => id = other

\* README "replicating it to the other side exactly once": the copy of an
\* internal payment does not come back as another internal payment.
NoDoubleCount ==
  \A id \in ExternalIds :
    qbo[id] # None /\ qbo[id].row # None => \A r \in rows : r.ref # id

\* A payment entered in the accounting system is linked, and its notification
\* never looked at again, only when every invoice it was allocated to has its
\* row.
LinkedIsWhole ==
  \A l \in links :
    qbo[l.id].row = None => \A i \in ToSet(qbo[l.id].allocs) : AppliedRow(l.id, i) \in rows

\* Where the accounting system put the money elsewhere, or a part of it, the
\* audit log says so.
DivergenceAudited ==
  \A l \in links :
    /\ l.row.num > 0 /\ ~Whole(qbo[l.id].allocs, l.row.inv)
    /\ \A w \in Workers : wk[w].ev = None \/ wk[w].ev.row # l.row
    => l.row \in divergent

\* Every payment that is entered internally gets its counterpart, or a dead
\* letter for an operator to requeue.
EventuallyReplicated ==
  \A n \in 1..MaxInternal : \A i \in Invoices :
    UserRow(n, i) \in rows ~> \/ \E l \in links : l.row = UserRow(n, i)
                              \/ \E e \in dead : e.row = UserRow(n, i)
=============================================================================
